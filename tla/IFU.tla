-------------------------------- MODULE IFU --------------------------------
(***************************************************************************)
(* The instruction fetch unit, npc/vsrc/IFU.sv: three state machines       *)
(* clocked together.  The first moves one read over the AXI read channel,  *)
(* the second asks the instruction cache to flush after a fence.i, the     *)
(* third holds at most one fetched instruction for the decoder.            *)
(*                                                                         *)
(* out_exception_cause is the constant 0 (instruction address misaligned)  *)
(* and is left out.                                                        *)
(***************************************************************************)
EXTENDS Params

VARIABLES
    \* input wires
    in_redirect_fire, in_redirect_pc, \* EXU: a jump, taken branch or trap
    in_fencei_done,                   \* WBU: a fence.i commits
    in_ready,                         \* IDU takes an instruction
    axi_arready, axi_rvalid, axi_rdata

VARIABLES
    axi_state, outstanding_pc, outstanding_stale,            \* read channel
    fencei_state, out_icache_flush, out_fencei_flush_done,   \* fence.i
    ifu_state, fetch_pc, out_pc, out_inst,                   \* fetched word
    out_exception_valid, exception_pending

axiRegs    == <<axi_state, outstanding_pc, outstanding_stale>>
fenceiRegs == <<fencei_state, out_icache_flush, out_fencei_flush_done>>
ifuRegs    == <<ifu_state, fetch_pc, out_pc, out_inst, out_exception_valid,
                exception_pending>>
regs       == <<axiRegs, fenceiRegs, ifuRegs>>

-----------------------------------------------------------------------------
(* Wires *)

fetch_pc_misaligned == ~Aligned(fetch_pc)

out_valid    == ifu_state = "IFU_VALID" /\ ~in_redirect_fire
ifu_out_fire == out_valid /\ in_ready

axi_araddr  == outstanding_pc
axi_arvalid == axi_state = "AXI_SEND_AR"
axi_rready  == axi_state = "AXI_WAIT_R" /\ (~out_valid \/ in_ready)

ifu_ar_fire == axi_arvalid /\ axi_arready
ifu_r_fire  == axi_rvalid /\ axi_rready

drop_response == ifu_r_fire /\ (outstanding_stale \/ in_redirect_fire)

-----------------------------------------------------------------------------
(* The registers after reset. *)

Init ==
    /\ axi_state = "AXI_IDLE"
    /\ outstanding_pc = RESET_PC
    /\ outstanding_stale = FALSE
    /\ fencei_state = "FENCEI_IDLE"
    /\ out_icache_flush = FALSE
    /\ out_fencei_flush_done = FALSE
    /\ ifu_state = "IFU_EMPTY"
    /\ fetch_pc = RESET_PC
    /\ out_pc = 0
    /\ out_inst = 0
    /\ out_exception_valid = FALSE
    /\ exception_pending = FALSE

-----------------------------------------------------------------------------
(* The read channel: at most one read is outstanding.  A redirect cannot   *)
(* cancel it; outstanding_stale remembers that its answer is to be dropped. *)

may_fetch ==
    /\ ifu_state = "IFU_EMPTY"
    /\ fencei_state = "FENCEI_IDLE"
    /\ ~in_fencei_done
    /\ ~in_redirect_fire
    /\ ~fetch_pc_misaligned
    /\ ~exception_pending

AxiStart ==
    /\ axi_state = "AXI_IDLE"
    /\ may_fetch
    /\ axi_state' = "AXI_SEND_AR"
    /\ outstanding_pc' = fetch_pc
    /\ outstanding_stale' = FALSE

AxiRest ==
    /\ axi_state = "AXI_IDLE"
    /\ ~may_fetch
    /\ outstanding_stale' = FALSE
    /\ UNCHANGED <<axi_state, outstanding_pc>>

\* Faulty variant of AxiSendAr: a redirect is forgotten.
AxiSendAr_forget ==
    /\ axi_state = "AXI_SEND_AR"
    /\ axi_state' = IF ifu_ar_fire THEN "AXI_WAIT_R" ELSE "AXI_SEND_AR"
    /\ UNCHANGED <<outstanding_pc, outstanding_stale>>

AxiSendAr ==
    /\ axi_state = "AXI_SEND_AR"
    /\ axi_state' = IF ifu_ar_fire THEN "AXI_WAIT_R" ELSE "AXI_SEND_AR"
    /\ outstanding_stale' = (outstanding_stale \/ in_redirect_fire)
    /\ UNCHANGED outstanding_pc

\* Faulty variant of AxiReceive: a stale answer does not end the read.
AxiReceive_stale ==
    /\ axi_state = "AXI_WAIT_R"
    /\ ifu_r_fire
    /\ axi_state' = IF outstanding_stale THEN "AXI_WAIT_R" ELSE "AXI_IDLE"
    /\ outstanding_stale' = FALSE
    /\ UNCHANGED outstanding_pc

AxiReceive ==
    /\ axi_state = "AXI_WAIT_R"
    /\ ifu_r_fire
    /\ axi_state' = "AXI_IDLE"
    /\ outstanding_stale' = FALSE
    /\ UNCHANGED outstanding_pc

AxiWait ==
    /\ axi_state = "AXI_WAIT_R"
    /\ ~ifu_r_fire
    /\ outstanding_stale' = (outstanding_stale \/ in_redirect_fire)
    /\ UNCHANGED <<axi_state, outstanding_pc>>

AxiFsm == AxiStart \/ AxiRest \/ AxiSendAr \/ AxiReceive \/ AxiWait

-----------------------------------------------------------------------------
(* The fence.i machine: wait until no read is outstanding and the slave is  *)
(* idle, flush for one cycle, then report to the decoder.                   *)

FenceiIdle ==
    /\ fencei_state = "FENCEI_IDLE"
    /\ fencei_state' = IF in_fencei_done THEN "FENCEI_WAIT" ELSE "FENCEI_IDLE"
    /\ out_fencei_flush_done' = FALSE
    /\ UNCHANGED out_icache_flush

fencei_may_flush == axi_state = "AXI_IDLE" /\ axi_arready

FenceiWait ==
    /\ fencei_state = "FENCEI_WAIT"
    /\ out_fencei_flush_done' = FALSE
    /\ \/ /\ fencei_may_flush
          /\ fencei_state' = "FENCEI_BUSY"
          /\ out_icache_flush' = TRUE
       \/ /\ ~fencei_may_flush
          /\ UNCHANGED <<fencei_state, out_icache_flush>>

\* Faulty variant of FenceiBusy: the flush is not reported.
FenceiBusy_silent ==
    /\ fencei_state = "FENCEI_BUSY"
    /\ fencei_state' = "FENCEI_IDLE"
    /\ out_icache_flush' = FALSE
    /\ out_fencei_flush_done' = FALSE

FenceiBusy ==
    /\ fencei_state = "FENCEI_BUSY"
    /\ fencei_state' = "FENCEI_IDLE"
    /\ out_icache_flush' = FALSE
    /\ out_fencei_flush_done' = TRUE

FenceiFsm == FenceiIdle \/ FenceiWait \/ FenceiBusy

-----------------------------------------------------------------------------
(* The instruction buffer.  A redirect has priority over a committing      *)
(* fence.i, which has priority over everything else.                        *)

IfuRedirect ==
    /\ in_redirect_fire
    /\ ifu_state' = "IFU_EMPTY"
    /\ fetch_pc' = in_redirect_pc
    /\ out_exception_valid' = FALSE
    /\ exception_pending' = FALSE
    /\ UNCHANGED <<out_pc, out_inst>>

IfuFenceiDone ==
    /\ ~in_redirect_fire
    /\ in_fencei_done
    /\ fetch_pc' = IF ifu_state = "IFU_VALID" THEN out_pc ELSE fetch_pc
    /\ ifu_state' = "IFU_EMPTY"
    /\ out_exception_valid' = FALSE
    /\ exception_pending' = FALSE
    /\ UNCHANGED <<out_pc, out_inst>>

undisturbed == ~in_redirect_fire /\ ~in_fencei_done

raise_misaligned == fetch_pc_misaligned /\ ~exception_pending

IfuMisaligned ==
    /\ undisturbed
    /\ ifu_state = "IFU_EMPTY"
    /\ raise_misaligned
    /\ ifu_state' = "IFU_VALID"
    /\ out_pc' = fetch_pc
    /\ out_inst' = 0
    /\ out_exception_valid' = TRUE
    /\ exception_pending' = TRUE
    /\ UNCHANGED fetch_pc

keep_response == ~drop_response /\ fencei_state = "FENCEI_IDLE"

IfuAccept ==
    /\ undisturbed
    /\ ifu_state = "IFU_EMPTY"
    /\ ~raise_misaligned
    /\ ifu_r_fire
    /\ keep_response
    /\ ifu_state' = "IFU_VALID"
    /\ fetch_pc' = Plus(outstanding_pc, 4)
    /\ out_inst' = axi_rdata
    /\ out_pc' = outstanding_pc
    /\ out_exception_valid' = FALSE
    /\ UNCHANGED exception_pending

IfuStayEmpty ==
    /\ undisturbed
    /\ ifu_state = "IFU_EMPTY"
    /\ ~raise_misaligned
    /\ ~(ifu_r_fire /\ keep_response)
    /\ UNCHANGED ifuRegs

IfuHandOver ==
    /\ undisturbed
    /\ ifu_state = "IFU_VALID"
    /\ ifu_out_fire
    /\ ifu_state' = "IFU_EMPTY"
    /\ out_exception_valid' = FALSE
    /\ UNCHANGED <<fetch_pc, out_pc, out_inst, exception_pending>>

IfuHold ==
    /\ undisturbed
    /\ ifu_state = "IFU_VALID"
    /\ ~ifu_out_fire
    /\ UNCHANGED ifuRegs

IfuFsm ==
    \/ IfuRedirect \/ IfuFenceiDone \/ IfuMisaligned
    \/ IfuAccept \/ IfuStayEmpty \/ IfuHandOver \/ IfuHold

-----------------------------------------------------------------------------
(* One clock edge. *)
Clock == AxiFsm /\ FenceiFsm /\ IfuFsm
=============================================================================
