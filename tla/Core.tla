-------------------------------- MODULE Core --------------------------------
(***************************************************************************)
(* The pipeline IFU - IDU - EXU - LSU - WBU (ysyx_25120302.v), in lockstep  *)
(* with NEMU as the simulator runs it: at every commit the reference        *)
(* executes one instruction.  The instruction side is InstPort, which       *)
(* FetchPath shows ICACHE to implement; the data side is a pair of slaves,  *)
(* as in Bus.                                                               *)
(***************************************************************************)
EXTENDS Params, Nemu

CONSTANTS
    CycleLimit, MmioAddr,
    RamLimit,    \* the memory is the words below it
    Images       \* the programs: first contents of the memory

ASSUME CoreAssumption ==
    /\ AddrLimit = WordLimit
    /\ CycleLimit \in 1 .. WordLimit
    /\ RamLimit \in 4 .. AddrLimit /\ RamLimit % 4 = 0
    /\ MmioAddr \subseteq Addr
    /\ Images \subseteq [{a \in WordAddr : a < RamLimit} -> Word]

VARIABLES
    \* IFU and the instruction port
    axi_state, outstanding_pc, outstanding_stale,
    fencei_state, out_icache_flush, out_fencei_flush_done,
    ifu_state, fetch_pc, out_pc, out_inst, out_exception_valid, exception_pending,
    port_state, port_addr, port_data, view,
    \* IDU, EXU
    idu_valid, idu_uop, idu_exception, fence_pending,
    exu_valid, exu_uop, csr, mcycle, mcycleh,
    \* LSU and the data slaves
    lsu_state, lsu_out_valid, lsu_out_uop, lsu_wb_data, mem_addr, load_size,
    lsu_arvalid, lsu_araddr, lsu_awvalid, lsu_awaddr, lsu_wvalid, lsu_wdata, lsu_wstrb,
    mem, s_arready, s_left, s_addr, s_rvalid, s_rdata,
    w_awready, w_wready, w_bvalid, w_addr, w_data,
    \* WBU
    rf,
    \* the simulator
    ref,     \* NEMU
    halted   \* it has stopped: an ebreak committed, or a check failed

-----------------------------------------------------------------------------
lsu_out_ready == lsu_state = "LSU_IDLE" /\ ~lsu_out_valid
lsu_pending_valid == lsu_state # "LSU_IDLE" /\ ~lsu_out_valid

(* WBU: the register file and the commit port that the simulator reads.     *)
(* commit_ready is tied to 1.                                               *)

commit_fire == lsu_out_valid
commit_wen  == lsu_out_uop.rf_we /\ lsu_out_uop.rd # 0

out_fencei_done == commit_fire /\ lsu_out_uop.is_fencei

\* Reading: register 0 is zero, the upper bits of an index are ignored.
rdata(r) == IF r = 0 THEN 0 ELSE rf[r % NumRegs]

rf_committed ==
    IF commit_fire /\ commit_wen
    THEN [rf EXCEPT ![lsu_out_uop.rd % NumRegs] = lsu_wb_data] ELSE rf

WbuInit  == rf = [r \in Regs |-> 0]
WbuClock == rf' = rf_committed

exu == INSTANCE EXU WITH
    in_valid <- idu_valid, in_uop <- idu_uop, in_ready <- lsu_out_ready

redirect    == exu!out_redirect_fire
redirect_pc == exu!redirect_pc

idu == INSTANCE IDU WITH
    in_valid <- ifu_state = "IFU_VALID" /\ ~redirect,
    in_inst <- out_inst, in_pc <- out_pc, in_exception_valid <- out_exception_valid,
    in_flush <- redirect, in_ready <- exu!out_ready,
    in_fencei_flush_done <- out_fencei_flush_done,
    in_src1_data <- rdata(Fields(out_inst).rs1),
    in_src2_data <- rdata(Fields(out_inst).rs2),
    in_exu_valid <- exu_valid, in_exu_rf_we <- exu_uop.rf_we, in_exu_rd <- exu_uop.rd,
    in_lsu_pending_valid <- lsu_pending_valid,
    in_lsu_rf_we <- lsu_out_uop.rf_we, in_lsu_rd <- lsu_out_uop.rd,
    in_wbu_valid <- commit_fire, in_wbu_rf_we <- commit_wen,
    in_wbu_rd <- lsu_out_uop.rd

ifu == INSTANCE IFU WITH
    in_redirect_fire <- redirect, in_redirect_pc <- redirect_pc,
    in_fencei_done <- out_fencei_done, in_ready <- idu!out_ready,
    axi_arready <- port_state = "idle", axi_rvalid <- port_state = "answer",
    axi_rdata <- port_data

port == INSTANCE InstPort WITH
    arvalid <- ifu!axi_arvalid, araddr <- ifu!axi_araddr,
    rready <- ifu!axi_rready, flush <- out_icache_flush

reads == INSTANCE AxiReadSlave WITH
    arvalid <- lsu_arvalid, araddr <- lsu_araddr - (lsu_araddr % BYTE_NUM),
    arlen <- 0, rready <- lsu_state = "LSU_WAIT_R"

writes == INSTANCE AxiWriteSlave WITH
    JointWrites <- TRUE,
    awvalid <- lsu_awvalid, awaddr <- lsu_awaddr, wvalid <- lsu_wvalid,
    wdata <- lsu_wdata, wstrb <- lsu_wstrb, bready <- lsu_state = "LSU_WAIT_B"

lsu == INSTANCE LSU WITH
    in_valid <- exu_valid, in_uop <- exu_uop, in_ready <- TRUE,
    axi_arready <- s_arready, axi_rvalid <- s_rvalid, axi_rdata <- s_rdata,
    axi_awready <- w_awready, axi_wready <- w_wready, axi_bvalid <- w_bvalid

vars ==
    <<axi_state, outstanding_pc, outstanding_stale, fencei_state, out_icache_flush,
      out_fencei_flush_done, ifu_state, fetch_pc, out_pc, out_inst,
      out_exception_valid, exception_pending, port_state, port_addr, port_data, view,
      idu_valid, idu_uop, idu_exception, fence_pending,
      exu_valid, exu_uop, csr, mcycle, mcycleh,
      lsu_state, lsu_out_valid, lsu_out_uop, lsu_wb_data, mem_addr, load_size,
      lsu_arvalid, lsu_araddr, lsu_awvalid, lsu_awaddr, lsu_wvalid, lsu_wdata, lsu_wstrb,
      mem, s_arready, s_left, s_addr, s_rvalid, s_rdata,
      w_awready, w_wready, w_bvalid, w_addr, w_data, rf, ref, halted>>

-----------------------------------------------------------------------------
(* The simulator.  A commit is compared with what NEMU does, unless it is   *)
(* marked: then NEMU takes over the registers.                              *)

skip_ref == lsu_out_uop.is_mmio

ref_after ==
    IF skip_ref THEN [ref EXCEPT !.gpr = rf_committed, !.pc = lsu_out_uop.npc]
                ELSE isa_exec_once(ref)

\* The checks between the stages: none passes on an empty instruction, or one
\* at address zero.  A check that fails is fatal.
Empty(pc, inst) == pc = 0 \/ inst = 0

pipe_error ==
    \/ ifu!ifu_r_fire /\ Empty(fetch_pc, port_data)
    \/ ifu!ifu_out_fire /\ ~out_exception_valid /\ Empty(out_pc, out_inst)
    \/ idu!idu_out_fire /\ ((~idu_exception /\ idu_uop.pc = 0) \/ idu_uop.inst = 0)
    \/ exu!exu_out_fire /\ Empty(exu_uop.pc, exu_uop.inst)
    \/ lsu!out_fire /\ Empty(lsu_out_uop.pc, lsu_out_uop.inst)

checkregs_fails ==
    ~skip_ref /\ (rf_committed # ref_after.gpr \/ lsu_out_uop.npc # ref_after.pc)

SimClock ==
    /\ ref' = IF commit_fire THEN ref_after ELSE ref
    /\ halted' = (\/ commit_fire /\ (lsu_out_uop.is_ebreak \/ checkregs_fails)
                  \/ pipe_error)

-----------------------------------------------------------------------------
Init ==
    /\ mem \in Images
    /\ ifu!Init
    /\ port!PortInit /\ port!ViewInit
    /\ idu!IduInit
    /\ exu!ExuInit
    /\ lsu!Init
    /\ reads!SlaveInit
    /\ writes!WriteInit
    /\ WbuInit
    /\ ref = difftest_init(RESET_PC, mem)
    /\ halted = FALSE

Cycle ==
    /\ ~halted
    /\ ifu!Clock
    /\ idu!IduClock
    /\ exu!ExuClock
    /\ lsu!Clock
    /\ WbuClock
    /\ reads!SlaveClock
    /\ writes!WriteClock
    /\ port!PortClock
    /\ port!ViewClock
    /\ SimClock

\* The simulator clocks the core no further.
Stopped == halted /\ UNCHANGED vars

Next == Cycle \/ Stopped

Spec == Init /\ [][Next]_vars

-----------------------------------------------------------------------------
(* Properties *)

\* The registers of the pipeline hold values of their types.
TypeOK ==
    /\ rf \in [Regs -> Word]
    /\ csr \in [CsrNames -> Word]
    /\ idu_valid \in BOOLEAN /\ exu_valid \in BOOLEAN /\ fence_pending \in BOOLEAN
    /\ {idu_uop.src1, idu_uop.src2, exu_uop.wb_data, exu_uop.mem_addr, lsu_wb_data} \subseteq Word
    /\ {fetch_pc, idu_uop.pc, exu_uop.npc, lsu_out_uop.npc} \subseteq Addr

\* Every commit is the next instruction of the program and has the effect NEMU
\* gives it: the comparison in difftest_step never fails.  Holds whatever the
\* memories' delays, so the interlocks of IDU miss no producer and nothing of a
\* wrong path is ever committed.
CommitMatchesRef ==
    commit_fire =>
        /\ lsu_out_uop.pc = ref.pc
        /\ lsu_out_uop.npc = ref_after.pc
        /\ rf_committed = ref_after.gpr

\* The checks between the stages never fail on a program without empty words:
\* a stage never offers a payload it has not been given.
NoPipeError == ~pipe_error

\* At a commit the memory has every store up to the committed instruction and
\* none behind it.
\* (Device registers are not memory of the reference.)
StoresPrecise ==
    commit_fire =>
        \A a \in DOMAIN mem \ MmioAddr : mem[a] = ref_after.mem[a]

\* Control registers are written in EXU, ahead of the commit: whenever the
\* pipeline is empty they are the reference's, so no instruction of a wrong path
\* has written one and a trap has recorded the instruction that caused it.
CsrPrecise ==
    ~idu_valid /\ ~exu_valid /\ lsu_out_ready =>
        \A c \in CsrNames : csr[c] = ref.csr[c]

\* fence.i is alone in the pipeline: from its commit until the flush is reported
\* nothing is decoded, executed, redirected or written, and IFU is asked for one
\* flush only.  FetchPath assumes this of the core.
FenceiSerialises ==
    /\ fencei_state # "FENCEI_IDLE" \/ out_fencei_done \/ out_fencei_flush_done =>
          /\ fence_pending
          /\ ~idu_valid /\ ~exu_valid /\ lsu_state = "LSU_IDLE"
          /\ w_addr = << >> /\ w_data = << >>
    /\ out_fencei_done => fencei_state = "FENCEI_IDLE" /\ ~out_fencei_flush_done
    /\ fence_pending => ~redirect

\* What an instruction does outside of the registers it does once and in its
\* turn: memory and control registers are never ahead of the program.
PreciseEffects == TypeOK /\ NoPipeError /\ StoresPrecise /\ CsrPrecise

-----------------------------------------------------------------------------
(* Liveness: the clock runs, the memories accept and answer.               *)

PortAnswers == port_state = "busy" /\ port_state' = "answer"

Fairness ==
    /\ WF_vars(Cycle)
    /\ WF_vars(PortAnswers /\ Cycle)
    /\ WF_vars(reads!AcceptsRead /\ Cycle)
    /\ WF_vars(reads!AnswersRead /\ Cycle)
    /\ WF_vars(writes!AcceptsAddr /\ Cycle)
    /\ WF_vars(writes!AcceptsData /\ Cycle)
    /\ WF_vars(writes!AnswersWrite /\ Cycle)

LiveSpec == Spec /\ Fairness

\* A program that ends with ebreak gets there: the stages never wait for each
\* other for ever.
Terminates == <>halted
=============================================================================
