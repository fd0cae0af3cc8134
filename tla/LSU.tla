-------------------------------- MODULE LSU --------------------------------
(***************************************************************************)
(* The load/store unit, npc/vsrc/LSU.sv: it passes an instruction that does *)
(* not access memory on in one cycle, and takes a load or a store through  *)
(* the AXI channels first.  in_uop is the instruction in EXU, a record of  *)
(* the wires EXU drives; out_uop is what LSU remembers of it for WBU.      *)
(***************************************************************************)
EXTENDS Params, Datapath

CONSTANT MmioAddr   \* the device windows of is_mmio_addr

VARIABLES
    in_valid, in_uop, in_ready,
    axi_arready, axi_rvalid, axi_rdata, axi_awready, axi_wready, axi_bvalid

VARIABLES
    lsu_state, lsu_out_valid, lsu_out_uop, lsu_wb_data,
    mem_addr, load_size,
    lsu_arvalid, lsu_araddr, lsu_awvalid, lsu_awaddr,
    lsu_wvalid, lsu_wdata, lsu_wstrb

regs == <<lsu_state, lsu_out_valid, lsu_out_uop, lsu_wb_data, mem_addr, load_size,
          lsu_arvalid, lsu_araddr, lsu_awvalid, lsu_awaddr,
          lsu_wvalid, lsu_wdata, lsu_wstrb>>

-----------------------------------------------------------------------------
(* Wires *)

axi_rready == lsu_state = "LSU_WAIT_R"
axi_bready == lsu_state = "LSU_WAIT_B"

ar_fire == lsu_arvalid /\ axi_arready
r_fire  == axi_rvalid /\ axi_rready
aw_fire == lsu_awvalid /\ axi_awready
w_fire  == lsu_wvalid /\ axi_wready
b_fire  == axi_bvalid /\ axi_bready

out_ready == lsu_state = "LSU_IDLE" /\ ~lsu_out_valid
out_pending_valid == lsu_state # "LSU_IDLE" /\ ~lsu_out_valid

in_fire  == in_valid /\ out_ready
out_fire == lsu_out_valid /\ in_ready

in_load  == in_fire /\ in_uop.is_load
in_store == in_fire /\ in_uop.is_store
in_plain == in_fire /\ ~in_uop.is_load /\ ~in_uop.is_store

is_mmio_addr(a) == a \in MmioAddr

-----------------------------------------------------------------------------
Init ==
    /\ lsu_state = "LSU_IDLE"
    /\ lsu_out_valid = FALSE
    /\ lsu_out_uop = [pc |-> 0, inst |-> 0, npc |-> 0, is_ebreak |-> FALSE,
                      is_fencei |-> FALSE, is_mmio |-> FALSE, rd |-> 0, rf_we |-> FALSE]
    /\ lsu_wb_data = 0
    /\ mem_addr = 0
    /\ load_size = 0
    /\ lsu_arvalid = FALSE
    /\ lsu_araddr = 0
    /\ lsu_awvalid = FALSE
    /\ lsu_awaddr = 0
    /\ lsu_wvalid = FALSE
    /\ lsu_wdata = 0
    /\ lsu_wstrb = {}

-----------------------------------------------------------------------------
(* One always block each. *)

\* Faulty variant of next_state: LSU_DONE is not left.
next_state_done ==
    CASE lsu_state = "LSU_IDLE" /\ in_load                       -> "LSU_READ_ADDR"
      [] lsu_state = "LSU_IDLE" /\ ~in_load /\ in_store          -> "LSU_WRITE_REQ"
      [] lsu_state = "LSU_READ_ADDR" /\ ar_fire                  -> "LSU_WAIT_R"
      [] lsu_state = "LSU_WAIT_R" /\ r_fire                      -> "LSU_DONE"
      [] lsu_state = "LSU_WRITE_REQ" /\ aw_fire /\ w_fire        -> "LSU_WAIT_B"
      [] lsu_state = "LSU_WAIT_B" /\ b_fire                      -> "LSU_DONE"
      [] OTHER                                                   -> lsu_state

next_state ==
    CASE lsu_state = "LSU_IDLE" /\ in_load                       -> "LSU_READ_ADDR"
      [] lsu_state = "LSU_IDLE" /\ ~in_load /\ in_store          -> "LSU_WRITE_REQ"
      [] lsu_state = "LSU_READ_ADDR" /\ ar_fire                  -> "LSU_WAIT_R"
      [] lsu_state = "LSU_WAIT_R" /\ r_fire                      -> "LSU_DONE"
      [] lsu_state = "LSU_WRITE_REQ" /\ aw_fire /\ w_fire        -> "LSU_WAIT_B"
      [] lsu_state = "LSU_WAIT_B" /\ b_fire                      -> "LSU_DONE"
      [] lsu_state = "LSU_DONE" /\ out_fire                      -> "LSU_IDLE"
      [] OTHER                                                   -> lsu_state

Capture ==
    \/ /\ in_fire
       /\ load_size' = in_uop.load_size
       /\ mem_addr' = in_uop.mem_addr
       /\ lsu_out_uop' =
            [pc |-> in_uop.pc, inst |-> in_uop.inst, npc |-> in_uop.npc,
             is_ebreak |-> in_uop.is_ebreak, is_fencei |-> in_uop.is_fencei,
             is_mmio |-> (in_uop.is_load \/ in_uop.is_store) /\ is_mmio_addr(in_uop.mem_addr),
             rd |-> in_uop.rd, rf_we |-> in_uop.rf_we]
    \/ /\ ~in_fire
       /\ UNCHANGED <<load_size, mem_addr, lsu_out_uop>>

\* Faulty variant of OutValid: a store is done when its data is accepted.
OutValid_early ==
    lsu_out_valid' = \/ r_fire \/ w_fire \/ in_plain
                     \/ lsu_out_valid /\ ~out_fire

OutValid ==
    lsu_out_valid' = \/ r_fire \/ b_fire \/ in_plain
                     \/ lsu_out_valid /\ ~out_fire

WbData ==
    lsu_wb_data' = CASE in_plain -> in_uop.wb_data
                     [] r_fire /\ ~in_plain -> load_result(load_size, axi_rdata, mem_addr)
                     [] OTHER -> lsu_wb_data

ArChannel ==
    /\ lsu_arvalid' = (in_load \/ (lsu_arvalid /\ ~ar_fire))
    /\ lsu_araddr' = IF in_load THEN in_uop.mem_addr ELSE lsu_araddr

AwChannel ==
    /\ lsu_awvalid' = (in_store \/ (lsu_awvalid /\ ~aw_fire))
    /\ lsu_awaddr' = IF in_store THEN in_uop.mem_addr ELSE lsu_awaddr

WChannel ==
    /\ lsu_wvalid' = (in_store \/ (lsu_wvalid /\ ~w_fire))
    /\ \/ /\ in_store
          /\ lsu_wdata' = store_wdata(in_uop.store_size, in_uop.store_data, in_uop.mem_addr)
          /\ lsu_wstrb' = store_wstrb(in_uop.store_size, in_uop.mem_addr)
       \/ /\ ~in_store
          /\ UNCHANGED <<lsu_wdata, lsu_wstrb>>

Clock ==
    /\ lsu_state' = next_state
    /\ Capture
    /\ OutValid
    /\ WbData
    /\ ArChannel
    /\ AwChannel
    /\ WChannel
=============================================================================
