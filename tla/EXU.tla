-------------------------------- MODULE EXU --------------------------------
(***************************************************************************)
(* The execution unit, npc/vsrc/EXU.sv: in the cycle it takes a decoded     *)
(* instruction it computes its result, redirects the fetch and accesses the *)
(* control registers; one register passes the instruction on to LSU.        *)
(***************************************************************************)
EXTENDS Params, Nemu

CONSTANT CycleLimit

VARIABLES in_valid, in_uop, in_ready   \* input wires: IDU, LSU

VARIABLES exu_valid, exu_uop, csr, mcycle, mcycleh

-----------------------------------------------------------------------------
(* Wires *)

out_ready == ~exu_valid \/ in_ready

exu_in_fire == in_valid /\ out_ready
exu_out_fire == exu_valid /\ in_ready

alu_src1 == CASE in_uop.alu_src1_sel = "CUR_PC" -> in_uop.pc
              [] in_uop.alu_src1_sel = "ZERO"   -> 0
              [] OTHER -> in_uop.src1
alu_src2 == CASE in_uop.alu_src2_sel = "IMM"   -> in_uop.imm
              [] in_uop.alu_src2_sel = "SHAMT" -> in_uop.shamt
              [] OTHER -> in_uop.src2

result     == alu_result(in_uop.alu_op, alu_src1, alu_src2)
store_data == IF in_uop.is_store THEN in_uop.src2 ELSE 0

taken == in_uop.is_branch /\ branch_taken(in_uop.funct3, in_uop.src1, in_uop.src2)

jal_target  == Add(in_uop.imm, in_uop.pc)
jalr_sum    == Add(in_uop.imm, in_uop.src1)
jalr_target == jalr_sum - (jalr_sum % 2)

trap_pc == CASE in_uop.is_mret -> csr["mepc"]
             [] in_uop.is_ecall /\ ~in_uop.is_mret -> csr["mtvec"]
             [] OTHER -> 0

redirect_valid ==
    in_uop.is_jal \/ in_uop.is_jalr \/ taken \/ in_uop.trap_valid

redirect_pc == CASE in_uop.trap_valid -> trap_pc
                 [] ~in_uop.trap_valid /\ (in_uop.is_jal \/ taken) -> jal_target
                 [] ~in_uop.trap_valid /\ in_uop.is_jalr -> jalr_target
                 [] OTHER -> 0

out_redirect_fire == exu_in_fire /\ redirect_valid

-----------------------------------------------------------------------------
csr_read == INSTANCE CSR WITH
    csr_addr <- in_uop.csr_addr, csr_wen <- FALSE, is_ecall <- FALSE,
    pc <- in_uop.pc, csr_wdata <- 0

csr_wdata == IF in_uop.csr_op_sel = "CSR_WRITE" THEN in_uop.src1
             ELSE alu_result("OR", csr_read!csr_rdata, in_uop.src1)

csrs == INSTANCE CSR WITH
    csr_addr <- in_uop.csr_addr, csr_wen <- in_uop.csr_wen /\ exu_in_fire,
    is_ecall <- in_uop.is_ecall /\ exu_in_fire,
    pc <- in_uop.pc, csr_wdata <- csr_wdata

wb_data == CASE in_uop.wb_sel = "PC4" -> Add(in_uop.pc, 4)
             [] in_uop.wb_sel = "CSR" -> csrs!csr_rdata
             [] in_uop.wb_sel = "MEM" -> 0
             [] OTHER -> result

exuRegs == <<exu_valid, exu_uop, csrs!csrRegs>>

-----------------------------------------------------------------------------
ExuInit ==
    /\ exu_valid = FALSE
    /\ exu_uop = [pc |-> 0, inst |-> 0, npc |-> 0, rd |-> 0, rf_we |-> FALSE,
                  is_load |-> FALSE, is_store |-> FALSE, is_fencei |-> FALSE,
                  is_ebreak |-> FALSE, load_size |-> 0, store_size |-> 0,
                  mem_addr |-> 0, store_data |-> 0, wb_data |-> 0]
    /\ csrs!CsrInit

ExuTake ==
    /\ exu_in_fire
    /\ exu_valid' = TRUE
    /\ exu_uop' =
         [pc |-> in_uop.pc, inst |-> in_uop.inst,
          npc |-> IF redirect_valid THEN redirect_pc ELSE Add(in_uop.pc, 4),
          rd |-> in_uop.rd, rf_we |-> in_uop.rf_we,
          is_load |-> in_uop.is_load, is_store |-> in_uop.is_store,
          is_fencei |-> in_uop.is_fencei, is_ebreak |-> in_uop.is_ebreak,
          load_size |-> in_uop.funct3, store_size |-> in_uop.funct3,
          mem_addr |-> result, store_data |-> store_data, wb_data |-> wb_data]

ExuPass ==
    /\ ~exu_in_fire
    /\ exu_valid' = (exu_valid /\ ~in_ready)
    /\ UNCHANGED exu_uop

ExuClock == (ExuTake \/ ExuPass) /\ csrs!CsrClock
=============================================================================
