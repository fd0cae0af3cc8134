-------------------------------- MODULE IDU --------------------------------
(***************************************************************************)
(* The decode unit, npc/vsrc/IDU.v: it decodes the instruction IFU offers,  *)
(* reads its registers, and passes it on through one register.  It holds an *)
(* instruction back while one ahead of it has still to write a register it  *)
(* reads, and everything behind a fence.i until the cache is flushed.       *)
(***************************************************************************)
EXTENDS Params, Nemu

VARIABLES  \* input wires
    in_valid, in_inst, in_pc, in_exception_valid,   \* IFU
    in_flush, in_ready,                             \* EXU
    in_fencei_flush_done,                           \* IFU
    in_src1_data, in_src2_data,                     \* WBU's registers
    in_exu_valid, in_exu_rf_we, in_exu_rd,
    in_lsu_pending_valid, in_lsu_rf_we, in_lsu_rd,
    in_wbu_valid, in_wbu_rf_we, in_wbu_rd

VARIABLES idu_valid, idu_uop, idu_exception, fence_pending

iduRegs == <<idu_valid, idu_uop, idu_exception, fence_pending>>

-----------------------------------------------------------------------------
f == Fields(in_inst)

uses_rs1 ==
    \/ f.op \in {"OP", "OP_IMM", "LOAD", "STORE", "BRANCH"}
    \/ f.op = "JALR" /\ f.funct3 = 0
    \/ f.op = "SYSTEM" /\ f.funct3 \in {1, 2}
uses_rs2 == f.op \in {"OP", "STORE", "BRANCH"}

\* Faulty variant of producer_match: a load in LSU is not looked at.
producer_match_no_lsu(rs) ==
    \/ idu_valid /\ idu_uop.rf_we /\ idu_uop.rd # 0 /\ idu_uop.rd = rs
    \/ in_exu_valid /\ in_exu_rf_we /\ in_exu_rd # 0 /\ in_exu_rd = rs
    \/ in_wbu_valid /\ in_wbu_rf_we /\ in_wbu_rd # 0 /\ in_wbu_rd = rs

producer_match(rs) ==
    \/ idu_valid /\ idu_uop.rf_we /\ idu_uop.rd # 0 /\ idu_uop.rd = rs
    \/ in_exu_valid /\ in_exu_rf_we /\ in_exu_rd # 0 /\ in_exu_rd = rs
    \/ in_lsu_pending_valid /\ in_lsu_rf_we /\ in_lsu_rd # 0 /\ in_lsu_rd = rs
    \/ in_wbu_valid /\ in_wbu_rf_we /\ in_wbu_rd # 0 /\ in_wbu_rd = rs

raw_hazard ==
    /\ in_valid
    /\ \/ uses_rs1 /\ f.rs1 # 0 /\ producer_match(f.rs1)
       \/ uses_rs2 /\ f.rs2 # 0 /\ producer_match(f.rs2)

out_ready    == (~idu_valid \/ in_ready) /\ ~raw_hazard /\ ~fence_pending
idu_in_fire  == in_valid /\ out_ready
idu_out_fire == idu_valid /\ in_ready

-----------------------------------------------------------------------------
(* Decoding *)

imm == IF f.op \in {"OP_IMM", "JALR", "LOAD", "LUI", "AUIPC", "STORE", "BRANCH", "JAL"}
       THEN f.imm ELSE 0

alu_op ==
    CASE f.op \notin {"OP", "OP_IMM"} -> "ADD"
      [] f.op = "OP" /\ f.funct3 = 0 /\ f.funct7 = 32 -> "SUB"
      [] f.op \in {"OP", "OP_IMM"} /\ f.funct3 = 1 -> "SLL"
      [] f.op \in {"OP", "OP_IMM"} /\ f.funct3 = 2 -> "SLT"
      [] f.op \in {"OP", "OP_IMM"} /\ f.funct3 = 3 -> "SLTU"
      [] f.op \in {"OP", "OP_IMM"} /\ f.funct3 = 4 -> "XOR"
      [] f.op \in {"OP", "OP_IMM"} /\ f.funct3 = 5 /\ f.funct7 = 0 -> "SRL"
      [] f.op \in {"OP", "OP_IMM"} /\ f.funct3 = 5 /\ f.funct7 = 32 -> "SRA"
      [] f.op \in {"OP", "OP_IMM"} /\ f.funct3 = 6 -> "OR"
      [] f.op \in {"OP", "OP_IMM"} /\ f.funct3 = 7 -> "AND"
      [] OTHER -> "ADD"

is_jalr  == f.op = "JALR" /\ f.funct3 = 0
is_csr   == f.op = "SYSTEM" /\ f.funct3 \in {1, 2}
is(name) == f.op = "SYSTEM" /\ f.funct3 = 0 /\ f.csr = name

wb_sel == CASE f.op = "JAL" \/ is_jalr -> "PC4"
            [] f.op = "LOAD" -> "MEM"
            [] is_csr -> "CSR"
            [] OTHER -> "ALU"

alu_src1_sel == CASE f.op \in {"JAL", "BRANCH", "AUIPC"} -> "CUR_PC"
                  [] f.op = "LUI" -> "ZERO"
                  [] OTHER -> "RS1_DATA"

alu_src2_sel == CASE f.op = "OP_IMM" /\ f.funct3 = 5 -> "SHAMT"
                  [] f.op \in {"JAL", "BRANCH", "LUI", "AUIPC", "LOAD", "STORE"} -> "IMM"
                  [] f.op = "OP_IMM" /\ f.funct3 # 5 -> "IMM"
                  [] is_jalr -> "IMM"
                  [] OTHER -> "RS2_DATA"

decoded ==
    [pc |-> in_pc, inst |-> in_inst, rd |-> f.rd, funct3 |-> f.funct3,
     imm |-> imm, shamt |-> f.rs2, csr_addr |-> f.csr,
     src1 |-> in_src1_data, src2 |-> in_src2_data,
     rf_we |-> \/ f.op \in {"OP", "OP_IMM", "JAL", "LUI", "AUIPC", "LOAD"}
               \/ is_jalr
               \/ is_csr /\ f.rd # 0,
     wb_sel |-> wb_sel, alu_op |-> alu_op,
     alu_src1_sel |-> alu_src1_sel, alu_src2_sel |-> alu_src2_sel,
     is_load |-> f.op = "LOAD", is_store |-> f.op = "STORE",
     is_branch |-> f.op = "BRANCH", is_jal |-> f.op = "JAL", is_jalr |-> is_jalr,
     is_ecall |-> is("ecall"), is_mret |-> is("mret"), is_ebreak |-> is("ebreak"),
     trap_valid |-> is("ecall") \/ is("mret"),
     is_fencei |-> f.op = "MISC_MEM" /\ f.funct3 = 1,
     csr_wen |-> is_csr /\ ~(f.funct3 = 2 /\ f.rs1 = 0),
     csr_op_sel |-> IF is_csr /\ f.funct3 = 2 THEN "CSR_SET" ELSE "CSR_WRITE"]

-----------------------------------------------------------------------------
NoDecoded ==
    [pc |-> 0, inst |-> 0, rd |-> 0, funct3 |-> 0, imm |-> 0, shamt |-> 0,
     csr_addr |-> "none", src1 |-> 0, src2 |-> 0, rf_we |-> FALSE, wb_sel |-> "ALU",
     alu_op |-> "ADD", alu_src1_sel |-> "RS1_DATA", alu_src2_sel |-> "RS2_DATA",
     is_load |-> FALSE, is_store |-> FALSE, is_branch |-> FALSE, is_jal |-> FALSE,
     is_jalr |-> FALSE, is_ecall |-> FALSE, is_mret |-> FALSE, is_ebreak |-> FALSE,
     trap_valid |-> FALSE, is_fencei |-> FALSE, csr_wen |-> FALSE, csr_op_sel |-> "CSR_WRITE"]

IduInit ==
    /\ idu_valid = FALSE
    /\ idu_uop = NoDecoded
    /\ idu_exception = FALSE
    /\ fence_pending = FALSE

\* Faulty variant of FencePending: it does not wait for the flush.
FencePending_ignored == fence_pending' = FALSE

FencePending ==
    fence_pending' = /\ ~in_flush
                     /\ \/ idu_in_fire /\ decoded.is_fencei
                        \/ fence_pending /\ ~in_fencei_flush_done

\* Faulty variant of IduFlush: the instruction behind a jump goes on.
IduFlush_late ==
    /\ in_flush
    /\ UNCHANGED <<idu_valid, idu_uop, idu_exception>>

IduFlush ==
    /\ in_flush
    /\ idu_valid' = FALSE
    /\ idu_exception' = FALSE
    /\ UNCHANGED idu_uop

IduTake ==
    /\ ~in_flush
    /\ idu_in_fire
    /\ idu_valid' = TRUE
    /\ idu_uop' = decoded
    /\ idu_exception' = in_exception_valid

IduPass ==
    /\ ~in_flush
    /\ ~idu_in_fire
    /\ idu_valid' = (idu_valid /\ ~in_ready)
    /\ UNCHANGED <<idu_uop, idu_exception>>

IduClock == FencePending /\ (IduFlush \/ IduTake \/ IduPass)
=============================================================================
