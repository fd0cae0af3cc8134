-------------------------------- MODULE Nemu --------------------------------
(***************************************************************************)
(* The reference: NEMU executes one instruction (nemu/src/isa/riscv32).     *)
(* Its state is a record of the program counter, the registers, the control *)
(* registers and the memory.  The multiply and divide instructions, which   *)
(* the RTL does not have, and patterns that NEMU rejects are left out.      *)
(*                                                                         *)
(* Instruction words.  Which bits of a word hold which field is left to the *)
(* table Encoding, from the words that are instructions to their fields:    *)
(*   op      the major opcode                                               *)
(*   funct3, funct7                                                         *)
(*   rd, rs1, rs2                                                           *)
(*   imm     the immediate of the opcode's format, sign extended            *)
(*   csr     bits 31..20 of a SYSTEM instruction                            *)
(***************************************************************************)
EXTENDS Datapath

CONSTANTS
    Encoding,
    NumRegs,             \* registers of the file: 16
    MVENDORID, MARCHID   \* the identification words

NoFields == [op |-> "NONE", funct3 |-> 0, funct7 |-> 0, rd |-> 0, rs1 |-> 0,
             rs2 |-> 0, imm |-> 0, csr |-> "none"]

Fields(w) == IF w \in DOMAIN Encoding THEN Encoding[w] ELSE NoFields

Regs == 0 .. NumRegs - 1

\* The control registers that hold what is written to them, and the others.
CsrNames  == {"mstatus", "mtvec", "mepc", "mcause"}
CsrFields == CsrNames \cup {"mcycle", "mcycleh", "mvendorid", "marchid", "mscratch"}

inst_fetch(s) == s.mem[s.pc]

isa_raise_intr(s, no) ==
    [s EXCEPT !.csr["mepc"] = s.pc, !.csr["mcause"] = no, !.pc = s.csr["mtvec"]]

SetReg(s, rd, v) == [s EXCEPT !.gpr[rd] = IF rd = 0 THEN 0 ELSE v]

SetCsr(s, c, v) == [s EXCEPT !.csr[c] = v]

\* Which of the patterns of OP and OP_IMM instructions matches.
pattern(f) ==
    CASE f.funct3 = 0 -> IF f.op = "OP" /\ f.funct7 = 32 THEN "SUB" ELSE "ADD"
      [] f.funct3 = 1 -> "SLL"
      [] f.funct3 = 2 -> "SLT"
      [] f.funct3 = 3 -> "SLTU"
      [] f.funct3 = 4 -> "XOR"
      [] f.funct3 = 5 -> IF f.funct7 = 32 THEN "SRA" ELSE "SRL"
      [] f.funct3 = 6 -> "OR"
      [] f.funct3 = 7 -> "AND"

decode_exec(s, f) ==
    LET src1 == s.gpr[f.rs1]
        src2 == s.gpr[f.rs2]
        snpc == Add(s.pc, 4)
        next == [s EXCEPT !.pc = snpc]
        addr == Add(src1, f.imm)
        shift == f.op = "OP_IMM" /\ f.funct3 \in {1, 5}
    IN CASE f.op = "AUIPC"  -> SetReg(next, f.rd, Add(s.pc, f.imm))
         [] f.op = "LUI"    -> SetReg(next, f.rd, f.imm)
         [] f.op = "LOAD"   -> SetReg(next, f.rd, ref_load(s.mem, f.funct3, addr))
         [] f.op = "STORE"  ->
              [next EXCEPT !.mem = host_write(s.mem, addr, Length(f.funct3), src2)]
         [] f.op = "OP"     -> SetReg(next, f.rd, ref_result(pattern(f), src1, src2))
         [] f.op = "OP_IMM" ->
              SetReg(next, f.rd, ref_result(pattern(f), src1, IF shift THEN f.rs2 ELSE f.imm))
         [] f.op = "MISC_MEM" -> next
         [] f.op = "JALR"   -> [SetReg(s, f.rd, snpc) EXCEPT !.pc = addr - (addr % 2)]
         [] f.op = "JAL"    -> [SetReg(s, f.rd, snpc) EXCEPT !.pc = Add(s.pc, f.imm)]
         [] f.op = "BRANCH" ->
              [s EXCEPT !.pc = IF ref_branch(f.funct3, src1, src2)
                               THEN Add(s.pc, f.imm) ELSE snpc]
         [] f.op = "SYSTEM" /\ f.funct3 = 0 /\ f.csr = "ebreak" -> next
         [] f.op = "SYSTEM" /\ f.funct3 = 0 /\ f.csr = "ecall"  -> isa_raise_intr(s, 11)
         [] f.op = "SYSTEM" /\ f.funct3 = 0 /\ f.csr = "mret"   -> [s EXCEPT !.pc = s.csr["mepc"]]
         [] f.op = "SYSTEM" /\ f.funct3 = 1 ->
              SetCsr(SetReg(next, f.rd, s.csr[f.csr]), f.csr, src1)
         [] f.op = "SYSTEM" /\ f.funct3 = 2 ->
              SetCsr(SetReg(next, f.rd, s.csr[f.csr]), f.csr,
                     ref_result("OR", s.csr[f.csr], src1))

\* The state difftest_init leaves: every control register is a word of an
\* array that starts at zero, except the two identification registers.
difftest_init(pc, m) ==
    [pc |-> pc, gpr |-> [r \in Regs |-> 0], mem |-> m,
     csr |-> [c \in CsrFields |-> CASE c = "mvendorid" -> MVENDORID
                                   [] c = "marchid" -> MARCHID
                                   [] OTHER -> 0]]

isa_exec_once(s) == decode_exec(s, Fields(inst_fetch(s)))
=============================================================================
