------------------------------- MODULE MCCore -------------------------------
(***************************************************************************)
(* Core with words of eight bits (two to a byte), four registers, and small *)
(* programs.  Memory is twenty words: data at 0, 4 and 8, a device register *)
(* at 12, the program from RESET_PC = 16 on, and no-operations behind it    *)
(* for the fetches beyond its end.                                          *)
(***************************************************************************)
EXTENDS Core, Sequences

I(op)              == [NoFields EXCEPT !.op = op]
rrr(f3, f7, rd, a, b) == [I("OP") EXCEPT !.funct3 = f3, !.funct7 = f7, !.rd = rd,
                                         !.rs1 = a, !.rs2 = b]
rri(f3, rd, a, i)  == [I("OP_IMM") EXCEPT !.funct3 = f3, !.rd = rd, !.rs1 = a, !.imm = i % 256]
shift(f3, f7, rd, a, n) == [rri(f3, rd, a, n) EXCEPT !.funct7 = f7, !.rs2 = n]
load(f3, rd, a, i) == [I("LOAD") EXCEPT !.funct3 = f3, !.rd = rd, !.rs1 = a, !.imm = i % 256]
store(f3, b, a, i) == [I("STORE") EXCEPT !.funct3 = f3, !.rs2 = b, !.rs1 = a, !.imm = i % 256]
branch(f3, a, b, i) == [I("BRANCH") EXCEPT !.funct3 = f3, !.rs1 = a, !.rs2 = b, !.imm = i % 256]
jal(rd, i)         == [I("JAL") EXCEPT !.rd = rd, !.imm = i % 256]
jalr(rd, a, i)     == [I("JALR") EXCEPT !.rd = rd, !.rs1 = a, !.imm = i % 256]
lui(rd, i)         == [I("LUI") EXCEPT !.rd = rd, !.imm = i]
auipc(rd, i)       == [I("AUIPC") EXCEPT !.rd = rd, !.imm = i]
csrrw(rd, c, a)    == [I("SYSTEM") EXCEPT !.funct3 = 1, !.rd = rd, !.rs1 = a, !.csr = c]
csrrs(rd, c, a)    == [I("SYSTEM") EXCEPT !.funct3 = 2, !.rd = rd, !.rs1 = a, !.csr = c]
system(name)       == [I("SYSTEM") EXCEPT !.csr = name]
addi(rd, a, i)     == rri(0, rd, a, i)
lw(rd, i)          == load(2, rd, 0, i)
sw(b, i)           == store(2, b, 0, i)
fence_i            == [I("MISC_MEM") EXCEPT !.funct3 = 1]
ebreak             == system("ebreak")
nop                == addi(0, 0, 0)

\* Registers that depend on each other at every distance, through loads too.
Dependent == <<lw(1, 0), rrr(0, 0, 2, 1, 1), sw(2, 4), load(0, 3, 0, 6),
               rrr(0, 32, 1, 3, 2), store(0, 1, 0, 9), shift(5, 32, 3, 1, 2),
               lw(2, 8), rrr(4, 0, 2, 2, 3), ebreak>>

\* A loop, calls, and instructions behind jumps that must have no effect.
Jumping == <<addi(1, 0, 2), addi(1, 1, -1), branch(1, 1, 0, -4), jal(2, 8),
             sw(2, 4), jalr(3, 2, 8), csrrw(0, "mtvec", 2), branch(4, 1, 0, -8),
             auipc(3, 4), ebreak>>

\* A trap to a handler that returns behind the ecall.
Trapping == <<addi(1, 0, 36), csrrw(0, "mtvec", 1), system("ecall"), sw(2, 4), ebreak,
              csrrs(2, "mepc", 0), addi(2, 2, 4), csrrw(3, "mepc", 2), system("mret"),
              csrrw(0, "mepc", 1)>>

\* The word at 0 is stored over the instruction at 32 before it is fetched again.
Modifying == <<lw(1, 0), sw(1, 32), sw(1, 4), fence_i, addi(2, 0, 1), addi(2, 2, 1), ebreak>>
NewWord   == addi(2, 0, 5)

\* A device register, which the reference does not have.
Device == <<addi(1, 0, 3), sw(1, 12), lw(2, 12), rrr(0, 0, 1, 1, 2), ebreak>>

\* Every program of a load and two of these instructions.
Mixed == {lw(1, 0), rrr(0, 0, 1, 1, 2), rrr(4, 0, 2, 1, 1), sw(1, 4), branch(6, 2, 1, 8)}
MixedPrograms == {<<lw(1, 0), b, c, ebreak, ebreak>> : b \in Mixed, c \in Mixed}

\* The instruction words: a program's words are the first with its fields.
Listing == Dependent \o Jumping \o Trapping \o Modifying \o Device
           \o <<nop, rrr(0, 0, 1, 1, 2), NewWord, rrr(4, 0, 2, 1, 1),
                sw(1, 4), branch(6, 2, 1, 8)>>

MCEncoding == [w \in 1 .. Len(Listing) |-> Listing[w]]

WordOf(fields) == CHOOSE w \in DOMAIN MCEncoding : MCEncoding[w] = fields

Image(p) ==
    [a \in {x \in WordAddr : x < RamLimit} |->
        LET i == (a - RESET_PC) \div 4 + 1
        IN CASE a = 0 -> WordOf(NewWord)
             [] a = 12 -> 7
             [] a \in {4, 8} -> 0
             [] a >= RESET_PC /\ i <= Len(p) -> WordOf(p[i])
             [] OTHER -> WordOf(nop)]

MCImages == {Image(p) : p \in {Dependent, Jumping, Trapping, Modifying, Device}
                               \cup MixedPrograms}
MCMmioAddr == 12 .. 15
=============================================================================
