------------------------------ MODULE Datapath ------------------------------
(***************************************************************************)
(* The combinational parts of EXU and LSU, and what NEMU computes for the  *)
(* same instructions: words, byte lanes and the ALU.                       *)
(***************************************************************************)
EXTENDS Integers

-----------------------------------------------------------------------------
(***************************************************************************)
(* The byte lanes of the data bus: how LSU.sv places a store's bytes on    *)
(* wdata/wstrb and takes a load's bytes from rdata, and, for comparison,   *)
(* how NEMU reads and writes its memory.  A word has four bytes; a byte is *)
(* below ByteLimit, which is 2^8 in the RTL and any even number here, its   *)
(* upper half being the negative values.                                    *)
(***************************************************************************)

CONSTANT ByteLimit

ASSUME ByteAssumption == ByteLimit \in Nat /\ ByteLimit >= 2 /\ ByteLimit % 2 = 0

\* The weight of a lane: the i-th power of ByteLimit.
Weight(i) == CASE i = 0 -> 1
               [] i = 1 -> ByteLimit
               [] i = 2 -> ByteLimit * ByteLimit
               [] i = 3 -> ByteLimit * ByteLimit * ByteLimit
               [] i = 4 -> ByteLimit * ByteLimit * ByteLimit * ByteLimit

WordLimit == Weight(4)
Word      == 0 .. WordLimit - 1
Lane      == 0 .. 3

ByteOf(w, i)   == (w \div Weight(i)) % ByteLimit
OfBytes(b)     == b[0] + b[1] * Weight(1) + b[2] * Weight(2) + b[3] * Weight(3)

SignExtend(x, n) ==
    IF x >= Weight(n) \div 2 THEN x + WordLimit - Weight(n) ELSE x

-----------------------------------------------------------------------------
(* LSU.sv.  Sizes are the funct3 field of the instruction.                 *)

\* The word on the bus, moved so that the addressed byte is the lowest.
bus_word(rdata, addr) == rdata \div Weight(addr % 4)

\* Faulty variant of load_result: lhu is sign extended.
load_result_lhu_signed(size, rdata, addr) ==
    LET word == bus_word(rdata, addr)
    IN CASE size = 0 -> SignExtend(word % ByteLimit, 1)
         [] size \in {1, 5} -> SignExtend(word % Weight(2), 2)
         [] size = 2 -> word
         [] size = 4 -> word % ByteLimit
         [] OTHER    -> 0

load_result(size, rdata, addr) ==
    LET word == bus_word(rdata, addr)
    IN CASE size = 0 -> SignExtend(word % ByteLimit, 1)
         [] size = 1 -> SignExtend(word % Weight(2), 2)
         [] size = 2 -> word
         [] size = 4 -> word % ByteLimit
         [] size = 5 -> word % Weight(2)
         [] OTHER    -> 0

store_wdata(size, data, addr) ==
    CASE size = 0 -> OfBytes([i \in Lane |-> data % ByteLimit])
      [] size = 1 -> ((data % Weight(2)) * Weight(addr % 4)) % WordLimit
      [] OTHER    -> data

store_wstrb(size, addr) ==
    CASE size = 0 -> {addr % 4}
      [] size = 1 -> {addr % 4, (addr % 4) + 1} \cap Lane
      [] size = 2 -> Lane
      [] OTHER    -> {}

-----------------------------------------------------------------------------
(* What a slave does with a write: it replaces the strobed bytes.          *)

Strobed(old, wdata, wstrb) ==
    OfBytes([i \in Lane |-> ByteOf(IF i \in wstrb THEN wdata ELSE old, i)])

-----------------------------------------------------------------------------
(* NEMU: host_read and host_write access len bytes at any address.  Memory *)
(* is given as words; m[a] is the word at the word address a.              *)

byte_at(m, a) == ByteOf(m[a - (a % 4)], a % 4)

host_read(m, a, len) ==
    OfBytes([i \in Lane |-> IF i < len THEN byte_at(m, a + i) ELSE 0])

host_write(m, a, len, data) ==
    [w \in DOMAIN m |->
        OfBytes([i \in Lane |-> IF w + i \in a .. a + len - 1
                                THEN ByteOf(data, w + i - a) ELSE ByteOf(m[w], i)])]

\* Bytes accessed by a load or store of this size.
Length(size) == CASE size \in {0, 4} -> 1 [] size \in {1, 5} -> 2 [] OTHER -> 4

\* lb, lh, lw, lbu, lhu as NEMU executes them.
ref_load(m, size, a) ==
    LET x == host_read(m, a, Length(size))
    IN IF size \in {0, 1} THEN SignExtend(x, Length(size)) ELSE x

\* The access does not cross a word: the data bus carries one word.
WithinWord(size, a) == (a % 4) + Length(size) <= 4

-----------------------------------------------------------------------------
(***************************************************************************)
(* Word arithmetic: npc/vsrc/ALU.sv, and the C operators that NEMU uses for *)
(* the same instructions.  A word is a natural below 2^XLEN.                *)
(***************************************************************************)

CONSTANT XLEN

\* 2^n.
Pow2[n \in 0 .. XLEN] == IF n = 0 THEN 1 ELSE 2 * Pow2[n - 1]

ASSUME XlenAssumption == XLEN \in Nat \ {0} /\ Pow2[XLEN] = WordLimit

\* A word as the set of its one bits, and back.
Bits(x)   == {i \in 0 .. XLEN - 1 : (x \div Pow2[i]) % 2 = 1}
OfBits(s) ==
    LET From[n \in 0 .. XLEN] ==
            IF n = XLEN THEN 0 ELSE 2 * From[n + 1] + (IF n \in s THEN 1 ELSE 0)
    IN From[0]

Add(a, b) == (a + b) % WordLimit
Top(x)    == x \div Pow2[XLEN - 1] = 1
Invert(x) == WordLimit - 1 - x
Bool(b)   == IF b THEN 1 ELSE 0

-----------------------------------------------------------------------------
(* ALU.sv *)

diff(a, b)     == Add(a, Add(Invert(b), 1))
zero(a, b)     == diff(a, b) = 0
negative(a, b) == Top(diff(a, b))

\* The carry out of a + ~b + 1.
no_borrow(a, b) == a + Invert(b) + 1 >= WordLimit

\* Faulty variant of overflow: the operands' signs are not compared.
overflow_any_sign(a, b) == Top(a) # Top(diff(a, b))

overflow(a, b) == Top(a) # Top(b) /\ Top(a) # Top(diff(a, b))

alu_result(op, a, b) ==
    LET n == b % XLEN
    IN CASE op = "ADD"  -> Add(a, b)
         [] op = "SUB"  -> diff(a, b)
         [] op = "AND"  -> OfBits(Bits(a) \cap Bits(b))
         [] op = "OR"   -> OfBits(Bits(a) \cup Bits(b))
         [] op = "XOR"  -> OfBits((Bits(a) \cup Bits(b)) \ (Bits(a) \cap Bits(b)))
         [] op = "SLL"  -> (a * Pow2[n]) % WordLimit
         [] op = "SRL"  -> a \div Pow2[n]
         [] op = "SRA"  -> a \div Pow2[n] + (IF Top(a) THEN WordLimit - Pow2[XLEN - n] ELSE 0)
         [] op = "SLT"  -> Bool(negative(a, b) # overflow(a, b))
         [] op = "SLTU" -> Bool(~no_borrow(a, b))

\* EXU.sv decides branches on the flags of the two registers' difference.
branch_taken(funct3, a, b) ==
    CASE funct3 = 0 -> zero(a, b)
      [] funct3 = 1 -> ~zero(a, b)
      [] funct3 = 4 -> negative(a, b) # overflow(a, b)
      [] funct3 = 5 -> negative(a, b) = overflow(a, b)
      [] funct3 = 6 -> ~no_borrow(a, b)
      [] funct3 = 7 -> no_borrow(a, b)
      [] OTHER -> FALSE

-----------------------------------------------------------------------------
(* NEMU (inst.c) *)

int32(x) == IF x >= WordLimit \div 2 THEN x - WordLimit ELSE x

ref_result(op, a, b) ==
    LET n == b % XLEN
    IN CASE op = "ADD"  -> (a + b) % WordLimit
         [] op = "SUB"  -> (a - b) % WordLimit
         [] op = "AND"  -> OfBits({i \in Bits(a) : i \in Bits(b)})
         [] op = "OR"   -> OfBits({i \in 0 .. XLEN - 1 : i \in Bits(a) \/ i \in Bits(b)})
         [] op = "XOR"  -> OfBits({i \in 0 .. XLEN - 1 : (i \in Bits(a)) # (i \in Bits(b))})
         [] op = "SLL"  -> (a * Pow2[n]) % WordLimit
         [] op = "SRL"  -> a \div Pow2[n]
         [] op = "SRA"  -> (int32(a) \div Pow2[n]) % WordLimit
         [] op = "SLT"  -> Bool(int32(a) < int32(b))
         [] op = "SLTU" -> Bool(a < b)

ref_branch(funct3, a, b) ==
    CASE funct3 = 0 -> a = b
      [] funct3 = 1 -> a # b
      [] funct3 = 4 -> int32(a) < int32(b)
      [] funct3 = 5 -> int32(a) >= int32(b)
      [] funct3 = 6 -> a < b
      [] funct3 = 7 -> a >= b
=============================================================================
