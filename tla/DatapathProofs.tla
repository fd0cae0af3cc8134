--------------------------- MODULE DatapathProofs ---------------------------
(***************************************************************************)
(* The combinational parts of EXU and LSU compute what the C operators of  *)
(* NEMU do, for every size of a byte and every pair of words.  TLC checks  *)
(* the same statement on all pairs of small words.                         *)
(***************************************************************************)
EXTENDS Datapath, Induction

-----------------------------------------------------------------------------
(* The two operands of an instruction, or a word of memory and a register: *)
(* what is to be shown of any two.                                          *)

VARIABLES src1, src2

Operands == src1 \in Word /\ src2 \in Word
Kept     == UNCHANGED <<src1, src2>>
OperandsSpec == Operands /\ [][Kept]_<<src1, src2>>

AluOps     == {"ADD", "SUB", "AND", "OR", "XOR", "SLL", "SRL", "SRA", "SLT", "SLTU"}
BranchOps  == {0, 1, 4, 5, 6, 7}
LoadSizes  == {0, 1, 2, 4, 5}
StoreSizes == {0, 1, 2}

\* ALU.sv computes what the C operators do: subtraction through the inverted
\* operand, comparisons through the borrow and overflow flags, arithmetic shifts
\* on the sign.
AluAgrees == \A op \in AluOps : alu_result(op, src1, src2) = ref_result(op, src1, src2)

\* EXU.sv takes a branch on the flags exactly when NEMU's comparison holds, at
\* the most negative word too.
BranchAgrees == \A f \in BranchOps : branch_taken(f, src1, src2) <=> ref_branch(f, src1, src2)

\* A load that stays within a word takes from the bus what NEMU reads.
LoadAgrees ==
    \A size \in LoadSizes, addr \in Lane :
        WithinWord(size, addr) =>
            load_result(size, src1, addr) = ref_load([w \in {0} |-> src1], size, addr)

\* A store that stays within a word changes the bytes that NEMU writes, and
\* leaves the other bytes of the word alone.
StoreAgrees ==
    \A size \in StoreSizes, addr \in Lane :
        WithinWord(size, addr) =>
            Strobed(src1, store_wdata(size, src2, addr), store_wstrb(size, addr))
                = host_write([w \in {0} |-> src1], addr, Length(size), src2)[0]

\* The four together: EXU and LSU compute what NEMU's interpreter does.
DatapathAgrees == AluAgrees /\ BranchAgrees /\ LoadAgrees /\ StoreAgrees

\* The time a prover may take for a step.
USE SMTT(20), ZenonT(30)

-----------------------------------------------------------------------------
(* Division with remainder. *)

\* q is x \div d and r is x % d.
Divides(x, d, q, r) == x \div d = q /\ x % d = r

LEMMA Division ==
  ASSUME NEW x \in Int, NEW d \in Nat \ {0}
  PROVE  /\ x \div d \in Int /\ x % d \in 0 .. d - 1
         /\ x = d * (x \div d) + (x % d)
  OBVIOUS

\* What a division of naturals gives.
Divided(x, d) ==
  x \div d \in Nat /\ x % d \in 0 .. d - 1 /\ x = d * (x \div d) + (x % d)

LEMMA DivisionNat ==
  ASSUME NEW x \in Nat, NEW d \in Nat \ {0}
  PROVE  Divided(x, d)
<1>1. x \div d \in Nat
  OBVIOUS
<1>2. x % d \in 0 .. d - 1 /\ x = d * (x \div d) + (x % d)
  OBVIOUS
<1> QED BY <1>1, <1>2 DEF Divided

\* Quotient and remainder are the only ones of their kind.
LEMMA Unique ==
  ASSUME NEW d \in Nat \ {0}, NEW q \in Int, NEW r \in 0 .. d - 1
  PROVE  Divides(d * q + r, d, q, r)
<1> DEFINE x == d * q + r
           Q == x \div d
           R == x % d
<1>1. Q \in Int /\ R \in 0 .. d - 1 /\ x = d * Q + R
  <2>1. x \in Int
    OBVIOUS
  <2> HIDE DEF x
  <2> QED BY <2>1, Division
<1> HIDE DEF Q, R
<1>2. ~(q < Q)
  <2> SUFFICES ASSUME q < Q PROVE FALSE
    OBVIOUS
  <2>1. PICK n \in Nat : Q = q + 1 + n
    <3>1. Q = q + 1 + (Q - q - 1) /\ Q - q - 1 \in Nat
      BY <1>1
    <3> QED BY <3>1
  <2>2. d * Q = d * q + d + d * n /\ d * n \in Nat
    BY <2>1
  <2> QED BY <1>1, <2>2
<1>3. ~(Q < q)
  <2> SUFFICES ASSUME Q < q PROVE FALSE
    OBVIOUS
  <2>1. PICK n \in Nat : q = Q + 1 + n
    <3>1. q = Q + 1 + (q - Q - 1) /\ q - Q - 1 \in Nat
      BY <1>1
    <3> QED BY <3>1
  <2>2. d * q = d * Q + d + d * n /\ d * n \in Nat
    BY <1>1, <2>1
  <2> QED BY <1>1, <2>2
<1>4. Q = q
  BY <1>1, <1>2, <1>3
<1>5. R = r
  BY <1>1, <1>4
<1> QED BY <1>4, <1>5 DEF Q, R, Divides

\* Multiplying a sum out.
Distributes(x, y, d) ==
  (x + 1 + y) * d = x * d + d + y * d /\ x * d \in Nat /\ y * d \in Nat

LEMMA Distribution ==
  ASSUME NEW x \in Nat, NEW y \in Nat, NEW d \in Nat
  PROVE  Distributes(x, y, d)
  BY DEF Distributes

\* Dividing by d and then by e.
DividedTwice(x, d, e) ==
  /\ x \div (d * e) = (x \div d) \div e
  /\ x % (d * e) = (x % d) + d * ((x \div d) % e)

LEMMA DivDiv ==
  ASSUME NEW x \in Nat, NEW d \in Nat \ {0}, NEW e \in Nat \ {0}
  PROVE  DividedTwice(x, d, e)
<1> DEFINE q == x \div d
           r == x % d
           p == q \div e
           s == q % e
           t == r + d * s
<1>1. q \in Nat /\ r \in 0 .. d - 1 /\ x = d * q + r
  <2>1. Divided(x, d)
    BY DivisionNat
  <2> QED BY <2>1 DEF Divided
<1>2. p \in Nat /\ s \in 0 .. e - 1 /\ q = e * p + s
  <2> HIDE DEF q
  <2>1. Divided(q, e)
    BY <1>1, DivisionNat
  <2> QED BY <2>1 DEF Divided
<1> HIDE DEF q, r, p, s
<1>3. d * e \in Nat \ {0}
  OBVIOUS
<1>4. t \in 0 .. d * e - 1
  <2>1. PICK n \in Nat : e = s + 1 + n
    <3>1. e = s + 1 + (e - s - 1) /\ e - s - 1 \in Nat
      BY <1>2
    <3> QED BY <3>1
  <2>2. d * e = d * s + d + d * n /\ d * n \in Nat /\ d * s \in Nat
    BY <1>2, <2>1
  <2> QED BY <1>1, <1>2, <2>2
<1>5. x = (d * e) * p + t
  <2>1. d * q = d * (e * p) + d * s /\ d * (e * p) = (d * e) * p
    BY <1>1, <1>2
  <2> QED BY <1>1, <1>2, <2>1
<1> DEFINE m == d * e
<1>6. m \in Nat \ {0} /\ t \in 0 .. m - 1 /\ x = m * p + t
  BY <1>3, <1>4, <1>5
<1> HIDE DEF m, t
<1>7. Divides(x, m, p, t)
  BY <1>2, <1>6, Unique
<1> QED BY <1>7 DEF Divides, DividedTwice, m, t, p, s, q, r

-----------------------------------------------------------------------------
(* Words and bytes. *)

Byte == 0 .. ByteLimit - 1

\* A lane weighs ByteLimit times the one below.
Heavier(i) == Weight(i) \in Nat \ {0} /\ Weight(i + 1) = Weight(i) * ByteLimit

LEMMA Weights == /\ Weight(0) = 1 /\ Weight(1) = ByteLimit /\ ByteLimit \in Nat \ {0}
                 /\ \A i \in Lane : Heavier(i)
                 /\ WordLimit \in Nat \ {0}
<1>1. ByteLimit \in Nat \ {0}
  BY ByteAssumption
<1>2. /\ Weight(0) = 1 /\ Weight(1) = ByteLimit /\ Weight(2) = ByteLimit * ByteLimit
      /\ Weight(3) = (ByteLimit * ByteLimit) * ByteLimit
      /\ Weight(4) = ((ByteLimit * ByteLimit) * ByteLimit) * ByteLimit
  BY DEF Weight
<1>3. Weight(0) \in Nat \ {0} /\ Weight(1) \in Nat \ {0}
  BY <1>1, <1>2
<1>4. Weight(2) = Weight(1) * ByteLimit /\ Weight(2) \in Nat \ {0}
  BY <1>1, <1>2, <1>3
<1>5. Weight(3) = Weight(2) * ByteLimit /\ Weight(3) \in Nat \ {0}
  <2>1. Weight(3) = Weight(2) * ByteLimit
    BY <1>2
  <2> QED BY <1>1, <1>4, <2>1
<1>6. Weight(4) = Weight(3) * ByteLimit /\ Weight(4) \in Nat \ {0}
  <2>1. Weight(4) = Weight(3) * ByteLimit
    BY <1>2
  <2> QED BY <1>1, <1>5, <2>1
<1>7. Weight(1) = Weight(0) * ByteLimit
  BY <1>1, <1>2
<1>8. ASSUME NEW i \in Lane PROVE Heavier(i)
  <2>1. i = 0 \/ i = 1 \/ i = 2 \/ i = 3
    BY DEF Lane
  <2>2. CASE i = 0
    BY <1>3, <1>7, <2>2 DEF Heavier
  <2>3. CASE i = 1
    BY <1>3, <1>4, <2>3 DEF Heavier
  <2>4. CASE i = 2
    BY <1>4, <1>5, <2>4 DEF Heavier
  <2>5. CASE i = 3
    BY <1>5, <1>6, <2>5 DEF Heavier
  <2> QED BY <2>1, <2>2, <2>3, <2>4, <2>5
<1> QED BY <1>1, <1>2, <1>6, <1>8 DEF WordLimit

\* The part of a word above a lane.
Above(w, i) == w \div Weight(i)

LEMMA NextAbove ==
  ASSUME NEW w \in Nat, NEW i \in Lane
  PROVE  /\ Above(w, i) \in Nat /\ Above(w, i + 1) \in Nat
         /\ Above(w, i + 1) = Above(w, i) \div ByteLimit
         /\ Above(w, i) = ByteLimit * Above(w, i + 1) + ByteOf(w, i)
         /\ ByteOf(w, i) \in Byte
<1> DEFINE d == Weight(i)
           x == w \div d
<1>1. d \in Nat \ {0} /\ ByteLimit \in Nat \ {0} /\ Weight(i + 1) = d * ByteLimit
  BY Weights DEF Heavier
<1> HIDE DEF d
<1>2. x \in Nat
  <2>1. Divided(w, d)
    BY <1>1, DivisionNat
  <2> QED BY <2>1 DEF Divided
<1>3. w \div (d * ByteLimit) = x \div ByteLimit
  <2>1. DividedTwice(w, d, ByteLimit)
    BY <1>1, DivDiv
  <2> QED BY <2>1 DEF DividedTwice
<1>4. Above(w, i) = x /\ Above(w, i + 1) = x \div ByteLimit /\ ByteOf(w, i) = x % ByteLimit
  BY <1>1, <1>3 DEF Above, ByteOf, d
<1> HIDE DEF x
<1>5. x \div ByteLimit \in Nat /\ x % ByteLimit \in 0 .. ByteLimit - 1 /\ x = ByteLimit * (x \div ByteLimit) + (x % ByteLimit)
  <2>1. Divided(x, ByteLimit)
    BY <1>1, <1>2, DivisionNat
  <2> QED BY <2>1 DEF Divided
<1> QED BY <1>2, <1>4, <1>5 DEF Byte

Bytes(w) == [i \in Lane |-> ByteOf(w, i)]

\* A word is made of its bytes.
LEMMA WordOfBytes ==
  ASSUME NEW w \in Word
  PROVE  Bytes(w) \in [Lane -> Byte] /\ OfBytes(Bytes(w)) = w
<1> DEFINE x0 == Above(w, 0)
           x1 == Above(w, 1)
           x2 == Above(w, 2)
           x3 == Above(w, 3)
           x4 == Above(w, 4)
           B == ByteLimit
<1>0. w \in Nat /\ w < WordLimit /\ WordLimit \in Nat \ {0} /\ B \in Nat \ {0}
  BY Weights DEF Word
<1>1. \A i \in Lane : ByteOf(w, i) \in Byte
  BY <1>0, NextAbove
<1>2. x0 \in Nat /\ x1 \in Nat /\ x2 \in Nat /\ x3 \in Nat /\ x4 \in Nat
  <2>1. 0 \in Lane /\ 1 \in Lane /\ 2 \in Lane /\ 3 \in Lane
    BY DEF Lane
  <2>2. Above(w, 3 + 1) \in Nat
    BY <1>0, <2>1, NextAbove
  <2> QED BY <1>0, <2>1, <2>2, NextAbove
<1>3. x0 = w
  BY <1>0, Weights DEF Above
<1>4. x4 = 0
  <2>1. Divides(WordLimit * 0 + w, WordLimit, 0, w)
    BY <1>0, Unique
  <2> QED BY <1>0, <2>1 DEF Divides, Above, WordLimit
<1>5. /\ x0 = B * x1 + ByteOf(w, 0) /\ x1 = B * x2 + ByteOf(w, 1)
      /\ x2 = B * x3 + ByteOf(w, 2) /\ x3 = B * x4 + ByteOf(w, 3)
  <2>1. 0 \in Lane /\ 1 \in Lane /\ 2 \in Lane /\ 3 \in Lane
    BY DEF Lane
  <2>2. 0 + 1 = 1 /\ 1 + 1 = 2 /\ 2 + 1 = 3 /\ 3 + 1 = 4
    OBVIOUS
  <2> QED BY <1>0, <2>1, <2>2, NextAbove
<1> HIDE DEF x0, x1, x2, x3, x4
<1> DEFINE b == Bytes(w)
           b0 == b[0]
           b1 == b[1]
           b2 == b[2]
           b3 == b[3]
<1>6. b \in [Lane -> Byte] /\ b0 = ByteOf(w, 0) /\ b1 = ByteOf(w, 1) /\ b2 = ByteOf(w, 2) /\ b3 = ByteOf(w, 3)
  BY <1>1 DEF Bytes, Lane
<1>7. b0 \in Nat /\ b1 \in Nat /\ b2 \in Nat /\ b3 \in Nat
  BY <1>0, <1>6 DEF Byte, Lane
<1>8. OfBytes(b) = b0 + b1 * B + b2 * (B * B) + b3 * ((B * B) * B)
  BY Weights DEF OfBytes, Weight
<1> HIDE DEF b0, b1, b2, b3, B
<1>9. w = b0 + b1 * B + b2 * (B * B) + b3 * ((B * B) * B)
  <2>1. x3 = b3
    BY <1>0, <1>4, <1>5, <1>6, <1>7
  <2>2. x2 = B * b3 + b2 /\ x1 = B * x2 + b1 /\ w = B * x1 + b0
    BY <1>3, <1>5, <1>6, <2>1, Zenon
  <2>3. B * x2 = B * (B * b3) + B * b2
    BY <1>0, <1>7, <2>2
  <2>4. B * x1 = B * (B * x2) + B * b1
    BY <1>0, <1>2, <1>7, <2>2
  <2>5. B * (B * x2) = B * (B * (B * b3)) + B * (B * b2)
    BY <1>0, <1>7, <2>3
  <2>6. B * (B * (B * b3)) = b3 * ((B * B) * B) /\ B * (B * b2) = b2 * (B * B) /\ B * b1 = b1 * B
    BY <1>0, <1>7
  <2> QED BY <1>0, <1>7, <2>2, <2>4, <2>5, <2>6
<1> QED BY <1>6, <1>8, <1>9

\* The bytes of a word made of bytes.
LEMMA BytesOfWord ==
  ASSUME NEW b \in [Lane -> Byte]
  PROVE  OfBytes(b) \in Word /\ \A i \in Lane : ByteOf(OfBytes(b), i) = b[i]
<1> DEFINE B == ByteLimit
           b0 == b[0]
           b1 == b[1]
           b2 == b[2]
           b3 == b[3]
<1>0. B \in Nat \ {0}
  BY Weights
<1>1. b0 \in 0 .. B - 1 /\ b1 \in 0 .. B - 1 /\ b2 \in 0 .. B - 1 /\ b3 \in 0 .. B - 1
  BY DEF Lane, Byte
<1>2. OfBytes(b) = b0 + b1 * B + b2 * (B * B) + b3 * ((B * B) * B)
  BY Weights DEF OfBytes, Weight
<1>3. WordLimit = ((B * B) * B) * B
  BY DEF WordLimit, Weight
<1> HIDE DEF B, b0, b1, b2, b3
<1> DEFINE x3 == b3
           x2 == B * x3 + b2
           x1 == B * x2 + b1
           x0 == B * x1 + b0
<1>4. x3 \in 0 .. B - 1
  BY <1>1
<1>5. x2 \in 0 .. (B * B) - 1 /\ Divides(x2, B, x3, b2)
  <2> HIDE DEF x3
  <2>1. PICK n \in Nat : B = x3 + 1 + n
    <3>1. B = x3 + 1 + (B - x3 - 1) /\ B - x3 - 1 \in Nat
      BY <1>0, <1>4
    <3> QED BY <3>1
  <2>2. B * B = B * x3 + B + B * n /\ B * n \in Nat /\ B * x3 \in Nat
    BY <1>0, <1>4, <2>1
  <2>3. Divides(x2, B, x3, b2)
    BY <1>0, <1>1, <1>4, Unique
  <2> QED BY <1>0, <1>1, <2>2, <2>3
<1> HIDE DEF x2
<1>6. x1 \in 0 .. ((B * B) * B) - 1 /\ Divides(x1, B, x2, b1)
  <2> DEFINE C == B * B
  <2>0. C \in Nat /\ x2 \in 0 .. C - 1
    BY <1>0, <1>5
  <2> HIDE DEF C
  <2>1. PICK n \in Nat : C = x2 + 1 + n
    <3>1. C = x2 + 1 + (C - x2 - 1) /\ C - x2 - 1 \in Nat
      BY <2>0
    <3> QED BY <3>1
  <2>2. C * B = B * x2 + B + B * n /\ B * n \in Nat /\ B * x2 \in Nat
    BY <1>0, <2>0, <2>1
  <2>3. Divides(x1, B, x2, b1)
    BY <1>0, <1>1, <2>0, Unique
  <2> QED BY <1>0, <1>1, <2>2, <2>3 DEF C
<1> HIDE DEF x1
<1>7. x0 \in 0 .. (((B * B) * B) * B) - 1 /\ Divides(x0, B, x1, b0)
  <2> DEFINE C == (B * B) * B
  <2>0. C \in Nat /\ x1 \in 0 .. C - 1
    BY <1>0, <1>6
  <2> HIDE DEF C
  <2>1. PICK n \in Nat : C = x1 + 1 + n
    <3>1. C = x1 + 1 + (C - x1 - 1) /\ C - x1 - 1 \in Nat
      BY <2>0
    <3> QED BY <3>1
  <2>2. C * B = B * x1 + B + B * n /\ B * n \in Nat /\ B * x1 \in Nat
    BY <1>0, <2>0, <2>1
  <2>3. Divides(x0, B, x1, b0)
    BY <1>0, <1>1, <2>0, Unique
  <2> QED BY <1>0, <1>1, <2>2, <2>3 DEF C
<1> HIDE DEF x0
<1>8. OfBytes(b) = x0
  <2>0. b0 \in Nat /\ b1 \in Nat /\ b2 \in Nat /\ b3 \in Nat
    BY <1>0, <1>1
  <2>1. x2 = B * b3 + b2 /\ x1 = B * x2 + b1 /\ x0 = B * x1 + b0
    BY DEF x0, x1, x2
  <2>2. B * x2 = B * (B * b3) + B * b2
    BY <1>0, <2>0, <2>1
  <2>3. B * x1 = B * (B * x2) + B * b1
    <3>1. x2 \in Nat
      BY <1>0, <1>5
    <3> QED BY <1>0, <2>0, <2>1, <3>1
  <2>4. B * (B * x2) = B * (B * (B * b3)) + B * (B * b2)
    BY <1>0, <2>0, <2>2
  <2>5. B * (B * (B * b3)) = b3 * ((B * B) * B) /\ B * (B * b2) = b2 * (B * B) /\ B * b1 = b1 * B
    BY <1>0, <2>0
  <2> QED BY <1>0, <1>2, <2>0, <2>1, <2>3, <2>4, <2>5
<1>9. x0 \in Word /\ x0 \in Nat
  BY <1>0, <1>3, <1>7 DEF Word
<1>10. /\ Above(x0, 0) = x0 /\ Above(x0, 1) = x1 /\ Above(x0, 2) = x2 /\ Above(x0, 3) = x3
  <2>1. 0 \in Lane /\ 1 \in Lane /\ 2 \in Lane /\ 0 + 1 = 1 /\ 1 + 1 = 2 /\ 2 + 1 = 3
    BY DEF Lane
  <2>2. Above(x0, 0) = x0
    BY <1>9, Weights DEF Above
  <2>3. /\ Above(x0, 1) = Above(x0, 0) \div B /\ Above(x0, 2) = Above(x0, 1) \div B
        /\ Above(x0, 3) = Above(x0, 2) \div B
    BY <1>9, <2>1, NextAbove DEF B
  <2> QED BY <1>5, <1>6, <1>7, <2>2, <2>3 DEF Divides
<1>11. \A i \in Lane : ByteOf(x0, i) = Above(x0, i) % B
  BY DEF ByteOf, Above, B
<1>12. x3 % B = b3
  <2>1. Divides(B * 0 + b3, B, 0, b3)
    BY <1>0, <1>1, Unique
  <2> QED BY <1>0, <1>1, <2>1 DEF Divides
<1>13. ASSUME NEW i \in Lane PROVE ByteOf(x0, i) = b[i]
  <2>1. i = 0 \/ i = 1 \/ i = 2 \/ i = 3
    BY DEF Lane
  <2>2. x0 % B = b[0] /\ x1 % B = b[1] /\ x2 % B = b[2] /\ x3 % B = b[3]
    BY <1>5, <1>6, <1>7, <1>12 DEF Divides, b0, b1, b2, b3
  <2> QED BY <1>10, <1>11, <2>1, <2>2
<1> QED BY <1>8, <1>9, <1>13

-----------------------------------------------------------------------------
(* Loads. *)

\* The word that holds an address, and the byte's lane in it.
LaneOf(a) == a % 4
WordOf(a) == a - LaneOf(a)

\* A later byte of the same word.
LEMMA SameWord ==
  ASSUME NEW a \in Nat, NEW i \in Lane, LaneOf(a) + i \in Lane
  PROVE  LaneOf(a) \in Lane /\ LaneOf(a + i) = LaneOf(a) + i /\ WordOf(a + i) = WordOf(a)
<1>1. LaneOf(a) \in Lane
  BY DEF LaneOf, Lane
<1>2. LaneOf(a + i) = LaneOf(a) + i
  BY DEF LaneOf, Lane
<1>3. WordOf(a + i) = WordOf(a)
  BY <1>1, <1>2 DEF WordOf, Lane
<1> QED BY <1>1, <1>2, <1>3

\* LSU.sv and NEMU load the same.
LoadsAlike(m, size, a) == load_result(size, m[WordOf(a)], a) = ref_load(m, size, a)

LEMMA Loads ==
  ASSUME NEW m, NEW a \in Nat, NEW size \in LoadSizes, m[WordOf(a)] \in Word, WithinWord(size, a)
  PROVE  LoadsAlike(m, size, a)
<1> DEFINE w == m[WordOf(a)]
           k == LaneOf(a)
           n == Length(size)
           B == ByteLimit
           f == [i \in Lane |-> IF i < n THEN byte_at(m, a + i) ELSE 0]
           x == Above(w, k)
<1>0. w \in Nat /\ w \in Word /\ B \in Nat \ {0} /\ k \in Lane
  BY Weights DEF Word, LaneOf, Lane
<1>1. n \in {1, 2, 4} /\ k + n <= 4 /\ k \in 0 .. 3
  BY <1>0 DEF WithinWord, Length, LoadSizes, LaneOf, Lane
<1>2. ASSUME NEW i \in Lane PROVE f[i] = IF i < n THEN ByteOf(w, k + i) ELSE 0
  <2>1. CASE i < n
    <3>1. k + i \in Lane
      BY <1>1, <2>1 DEF Lane
    <3>2. LaneOf(a + i) = k + i /\ WordOf(a + i) = WordOf(a)
      BY <3>1, SameWord
    <3>3. byte_at(m, a + i) = ByteOf(w, k + i)
      BY <3>2 DEF byte_at, LaneOf, WordOf
    <3> QED BY <2>1, <3>3
  <2>2. CASE ~(i < n)
    BY <2>2
  <2> QED BY <2>1, <2>2
<1>3. host_read(m, a, n) = OfBytes(f)
  BY DEF host_read
<1>4. x \in Nat /\ bus_word(w, a) = x
  BY <1>0, NextAbove DEF bus_word, Above, LaneOf
<1>5. 0 \in Lane /\ 1 \in Lane /\ 2 \in Lane /\ 3 \in Lane
  BY DEF Lane
<1> HIDE DEF w, k, n, f, x
<1>6. OfBytes(f) = f[0] + f[1] * B + f[2] * Weight(2) + f[3] * Weight(3)
  BY Weights DEF OfBytes
<1>7. Weight(2) \in Nat /\ Weight(3) \in Nat /\ Weight(2) = B * B
  BY <1>5, Weights DEF Heavier, Weight
<1>8. CASE size \in {0, 4}
  <2>1. n = 1
    BY <1>8 DEF n, Length
  <2>2. f[0] = ByteOf(w, k) /\ f[1] = 0 /\ f[2] = 0 /\ f[3] = 0 /\ ByteOf(w, k) \in Nat
    <3>1. ByteOf(w, k) \in Nat
      BY <1>0, NextAbove DEF Byte
    <3>2. f[0] = ByteOf(w, k + 0) /\ f[1] = 0 /\ f[2] = 0 /\ f[3] = 0 /\ k + 0 = k
      BY <1>1, <1>2, <1>5, <2>1
    <3> QED BY <3>1, <3>2
  <2>3. OfBytes(f) = ByteOf(w, k)
    BY <1>0, <1>6, <1>7, <2>2
  <2>4. ByteOf(w, k) = x % B
    BY DEF ByteOf, x, Above
  <2> QED BY <1>3, <1>4, <1>8, <2>1, <2>3, <2>4 DEF LoadsAlike, load_result, ref_load, w, n, Length
<1>9. CASE size \in {1, 5}
  <2>1. n = 2
    BY <1>9 DEF n, Length
  <2>2. k + 1 \in Lane
    BY <1>1, <2>1 DEF Lane
  <2>3. f[0] = ByteOf(w, k) /\ f[1] = ByteOf(w, k + 1) /\ f[2] = 0 /\ f[3] = 0
    BY <1>1, <1>2, <1>5, <2>1
  <2>4. ByteOf(w, k) = x % B /\ ByteOf(w, k + 1) = (x \div B) % B
    <3>1. Above(w, k + 1) = x \div B
      BY <1>0, NextAbove DEF x
    <3> QED BY <3>1 DEF ByteOf, x, Above
  <2>5. ByteOf(w, k) \in Nat /\ ByteOf(w, k + 1) \in Nat
    BY <1>0, <2>2, NextAbove DEF Byte
  <2>6. OfBytes(f) = ByteOf(w, k) + ByteOf(w, k + 1) * B
    BY <1>0, <1>6, <1>7, <2>3, <2>5
  <2>7. x % Weight(2) = (x % B) + B * ((x \div B) % B)
    <3>1. DividedTwice(x, B, B)
      BY <1>0, <1>4, DivDiv
    <3> QED BY <1>7, <3>1 DEF DividedTwice
  <2>8. OfBytes(f) = x % Weight(2)
    BY <1>0, <2>4, <2>5, <2>6, <2>7
  <2> QED BY <1>3, <1>4, <1>9, <2>1, <2>8 DEF LoadsAlike, load_result, ref_load, w, n, Length
<1>10. CASE size = 2
  <2>1. n = 4
    BY <1>10 DEF n, Length
  <2>2. k = 0
    BY <1>1, <2>1
  <2>3. f = Bytes(w)
    <3>1. \A i \in Lane : f[i] = ByteOf(w, i)
      BY <1>2, <2>1, <2>2 DEF Lane
    <3> QED BY <3>1 DEF f, Bytes
  <2>4. OfBytes(f) = w
    BY <1>0, <2>3, WordOfBytes
  <2>5. x = w
    BY <1>0, <2>2, Weights DEF x, Above
  <2> QED BY <1>3, <1>4, <1>10, <2>1, <2>4, <2>5 DEF LoadsAlike, load_result, ref_load, w, n, Length
<1> QED BY <1>8, <1>9, <1>10 DEF LoadSizes

-----------------------------------------------------------------------------
(* Stores. *)

\* What SoC and NEMU do to the words of memory.
StoresAlike(m, size, a, data) ==
  host_write(m, a, Length(size), data)
    = [m EXCEPT ![WordOf(a)] = Strobed(@, store_wdata(size, data, a), store_wstrb(size, a))]

\* The bytes that LSU.sv puts on the bus are the register's, from the
\* addressed lane on.
PutsBytes(size, data, a) ==
  /\ store_wdata(size, data, a) \in Nat
  /\ store_wstrb(size, a) = LaneOf(a) .. (LaneOf(a) + Length(size) - 1)
  /\ \A i \in store_wstrb(size, a) :
       ByteOf(store_wdata(size, data, a), i) = ByteOf(data, i - LaneOf(a))

LEMMA StoreBytes ==
  ASSUME NEW a \in Nat, NEW size \in StoreSizes, NEW data \in Word, WithinWord(size, a)
  PROVE  PutsBytes(size, data, a)
<1> DEFINE k == LaneOf(a)
           n == Length(size)
           B == ByteLimit
           s == store_wstrb(size, a)
           v == store_wdata(size, data, a)
<1>0. data \in Nat /\ B \in Nat \ {0} /\ k \in Lane /\ WordLimit \in Nat \ {0}
  BY Weights DEF Word, LaneOf, Lane
<1>1. n \in {1, 2, 4} /\ k + n <= 4 /\ k \in 0 .. 3
  BY <1>0 DEF WithinWord, Length, StoreSizes, LaneOf, Lane
<1>2. CASE size = 0
  <2> DEFINE b == data % B
             g == [i \in Lane |-> b]
  <2>1. n = 1 /\ s = {k} /\ v = OfBytes(g)
    BY <1>2 DEF Length, store_wstrb, store_wdata, LaneOf
  <2>2. s = k .. (k + n - 1)
    BY <1>1, <2>1
  <2>3. b \in Byte
    BY <1>0 DEF Byte
  <2>4. b = ByteOf(data, 0)
    <3>1. data \div 1 = data
      BY <1>0
    <3> QED BY <3>1, Weights DEF ByteOf
  <2> HIDE DEF b
  <2>5. g \in [Lane -> Byte] /\ g[k] = b
    BY <1>0, <2>3
  <2>6. v \in Word /\ ByteOf(v, k) = b
    BY <1>0, <2>1, <2>5, BytesOfWord
  <2>7. v \in Nat
    BY <1>0, <2>6 DEF Word
  <2>8. k - k = 0
    BY <1>1
  <2> QED BY <2>1, <2>2, <2>4, <2>6, <2>7, <2>8 DEF PutsBytes
<1>3. CASE size = 1
  <2> DEFINE W == Weight(2)
             y == data % W
             u == Weight(k)
             x == y * u
  <2>1. n = 2 /\ s = {k, k + 1} \cap Lane /\ v = x % WordLimit
    BY <1>3 DEF Length, store_wstrb, store_wdata, LaneOf
  <2>2. k \in 0 .. 2 /\ s = k .. (k + n - 1) /\ s = {k, k + 1} /\ k + 1 \in Lane /\ n = 2
    <3>1. k \in 0 .. 2 /\ k + 1 \in Lane /\ k \in Lane
      BY <1>1, <2>1 DEF Lane
    <3>2. s = {k, k + 1}
      BY <2>1, <3>1
    <3>3. k .. (k + n - 1) = {k, k + 1}
      BY <2>1, <3>1
    <3> QED BY <2>1, <3>1, <3>2, <3>3
  <2>3. /\ W \in Nat \ {0} /\ W = B * B /\ u \in Nat \ {0} /\ Weight(k + 1) = u * B
        /\ u \in {1, B, B * B} /\ WordLimit = ((B * B) * B) * B
    <3>1. 2 \in Lane
      BY DEF Lane
    <3> QED BY <1>0, <2>2, <3>1, Weights DEF Heavier, Weight, WordLimit
  <2>4. y \in 0 .. W - 1 /\ y = (data % B) + B * ((data \div B) % B)
    <3>1. DividedTwice(data, B, B)
      BY <1>0, DivDiv
    <3>2. y \in 0 .. W - 1
      BY <1>0, <2>3
    <3> QED BY <2>3, <3>1, <3>2 DEF DividedTwice
  <2> HIDE DEF W, y
  <2>5. (data % B) \in 0 .. B - 1 /\ (data \div B) % B \in 0 .. B - 1
    <3>1. data \div B \in Nat
      BY <1>0
    <3> QED BY <1>0, <3>1
  <2>6. y \in Nat /\ y \div B = (data \div B) % B /\ y % B = data % B
    <3> DEFINE p == data % B
               q == (data \div B) % B
    <3>1. p \in 0 .. B - 1 /\ q \in 0 .. B - 1 /\ y = p + B * q
      BY <2>4, <2>5
    <3> HIDE DEF p, q
    <3>2. q \in Int /\ y = B * q + p /\ y \in Nat
      BY <1>0, <3>1
    <3>3. Divides(y, B, q, p)
      BY <1>0, <3>1, <3>2, Unique
    <3> QED BY <3>2, <3>3 DEF Divides, p, q
  <2>7. x \in Nat /\ x < WordLimit
    <3>1. PICK j \in Nat : W = y + 1 + j
      <4>1. W = y + 1 + (W - y - 1) /\ W - y - 1 \in Nat
        BY <2>3, <2>4
      <4> QED BY <4>1
    <3>2. W * u = x + u + j * u /\ x \in Nat /\ j * u \in Nat
      <4>1. y \in Nat /\ u \in Nat
        BY <2>3, <2>6
      <4> HIDE DEF u
      <4>2. Distributes(y, j, u)
        BY <4>1, Distribution
      <4> QED BY <3>1, <4>2, Zenon DEF Distributes
    <3>3. W * u <= WordLimit
      <4>1. CASE u = 1
        <5>1. W * u = B * B /\ B * B <= (B * B) * B
          BY <1>0, <2>3, <4>1
        <5>2. (B * B) * B \in Nat /\ (B * B) * B <= ((B * B) * B) * B
          BY <1>0
        <5> QED BY <1>0, <2>3, <5>1, <5>2
      <4>2. CASE u = B
        <5>1. W * u = (B * B) * B
          BY <1>0, <2>3, <4>2
        <5>2. (B * B) * B \in Nat /\ (B * B) * B <= ((B * B) * B) * B
          BY <1>0
        <5> QED BY <1>0, <2>3, <5>1, <5>2
      <4>3. CASE u = B * B
        <5>1. W * u = ((B * B) * B) * B
          BY <1>0, <2>3, <4>3
        <5> QED BY <1>0, <2>3, <5>1
      <4> QED BY <2>3, <4>1, <4>2, <4>3
    <3> QED BY <1>0, <2>3, <3>2, <3>3
  <2>8. v = x
    BY <1>0, <2>1, <2>7
  <2>9. Above(x, k) = y /\ Above(x, k + 1) = y \div B
    <3>1. Divides(u * y + 0, u, y, 0)
      BY <2>3, <2>6, Unique
    <3>2. u * y + 0 = x
      BY <2>3, <2>6
    <3>3. x \div u = y
      BY <3>1, <3>2 DEF Divides
    <3>4. Above(x, k + 1) = Above(x, k) \div B
      BY <1>0, <2>7, NextAbove
    <3> QED BY <3>3, <3>4 DEF Above
  <2> HIDE DEF x
  <2>10. ByteOf(x, k) = data % B /\ ByteOf(x, k + 1) = (data \div B) % B
    <3>1. ByteOf(x, k) = Above(x, k) % B /\ ByteOf(x, k + 1) = Above(x, k + 1) % B
      BY DEF ByteOf, Above
    <3>2. ((data \div B) % B) % B = (data \div B) % B
      BY <1>0, <2>5
    <3> QED BY <2>6, <2>9, <3>1, <3>2
  <2>11. ByteOf(data, 0) = data % B /\ ByteOf(data, 1) = (data \div B) % B
    <3>1. data \div 1 = data
      BY <1>0
    <3> QED BY <3>1, Weights DEF ByteOf
  <2>12. k - k = 0 /\ (k + 1) - k = 1
    BY <1>1
  <2> QED BY <2>2, <2>7, <2>8, <2>10, <2>11, <2>12 DEF PutsBytes
<1>4. CASE size = 2
  <2>1. n = 4 /\ s = Lane /\ v = data
    BY <1>4 DEF Length, store_wstrb, store_wdata
  <2>2. k = 0 /\ s = k .. (k + n - 1)
    BY <1>1, <2>1 DEF Lane
  <2>3. \A i \in Lane : i - k = i
    BY <2>2 DEF Lane
  <2> QED BY <1>0, <2>1, <2>2, <2>3 DEF PutsBytes
<1> QED BY <1>2, <1>3, <1>4 DEF StoreSizes

\* Two words do not overlap.
Apart(v, w) == v + 4 <= w \/ w + 4 <= v

LEMMA OtherWord ==
  ASSUME NEW v \in Nat, NEW w \in Nat, LaneOf(v) = 0, LaneOf(w) = 0, v # w
  PROVE  Apart(v, w)
  BY DEF LaneOf, Apart

\* A memory of whole words.
WordMemory(D, m) == D \in SUBSET Nat /\ (\A w \in D : LaneOf(w) = 0) /\ m \in [D -> Word]

\* A store within a word, done by the slave with LSU.sv's strobes or by NEMU.
LEMMA Stores ==
  ASSUME NEW D, NEW m, WordMemory(D, m), NEW a \in Nat, WordOf(a) \in D,
         NEW size \in StoreSizes, NEW data \in Word, WithinWord(size, a)
  PROVE  StoresAlike(m, size, a, data) /\ WordMemory(D, host_write(m, a, Length(size), data))
<1>memory. D \in SUBSET Nat /\ (\A w \in D : LaneOf(w) = 0) /\ m \in [D -> Word]
  BY DEF WordMemory
<1> USE <1>memory
<1> DEFINE k == LaneOf(a)
           n == Length(size)
           s == store_wstrb(size, a)
           v == store_wdata(size, data, a)
           wa == WordOf(a)
           here(w) == [i \in Lane |-> IF w + i \in a .. a + n - 1 THEN ByteOf(data, w + i - a) ELSE ByteOf(m[w], i)]
           there(w) == [i \in Lane |-> ByteOf(IF i \in s THEN v ELSE m[w], i)]
<1>0. data \in Nat /\ k \in 0 .. 3 /\ wa = a - k /\ a = wa + k /\ wa \in Nat
  BY Weights DEF Word, LaneOf, WordOf
<1>1. n \in {1, 2, 4} /\ k + n <= 4
  BY <1>0 DEF WithinWord, Length, StoreSizes, LaneOf
<1>2. PutsBytes(size, data, a)
  BY StoreBytes
<1>3. v \in Nat /\ s = k .. (k + n - 1) /\ \A i \in s : ByteOf(v, i) = ByteOf(data, i - k)
  BY <1>2 DEF PutsBytes
<1> HIDE DEF k, n, s, v, wa
<1>4. here(wa) = there(wa)
  <2>1. ASSUME NEW i \in Lane PROVE here(wa)[i] = there(wa)[i]
    <3>1. i \in 0 .. 3
      BY DEF Lane
    <3>2. wa + i \in a .. a + n - 1 <=> i \in s
      <4>1. a <= wa + i <=> k <= i
        BY <1>0, <3>1
      <4>2. wa + i <= a + n - 1 <=> i <= k + n - 1
        BY <1>0, <1>1, <3>1
      <4>3. wa + i \in Int /\ a \in Int /\ a + n - 1 \in Int /\ k \in Int /\ k + n - 1 \in Int /\ i \in Int
        BY <1>0, <1>1, <3>1
      <4>4. s = k .. (k + n - 1)
        BY <1>3
      <4> HIDE DEF s
      <4> QED BY <4>1, <4>2, <4>3, <4>4
    <3>3. wa + i - a = i - k
      BY <1>0, <3>1
    <3> QED BY <1>3, <3>2, <3>3
  <2> QED BY <2>1
<1>5. ASSUME NEW w \in D, w # wa PROVE here(w) = Bytes(m[w])
  <2>1. ASSUME NEW i \in Lane PROVE ~(w + i \in a .. a + n - 1)
    <3>1. i \in 0 .. 3 /\ w \in Nat
      BY DEF Lane
    <3>2. LaneOf(w) = 0 /\ LaneOf(wa) = 0
      BY Zenon DEF wa
    <3>3. Apart(w, wa)
      BY <1>0, <1>5, <3>1, <3>2, OtherWord
    <3> QED BY <1>0, <1>1, <3>1, <3>3 DEF Apart
  <2> QED BY <2>1 DEF Bytes
<1>6. ASSUME NEW w \in D PROVE here(w) \in [Lane -> Byte] /\ OfBytes(here(w)) \in Word
  <2>1. ASSUME NEW i \in Lane PROVE here(w)[i] \in Byte
    <3>1. m[w] \in Nat
      BY Weights DEF Word
    <3>2. ByteOf(m[w], i) \in Byte
      BY <3>1, NextAbove
    <3>3. ASSUME w + i \in a .. a + n - 1 PROVE ByteOf(data, w + i - a) \in Byte
      <4>1. w + i - a \in Lane
        BY <1>0, <1>1, <3>3 DEF Lane
      <4> QED BY <1>0, <4>1, NextAbove
    <3> QED BY <3>2, <3>3
  <2> HIDE DEF here
  <2>2. here(w) \in [Lane -> Byte]
    BY <2>1 DEF here
  <2> QED BY <2>2, BytesOfWord
<1>7. host_write(m, a, n, data) = [w \in D |-> OfBytes(here(w))]
  BY DEF host_write
<1>8. Strobed(m[wa], v, s) = OfBytes(there(wa))
  BY DEF Strobed
<1>9. ASSUME NEW w \in D PROVE OfBytes(here(w)) = IF w = wa THEN OfBytes(there(wa)) ELSE m[w]
  <2>1. CASE w = wa
    BY <1>4, <2>1
  <2>2. CASE w # wa
    BY <1>5, <2>2, WordOfBytes
  <2> QED BY <2>1, <2>2
<1> HIDE DEF here, there
<1> DEFINE x == OfBytes(there(wa))
<1>10. host_write(m, a, n, data) = [m EXCEPT ![wa] = x]
  <2> HIDE DEF x
  <2>1. \A w \in D : OfBytes(here(w)) = IF w = wa THEN x ELSE m[w]
    BY <1>9 DEF x
  <2>2. [w \in D |-> OfBytes(here(w))] = [w \in D |-> IF w = wa THEN x ELSE m[w]]
    BY <2>1, Zenon
  <2>3. DOMAIN m = D
    OBVIOUS
  <2>4. [m EXCEPT ![wa] = x] = [w \in D |-> IF w = wa THEN x ELSE m[w]]
    BY <2>3, Zenon
  <2> QED BY <1>7, <2>2, <2>4, Zenon
<1>11. StoresAlike(m, size, a, data)
  BY <1>8, <1>10, Zenon DEF StoresAlike, n, s, v, wa
<1>12. host_write(m, a, n, data) \in [D -> Word]
  BY <1>6, <1>7
<1>13. WordMemory(D, host_write(m, a, n, data))
  BY <1>12 DEF WordMemory
<1> QED BY <1>11, <1>13 DEF n

\* What LSU.sv hands on and what it puts on the bus are words.
LEMMA LoadIsWord ==
  ASSUME NEW w \in Word, NEW a \in Nat, NEW size \in LoadSizes
  PROVE  load_result(size, w, a) \in Word
<1> DEFINE x == bus_word(w, a)
           B1 == Weight(1)
           B2 == Weight(2)
           B4 == Weight(4)
<1>1. /\ a % 4 \in Lane /\ B1 \in Nat \ {0} /\ B2 \in Nat \ {0} /\ B4 \in Nat \ {0}
      /\ B1 = ByteLimit /\ B1 <= B4 /\ B2 <= B4
  BY Weights, ByteAssumption DEF Lane, Heavier
<1>2. Word = 0 .. B4 - 1
  BY DEF Word, WordLimit
<1>3. x \in Word
  <2> DEFINE d == Weight(a % 4)
  <2>1. d \in Nat \ {0}
    BY <1>1, Weights DEF Lane, Heavier
  <2> HIDE DEF d
  <2>2. w \in Nat /\ Divided(w, d)
    BY <1>1, <1>2, <2>1, DivisionNat
  <2>3. w \div d \in Nat /\ w \div d <= w
    <3>1. w \div d \in Nat /\ w % d \in Nat /\ w = d * (w \div d) + (w % d)
      BY <2>2, <2>1 DEF Divided
    <3> DEFINE q == w \div d
               r == w % d
    <3> HIDE DEF q, r
    <3>2. PICK j \in Nat : d = 1 + j
      <4>1. d = 1 + (d - 1) /\ d - 1 \in Nat
        BY <2>1
      <4> QED BY <4>1
    <3>3. d * q = q + j * q /\ j * q \in Nat
      BY <3>1, <3>2 DEF q
    <3>4. q \in Nat /\ r \in Nat /\ w = d * q + r
      BY <3>1 DEF q, r
    <3>5. q <= w
      BY <3>3, <3>4
    <3> QED BY <3>4, <3>5 DEF q
  <2> QED BY <1>1, <1>2, <2>2, <2>3 DEF bus_word, d
<1> HIDE DEF x
<1>4. x % B1 \in 0 .. B1 - 1 /\ x % B2 \in 0 .. B2 - 1
  BY <1>1, <1>2, <1>3
<1> DEFINE y1 == x % B1
           y2 == x % B2
<1>5. ASSUME NEW n \in {1, 2}, NEW y \in 0 .. Weight(n) - 1 PROVE SignExtend(y, n) \in Word /\ y \in Word
  <2>1. Weight(n) \in Nat \ {0} /\ Weight(n) <= B4
    BY <1>1
  <2>2. y + B4 - Weight(n) \in 0 .. B4 - 1 /\ y \in 0 .. B4 - 1
    BY <1>1, <2>1
  <2> QED BY <1>2, <2>2 DEF SignExtend, WordLimit
<1>6. SignExtend(y1, 1) \in Word /\ SignExtend(y2, 2) \in Word /\ y1 \in Word /\ y2 \in Word
  BY <1>4, <1>5
<1> HIDE DEF y1, y2, B1, B2, B4
<1>7. load_result(size, w, a) \in {SignExtend(y1, 1), SignExtend(y2, 2), x, y1, y2}
  BY <1>1 DEF load_result, LoadSizes, y1, y2, x, B1, B2
<1> QED BY <1>3, <1>6, <1>7

LEMMA StoreIsWord ==
  ASSUME NEW data \in Word, NEW a \in Nat, NEW size \in StoreSizes
  PROVE  store_wdata(size, data, a) \in Word /\ store_wstrb(size, a) \subseteq Lane
<1>1. data \in Nat /\ a % 4 \in Lane /\ WordLimit \in Nat \ {0} /\ ByteLimit \in Nat \ {0}
  BY Weights DEF Word, WordLimit, Lane, Heavier
<1>2. CASE size = 0
  <2>1. [i \in Lane |-> data % ByteLimit] \in [Lane -> Byte]
    BY <1>1 DEF Byte
  <2>2. OfBytes([i \in Lane |-> data % ByteLimit]) \in Word
    BY <2>1, BytesOfWord
  <2> QED BY <1>1, <1>2, <2>2 DEF store_wdata, store_wstrb
<1>3. CASE size = 1
  <2> DEFINE x == (data % Weight(2)) * Weight(a % 4)
  <2>1. x \in Nat
    BY <1>1, Weights DEF Lane, Heavier
  <2> HIDE DEF x
  <2>2. x % WordLimit \in Word
    BY <1>1, <2>1 DEF Word
  <2> QED BY <1>1, <1>3, <2>2 DEF store_wdata, store_wstrb, x
<1>4. CASE size = 2
  BY <1>4 DEF store_wdata, store_wstrb
<1> QED BY <1>2, <1>3, <1>4 DEF StoreSizes

-----------------------------------------------------------------------------
(* Powers of two. *)

\* The next power.
Doubles(n) == Pow2[n + 1] = 2 * Pow2[n]

LEMMA Powers == /\ Pow2[0] = 1 /\ \A n \in 0 .. XLEN - 1 : Doubles(n)
                /\ \A n \in 0 .. XLEN : Pow2[n] \in Nat \ {0}
<1> DEFINE m == XLEN
           S == Nat \ {0}
           one == 1
           twice(x) == 2 * x
           D == [p \in (1 .. m) \X S |-> twice(p[2])]
           Body(f) == [n \in 0 .. m |-> IF n = 0 THEN one ELSE twice(f[n - 1])]
<1>1. m \in Nat /\ m \in Nat \ {0}
  BY XlenAssumption
<1> HIDE DEF m
<1>2. \A n \in 1 .. m, s \in S : D[<<n, s>>] = twice(s)
  OBVIOUS
<1>0. one \in S /\ \A s \in S : twice(s) \in S
  OBVIOUS
<1> HIDE DEF S, one, twice
<1>3. D \in [(1 .. m) \X S -> S]
  BY <1>0
<1> HIDE DEF D
<1>4. PICK f \in [0 .. m -> S] : f[0] = one /\ \A n \in 1 .. m : f[n] = D[<<n, f[n - 1]>>]
  <2>1. Iterated(S, one, m, D)
    BY <1>0, <1>1, <1>3, Iteration
  <2> QED BY <2>1, Zenon DEF Iterated, Iterates
<1>5. f = Body(f)
  <2>1. \A n \in 0 .. m : f[n] = IF n = 0 THEN one ELSE twice(f[n - 1])
    <3> TAKE n \in 0 .. m
    <3>1. CASE n = 0
      BY <1>4, <3>1
    <3>2. CASE n # 0
      <4>1. n \in 1 .. m /\ n - 1 \in 0 .. m
        BY <1>1, <3>2
      <4>2. f[n - 1] \in S
        BY <1>4, <4>1, Zenon
      <4>3. f[n] = D[<<n, f[n - 1]>>]
        BY <1>4, <4>1, Zenon
      <4>4. D[<<n, f[n - 1]>>] = twice(f[n - 1])
        BY <1>2, <4>1, <4>2, Zenon
      <4> QED BY <3>2, <4>3, <4>4, Zenon
    <3> QED BY <3>1, <3>2
  <2> QED BY <1>4, <2>1
<1>6. Pow2 = Body(Pow2)
  <2>1. Pow2 = CHOOSE h : h = Body(h)
    BY DEF Pow2, m, one, twice
  <2> HIDE DEF Body
  <2> QED BY <1>5, <2>1
<1>7. \A n \in 0 .. m : Pow2[n] = IF n = 0 THEN one ELSE twice(Pow2[n - 1])
  BY <1>6, Zenon
<1>8. Pow2[0] = 1
  BY <1>1, <1>7 DEF one
<1>9. ASSUME NEW n \in 0 .. m - 1 PROVE Doubles(n)
  <2>1. n + 1 \in 0 .. m /\ n + 1 # 0 /\ (n + 1) - 1 = n
    BY <1>1
  <2> QED BY <1>7, <2>1 DEF Doubles, twice
<1> DEFINE T == {n \in Nat : n <= m => Pow2[n] \in Nat \ {0}}
<1>10. 0 \in T
  BY <1>8
<1>11. \A n \in Nat : n \in T => n + 1 \in T
  <2> SUFFICES ASSUME NEW n \in Nat, n \in T, n + 1 <= m PROVE Pow2[n + 1] \in Nat \ {0}
    OBVIOUS
  <2>1. n \in 0 .. m - 1 /\ Pow2[n] \in Nat \ {0}
    BY <1>1
  <2> QED BY <1>9, <2>1 DEF Doubles
<1>12. \A n \in Nat : n \in T
  <2> HIDE DEF T
  <2> QED BY <1>10, <1>11, SetInduction
<1> QED BY <1>1, <1>8, <1>9, <1>12 DEF m

\* A word is shifted by n bits and by the others.
Complement(n) == Pow2[XLEN - n] * Pow2[n] = WordLimit

LEMMA Complements == \A n \in 0 .. XLEN : Complement(n)
<1> DEFINE T == {n \in Nat : n <= XLEN => Complement(n)}
<1>0. XLEN \in Nat \ {0} /\ Pow2[XLEN] = WordLimit
  BY XlenAssumption
<1>1. 0 \in T
  <2>1. XLEN - 0 = XLEN
    BY <1>0
  <2>2. WordLimit * 1 = WordLimit
    BY Weights
  <2> QED BY <1>0, <2>1, <2>2, Powers DEF Complement
<1>2. \A n \in Nat : n \in T => n + 1 \in T
  <2> SUFFICES ASSUME NEW n \in Nat, n \in T, n + 1 <= XLEN PROVE Complement(n + 1)
    OBVIOUS
  <2>1. Complement(n)
    BY <1>0
  <2> DEFINE j == XLEN - (n + 1)
             p == Pow2[j]
             q == Pow2[n]
  <2>2. j \in 0 .. XLEN - 1 /\ j + 1 = XLEN - n /\ n \in 0 .. XLEN - 1 /\ j \in 0 .. XLEN /\ n \in 0 .. XLEN
    BY <1>0
  <2>3. Pow2[XLEN - n] = 2 * p /\ Pow2[n + 1] = 2 * q
    <3>1. Doubles(j) /\ Doubles(n)
      BY <2>2, Powers
    <3> QED BY <2>2, <3>1 DEF Doubles
  <2>4. p \in Nat /\ q \in Nat
    BY <2>2, Powers
  <2> HIDE DEF p, q, j
  <2>5. (2 * p) * q = p * (2 * q)
    BY <2>4
  <2> QED BY <2>1, <2>3, <2>5 DEF Complement, p, q, j
<1>3. \A n \in Nat : n \in T
  <2> HIDE DEF T
  <2> QED BY <1>1, <1>2, SetInduction
<1> QED BY <1>0, <1>3

-----------------------------------------------------------------------------
(* ALU.sv and the C operators. *)

\* The negative words are the upper half.
Half == Pow2[XLEN - 1]

LEMMA Halves == Half \in Nat \ {0} /\ WordLimit = 2 * Half /\ WordLimit \in Nat \ {0}
<1>1. XLEN - 1 \in 0 .. XLEN - 1 /\ XLEN - 1 \in 0 .. XLEN /\ (XLEN - 1) + 1 = XLEN /\ Pow2[XLEN] = WordLimit
  BY XlenAssumption
<1>2. Doubles(XLEN - 1) /\ Half \in Nat \ {0}
  BY <1>1, Powers DEF Half
<1> QED BY <1>1, <1>2 DEF Doubles, Half

\* Reducing a sum or difference of two words.
Wraps(x) ==
  /\ x \in 0 .. WordLimit - 1 => x % WordLimit = x
  /\ x \in WordLimit .. 2 * WordLimit - 1 => x % WordLimit = x - WordLimit
  /\ x < 0 /\ x >= -WordLimit => x % WordLimit = x + WordLimit

LEMMA Wrap ==
  ASSUME NEW x \in Int
  PROVE  Wraps(x)
<1> DEFINE W == WordLimit
<1>0. W \in Nat \ {0}
  BY Halves
<1> HIDE DEF W
<1>1. ASSUME x \in 0 .. W - 1 PROVE x % W = x
  <2>1. Divides(W * 0 + x, W, 0, x)
    BY <1>0, <1>1, Unique
  <2> QED BY <1>0, <2>1 DEF Divides
<1>2. ASSUME x \in W .. 2 * W - 1 PROVE x % W = x - W
  <2>1. x - W \in 0 .. W - 1
    BY <1>0, <1>2
  <2>2. Divides(W * 1 + (x - W), W, 1, x - W)
    BY <1>0, <2>1, Unique
  <2>3. W * 1 + (x - W) = x
    BY <1>0
  <2> QED BY <2>2, <2>3 DEF Divides
<1>3. ASSUME x < 0, x >= -W PROVE x % W = x + W
  <2>1. x + W \in 0 .. W - 1
    BY <1>0, <1>3
  <2>2. Divides(W * (-1) + (x + W), W, -1, x + W)
    BY <1>0, <2>1, Unique
  <2>3. W * (-1) + (x + W) = x
    BY <1>0
  <2> QED BY <2>2, <2>3 DEF Divides
<1> QED BY <1>1, <1>2, <1>3 DEF Wraps, W

\* The difference that ALU.sv computes with the inverted operand.
LEMMA Difference ==
  ASSUME NEW x \in Word, NEW y \in Word
  PROVE  /\ diff(x, y) = IF x >= y THEN x - y ELSE x - y + WordLimit
         /\ diff(x, y) = (x - y) % WordLimit
<1> DEFINE W == WordLimit
           i == Add(Invert(y), 1)
<1>0. W \in Nat \ {0} /\ x \in 0 .. W - 1 /\ y \in 0 .. W - 1
  BY Halves DEF Word
<1>1. i = IF y = 0 THEN 0 ELSE W - y
  <2>1. Invert(y) + 1 = W - y /\ Invert(y) + 1 \in Int
    BY <1>0 DEF Invert
  <2>2. Wraps(Invert(y) + 1)
    BY <2>1, Wrap
  <2> QED BY <1>0, <2>1, <2>2 DEF Add, Wraps
<1> HIDE DEF i
<1>2. x + i \in Int
  BY <1>0, <1>1
<1>3. Wraps(x + i) /\ Wraps(x - y)
  BY <1>0, <1>2, Wrap
<1>4. diff(x, y) = (x + i) % W
  BY DEF diff, Add, i
<1>5. diff(x, y) = IF x >= y THEN x - y ELSE x - y + W
  BY <1>0, <1>1, <1>3, <1>4 DEF Wraps
<1>6. (x - y) % W = IF x >= y THEN x - y ELSE x - y + W
  BY <1>0, <1>3 DEF Wraps
<1> QED BY <1>5, <1>6

\* The sign bit.
LEMMA Sign ==
  ASSUME NEW x \in Word
  PROVE  /\ Top(x) <=> x >= Half
         /\ int32(x) = IF x >= Half THEN x - WordLimit ELSE x
<1> DEFINE H == Half
           W == WordLimit
<1>0. H \in Nat \ {0} /\ W = 2 * H /\ x \in 0 .. W - 1
  BY Halves DEF Word
<1>1. Top(x) <=> x \div H = 1
  BY DEF Top, Half
<1>2. W \div 2 = H
  BY <1>0
<1>a. int32(x) = IF x >= W \div 2 THEN x - W ELSE x
  BY DEF int32
<1> HIDE DEF H, W
<1>3. CASE x >= H
  <2>1. x - H \in 0 .. H - 1
    BY <1>0, <1>3
  <2>2. Divides(H * 1 + (x - H), H, 1, x - H)
    BY <1>0, <2>1, Unique
  <2>3. H * 1 + (x - H) = x
    BY <1>0
  <2> QED BY <1>1, <1>2, <1>3, <1>a, <2>2, <2>3 DEF Divides, H, W
<1>4. CASE ~(x >= H)
  <2>1. x \in 0 .. H - 1
    BY <1>0, <1>4
  <2>2. Divides(H * 0 + x, H, 0, x)
    BY <1>0, <2>1, Unique
  <2>3. H * 0 + x = x
    BY <1>0
  <2>4. x \div H = 0
    BY <2>2, <2>3 DEF Divides
  <2> QED BY <1>1, <1>2, <1>4, <1>a, <2>4 DEF H, W
<1> QED BY <1>3, <1>4

\* The comparisons on the flags.
LEMMA Flags ==
  ASSUME NEW x \in Word, NEW y \in Word
  PROVE  /\ zero(x, y) <=> x = y
         /\ (negative(x, y) # overflow(x, y)) <=> int32(x) < int32(y)
         /\ no_borrow(x, y) <=> x >= y
<1> DEFINE d == diff(x, y)
           W == WordLimit
           H == Half
<1>0. /\ W = 2 * H /\ H \in Nat \ {0} /\ x \in 0 .. W - 1 /\ y \in 0 .. W - 1
      /\ d = IF x >= y THEN x - y ELSE x - y + W
  BY Halves, Difference DEF Word
<1>1. d \in Word
  BY <1>0 DEF Word
<1>2. /\ (Top(x) <=> x >= H) /\ (Top(y) <=> y >= H) /\ (Top(d) <=> d >= H)
      /\ int32(x) = (IF x >= H THEN x - W ELSE x) /\ int32(y) = (IF y >= H THEN y - W ELSE y)
  BY <1>1, Sign
<1>3. zero(x, y) <=> d = 0
  BY DEF zero
<1>4. negative(x, y) <=> Top(d)
  BY DEF negative
<1>5. overflow(x, y) <=> ~(Top(x) <=> Top(y)) /\ ~(Top(x) <=> Top(d))
  BY DEF overflow, Top
<1>6. no_borrow(x, y) <=> x + (W - 1 - y) + 1 >= W
  BY DEF no_borrow, Invert
<1>7. (negative(x, y) # overflow(x, y)) <=> ~(negative(x, y) <=> overflow(x, y))
  BY DEF negative, overflow, Top
<1> HIDE DEF d, W, H
<1>8. zero(x, y) <=> x = y
  BY <1>0, <1>3
<1>9. no_borrow(x, y) <=> x >= y
  BY <1>0, <1>6
<1>10. (~(Top(d) <=> (~(Top(x) <=> Top(y)) /\ ~(Top(x) <=> Top(d))))) <=> int32(x) < int32(y)
  <2>1. CASE x >= H /\ y >= H
    BY <1>0, <1>2, <2>1
  <2>2. CASE x >= H /\ ~(y >= H)
    BY <1>0, <1>2, <2>2
  <2>3. CASE ~(x >= H) /\ y >= H
    BY <1>0, <1>2, <2>3
  <2>4. CASE ~(x >= H) /\ ~(y >= H)
    BY <1>0, <1>2, <2>4
  <2> QED BY <2>1, <2>2, <2>3, <2>4
<1> QED BY <1>4, <1>5, <1>7, <1>8, <1>9, <1>10

\* The arithmetic shift: on the sign in ALU.sv, of a negative number in C.
LEMMA Shift ==
  ASSUME NEW x \in Word, NEW n \in 0 .. XLEN - 1
  PROVE  x \div Pow2[n] + (IF Top(x) THEN WordLimit - Pow2[XLEN - n] ELSE 0)
           = (int32(x) \div Pow2[n]) % WordLimit
<1> DEFINE p == Pow2[n]
           q == Pow2[XLEN - n]
           W == WordLimit
           t == x \div p
           r == x % p
<1>0. /\ p \in Nat \ {0} /\ q \in Nat \ {0} /\ W \in Nat \ {0} /\ q * p = W
      /\ x \in 0 .. W - 1 /\ x \in Nat /\ Half \in Nat /\ W = 2 * Half
  <2>1. n \in 0 .. XLEN /\ XLEN - n \in 0 .. XLEN
    BY XlenAssumption
  <2>2. Complement(n)
    BY <2>1, Complements
  <2> QED BY <2>1, <2>2, Halves, Powers DEF Complement, Word
<1>1. /\ Top(x) <=> x >= Half
      /\ int32(x) = IF x >= Half THEN x - W ELSE x
  BY Sign
<1> HIDE DEF p, q, W
<1>2. t \in Nat /\ r \in 0 .. p - 1 /\ x = p * t + r
  <2>1. Divided(x, p)
    BY <1>0, DivisionNat
  <2> QED BY <2>1 DEF Divided
<1> HIDE DEF t, r
<1>3. t < q /\ t < W /\ q <= W
  <2>1. ~(t >= q)
    <3> SUFFICES ASSUME t >= q PROVE FALSE
      OBVIOUS
    <3>1. PICK j \in Nat : t = q + j
      <4>1. t = q + (t - q) /\ t - q \in Nat
        BY <1>0, <1>2
      <4> QED BY <4>1
    <3>2. p * t = q * p + p * j /\ p * j \in Nat
      BY <1>0, <3>1
    <3> QED BY <1>0, <1>2, <3>2
  <2>2. q <= W
    <3>1. PICK j \in Nat : p = 1 + j
      <4>1. p = 1 + (p - 1) /\ p - 1 \in Nat
        BY <1>0
      <4> QED BY <4>1
    <3>2. q * p = q + q * j /\ q * j \in Nat
      BY <1>0, <3>1
    <3> QED BY <1>0, <3>2
  <2> QED BY <1>0, <1>2, <2>1, <2>2
<1>4. CASE x >= Half
  <2>1. x - W = p * (t - q) + r
    <3>1. p * (t - q) = p * t - q * p
      BY <1>0, <1>2
    <3> QED BY <1>0, <1>2, <3>1
  <2>2. t - q \in Int
    BY <1>0, <1>2
  <2>3. Divides(p * (t - q) + r, p, t - q, r)
    BY <1>0, <1>2, <2>2, Unique
  <2>4. (x - W) \div p = t - q
    BY <2>1, <2>3 DEF Divides
  <2>5. Wraps(t - q)
    BY <2>2, Wrap
  <2>6. (t - q) % W = t - q + W
    BY <1>0, <1>2, <1>3, <2>5 DEF Wraps, W
  <2>7. t + (W - q) = t - q + W
    BY <1>0, <1>2
  <2> QED BY <1>1, <1>4, <2>4, <2>6, <2>7 DEF t, p, q, W
<1>5. CASE ~(x >= Half)
  <2>1. Wraps(t)
    BY <1>2, Wrap
  <2>2. t % W = t
    BY <1>0, <1>2, <1>3, <2>1 DEF Wraps, W
  <2>3. t + 0 = t
    BY <1>2
  <2> QED BY <1>1, <1>5, <2>2, <2>3 DEF t, p, q, W
<1> QED BY <1>4, <1>5

\* ALU.sv computes what NEMU's C expressions do.
LEMMA Alu ==
  ASSUME NEW x \in Word, NEW y \in Word, NEW op \in AluOps
  PROVE  alu_result(op, x, y) = ref_result(op, x, y)
<1> DEFINE n == y % XLEN
<1>0. n \in 0 .. XLEN - 1
  BY XlenAssumption, Halves DEF Word
<1>1. CASE op = "ADD"
  BY <1>1 DEF alu_result, ref_result, Add
<1>2. CASE op = "SUB"
  BY <1>2, Difference DEF alu_result, ref_result
<1>3. CASE op = "AND"
  <2>1. Bits(x) \cap Bits(y) = {i \in Bits(x) : i \in Bits(y)}
    OBVIOUS
  <2> QED BY <1>3, <2>1 DEF alu_result, ref_result
<1>4. CASE op = "OR"
  <2>1. Bits(x) \cup Bits(y) = {i \in 0 .. XLEN - 1 : i \in Bits(x) \/ i \in Bits(y)}
    BY DEF Bits
  <2> QED BY <1>4, <2>1 DEF alu_result, ref_result
<1>5. CASE op = "XOR"
  <2>1. (Bits(x) \cup Bits(y)) \ (Bits(x) \cap Bits(y))
          = {i \in 0 .. XLEN - 1 : (i \in Bits(x)) # (i \in Bits(y))}
    <3>1. Bits(x) \subseteq 0 .. XLEN - 1 /\ Bits(y) \subseteq 0 .. XLEN - 1
      BY DEF Bits
    <3>2. ASSUME NEW i PROVE ((i \in Bits(x)) # (i \in Bits(y))) <=>
                               i \in (Bits(x) \cup Bits(y)) \ (Bits(x) \cap Bits(y))
      <4>1. CASE i \in Bits(x)
        BY <4>1
      <4>2. CASE i \notin Bits(x)
        BY <4>2
      <4> QED BY <4>1, <4>2
    <3> QED BY <3>1, <3>2, Zenon
  <2>2. alu_result(op, x, y) = OfBits((Bits(x) \cup Bits(y)) \ (Bits(x) \cap Bits(y)))
    BY <1>5 DEF alu_result
  <2>3. ref_result(op, x, y) = OfBits({i \in 0 .. XLEN - 1 : (i \in Bits(x)) # (i \in Bits(y))})
    BY <1>5 DEF ref_result
  <2> QED BY <2>1, <2>2, <2>3, Zenon
<1>6. CASE op \in {"SLL", "SRL"}
  BY <1>6 DEF alu_result, ref_result
<1>7. CASE op = "SRA"
  BY <1>0, <1>7, Shift DEF alu_result, ref_result
<1>8. CASE op = "SLT"
  BY <1>8, Flags DEF alu_result, ref_result, Bool
<1>9. CASE op = "SLTU"
  <2>1. x \in Int /\ y \in Int
    BY Halves DEF Word
  <2> QED BY <1>9, <2>1, Flags DEF alu_result, ref_result, Bool
<1> QED BY <1>1, <1>2, <1>3, <1>4, <1>5, <1>6, <1>7, <1>8, <1>9 DEF AluOps

\* EXU.sv branches when NEMU does.
LEMMA Branches ==
  ASSUME NEW x \in Word, NEW y \in Word, NEW f \in BranchOps
  PROVE  branch_taken(f, x, y) <=> ref_branch(f, x, y)
<1>1. x \in Int /\ y \in Int /\ int32(x) \in Int /\ int32(y) \in Int
  BY Halves DEF Word, int32
<1>2. (negative(x, y) = overflow(x, y)) <=> ~(negative(x, y) # overflow(x, y))
  OBVIOUS
<1>3. CASE f = 0
  <2>1. branch_taken(f, x, y) <=> zero(x, y)
    BY <1>3 DEF branch_taken
  <2>2. ref_branch(f, x, y) <=> x = y
    BY <1>3 DEF ref_branch
  <2> QED BY <2>1, <2>2, Flags
<1>4. CASE f = 1
  <2>1. branch_taken(f, x, y) <=> ~zero(x, y)
    BY <1>4 DEF branch_taken
  <2>2. ref_branch(f, x, y) <=> x # y
    BY <1>4 DEF ref_branch
  <2> QED BY <2>1, <2>2, Flags
<1>5. CASE f = 4
  <2>1. branch_taken(f, x, y) <=> negative(x, y) # overflow(x, y)
    BY <1>5 DEF branch_taken
  <2>2. ref_branch(f, x, y) <=> int32(x) < int32(y)
    BY <1>5 DEF ref_branch
  <2> QED BY <2>1, <2>2, Flags
<1>6. CASE f = 5
  <2>1. branch_taken(f, x, y) <=> negative(x, y) = overflow(x, y)
    BY <1>6 DEF branch_taken
  <2>2. ref_branch(f, x, y) <=> int32(x) >= int32(y)
    BY <1>6 DEF ref_branch
  <2>3. (negative(x, y) # overflow(x, y)) <=> int32(x) < int32(y)
    BY Flags
  <2>4. (int32(x) >= int32(y)) <=> ~(int32(x) < int32(y))
    BY <1>1
  <2> QED BY <1>2, <2>1, <2>2, <2>3, <2>4
<1>7. CASE f = 6
  <2>1. branch_taken(f, x, y) <=> ~no_borrow(x, y)
    BY <1>7 DEF branch_taken
  <2>2. ref_branch(f, x, y) <=> x < y
    BY <1>7 DEF ref_branch
  <2>3. no_borrow(x, y) <=> x >= y
    BY Flags
  <2> QED BY <1>1, <2>1, <2>2, <2>3
<1>8. CASE f = 7
  <2>1. branch_taken(f, x, y) <=> no_borrow(x, y)
    BY <1>8 DEF branch_taken
  <2>2. ref_branch(f, x, y) <=> x >= y
    BY <1>8 DEF ref_branch
  <2> QED BY <2>1, <2>2, Flags
<1> QED BY <1>3, <1>4, <1>5, <1>6, <1>7, <1>8 DEF BranchOps

-----------------------------------------------------------------------------
LEMMA Agreement ==
  ASSUME src1 \in Word, src2 \in Word
  PROVE  DatapathAgrees
<1>1. AluAgrees
  BY Alu DEF AluAgrees
<1>2. BranchAgrees
  BY Branches DEF BranchAgrees
<1> DEFINE m == [w \in {0} |-> src1]
<1>3. m \in [{0} -> Word] /\ m[0] = src1
  OBVIOUS
<1>4. ASSUME NEW addr \in Lane PROVE addr \in Nat /\ LaneOf(addr) = addr /\ WordOf(addr) = 0
  BY DEF Lane, LaneOf, WordOf
<1>5. LoadAgrees
  <2> SUFFICES ASSUME NEW size \in LoadSizes, NEW addr \in Lane, WithinWord(size, addr)
               PROVE  load_result(size, src1, addr) = ref_load(m, size, addr)
    BY DEF LoadAgrees
  <2> HIDE DEF m
  <2>1. LoadsAlike(m, size, addr)
    BY <1>3, <1>4, Loads
  <2> QED BY <1>3, <1>4, <2>1 DEF LoadsAlike
<1>6. StoreAgrees
  <2> SUFFICES ASSUME NEW size \in StoreSizes, NEW addr \in Lane, WithinWord(size, addr)
               PROVE  Strobed(src1, store_wdata(size, src2, addr), store_wstrb(size, addr))
                        = host_write(m, addr, Length(size), src2)[0]
    BY DEF StoreAgrees
  <2> HIDE DEF m
  <2>1. WordMemory({0}, m)
    BY <1>3 DEF LaneOf, WordMemory
  <2>2. StoresAlike(m, size, addr, src2)
    BY <1>4, <2>1, Stores
  <2> QED BY <1>3, <1>4, <2>2 DEF StoresAlike
<1> QED BY <1>1, <1>2, <1>5, <1>6 DEF DatapathAgrees

\* EXU.sv, ALU.sv and LSU.sv compute what NEMU's interpreter does, whatever
\* the size of a byte and the width of a word, on every pair of words.
THEOREM DatapathCorrect == OperandsSpec => []DatapathAgrees
<1>1. Operands /\ [Kept]_<<src1, src2>> => Operands'
  BY DEF Operands, Kept
<1>2. Operands => DatapathAgrees
  BY Agreement DEF Operands
<1> QED BY <1>1, <1>2, PTL DEF OperandsSpec
=============================================================================
