----------------------------- MODULE Induction ------------------------------
(***************************************************************************)
(* Induction on natural numbers, for a set in place of a predicate, and    *)
(* what it gives for a function that is defined by iteration.              *)
(***************************************************************************)
EXTENDS Integers, WellFoundedInduction, TLAPS

\* The time a prover may take for a step.
USE SMTT(20), ZenonT(30)

LEMMA LeastElement ==
  ASSUME NEW T, T \subseteq Nat, T # {}
  PROVE  \E x \in T : \A y \in T : x <= y
<1>1. PICK x \in T : \A y \in T : ~(<<y, x>> \in OpToRel(<, Nat))
  BY NatLessThanWellFounded, WFMin, Zenon
<1>2. \A y \in T : ~(y < x)
  BY <1>1, Zenon DEF OpToRel
<1> QED BY <1>2

LEMMA SetInduction ==
  ASSUME NEW T, 0 \in T, \A n \in Nat : n \in T => n + 1 \in T
  PROVE  \A n \in Nat : n \in T
<1> SUFFICES ASSUME Nat \ T # {} PROVE FALSE
  OBVIOUS
<1>1. PICK x \in Nat \ T : \A y \in Nat \ T : x <= y
  BY LeastElement, Zenon
<1>2. x # 0 /\ x - 1 \in Nat
  BY <1>1
<1>3. x - 1 \in T
  BY <1>1, <1>2
<1> QED BY <1>1, <1>2, <1>3

\* f is s0, D applied to it, and so on up to m times.
Iterates(f, s0, m, D) == f[0] = s0 /\ \A n \in 1 .. m : f[n] = D[<<n, f[n - 1]>>]
Iterated(S, s0, m, D) == \E f \in [0 .. m -> S] : Iterates(f, s0, m, D)

LEMMA Iteration ==
  ASSUME NEW S, NEW s0 \in S, NEW m \in Nat, NEW D \in [(1 .. m) \X S -> S]
  PROVE  Iterated(S, s0, m, D)
<1> DEFINE Upto(k) == \E f \in [0 .. k -> S] :
             f[0] = s0 /\ \A n \in 1 .. k : f[n] = D[<<n, f[n - 1]>>]
           T == {k \in Nat : k <= m => Upto(k)}
<1>1. 0 \in T
  <2> DEFINE f == [i \in 0 .. 0 |-> s0]
  <2>1. f \in [0 .. 0 -> S] /\ f[0] = s0
    OBVIOUS
  <2>2. \A n \in 1 .. 0 : f[n] = D[<<n, f[n - 1]>>]
    OBVIOUS
  <2> HIDE DEF f
  <2>3. Upto(0)
    BY <2>1, <2>2
  <2> QED BY <2>3
<1>2. ASSUME NEW k \in Nat, k \in T, k + 1 <= m PROVE Upto(k + 1)
  <2>1. PICK f \in [0 .. k -> S] :
           f[0] = s0 /\ \A n \in 1 .. k : f[n] = D[<<n, f[n - 1]>>]
    BY <1>2
  <2> DEFINE g == [i \in 0 .. k + 1 |-> IF i = k + 1 THEN D[<<k + 1, f[k]>>] ELSE f[i]]
  <2>2. D[<<k + 1, f[k]>>] \in S
    BY <1>2, <2>1
  <2>3. g \in [0 .. k + 1 -> S] /\ g[0] = s0
    BY <2>1, <2>2
  <2>4. \A n \in 1 .. k + 1 : g[n] = D[<<n, g[n - 1]>>]
    <3> TAKE n \in 1 .. k + 1
    <3>1. CASE n = k + 1
      <4>1. g[n] = D[<<k + 1, f[k]>>] /\ g[n - 1] = f[k]
        BY <3>1
      <4> QED BY <3>1, <4>1, Zenon
    <3>2. CASE n # k + 1
      <4>1. n \in 1 .. k /\ g[n] = f[n] /\ g[n - 1] = f[n - 1]
        BY <3>2
      <4> QED BY <2>1, <4>1
    <3> QED BY <3>1, <3>2
  <2> QED BY <2>3, <2>4, Zenon
<1> HIDE DEF Upto
<1>3. \A n \in Nat : n \in T => n + 1 \in T
  BY <1>2
<1> HIDE DEF T
<1>4. m \in T
  BY <1>1, <1>3, SetInduction
<1> QED BY <1>4 DEF T, Upto, Iterated, Iterates

=============================================================================
