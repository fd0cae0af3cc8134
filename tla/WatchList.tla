----------------------------- MODULE WatchList -----------------------------
(***************************************************************************)
(* What the debugger promises of watchpoints, without the pool they are    *)
(* kept in: a list, newest first, of numbered expressions with the value   *)
(* each had when it was last looked at.                                    *)
(***************************************************************************)
EXTENDS Integers, Sequences, SequencesExt

CONSTANTS Exprs, Values

VARIABLES list, val    \* val: the current value of every expression

Entry == [cnt : Nat, addr_expr : Exprs, last_val : Values]

\* "w e": the number is one more than the newest one's.
Add(e) ==
  /\ list' = <<[cnt |-> IF list = <<>> THEN 1 ELSE Head(list).cnt + 1,
                addr_expr |-> e, last_val |-> val[e]]>> \o list
  /\ UNCHANGED val

\* "d n": the one entry with that number goes, the others keep their order.
Delete(n) ==
  /\ list' = SelectSeq(list, LAMBDA w : w.cnt # n)
  /\ UNCHANGED val

\* The program changes values and every entry is brought up to date.
Step ==
  /\ val' \in [Exprs -> Values]
  /\ list' = [i \in DOMAIN list |->
                [list[i] EXCEPT !.last_val = val'[list[i].addr_expr]]]

Init == list = <<>> /\ val \in [Exprs -> Values]

Next == (\E e \in Exprs : Add(e)) \/ (\E w \in ToSet(list) : Delete(w.cnt)) \/ Step

Spec == Init /\ [][Next]_<<list, val>>
=============================================================================
