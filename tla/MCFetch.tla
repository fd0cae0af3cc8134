------------------------------ MODULE MCFetch ------------------------------
(***************************************************************************)
(* FetchPath with two cache lines of two words over eight words of memory: *)
(* two addresses compete for every line.  A word's value tells its address *)
(* and whether the program has overwritten it.                             *)
(***************************************************************************)
EXTENDS FetchPath

MCData    == 0 .. 2 * AddrLimit - 1
MCImage   == [a \in WordAddr |-> a]
MCStores  == {<<4, 4 + AddrLimit>>}
MCTargets == {0, 18}
=============================================================================
