---------------------------- MODULE Watchpoint ----------------------------
(***************************************************************************)
(* The pool of watchpoints (nemu/src/monitor/sdb/watchpoint.c), the        *)
(* debugger commands that fill and empty it (cmd_w, cmd_d in sdb.c) and    *)
(* the comparison made after every instruction (cpu-exec.c).  The pool is  *)
(* an array whose elements are linked into two lists, the used and the     *)
(* free ones.  npc/csrc/monitor/sdb holds a copy of the same code.         *)
(***************************************************************************)
EXTENDS Integers, Sequences, SequencesExt

CONSTANTS NR_WP,       \* elements of the pool
          Exprs, Values,
          MaxCnt       \* bound on the numbers given to watchpoints

VARIABLES head, free_, \* the first used and the first free element
          pool,        \* wp_pool
          aborted,     \* an assertion has ended the program
          val          \* what expr() would return for each expression

poolVars == <<head, free_, pool, aborted>>
vars == <<head, free_, pool, aborted, val>>

NULL == NR_WP
Elems == 0..(NR_WP - 1)

\* init_wp_pool: all elements are free, each linked to its successor.
InitPool ==
  /\ head = NULL /\ free_ = 0 /\ aborted = FALSE
  /\ pool = [i \in Elems |-> [next |-> i + 1, addr_expr |-> "", last_val |-> 0, cnt |-> 0]]

\* The elements reached from w by following next.
RECURSIVE Chain(_)
Chain(w) == IF w = NULL THEN <<>> ELSE <<w>> \o Chain(pool[w].next)

\* new_wp: the first free element becomes the first used one; its other fields
\* are cmd_w's to fill.
new_wp(e, v, n) ==
  /\ head' = free_ /\ free_' = pool[free_].next
  /\ pool' = [pool EXCEPT ![free_] =
                [next |-> head, addr_expr |-> e, last_val |-> v, cnt |-> n]]
  /\ UNCHANGED aborted

\* With no free element the assertion in new_wp ends the program.
new_wp_assert == free_ = NULL /\ aborted' = TRUE /\ UNCHANGED <<head, free_, pool>>

\* cmd_w: the new watchpoint is numbered after the one that was newest.
cmd_w(e) ==
  \/ new_wp_assert
  \/ /\ free_ # NULL
     /\ new_wp(e, val[e], IF head = NULL THEN 1 ELSE pool[head].cnt + 1)

Pred(w) == CHOOSE t \in ToSet(Chain(head)) : pool[t].next = w

\* Faulty variant of free_wp: a removed element keeps its link into the used list.
free_wp_link(w) ==
  /\ head' = IF w = head THEN pool[w].next ELSE head
  /\ pool' = IF w = head THEN pool
             ELSE [pool EXCEPT ![Pred(w)].next = pool[w].next]
  /\ free_' = w
  /\ UNCHANGED aborted

\* free_wp: unlink the element, which is in the used list, and push it on the
\* free list.
free_wp(w) ==
  /\ head' = IF w = head THEN pool[w].next ELSE head
  /\ pool' = IF w = head THEN [pool EXCEPT ![w].next = free_]
             ELSE [pool EXCEPT ![Pred(w)].next = pool[w].next, ![w].next = free_]
  /\ free_' = w
  /\ UNCHANGED aborted

\* Used watchpoints with number n; cmd_d takes the first one.
Numbered(n) == SelectSeq(Chain(head), LAMBDA w : pool[w].cnt = n)

cmd_d(n) ==
  IF head = NULL \/ n > pool[head].cnt \/ Numbered(n) = <<>> THEN UNCHANGED poolVars
  ELSE free_wp(Head(Numbered(n)))

\* The watched expressions that no longer have the value they had.
Changed(v) == {w \in ToSet(Chain(head)) : v[pool[w].addr_expr] # pool[w].last_val}

\* Faulty variant of CheckWatchpoints: the scan ends at the first change.
CheckWatchpoints_first(v) ==
  LET hits == SelectSeq(Chain(head), LAMBDA w : w \in Changed(v))
  IN  /\ pool' = IF hits = <<>> THEN pool
                 ELSE [pool EXCEPT ![Head(hits)].last_val = v[pool[Head(hits)].addr_expr]]
      /\ UNCHANGED <<head, free_, aborted>>

\* The loop over the used list in trace_and_difftest, on the values v.
CheckWatchpoints(v) ==
  /\ pool' = [i \in Elems |-> IF i \in Changed(v)
                              THEN [pool[i] EXCEPT !.last_val = v[pool[i].addr_expr]]
                              ELSE pool[i]]
  /\ UNCHANGED <<head, free_, aborted>>

\* The program runs for one instruction: values change, then are compared.
Execute ==
  /\ val' \in [Exprs -> Values]
  /\ CheckWatchpoints(val')

Init == InitPool /\ val \in [Exprs -> Values]

\* The debugger is a terminal session: one command at a time until it aborts.
Command ==
  /\ ~aborted
  /\ \/ \E e \in Exprs : /\ (head # NULL => pool[head].cnt < MaxCnt)
                         /\ cmd_w(e) /\ UNCHANGED val
     \/ \E n \in 0..MaxCnt : cmd_d(n) /\ UNCHANGED val
     \/ Execute

Aborted == aborted /\ UNCHANGED vars

Next == Command \/ Aborted
Spec == Init /\ [][Next]_vars
-----------------------------------------------------------------------------
TypeOK ==
  /\ head \in Elems \cup {NULL} /\ free_ \in Elems \cup {NULL}
  /\ pool \in [Elems -> [next : Elems \cup {NULL}, addr_expr : Exprs \cup {""},
                         last_val : Values \cup {0}, cnt : 0..MaxCnt]]
  /\ aborted \in BOOLEAN
  /\ val \in [Exprs -> Values]

\* watchpoint.c: every element of the pool is in exactly one of the two lists,
\* once; none is lost or shared however watchpoints are added and deleted, and
\* the assertion in new_wp fails only when all of them are in use.
PoolPartitioned ==
  LET all == Chain(head) \o Chain(free_)
  IN  /\ Len(all) = NR_WP
      /\ ToSet(all) = Elems

\* sdb.c, cmd_d: numbers fall along the list, so the number a user names
\* denotes one watchpoint, and a number greater than the first one's none.
NumbersFall ==
  LET l == Chain(head)
  IN  \A i, j \in DOMAIN l : i < j => pool[l[i]].cnt > pool[l[j]].cnt

list_bar ==
  [i \in DOMAIN Chain(head) |->
     LET w == pool[Chain(head)[i]]
     IN  [cnt |-> w.cnt, addr_expr |-> w.addr_expr, last_val |-> w.last_val]]

abstract == INSTANCE WatchList WITH list <- list_bar

\* A step of the plain list, or none.
Follows == [abstract!Next]_<<list_bar, val>>
=============================================================================
