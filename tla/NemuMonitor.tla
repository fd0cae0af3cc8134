---------------------------- MODULE NemuMonitor ----------------------------
(***************************************************************************)
(* Run control of NEMU: the debugger's prompt (monitor/sdb/sdb.c), the     *)
(* execution loop (cpu/cpu-exec.c), how a program ends (hostcall.c,        *)
(* utils/state.c), the comparison with a reference after every instruction *)
(* (cpu/difftest/dut.c), watchpoints (module Watchpoint) and the window    *)
(* events polled between instructions (device/device.c).                   *)
(*                                                                         *)
(* The guest has a program counter, one register x and one memory word m,  *)
(* each of one bit but the program counter.  An instruction is a kind:     *)
(* "add", "load", "store"; "dev" reads a device; "wrong" is one NEMU       *)
(* implements incorrectly; "trap" is nemu_trap; "inv" is not implemented.  *)
(***************************************************************************)
EXTENDS Integers, Sequences, SequencesExt

CONSTANTS Sessions,    \* pairs [opt, prog] of a program and of what is
                       \* configured and what the user does:
                       \* [watch: CONFIG_WATCHPOINT, batch: option -b,
                       \*  steps: arguments of si,
                       \*  exprs: what is watched or printed,
                       \*  cnt: bound on the numbers of watchpoints]
          NR_WP

VARIABLES opt, prog,
          mode,        \* "prompt", "exec": in cpu_exec, "exited", "aborted"
          left,        \* n in execute(); Forever after "c"
          nemu_state, halt_ret,
          cpu, ref,    \* the two machines
          is_skip_ref,
          head, free_, pool

pools == <<head, free_, pool>>
vars == <<opt, prog, mode, left, nemu_state, halt_ret, cpu, ref, is_skip_ref, pools>>

WATCHPOINT == opt.watch
Batch == opt.batch
Exprs == opt.exprs
Steps == opt.steps
Forever == -1
Bit == {0, 1}
AllExprs == {"$pc", "$x", "*dev"}
Ended == {"NEMU_END", "NEMU_ABORT", "NEMU_QUIT"}

\* expr() on the machine c when a device would answer d.
Eval(c, d) ==
  [e \in AllExprs |-> CASE e = "$pc" -> c.pc [] e = "$x" -> c.x [] e = "*dev" -> d]

wp(d) == INSTANCE Watchpoint
           WITH Values <- 0..10, Exprs <- AllExprs, MaxCnt <- 9, aborted <- mode = "aborted", val <- Eval(cpu, d)

\* Reading a device goes through find_mapid_by_addr, which asks for a skip.
Touches(e) == e = "*dev"
Watched(e) == \E w \in ToSet(wp(0)!Chain(head)) : pool[w].addr_expr = e

InitMachine == [pc |-> 1, x |-> 0, m |-> 0]

Init ==
  /\ \E s \in Sessions : opt = s.opt /\ prog = s.prog
  /\ mode = "prompt" /\ left = 0
  /\ nemu_state = "NEMU_STOP" /\ halt_ret = 0
  /\ cpu = InitMachine /\ ref = InitMachine /\ is_skip_ref = FALSE
  /\ wp(0)!InitPool
-----------------------------------------------------------------------------
Kind(c) == prog[c.pc]
NextPc(c) == (c.pc % Len(prog)) + 1

\* isa_exec_once on the emulated machine, a device answering d.
DutExec(c, d) ==
  [pc |-> NextPc(c),
   x |-> CASE Kind(c) = "add" -> 1 - c.x [] Kind(c) = "load" -> c.m
           [] Kind(c) = "dev" -> d [] OTHER -> c.x,
   m |-> IF Kind(c) = "store" THEN c.x ELSE c.m]

\* ref_difftest_exec(1): the reference executes "wrong" correctly, as an add; it
\* has no device.
RefExec(c) ==
  [DutExec(c, 0) EXCEPT !.x = IF Kind(c) = "wrong" THEN 1 - c.x ELSE @]

\* set_nemu_state is called for a trap and, by invalid_inst, for "inv"; it asks
\* for a skip as a device access does.
asks_skip(k) == k \in {"dev", "trap", "inv"}

set_nemu_state(k) ==
  CASE k = "trap" -> "NEMU_END" [] k = "inv" -> "NEMU_ABORT" [] OTHER -> nemu_state

\* isa_difftest_checkregs compares the registers and the program counter.
checkregs(c, r) == c.pc = r.pc /\ c.x = r.x

\* difftest_step after the machine has become c (nothing calls difftest_skip_dut,
\* so skip_dut_nr_inst is 0): the reference's next state and the run state.
difftest_step(c, skip, st) ==
  IF skip THEN [ref |-> [ref EXCEPT !.pc = c.pc, !.x = c.x], st |-> st]
  ELSE [ref |-> RefExec(ref),
        st  |-> IF checkregs(c, RefExec(ref)) THEN st ELSE "NEMU_ABORT"]

\* Faulty variant of skip_left: a used skip stays.
skip_left_stays == is_skip_ref \/ asks_skip(Kind(cpu))

\* The skip is used up; watchpoints are evaluated after that.
skip_left == WATCHPOINT /\ \E e \in Exprs : Touches(e) /\ Watched(e)

\* device_update: nothing, or the window was closed.
device_update(st) == {st, "NEMU_QUIT"}

\* The end of cpu_exec.
CpuExecReturns(st) ==
  /\ nemu_state' = IF st = "NEMU_RUNNING" THEN "NEMU_STOP" ELSE st
  /\ mode' = IF Batch THEN "exited" ELSE "prompt"
  /\ left' = 0

\* Faulty variant of Continue: the count does not go down.
Continue_stuck(st) == nemu_state' = st /\ mode' = mode /\ left' = left

\* The loop of execute() goes on.
Continue(st) ==
  /\ nemu_state' = st /\ mode' = mode
  /\ left' = IF left = Forever THEN left ELSE left - 1

\* Faulty variant of WatchHit: the values from before the instruction.
WatchHit_before(c, dw) == WATCHPOINT /\ wp(dw)!Changed(Eval(cpu, dw)) # {}

\* A watched expression has changed with the machine becoming c.
WatchHit(c, dw) == WATCHPOINT /\ wp(dw)!Changed(Eval(c, dw)) # {}

\* One turn of the loop in execute(): exec_once, trace_and_difftest, and unless
\* that ended the loop, device_update.
ExecOne ==
  /\ mode = "exec"
  /\ \E d, dw \in Bit :      \* what a device answers to the program, to a watchpoint
       LET k    == Kind(cpu)
           c    == DutExec(cpu, d)
           diff == difftest_step(c, is_skip_ref \/ asks_skip(k), set_nemu_state(k))
           st   == IF WatchHit(c, dw) THEN "NEMU_STOP" ELSE diff.st
       IN /\ cpu' = c /\ ref' = diff.ref
          /\ is_skip_ref' = skip_left
          /\ halt_ret' = CASE k = "trap" -> cpu.x [] k = "inv" -> -1 [] OTHER -> halt_ret
          /\ IF WATCHPOINT
             THEN pool' = [i \in DOMAIN pool |->
                             IF i \in wp(dw)!Changed(Eval(c, dw))
                             THEN [pool[i] EXCEPT !.last_val = Eval(c, dw)[pool[i].addr_expr]]
                             ELSE pool[i]]
             ELSE UNCHANGED pool
          /\ IF st # "NEMU_RUNNING" THEN CpuExecReturns(st)
             ELSE \E s \in device_update(st) :
                    IF left = 1 THEN CpuExecReturns(s) ELSE Continue(s)
  /\ UNCHANGED <<opt, prog, head, free_>>
-----------------------------------------------------------------------------
\* Faulty variant of cpu_exec: only an ended program is not resumed.
cpu_exec_resume(n) ==
  IF nemu_state = "NEMU_END"
  THEN mode' = (IF Batch THEN "exited" ELSE mode) /\ UNCHANGED <<nemu_state, left>>
  ELSE IF n = 0 THEN CpuExecReturns("NEMU_RUNNING")
       ELSE nemu_state' = "NEMU_RUNNING" /\ left' = n /\ mode' = "exec"

\* cpu_exec up to the loop, on the number of instructions to execute.
cpu_exec(n) ==
  IF nemu_state \in Ended
  THEN mode' = (IF Batch THEN "exited" ELSE mode) /\ UNCHANGED <<nemu_state, left>>
  ELSE IF n = 0 THEN CpuExecReturns("NEMU_RUNNING")
       ELSE nemu_state' = "NEMU_RUNNING" /\ left' = n /\ mode' = "exec"

cmd_exec ==
  /\ mode = "prompt"
  /\ \E n \in IF Batch THEN {Forever} ELSE Steps \cup {Forever} : cpu_exec(n)
  /\ UNCHANGED <<opt, prog, halt_ret, cpu, ref, is_skip_ref, pools>>

cmd_q ==
  /\ mode = "prompt" /\ ~Batch
  /\ nemu_state' = "NEMU_QUIT" /\ mode' = "exited"
  /\ UNCHANGED <<opt, prog, left, halt_ret, cpu, ref, is_skip_ref, pools>>

\* End of input at the prompt: sdb_mainloop returns.
cmd_eof ==
  /\ mode = "prompt" /\ ~Batch
  /\ mode' = "exited"
  /\ UNCHANGED <<opt, prog, left, nemu_state, halt_ret, cpu, ref, is_skip_ref, pools>>

cmd_p(e) ==
  /\ mode = "prompt" /\ ~Batch
  /\ is_skip_ref' = (is_skip_ref \/ Touches(e))
  /\ UNCHANGED <<opt, prog, mode, left, nemu_state, halt_ret, cpu, ref, pools>>

\* info without an argument compares a null pointer and ends NEMU.
cmd_info(arg) ==
  /\ mode = "prompt" /\ ~Batch
  /\ mode' = IF arg = "" THEN "aborted" ELSE mode
  /\ UNCHANGED <<opt, prog, left, nemu_state, halt_ret, cpu, ref, is_skip_ref, pools>>

\* x on an address inside or outside the memory; outside it panics.
cmd_x(inside) ==
  /\ mode = "prompt" /\ ~Batch
  /\ mode' = IF inside THEN mode ELSE "aborted"
  /\ UNCHANGED <<opt, prog, left, nemu_state, halt_ret, cpu, ref, is_skip_ref, pools>>

cmd_w(e) ==
  /\ mode = "prompt" /\ ~Batch
  /\ head # wp(0)!NULL => pool[head].cnt < opt.cnt
  /\ mode' \in {"prompt", "aborted"} /\ \E d \in Bit : wp(d)!cmd_w(e)
  /\ is_skip_ref' = (is_skip_ref \/ Touches(e))
  /\ UNCHANGED <<opt, prog, left, nemu_state, halt_ret, cpu, ref>>

cmd_d(n) ==
  /\ mode = "prompt" /\ ~Batch
  /\ mode' = mode /\ wp(0)!cmd_d(n)
  /\ UNCHANGED <<opt, prog, left, nemu_state, halt_ret, cpu, ref, is_skip_ref>>

Finished == mode \in {"exited", "aborted"} /\ UNCHANGED vars

Next ==
  \/ cmd_exec \/ cmd_q \/ cmd_eof \/ ExecOne \/ Finished
  \/ \E e \in Exprs : cmd_p(e) \/ cmd_w(e)
  \/ \E n \in 1..opt.cnt : cmd_d(n)
  \/ \E arg \in {"", "r", "w"} : cmd_info(arg)
  \/ \E inside \in BOOLEAN : cmd_x(inside)

Spec == Init /\ [][Next]_vars

is_exit_status_bad ==
  ~(nemu_state = "NEMU_END" /\ halt_ret = 0) /\ nemu_state # "NEMU_QUIT"
-----------------------------------------------------------------------------
TypeOK ==
  /\ mode \in {"prompt", "exec", "exited", "aborted"}
  /\ left \in {0, Forever} \cup UNION {1 .. n : n \in Steps} /\ halt_ret \in Bit \cup {-1}
  /\ nemu_state \in Ended \cup {"NEMU_STOP", "NEMU_RUNNING"}
  /\ {cpu, ref} \subseteq [pc : DOMAIN prog, x : Bit, m : Bit]
  /\ is_skip_ref \in BOOLEAN

\* A step that ends the program leaves it ended, and nothing revives it.
StaysEnded ==
  (nemu_state \in Ended) \/ (mode = "exec" /\ cpu' # cpu /\ (Kind(cpu) \in {"trap", "inv"}))
    => nemu_state' \in Ended

\* The user does not look at a device.
Ordinary == "*dev" \notin Exprs

\* dut.c: a skip is used up by the instruction that asked for it; one that is
\* pending when an instruction begins is for that instruction ("let ref skip
\* instructions which can not produce consistent behavior"), as long as the
\* user does not look at a device.
OnlyInconsistentSkipped == Ordinary /\ mode = "exec" /\ is_skip_ref => asks_skip(Kind(cpu))

RefAgrees ==
  ~WATCHPOINT /\ Ordinary /\ nemu_state \notin {"NEMU_ABORT", "NEMU_QUIT"} => ref = cpu

MismatchStops == mode = "exec" /\ cpu' # cpu /\ ~checkregs(cpu', ref') => mode' # "exec"

WatchExact ==
  WATCHPOINT /\ mode = "exec" /\ cpu' # cpu =>
    LET seen == Eval(cpu', 0)
        used == {w \in ToSet(wp(0)!Chain(head)) : ~Touches(pool[w].addr_expr)}
    IN  /\ \A w \in used : pool'[w].last_val = seen[pool[w].addr_expr]
        /\ (\E w \in used : pool[w].last_val # seen[pool[w].addr_expr])
             => nemu_state' = "NEMU_STOP"

BatchExitHonest ==
  Batch /\ mode = "exited" /\ nemu_state # "NEMU_QUIT" /\ ~is_exit_status_bad =>
    /\ \E i \in DOMAIN prog : prog[i] = "trap" /\ NextPc([pc |-> i]) = cpu.pc
    /\ cpu.x = 0 /\ ref = cpu
=============================================================================
