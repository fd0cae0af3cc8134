---------------------------- MODULE NpcMonitor ----------------------------
(***************************************************************************)
(* Run control of the simulated core: the debugger (npc/csrc/monitor/sdb), *)
(* the loop that clocks the core (cpu/cpu-exec.cpp), one clock             *)
(* (exec_once in sim_main.cpp) and the comparison of every commit with     *)
(* NEMU (cpu/difftest/dut.cpp).  Unlike NEMU's loop, most turns commit     *)
(* nothing.  The core is seen through its commits: a program counter, one  *)
(* register x, and instructions of the kinds "add", "dev" (marked          *)
(* skip_ref), "wrong" (a fault of the core under test) and "ebreak".       *)
(***************************************************************************)
EXTENDS Integers, Sequences, SequencesExt

CONSTANTS Sessions, NR_WP    \* as in NemuMonitor

VARIABLES opt, prog,
          mode,        \* "prompt", "exec", "exited", "aborted"
          left,        \* n in execute(); Forever after "c"
          asked, done, \* history: what the last command asked for, its commits
                       \* (no further than one too many)
          npc_state, halt_ret,
          cpu, ref,
          head, free_, pool

pools == <<head, free_, pool>>
vars == <<opt, prog, mode, left, asked, done, npc_state, halt_ret, cpu, ref, pools>>

WATCHPOINT == opt.watch
Batch == opt.batch
Exprs == opt.exprs
Steps == opt.steps
Forever == -1
Bit == {0, 1}
AllExprs == {"$pc", "$x"}
Ended == {"NPC_END", "NPC_ABORT", "NPC_QUIT"}

\* expr(): a register is read from the core's register file, "$pc" is the
\* program counter of the decode stage, p, which is not the committed one.
Eval(c, p) == [e \in AllExprs |-> IF e = "$x" THEN c.x ELSE p]

wp(p) == INSTANCE Watchpoint
           WITH Values <- 0..10, Exprs <- AllExprs, MaxCnt <- 9, aborted <- mode = "aborted", val <- Eval(cpu, p)

\* reset: the core starts at the first instruction, and init_difftest copies
\* that state to the reference.
Init ==
  /\ \E s \in Sessions : opt = s.opt /\ prog = s.prog
  /\ mode = "prompt" /\ left = 0 /\ asked = 0 /\ done = 0
  /\ npc_state = "NPC_STOP" /\ halt_ret = 0
  /\ cpu = [pc |-> 1, x |-> 0] /\ ref = [pc |-> 1, x |-> 0]
  /\ wp(1)!InitPool
-----------------------------------------------------------------------------
Kind(c) == prog[c.pc]

\* The architectural state after the commit of the instruction at c.pc; d is
\* what a device answers.
DutCommit(c, d) ==
  [pc |-> (c.pc % Len(prog)) + 1,
   x  |-> CASE Kind(c) = "add" -> 1 - c.x [] Kind(c) = "dev" -> d [] OTHER -> c.x]

\* ref_difftest_exec(1): the reference executes "wrong" correctly, as an add.
RefExec(c) ==
  [DutCommit(c, 0) EXCEPT !.x = IF Kind(c) = "wrong" THEN 1 - c.x ELSE @]

\* exec_once: an ebreak that commits ends the program, well if a0 is 0.
EndState(c) ==
  IF Kind(cpu) # "ebreak" THEN npc_state ELSE IF c.x = 0 THEN "NPC_END" ELSE "NPC_ABORT"

\* Faulty variant of difftest_step: a mismatch is noticed one commit late.
difftest_step_late(c, st) ==
  IF Kind(cpu) = "dev" THEN [ref |-> c, st |-> st]
  ELSE [ref |-> RefExec(ref), st |-> IF cpu = ref THEN st ELSE "NPC_ABORT"]

\* difftest_step, with the skip that trace_and_difftest asks for just before.
difftest_step(c, st) ==
  IF Kind(cpu) = "dev" THEN [ref |-> c, st |-> st]
  ELSE [ref |-> RefExec(ref), st |-> IF c = RefExec(ref) THEN st ELSE "NPC_ABORT"]

\* The end of cpu_exec.
CpuExecReturns(st) ==
  /\ npc_state' = IF st = "NPC_RUNNING" THEN "NPC_STOP" ELSE st
  /\ mode' = IF Batch THEN "exited" ELSE "prompt"
  /\ left' = 0

\* Faulty variant of Idle: every clock is counted.
Idle_counted ==
  /\ mode = "exec" /\ left # 1
  /\ left' = IF left = Forever THEN left ELSE left - 1
  /\ UNCHANGED <<opt, prog, mode, asked, done, npc_state, halt_ret, cpu, ref, pools>>

\* A clock in which nothing commits is neither counted nor compared.
Idle == mode = "exec" /\ UNCHANGED vars

\* A clock with a commit: exec_once, trace_and_difftest, n--, and the test for
\* the end of the loop.
Commit ==
  /\ mode = "exec"
  /\ \E d \in Bit, p \in DOMAIN prog :
       LET c    == DutCommit(cpu, d)
           diff == difftest_step(c, EndState(c))
           hit  == WATCHPOINT /\ wp(p)!Changed(Eval(c, p)) # {}
           st   == IF hit THEN "NPC_STOP" ELSE diff.st
       IN /\ cpu' = c /\ ref' = diff.ref
          /\ halt_ret' = IF Kind(cpu) = "ebreak" THEN c.x ELSE halt_ret
          /\ IF WATCHPOINT
             THEN pool' = [i \in DOMAIN pool |->
                             IF i \in wp(p)!Changed(Eval(c, p))
                             THEN [pool[i] EXCEPT !.last_val = Eval(c, p)[pool[i].addr_expr]]
                             ELSE pool[i]]
             ELSE UNCHANGED pool
          /\ IF st # "NPC_RUNNING" \/ left = 1 THEN CpuExecReturns(st)
             ELSE /\ left' = IF left = Forever THEN left ELSE left - 1
                  /\ UNCHANGED <<mode, npc_state>>
  /\ done' = IF left = Forever \/ done > asked THEN done ELSE done + 1
  /\ UNCHANGED <<opt, prog, asked, head, free_>>
-----------------------------------------------------------------------------
\* cpu_exec up to the loop.
cpu_exec(n) ==
  IF npc_state \in Ended
  THEN mode' = (IF Batch THEN "exited" ELSE mode) /\ UNCHANGED <<npc_state, left, asked, done>>
  ELSE /\ asked' = n /\ done' = 0
       /\ IF n = 0 THEN CpuExecReturns("NPC_RUNNING")
          ELSE npc_state' = "NPC_RUNNING" /\ left' = n /\ mode' = "exec"

cmd_exec ==
  /\ mode = "prompt"
  /\ \E n \in IF Batch THEN {Forever} ELSE Steps \cup {Forever} : cpu_exec(n)
  /\ UNCHANGED <<opt, prog, halt_ret, cpu, ref, pools>>

cmd_q ==
  /\ mode = "prompt" /\ ~Batch
  /\ npc_state' = "NPC_QUIT" /\ mode' = "exited"
  /\ UNCHANGED <<opt, prog, left, asked, done, halt_ret, cpu, ref, pools>>

\* A command that changes at most whether the debugger goes on.
Prompt(next) ==
  /\ mode = "prompt" /\ ~Batch
  /\ mode' = next
  /\ UNCHANGED <<opt, prog, left, asked, done, npc_state, halt_ret, cpu, ref, pools>>

cmd_eof == Prompt("exited")

cmd_info(arg) == Prompt(IF arg = "" THEN "aborted" ELSE mode)

\* pmem_read knows the PSRAM and what its first 2^24 words alias; for any other
\* address it ends the process.
pmem_read_ok(region) == region = "psram"

\* x prints words of the SDRAM and "out of bound" for the rest.
cmd_x(region) ==
  Prompt(IF region = "sdram" /\ ~pmem_read_ok(region) THEN "exited" ELSE mode)

cmd_w(e) ==
  /\ mode = "prompt" /\ ~Batch
  /\ head # wp(1)!NULL => pool[head].cnt < opt.cnt
  /\ mode' \in {"prompt", "aborted"} /\ \E p \in DOMAIN prog : wp(p)!cmd_w(e)
  /\ UNCHANGED <<opt, prog, left, asked, done, npc_state, halt_ret, cpu, ref>>

cmd_d(n) ==
  /\ mode = "prompt" /\ ~Batch
  /\ mode' = mode /\ wp(1)!cmd_d(n)
  /\ UNCHANGED <<opt, prog, left, asked, done, npc_state, halt_ret, cpu, ref>>

Finished == mode \in {"exited", "aborted"} /\ UNCHANGED vars

Next ==
  \/ cmd_exec \/ cmd_q \/ cmd_eof \/ Idle \/ Commit \/ Finished
  \/ \E arg \in {"", "r", "w"} : cmd_info(arg)
  \/ \E region \in {"psram", "sdram", "other"} : cmd_x(region)
  \/ \E e \in Exprs : cmd_w(e)
  \/ \E n \in 1..opt.cnt : cmd_d(n)

Spec == Init /\ [][Next]_vars

is_exit_status_bad ==
  ~(npc_state = "NPC_END" /\ halt_ret = 0) /\ npc_state # "NPC_QUIT"
-----------------------------------------------------------------------------
TypeOK ==
  /\ mode \in {"prompt", "exec", "exited", "aborted"}
  /\ left \in {0, Forever} \cup UNION {1 .. n : n \in Steps}
  /\ npc_state \in Ended \cup {"NPC_STOP", "NPC_RUNNING"}
  /\ {cpu, ref} \subseteq [pc : DOMAIN prog, x : Bit]

\* A commit that ends the program leaves it ended, and nothing revives it.
StaysEnded ==
  (npc_state \in Ended) \/ (mode = "exec" /\ cpu' # cpu /\ Kind(cpu) = "ebreak")
    => npc_state' \in Ended

SiExact == mode = "prompt" /\ npc_state = "NPC_STOP" /\ ~WATCHPOINT => done = asked

RefAgrees == npc_state \in {"NPC_RUNNING", "NPC_STOP", "NPC_END"} /\ ~WATCHPOINT => ref = cpu

BatchExitHonest ==
  Batch /\ mode = "exited" /\ ~is_exit_status_bad =>
    /\ \E i \in DOMAIN prog : prog[i] = "ebreak" /\ (i % Len(prog)) + 1 = cpu.pc
    /\ cpu.x = 0 /\ ref = cpu
=============================================================================
