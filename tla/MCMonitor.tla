----------------------------- MODULE MCMonitor -----------------------------
(***************************************************************************)
(* The debuggers, one part at a time: part is the run control of NEMU or   *)
(* of the simulated core, their pool of watchpoints alone, or the          *)
(* expression evaluator.  A variable a part does not use keeps one value.  *)
(***************************************************************************)
EXTENDS Integers, Sequences

CONSTANTS Parts, NemuSessions, NpcSessions

VARIABLES part,
          opt, prog, mode, left, halt_ret, cpu, ref,   \* either run control
          nemu_state, is_skip_ref,                     \* NEMU
          npc_state, asked, done,                      \* the simulated core
          head, free_, pool, aborted, val,             \* watchpoints
          buf, ret                                     \* expressions

nemu == INSTANCE NemuMonitor WITH Sessions <- NemuSessions, NR_WP <- 2
npc  == INSTANCE NpcMonitor WITH Sessions <- NpcSessions, NR_WP <- 2
watch == INSTANCE Watchpoint WITH NR_WP <- 3, Exprs <- {"e1", "e2"}, Values <- {0, 1}, MaxCnt <- 3
\* Words of three bits and a memory that is not the identity.
test == INSTANCE Expr WITH Modulus <- 8, Nums <- {0, 1, 3}, MaxCalls <- 4, MaxOperands <- 3,
                           mem <- [w \in 0 .. 7 |-> (3 * w + 1) % 8]

\* Every program of three instructions at the prompt and in batch mode, and
\* programs that change what is watched, are wrong while they do, and end.
Session(progs, watching, batch, steps, exprs, cnt) ==
  [prog : progs, opt : {[watch |-> watching, batch |-> batch, steps |-> steps, exprs |-> exprs, cnt |-> cnt]}]
Watching(progs) == Session(progs, TRUE, FALSE, {2}, {"$x", "$pc"}, 2)

AllNemu == [1 .. 3 -> {"add", "load", "store", "dev", "wrong", "trap", "inv"}]
WatchNemu == {<<"add", "trap">>, <<"dev", "wrong">>}
MCNemuWatching == Watching(WatchNemu)
MCNemuSessions == UNION
  { Session(AllNemu, FALSE, FALSE, {0, 1, 2}, {}, 0),
    Session(AllNemu, FALSE, TRUE, {}, {}, 0),
    Session(WatchNemu, TRUE, FALSE, {2}, {"$x", "$pc", "*dev"}, 2) }

AllNpc == [1 .. 3 -> {"add", "dev", "wrong", "ebreak"}]
MCNpcSessions == UNION
  { Session(AllNpc, FALSE, FALSE, {0, 1, 2}, {}, 0),
    Session(AllNpc, FALSE, TRUE, {}, {}, 0),
    Watching({<<"add", "dev", "ebreak">>}) }

runVars == <<opt, prog, mode, left, halt_ret, cpu, ref>>
nemuVars == <<nemu_state, is_skip_ref>>
npcVars == <<npc_state, asked, done>>
poolVars == <<head, free_, pool>>
watchVars == <<aborted, val>>
exprVars == <<buf, ret>>
vars == <<part, runVars, nemuVars, npcVars, poolVars, watchVars, exprVars>>

NoRun == /\ opt = 0 /\ prog = 0 /\ mode = "none" /\ left = 0 /\ halt_ret = 0 /\ cpu = 0 /\ ref = 0
NoNemu == nemu_state = 0 /\ is_skip_ref = 0
NoNpc == npc_state = 0 /\ asked = 0 /\ done = 0
NoPool == head = 0 /\ free_ = 0 /\ pool = 0
NoWatch == aborted = 0 /\ val = 0
NoExpr == buf = 0 /\ ret = 0

Init ==
  /\ part \in Parts
  /\ \/ part = "nemu" /\ nemu!Init /\ NoNpc /\ NoWatch /\ NoExpr
     \/ part = "npc" /\ npc!Init /\ NoNemu /\ NoWatch /\ NoExpr
     \/ part = "watch" /\ watch!Init /\ NoRun /\ NoNemu /\ NoNpc /\ NoExpr
     \/ part = "expr" /\ test!Init /\ NoRun /\ NoNemu /\ NoNpc /\ NoPool /\ NoWatch

Next ==
  \/ part = "nemu" /\ nemu!Next /\ UNCHANGED <<part, npcVars, watchVars, exprVars>>
  \/ part = "npc" /\ npc!Next /\ UNCHANGED <<part, nemuVars, watchVars, exprVars>>
  \/ part = "watch" /\ watch!Next /\ UNCHANGED <<part, runVars, nemuVars, npcVars, exprVars>>
  \/ part = "expr" /\ test!Next /\ UNCHANGED <<part, runVars, nemuVars, npcVars, poolVars, watchVars>>

\* NEMU executes one instruction after the other, and the core commits again
\* and again: that its pipeline does is shown in MCCore (Terminates).
Spec ==
  /\ Init /\ [][Next]_vars
  /\ WF_vars(part = "nemu" /\ nemu!ExecOne /\ UNCHANGED <<part, npcVars, watchVars, exprVars>>)
  /\ WF_vars(part = "npc" /\ npc!Commit /\ UNCHANGED <<part, nemuVars, watchVars, exprVars>>)
-----------------------------------------------------------------------------
TypeOK ==
  /\ part = "nemu" => nemu!TypeOK
  /\ part = "npc" => npc!TypeOK
  /\ part = "watch" => watch!TypeOK

\* dut.c: a skip is used up by the instruction that asked for it; one that is
\* pending when an instruction begins is for that instruction ("let ref skip
\* instructions which can not produce consistent behavior"), as long as the
\* user does not look at a device.
OnlyInconsistentSkipped == part = "nemu" => nemu!OnlyInconsistentSkipped

\* dut.c, dut.cpp: while the program may go on, the machine under test and the
\* reference agree on registers and memory after every instruction, however
\* ordinary, skipped and ending instructions are mixed.
RefAgrees == (part = "nemu" => nemu!RefAgrees) /\ (part = "npc" => npc!RefAgrees)

\* cpu-exec.cpp: "si n" that comes back without an end or a watchpoint has
\* committed exactly n instructions, however many clocks that took.
SiExact == part = "npc" => npc!SiExact

\* nemu-main.c, sim_main.cpp in batch mode: exit status 0 is given only to a
\* program that reached its trap with 0 in a0 and agreed with the reference all
\* the way, or, in NEMU, when the window was closed.
BatchExitHonest ==
  (part = "nemu" => nemu!BatchExitHonest) /\ (part = "npc" => npc!BatchExitHonest)

\* watchpoint.c: every element of the pool is in exactly one of the two lists,
\* once; none is lost or shared however watchpoints are added and deleted, and
\* the assertion in new_wp fails only when all of them are in use.
PoolPartitioned == part = "watch" => watch!PoolPartitioned

\* sdb.c, cmd_d: numbers fall along the list, so the number a user names
\* denotes one watchpoint, and a number greater than the first one's none.
NumbersFall == part = "watch" => watch!NumbersFall

\* expr.c, tested by gen-expr.c: every expression the generator prints has the
\* value the compiled C program prints, wrapping subtractions and divisions whose
\* divisor came out as zero included; and so has every flat one.
ExprAgrees == part = "expr" => test!Agrees

Running == part \in {"nemu", "npc"}
Ends == (part = "nemu" => nemu!StaysEnded) /\ (part = "npc" => npc!StaysEnded)

\* cpu-exec.c, cpu-exec.cpp: a program that has executed its trap or an unknown
\* instruction, or that was aborted or quit, is never executed any further
\* ("Program execution has ended. To restart the program, exit NEMU and run
\* again.").
EndedForGood == [][Ends]_vars

\* The same where CONFIG_WATCHPOINT is off.
EndedStaysEnded == [][Running /\ ~opt.watch => Ends]_vars

\* cpu-exec.c: an instruction whose result the reference does not confirm ends
\* the execution, watchpoints or not.
MismatchStops == [][part = "nemu" => nemu!MismatchStops]_vars

\* cpu-exec.c: execution stops after exactly those instructions that changed a
\* watched value, and no watchpoint is left behind its expression's value.
WatchExact == [][part = "nemu" => nemu!WatchExact]_vars

\* The linked pool implements the plain list of watchpoints: what "info w"
\* shows is what was added and not deleted, in order, with current values; no
\* element of the pool is lost or shared meanwhile.
ImplementsWatchList ==
  /\ [](PoolPartitioned /\ NumbersFall)
  /\ part = "watch" => watch!abstract!Init
  /\ [][part = "watch" => watch!Follows]_vars

\* sdb.c, sdb.cpp: a step command comes back to the prompt.
SiReturns == (Running /\ mode = "exec" /\ left # -1) ~> (mode # "exec")

-----------------------------------------------------------------------------
(* What the run checks.                                                    *)

\* A debugger reports what the program did: the reference is skipped only for
\* what it cannot do, agrees in between, "si" counts right, and the exit status
\* is that of the program.
RunsHonestly == TypeOK /\ OnlyInconsistentSkipped /\ RefAgrees /\ SiExact /\ BatchExitHonest

\* Execution stops when it has to and not before: for good at the end of the
\* program, at a mismatch, and at a watched value that changed.
StopsWhenItMust == EndedStaysEnded /\ MismatchStops /\ WatchExact
=============================================================================
