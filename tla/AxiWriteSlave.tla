---------------------------- MODULE AxiWriteSlave ----------------------------
(***************************************************************************)
(* A write slave behind the core's io_master port (the ysyxSoC devices are  *)
(* not in this repository).  One write at a time: it takes the address and  *)
(* the data, in any order and after any delay, writes the strobed bytes and *)
(* answers; bvalid is held until bready.  With JointWrites it takes address *)
(* and data in the same cycle, otherwise AXI's rules alone bind it.         *)
(***************************************************************************)
EXTENDS Params, Datapath

CONSTANT JointWrites

VARIABLES
    mem,                                                \* the memory it writes
    awvalid, awaddr, wvalid, wdata, wstrb, bready       \* input wires

VARIABLES
    w_awready, w_wready, w_bvalid,
    w_addr, w_data   \* what has been received: << >> or <<value>>

writeRegs == <<w_awready, w_wready, w_bvalid, w_addr, w_data>>

WriteInit ==
    /\ w_awready = FALSE
    /\ w_wready = FALSE
    /\ w_bvalid = FALSE
    /\ w_addr = << >>
    /\ w_data = << >>

aw_received == w_addr # << >> \/ (awvalid /\ w_awready)
w_received  == w_data # << >> \/ (wvalid /\ w_wready)

\* Until both halves of a write are there.
WriteCollect ==
    /\ ~(w_addr # << >> /\ w_data # << >>)
    /\ w_addr' = IF awvalid /\ w_awready THEN <<awaddr - (awaddr % 4)>> ELSE w_addr
    /\ w_data' = IF wvalid /\ w_wready THEN <<wdata, wstrb>> ELSE w_data
    /\ w_awready' \in {b \in BOOLEAN : b => ~aw_received}
    /\ w_wready' \in {b \in BOOLEAN : b => ~w_received}
    /\ JointWrites => w_awready' = w_wready'
    /\ UNCHANGED <<w_bvalid, mem>>

WriteDelay ==
    /\ w_addr # << >> /\ w_data # << >>
    /\ ~w_bvalid
    /\ UNCHANGED <<writeRegs, mem>>

WritePerform ==
    /\ w_addr # << >> /\ w_data # << >>
    /\ ~w_bvalid
    /\ mem' = [mem EXCEPT ![w_addr[1]] = Strobed(@, w_data[1], w_data[2])]
    /\ w_bvalid' = TRUE
    /\ UNCHANGED <<w_awready, w_wready, w_addr, w_data>>

WriteHold ==
    /\ w_bvalid
    /\ ~bready
    /\ UNCHANGED <<writeRegs, mem>>

WriteAnswered ==
    /\ w_bvalid
    /\ bready
    /\ w_bvalid' = FALSE
    /\ w_addr' = << >>
    /\ w_data' = << >>
    /\ UNCHANGED <<w_awready, w_wready, mem>>

WriteClock ==
    WriteCollect \/ WriteDelay \/ WritePerform \/ WriteHold \/ WriteAnswered

-----------------------------------------------------------------------------
\* What a live slave does sooner or later (used in fairness conditions).
WantsAddr    == awvalid /\ ~aw_received /\ ~w_awready
AcceptsAddr  == WantsAddr /\ w_awready' = TRUE
WantsData    == wvalid /\ ~w_received /\ ~w_wready
AcceptsData  == WantsData /\ w_wready' = TRUE
OwesWrite    == w_addr # << >> /\ w_data # << >> /\ ~w_bvalid
AnswersWrite == OwesWrite /\ w_bvalid' = TRUE
=============================================================================
