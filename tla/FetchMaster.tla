----------------------------- MODULE FetchMaster -----------------------------
(***************************************************************************)
(* What ICACHE does on its axi_out port, seen from the bus: now and then it *)
(* asks for a line, holds the request until it is accepted, and takes every *)
(* beat up to the last.  FetchPath shows that ICACHE behind IFU is such a   *)
(* master; Bus uses it in place of the two.                                 *)
(***************************************************************************)
EXTENDS Params

CONSTANT FetchLines   \* the line addresses it may ask for

VARIABLES arready, rvalid, rlast   \* input wires

VARIABLES
    fm_state,   \* "idle", "req" or "wait"
    fm_addr     \* the line asked for, in "req"

masterRegs == <<fm_state, fm_addr>>

fm_arvalid == fm_state = "req"
fm_rready  == fm_state = "wait"
fm_arlen   == CACHE_LINE_BYTES \div BYTE_NUM - 1

MasterInit == fm_state = "idle" /\ fm_addr = 0

MasterAsk ==
    /\ fm_state = "idle"
    /\ fm_state' = "req"
    /\ fm_addr' \in FetchLines

MasterAccepted ==
    /\ fm_state = "req"
    /\ arready
    /\ fm_state' = "wait"
    /\ fm_addr' = 0

MasterServed ==
    /\ fm_state = "wait"
    /\ rvalid /\ rlast
    /\ fm_state' = "idle"
    /\ UNCHANGED fm_addr

MasterWait ==
    /\ ~(fm_state = "req" /\ arready)
    /\ ~(fm_state = "wait" /\ rvalid /\ rlast)
    /\ UNCHANGED masterRegs

MasterClock == MasterAsk \/ MasterAccepted \/ MasterServed \/ MasterWait

MasterSpec == MasterInit /\ [][MasterClock]_masterRegs
=============================================================================
