------------------------------- MODULE CLINT -------------------------------
(***************************************************************************)
(* The timer, npc/vsrc/CLINT.sv: a counter of cycles in two words, and a   *)
(* read channel.  A word of the counter counts modulo TimeLimit (2^32).    *)
(* Reading another address than the two words stops a simulation with      *)
(* $fatal; the compositions read only these.                                *)
(***************************************************************************)
EXTENDS Integers

CONSTANTS
    TimeLimit,
    MTIME_LO, MTIME_HI    \* offsets of the two words (0x48 and 0x4c)

VARIABLES arvalid, araddr, rready   \* input wires

VARIABLES mtime_lo, mtime_hi, clint_arready, clint_rvalid, clint_rdata

clintRegs == <<mtime_lo, mtime_hi, clint_arready, clint_rvalid, clint_rdata>>

ClintInit ==
    /\ mtime_lo = 0
    /\ mtime_hi = 0
    /\ clint_arready = FALSE
    /\ clint_rvalid = FALSE
    /\ clint_rdata = 0

Count ==
    /\ mtime_lo' = (mtime_lo + 1) % TimeLimit
    /\ mtime_hi' = IF mtime_lo = TimeLimit - 1 THEN (mtime_hi + 1) % TimeLimit ELSE mtime_hi

\* arready falls one cycle after a read was accepted: the channel relies on
\* being asked for one read at a time.
Answer ==
    /\ clint_arready' = ~clint_rvalid
    /\ clint_rvalid' = \/ arvalid /\ clint_arready
                       \/ clint_rvalid /\ ~rready
    /\ clint_rdata' = CASE arvalid /\ clint_arready /\ araddr = MTIME_LO -> mtime_lo
                        [] arvalid /\ clint_arready /\ araddr = MTIME_HI -> mtime_hi
                        [] OTHER -> clint_rdata

ClintClock == Count /\ Answer
=============================================================================
