---------------------------- MODULE AxiReadSlave ----------------------------
(***************************************************************************)
(* A read slave behind the core's io_master port: the ysyxSoC devices are   *)
(* not in this repository, so this is what the RTL relies on.  One read at  *)
(* a time; a burst of arlen+1 words from consecutive addresses, each after  *)
(* any delay, rlast with the last one; rvalid is held until rready.  It may *)
(* raise and drop arready freely while it has no read.                      *)
(***************************************************************************)
EXTENDS Params

VARIABLES
    mem,                              \* the memory it reads
    arvalid, araddr, arlen, rready    \* input wires

VARIABLES
    s_arready, s_left, s_addr, s_rvalid, s_rdata

slaveRegs == <<s_arready, s_left, s_addr, s_rvalid, s_rdata>>

s_rlast == s_left = 1

SlaveInit ==
    /\ s_arready = FALSE
    /\ s_left = 0
    /\ s_addr = 0
    /\ s_rvalid = FALSE
    /\ s_rdata = 0

\* The data channel of a read with words left: present the next or delay it.
Deliver(a) ==
    \/ s_rvalid' = TRUE /\ s_rdata' = mem[a]
    \/ s_rvalid' = FALSE /\ s_rdata' = 0

SlaveIdle ==
    /\ s_left = 0
    /\ ~(arvalid /\ s_arready)
    /\ s_arready' \in BOOLEAN
    /\ UNCHANGED <<s_left, s_addr, s_rvalid, s_rdata>>

SlaveAccept ==
    /\ s_left = 0
    /\ arvalid /\ s_arready
    /\ s_left' = arlen + 1
    /\ s_addr' = araddr
    /\ s_arready' = FALSE
    /\ Deliver(araddr)

SlaveDelay ==
    /\ s_left > 0
    /\ ~s_rvalid
    /\ Deliver(s_addr)
    /\ UNCHANGED <<s_arready, s_left, s_addr>>

SlaveHold ==
    /\ s_left > 0
    /\ s_rvalid
    /\ ~rready
    /\ UNCHANGED slaveRegs

SlaveBeat ==
    /\ s_left > 1
    /\ s_rvalid
    /\ rready
    /\ s_left' = s_left - 1
    /\ s_addr' = Plus(s_addr, BYTE_NUM)
    /\ Deliver(Plus(s_addr, BYTE_NUM))
    /\ UNCHANGED s_arready

SlaveLast ==
    /\ s_left = 1
    /\ s_rvalid
    /\ rready
    /\ s_left' = 0
    /\ s_addr' = 0
    /\ s_rvalid' = FALSE
    /\ s_rdata' = 0
    /\ UNCHANGED s_arready

SlaveClock ==
    SlaveIdle \/ SlaveAccept \/ SlaveDelay \/ SlaveHold \/ SlaveBeat \/ SlaveLast

-----------------------------------------------------------------------------
\* What a live slave does sooner or later (used in fairness conditions).
WantsRead   == arvalid /\ s_left = 0 /\ ~s_arready
AcceptsRead == WantsRead /\ s_arready' = TRUE
OwesRead    == s_left > 0 /\ ~s_rvalid
AnswersRead == OwesRead /\ s_rvalid' = TRUE
=============================================================================
