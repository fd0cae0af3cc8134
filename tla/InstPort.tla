------------------------------ MODULE InstPort ------------------------------
(***************************************************************************)
(* What IFU is promised by whatever answers its reads, without the cache's *)
(* mechanism: a slave that takes one read at a time and answers it, after   *)
(* any delay, with a value the word has held since the last flush.  view    *)
(* holds these values.  A flush comes only between reads; after it only     *)
(* the current contents of the memory may be returned.                      *)
(***************************************************************************)
EXTENDS Params

VARIABLES
    mem,                               \* the memory behind the port
    arvalid, araddr, rready, flush     \* input wires

VARIABLES
    port_state,  \* "idle", "busy" or "answer"
    port_addr,   \* the word being read, when busy
    port_data,   \* the answer
    view         \* view[a]: what a read of word a may return

portRegs == <<port_state, port_addr, port_data>>

port_arready == port_state = "idle"
port_rvalid  == port_state = "answer"

PortInit ==
    /\ port_state = "idle"
    /\ port_addr = 0
    /\ port_data = 0

ViewInit == view = [a \in DOMAIN mem |-> {mem[a]}]

Answer(a) ==
    /\ port_state' = "answer"
    /\ port_data' \in view[a]
    /\ port_addr' = 0

PortQuiet ==
    /\ port_state = "idle"
    /\ ~arvalid
    /\ UNCHANGED portRegs

PortAccept ==
    /\ port_state = "idle"
    /\ arvalid
    /\ ~flush
    /\ \/ Answer(araddr)
       \/ /\ port_state' = "busy"
          /\ port_addr' = araddr
          /\ UNCHANGED port_data

PortBusy ==
    /\ port_state = "busy"
    /\ ~flush
    /\ Answer(port_addr) \/ UNCHANGED portRegs

PortTake ==
    /\ port_state = "answer"
    /\ ~flush
    /\ \/ /\ rready
          /\ port_state' = "idle"
          /\ port_data' = 0
          /\ UNCHANGED port_addr
       \/ /\ ~rready
          /\ UNCHANGED portRegs

PortClock == PortQuiet \/ PortAccept \/ PortBusy \/ PortTake

\* The view follows the memory: it gains every value stored, and a flush
\* leaves only the current ones.
ViewClock ==
    view' = [a \in DOMAIN mem |-> IF flush THEN {mem'[a]} ELSE view[a] \cup {mem'[a]}]

PortSpec == PortInit /\ ViewInit /\ [][PortClock /\ ViewClock]_<<portRegs, view, mem>>
=============================================================================
