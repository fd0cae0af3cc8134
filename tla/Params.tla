------------------------------- MODULE Params -------------------------------
(***************************************************************************)
(* The parameters every RTL module includes (npc/vsrc/params.vh) and the   *)
(* address arithmetic they share.  Addresses and words are naturals below  *)
(* AddrLimit, which is 2^32 in the RTL (NPC_XLEN = 32); the models use a   *)
(* small multiple of four, so that the program counter can wrap.           *)
(*                                                                         *)
(* One step of every RTL module is one rising edge of the clock: each      *)
(* always @(posedge clk) block is a relation between the registers before  *)
(* and after the edge, each wire is an operator of the current state.  The *)
(* input wires of a module are VARIABLES of its TLA+ module, for which an  *)
(* instantiating module substitutes the wire connected to the port.        *)
(***************************************************************************)
EXTENDS Integers

CONSTANTS
    AddrLimit,  \* addresses and words are 0 .. AddrLimit-1
    RESET_PC,   \* the first address fetched after reset
    CACHE_LINE_BYTES, CACHE_NUM_LINES   \* the instruction cache: 16 and 4

ASSUME AddrAssumption ==
    /\ AddrLimit \in Nat \ {0}
    /\ AddrLimit % 4 = 0
    /\ RESET_PC \in 0 .. AddrLimit - 1
    /\ RESET_PC % 4 = 0

ASSUME CacheAssumption ==
    /\ CACHE_LINE_BYTES \in Nat \ {0}
    /\ CACHE_LINE_BYTES % 4 = 0
    /\ CACHE_NUM_LINES \in Nat \ {0}
    /\ AddrLimit % CACHE_LINE_BYTES = 0

BYTE_NUM == 4                      \* bytes in a word (DATA_WIDTH / 8)

Addr     == 0 .. AddrLimit - 1
WordAddr == {a \in Addr : a % BYTE_NUM = 0}

\* Faulty variant of Plus: the carry is kept.
Plus_carry(a, n) == a + n

\* 32-bit addition: the carry out of the top bit is lost.
Plus(a, n) == (a + n) % AddrLimit

Aligned(a) == a % BYTE_NUM = 0
=============================================================================
