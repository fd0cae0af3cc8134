------------------------------- MODULE ICACHE -------------------------------
(***************************************************************************)
(* The instruction cache, npc/vsrc/ICACHE.sv: direct mapped, read only,    *)
(* one miss at a time, a missing line is refilled by one burst.  Between    *)
(* IFU (axi_in) and the arbiter (axi_out).  The RTL has 4 lines of 16      *)
(* bytes; both numbers are constants here.  A line is a sequence of words: *)
(* IFU only asks for aligned words, so a byte offset selects one of them.  *)
(* axi_in.arready (state = "IDLE") and axi_out.rready (state = "WAIT_R")   *)
(* are defined where the cache is connected.                               *)
(***************************************************************************)
EXTENDS Params

VARIABLES
    \* input wires
    in_icache_flush,
    axi_in_arvalid, axi_in_araddr, axi_in_rready,
    axi_out_arready, axi_out_rvalid, axi_out_rdata, axi_out_rlast

VARIABLES
    state, valid_array, tag_array, data_array,
    refill_addr, refill_cnt, req_word_offset,
    axi_in_rvalid, axi_in_rdata,
    axi_out_arvalid, axi_out_araddr

arrays  == <<valid_array, tag_array, data_array>>
refill  == <<refill_addr, refill_cnt, req_word_offset>>
inRegs  == <<axi_in_rvalid, axi_in_rdata>>
outRegs == <<axi_out_arvalid, axi_out_araddr>>
regs    == <<state, arrays, refill, inRegs, outRegs>>

-----------------------------------------------------------------------------
(* The fields of an address.                                               *)

WORDS_PER_LINE == CACHE_LINE_BYTES \div BYTE_NUM

Lines == 0 .. CACHE_NUM_LINES - 1
Words == 0 .. WORDS_PER_LINE - 1

line(a)        == a \div CACHE_LINE_BYTES
index(a)       == line(a) % CACHE_NUM_LINES
tag(a)         == line(a) \div CACHE_NUM_LINES
word_offset(a) == (a % CACHE_LINE_BYTES) \div BYTE_NUM
line_base(a)   == line(a) * CACHE_LINE_BYTES

-----------------------------------------------------------------------------
(* Wires *)

axi_out_arlen  == IF axi_out_arvalid THEN WORDS_PER_LINE - 1 ELSE 0

\* Faulty variant of hit: the tag is not compared.
hit_any_tag == valid_array[index(axi_in_araddr)]

hit == /\ valid_array[index(axi_in_araddr)]
       /\ tag_array[index(axi_in_araddr)] = tag(axi_in_araddr)

\* A line's array entry with the arriving word written into it.
refilled_line ==
    [data_array[index(refill_addr)] EXCEPT ![word_offset(refill_addr)] = axi_out_rdata]

-----------------------------------------------------------------------------
(* After reset the arrays hold no valid line; the simulator starts the      *)
(* registers the reset does not name at zero.                               *)

Init ==
    /\ state = "IDLE"
    /\ valid_array = [i \in Lines |-> FALSE]
    /\ tag_array = [i \in Lines |-> 0]
    /\ data_array = [i \in Lines |-> [w \in Words |-> 0]]
    /\ refill_addr = 0
    /\ refill_cnt = 0
    /\ req_word_offset = 0
    /\ axi_in_rvalid = FALSE
    /\ axi_in_rdata = 0
    /\ axi_out_arvalid = FALSE
    /\ axi_out_araddr = 0

-----------------------------------------------------------------------------
\* A flush takes the whole cycle: the state machine does not move.
Flush ==
    /\ in_icache_flush
    /\ valid_array' = [i \in Lines |-> FALSE]
    /\ UNCHANGED <<state, tag_array, data_array, refill, inRegs, outRegs>>

Idle ==
    /\ ~in_icache_flush
    /\ state = "IDLE"
    /\ ~axi_in_arvalid
    /\ UNCHANGED regs

Hit ==
    /\ ~in_icache_flush
    /\ state = "IDLE"
    /\ axi_in_arvalid
    /\ hit
    /\ axi_in_rdata' = data_array[index(axi_in_araddr)][word_offset(axi_in_araddr)]
    /\ axi_in_rvalid' = TRUE
    /\ state' = "RESP"
    /\ UNCHANGED <<arrays, refill, outRegs>>

\* Faulty variant of Miss: the line is read from the word that was missed.
Miss_unaligned ==
    /\ ~in_icache_flush
    /\ state = "IDLE"
    /\ axi_in_arvalid
    /\ ~hit
    /\ refill_cnt' = 0
    /\ req_word_offset' = word_offset(axi_in_araddr)
    /\ refill_addr' = line_base(axi_in_araddr)
    /\ axi_out_araddr' = axi_in_araddr
    /\ axi_out_arvalid' = TRUE
    /\ state' = "SEND_AR"
    /\ UNCHANGED <<arrays, inRegs>>

Miss ==
    /\ ~in_icache_flush
    /\ state = "IDLE"
    /\ axi_in_arvalid
    /\ ~hit
    /\ refill_cnt' = 0
    /\ req_word_offset' = word_offset(axi_in_araddr)
    /\ refill_addr' = line_base(axi_in_araddr)
    /\ axi_out_araddr' = line_base(axi_in_araddr)
    /\ axi_out_arvalid' = TRUE
    /\ state' = "SEND_AR"
    /\ UNCHANGED <<arrays, inRegs>>

Respond ==
    /\ ~in_icache_flush
    /\ state = "RESP"
    /\ \/ /\ axi_in_rvalid /\ axi_in_rready
          /\ axi_in_rvalid' = FALSE
          /\ state' = "IDLE"
       \/ /\ ~(axi_in_rvalid /\ axi_in_rready)
          /\ UNCHANGED <<axi_in_rvalid, state>>
    /\ UNCHANGED <<axi_in_rdata, arrays, refill, outRegs>>

SendAr ==
    /\ ~in_icache_flush
    /\ state = "SEND_AR"
    /\ \/ /\ axi_out_arvalid /\ axi_out_arready
          /\ axi_out_arvalid' = FALSE
          /\ state' = "WAIT_R"
       \/ /\ ~(axi_out_arvalid /\ axi_out_arready)
          /\ UNCHANGED <<axi_out_arvalid, state>>
    /\ UNCHANGED <<axi_out_araddr, arrays, refill, inRegs>>

RefillWait ==
    /\ ~in_icache_flush
    /\ state = "WAIT_R"
    /\ ~axi_out_rvalid
    /\ UNCHANGED regs

RefillBeat ==
    /\ ~in_icache_flush
    /\ state = "WAIT_R"
    /\ axi_out_rvalid
    /\ ~axi_out_rlast
    /\ data_array' = [data_array EXCEPT ![index(refill_addr)] = refilled_line]
    /\ refill_addr' = Plus(refill_addr, BYTE_NUM)
    /\ refill_cnt' = (refill_cnt + 1) % WORDS_PER_LINE
    /\ UNCHANGED <<state, valid_array, tag_array, req_word_offset, inRegs, outRegs>>

\* Faulty variant of RefillLast: the last word is answered from the array,
\* into which it is only being written.
RefillLast_no_bypass ==
    /\ ~in_icache_flush
    /\ state = "WAIT_R"
    /\ axi_out_rvalid
    /\ axi_out_rlast
    /\ data_array' = [data_array EXCEPT ![index(refill_addr)] = refilled_line]
    /\ valid_array' = [valid_array EXCEPT ![index(refill_addr)] = TRUE]
    /\ tag_array' = [tag_array EXCEPT ![index(refill_addr)] = tag(refill_addr)]
    /\ axi_in_rdata' = data_array[index(refill_addr)][req_word_offset]
    /\ axi_in_rvalid' = TRUE
    /\ state' = "RESP"
    /\ UNCHANGED <<refill, outRegs>>

RefillLast ==
    /\ ~in_icache_flush
    /\ state = "WAIT_R"
    /\ axi_out_rvalid
    /\ axi_out_rlast
    /\ data_array' = [data_array EXCEPT ![index(refill_addr)] = refilled_line]
    /\ valid_array' = [valid_array EXCEPT ![index(refill_addr)] = TRUE]
    /\ tag_array' = [tag_array EXCEPT ![index(refill_addr)] = tag(refill_addr)]
    /\ axi_in_rdata' = IF req_word_offset = refill_cnt
                       THEN axi_out_rdata
                       ELSE data_array[index(refill_addr)][req_word_offset]
    /\ axi_in_rvalid' = TRUE
    /\ state' = "RESP"
    /\ UNCHANGED <<refill, outRegs>>

Clock ==
    \/ Flush \/ Idle \/ Hit \/ Miss \/ Respond \/ SendAr
    \/ RefillWait \/ RefillBeat \/ RefillLast
=============================================================================
