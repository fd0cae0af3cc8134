----------------------------- MODULE FetchPath -----------------------------
(***************************************************************************)
(* The fetch side of the core in the ARCH_YSYXSOC configuration: IFU in    *)
(* front of ICACHE in front of a memory (ysyx_25120302.v).  The rest of    *)
(* the core is its environment: it redirects the fetch, takes instructions *)
(* when it likes, stores into the memory and executes fence.i.             *)
(***************************************************************************)
EXTENDS Params, FiniteSets

CONSTANTS
    Data,     \* the values of a memory word
    Image,    \* the memory's first contents
    Stores,   \* <<address, value>> pairs the program may store
    Targets   \* where the program may jump

ASSUME ProgramAssumption ==
    /\ 0 \in Data
    /\ Image \in [WordAddr -> Data]
    /\ Stores \subseteq WordAddr \X Data
    /\ Targets \subseteq Addr

VARIABLES
    \* IFU
    axi_state, outstanding_pc, outstanding_stale,
    fencei_state, out_icache_flush, out_fencei_flush_done,
    ifu_state, fetch_pc, out_pc, out_inst, out_exception_valid, exception_pending,
    \* ICACHE
    state, valid_array, tag_array, data_array,
    refill_addr, refill_cnt, req_word_offset,
    axi_in_rvalid, axi_in_rdata, axi_out_arvalid, axi_out_araddr,
    \* the memory and its read slave
    mem, s_arready, s_left, s_addr, s_rvalid, s_rdata,
    \* the rest of the core
    redirect, redirect_pc, idu_ready, fencei_done, fence,
    \* history
    exp_pc,   \* the program counter the decoder must receive next
    view      \* the values a fetch of each word may return

-----------------------------------------------------------------------------
(* The wires of axi_ifu and axi_icache that depend on registers only.      *)

axi_ifu_arready   == state = "IDLE"
axi_icache_rready == state = "WAIT_R"

ifu == INSTANCE IFU WITH
    in_redirect_fire <- redirect, in_redirect_pc <- redirect_pc,
    in_fencei_done <- fencei_done, in_ready <- idu_ready,
    axi_arready <- axi_ifu_arready, axi_rvalid <- axi_in_rvalid,
    axi_rdata <- axi_in_rdata

icache == INSTANCE ICACHE WITH
    in_icache_flush <- out_icache_flush,
    axi_in_arvalid <- ifu!axi_arvalid, axi_in_araddr <- ifu!axi_araddr,
    axi_in_rready <- ifu!axi_rready,
    axi_out_arready <- s_arready, axi_out_rvalid <- s_rvalid,
    axi_out_rdata <- s_rdata, axi_out_rlast <- (s_left = 1)

slave == INSTANCE AxiReadSlave WITH
    arvalid <- axi_out_arvalid, araddr <- axi_out_araddr,
    arlen <- icache!axi_out_arlen, rready <- axi_icache_rready

ifuVars    == ifu!regs
icacheVars == icache!regs
slaveVars  == slave!slaveRegs
coreVars   == <<redirect, redirect_pc, idu_ready, fencei_done, fence>>
vars       == <<ifuVars, icacheVars, slaveVars, mem, coreVars, exp_pc, view>>

-----------------------------------------------------------------------------
(* The rest of the core.  IDU stops taking instructions from the fence.i it *)
(* decodes until IFU reports the flush; WBU reports the commit of fence.i   *)
(* in between, when every older store has been written.                     *)

DecodesFencei ==
    /\ fence = "none"
    /\ ifu!ifu_out_fire
    /\ ~out_exception_valid
    /\ fence' = "pending"

CommitsFencei ==
    /\ fence = "pending"
    /\ fencei_done
    /\ fence' = "flushing"

FlushReported ==
    /\ fence = "flushing"
    /\ out_fencei_flush_done
    /\ fence' = "none"

FenceUnchanged ==
    /\ ~(fence = "pending" /\ fencei_done)
    /\ ~(fence = "flushing" /\ out_fencei_flush_done)
    /\ UNCHANGED fence

FenceClock == DecodesFencei \/ CommitsFencei \/ FlushReported \/ FenceUnchanged

\* The wires IFU will see in the next cycle.
InputsClock ==
    /\ idu_ready' \in {b \in BOOLEAN : b => fence' = "none"}
    /\ redirect' \in {b \in BOOLEAN : b => fence' = "none"}
    /\ redirect_pc' \in IF redirect' THEN Targets ELSE {0}
    /\ fencei_done' \in {b \in BOOLEAN : b => fence' = "pending"}

MemClock ==
    \/ UNCHANGED mem
    \/ /\ fence # "flushing" /\ ~fencei_done
       /\ \E s \in Stores : mem' = [mem EXCEPT ![s[1]] = s[2]]

CoreInit ==
    /\ redirect = FALSE
    /\ redirect_pc = 0
    /\ idu_ready = FALSE
    /\ fencei_done = FALSE
    /\ fence = "none"
    /\ mem = Image

-----------------------------------------------------------------------------
(* History: the stream of program counters the decoder is owed, and the    *)
(* values each word has held since the last flush.                          *)

\* ICACHE seen as an InstPort: the refinement mapping.
port_state_bar ==
    CASE state = "IDLE" -> "idle"
      [] state = "RESP" -> "answer"
      [] OTHER -> "busy"

port_addr_bar ==
    IF state \in {"SEND_AR", "WAIT_R"}
    THEN icache!line_base(refill_addr) + req_word_offset * BYTE_NUM
    ELSE 0

port_data_bar == IF state = "RESP" THEN axi_in_rdata ELSE 0

port == INSTANCE InstPort WITH
    arvalid <- ifu!axi_arvalid, araddr <- ifu!axi_araddr,
    rready <- ifu!axi_rready, flush <- out_icache_flush,
    port_state <- port_state_bar, port_addr <- port_addr_bar,
    port_data <- port_data_bar

ExpClock ==
    exp_pc' = IF redirect THEN redirect_pc
              ELSE IF ifu!ifu_out_fire THEN Plus(out_pc, 4)
              ELSE exp_pc

-----------------------------------------------------------------------------
Init ==
    /\ ifu!Init
    /\ icache!Init
    /\ slave!SlaveInit
    /\ CoreInit
    /\ exp_pc = RESET_PC
    /\ port!ViewInit

Next ==
    /\ ifu!Clock
    /\ icache!Clock
    /\ slave!SlaveClock
    /\ FenceClock
    /\ InputsClock
    /\ MemClock
    /\ ExpClock
    /\ port!ViewClock

Spec == Init /\ [][Next]_vars

-----------------------------------------------------------------------------
(* Properties *)

IfuTypeOK ==
    /\ axi_state \in {"AXI_IDLE", "AXI_SEND_AR", "AXI_WAIT_R"}
    /\ outstanding_pc \in WordAddr
    /\ outstanding_stale \in BOOLEAN
    /\ fencei_state \in {"FENCEI_IDLE", "FENCEI_WAIT", "FENCEI_BUSY"}
    /\ out_icache_flush \in BOOLEAN
    /\ out_fencei_flush_done \in BOOLEAN
    /\ ifu_state \in {"IFU_EMPTY", "IFU_VALID"}
    /\ fetch_pc \in Addr
    /\ out_pc \in Addr
    /\ out_inst \in Data
    /\ out_exception_valid \in BOOLEAN
    /\ exception_pending \in BOOLEAN

IcacheTypeOK ==
    /\ state \in {"IDLE", "RESP", "SEND_AR", "WAIT_R"}
    /\ valid_array \in [icache!Lines -> BOOLEAN]
    /\ tag_array \in [icache!Lines -> Nat]
    /\ data_array \in [icache!Lines -> [icache!Words -> Data]]
    /\ refill_addr \in WordAddr
    /\ refill_cnt \in icache!Words
    /\ req_word_offset \in icache!Words
    /\ axi_in_rvalid \in BOOLEAN
    /\ axi_in_rdata \in Data
    /\ axi_out_arvalid \in BOOLEAN
    /\ axi_out_araddr \in WordAddr

SlaveTypeOK ==
    /\ mem \in [WordAddr -> Data]
    /\ s_arready \in BOOLEAN
    /\ s_left \in 0 .. icache!WORDS_PER_LINE
    /\ s_addr \in WordAddr
    /\ s_rvalid \in BOOLEAN
    /\ s_rdata \in Data

CoreTypeOK ==
    /\ redirect \in BOOLEAN
    /\ redirect_pc \in Addr
    /\ idu_ready \in BOOLEAN
    /\ fencei_done \in BOOLEAN
    /\ fence \in {"none", "pending", "flushing"}
    /\ exp_pc \in Addr
    /\ view \in [WordAddr -> SUBSET Data]

\* Every register holds a value of its type; in particular every address that
\* is read, by IFU or in a refill, is a word address.
TypeOK == IfuTypeOK /\ IcacheTypeOK /\ SlaveTypeOK /\ CoreTypeOK

\* The decoder is offered the instructions of the program in order: whatever
\* redirects, refused offers, dropped answers and flushes came before, the
\* program counter offered is the one after the last instruction taken, or the
\* target of a redirect that came after it (IFU: outstanding_stale, fetch_pc).
StreamInOrder == ifu!out_valid => out_pc = exp_pc

\* An instruction offered to the decoder is one that its address held at some
\* time since the last flush, never a word of another address or of before the
\* last fence.i (IFU and ICACHE together).
InstFresh ==
    ifu!out_valid /\ ~out_exception_valid =>
        /\ out_pc \in WordAddr
        /\ out_inst \in view[out_pc]

\* After fence.i commits nothing that was fetched before survives: when the
\* flush is reported, the buffer is empty and no line of the cache is valid.
FlushComplete ==
    out_fencei_flush_done =>
        /\ ifu_state = "IFU_EMPTY"
        /\ axi_state = "AXI_IDLE"
        /\ \A i \in icache!Lines : ~valid_array[i]
        /\ \A a \in WordAddr : view[a] = {mem[a]}

\* ICACHE's always block skips its state machine in a flush cycle, so a read,
\* an answer or a beat in that cycle would be lost: none can be there.
FlushQuiescent ==
    out_icache_flush => state = "IDLE" /\ ~ifu!axi_arvalid /\ s_left = 0

\* Every word of every valid line is a value its address has held since the
\* last flush, except in the entry that a refill is writing (its valid bit and
\* tag stay set from the line it replaces).
CacheCoherent ==
    \A i \in icache!Lines :
        valid_array[i] /\ ~(state = "WAIT_R" /\ icache!index(refill_addr) = i) =>
            \A w \in icache!Words :
                LET base == (tag_array[i] * CACHE_NUM_LINES + i) * CACHE_LINE_BYTES
                IN data_array[i][w] \in view[base + w * BYTE_NUM]

\* A refill ends with the line's last word: the slave's burst and the cache's
\* own counter agree.
BurstMatches ==
    state = "WAIT_R" =>
        /\ s_left > 0
        /\ refill_cnt + s_left = icache!WORDS_PER_LINE
        /\ refill_addr = s_addr

\* ICACHE in front of the memory implements InstPort.
ImplementsInstPort == port!PortSpec

fm_state_bar ==
    CASE state = "SEND_AR" -> "req"
      [] state = "WAIT_R" -> "wait"
      [] OTHER -> "idle"
fm_addr_bar == IF state = "SEND_AR" THEN axi_out_araddr ELSE 0

master == INSTANCE FetchMaster WITH
    FetchLines <- {a \in Addr : a % CACHE_LINE_BYTES = 0},
    arready <- s_arready, rvalid <- s_rvalid, rlast <- (s_left = 1),
    fm_state <- fm_state_bar, fm_addr <- fm_addr_bar

\* Seen from the bus, ICACHE behind IFU is the master that Bus assumes: it
\* asks for whole lines, keeps a request until it is accepted, and takes every
\* beat of a burst, whatever IFU is told meanwhile.
ImplementsFetchMaster == master!MasterSpec

-----------------------------------------------------------------------------
(* Liveness.  The clock runs, and the memory accepts and answers every read: *)
(* weak fairness, written without ENABLED, because a step that changes the   *)
(* state is always possible (idu_ready is free), and one that accepts or     *)
(* answers is possible whenever a read is asked for or owed.                 *)

Fairness ==
    /\ []<><<slave!WantsRead => slave!AcceptsRead>>_vars
    /\ []<><<slave!OwesRead => slave!AnswersRead>>_vars

LiveSpec == Spec /\ Fairness

\* A fence.i that commits is reported to the decoder, so IDU does not wait for
\* ever with fence_pending set.
FenceiCompletes == fence = "flushing" ~> fence = "none"

\* The fetch never runs dry: again and again an instruction is offered, or the
\* program is redirected first, or IFU has reported a misaligned program counter
\* and waits for the redirect.  With StreamInOrder: the instruction owed next is
\* offered.  No dropped answer, refused offer or flush leaves IFU with nothing to
\* fetch.
OfferedAgain == []<>(ifu!out_valid \/ redirect \/ exception_pending)

\* Both together: no dropped answer, refused offer or flush stops the program.
FetchProgress == OfferedAgain /\ FenceiCompletes
=============================================================================
