-------------------------------- MODULE Bus --------------------------------
(***************************************************************************)
(* The memory side of the core in the ARCH_YSYXSOC configuration: LSU and  *)
(* the fetch side's line reads share, through Arbiter and SoCXbar, the SoC *)
(* port and CLINT (ysyx_25120302.v).  EXU, in front of LSU, offers any of a *)
(* set of instructions at any time; WBU, behind it, always takes the result *)
(* (commit_ready is 1).                                                     *)
(***************************************************************************)
EXTENDS Params, Datapath

CONSTANTS
    CLINT_BASE, CLINT_END, TimeLimit, MTIME_LO, MTIME_HI,
    MmioAddr, JointWrites,
    FetchLines,   \* the lines ICACHE asks for
    Ram,          \* the SoC memory's first contents
    Uops          \* the instructions EXU may hand to LSU

ASSUME BusAssumption ==
    /\ CLINT_BASE \in Nat /\ CLINT_END \in Nat /\ CLINT_BASE <= CLINT_END
    /\ TimeLimit \in Nat \ {0} /\ TimeLimit <= WordLimit
    /\ MTIME_LO \in Nat /\ MTIME_HI \in Nat /\ MTIME_LO # MTIME_HI
    /\ JointWrites \in BOOLEAN
    /\ Ram \in [WordAddr -> Word]
    /\ \A a \in FetchLines : a \in WordAddr /\ ~(CLINT_BASE <= a /\ a < CLINT_END)

\* EXU hands on what IDU decodes: a load or a store or neither, with a size
\* that exists, at an address that does not make the access cross a word.
ASSUME UopsAssumption ==
    \A u \in Uops :
        /\ u.is_load \in BOOLEAN /\ u.is_store \in BOOLEAN /\ ~(u.is_load /\ u.is_store)
        /\ u.mem_addr \in Addr /\ u.store_data \in Word /\ u.wb_data \in Word
        /\ u.is_load => u.load_size \in {0, 1, 2, 4, 5} /\ WithinWord(u.load_size, u.mem_addr)
        /\ u.is_store => u.store_size \in {0, 1, 2} /\ WithinWord(u.store_size, u.mem_addr)

VARIABLES
    \* EXU's output register
    exu_valid, exu_uop,
    \* LSU
    lsu_state, lsu_out_valid, lsu_out_uop, lsu_wb_data, mem_addr, load_size,
    lsu_arvalid, lsu_araddr, lsu_awvalid, lsu_awaddr, lsu_wvalid, lsu_wdata, lsu_wstrb,
    \* the fetch side
    fm_state, fm_addr,
    \* Arbiter and SoCXbar
    read_grant, read_owner, write_owner, read_slave,
    \* CLINT
    mtime_lo, mtime_hi, clint_arready, clint_rvalid, clint_rdata,
    \* the SoC
    mem, s_arready, s_left, s_addr, s_rvalid, s_rdata,
    w_awready, w_wready, w_bvalid, w_addr, w_data,
    \* history
    ref_mem,   \* NEMU's memory after the instructions LSU has taken
    taken      \* the instruction LSU took last

-----------------------------------------------------------------------------
axi_lsu_rready == lsu_state = "LSU_WAIT_R"
axi_lsu_bready == lsu_state = "LSU_WAIT_B"
axi_ifu_arvalid == fm_state = "req"
axi_ifu_rready  == fm_state = "wait"
axi_ifu_arlen   == CACHE_LINE_BYTES \div BYTE_NUM - 1

routing == INSTANCE Interconnect WITH
    ifu_arvalid <- axi_ifu_arvalid, ifu_araddr <- fm_addr,
    ifu_arlen <- axi_ifu_arlen, ifu_rready <- axi_ifu_rready,
    lsu_rready <- axi_lsu_rready, lsu_bready <- axi_lsu_bready,
    soc_arready <- s_arready, soc_rvalid <- s_rvalid, soc_rdata <- s_rdata,
    soc_rlast <- (s_left = 1),
    soc_awready <- w_awready, soc_wready <- w_wready, soc_bvalid <- w_bvalid

lsu == INSTANCE LSU WITH
    in_valid <- exu_valid, in_uop <- exu_uop, in_ready <- TRUE,
    axi_arready <- routing!lsu_arready, axi_rvalid <- routing!lsu_rvalid,
    axi_rdata <- routing!lsu_rdata, axi_awready <- routing!lsu_awready,
    axi_wready <- routing!lsu_wready, axi_bvalid <- routing!lsu_bvalid

fetch == INSTANCE FetchMaster WITH
    arready <- routing!ifu_arready, rvalid <- routing!ifu_rvalid,
    rlast <- routing!ifu_rlast

clint == INSTANCE CLINT WITH
    arvalid <- routing!clint_arvalid, araddr <- routing!clint_araddr,
    rready <- routing!clint_rready

\* A slave answers with the word that holds the address.
soc_read == INSTANCE AxiReadSlave WITH
    arvalid <- routing!soc_arvalid, arlen <- routing!soc_arlen,
    araddr <- routing!soc_araddr - (routing!soc_araddr % BYTE_NUM),
    rready <- routing!soc_rready

soc_write == INSTANCE AxiWriteSlave WITH
    awvalid <- routing!soc_awvalid, awaddr <- routing!soc_awaddr,
    wvalid <- routing!soc_wvalid, wdata <- routing!soc_wdata,
    wstrb <- routing!soc_wstrb, bready <- routing!soc_bready

vars == <<exu_valid, exu_uop, lsu!regs, fetch!masterRegs, routing!regs,
          clint!clintRegs, mem, soc_read!slaveRegs, soc_write!writeRegs,
          ref_mem, taken>>

-----------------------------------------------------------------------------
NoUop == [pc |-> 0, inst |-> 0, npc |-> 0, rd |-> 0, rf_we |-> FALSE,
          is_load |-> FALSE, is_store |-> FALSE, is_fencei |-> FALSE, is_ebreak |-> FALSE,
          load_size |-> 0, store_size |-> 0, mem_addr |-> 0, store_data |-> 0, wb_data |-> 0]

\* EXU keeps an instruction until LSU takes it.
ExuClock ==
    \/ /\ exu_valid /\ ~lsu!out_ready
       /\ UNCHANGED <<exu_valid, exu_uop>>
    \/ /\ ~exu_valid \/ lsu!out_ready
       /\ exu_valid' = FALSE /\ exu_uop' = NoUop
    \/ /\ ~exu_valid \/ lsu!out_ready
       /\ exu_valid' = TRUE /\ exu_uop' \in Uops

HistoryClock ==
    \/ /\ lsu!in_fire
       /\ taken' = exu_uop
       /\ ref_mem' = IF exu_uop.is_store
                     THEN host_write(ref_mem, exu_uop.mem_addr,
                                     Length(exu_uop.store_size), exu_uop.store_data)
                     ELSE ref_mem
    \/ /\ ~lsu!in_fire
       /\ UNCHANGED <<taken, ref_mem>>

Init ==
    /\ exu_valid = FALSE /\ exu_uop = NoUop
    /\ lsu!Init
    /\ fetch!MasterInit
    /\ routing!Init
    /\ clint!ClintInit
    /\ mem = Ram
    /\ soc_read!SlaveInit
    /\ soc_write!WriteInit
    /\ ref_mem = Ram /\ taken = NoUop

Next ==
    /\ ExuClock
    /\ lsu!Clock
    /\ fetch!MasterClock
    /\ routing!Clock
    /\ clint!ClintClock
    /\ soc_read!SlaveClock
    /\ soc_write!WriteClock
    /\ HistoryClock

Spec == Init /\ [][Next]_vars

-----------------------------------------------------------------------------
(* Properties *)

\* Every register holds a value of its type.
TypeOK ==
    /\ exu_valid \in BOOLEAN
    /\ lsu_state \in {"LSU_IDLE", "LSU_READ_ADDR", "LSU_WAIT_R",
                      "LSU_WRITE_REQ", "LSU_WAIT_B", "LSU_DONE"}
    /\ lsu_out_valid \in BOOLEAN
    /\ lsu_wb_data \in Word
    /\ <<mem_addr, lsu_araddr, lsu_awaddr>> \in Addr \X Addr \X Addr
    /\ <<lsu_arvalid, lsu_awvalid, lsu_wvalid>> \in BOOLEAN \X BOOLEAN \X BOOLEAN
    /\ lsu_wdata \in Word /\ lsu_wstrb \subseteq Lane
    /\ read_grant \in {"IDLE", "LSU", "IFU"}
    /\ read_owner \in {"IDLE", "LSU", "IFU"}
    /\ write_owner \in {"IDLE", "LSU"}
    /\ read_slave \in {"SLAVE_IDLE", "SLAVE_SOC", "SLAVE_CLINT"}
    /\ mem \in [WordAddr -> Word]
    /\ s_left \in 0 .. axi_ifu_arlen + 1
    /\ s_addr \in WordAddr

\* LSU keeps the memory as NEMU would: whenever it is between accesses, the
\* SoC's memory is what the stores taken so far make of it in program order.
MemoryMatchesRef ==
    lsu_state \in {"LSU_IDLE", "LSU_DONE"} => mem = ref_mem

\* The value LSU hands to WBU for a load from memory is the one NEMU would
\* load, for every size and every byte offset within a word.
LoadMatchesRef ==
    lsu_out_valid /\ taken.is_load /\ taken.mem_addr < CLINT_BASE =>
        lsu_wb_data = ref_load(ref_mem, taken.load_size, taken.mem_addr)

\* Answers find the master that waits for them: a slave that has a read in
\* progress was asked by the owner Arbiter has recorded, SoCXbar listens to
\* that slave alone, and the owner is in the state that takes the answer.
AnswersHaveOwner ==
    /\ s_left > 0 => /\ read_slave = "SLAVE_SOC" /\ ~clint_rvalid
                     /\ \/ read_owner = "LSU" /\ axi_lsu_rready
                        \/ read_owner = "IFU" /\ axi_ifu_rready
    /\ clint_rvalid => /\ read_slave = "SLAVE_CLINT" /\ s_left = 0
                       /\ read_owner = "LSU" /\ axi_lsu_rready
    /\ read_owner = "IDLE" <=> ~axi_lsu_rready /\ ~axi_ifu_rready
    /\ write_owner = "LSU" <=> lsu_state = "LSU_WAIT_B"

\* AXI's rule for masters: a request that was not accepted is still there,
\* unchanged, in the next cycle, whoever else asks for the bus meanwhile.
RequestsStable ==
    [][ /\ routing!soc_arvalid /\ ~s_arready =>
              routing!soc_arvalid' /\ UNCHANGED <<routing!soc_araddr, routing!soc_arlen>>
        /\ routing!soc_awvalid /\ ~w_awready => routing!soc_awvalid' /\ UNCHANGED routing!soc_awaddr
        /\ routing!soc_wvalid /\ ~w_wready =>
              routing!soc_wvalid' /\ UNCHANGED <<routing!soc_wdata, routing!soc_wstrb>>
      ]_vars

\* Behind Arbiter and SoCXbar, with LSU's reads and writes in between, the
\* fetch side still sees a read slave of its own: what FetchPath assumes.
fetch_port == INSTANCE AxiReadSlave WITH
    arvalid <- axi_ifu_arvalid, araddr <- fm_addr, arlen <- axi_ifu_arlen,
    rready <- axi_ifu_rready,
    s_arready <- routing!ifu_arready,
    s_left <- IF read_owner = "IFU" THEN s_left ELSE 0,
    s_addr <- IF read_owner = "IFU" THEN s_addr ELSE 0,
    s_rvalid <- routing!ifu_rvalid,
    s_rdata <- routing!ifu_rdata

FetchSeesSlave == /\ fetch_port!SlaveInit /\ [][fetch_port!SlaveClock]_(fetch_port!slaveRegs)
                  /\ RequestsStable

-----------------------------------------------------------------------------
(* Liveness.  The clock runs and the slave accepts and answers.            *)

\* mtime counts, so that every cycle changes the state: of the slaves is
\* required what weak fairness requires of one that may act in every cycle.
Fairness ==
    /\ []<><<soc_read!WantsRead => soc_read!AcceptsRead>>_vars
    /\ []<><<soc_read!OwesRead => soc_read!AnswersRead>>_vars
    /\ []<><<soc_write!WantsAddr => soc_write!AcceptsAddr>>_vars
    /\ []<><<soc_write!WantsData => soc_write!AcceptsData>>_vars
    /\ []<><<soc_write!OwesWrite => soc_write!AnswersWrite>>_vars

LiveSpec == Spec /\ Fairness

\* That the clock runs, also where it is not implied by the slaves' fairness.
ClockedSpec == LiveSpec /\ WF_vars(Next)

\* Every instruction that enters LSU leaves it.
LsuCompletes == lsu_state # "LSU_IDLE" ~> lsu_out_valid

\* LSU's priority does not starve the fetch side: a line that is asked for
\* arrives.
RefillCompletes == fm_state = "req" ~> fm_state = "idle"

\* The three together: memory and loaded values are those NEMU would have, and
\* no answer is taken by the wrong master or lost.
DataReachesOwner == TypeOK /\ MemoryMatchesRef /\ LoadMatchesRef /\ AnswersHaveOwner

\* Both masters get through: LSU although a write takes two channels, the fetch
\* side although LSU goes first.
BusCompletes == LsuCompletes /\ RefillCompletes
=============================================================================
