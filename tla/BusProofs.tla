------------------------------ MODULE BusProofs ------------------------------
(***************************************************************************)
(* Loads and stores of the core reach the memory as NEMU's would, and every *)
(* answer finds its master, for every set of instructions, every first      *)
(* contents of the memory and every size of word, byte and cache line.      *)
(***************************************************************************)
EXTENDS Bus, DatapathProofs

\* The time a prover may take for a step.
USE SMTT(20), ZenonT(30)

-----------------------------------------------------------------------------
(* The inductive invariant. *)

Types ==
    /\ exu_valid \in BOOLEAN /\ (exu_valid => exu_uop \in Uops)
    /\ lsu_state \in {"LSU_IDLE", "LSU_READ_ADDR", "LSU_WAIT_R",
                      "LSU_WRITE_REQ", "LSU_WAIT_B", "LSU_DONE"}
    /\ lsu_out_valid \in BOOLEAN /\ lsu_wb_data \in Word
    /\ mem_addr \in Addr /\ lsu_araddr \in Addr /\ lsu_awaddr \in Addr
    /\ lsu_arvalid \in BOOLEAN /\ lsu_awvalid \in BOOLEAN /\ lsu_wvalid \in BOOLEAN
    /\ lsu_wdata \in Word /\ lsu_wstrb \subseteq Lane
    /\ fm_state \in {"idle", "req", "wait"} /\ (fm_state = "req" => fm_addr \in FetchLines)
    /\ read_grant \in {"IDLE", "LSU", "IFU"}
    /\ read_owner \in {"IDLE", "LSU", "IFU"}
    /\ write_owner \in {"IDLE", "LSU"}
    /\ read_slave \in {"SLAVE_IDLE", "SLAVE_SOC", "SLAVE_CLINT"}
    /\ mtime_lo \in Word /\ mtime_hi \in Word
    /\ clint_arready \in BOOLEAN /\ clint_rvalid \in BOOLEAN /\ clint_rdata \in Word
    /\ mem \in [WordAddr -> Word] /\ ref_mem \in [WordAddr -> Word]
    /\ s_arready \in BOOLEAN /\ s_left \in 0 .. axi_ifu_arlen + 1 /\ s_addr \in WordAddr
    /\ s_rvalid \in BOOLEAN /\ s_rdata \in Word
    /\ w_awready \in BOOLEAN /\ w_wready \in BOOLEAN /\ w_bvalid \in BOOLEAN

\* LSU holds the requests of the instruction it took last.
LsuInv ==
    /\ lsu_arvalid <=> lsu_state = "LSU_READ_ADDR"
    /\ lsu_awvalid <=> lsu_state = "LSU_WRITE_REQ"
    /\ lsu_wvalid <=> lsu_state = "LSU_WRITE_REQ"
    /\ lsu_out_valid => lsu_state \in {"LSU_IDLE", "LSU_DONE"}
    /\ lsu_state = "LSU_DONE" => lsu_out_valid
    /\ lsu_state = "LSU_IDLE" /\ lsu_out_valid => ~taken.is_load
    /\ lsu_state \in {"LSU_READ_ADDR", "LSU_WAIT_R"} =>
          /\ taken \in Uops /\ taken.is_load
          /\ mem_addr = taken.mem_addr /\ load_size = taken.load_size
    /\ lsu_state = "LSU_READ_ADDR" => lsu_araddr = taken.mem_addr
    /\ lsu_state \in {"LSU_WRITE_REQ", "LSU_WAIT_B"} => taken \in Uops /\ taken.is_store
    /\ lsu_state = "LSU_WRITE_REQ" =>
          /\ lsu_awaddr = taken.mem_addr
          /\ lsu_wdata = store_wdata(taken.store_size, taken.store_data, taken.mem_addr)
          /\ lsu_wstrb = store_wstrb(taken.store_size, taken.mem_addr)

\* The read in progress: who placed it, who answers it.
ReadInv ==
    /\ read_owner = "LSU" <=> lsu_state = "LSU_WAIT_R"
    /\ read_owner = "IFU" <=> fm_state = "wait"
    /\ read_grant # "IDLE" => read_owner = "IDLE"
    /\ read_grant = "LSU" => lsu_state = "LSU_READ_ADDR"
    /\ read_grant = "IFU" => fm_state = "req"
    /\ read_slave = "SLAVE_IDLE" <=> read_owner = "IDLE"
    /\ read_slave = "SLAVE_SOC" <=> s_left > 0
    /\ read_slave = "SLAVE_CLINT" <=> clint_rvalid
    /\ read_slave = "SLAVE_CLINT" => read_owner = "LSU"
    /\ s_left = 0 => ~s_rvalid /\ s_addr = 0 /\ s_rdata = 0
    /\ read_owner = "LSU" /\ s_left > 0 =>
          /\ s_left = 1
          /\ s_addr = WordOf(taken.mem_addr)
          /\ s_rvalid => s_rdata = mem[s_addr]
    /\ read_owner = "LSU" /\ taken.mem_addr < CLINT_BASE => s_left > 0

\* What the store taken last makes of the memory.
Stored == host_write(mem, taken.mem_addr, Length(taken.store_size), taken.store_data)

\* The write in progress, and what it still has to do to the memory.
WriteInv ==
    /\ write_owner = "LSU" <=> lsu_state = "LSU_WAIT_B"
    /\ w_awready <=> w_wready
    /\ lsu_state # "LSU_WAIT_B" => ~w_bvalid /\ w_addr = << >> /\ w_data = << >>
    /\ lsu_state = "LSU_WAIT_B" =>
          /\ w_addr = <<WordOf(taken.mem_addr)>>
          /\ w_data = <<store_wdata(taken.store_size, taken.store_data, taken.mem_addr),
                        store_wstrb(taken.store_size, taken.mem_addr)>>
          /\ ~w_awready
    /\ ref_mem = IF lsu_state = "LSU_WRITE_REQ" \/ (lsu_state = "LSU_WAIT_B" /\ ~w_bvalid)
                 THEN Stored ELSE mem

\* A loaded value waits for WBU.
LoadInv ==
    lsu_out_valid /\ taken.is_load /\ taken.mem_addr < CLINT_BASE =>
        lsu_wb_data = ref_load(ref_mem, taken.load_size, taken.mem_addr)

BusInv == Types /\ LsuInv /\ ReadInv /\ WriteInv /\ LoadInv

-----------------------------------------------------------------------------
(* Constants. *)

LEMMA Arlen == axi_ifu_arlen \in Nat
  BY CacheAssumption DEF axi_ifu_arlen, BYTE_NUM

LEMMA Addresses ==
  /\ Addr \subseteq Nat /\ WordAddr \subseteq Addr /\ 0 \in WordAddr /\ 0 \in Addr
  /\ \A a \in Addr : WordOf(a) \in WordAddr
  /\ \A a \in WordAddr : Plus(a, BYTE_NUM) \in WordAddr /\ LaneOf(a) = 0 /\ WordOf(a) = a
<1>1. AddrLimit \in Nat \ {0} /\ AddrLimit % 4 = 0
  BY AddrAssumption
<1>2. ASSUME NEW a \in WordAddr PROVE Plus(a, BYTE_NUM) \in WordAddr
  <2>1. a \in Nat /\ a < AddrLimit /\ a % 4 = 0
    BY <1>1 DEF WordAddr, Addr, BYTE_NUM
  <2>2. a + 4 <= AddrLimit
    BY <1>1, <2>1
  <2>3. CASE a + 4 < AddrLimit
    <3>1. (a + 4) % AddrLimit = a + 4
      BY <1>1, <2>1, <2>3
    <3> QED BY <1>1, <2>1, <2>3, <3>1 DEF Plus, WordAddr, Addr, BYTE_NUM
  <2>4. CASE a + 4 = AddrLimit
    <3>1. (a + 4) % AddrLimit = 0
      BY <1>1, <2>1, <2>4
    <3> QED BY <1>1, <3>1 DEF Plus, WordAddr, Addr, BYTE_NUM
  <2> QED BY <1>1, <2>1, <2>2, <2>3, <2>4
<1> QED BY <1>1, <1>2 DEF Addr, WordAddr, BYTE_NUM, WordOf, LaneOf

\* LSU and the write slave compute with the words that NEMU computes with.
LEMMA SameWords ==
  /\ \A s, d, a : lsu!load_result(s, d, a) = load_result(s, d, a)
  /\ \A s, d, a : lsu!store_wdata(s, d, a) = store_wdata(s, d, a)
  /\ \A s, a : lsu!store_wstrb(s, a) = store_wstrb(s, a)
  /\ \A o, d, s : soc_write!Strobed(o, d, s) = Strobed(o, d, s)
  /\ \A a, n : soc_read!Plus(a, n) = Plus(a, n)
  /\ soc_read!BYTE_NUM = BYTE_NUM
<1>1. \A i : lsu!Weight(i) = Weight(i) /\ soc_write!Weight(i) = Weight(i)
  BY DEF lsu!Weight, soc_write!Weight, Weight
<1>2. lsu!Lane = Lane /\ soc_write!Lane = Lane
  BY DEF lsu!Lane, soc_write!Lane, Lane
<1>3. \A b : lsu!OfBytes(b) = OfBytes(b) /\ soc_write!OfBytes(b) = OfBytes(b)
  BY <1>1 DEF lsu!OfBytes, soc_write!OfBytes, OfBytes
<1>4. lsu!WordLimit = WordLimit
  BY <1>1 DEF lsu!WordLimit, WordLimit
<1>5. \A x, n : lsu!SignExtend(x, n) = SignExtend(x, n)
  BY <1>1, <1>4 DEF lsu!SignExtend, SignExtend
<1>6. \A s, d, a : lsu!load_result(s, d, a) = load_result(s, d, a)
  BY <1>1, <1>5 DEF lsu!load_result, load_result, lsu!bus_word, bus_word
<1>7. \A s, d, a : lsu!store_wdata(s, d, a) = store_wdata(s, d, a)
  BY <1>1, <1>2, <1>3, <1>4 DEF lsu!store_wdata, store_wdata
<1>8. \A s, a : lsu!store_wstrb(s, a) = store_wstrb(s, a)
  BY <1>2 DEF lsu!store_wstrb, store_wstrb
<1>9. \A o, d, s : soc_write!Strobed(o, d, s) = Strobed(o, d, s)
  <2>1. \A w, i : soc_write!ByteOf(w, i) = ByteOf(w, i)
    BY <1>1 DEF soc_write!ByteOf, ByteOf
  <2>2. ASSUME NEW o, NEW d, NEW s
        PROVE  [i \in Lane |-> soc_write!ByteOf(IF i \in s THEN d ELSE o, i)]
                 = [i \in Lane |-> ByteOf(IF i \in s THEN d ELSE o, i)]
    BY <2>1, Zenon
  <2> QED BY <1>2, <1>3, <2>2 DEF soc_write!Strobed, Strobed
<1> QED BY <1>6, <1>7, <1>8, <1>9 DEF soc_read!Plus, Plus, soc_read!BYTE_NUM, BYTE_NUM

-----------------------------------------------------------------------------
(* What happens in a cycle, in terms of the registers. *)

\* The address of the read that has the grant, and its slave.
Asked   == IF read_grant = "LSU" THEN taken.mem_addr ELSE fm_addr
ToTimer == CLINT_BASE <= Asked /\ Asked < CLINT_END

\* A read is accepted; a beat of the read in progress is taken, or its last.
Accepted == read_grant # "IDLE" /\ (IF ToTimer THEN clint_arready ELSE s_arready)
Beat     == read_owner # "IDLE" /\ (read_slave = "SLAVE_CLINT" \/ s_rvalid)
Last     == Beat /\ (read_owner = "LSU" \/ s_left = 1)

LEMMA AskWires ==
  ASSUME BusInv
  PROVE  /\ routing!arb_arvalid <=> read_grant # "IDLE"
         /\ read_grant # "IDLE" => routing!arb_araddr = Asked
         /\ read_grant # "IDLE" => (routing!to_clint <=> ToTimer)
         /\ routing!arb_ar_fire <=> Accepted
         /\ lsu!ar_fire <=> Accepted /\ read_grant = "LSU"
         /\ routing!ifu_arready /\ fm_state = "req" <=> Accepted /\ read_grant = "IFU"
<1>1. routing!arb_arvalid <=> read_grant # "IDLE"
  BY DEF BusInv, Types, LsuInv, ReadInv, routing!arb_arvalid, axi_ifu_arvalid
<1>2. read_grant # "IDLE" => routing!arb_araddr = Asked
  BY DEF BusInv, Types, LsuInv, ReadInv, routing!arb_araddr, Asked
<1>3. read_grant # "IDLE" => (routing!to_clint <=> ToTimer)
  BY <1>2 DEF routing!to_clint, ToTimer
<1>4. routing!arb_ar_fire <=> Accepted
  BY <1>1, <1>3 DEF routing!arb_ar_fire, routing!arb_arready, Accepted
<1>5. lsu!ar_fire <=> Accepted /\ read_grant = "LSU"
  BY <1>3 DEF BusInv, Types, LsuInv, ReadInv, lsu!ar_fire, routing!lsu_arready, routing!arb_arready, Accepted
<1>6. routing!ifu_arready /\ fm_state = "req" <=> Accepted /\ read_grant = "IFU"
  BY <1>3 DEF BusInv, ReadInv, routing!ifu_arready, routing!arb_arready, Accepted
<1> QED BY <1>1, <1>2, <1>3, <1>4, <1>5, <1>6

LEMMA AnswerWires ==
  ASSUME BusInv
  PROVE  /\ routing!arb_r_fire <=> Beat
         /\ routing!arb_rready <=> read_owner # "IDLE"
         /\ lsu!r_fire <=> Beat /\ read_owner = "LSU"
         /\ routing!ifu_rvalid /\ routing!ifu_rlast <=> Last /\ read_owner = "IFU"
         /\ read_slave = "SLAVE_SOC" => (routing!arb_rlast <=> s_left = 1)
         /\ routing!soc_rready <=> read_slave # "SLAVE_CLINT" /\ read_owner # "IDLE"
         /\ routing!clint_rready <=> read_slave = "SLAVE_CLINT"
<1> USE DEF BusInv, Types, LsuInv, ReadInv
<1>1. routing!arb_rready <=> read_owner # "IDLE"
  BY DEF routing!arb_rready, axi_lsu_rready, axi_ifu_rready
<1>2. routing!arb_rvalid <=> read_slave = "SLAVE_CLINT" \/ s_rvalid
  BY DEF routing!arb_rvalid
<1>3. routing!arb_r_fire <=> Beat
  BY <1>1, <1>2 DEF routing!arb_r_fire, Beat
<1>4. lsu!r_fire <=> Beat /\ read_owner = "LSU"
  BY <1>2 DEF lsu!r_fire, lsu!axi_rready, routing!lsu_rvalid, Beat
<1>5. routing!ifu_rvalid /\ routing!ifu_rlast <=> Last /\ read_owner = "IFU"
  BY <1>2 DEF routing!ifu_rvalid, routing!ifu_rlast, routing!arb_rlast, Last, Beat
<1>6. read_slave = "SLAVE_SOC" => (routing!arb_rlast <=> s_left = 1)
  BY DEF routing!arb_rlast
<1>7. routing!soc_rready <=> read_slave # "SLAVE_CLINT" /\ read_owner # "IDLE"
  BY <1>1 DEF routing!soc_rready
<1>8. routing!clint_rready <=> read_slave = "SLAVE_CLINT"
  BY <1>1 DEF routing!clint_rready
<1> QED BY <1>1, <1>3, <1>4, <1>5, <1>6, <1>7, <1>8

LEMMA WriteWires ==
  ASSUME BusInv
  PROVE  /\ lsu!aw_fire <=> lsu_state = "LSU_WRITE_REQ" /\ w_awready
         /\ lsu!w_fire <=> lsu_state = "LSU_WRITE_REQ" /\ w_awready
         /\ lsu!b_fire <=> w_bvalid
         /\ routing!soc_awvalid <=> lsu_state = "LSU_WRITE_REQ"
         /\ routing!soc_wvalid <=> lsu_state = "LSU_WRITE_REQ"
         /\ lsu_state = "LSU_WRITE_REQ" =>
              /\ routing!soc_awaddr = lsu_awaddr
              /\ routing!soc_wdata = lsu_wdata /\ routing!soc_wstrb = lsu_wstrb
         /\ routing!soc_bready <=> lsu_state = "LSU_WAIT_B"
<1> USE DEF BusInv, Types, LsuInv, WriteInv
<1>1. routing!lsu_writes <=> lsu_state \in {"LSU_WRITE_REQ", "LSU_WAIT_B"}
  BY DEF routing!lsu_writes
<1>2. lsu!aw_fire <=> lsu_state = "LSU_WRITE_REQ" /\ w_awready
  BY <1>1 DEF lsu!aw_fire, routing!lsu_awready
<1>3. lsu!w_fire <=> lsu_state = "LSU_WRITE_REQ" /\ w_awready
  BY <1>1 DEF lsu!w_fire, routing!lsu_wready
<1>4. lsu!b_fire <=> w_bvalid
  BY <1>1 DEF lsu!b_fire, lsu!axi_bready, routing!lsu_bvalid
<1>5. /\ routing!soc_awvalid <=> lsu_state = "LSU_WRITE_REQ"
      /\ routing!soc_wvalid <=> lsu_state = "LSU_WRITE_REQ"
  BY <1>1 DEF routing!soc_awvalid, routing!soc_wvalid
<1>6. lsu_state = "LSU_WRITE_REQ" =>
        /\ routing!soc_awaddr = lsu_awaddr
        /\ routing!soc_wdata = lsu_wdata /\ routing!soc_wstrb = lsu_wstrb
  BY <1>1 DEF routing!soc_awaddr, routing!soc_wdata, routing!soc_wstrb
<1>7. routing!soc_bready <=> lsu_state = "LSU_WAIT_B"
  BY <1>1 DEF routing!soc_bready, axi_lsu_bready
<1> QED BY <1>2, <1>3, <1>4, <1>5, <1>6, <1>7

-----------------------------------------------------------------------------
(* The steps. *)

\* LSU takes the instruction in EXU; it only passes it on.
Takes  == exu_valid /\ lsu_state = "LSU_IDLE" /\ ~lsu_out_valid
Passes == Takes /\ ~exu_uop.is_load /\ ~exu_uop.is_store

\* The state machine of LSU.
LsuMoves ==
  /\ lsu_state = "LSU_IDLE" =>
       lsu_state' = IF Takes /\ exu_uop.is_load THEN "LSU_READ_ADDR"
                    ELSE IF Takes /\ exu_uop.is_store THEN "LSU_WRITE_REQ" ELSE "LSU_IDLE"
  /\ lsu_state = "LSU_READ_ADDR" =>
       lsu_state' = IF Accepted /\ read_grant = "LSU" THEN "LSU_WAIT_R" ELSE "LSU_READ_ADDR"
  /\ lsu_state = "LSU_WAIT_R" => lsu_state' = IF Beat THEN "LSU_DONE" ELSE "LSU_WAIT_R"
  /\ lsu_state = "LSU_WRITE_REQ" =>
       lsu_state' = IF w_awready THEN "LSU_WAIT_B" ELSE "LSU_WRITE_REQ"
  /\ lsu_state = "LSU_WAIT_B" => lsu_state' = IF w_bvalid THEN "LSU_DONE" ELSE "LSU_WAIT_B"
  /\ lsu_state = "LSU_DONE" => lsu_state' = "LSU_IDLE"

\* What LSU remembers of an instruction and hands on.
LsuKeeps ==
  /\ lsu_out_valid' \in BOOLEAN
  /\ lsu_out_valid' <=> lsu_state' = "LSU_DONE" \/ Passes
  /\ Takes => /\ taken' = exu_uop /\ load_size' = exu_uop.load_size
              /\ mem_addr' = exu_uop.mem_addr
  /\ ~Takes => UNCHANGED <<taken, load_size, mem_addr>>
  /\ lsu_wb_data' = IF Passes THEN exu_uop.wb_data
                    ELSE IF lsu_state = "LSU_WAIT_R" /\ Beat
                         THEN load_result(load_size, routing!lsu_rdata, mem_addr)
                         ELSE lsu_wb_data

\* LSU's requests.
LsuAsks ==
  /\ lsu_arvalid' \in BOOLEAN /\ (lsu_arvalid' <=> lsu_state' = "LSU_READ_ADDR")
  /\ lsu_awvalid' \in BOOLEAN /\ (lsu_awvalid' <=> lsu_state' = "LSU_WRITE_REQ")
  /\ lsu_wvalid' \in BOOLEAN /\ (lsu_wvalid' <=> lsu_state' = "LSU_WRITE_REQ")
  /\ lsu_araddr' = IF Takes /\ exu_uop.is_load THEN exu_uop.mem_addr ELSE lsu_araddr
  /\ lsu_awaddr' = IF Takes /\ exu_uop.is_store THEN exu_uop.mem_addr ELSE lsu_awaddr
  /\ Takes /\ exu_uop.is_store =>
       /\ lsu_wdata' = store_wdata(exu_uop.store_size, exu_uop.store_data, exu_uop.mem_addr)
       /\ lsu_wstrb' = store_wstrb(exu_uop.store_size, exu_uop.mem_addr)
  /\ ~(Takes /\ exu_uop.is_store) => UNCHANGED <<lsu_wdata, lsu_wstrb>>

LEMMA LsuSteps ==
  ASSUME BusInv, Next
  PROVE  LsuMoves /\ LsuKeeps /\ LsuAsks
<1>1. /\ lsu!in_fire <=> Takes
      /\ lsu!in_load <=> Takes /\ exu_uop.is_load
      /\ lsu!in_store <=> Takes /\ exu_uop.is_store
      /\ lsu!in_plain <=> Passes
      /\ lsu!out_fire <=> lsu_out_valid
  BY DEF lsu!in_fire, lsu!out_ready, lsu!in_load, lsu!in_store, lsu!in_plain, lsu!out_fire, Takes, Passes
<1>2. /\ exu_valid \in BOOLEAN
      /\ Takes => /\ exu_uop \in Uops /\ exu_uop.is_load \in BOOLEAN /\ exu_uop.is_store \in BOOLEAN
                  /\ ~(exu_uop.is_load /\ exu_uop.is_store)
  BY UopsAssumption DEF BusInv, Types, Takes
<1>3. /\ lsu!ar_fire <=> Accepted /\ read_grant = "LSU"
      /\ lsu!r_fire <=> Beat /\ lsu_state = "LSU_WAIT_R"
      /\ lsu!aw_fire <=> lsu_state = "LSU_WRITE_REQ" /\ w_awready
      /\ lsu!w_fire <=> lsu_state = "LSU_WRITE_REQ" /\ w_awready
      /\ lsu!b_fire <=> lsu_state = "LSU_WAIT_B" /\ w_bvalid
  <2>1. (read_owner = "LSU" <=> lsu_state = "LSU_WAIT_R") /\ (w_bvalid => lsu_state = "LSU_WAIT_B")
    BY DEF BusInv, ReadInv, WriteInv, Types
  <2> QED BY <2>1, AskWires, AnswerWires, WriteWires
<1>4. lsu!Clock /\ HistoryClock
  BY DEF Next
<1>5. LsuMoves
  <2>1. lsu_state' = lsu!next_state
    BY <1>4 DEF lsu!Clock
  <2>2. lsu_state = "LSU_DONE" => lsu!out_fire
    BY <1>1 DEF BusInv, LsuInv
  <2> QED BY <1>1, <1>2, <1>3, <2>1, <2>2 DEF lsu!next_state, LsuMoves
<1>6. LsuKeeps
  <2>1. lsu!OutValid /\ lsu!WbData /\ lsu!Capture
    BY <1>4 DEF lsu!Clock
  <2>2. lsu_out_valid' \in BOOLEAN /\ (lsu_out_valid' <=> lsu!r_fire \/ lsu!b_fire \/ Passes)
    BY <1>1, <2>1 DEF lsu!OutValid, BusInv, Types
  <2>3. lsu_state' = "LSU_DONE" <=> lsu!r_fire \/ lsu!b_fire
    BY <1>3, <1>5 DEF LsuMoves, BusInv, Types
  <2>4. /\ Takes => /\ taken' = exu_uop /\ load_size' = exu_uop.load_size
                    /\ mem_addr' = exu_uop.mem_addr
        /\ ~Takes => UNCHANGED <<taken, load_size, mem_addr>>
    BY <1>1, <1>4, <2>1 DEF lsu!Capture, HistoryClock
  <2>5. lsu_wb_data' = IF Passes THEN exu_uop.wb_data
                       ELSE IF lsu_state = "LSU_WAIT_R" /\ Beat
                            THEN load_result(load_size, routing!lsu_rdata, mem_addr)
                            ELSE lsu_wb_data
    <3>1. lsu!load_result(load_size, routing!lsu_rdata, mem_addr)
            = load_result(load_size, routing!lsu_rdata, mem_addr)
      BY SameWords
    <3> QED BY <1>1, <1>3, <2>1, <3>1 DEF lsu!WbData
  <2> QED BY <2>2, <2>3, <2>4, <2>5 DEF LsuKeeps
<1>7. LsuAsks
  <2>1. lsu!ArChannel /\ lsu!AwChannel /\ lsu!WChannel
    BY <1>4 DEF lsu!Clock
  <2>2. lsu_arvalid' \in BOOLEAN /\ (lsu_arvalid' <=> lsu_state' = "LSU_READ_ADDR")
    BY <1>1, <1>2, <1>3, <1>5, <2>1 DEF lsu!ArChannel, LsuMoves, BusInv, LsuInv, Types, Takes
  <2>3. lsu_awvalid' \in BOOLEAN /\ (lsu_awvalid' <=> lsu_state' = "LSU_WRITE_REQ")
    BY <1>1, <1>2, <1>3, <1>5, <2>1 DEF lsu!AwChannel, LsuMoves, BusInv, LsuInv, Types, Takes
  <2>4. lsu_wvalid' \in BOOLEAN /\ (lsu_wvalid' <=> lsu_state' = "LSU_WRITE_REQ")
    BY <1>1, <1>2, <1>3, <1>5, <2>1 DEF lsu!WChannel, LsuMoves, BusInv, LsuInv, Types, Takes
  <2>5. /\ lsu_araddr' = IF Takes /\ exu_uop.is_load THEN exu_uop.mem_addr ELSE lsu_araddr
        /\ lsu_awaddr' = IF Takes /\ exu_uop.is_store THEN exu_uop.mem_addr ELSE lsu_awaddr
    BY <1>1, <2>1 DEF lsu!ArChannel, lsu!AwChannel
  <2>6. /\ Takes /\ exu_uop.is_store =>
             /\ lsu_wdata' = store_wdata(exu_uop.store_size, exu_uop.store_data, exu_uop.mem_addr)
             /\ lsu_wstrb' = store_wstrb(exu_uop.store_size, exu_uop.mem_addr)
        /\ ~(Takes /\ exu_uop.is_store) => UNCHANGED <<lsu_wdata, lsu_wstrb>>
    BY <1>1, <2>1, SameWords DEF lsu!WChannel
  <2> QED BY <2>2, <2>3, <2>4, <2>5, <2>6 DEF LsuAsks
<1> QED BY <1>5, <1>6, <1>7

\* Arbiter, SoCXbar and the fetch side.
ReadMoves ==
  /\ read_grant' = IF read_grant = "IDLE"
                   THEN IF read_owner # "IDLE" THEN "IDLE"
                        ELSE IF lsu_state = "LSU_READ_ADDR" THEN "LSU"
                        ELSE IF fm_state = "req" THEN "IFU" ELSE "IDLE"
                   ELSE IF Accepted THEN "IDLE" ELSE read_grant
  /\ read_owner' = IF Accepted THEN read_grant ELSE IF Last THEN "IDLE" ELSE read_owner
  /\ read_slave' = IF Accepted THEN IF ToTimer THEN "SLAVE_CLINT" ELSE "SLAVE_SOC"
                   ELSE IF Last THEN "SLAVE_IDLE" ELSE read_slave
  /\ fm_state = "idle" => fm_state' = "idle" \/ (fm_state' = "req" /\ fm_addr' \in FetchLines)
  /\ fm_state = "req" =>
       IF Accepted /\ read_grant = "IFU" THEN fm_state' = "wait" ELSE UNCHANGED <<fm_state, fm_addr>>
  /\ fm_state = "wait" => fm_state' = IF Last /\ read_owner = "IFU" THEN "idle" ELSE "wait"

\* The timer.
TimerMoves ==
  /\ mtime_lo' \in Word /\ mtime_hi' \in Word /\ clint_rdata' \in Word
  /\ clint_arready' \in BOOLEAN /\ clint_rvalid' \in BOOLEAN
  /\ clint_rvalid' <=> (Accepted /\ ToTimer) \/ (read_slave = "SLAVE_CLINT" /\ ~Last)

\* The SoC, reading.
SocReads ==
  /\ s_arready' \in BOOLEAN
  /\ IF Accepted /\ ~ToTimer
     THEN /\ s_left' = (IF read_grant = "IFU" THEN axi_ifu_arlen ELSE 0) + 1
          /\ s_addr' = WordOf(Asked)
          /\ soc_read!Deliver(WordOf(Asked))
     ELSE IF s_left = 0 THEN UNCHANGED <<s_left, s_addr, s_rvalid, s_rdata>>
     ELSE IF ~s_rvalid THEN soc_read!Deliver(s_addr) /\ UNCHANGED <<s_left, s_addr>>
     ELSE IF s_left = 1 THEN s_left' = 0 /\ s_addr' = 0 /\ s_rvalid' = FALSE /\ s_rdata' = 0
     ELSE /\ s_left' = s_left - 1 /\ s_addr' = Plus(s_addr, BYTE_NUM)
          /\ soc_read!Deliver(Plus(s_addr, BYTE_NUM))

LEMMA ReadSteps ==
  ASSUME BusInv, Next
  PROVE  ReadMoves /\ TimerMoves /\ SocReads
<1>1. /\ (Accepted => read_owner = "IDLE" /\ read_grant # "IDLE" /\ ~Beat)
      /\ (Last => Beat) /\ (Beat => read_owner # "IDLE")
  BY DEF BusInv, ReadInv, Accepted, Last, Beat
<1>2. /\ routing!arb_ar_fire <=> Accepted
      /\ routing!arb_r_fire <=> Beat
      /\ read_grant # "IDLE" => (routing!to_clint <=> ToTimer)
  BY AskWires, AnswerWires
<1>3. /\ lsu_arvalid <=> lsu_state = "LSU_READ_ADDR"
      /\ axi_ifu_arvalid <=> fm_state = "req"
  BY DEF BusInv, LsuInv, axi_ifu_arvalid
<1>4. read_slave = "SLAVE_SOC" => (routing!arb_rlast <=> s_left = 1)
  BY AnswerWires
<1>5. read_slave # "SLAVE_SOC" => ~routing!arb_rlast
  BY DEF routing!arb_rlast
<1>6. ReadMoves
  <2>1. routing!ReadGrant /\ routing!ReadOwner /\ routing!ReadSlave
    BY DEF Next, routing!Clock
  <2>2. read_grant' = IF read_grant = "IDLE"
                      THEN IF read_owner # "IDLE" THEN "IDLE"
                           ELSE IF lsu_state = "LSU_READ_ADDR" THEN "LSU"
                           ELSE IF fm_state = "req" THEN "IFU" ELSE "IDLE"
                      ELSE IF Accepted THEN "IDLE" ELSE read_grant
    BY <1>1, <1>2, <1>3, <2>1 DEF routing!ReadGrant
  <2>3. read_owner' = IF Accepted THEN read_grant ELSE IF Last THEN "IDLE" ELSE read_owner
    <3>1. ~Accepted /\ read_owner = "IFU" /\ Beat => (routing!arb_rlast <=> s_left = 1)
      BY <1>4 DEF BusInv, ReadInv, Types
    <3>2. read_owner \in {"IDLE", "LSU", "IFU"}
      BY DEF BusInv, Types
    <3> QED BY <1>1, <1>2, <2>1, <3>1, <3>2 DEF routing!ReadOwner, Last
  <2>4. read_slave' = IF Accepted THEN IF ToTimer THEN "SLAVE_CLINT" ELSE "SLAVE_SOC"
                      ELSE IF Last THEN "SLAVE_IDLE" ELSE read_slave
    <3>1. /\ read_slave \in {"SLAVE_IDLE", "SLAVE_SOC", "SLAVE_CLINT"}
          /\ (read_slave = "SLAVE_IDLE" => ~Beat)
          /\ (read_slave = "SLAVE_CLINT" => read_owner = "LSU")
          /\ (read_slave = "SLAVE_SOC" /\ read_owner = "LSU" => s_left = 1)
      BY <1>1 DEF BusInv, Types, ReadInv
    <3> QED BY <1>1, <1>2, <1>4, <2>1, <3>1 DEF routing!ReadSlave, Last
  <2>5. fetch!MasterClock
    BY DEF Next
  <2>6. /\ routing!ifu_arready /\ fm_state = "req" <=> Accepted /\ read_grant = "IFU"
        /\ routing!ifu_rvalid /\ routing!ifu_rlast <=> Last /\ read_owner = "IFU"
    BY AskWires, AnswerWires
  <2>7. fm_state \in {"idle", "req", "wait"}
    BY DEF BusInv, Types
  <2>8. /\ fm_state = "idle" => fm_state' = "idle" \/ (fm_state' = "req" /\ fm_addr' \in FetchLines)
        /\ fm_state = "req" =>
             IF Accepted /\ read_grant = "IFU" THEN fm_state' = "wait"
             ELSE UNCHANGED <<fm_state, fm_addr>>
        /\ fm_state = "wait" => fm_state' = IF Last /\ read_owner = "IFU" THEN "idle" ELSE "wait"
    BY <2>5, <2>6, <2>7 DEF fetch!MasterClock, fetch!MasterAsk, fetch!MasterAccepted,
         fetch!MasterServed, fetch!MasterWait, fetch!masterRegs
  <2> QED BY <2>2, <2>3, <2>4, <2>8 DEF ReadMoves
<1>7. TimerMoves
  <2>1. clint!Count /\ clint!Answer
    BY DEF Next, clint!ClintClock
  <2>2. TimeLimit \in Nat \ {0} /\ TimeLimit <= WordLimit /\ WordLimit \in Nat \ {0} /\ Word = 0 .. WordLimit - 1
    BY BusAssumption, Weights DEF Word
  <2>3. mtime_lo' \in Word /\ mtime_hi' \in Word
    <3>1. mtime_lo \in Nat /\ mtime_hi \in Nat /\ mtime_hi \in Word
      BY <2>2 DEF BusInv, Types
    <3>2. (mtime_lo + 1) % TimeLimit \in Word /\ (mtime_hi + 1) % TimeLimit \in Word
      BY <2>2, <3>1
    <3> QED BY <2>1, <3>1, <3>2 DEF clint!Count
  <2>4. clint_rdata' \in Word
    BY <2>1 DEF clint!Answer, BusInv, Types
  <2>5. routing!clint_arvalid <=> read_grant # "IDLE" /\ ToTimer
    BY <1>2, AskWires DEF routing!clint_arvalid
  <2>6. routing!clint_rready <=> read_slave = "SLAVE_CLINT"
    BY AnswerWires
  <2>7. /\ clint_arready \in BOOLEAN /\ clint_rvalid \in BOOLEAN
        /\ (clint_rvalid <=> read_slave = "SLAVE_CLINT")
        /\ (read_slave = "SLAVE_CLINT" => Last)
    BY DEF BusInv, Types, ReadInv, Last, Beat
  <2>8. Accepted /\ ToTimer <=> read_grant # "IDLE" /\ ToTimer /\ clint_arready
    BY DEF Accepted
  <2>9. /\ clint_arready' \in BOOLEAN /\ clint_rvalid' \in BOOLEAN
        /\ clint_rvalid' <=> (Accepted /\ ToTimer) \/ (read_slave = "SLAVE_CLINT" /\ ~Last)
    BY <2>1, <2>5, <2>6, <2>7, <2>8 DEF clint!Answer
  <2> QED BY <2>3, <2>4, <2>9 DEF TimerMoves
<1>8. SocReads
  <2>1. soc_read!SlaveClock
    BY DEF Next
  <2>2. /\ s_left \in Nat /\ s_rvalid \in BOOLEAN /\ s_arready \in BOOLEAN
        /\ (s_left > 0 => routing!soc_rready /\ ~Accepted)
    BY <1>1, Arlen, AnswerWires DEF BusInv, Types, ReadInv
  <2>3. routing!soc_arvalid /\ s_arready <=> Accepted /\ ~ToTimer
    BY <1>2, AskWires DEF routing!soc_arvalid, Accepted
  <2>4. Accepted /\ ~ToTimer =>
          /\ routing!soc_araddr - (routing!soc_araddr % BYTE_NUM) = WordOf(Asked)
          /\ routing!soc_arlen = IF read_grant = "IFU" THEN axi_ifu_arlen ELSE 0
    BY <1>1, <1>2, AskWires
       DEF routing!soc_araddr, routing!soc_arlen, routing!arb_arlen, WordOf, LaneOf, BYTE_NUM
  <2>5. /\ soc_read!Plus(s_addr, soc_read!BYTE_NUM) = Plus(s_addr, BYTE_NUM)
    BY SameWords
  <2>6. CASE Accepted /\ ~ToTimer
    <3>1. soc_read!SlaveAccept
      BY <2>1, <2>2, <2>3, <2>6 DEF soc_read!SlaveClock, soc_read!SlaveIdle,
           soc_read!SlaveDelay, soc_read!SlaveHold, soc_read!SlaveBeat, soc_read!SlaveLast
    <3> DEFINE x == routing!soc_araddr - (routing!soc_araddr % BYTE_NUM)
    <3>2. /\ s_arready' = FALSE /\ s_left' = routing!soc_arlen + 1 /\ s_addr' = x
          /\ soc_read!Deliver(x)
      BY <3>1 DEF soc_read!SlaveAccept
    <3>3. x = WordOf(Asked) /\ routing!soc_arlen = IF read_grant = "IFU" THEN axi_ifu_arlen ELSE 0
      BY <2>4, <2>6
    <3> HIDE DEF x
    <3>4. soc_read!Deliver(WordOf(Asked))
      BY <3>2, <3>3
    <3>5. s_left' = (IF read_grant = "IFU" THEN axi_ifu_arlen ELSE 0) + 1
      BY <3>2, <3>3, Zenon
    <3>6. s_addr' = WordOf(Asked) /\ s_arready' \in BOOLEAN
      BY <3>2, <3>3, Zenon
    <3> QED BY <2>6, <3>4, <3>5, <3>6, Zenon DEF SocReads
  <2>7. CASE ~(Accepted /\ ~ToTimer)
    BY <2>1, <2>2, <2>3, <2>5, <2>7 DEF SocReads, soc_read!SlaveClock, soc_read!SlaveIdle, soc_read!SlaveAccept,
         soc_read!SlaveDelay, soc_read!SlaveHold, soc_read!SlaveBeat, soc_read!SlaveLast
  <2> QED BY <2>6, <2>7
<1> QED BY <1>6, <1>7, <1>8

\* The SoC, writing, and NEMU's memory.
SocWrites ==
  /\ w_awready' \in BOOLEAN /\ w_wready' \in BOOLEAN /\ w_bvalid' \in BOOLEAN
  /\ (w_awready' <=> w_wready')
  /\ write_owner' = IF lsu_state = "LSU_WRITE_REQ" /\ w_awready THEN "LSU"
                    ELSE IF w_bvalid THEN "IDLE" ELSE write_owner
  /\ IF lsu_state = "LSU_WAIT_B"
     THEN /\ ~w_awready'
          /\ IF w_bvalid
             THEN w_bvalid' = FALSE /\ w_addr' = << >> /\ w_data' = << >> /\ UNCHANGED mem
             ELSE /\ UNCHANGED <<w_addr, w_data>>
                  /\ \/ UNCHANGED <<w_bvalid, mem>>
                     \/ /\ w_bvalid' = TRUE
                        /\ mem' = [mem EXCEPT ![w_addr[1]] = Strobed(@, w_data[1], w_data[2])]
     ELSE /\ UNCHANGED <<w_bvalid, mem>>
          /\ IF lsu_state = "LSU_WRITE_REQ" /\ w_awready
             THEN /\ w_addr' = <<WordOf(lsu_awaddr)>> /\ w_data' = <<lsu_wdata, lsu_wstrb>>
                  /\ ~w_awready'
             ELSE UNCHANGED <<w_addr, w_data>>

RefWrites ==
  ref_mem' = IF Takes /\ exu_uop.is_store
             THEN host_write(ref_mem, exu_uop.mem_addr, Length(exu_uop.store_size), exu_uop.store_data)
             ELSE ref_mem

LEMMA WriteSteps ==
  ASSUME BusInv, Next, JointWrites
  PROVE  SocWrites /\ RefWrites
<1>0. RefWrites
  BY DEF Next, HistoryClock, RefWrites, lsu!in_fire, lsu!out_ready, Takes
<1> SUFFICES SocWrites
  BY <1>0
<1>1. /\ routing!soc_awvalid <=> lsu_state = "LSU_WRITE_REQ"
      /\ routing!soc_wvalid <=> lsu_state = "LSU_WRITE_REQ"
      /\ lsu_state = "LSU_WRITE_REQ" =>
              /\ routing!soc_awaddr = lsu_awaddr
              /\ routing!soc_wdata = lsu_wdata /\ routing!soc_wstrb = lsu_wstrb
      /\ routing!soc_bready <=> lsu_state = "LSU_WAIT_B"
  BY WriteWires
<1>2. /\ w_awready \in BOOLEAN /\ w_wready \in BOOLEAN /\ w_bvalid \in BOOLEAN
      /\ (w_awready <=> w_wready)
      /\ lsu_state = "LSU_WAIT_B" => w_addr # << >> /\ w_data # << >> /\ ~w_awready
      /\ lsu_state # "LSU_WAIT_B" => w_addr = << >> /\ w_data = << >> /\ ~w_bvalid
  <2>1. /\ w_awready \in BOOLEAN /\ w_wready \in BOOLEAN /\ w_bvalid \in BOOLEAN
        /\ (w_awready <=> w_wready)
        /\ lsu_state # "LSU_WAIT_B" => w_addr = << >> /\ w_data = << >> /\ ~w_bvalid
    BY DEF BusInv, Types, WriteInv
  <2>2. ASSUME lsu_state = "LSU_WAIT_B" PROVE w_addr # << >> /\ w_data # << >> /\ ~w_awready
    <3>1. ASSUME NEW x, NEW y PROVE <<x>> # << >> /\ <<x, y>> # << >>
      OBVIOUS
    <3>2. /\ w_addr = <<WordOf(taken.mem_addr)>> /\ ~w_awready
          /\ w_data = <<store_wdata(taken.store_size, taken.store_data, taken.mem_addr),
                        store_wstrb(taken.store_size, taken.mem_addr)>>
      BY <2>2, Zenon DEF BusInv, WriteInv
    <3> QED BY <3>1, <3>2, Zenon
  <2> QED BY <2>1, <2>2
<1>3. soc_write!WriteClock
  BY DEF Next
<1>4. write_owner' = IF lsu_state = "LSU_WRITE_REQ" /\ w_awready THEN "LSU"
                     ELSE IF w_bvalid THEN "IDLE" ELSE write_owner
  <2>1. routing!WriteOwner
    BY DEF Next, routing!Clock
  <2> QED BY <1>1, <1>2, <2>1 DEF routing!WriteOwner
<1>5. CASE lsu_state = "LSU_WAIT_B"
  <2>1. soc_write!WriteDelay \/ soc_write!WritePerform \/ soc_write!WriteAnswered
    BY <1>1, <1>2, <1>3, <1>5 DEF soc_write!WriteClock, soc_write!WriteCollect, soc_write!WriteHold
  <2>2. CASE soc_write!WriteDelay
    BY <1>2, <1>4, <1>5, <2>2 DEF soc_write!WriteDelay, soc_write!writeRegs, SocWrites
  <2>3. CASE soc_write!WritePerform
    <3>1. mem' = [mem EXCEPT ![w_addr[1]] = Strobed(@, w_data[1], w_data[2])]
      <4>1. mem' = [mem EXCEPT ![w_addr[1]] = soc_write!Strobed(@, w_data[1], w_data[2])]
        BY <2>3 DEF soc_write!WritePerform
      <4>2. soc_write!Strobed(mem[w_addr[1]], w_data[1], w_data[2]) = Strobed(mem[w_addr[1]], w_data[1], w_data[2])
        BY SameWords
      <4> QED BY <4>1, <4>2, Zenon
    <3>2. ~w_bvalid /\ w_bvalid' = TRUE /\ UNCHANGED <<w_awready, w_wready, w_addr, w_data>>
      BY <2>3 DEF soc_write!WritePerform
    <3> QED BY <1>2, <1>4, <1>5, <3>1, <3>2 DEF SocWrites
  <2>4. CASE soc_write!WriteAnswered
    <3>1. /\ w_bvalid /\ w_bvalid' = FALSE /\ w_addr' = << >> /\ w_data' = << >>
          /\ UNCHANGED <<w_awready, w_wready, mem>>
      BY <2>4 DEF soc_write!WriteAnswered
    <3>2. /\ w_awready' \in BOOLEAN /\ w_wready' \in BOOLEAN /\ w_bvalid' \in BOOLEAN
          /\ (w_awready' <=> w_wready') /\ ~w_awready'
      BY <1>2, <1>5, <3>1, Zenon
    <3> QED BY <1>4, <1>5, <3>1, <3>2, Zenon DEF SocWrites
  <2> QED BY <2>1, <2>2, <2>3, <2>4
<1>6. CASE lsu_state # "LSU_WAIT_B"
  <2>1. soc_write!WriteCollect
    BY <1>1, <1>2, <1>3, <1>6 DEF soc_write!WriteClock, soc_write!WriteDelay, soc_write!WritePerform,
         soc_write!WriteHold, soc_write!WriteAnswered
  <2>2. /\ w_awready' \in BOOLEAN /\ w_wready' \in BOOLEAN /\ (w_awready' <=> w_wready')
        /\ UNCHANGED <<w_bvalid, mem>>
        /\ routing!soc_awvalid /\ w_awready => ~w_awready'
    BY <2>1 DEF soc_write!WriteCollect, soc_write!aw_received
  <2>3. CASE lsu_state = "LSU_WRITE_REQ" /\ w_awready
    <3>1. w_addr' = <<WordOf(lsu_awaddr)>> /\ w_data' = <<lsu_wdata, lsu_wstrb>>
      <4>1. /\ w_addr' = <<routing!soc_awaddr - (routing!soc_awaddr % 4)>>
            /\ w_data' = <<routing!soc_wdata, routing!soc_wstrb>>
        BY <1>1, <1>2, <2>1, <2>3 DEF soc_write!WriteCollect
      <4>2. routing!soc_awaddr = lsu_awaddr /\ routing!soc_wdata = lsu_wdata /\ routing!soc_wstrb = lsu_wstrb
        BY <1>1, <2>3
      <4> QED BY <4>1, <4>2, Zenon DEF WordOf, LaneOf
    <3> QED BY <1>1, <1>2, <1>4, <1>6, <2>2, <2>3, <3>1 DEF SocWrites
  <2>4. CASE ~(lsu_state = "LSU_WRITE_REQ" /\ w_awready)
    <3>1. UNCHANGED <<w_addr, w_data>>
      BY <1>1, <1>2, <2>1, <2>4 DEF soc_write!WriteCollect
    <3> QED BY <1>2, <1>4, <1>6, <2>2, <2>4, <3>1 DEF SocWrites
  <2> QED BY <2>3, <2>4
<1> QED BY <1>5, <1>6

-----------------------------------------------------------------------------
(* The steps keep the invariant. *)

\* What LSU may be asked to do.
Fits(u) ==
  /\ u.is_load \in BOOLEAN /\ u.is_store \in BOOLEAN /\ ~(u.is_load /\ u.is_store)
  /\ u.mem_addr \in Addr /\ u.mem_addr \in Nat /\ WordOf(u.mem_addr) \in WordAddr
  /\ u.store_data \in Word /\ u.wb_data \in Word
  /\ u.is_load => u.load_size \in LoadSizes /\ WithinWord(u.load_size, u.mem_addr)
  /\ u.is_store => u.store_size \in StoreSizes /\ WithinWord(u.store_size, u.mem_addr)

LEMMA UopsFit == \A u \in Uops : Fits(u)
<1> TAKE u \in Uops
<1>1. /\ u.is_load \in BOOLEAN /\ u.is_store \in BOOLEAN /\ ~(u.is_load /\ u.is_store)
      /\ u.mem_addr \in Addr /\ u.store_data \in Word /\ u.wb_data \in Word
      /\ u.is_load => u.load_size \in LoadSizes /\ WithinWord(u.load_size, u.mem_addr)
      /\ u.is_store => u.store_size \in StoreSizes /\ WithinWord(u.store_size, u.mem_addr)
  BY UopsAssumption, Zenon DEF LoadSizes, StoreSizes
<1>2. u.mem_addr \in Nat /\ WordOf(u.mem_addr) \in WordAddr
  BY <1>1, Addresses, Zenon
<1> QED BY <1>1, <1>2, Zenon DEF Fits

LEMMA Taken ==
  ASSUME BusInv
  PROVE  /\ Takes => exu_uop \in Uops /\ Fits(exu_uop)
         /\ lsu_state \in {"LSU_READ_ADDR", "LSU_WAIT_R", "LSU_WRITE_REQ", "LSU_WAIT_B"} => Fits(taken)
  BY UopsFit DEF BusInv, Types, LsuInv, Takes

LEMMA Memories ==
  ASSUME BusInv
  PROVE  WordMemory(WordAddr, mem) /\ WordMemory(WordAddr, ref_mem)
<1>1. WordAddr \in SUBSET Nat /\ \A w \in WordAddr : LaneOf(w) = 0
  BY Addresses
<1>2. mem \in [WordAddr -> Word] /\ ref_mem \in [WordAddr -> Word]
  BY DEF BusInv, Types
<1> QED BY <1>1, <1>2 DEF WordMemory

\* A beat that the SoC presents.
LEMMA Delivered ==
  ASSUME BusInv, NEW a \in WordAddr, soc_read!Deliver(a)
  PROVE  s_rvalid' \in BOOLEAN /\ s_rdata' \in Word /\ (s_rvalid' => s_rdata' = mem[a])
<1>1. mem[a] \in Word /\ 0 \in Word
  BY Weights DEF BusInv, Types, Word
<1>2. CASE s_rvalid' = TRUE /\ s_rdata' = mem[a]
  BY <1>1, <1>2
<1>3. CASE s_rvalid' = FALSE /\ s_rdata' = 0
  BY <1>1, <1>3, Zenon
<1> QED BY <1>2, <1>3, Zenon DEF soc_read!Deliver

\* The SoC performs the store as NEMU did.
LEMMA Performed ==
  ASSUME BusInv, lsu_state = "LSU_WAIT_B", ~w_bvalid
  PROVE  [mem EXCEPT ![w_addr[1]] = Strobed(@, w_data[1], w_data[2])] = ref_mem
<1> DEFINE a == taken.mem_addr
           z == taken.store_size
           d == taken.store_data
<1>1. a \in Nat /\ WordOf(a) \in WordAddr /\ z \in StoreSizes /\ d \in Word /\ WithinWord(z, a)
  BY Taken DEF Fits, BusInv, LsuInv
<1>2. WordMemory(WordAddr, mem)
  BY Memories
<1>3. w_addr = <<WordOf(a)>> /\ w_data = <<store_wdata(z, d, a), store_wstrb(z, a)>>
  BY Zenon DEF BusInv, WriteInv
<1>4. ref_mem = host_write(mem, a, Length(z), d)
  BY DEF BusInv, WriteInv, Stored
<1> HIDE DEF a, z, d
<1>5. StoresAlike(mem, z, a, d)
  BY <1>1, <1>2, Stores
<1>6. w_addr[1] = WordOf(a) /\ w_data[1] = store_wdata(z, d, a) /\ w_data[2] = store_wstrb(z, a)
  BY <1>3
<1> QED BY <1>4, <1>5, <1>6, Zenon DEF StoresAlike

\* NEMU's store.
LEMMA RefStored ==
  ASSUME BusInv, Takes, exu_uop.is_store
  PROVE  host_write(ref_mem, exu_uop.mem_addr, Length(exu_uop.store_size), exu_uop.store_data)
           \in [WordAddr -> Word]
<1> DEFINE a == exu_uop.mem_addr
           z == exu_uop.store_size
           d == exu_uop.store_data
<1>1. a \in Nat /\ WordOf(a) \in WordAddr /\ z \in StoreSizes /\ d \in Word /\ WithinWord(z, a)
  BY Taken DEF Fits
<1>2. WordMemory(WordAddr, ref_mem)
  BY Memories
<1> HIDE DEF a, z, d
<1>3. WordMemory(WordAddr, host_write(ref_mem, a, Length(z), d))
  BY <1>1, <1>2, Stores
<1> QED BY <1>3 DEF WordMemory, a, z, d

\* What LSU reads off the bus.
LEMMA Received ==
  ASSUME BusInv, lsu_state = "LSU_WAIT_R", Beat
  PROVE  /\ load_result(load_size, routing!lsu_rdata, mem_addr) \in Word
         /\ taken.mem_addr < CLINT_BASE =>
              load_result(load_size, routing!lsu_rdata, mem_addr)
                = ref_load(ref_mem, taken.load_size, taken.mem_addr)
<1> DEFINE a == taken.mem_addr
           z == taken.load_size
           r == routing!lsu_rdata
<1>1. /\ Fits(taken) /\ taken.is_load /\ mem_addr = a /\ load_size = z
      /\ read_owner = "LSU" /\ mem = ref_mem
  BY Taken DEF BusInv, LsuInv, ReadInv, WriteInv
<1>2. a \in Nat /\ WordOf(a) \in WordAddr /\ z \in LoadSizes /\ WithinWord(z, a)
  BY <1>1 DEF Fits
<1>3. r = IF read_slave = "SLAVE_CLINT" THEN clint_rdata ELSE s_rdata
  BY <1>1 DEF routing!lsu_rdata, routing!arb_rdata, BusInv, ReadInv, Types
<1>4. r \in Word
  BY <1>3 DEF BusInv, Types
<1>5. a < CLINT_BASE => r = mem[WordOf(a)] /\ mem[WordOf(a)] \in Word
  <2> SUFFICES ASSUME a < CLINT_BASE PROVE r = mem[WordOf(a)] /\ mem[WordOf(a)] \in Word
    OBVIOUS
  <2>1. s_left > 0 /\ read_slave = "SLAVE_SOC" /\ s_addr = WordOf(a)
    BY <1>1 DEF BusInv, ReadInv, Types
  <2>2. s_rvalid
    BY <2>1 DEF Beat
  <2>3. s_rdata = mem[s_addr]
    BY <1>1, <2>1, <2>2 DEF BusInv, ReadInv
  <2>4. mem[WordOf(a)] \in Word
    BY <1>2 DEF BusInv, Types
  <2> QED BY <1>3, <2>1, <2>3, <2>4
<1> HIDE DEF a, z, r
<1>6. load_result(z, r, a) \in Word
  BY <1>2, <1>4, LoadIsWord
<1>7. ASSUME a < CLINT_BASE PROVE load_result(z, r, a) = ref_load(mem, z, a)
  <2>1. r = mem[WordOf(a)] /\ mem[WordOf(a)] \in Word
    BY <1>5, <1>7
  <2>2. LoadsAlike(mem, z, a)
    BY <1>2, <2>1, Loads
  <2> QED BY <2>1, <2>2 DEF LoadsAlike
<1> QED BY <1>1, <1>6, <1>7 DEF a, z, r

LEMMA KeepsTypes ==
  ASSUME BusInv, Next, JointWrites
  PROVE  Types'
<1>1. LsuMoves /\ LsuKeeps /\ LsuAsks
  BY LsuSteps
<1>2. ReadMoves /\ TimerMoves /\ SocReads
  BY ReadSteps
<1>3. SocWrites /\ RefWrites
  BY WriteSteps
<1>4. Takes => Fits(exu_uop)
  BY Taken
<1>5. exu_valid' \in BOOLEAN /\ (exu_valid' => exu_uop' \in Uops)
  <2>1. ExuClock
    BY DEF Next
  <2>2. exu_valid \in BOOLEAN /\ (exu_valid => exu_uop \in Uops)
    BY DEF BusInv, Types
  <2> QED BY <2>1, <2>2, Zenon DEF ExuClock
<1>6. /\ lsu_state' \in {"LSU_IDLE", "LSU_READ_ADDR", "LSU_WAIT_R",
                         "LSU_WRITE_REQ", "LSU_WAIT_B", "LSU_DONE"}
      /\ lsu_out_valid' \in BOOLEAN
  BY <1>1 DEF LsuMoves, LsuKeeps, BusInv, Types
<1>7. lsu_wb_data' \in Word
  BY <1>1, <1>4, Received DEF LsuKeeps, Fits, BusInv, Types, Passes
<1>8. mem_addr' \in Addr /\ lsu_araddr' \in Addr /\ lsu_awaddr' \in Addr
  BY <1>1, <1>4 DEF LsuKeeps, LsuAsks, Fits, BusInv, Types
<1>9. lsu_arvalid' \in BOOLEAN /\ lsu_awvalid' \in BOOLEAN /\ lsu_wvalid' \in BOOLEAN
  BY <1>1 DEF LsuAsks
<1>10. lsu_wdata' \in Word /\ lsu_wstrb' \subseteq Lane
  <2>1. CASE Takes /\ exu_uop.is_store
    <3> DEFINE a == exu_uop.mem_addr
               z == exu_uop.store_size
               d == exu_uop.store_data
    <3>1. a \in Nat /\ z \in StoreSizes /\ d \in Word
      BY <1>4, <2>1 DEF Fits
    <3>2. lsu_wdata' = store_wdata(z, d, a) /\ lsu_wstrb' = store_wstrb(z, a)
      BY <1>1, <2>1 DEF LsuAsks
    <3> HIDE DEF a, z, d
    <3> QED BY <3>1, <3>2, StoreIsWord
  <2>2. CASE ~(Takes /\ exu_uop.is_store)
    BY <1>1, <2>2 DEF LsuAsks, BusInv, Types
  <2> QED BY <2>1, <2>2
<1>11. fm_state' \in {"idle", "req", "wait"} /\ (fm_state' = "req" => fm_addr' \in FetchLines)
  BY <1>2 DEF ReadMoves, BusInv, Types
<1>12. /\ read_grant' \in {"IDLE", "LSU", "IFU"}
       /\ read_owner' \in {"IDLE", "LSU", "IFU"}
       /\ read_slave' \in {"SLAVE_IDLE", "SLAVE_SOC", "SLAVE_CLINT"}
  BY <1>2 DEF ReadMoves, BusInv, Types
<1>13. write_owner' \in {"IDLE", "LSU"}
  BY <1>3 DEF SocWrites, BusInv, Types
<1>14. /\ mtime_lo' \in Word /\ mtime_hi' \in Word
       /\ clint_arready' \in BOOLEAN /\ clint_rvalid' \in BOOLEAN /\ clint_rdata' \in Word
  BY <1>2 DEF TimerMoves
<1>15. mem' \in [WordAddr -> Word]
  BY <1>3, Performed DEF SocWrites, BusInv, Types
<1>16. ref_mem' \in [WordAddr -> Word]
  BY <1>3, RefStored DEF RefWrites, BusInv, Types
<1>17. /\ s_arready' \in BOOLEAN /\ s_left' \in 0 .. axi_ifu_arlen + 1 /\ s_addr' \in WordAddr
       /\ s_rvalid' \in BOOLEAN /\ s_rdata' \in Word
  <2>1. /\ s_left \in 0 .. axi_ifu_arlen + 1 /\ s_addr \in WordAddr /\ s_rvalid \in BOOLEAN
        /\ s_rdata \in Word /\ axi_ifu_arlen \in Nat /\ 0 \in WordAddr /\ 0 \in Word
    BY Arlen, Addresses, Weights DEF BusInv, Types, Word
  <2>2. s_arready' \in BOOLEAN
    BY <1>2 DEF SocReads
  <2>3. CASE Accepted /\ ~ToTimer
    <3>1. WordOf(Asked) \in WordAddr
      <4>1. CASE read_grant = "LSU"
        BY <4>1, Taken DEF Asked, Fits, BusInv, ReadInv
      <4>2. CASE read_grant = "IFU"
        <5>1. fm_addr \in WordAddr
          BY <4>2, BusAssumption DEF BusInv, Types, ReadInv
        <5> QED BY <4>2, <5>1, Addresses DEF Asked
      <4> QED BY <2>3, <4>1, <4>2 DEF Accepted, BusInv, Types
    <3>2. /\ s_left' = (IF read_grant = "IFU" THEN axi_ifu_arlen ELSE 0) + 1
          /\ s_addr' = WordOf(Asked) /\ soc_read!Deliver(WordOf(Asked))
      BY <1>2, <2>3, Zenon DEF SocReads
    <3>3. s_rvalid' \in BOOLEAN /\ s_rdata' \in Word
      BY <3>1, <3>2, Delivered
    <3>4. s_left' \in 0 .. axi_ifu_arlen + 1
      BY <2>1, <3>2
    <3> QED BY <2>2, <3>1, <3>2, <3>3, <3>4, Zenon
  <2>4. CASE ~(Accepted /\ ~ToTimer) /\ s_left = 0
    <3>1. UNCHANGED <<s_left, s_addr, s_rvalid, s_rdata>>
      BY <1>2, <2>4 DEF SocReads
    <3> QED BY <2>1, <2>2, <3>1
  <2>5. CASE ~(Accepted /\ ~ToTimer) /\ s_left # 0 /\ ~s_rvalid
    <3>1. soc_read!Deliver(s_addr) /\ UNCHANGED <<s_left, s_addr>>
      BY <1>2, <2>5 DEF SocReads
    <3>2. s_rvalid' \in BOOLEAN /\ s_rdata' \in Word
      BY <2>1, <3>1, Delivered
    <3> QED BY <2>1, <2>2, <3>1, <3>2
  <2>6. CASE ~(Accepted /\ ~ToTimer) /\ s_left = 1 /\ s_rvalid
    <3>1. s_left' = 0 /\ s_addr' = 0 /\ s_rvalid' = FALSE /\ s_rdata' = 0
      BY <1>2, <2>6 DEF SocReads
    <3>2. s_left' \in 0 .. axi_ifu_arlen + 1
      BY <2>1, <3>1
    <3> QED BY <2>1, <2>2, <3>1, <3>2, Zenon
  <2>7. CASE ~(Accepted /\ ~ToTimer) /\ s_left # 0 /\ s_left # 1 /\ s_rvalid
    <3>1. /\ s_left' = s_left - 1 /\ s_addr' = Plus(s_addr, BYTE_NUM)
          /\ soc_read!Deliver(Plus(s_addr, BYTE_NUM))
      BY <1>2, <2>7 DEF SocReads
    <3>2. Plus(s_addr, BYTE_NUM) \in WordAddr
      BY <2>1, Addresses
    <3>3. s_rvalid' \in BOOLEAN /\ s_rdata' \in Word
      BY <3>1, <3>2, Delivered
    <3>4. s_left' \in 0 .. axi_ifu_arlen + 1
      BY <2>1, <2>7, <3>1
    <3> QED BY <2>2, <3>1, <3>2, <3>3, <3>4, Zenon
  <2> QED BY <2>3, <2>4, <2>5, <2>6, <2>7
<1>18. w_awready' \in BOOLEAN /\ w_wready' \in BOOLEAN /\ w_bvalid' \in BOOLEAN
  BY <1>3 DEF SocWrites
<1>19. axi_ifu_arlen' = axi_ifu_arlen
  BY DEF axi_ifu_arlen
<1> QED BY <1>5, <1>6, <1>7, <1>8, <1>9, <1>10, <1>11, <1>12, <1>13, <1>14, <1>15, <1>16, <1>17,
           <1>18, <1>19, Zenon DEF Types

LEMMA KeepsLsu ==
  ASSUME BusInv, Next, JointWrites
  PROVE  LsuInv'
<1>1. LsuMoves /\ LsuKeeps /\ LsuAsks
  BY LsuSteps
<1>2. Takes => exu_uop \in Uops /\ Fits(exu_uop)
  BY Taken
<1>3. lsu_state \in {"LSU_IDLE", "LSU_READ_ADDR", "LSU_WAIT_R", "LSU_WRITE_REQ", "LSU_WAIT_B", "LSU_DONE"}
  BY DEF BusInv, Types
<1>4. /\ Takes => lsu_state = "LSU_IDLE"
      /\ Takes => exu_uop.is_load \in BOOLEAN /\ exu_uop.is_store \in BOOLEAN
                    /\ ~(exu_uop.is_load /\ exu_uop.is_store)
  BY <1>2 DEF Takes, Fits
<1>5. LsuInv
  BY DEF BusInv
<1>6. /\ lsu_arvalid' <=> lsu_state' = "LSU_READ_ADDR"
      /\ lsu_awvalid' <=> lsu_state' = "LSU_WRITE_REQ"
      /\ lsu_wvalid' <=> lsu_state' = "LSU_WRITE_REQ"
  BY <1>1 DEF LsuAsks
<1>7. /\ lsu_out_valid' => lsu_state' \in {"LSU_IDLE", "LSU_DONE"}
      /\ lsu_state' = "LSU_DONE" => lsu_out_valid'
      /\ lsu_state' = "LSU_IDLE" /\ lsu_out_valid' => ~taken'.is_load
  BY <1>1, <1>4 DEF LsuKeeps, LsuMoves, Passes
<1>8. lsu_state' \in {"LSU_READ_ADDR", "LSU_WAIT_R"} =>
         /\ taken' \in Uops /\ taken'.is_load
         /\ mem_addr' = taken'.mem_addr /\ load_size' = taken'.load_size
  BY <1>1, <1>2, <1>3, <1>4, <1>5 DEF LsuKeeps, LsuMoves, LsuInv
<1>9. lsu_state' = "LSU_READ_ADDR" => lsu_araddr' = taken'.mem_addr
  BY <1>1, <1>3, <1>4, <1>5 DEF LsuKeeps, LsuMoves, LsuInv, LsuAsks
<1>10. lsu_state' \in {"LSU_WRITE_REQ", "LSU_WAIT_B"} => taken' \in Uops /\ taken'.is_store
  BY <1>1, <1>2, <1>3, <1>4, <1>5 DEF LsuKeeps, LsuMoves, LsuInv
<1>11. lsu_state' = "LSU_WRITE_REQ" =>
          /\ lsu_awaddr' = taken'.mem_addr
          /\ lsu_wdata' = store_wdata(taken'.store_size, taken'.store_data, taken'.mem_addr)
          /\ lsu_wstrb' = store_wstrb(taken'.store_size, taken'.mem_addr)
  <2>1. CASE Takes /\ exu_uop.is_store
    BY <1>1, <2>1 DEF LsuKeeps, LsuAsks
  <2>2. CASE ~(Takes /\ exu_uop.is_store) /\ lsu_state' = "LSU_WRITE_REQ"
    <3>1. lsu_state = "LSU_WRITE_REQ" /\ ~Takes
      BY <1>1, <1>3, <1>4, <2>2 DEF LsuMoves
    <3>2. UNCHANGED <<lsu_awaddr, lsu_wdata, lsu_wstrb, taken>>
      BY <1>1, <3>1 DEF LsuKeeps, LsuAsks
    <3> QED BY <1>5, <3>1, <3>2, Zenon DEF LsuInv
  <2> QED BY <2>1, <2>2
<1> QED BY <1>6, <1>7, <1>8, <1>9, <1>10, <1>11, Zenon DEF LsuInv

LEMMA KeepsWrite ==
  ASSUME BusInv, Next, JointWrites
  PROVE  WriteInv'
<1>1. LsuMoves /\ LsuKeeps /\ LsuAsks
  BY LsuSteps
<1>2. SocWrites /\ RefWrites
  BY WriteSteps
<1>3. lsu_state \in {"LSU_IDLE", "LSU_READ_ADDR", "LSU_WAIT_R", "LSU_WRITE_REQ", "LSU_WAIT_B", "LSU_DONE"}
  BY DEF BusInv, Types
<1>4. /\ Takes => lsu_state = "LSU_IDLE"
      /\ Takes => exu_uop.is_load \in BOOLEAN /\ exu_uop.is_store \in BOOLEAN
                    /\ ~(exu_uop.is_load /\ exu_uop.is_store)
  BY Taken DEF Takes, Fits
<1>5. WriteInv /\ LsuInv /\ Types
  BY DEF BusInv
<1>6. /\ write_owner' = "LSU" <=> lsu_state' = "LSU_WAIT_B"
      /\ w_awready' <=> w_wready'
  BY <1>1, <1>2, <1>3, <1>4, <1>5 DEF LsuMoves, SocWrites, WriteInv, Types
<1>7. lsu_state' # "LSU_WAIT_B" => ~w_bvalid' /\ w_addr' = << >> /\ w_data' = << >>
  <2>1. CASE lsu_state = "LSU_WAIT_B" /\ w_bvalid
    <3>1. w_bvalid' = FALSE /\ w_addr' = << >> /\ w_data' = << >>
      BY <1>2, <2>1 DEF SocWrites
    <3> QED BY <3>1
  <2>2. CASE lsu_state = "LSU_WAIT_B" /\ ~w_bvalid
    BY <1>1, <2>2 DEF LsuMoves
  <2>3. CASE lsu_state = "LSU_WRITE_REQ" /\ w_awready
    BY <1>1, <2>3 DEF LsuMoves
  <2>4. CASE lsu_state # "LSU_WAIT_B" /\ ~(lsu_state = "LSU_WRITE_REQ" /\ w_awready)
    <3>1. UNCHANGED <<w_bvalid, w_addr, w_data>>
      BY <1>2, <2>4 DEF SocWrites
    <3> QED BY <1>5, <2>4, <3>1 DEF WriteInv
  <2> QED BY <2>1, <2>2, <2>3, <2>4
<1>8. lsu_state' = "LSU_WAIT_B" =>
          /\ w_addr' = <<WordOf(taken'.mem_addr)>>
          /\ w_data' = <<store_wdata(taken'.store_size, taken'.store_data, taken'.mem_addr),
                         store_wstrb(taken'.store_size, taken'.mem_addr)>>
          /\ ~w_awready'
  <2> SUFFICES ASSUME lsu_state' = "LSU_WAIT_B"
               PROVE  /\ w_addr' = <<WordOf(taken'.mem_addr)>>
                      /\ w_data' = <<store_wdata(taken'.store_size, taken'.store_data, taken'.mem_addr),
                                     store_wstrb(taken'.store_size, taken'.mem_addr)>>
                      /\ ~w_awready'
    OBVIOUS
  <2>1. /\ \/ lsu_state = "LSU_WRITE_REQ" /\ w_awready
           \/ lsu_state = "LSU_WAIT_B" /\ ~w_bvalid
        /\ ~Takes
    BY <1>1, <1>3, <1>4 DEF LsuMoves
  <2>2. taken' = taken
    BY <1>1, <2>1 DEF LsuKeeps
  <2>3. CASE lsu_state = "LSU_WRITE_REQ" /\ w_awready
    <3>1. w_addr' = <<WordOf(lsu_awaddr)>> /\ w_data' = <<lsu_wdata, lsu_wstrb>> /\ ~w_awready'
      BY <1>2, <2>3, Zenon DEF SocWrites
    <3>2. /\ lsu_awaddr = taken.mem_addr
          /\ lsu_wdata = store_wdata(taken.store_size, taken.store_data, taken.mem_addr)
          /\ lsu_wstrb = store_wstrb(taken.store_size, taken.mem_addr)
      BY <1>5, <2>3, Zenon DEF LsuInv
    <3> QED BY <2>2, <3>1, <3>2, Zenon
  <2>4. CASE lsu_state = "LSU_WAIT_B" /\ ~w_bvalid
    <3>1. UNCHANGED <<w_addr, w_data>> /\ ~w_awready'
      BY <1>2, <2>4, Zenon DEF SocWrites
    <3>2. /\ w_addr = <<WordOf(taken.mem_addr)>>
          /\ w_data = <<store_wdata(taken.store_size, taken.store_data, taken.mem_addr),
                        store_wstrb(taken.store_size, taken.mem_addr)>>
      BY <1>5, <2>4, Zenon DEF WriteInv
    <3> QED BY <2>2, <3>1, <3>2, Zenon
  <2> QED BY <2>1, <2>3, <2>4
<1> DEFINE Owes == lsu_state = "LSU_WRITE_REQ" \/ (lsu_state = "LSU_WAIT_B" /\ ~w_bvalid)
<1>9. ref_mem' = IF Owes' THEN Stored' ELSE mem'
  <2>1. ref_mem = IF Owes THEN Stored ELSE mem
    BY <1>5 DEF WriteInv
  <2>2. CASE Takes /\ exu_uop.is_store
    <3>1. Owes' /\ ~Owes
      BY <1>1, <1>4, <2>2 DEF LsuMoves
    <3>2. UNCHANGED mem
      BY <1>2, <1>4, <2>2 DEF SocWrites
    <3>3. taken' = exu_uop
      BY <1>1, <2>2 DEF LsuKeeps
    <3>4. Stored' = host_write(mem', taken'.mem_addr, Length(taken'.store_size), taken'.store_data)
      BY DEF Stored
    <3> QED BY <1>2, <2>1, <2>2, <3>1, <3>2, <3>3, <3>4 DEF RefWrites
  <2>3. CASE ~(Takes /\ exu_uop.is_store)
    <3>1. ref_mem' = ref_mem
      BY <1>2, <2>3 DEF RefWrites
    <3>2. CASE ~Owes
      <4>1. ~Owes' /\ UNCHANGED mem
        <5>1. CASE lsu_state = "LSU_WAIT_B" /\ w_bvalid
          BY <1>1, <1>2, <5>1 DEF LsuMoves, SocWrites
        <5>2. CASE lsu_state # "LSU_WAIT_B" /\ lsu_state # "LSU_WRITE_REQ"
          <6>1. lsu_state' # "LSU_WAIT_B" /\ lsu_state' # "LSU_WRITE_REQ"
            BY <1>1, <1>3, <1>4, <2>3, <5>2 DEF LsuMoves
          <6> QED BY <1>2, <5>2, <6>1 DEF SocWrites
        <5> QED BY <3>2, <5>1, <5>2
      <4> QED BY <2>1, <3>1, <3>2, <4>1
    <3>3. CASE Owes
      <4>1. taken' = taken
        BY <1>1, <1>4, <3>3 DEF LsuKeeps
      <4>2. CASE mem' = mem /\ Owes'
        BY <2>1, <3>1, <3>3, <4>1, <4>2 DEF Stored
      <4>3. CASE lsu_state = "LSU_WRITE_REQ"
        <5>1. mem' = mem /\ Owes'
          <6>1. UNCHANGED <<mem, w_bvalid>>
            BY <1>2, <4>3 DEF SocWrites
          <6>2. ~w_bvalid
            BY <1>5, <4>3 DEF WriteInv
          <6>3. lsu_state' \in {"LSU_WRITE_REQ", "LSU_WAIT_B"}
            BY <1>1, <4>3 DEF LsuMoves
          <6> QED BY <6>1, <6>2, <6>3
        <5> QED BY <4>2, <5>1
      <4>4. CASE lsu_state = "LSU_WAIT_B" /\ ~w_bvalid
        <5>1. lsu_state' = "LSU_WAIT_B"
          BY <1>1, <4>4 DEF LsuMoves
        <5>2. CASE UNCHANGED <<w_bvalid, mem>>
          BY <4>2, <4>4, <5>1, <5>2
        <5>3. CASE w_bvalid' = TRUE /\ mem' = [mem EXCEPT ![w_addr[1]] = Strobed(@, w_data[1], w_data[2])]
          <6>1. mem' = ref_mem
            BY <4>4, <5>3, Performed, Zenon
          <6>2. ~Owes'
            BY <5>1, <5>3
          <6> QED BY <3>1, <6>1, <6>2
        <5> QED BY <1>2, <4>4, <5>2, <5>3, Zenon DEF SocWrites
      <4> QED BY <3>3, <4>3, <4>4
    <3> QED BY <3>2, <3>3
  <2> QED BY <2>2, <2>3
<1> QED BY <1>6, <1>7, <1>8, <1>9, Zenon DEF WriteInv

LEMMA KeepsRead ==
  ASSUME BusInv, Next, JointWrites
  PROVE  ReadInv'
<1>1. LsuMoves /\ LsuKeeps
  BY LsuSteps
<1>2. ReadMoves /\ TimerMoves /\ SocReads
  BY ReadSteps
<1>3. Types /\ ReadInv /\ LsuInv
  BY DEF BusInv
<1>4. /\ Takes => lsu_state = "LSU_IDLE"
      /\ Accepted => read_owner = "IDLE" /\ read_grant # "IDLE" /\ ~Beat
      /\ Last => Beat /\ read_owner # "IDLE"
      /\ Beat /\ read_owner = "LSU" => Last
  BY <1>3 DEF Takes, ReadInv, Accepted, Last, Beat
<1>5. /\ lsu_state \in {"LSU_IDLE", "LSU_READ_ADDR", "LSU_WAIT_R", "LSU_WRITE_REQ", "LSU_WAIT_B", "LSU_DONE"}
      /\ fm_state \in {"idle", "req", "wait"}
      /\ read_grant \in {"IDLE", "LSU", "IFU"} /\ read_owner \in {"IDLE", "LSU", "IFU"}
      /\ read_slave \in {"SLAVE_IDLE", "SLAVE_SOC", "SLAVE_CLINT"}
      /\ s_rvalid \in BOOLEAN
  BY <1>3 DEF Types
<1>6. /\ read_owner = "LSU" <=> lsu_state = "LSU_WAIT_R"
      /\ read_owner = "IFU" <=> fm_state = "wait"
      /\ read_grant # "IDLE" => read_owner = "IDLE"
      /\ read_grant = "LSU" => lsu_state = "LSU_READ_ADDR"
      /\ read_grant = "IFU" => fm_state = "req"
      /\ read_slave = "SLAVE_IDLE" <=> read_owner = "IDLE"
      /\ read_slave = "SLAVE_SOC" <=> s_left > 0
      /\ read_slave = "SLAVE_CLINT" <=> clint_rvalid
      /\ read_slave = "SLAVE_CLINT" => read_owner = "LSU"
  BY <1>3 DEF ReadInv
<1>7. s_left \in Nat /\ axi_ifu_arlen \in Nat
  BY <1>3, Arlen DEF Types
<1>8. /\ read_owner' = "LSU" <=> lsu_state' = "LSU_WAIT_R"
      /\ read_owner' = "IFU" <=> fm_state' = "wait"
  <2>1. read_owner' = IF Accepted THEN read_grant ELSE IF Last THEN "IDLE" ELSE read_owner
    BY <1>2 DEF ReadMoves
  <2>2. lsu_state' = "LSU_WAIT_R" <=> \/ lsu_state = "LSU_READ_ADDR" /\ Accepted /\ read_grant = "LSU"
                                      \/ lsu_state = "LSU_WAIT_R" /\ ~Beat
    BY <1>1, <1>5 DEF LsuMoves
  <2>3. fm_state' = "wait" <=> \/ fm_state = "req" /\ Accepted /\ read_grant = "IFU"
                               \/ fm_state = "wait" /\ ~(Last /\ read_owner = "IFU")
    BY <1>2, <1>5 DEF ReadMoves
  <2> QED BY <1>4, <1>5, <1>6, <2>1, <2>2, <2>3
<1>9. /\ read_grant' # "IDLE" => read_owner' = "IDLE"
      /\ read_grant' = "LSU" => lsu_state' = "LSU_READ_ADDR"
      /\ read_grant' = "IFU" => fm_state' = "req"
  BY <1>1, <1>2, <1>4, <1>5, <1>6 DEF ReadMoves, LsuMoves
<1>10. /\ read_slave' = "SLAVE_IDLE" <=> read_owner' = "IDLE"
       /\ read_slave' = "SLAVE_CLINT" <=> clint_rvalid'
  BY <1>2, <1>4, <1>5, <1>6 DEF ReadMoves, TimerMoves
<1>11. read_slave' = "SLAVE_CLINT" => read_owner' = "LSU"
  <2>1. read_grant = "IFU" => ~ToTimer
    BY <1>3, <1>6, BusAssumption DEF Types, ToTimer, Asked
  <2> QED BY <1>2, <1>4, <1>5, <1>6, <2>1 DEF ReadMoves
<1>12. read_slave' = "SLAVE_SOC" <=> s_left' > 0
  <2>1. CASE Accepted /\ ~ToTimer
    <3>1. s_left' = (IF read_grant = "IFU" THEN axi_ifu_arlen ELSE 0) + 1
      BY <1>2, <2>1, Zenon DEF SocReads
    <3>2. s_left' > 0
      BY <1>7, <3>1
    <3> QED BY <1>2, <2>1, <3>2 DEF ReadMoves
  <2>2. CASE Accepted /\ ToTimer
    <3>1. s_left = 0 /\ s_left' = s_left
      BY <1>2, <1>4, <1>6, <1>7, <2>2 DEF SocReads
    <3> QED BY <1>2, <2>2, <3>1 DEF ReadMoves
  <2>3. CASE ~Accepted /\ s_left = 0
    <3>1. s_left' = s_left
      BY <1>2, <2>3 DEF SocReads
    <3> QED BY <1>2, <1>6, <2>3, <3>1 DEF ReadMoves
  <2>4. CASE ~Accepted /\ s_left # 0
    <3>1. read_slave = "SLAVE_SOC" /\ read_owner # "IDLE"
      BY <1>6, <1>7, <2>4
    <3>2. Beat <=> s_rvalid
      BY <3>1 DEF Beat
    <3>3. Last <=> s_rvalid /\ s_left = 1
      BY <1>3, <2>4, <1>7, <3>2 DEF Last, ReadInv
    <3>4. CASE ~s_rvalid
      <4>1. s_left' = s_left
        BY <1>2, <2>4, <3>4 DEF SocReads
      <4> QED BY <1>2, <1>6, <2>4, <3>3, <3>4, <4>1 DEF ReadMoves
    <3>5. CASE s_rvalid /\ s_left = 1
      <4>1. s_left' = 0
        BY <1>2, <2>4, <3>5 DEF SocReads
      <4> QED BY <1>2, <2>4, <3>3, <3>5, <4>1 DEF ReadMoves
    <3>6. CASE s_rvalid /\ s_left # 1
      <4>1. s_left' = s_left - 1
        BY <1>2, <2>4, <3>6 DEF SocReads
      <4>2. s_left' > 0
        BY <1>7, <2>4, <3>6, <4>1
      <4> QED BY <1>2, <2>4, <3>1, <3>3, <3>6, <4>2 DEF ReadMoves
    <3> QED BY <3>4, <3>5, <3>6
  <2> QED BY <2>1, <2>2, <2>3, <2>4
<1>13. s_left' = 0 => ~s_rvalid' /\ s_addr' = 0 /\ s_rdata' = 0
  <2>1. CASE Accepted /\ ~ToTimer
    <3>1. s_left' = (IF read_grant = "IFU" THEN axi_ifu_arlen ELSE 0) + 1
      BY <1>2, <2>1, Zenon DEF SocReads
    <3> QED BY <1>7, <3>1
  <2>2. CASE ~(Accepted /\ ~ToTimer) /\ s_left = 0
    <3>1. UNCHANGED <<s_left, s_addr, s_rvalid, s_rdata>>
      BY <1>2, <2>2 DEF SocReads
    <3> QED BY <1>3, <2>2, <3>1 DEF ReadInv
  <2>3. CASE ~(Accepted /\ ~ToTimer) /\ s_left # 0 /\ ~s_rvalid
    BY <1>2, <2>3 DEF SocReads
  <2>4. CASE ~(Accepted /\ ~ToTimer) /\ s_left = 1 /\ s_rvalid
    <3>1. s_left' = 0 /\ s_addr' = 0 /\ s_rvalid' = FALSE /\ s_rdata' = 0
      BY <1>2, <2>4 DEF SocReads
    <3> QED BY <3>1, Zenon
  <2>5. CASE ~(Accepted /\ ~ToTimer) /\ s_left # 0 /\ s_left # 1 /\ s_rvalid
    <3>1. s_left' = s_left - 1
      BY <1>2, <2>5 DEF SocReads
    <3> QED BY <1>7, <2>5, <3>1
  <2> QED BY <2>1, <2>2, <2>3, <2>4, <2>5
<1>14. read_owner' = "LSU" => /\ ~Takes /\ taken' = taken /\ mem' = mem /\ Fits(taken)
                              /\ \/ Accepted /\ read_grant = "LSU"
                                 \/ ~Accepted /\ read_owner = "LSU" /\ ~Last
  <2> SUFFICES ASSUME read_owner' = "LSU"
               PROVE  /\ ~Takes /\ taken' = taken /\ mem' = mem /\ Fits(taken)
                      /\ \/ Accepted /\ read_grant = "LSU"
                         \/ ~Accepted /\ read_owner = "LSU" /\ ~Last
    OBVIOUS
  <2>1. \/ Accepted /\ read_grant = "LSU"
        \/ ~Accepted /\ read_owner = "LSU" /\ ~Last
    BY <1>2 DEF ReadMoves
  <2>2. lsu_state \in {"LSU_READ_ADDR", "LSU_WAIT_R"}
    BY <1>6, <2>1
  <2>3. ~Takes /\ mem' = mem /\ Fits(taken)
    <3>1. SocWrites
      BY WriteSteps
    <3> QED BY <1>4, <2>2, <3>1, Taken DEF SocWrites
  <2>4. taken' = taken
    BY <1>1, <2>3 DEF LsuKeeps
  <2> QED BY <2>1, <2>3, <2>4
<1>15. read_owner' = "LSU" /\ s_left' > 0 =>
          /\ s_left' = 1
          /\ s_addr' = WordOf(taken'.mem_addr)
          /\ s_rvalid' => s_rdata' = mem'[s_addr']
  <2> SUFFICES ASSUME read_owner' = "LSU", s_left' > 0
               PROVE  /\ s_left' = 1
                      /\ s_addr' = WordOf(taken.mem_addr)
                      /\ s_rvalid' => s_rdata' = mem[s_addr']
    BY <1>14
  <2>1. CASE Accepted /\ read_grant = "LSU" /\ ~ToTimer
    <3>1. Asked = taken.mem_addr /\ WordOf(Asked) \in WordAddr
      BY <1>14, <2>1 DEF Asked, Fits
    <3>2. s_left' = 0 + 1 /\ s_addr' = WordOf(Asked) /\ soc_read!Deliver(WordOf(Asked))
      BY <1>2, <2>1, Zenon DEF SocReads
    <3>3. s_rvalid' => s_rdata' = mem[WordOf(Asked)]
      BY <3>1, <3>2, Delivered
    <3> QED BY <3>1, <3>2, <3>3
  <2>2. CASE Accepted /\ ToTimer
    <3>1. s_left = 0 /\ s_left' = s_left
      BY <1>2, <1>4, <1>6, <1>7, <2>2 DEF SocReads
    <3> QED BY <3>1
  <2>3. CASE ~Accepted /\ read_owner = "LSU" /\ ~Last
    <3>1. CASE s_left = 0
      <4>1. s_left' = s_left
        BY <1>2, <2>3, <3>1 DEF SocReads
      <4> QED BY <3>1, <4>1
    <3>2. CASE s_left # 0
      <4>1. read_slave = "SLAVE_SOC" /\ s_left = 1 /\ s_addr = WordOf(taken.mem_addr) /\ ~s_rvalid
        BY <1>3, <1>6, <1>7, <2>3, <3>2 DEF ReadInv, Last, Beat
      <4>2. soc_read!Deliver(s_addr) /\ UNCHANGED <<s_left, s_addr>>
        BY <1>2, <2>3, <4>1 DEF SocReads
      <4>3. s_rvalid' => s_rdata' = mem[s_addr]
        BY <1>3, <4>2, Delivered DEF Types
      <4> QED BY <4>1, <4>2, <4>3
    <3> QED BY <3>1, <3>2
  <2> QED BY <1>14, <2>1, <2>2, <2>3
<1>16. read_owner' = "LSU" /\ taken'.mem_addr < CLINT_BASE => s_left' > 0
  <2> SUFFICES ASSUME read_owner' = "LSU", taken.mem_addr < CLINT_BASE PROVE s_left' > 0
    BY <1>14
  <2>1. CASE Accepted /\ read_grant = "LSU"
    <3>1. ~ToTimer
      <4>1. Asked = taken.mem_addr
        BY <2>1 DEF Asked
      <4>2. taken.mem_addr \in Nat
        BY <1>14 DEF Fits
      <4>3. CLINT_BASE \in Nat
        BY BusAssumption
      <4> QED BY <4>1, <4>2, <4>3 DEF ToTimer
    <3> QED BY <1>2, <1>12, <2>1, <3>1 DEF ReadMoves
  <2>2. CASE ~Accepted /\ read_owner = "LSU" /\ ~Last
    <3>1. read_slave = "SLAVE_SOC"
      BY <1>3, <1>6, <2>2 DEF ReadInv
    <3> QED BY <1>2, <1>12, <2>2, <3>1 DEF ReadMoves
  <2> QED BY <1>14, <2>1, <2>2
<1> QED BY <1>8, <1>9, <1>10, <1>11, <1>12, <1>13, <1>15, <1>16, Zenon DEF ReadInv

LEMMA KeepsLoad ==
  ASSUME BusInv, Next, JointWrites
  PROVE  LoadInv'
<1> SUFFICES ASSUME lsu_out_valid', taken'.is_load, taken'.mem_addr < CLINT_BASE
             PROVE  lsu_wb_data' = ref_load(ref_mem', taken'.load_size, taken'.mem_addr)
  BY DEF LoadInv
<1>1. LsuMoves /\ LsuKeeps /\ RefWrites
  BY LsuSteps, WriteSteps
<1>2. lsu_state \in {"LSU_IDLE", "LSU_READ_ADDR", "LSU_WAIT_R", "LSU_WRITE_REQ", "LSU_WAIT_B", "LSU_DONE"}
  BY DEF BusInv, Types
<1>3. ~Passes
  BY <1>1 DEF LsuKeeps, Passes
<1>4. \/ lsu_state = "LSU_WAIT_R" /\ Beat
      \/ lsu_state = "LSU_WAIT_B"
  BY <1>1, <1>2, <1>3 DEF LsuMoves, LsuKeeps
<1>5. taken' = taken /\ ref_mem' = ref_mem
  <2>1. ~Takes
    BY <1>4 DEF Takes
  <2> QED BY <1>1, <2>1 DEF LsuKeeps, RefWrites
<1>6. lsu_state # "LSU_WAIT_B"
  BY <1>5, Taken DEF Fits, BusInv, LsuInv
<1>7. lsu_wb_data' = load_result(load_size, routing!lsu_rdata, mem_addr)
  BY <1>1, <1>3, <1>4, <1>6 DEF LsuKeeps
<1> QED BY <1>4, <1>5, <1>6, <1>7, Received

LEMMA BusInit == Init => BusInv
<1> SUFFICES ASSUME Init PROVE BusInv
  OBVIOUS
<1>1. /\ exu_valid = FALSE /\ lsu_state = "LSU_IDLE" /\ lsu_out_valid = FALSE /\ lsu_wb_data = 0
      /\ mem_addr = 0 /\ lsu_arvalid = FALSE /\ lsu_araddr = 0 /\ lsu_awvalid = FALSE /\ lsu_awaddr = 0
      /\ lsu_wvalid = FALSE /\ lsu_wdata = 0 /\ lsu_wstrb = {}
  BY DEF Init, lsu!Init
<1>2. /\ fm_state = "idle" /\ read_grant = "IDLE" /\ read_owner = "IDLE" /\ write_owner = "IDLE"
      /\ read_slave = "SLAVE_IDLE" /\ mtime_lo = 0 /\ mtime_hi = 0 /\ clint_arready = FALSE
      /\ clint_rvalid = FALSE /\ clint_rdata = 0
  BY DEF Init, fetch!MasterInit, routing!Init, clint!ClintInit
<1>3. /\ mem = Ram /\ ref_mem = Ram
      /\ s_arready = FALSE /\ s_left = 0 /\ s_addr = 0 /\ s_rvalid = FALSE /\ s_rdata = 0
      /\ w_awready = FALSE /\ w_wready = FALSE /\ w_bvalid = FALSE /\ w_addr = << >> /\ w_data = << >>
  BY DEF Init, soc_read!SlaveInit, soc_write!WriteInit
<1>4. 0 \in Word /\ 0 \in Addr /\ 0 \in WordAddr /\ 0 \in 0 .. axi_ifu_arlen + 1 /\ Ram \in [WordAddr -> Word]
  BY Weights, Addresses, Arlen, BusAssumption DEF Word
<1>5. Types
  <2>1. FALSE \in BOOLEAN /\ {} \subseteq Lane
    OBVIOUS
  <2> QED BY <1>1, <1>2, <1>3, <1>4, <2>1, Zenon DEF Types
<1>6. LsuInv
  BY <1>1 DEF LsuInv
<1>7. ReadInv
  BY <1>1, <1>2, <1>3 DEF ReadInv
<1>8. WriteInv
  BY <1>1, <1>2, <1>3 DEF WriteInv
<1>9. LoadInv
  BY <1>1 DEF LoadInv
<1> QED BY <1>5, <1>6, <1>7, <1>8, <1>9 DEF BusInv

LEMMA BusStep ==
  ASSUME BusInv, JointWrites, [Next]_vars
  PROVE  BusInv'
<1>1. CASE Next
  BY <1>1, KeepsTypes, KeepsLsu, KeepsRead, KeepsWrite, KeepsLoad DEF BusInv
<1>2. CASE UNCHANGED vars
  <2>1. /\ UNCHANGED <<exu_valid, exu_uop, mem, ref_mem, taken>>
        /\ UNCHANGED <<lsu_state, lsu_out_valid, lsu_wb_data, mem_addr, load_size,
                       lsu_arvalid, lsu_araddr, lsu_awvalid, lsu_awaddr, lsu_wvalid, lsu_wdata, lsu_wstrb>>
        /\ UNCHANGED <<fm_state, fm_addr, read_grant, read_owner, write_owner, read_slave>>
        /\ UNCHANGED <<mtime_lo, mtime_hi, clint_arready, clint_rvalid, clint_rdata>>
        /\ UNCHANGED <<s_arready, s_left, s_addr, s_rvalid, s_rdata>>
        /\ UNCHANGED <<w_awready, w_wready, w_bvalid, w_addr, w_data>>
    BY <1>2 DEF vars, lsu!regs, fetch!masterRegs, routing!regs, clint!clintRegs,
         soc_read!slaveRegs, soc_write!writeRegs
  <2>2. Types' /\ LsuInv'
    <3>1. Types'
      <4>1. /\ axi_ifu_arlen' = axi_ifu_arlen
            /\ (exu_valid => exu_uop \in Uops)' <=> (exu_valid => exu_uop \in Uops)
            /\ (fm_state = "req" => fm_addr \in FetchLines)' <=> (fm_state = "req" => fm_addr \in FetchLines)
        BY <2>1 DEF axi_ifu_arlen
      <4>2. Types
        BY DEF BusInv
      <4>3. /\ exu_valid' \in BOOLEAN /\ (exu_valid' => exu_uop' \in Uops)
            /\ lsu_state' \in {"LSU_IDLE", "LSU_READ_ADDR", "LSU_WAIT_R",
                            "LSU_WRITE_REQ", "LSU_WAIT_B", "LSU_DONE"}
        BY <2>1, <4>1, <4>2 DEF Types
      <4>4. /\ lsu_out_valid' \in BOOLEAN /\ lsu_wb_data' \in Word
            /\ mem_addr' \in Addr /\ lsu_araddr' \in Addr /\ lsu_awaddr' \in Addr
            /\ lsu_arvalid' \in BOOLEAN /\ lsu_awvalid' \in BOOLEAN /\ lsu_wvalid' \in BOOLEAN
            /\ lsu_wdata' \in Word /\ lsu_wstrb' \subseteq Lane
        BY <2>1, <4>1, <4>2 DEF Types
      <4>5. /\ fm_state' \in {"idle", "req", "wait"} /\ (fm_state' = "req" => fm_addr' \in FetchLines)
            /\ read_grant' \in {"IDLE", "LSU", "IFU"}
            /\ read_owner' \in {"IDLE", "LSU", "IFU"}
            /\ write_owner' \in {"IDLE", "LSU"}
            /\ read_slave' \in {"SLAVE_IDLE", "SLAVE_SOC", "SLAVE_CLINT"}
            /\ mtime_lo' \in Word /\ mtime_hi' \in Word
        BY <2>1, <4>1, <4>2 DEF Types
      <4>6. /\ clint_arready' \in BOOLEAN /\ clint_rvalid' \in BOOLEAN /\ clint_rdata' \in Word
            /\ mem' \in [WordAddr -> Word] /\ ref_mem' \in [WordAddr -> Word]
        BY <2>1, <4>1, <4>2 DEF Types
      <4>7. /\ s_arready' \in BOOLEAN /\ s_left' \in 0 .. axi_ifu_arlen' + 1 /\ s_addr' \in WordAddr
            /\ s_rvalid' \in BOOLEAN /\ s_rdata' \in Word
            /\ w_awready' \in BOOLEAN /\ w_wready' \in BOOLEAN /\ w_bvalid' \in BOOLEAN
        BY <2>1, <4>1, <4>2 DEF Types
      <4> QED BY <4>3, <4>4, <4>5, <4>6, <4>7, Zenon DEF Types
    <3>2. LsuInv'
      BY <2>1 DEF BusInv, LsuInv
    <3> QED BY <3>1, <3>2
  <2>3. ReadInv' /\ LoadInv'
    BY <2>1, Zenon DEF BusInv, ReadInv, LoadInv
  <2>4. WriteInv'
    <3>1. Stored' = Stored
      BY <2>1, Zenon DEF Stored
    <3> QED BY <2>1, <3>1, Zenon DEF BusInv, WriteInv
  <2> QED BY <2>2, <2>3, <2>4 DEF BusInv
<1> QED BY <1>1, <1>2

LEMMA BusInvariant == ASSUME JointWrites PROVE Spec => []BusInv
<1>1. BusInv /\ [Next]_vars => BusInv'
  BY BusStep
<1> QED BY <1>1, BusInit, PTL DEF Spec

\* With slaves that accept address and data of a write together, LSU keeps the
\* memory as NEMU would, loads what NEMU would load, and no answer of a slave
\* is lost or reaches the wrong master.
THEOREM MemoryIsNemus == JointWrites => (Spec => []DataReachesOwner)
<1> SUFFICES ASSUME JointWrites PROVE Spec => []DataReachesOwner
  OBVIOUS
<1>1. BusInv => DataReachesOwner
  <2> SUFFICES ASSUME BusInv PROVE DataReachesOwner
    OBVIOUS
  <2>1. TypeOK
    <3>1. <<mem_addr, lsu_araddr, lsu_awaddr>> \in Addr \X Addr \X Addr
      BY DEF BusInv, Types
    <3>2. <<lsu_arvalid, lsu_awvalid, lsu_wvalid>> \in BOOLEAN \X BOOLEAN \X BOOLEAN
      BY DEF BusInv, Types
    <3> QED BY <3>1, <3>2, Zenon DEF BusInv, Types, TypeOK
  <2>2. MemoryMatchesRef
    BY DEF BusInv, WriteInv, MemoryMatchesRef
  <2>3. LoadMatchesRef
    BY DEF BusInv, LoadInv, LoadMatchesRef
  <2>4. AnswersHaveOwner
    <3>1. /\ s_left \in Nat /\ read_owner \in {"IDLE", "LSU", "IFU"}
          /\ read_slave \in {"SLAVE_IDLE", "SLAVE_SOC", "SLAVE_CLINT"}
      BY Arlen DEF BusInv, Types
    <3>2. ReadInv
      BY DEF BusInv
    <3>3. write_owner = "LSU" <=> lsu_state = "LSU_WAIT_B"
      BY DEF BusInv, WriteInv
    <3> QED BY <3>1, <3>2, <3>3 DEF ReadInv, AnswersHaveOwner, axi_lsu_rready, axi_ifu_rready
  <2> QED BY <2>1, <2>2, <2>3, <2>4 DEF DataReachesOwner
<1> QED BY <1>1, BusInvariant, PTL

-----------------------------------------------------------------------------
(* The fetch side has a slave of its own. *)

\* The wires at the SoC's and at the fetch side's end of the routing.
PortWires ==
  /\ routing!soc_arvalid <=> read_grant # "IDLE" /\ ~ToTimer
  /\ read_grant # "IDLE" /\ ~ToTimer =>
       /\ routing!soc_araddr = Asked
       /\ routing!soc_arlen = IF read_grant = "IFU" THEN axi_ifu_arlen ELSE 0
  /\ routing!soc_awvalid <=> lsu_state = "LSU_WRITE_REQ"
  /\ routing!soc_wvalid <=> lsu_state = "LSU_WRITE_REQ"
  /\ lsu_state = "LSU_WRITE_REQ" =>
       /\ routing!soc_awaddr = lsu_awaddr
       /\ routing!soc_wdata = lsu_wdata /\ routing!soc_wstrb = lsu_wstrb
  /\ routing!ifu_rvalid = (read_owner = "IFU" /\ s_rvalid)
  /\ routing!ifu_rdata = IF read_owner = "IFU" THEN s_rdata ELSE 0
  /\ routing!ifu_arready \in BOOLEAN
  /\ routing!ifu_arready => read_grant = "IFU"
  /\ routing!ifu_arready /\ fm_state = "req" <=> Accepted /\ read_grant = "IFU"

LEMMA Wired == BusInv => PortWires
<1> SUFFICES ASSUME BusInv PROVE PortWires
  OBVIOUS
<1>1. /\ routing!arb_arvalid <=> read_grant # "IDLE"
      /\ read_grant # "IDLE" => routing!arb_araddr = Asked /\ (routing!to_clint <=> ToTimer)
      /\ routing!ifu_arready /\ fm_state = "req" <=> Accepted /\ read_grant = "IFU"
  BY AskWires
<1>2. routing!soc_arvalid <=> read_grant # "IDLE" /\ ~ToTimer
  BY <1>1 DEF routing!soc_arvalid
<1>3. read_grant # "IDLE" /\ ~ToTimer =>
        /\ routing!soc_araddr = Asked
        /\ routing!soc_arlen = IF read_grant = "IFU" THEN axi_ifu_arlen ELSE 0
  BY <1>1, Zenon DEF routing!soc_araddr, routing!soc_arlen, routing!arb_arlen
<1>4. read_owner = "IFU" => read_slave = "SLAVE_SOC"
  BY DEF BusInv, ReadInv, Types
<1>5. routing!ifu_rvalid = (read_owner = "IFU" /\ s_rvalid)
  BY <1>4 DEF routing!ifu_rvalid, routing!arb_rvalid
<1>6. routing!ifu_rdata = IF read_owner = "IFU" THEN s_rdata ELSE 0
  BY <1>4 DEF routing!ifu_rdata, routing!arb_rdata
<1>7. routing!ifu_arready \in BOOLEAN /\ (routing!ifu_arready => read_grant = "IFU")
  BY DEF routing!ifu_arready
<1> QED BY <1>1, <1>2, <1>3, <1>5, <1>6, <1>7, WriteWires, Zenon DEF PortWires

\* AXI's rule for requests, in a step.
Stable ==
  /\ routing!soc_arvalid /\ ~s_arready =>
        routing!soc_arvalid' /\ UNCHANGED <<routing!soc_araddr, routing!soc_arlen>>
  /\ routing!soc_awvalid /\ ~w_awready => routing!soc_awvalid' /\ UNCHANGED routing!soc_awaddr
  /\ routing!soc_wvalid /\ ~w_wready =>
        routing!soc_wvalid' /\ UNCHANGED <<routing!soc_wdata, routing!soc_wstrb>>

LEMMA RequestsHeld ==
  ASSUME BusInv, Next, PortWires, PortWires'
  PROVE  Stable
<1>1. LsuMoves /\ LsuKeeps /\ LsuAsks /\ ReadMoves
  BY LsuSteps, ReadSteps
<1>2. Takes => lsu_state = "LSU_IDLE"
  BY DEF Takes
<1>3. ASSUME routing!soc_arvalid, ~s_arready
      PROVE  routing!soc_arvalid' /\ UNCHANGED <<routing!soc_araddr, routing!soc_arlen>>
  <2>1. read_grant # "IDLE" /\ ~ToTimer /\ ~Accepted
    BY <1>3 DEF PortWires, Accepted
  <2>2. read_grant' = read_grant
    BY <1>1, <2>1 DEF ReadMoves
  <2>3. Asked' = Asked
    <3>1. CASE read_grant = "LSU"
      <4>1. ~Takes
        BY <1>2, <3>1 DEF BusInv, ReadInv
      <4>2. taken' = taken
        BY <1>1, <4>1 DEF LsuKeeps
      <4> QED BY <2>2, <3>1, <4>2 DEF Asked
    <3>2. CASE read_grant # "LSU"
      <4>1. fm_state = "req"
        BY <2>1, <3>2 DEF BusInv, ReadInv, Types
      <4>2. fm_addr' = fm_addr
        BY <1>1, <2>1, <4>1 DEF ReadMoves
      <4> QED BY <2>2, <3>2, <4>2 DEF Asked
    <3> QED BY <3>1, <3>2
  <2>4. ~ToTimer'
    BY <2>1, <2>3 DEF ToTimer
  <2>5. axi_ifu_arlen' = axi_ifu_arlen
    BY DEF axi_ifu_arlen
  <2> QED BY <2>1, <2>2, <2>3, <2>4, <2>5, Zenon DEF PortWires
<1>4. ASSUME lsu_state = "LSU_WRITE_REQ", ~w_awready
      PROVE  lsu_state' = "LSU_WRITE_REQ" /\ UNCHANGED <<lsu_awaddr, lsu_wdata, lsu_wstrb>>
  <2>1. ~Takes
    BY <1>2, <1>4
  <2> QED BY <1>1, <1>4, <2>1 DEF LsuMoves, LsuAsks
<1>5. w_awready <=> w_wready
  BY DEF BusInv, WriteInv
<1>6. routing!soc_awvalid /\ ~w_awready => routing!soc_awvalid' /\ UNCHANGED routing!soc_awaddr
  BY <1>4, Zenon DEF PortWires
<1>7. routing!soc_wvalid /\ ~w_wready =>
        routing!soc_wvalid' /\ UNCHANGED <<routing!soc_wdata, routing!soc_wstrb>>
  BY <1>4, <1>5, Zenon DEF PortWires
<1> QED BY <1>3, <1>6, <1>7, Zenon DEF Stable


LEMMA PortStep ==
  ASSUME BusInv, Next, PortWires, PortWires'
  PROVE  fetch_port!SlaveClock
<1>1. ReadMoves /\ SocReads
  BY ReadSteps
<1>2. s_left \in Nat /\ axi_ifu_arlen \in Nat /\ s_rvalid \in BOOLEAN
  BY Arlen DEF BusInv, Types
<1>3. /\ Accepted => read_owner = "IDLE" /\ read_grant # "IDLE"
      /\ read_owner = "IFU" => read_grant = "IDLE" /\ s_left > 0 /\ read_slave = "SLAVE_SOC" /\ fm_state = "wait"
      /\ read_owner \in {"IDLE", "LSU", "IFU"}
  BY DEF Accepted, BusInv, ReadInv, Types
<1>4. fetch_port!Plus(s_addr, fetch_port!BYTE_NUM) = Plus(s_addr, BYTE_NUM)
  BY DEF fetch_port!Plus, fetch_port!BYTE_NUM, Plus, BYTE_NUM
<1>5. ASSUME read_owner' = "IFU", NEW a, soc_read!Deliver(a) PROVE fetch_port!Deliver(a)
  <2>1. routing!ifu_rvalid' = s_rvalid' /\ routing!ifu_rdata' = s_rdata'
    <3>1. routing!ifu_rvalid' = (read_owner' = "IFU" /\ s_rvalid')
      BY DEF PortWires
    <3>2. s_rvalid' \in BOOLEAN
      BY <1>5, Zenon DEF soc_read!Deliver
    <3> QED BY <1>5, <3>1, <3>2 DEF PortWires
  <2> QED BY <1>5, <2>1, Zenon DEF soc_read!Deliver, fetch_port!Deliver
<1>6. CASE Accepted /\ read_grant = "IFU"
  <2>1. fm_state = "req" /\ fm_addr \in WordAddr /\ ~ToTimer
    BY <1>6, BusAssumption DEF BusInv, ReadInv, Types, ToTimer, Asked
  <2>2. WordOf(Asked) = fm_addr
    BY <1>6, <2>1, Addresses DEF Asked
  <2>3. /\ s_left' = axi_ifu_arlen + 1 /\ s_addr' = fm_addr /\ soc_read!Deliver(fm_addr)
    BY <1>1, <1>6, <2>1, <2>2, Zenon DEF SocReads
  <2>4. read_owner = "IDLE" /\ read_owner' = "IFU" /\ read_grant' = "IDLE"
    BY <1>1, <1>3, <1>6 DEF ReadMoves
  <2>5. routing!ifu_arready /\ axi_ifu_arvalid /\ routing!ifu_arready' = FALSE
    BY <1>6, <2>1, <2>4 DEF PortWires, axi_ifu_arvalid
  <2>6. fetch_port!Deliver(fm_addr)
    BY <1>5, <2>3, <2>4
  <2>7. fetch_port!SlaveAccept
    BY <2>3, <2>4, <2>5, <2>6, Zenon DEF fetch_port!SlaveAccept
  <2> QED BY <2>7 DEF fetch_port!SlaveClock
<1>7. CASE read_owner = "IFU"
  <2>1. read_grant' = "IDLE" /\ ~Accepted
    BY <1>1, <1>3, <1>7 DEF ReadMoves
  <2>2. routing!ifu_arready = FALSE /\ routing!ifu_arready' = FALSE
    BY <1>3, <1>7, <2>1 DEF PortWires
  <2>3. routing!ifu_rvalid = s_rvalid
    BY <1>2, <1>7 DEF PortWires
  <2>4. axi_ifu_rready
    BY <1>3, <1>7 DEF axi_ifu_rready
  <2>5. Last <=> s_rvalid /\ s_left = 1
    BY <1>3, <1>7 DEF Last, Beat
  <2> DEFINE left == IF read_owner = "IFU" THEN s_left ELSE 0
             addr == IF read_owner = "IFU" THEN s_addr ELSE 0
  <2>left. left = s_left /\ addr = s_addr /\ s_left # 0 /\ ~(Accepted /\ ~ToTimer)
    BY <1>2, <1>3, <1>7, <2>1
  <2>next. ASSUME read_owner' = "IFU" PROVE left' = s_left' /\ addr' = s_addr'
    BY <2>next
  <2>6. CASE ~s_rvalid
    <3>1. soc_read!Deliver(s_addr) /\ UNCHANGED <<s_left, s_addr>>
      BY <1>1, <2>left, <2>6 DEF SocReads
    <3>2. read_owner' = "IFU"
      BY <1>1, <1>7, <2>1, <2>5, <2>6 DEF ReadMoves
    <3>3. fetch_port!Deliver(s_addr)
      BY <1>5, <3>1, <3>2
    <3>4. left > 0 /\ ~routing!ifu_rvalid /\ fetch_port!Deliver(addr)
      <4>1. s_left > 0
        BY <1>3, <1>7
      <4> QED BY <2>3, <2>6, <2>left, <3>3, <4>1, Zenon
    <3>5. left' = left /\ addr' = addr /\ routing!ifu_arready' = routing!ifu_arready
      BY <2>2, <2>left, <2>next, <3>1, <3>2, Zenon
    <3>6. fetch_port!SlaveDelay
      BY <3>4, <3>5, Zenon DEF fetch_port!SlaveDelay
    <3> QED BY <3>6 DEF fetch_port!SlaveClock
  <2>7. CASE s_rvalid /\ s_left = 1
    <3>1. read_owner' = "IDLE"
      BY <1>1, <2>1, <2>5, <2>7 DEF ReadMoves
    <3>2. routing!ifu_rvalid' = FALSE /\ routing!ifu_rdata' = 0
      <4>1. routing!ifu_rvalid' = FALSE
        BY <3>1 DEF routing!ifu_rvalid
      <4>2. routing!ifu_rdata' = 0
        BY <3>1 DEF routing!ifu_rdata
      <4> QED BY <4>1, <4>2
    <3>3. left' = 0 /\ addr' = 0
      BY <3>1
    <3>4. left = 1 /\ routing!ifu_rvalid
      BY <2>3, <2>7, <2>left, Zenon
    <3>5. fetch_port!SlaveLast
      BY <2>2, <2>4, <3>2, <3>3, <3>4, Zenon DEF fetch_port!SlaveLast
    <3> QED BY <3>5 DEF fetch_port!SlaveClock
  <2>8. CASE s_rvalid /\ s_left # 1
    <3>1. /\ s_left' = s_left - 1 /\ s_addr' = Plus(s_addr, BYTE_NUM)
          /\ soc_read!Deliver(Plus(s_addr, BYTE_NUM))
      BY <1>1, <2>left, <2>8 DEF SocReads
    <3>2. read_owner' = "IFU"
      BY <1>1, <1>7, <2>1, <2>5, <2>8 DEF ReadMoves
    <3>3. fetch_port!Deliver(Plus(s_addr, BYTE_NUM))
      BY <1>5, <3>1, <3>2
    <3>4. s_left > 1
      BY <1>2, <1>3, <1>7, <2>8
    <3>5. left > 1 /\ routing!ifu_rvalid /\ left' = left - 1
      BY <2>3, <2>8, <2>left, <2>next, <3>1, <3>2, <3>4, Zenon
    <3>6. fetch_port!Plus(addr, fetch_port!BYTE_NUM) = Plus(s_addr, BYTE_NUM)
      BY <1>4, <2>left, Zenon
    <3>7. addr' = Plus(s_addr, BYTE_NUM)
      BY <2>next, <3>1, <3>2, Zenon
    <3>8. fetch_port!SlaveBeat
      BY <2>2, <2>4, <3>3, <3>5, <3>6, <3>7, Zenon DEF fetch_port!SlaveBeat
    <3> QED BY <3>8 DEF fetch_port!SlaveClock
  <2> QED BY <2>6, <2>7, <2>8
<1>8. CASE read_owner # "IFU" /\ ~(Accepted /\ read_grant = "IFU")
  <2>1. read_owner' # "IFU"
    BY <1>1, <1>8 DEF ReadMoves
  <2>2. ~(axi_ifu_arvalid /\ routing!ifu_arready) /\ routing!ifu_arready' \in BOOLEAN
    BY <1>8 DEF PortWires, axi_ifu_arvalid
  <2>3. UNCHANGED <<routing!ifu_rvalid, routing!ifu_rdata>>
    BY <1>8, <2>1 DEF PortWires
  <2>4. fetch_port!SlaveIdle
    BY <1>8, <2>1, <2>2, <2>3 DEF fetch_port!SlaveIdle
  <2> QED BY <2>4 DEF fetch_port!SlaveClock
<1> QED BY <1>6, <1>7, <1>8

\* With such slaves, Arbiter and SoCXbar hide LSU's accesses from the fetch
\* side, which sees a read slave of its own, and keep every request of the
\* core up and unchanged until it is accepted.
THEOREM FetchHasSlave == JointWrites => (Spec => FetchSeesSlave)
<1> SUFFICES ASSUME JointWrites PROVE Spec => FetchSeesSlave
  OBVIOUS
<1>1. Init => fetch_port!SlaveInit
  <2> SUFFICES ASSUME Init PROVE fetch_port!SlaveInit
    OBVIOUS
  <2>1. read_owner = "IDLE" /\ read_grant = "IDLE"
    BY DEF Init, routing!Init
  <2>2. routing!ifu_arready = FALSE /\ routing!ifu_rvalid = FALSE /\ routing!ifu_rdata = 0
    BY <2>1 DEF routing!ifu_arready, routing!ifu_rvalid, routing!ifu_rdata
  <2> QED BY <2>1, <2>2 DEF fetch_port!SlaveInit
<1>2. BusInv => PortWires
  BY Wired
<1>3. BusInv /\ PortWires /\ PortWires' /\ [Next]_vars =>
        [fetch_port!SlaveClock]_(fetch_port!slaveRegs) /\ [Stable]_vars
  <2> SUFFICES ASSUME BusInv, PortWires, PortWires', [Next]_vars
               PROVE  [fetch_port!SlaveClock]_(fetch_port!slaveRegs) /\ [Stable]_vars
    OBVIOUS
  <2>1. CASE Next
    BY <2>1, PortStep, RequestsHeld
  <2>2. CASE UNCHANGED vars
    <3>1. UNCHANGED <<read_owner, read_grant, read_slave, s_left, s_addr, s_arready, s_rvalid, s_rdata,
                      clint_arready, clint_rvalid, clint_rdata, fm_addr, lsu_araddr>>
      BY <2>2 DEF vars, lsu!regs, fetch!masterRegs, routing!regs, clint!clintRegs, soc_read!slaveRegs
    <3>2. UNCHANGED <<routing!ifu_arready, routing!ifu_rvalid, routing!ifu_rdata>>
      BY <3>1, Zenon DEF routing!ifu_arready, routing!ifu_rvalid, routing!ifu_rdata, routing!arb_arready,
           routing!to_clint, routing!arb_araddr, routing!arb_rvalid, routing!arb_rdata
    <3>3. UNCHANGED fetch_port!slaveRegs
      BY <3>1, <3>2, Zenon DEF fetch_port!slaveRegs
    <3> QED BY <2>2, <3>3
  <2> QED BY <2>1, <2>2
<1>4. [][Stable]_vars => RequestsStable
  <2>1. [Stable]_vars <=> [ /\ routing!soc_arvalid /\ ~s_arready =>
                                  routing!soc_arvalid' /\ UNCHANGED <<routing!soc_araddr, routing!soc_arlen>>
                            /\ routing!soc_awvalid /\ ~w_awready => routing!soc_awvalid' /\ UNCHANGED routing!soc_awaddr
                            /\ routing!soc_wvalid /\ ~w_wready =>
                                  routing!soc_wvalid' /\ UNCHANGED <<routing!soc_wdata, routing!soc_wstrb>>
                          ]_vars
    BY DEF Stable
  <2> QED BY <2>1, PTL DEF RequestsStable
<1> QED BY <1>1, <1>2, <1>3, <1>4, BusInvariant, PTL DEF Spec, FetchSeesSlave
=============================================================================
