---------------------------- MODULE CacheProofs ----------------------------
(***************************************************************************)
(* The fetch path for every cache geometry, address width, memory image and *)
(* program.  First the stream of addresses (StreamInv); then what the       *)
(* decoder is given: the handshakes between IFU, ICACHE and the memory      *)
(* (ProtocolInv), the words under way and in the arrays (DataInv), and from *)
(* them that instructions are fresh, that a flush is complete and that the  *)
(* cache implements InstPort.                                               *)
(***************************************************************************)
EXTENDS FetchPath, TLAPS

\* The time a prover may take for a step.
USE SMTT(20), ZenonT(30)

-----------------------------------------------------------------------------
(* Address arithmetic *)

LEMMA DivMod ==
    ASSUME NEW a \in Nat, NEW n \in Nat \ {0}
    PROVE  /\ a \div n \in Nat
           /\ a % n \in 0 .. n - 1
           /\ a = (a \div n) * n + (a % n)
BY Z3

LEMMA DivModUnique ==
    ASSUME NEW n \in Nat \ {0}, NEW q \in Nat, NEW r \in 0 .. n - 1
    PROVE  /\ (q * n + r) \div n = q
           /\ (q * n + r) % n = r
BY Z3

LEMMA MultipleOfFour ==
    ASSUME NEW k \in Nat, NEW m \in Nat, k % 4 = 0
    PROVE  (k * m) % 4 = 0
<1>1. PICK j \in Nat : k = 4 * j
  BY DivMod
<1>2. k * m = 4 * (j * m)
  BY <1>1, Z3
<1> QED BY <1>1, <1>2, Z3

\* A line holds a whole number of words.
LEMMA LineSize ==
    /\ icache!WORDS_PER_LINE \in Nat \ {0}
    /\ CACHE_LINE_BYTES = 4 * icache!WORDS_PER_LINE
BY CacheAssumption DEF icache!WORDS_PER_LINE, icache!BYTE_NUM

\* The next word of the address space, around its end.
LEMMA PlusWord ==
    ASSUME NEW a \in WordAddr
    PROVE  Plus(a, 4) \in WordAddr
<1>1. a + 4 <= AddrLimit
  BY AddrAssumption DEF WordAddr, Addr, BYTE_NUM
<1>2. CASE a + 4 < AddrLimit
  BY <1>2, AddrAssumption DEF WordAddr, Addr, BYTE_NUM, Plus
<1>3. CASE a + 4 = AddrLimit
  BY <1>3, AddrAssumption DEF WordAddr, Addr, BYTE_NUM, Plus
<1> QED BY <1>1, <1>2, <1>3, AddrAssumption DEF WordAddr, Addr

LEMMA PlusAddr ==
    ASSUME NEW a \in Addr
    PROVE  Plus(a, 4) \in Addr
BY AddrAssumption DEF Addr, Plus

\* The fields of an address.
LEMMA Fields ==
    ASSUME NEW a \in WordAddr
    PROVE  /\ icache!line(a) \in Nat
           /\ icache!index(a) \in icache!Lines
           /\ icache!tag(a) \in Nat
           /\ icache!word_offset(a) \in icache!Words
           /\ icache!line_base(a) \in WordAddr
           /\ icache!line(a) = icache!tag(a) * CACHE_NUM_LINES + icache!index(a)
           /\ a = icache!line_base(a) + 4 * icache!word_offset(a)
<1>0. a \in Nat /\ a % 4 = 0 /\ a < AddrLimit
  BY AddrAssumption DEF WordAddr, Addr, BYTE_NUM
<1> DEFINE L == CACHE_LINE_BYTES
           W == icache!WORDS_PER_LINE
           N == CACHE_NUM_LINES
           q == a \div L
           r == a % L
<1>1. L \in Nat \ {0} /\ N \in Nat \ {0} /\ W \in Nat \ {0} /\ L = 4 * W
  BY CacheAssumption, LineSize
<1>2. q \in Nat /\ r \in 0 .. L - 1 /\ a = q * L + r
  BY <1>0, <1>1, DivMod, Zenon
<1>3. q \div N \in Nat /\ q % N \in 0 .. N - 1 /\ q = (q \div N) * N + (q % N)
  BY <1>1, <1>2, DivMod, Zenon
<1>4. q * L = 4 * (q * W) /\ q * W \in Nat
  BY <1>1, <1>2, Z3
<1>5. r % 4 = 0
  BY <1>0, <1>2, <1>4, Z3
<1>6. r = 4 * (r \div 4) /\ r \div 4 \in 0 .. W - 1
  BY <1>1, <1>2, <1>5, Z3
<1>7. q * L \in WordAddr
  <2>1. q * L \in Nat /\ q * L <= a
    BY <1>1, <1>2, Z3
  <2>2. (q * L) % 4 = 0
    BY <1>4, Z3
  <2> QED BY <1>0, <2>1, <2>2, AddrAssumption DEF WordAddr, Addr, BYTE_NUM
<1> QED
  BY <1>1, <1>2, <1>3, <1>6, <1>7
  DEF icache!line, icache!index, icache!tag, icache!word_offset, icache!line_base,
      icache!Lines, icache!Words, icache!BYTE_NUM

\* Every instance has its own copy of the definitions of Params.
LEMMA SameParams ==
    /\ \A a, n : ifu!Plus(a, n) = Plus(a, n) /\ icache!Plus(a, n) = Plus(a, n)
    /\ \A a, n : slave!Plus(a, n) = Plus(a, n)
    /\ \A a : ifu!Aligned(a) <=> a % 4 = 0
    /\ ifu!BYTE_NUM = 4 /\ icache!BYTE_NUM = 4 /\ slave!BYTE_NUM = 4 /\ BYTE_NUM = 4
    /\ port!WordAddr = WordAddr
BY DEF Plus, ifu!Plus, icache!Plus, slave!Plus, ifu!Aligned, BYTE_NUM, ifu!BYTE_NUM,
       icache!BYTE_NUM, slave!BYTE_NUM, WordAddr, Addr, port!WordAddr, port!Addr, port!BYTE_NUM

-----------------------------------------------------------------------------
(* Type correctness.  The Boolean registers are separate steps, for Zenon.  *)

LEMMA TypeInit == Init => TypeOK
<1> SUFFICES ASSUME Init PROVE TypeOK
  OBVIOUS
<1>a. 0 \in WordAddr /\ 0 \in Addr /\ RESET_PC \in WordAddr /\ RESET_PC \in Addr /\ 0 \in Data
  BY AddrAssumption, ProgramAssumption DEF Addr, WordAddr, BYTE_NUM
<1>b. 0 \in icache!Words /\ 0 \in 0 .. icache!WORDS_PER_LINE /\ 0 \in Nat
  BY LineSize DEF icache!Words
<1>1. IfuTypeOK
  BY <1>a, Zenon DEF Init, IfuTypeOK, ifu!Init
<1>2. IcacheTypeOK
  <2>1. state = "IDLE" /\ axi_in_rvalid \in BOOLEAN /\ axi_out_arvalid \in BOOLEAN
    BY Zenon DEF Init, icache!Init
  <2>2. valid_array \in [icache!Lines -> BOOLEAN]
    BY Zenon DEF Init, icache!Init
  <2>3. /\ tag_array \in [icache!Lines -> Nat]
        /\ data_array \in [icache!Lines -> [icache!Words -> Data]]
    BY <1>a DEF Init, icache!Init
  <2> QED BY <1>a, <1>b, <2>1, <2>2, <2>3 DEF Init, IcacheTypeOK, icache!Init
<1>3. SlaveTypeOK
  BY <1>a, <1>b, ProgramAssumption, Zenon DEF Init, SlaveTypeOK, slave!SlaveInit, CoreInit
<1>4. CoreTypeOK
  <2>1. view \in [WordAddr -> SUBSET Data]
    BY ProgramAssumption, SameParams DEF Init, CoreInit, port!ViewInit
  <2> QED BY <1>a, <2>1, Zenon DEF Init, CoreTypeOK, CoreInit
<1> QED BY <1>1, <1>2, <1>3, <1>4 DEF TypeOK

LEMMA IfuTypeNext == TypeOK /\ ifu!Clock => IfuTypeOK'
<1> SUFFICES ASSUME TypeOK, ifu!Clock PROVE IfuTypeOK'
  OBVIOUS
<1> USE DEF TypeOK, IfuTypeOK
<1>1. /\ axi_state' \in {"AXI_IDLE", "AXI_SEND_AR", "AXI_WAIT_R"}
      /\ outstanding_pc' \in WordAddr
  BY SameParams DEF ifu!Clock, ifu!AxiFsm, ifu!AxiStart, ifu!AxiRest, ifu!AxiSendAr,
         ifu!AxiReceive, ifu!AxiWait, ifu!may_fetch, ifu!fetch_pc_misaligned, WordAddr
<1>2. outstanding_stale' \in BOOLEAN
  BY Zenon DEF CoreTypeOK, ifu!Clock, ifu!AxiFsm, ifu!AxiStart, ifu!AxiRest,
               ifu!AxiSendAr, ifu!AxiReceive, ifu!AxiWait
<1>3. fencei_state' \in {"FENCEI_IDLE", "FENCEI_WAIT", "FENCEI_BUSY"}
  BY DEF ifu!Clock, ifu!FenceiFsm, ifu!FenceiIdle, ifu!FenceiWait, ifu!FenceiBusy
<1>4. out_icache_flush' \in BOOLEAN /\ out_fencei_flush_done' \in BOOLEAN
  BY Zenon DEF ifu!Clock, ifu!FenceiFsm, ifu!FenceiIdle, ifu!FenceiWait, ifu!FenceiBusy
<1>5. /\ ifu_state' \in {"IFU_EMPTY", "IFU_VALID"}
      /\ fetch_pc' \in Addr /\ out_pc' \in Addr /\ out_inst' \in Data
  <2>1. ifu!Plus(outstanding_pc, 4) \in Addr /\ outstanding_pc \in Addr /\ 0 \in Data
    BY PlusAddr, SameParams, ProgramAssumption DEF WordAddr
  <2> QED
    BY <2>1 DEF CoreTypeOK, IcacheTypeOK, ifu!Clock, ifu!IfuFsm, ifu!IfuAccept,
                ifu!IfuMisaligned, ifu!IfuRedirect, ifu!IfuFenceiDone,
                ifu!IfuStayEmpty, ifu!IfuHandOver, ifu!IfuHold, ifu!ifuRegs
<1>6. out_exception_valid' \in BOOLEAN /\ exception_pending' \in BOOLEAN
  <2>1. UNCHANGED ifu!ifuRegs => UNCHANGED <<out_exception_valid, exception_pending>>
    BY DEF ifu!ifuRegs
  <2> QED
    BY <2>1, Zenon DEF ifu!Clock, ifu!IfuFsm, ifu!IfuAccept, ifu!IfuMisaligned,
           ifu!IfuRedirect, ifu!IfuFenceiDone, ifu!IfuStayEmpty, ifu!IfuHandOver, ifu!IfuHold
<1> QED BY <1>1, <1>2, <1>3, <1>4, <1>5, <1>6

LEMMA IcacheTypeNext == TypeOK /\ icache!Clock => IcacheTypeOK'
<1> SUFFICES ASSUME TypeOK, icache!Clock PROVE IcacheTypeOK'
  OBVIOUS
<1> USE DEF TypeOK, IcacheTypeOK
<1>a. ifu!axi_araddr \in WordAddr
  BY DEF ifu!axi_araddr, IfuTypeOK
<1>b. icache!index(refill_addr) \in icache!Lines
  BY Fields
<1>c. icache!refilled_line \in [icache!Words -> Data]
  BY <1>b, Fields DEF icache!refilled_line, SlaveTypeOK
<1>0. axi_in_rvalid' \in BOOLEAN /\ axi_out_arvalid' \in BOOLEAN
  <2>1. /\ UNCHANGED icache!regs => UNCHANGED <<axi_in_rvalid, axi_out_arvalid>>
        /\ UNCHANGED icache!inRegs => UNCHANGED axi_in_rvalid
        /\ UNCHANGED icache!outRegs => UNCHANGED axi_out_arvalid
    BY DEF icache!regs, icache!inRegs, icache!outRegs
  <2> QED
    BY <2>1, Zenon
    DEF icache!Clock, icache!Flush, icache!Idle, icache!Hit, icache!Miss, icache!Respond,
        icache!SendAr, icache!RefillWait, icache!RefillBeat, icache!RefillLast
<1>1. CASE icache!Flush
  <2>1. valid_array' \in [icache!Lines -> BOOLEAN]
    BY <1>1, Zenon DEF icache!Flush
  <2> QED BY <1>0, <1>1, <2>1 DEF icache!Flush, icache!refill, icache!inRegs, icache!outRegs
<1>2. CASE icache!Idle \/ icache!RefillWait
  BY <1>0, <1>2 DEF icache!Idle, icache!RefillWait, icache!regs, icache!arrays,
              icache!refill, icache!inRegs, icache!outRegs
<1>3. CASE icache!Hit
  BY <1>0, <1>3, <1>a, Fields DEF icache!Hit, icache!arrays, icache!refill, icache!outRegs
<1>4. CASE icache!Miss
  <2>1. 0 \in icache!Words
    BY LineSize DEF icache!Words
  <2> QED BY <1>0, <1>4, <1>a, <2>1, Fields DEF icache!Miss, icache!arrays, icache!inRegs
<1>5. CASE icache!Respond \/ icache!SendAr
  BY <1>0, <1>5 DEF icache!Respond, icache!SendAr, icache!arrays, icache!refill,
              icache!inRegs, icache!outRegs
<1>6. CASE icache!RefillBeat
  <2>1. icache!Plus(refill_addr, icache!BYTE_NUM) \in WordAddr
    BY PlusWord, SameParams
  <2>2. (refill_cnt + 1) % icache!WORDS_PER_LINE \in icache!Words
    BY LineSize DEF icache!Words
  <2> QED BY <1>0, <1>6, <1>b, <1>c, <2>1, <2>2
          DEF icache!RefillBeat, icache!inRegs, icache!outRegs
<1>7. CASE icache!RefillLast
  <2>1. valid_array' \in [icache!Lines -> BOOLEAN]
    BY <1>7, Zenon DEF icache!RefillLast
  <2> QED
    BY <1>0, <1>7, <1>b, <1>c, <2>1, Fields
    DEF icache!RefillLast, icache!refill, icache!outRegs, SlaveTypeOK
<1> QED BY <1>1, <1>2, <1>3, <1>4, <1>5, <1>6, <1>7 DEF icache!Clock

LEMMA SlaveTypeNext == TypeOK /\ slave!SlaveClock /\ MemClock => SlaveTypeOK'
<1> SUFFICES ASSUME TypeOK, slave!SlaveClock, MemClock PROVE SlaveTypeOK'
  OBVIOUS
<1> USE DEF TypeOK, SlaveTypeOK
<1>0. s_arready' \in BOOLEAN /\ s_rvalid' \in BOOLEAN
  <2>1. UNCHANGED slave!slaveRegs => UNCHANGED <<s_arready, s_rvalid>>
    BY DEF slave!slaveRegs
  <2> QED
    BY <2>1, Zenon
    DEF slave!SlaveClock, slave!SlaveIdle, slave!SlaveAccept, slave!SlaveDelay,
        slave!SlaveHold, slave!SlaveBeat, slave!SlaveLast, slave!Deliver
<1>1. mem' \in [WordAddr -> Data]
  BY ProgramAssumption DEF MemClock
<1>2. icache!axi_out_arlen + 1 \in 0 .. icache!WORDS_PER_LINE
  BY LineSize DEF icache!axi_out_arlen
<1>3. \A a \in WordAddr : slave!Deliver(a) => s_rdata' \in Data
  BY ProgramAssumption DEF slave!Deliver
<1>4. slave!Plus(s_addr, slave!BYTE_NUM) \in WordAddr
  BY PlusWord, SameParams
<1>5. CASE slave!SlaveAccept
  BY <1>0, <1>1, <1>2, <1>3, <1>5 DEF slave!SlaveAccept, IcacheTypeOK
<1>6. CASE slave!SlaveBeat
  BY <1>0, <1>1, <1>3, <1>4, <1>6, LineSize DEF slave!SlaveBeat
<1>7. CASE slave!SlaveLast
  BY <1>0, <1>1, <1>7, LineSize, AddrAssumption, ProgramAssumption
  DEF slave!SlaveLast, WordAddr, Addr, BYTE_NUM
<1>8. CASE slave!SlaveIdle \/ slave!SlaveDelay \/ slave!SlaveHold
  BY <1>0, <1>1, <1>3, <1>8
  DEF slave!SlaveIdle, slave!SlaveDelay, slave!SlaveHold, slave!slaveRegs
<1> QED BY <1>5, <1>6, <1>7, <1>8 DEF slave!SlaveClock

LEMMA CoreTypeNext ==
    ASSUME TypeOK, FenceClock, InputsClock, ExpClock, port!ViewClock,
           mem' \in [WordAddr -> Data]
    PROVE  CoreTypeOK'
<1> USE DEF TypeOK, CoreTypeOK
<1>1. redirect' \in BOOLEAN /\ idu_ready' \in BOOLEAN /\ fencei_done' \in BOOLEAN
  BY Zenon DEF InputsClock
<1>2. redirect_pc' \in Addr
  BY ProgramAssumption, AddrAssumption DEF InputsClock, Addr
<1>3. fence' \in {"none", "pending", "flushing"}
  BY DEF FenceClock, DecodesFencei, CommitsFencei, FlushReported, FenceUnchanged
<1>4. exp_pc' \in Addr
  BY PlusAddr DEF ExpClock, IfuTypeOK
<1>5. view' \in [WordAddr -> SUBSET Data]
  BY SameParams DEF port!ViewClock, SlaveTypeOK
<1> QED BY <1>1, <1>2, <1>3, <1>4, <1>5

LEMMA TypeNext == TypeOK /\ [Next]_vars => TypeOK'
<1> SUFFICES ASSUME TypeOK, [Next]_vars PROVE TypeOK'
  OBVIOUS
<1>1. CASE Next
  <2>1. SlaveTypeOK'
    BY <1>1, SlaveTypeNext DEF Next
  <2>2. CoreTypeOK'
    BY <1>1, <2>1, CoreTypeNext DEF Next, SlaveTypeOK
  <2> QED BY <1>1, <2>1, <2>2, IfuTypeNext, IcacheTypeNext DEF Next, TypeOK
<1>2. CASE UNCHANGED vars
  <2>1. IfuTypeOK' /\ IcacheTypeOK'
    BY <1>2 DEF TypeOK, IfuTypeOK, IcacheTypeOK, vars, ifuVars, icacheVars,
                ifu!regs, ifu!axiRegs, ifu!fenceiRegs, ifu!ifuRegs,
                icache!regs, icache!arrays, icache!refill, icache!inRegs, icache!outRegs
  <2>2. SlaveTypeOK' /\ CoreTypeOK'
    BY <1>2 DEF TypeOK, SlaveTypeOK, CoreTypeOK, vars, slaveVars, slave!slaveRegs, coreVars
  <2> QED BY <2>1, <2>2 DEF TypeOK
<1> QED BY <1>1, <1>2

\* Every register keeps its type; every address IFU or a refill reads is a word
\* address, for any cache geometry and any sequence of redirects.
THEOREM TypeCorrect == Spec => []TypeOK
<1> QED BY TypeInit, TypeNext, PTL DEF Spec

-----------------------------------------------------------------------------
(* The stream of instructions.  StreamInOrder is not inductive: what is     *)
(* offered next depends on where IFU would fetch next and on the read that  *)
(* is under way.  A read whose answer counts (one that is not stale) is     *)
(* always for fetch_pc and fetch_pc is always the address the decoder is    *)
(* owed after what the buffer holds.  A fence.i must find no reported       *)
(* exception that has left the buffer: IFU would forget it.                  *)

StreamInv ==
    /\ ifu_state = "IFU_VALID" =>
          /\ out_pc = exp_pc
          /\ out_exception_valid <=> exception_pending
          /\ ~exception_pending => fetch_pc = Plus(out_pc, 4)
    /\ ifu_state = "IFU_EMPTY" /\ ~exception_pending => fetch_pc = exp_pc
    /\ axi_state # "AXI_IDLE" /\ ~outstanding_stale =>
          /\ ifu_state = "IFU_EMPTY"
          /\ ~exception_pending
          /\ outstanding_pc = fetch_pc
    /\ fence # "none" =>
          /\ ~idu_ready
          /\ ~redirect
          /\ ifu_state = "IFU_EMPTY" => ~exception_pending
    /\ fencei_done => fence = "pending"

LEMMA StreamInit == Init => StreamInv
BY DEF Init, ifu!Init, CoreInit, StreamInv

\* What the decoder is owed and what it is told, in one cycle.
LEMMA FenceNext == StreamInv /\ FenceClock /\ InputsClock =>
    /\ fencei_done' => fence' = "pending"
    /\ fence' # "none" => ~idu_ready' /\ ~redirect'
    /\ fence' # "none" => fence # "none" \/ (ifu!ifu_out_fire /\ ~out_exception_valid)
BY DEF StreamInv, InputsClock, FenceClock, DecodesFencei, CommitsFencei, FlushReported,
       FenceUnchanged

LEMMA StreamNext == TypeOK /\ StreamInv /\ Next => StreamInv'
<1> SUFFICES ASSUME TypeOK, StreamInv, Next PROVE StreamInv'
  OBVIOUS
<1>t. /\ axi_state \in {"AXI_IDLE", "AXI_SEND_AR", "AXI_WAIT_R"}
      /\ ifu_state \in {"IFU_EMPTY", "IFU_VALID"}
      /\ outstanding_pc % 4 = 0
  BY DEF TypeOK, IfuTypeOK, WordAddr, BYTE_NUM
<1>f. /\ fencei_done' => fence' = "pending"
      /\ fence' # "none" => ~idu_ready' /\ ~redirect'
      /\ fence' # "none" => fence # "none" \/ (ifu!ifu_out_fire /\ ~out_exception_valid)
  BY FenceNext DEF Next
<1>x. ExpClock /\ ifu!AxiFsm
  BY DEF Next, ifu!Clock
<1> USE DEF ifu!ifu_out_fire, ifu!out_valid
<1>1. CASE ifu!IfuRedirect
  <2>1. axi_state' # "AXI_IDLE" => outstanding_stale'
    BY <1>1, <1>x, <1>t, Zenon DEF ifu!IfuRedirect, ifu!AxiFsm, ifu!AxiStart, ifu!AxiRest,
       ifu!AxiSendAr, ifu!AxiReceive, ifu!AxiWait, ifu!may_fetch
  <2> QED BY <1>1, <1>x, <1>f, <2>1 DEF ifu!IfuRedirect, ExpClock, StreamInv
<1>2. CASE ifu!IfuFenceiDone
  <2>1. axi_state' # "AXI_IDLE" /\ ~outstanding_stale' =>
           /\ axi_state # "AXI_IDLE" /\ ~outstanding_stale
           /\ outstanding_pc' = outstanding_pc
    BY <1>2, <1>x, <1>t, Zenon DEF ifu!IfuFenceiDone, ifu!AxiFsm, ifu!AxiStart, ifu!AxiRest,
       ifu!AxiSendAr, ifu!AxiReceive, ifu!AxiWait, ifu!may_fetch
  <2> QED BY <1>2, <1>x, <1>t, <1>f, <2>1 DEF ifu!IfuFenceiDone, ExpClock, StreamInv
<1>3. CASE ifu!IfuMisaligned
  <2>1. fetch_pc % 4 # 0 /\ ~exception_pending
    BY <1>3, SameParams DEF ifu!IfuMisaligned, ifu!raise_misaligned, ifu!fetch_pc_misaligned
  <2>2. axi_state' # "AXI_IDLE" => outstanding_stale'
    BY Zenon, <1>3, <1>x, <1>t, <2>1, SameParams
    DEF ifu!IfuMisaligned, ifu!AxiFsm, ifu!AxiStart, ifu!AxiRest, ifu!AxiSendAr,
        ifu!AxiReceive, ifu!AxiWait, ifu!may_fetch, ifu!fetch_pc_misaligned, StreamInv
  <2> QED BY <1>3, <1>x, <1>f, <2>1, <2>2
          DEF ifu!IfuMisaligned, ifu!undisturbed, ExpClock, StreamInv
<1>4. CASE ifu!IfuAccept
  <2>1. /\ axi_state = "AXI_WAIT_R" /\ ~outstanding_stale
        /\ axi_state' = "AXI_IDLE"
    BY <1>4, <1>x, <1>t DEF ifu!IfuAccept, ifu!keep_response, ifu!drop_response,
       ifu!ifu_r_fire, ifu!axi_rready, ifu!AxiFsm, ifu!AxiStart, ifu!AxiRest,
       ifu!AxiSendAr, ifu!AxiReceive, ifu!AxiWait
  <2> QED BY <1>4, <1>x, <1>f, <2>1, SameParams
          DEF ifu!IfuAccept, ifu!undisturbed, ExpClock, StreamInv
<1>5. CASE ifu!IfuStayEmpty
  <2>1. axi_state' # "AXI_IDLE" /\ ~outstanding_stale' =>
           \/ /\ axi_state # "AXI_IDLE" /\ ~outstanding_stale
              /\ outstanding_pc' = outstanding_pc
           \/ ~exception_pending /\ outstanding_pc' = fetch_pc
    BY <1>5, <1>x, <1>t, Zenon DEF ifu!IfuStayEmpty, ifu!AxiFsm, ifu!AxiStart, ifu!AxiRest,
       ifu!AxiSendAr, ifu!AxiReceive, ifu!AxiWait, ifu!may_fetch
  <2> QED BY <1>5, <1>x, <1>f, <2>1
          DEF ifu!IfuStayEmpty, ifu!undisturbed, ifu!ifuRegs, ExpClock, StreamInv
<1>6. CASE ifu!IfuHandOver \/ ifu!IfuHold
  <2>1. axi_state' # "AXI_IDLE" => outstanding_stale'
    BY <1>6, <1>x, <1>t, Zenon DEF ifu!IfuHandOver, ifu!IfuHold, ifu!AxiFsm, ifu!AxiStart,
       ifu!AxiRest, ifu!AxiSendAr, ifu!AxiReceive, ifu!AxiWait, ifu!may_fetch, StreamInv
  <2>2. CASE ifu!IfuHandOver
    BY <1>x, <1>f, <2>1, <2>2 DEF ifu!IfuHandOver, ifu!undisturbed, ExpClock, StreamInv
  <2>3. CASE ifu!IfuHold
    BY <1>x, <1>f, <2>1, <2>3
    DEF ifu!IfuHold, ifu!undisturbed, ifu!ifuRegs, ExpClock, StreamInv
  <2> QED BY <1>6, <2>2, <2>3
<1> QED BY <1>1, <1>2, <1>3, <1>4, <1>5, <1>6 DEF Next, ifu!Clock, ifu!IfuFsm

LEMMA StreamStutter == StreamInv /\ UNCHANGED vars => StreamInv'
BY DEF StreamInv, vars, ifuVars, ifu!regs, ifu!axiRegs, ifu!fenceiRegs, ifu!ifuRegs, coreVars

\* Whatever the redirects, refused offers, delays and flushes, the decoder is
\* offered the instructions of the program in order: none of a wrong path, none
\* twice, none left out.
THEOREM StreamCorrect == Spec => []StreamInOrder
<1>1. StreamInv => StreamInOrder
  BY DEF StreamInv, StreamInOrder, ifu!out_valid
<1>2. TypeOK /\ StreamInv /\ [Next]_vars => StreamInv'
  BY StreamNext, StreamStutter
<1> QED BY <1>1, <1>2, StreamInit, TypeCorrect, PTL DEF Spec

-----------------------------------------------------------------------------
(* Who waits for whom.  The cache is away from IDLE exactly while IFU waits *)
(* for an answer, and the memory is busy exactly while the cache refills.   *)
(* A flush happens when all three are idle, which needs that nothing is     *)
(* fetched or raised behind a fence.i: its successor is an aligned address. *)

ProtocolInv ==
    /\ out_icache_flush <=> fencei_state = "FENCEI_BUSY"
    /\ fencei_state # "FENCEI_IDLE" => ~out_fencei_flush_done
    /\ fencei_state # "FENCEI_IDLE" \/ out_fencei_flush_done =>
          fence = "flushing" /\ ifu_state = "IFU_EMPTY"
    /\ out_icache_flush \/ out_fencei_flush_done => axi_state = "AXI_IDLE"
    /\ state = "IDLE" <=> axi_state # "AXI_WAIT_R"
    /\ axi_in_rvalid <=> state = "RESP"
    /\ axi_out_arvalid <=> state = "SEND_AR"
    /\ s_left > 0 <=> state = "WAIT_R"
    /\ s_rvalid => s_left > 0
    /\ ifu_state = "IFU_VALID" /\ ~out_exception_valid => out_pc \in WordAddr
    /\ fence # "none" => fetch_pc \in WordAddr /\ ~exception_pending

LEMMA ProtocolInit == Init => ProtocolInv
BY DEF Init, ifu!Init, icache!Init, slave!SlaveInit, CoreInit, ProtocolInv

\* A flush cycle is a quiet one.
LEMMA Quiescent == TypeOK /\ ProtocolInv => FlushQuiescent
BY DEF ProtocolInv, FlushQuiescent, ifu!axi_arvalid, TypeOK, SlaveTypeOK

\* The read channel of IFU and the state machine of the cache move together.
LEMMA ReadNext ==
    ASSUME TypeOK, ProtocolInv, ifu!AxiFsm, icache!Clock
    PROVE  /\ state' = "IDLE" <=> axi_state' # "AXI_WAIT_R"
           /\ axi_in_rvalid' <=> state' = "RESP"
           /\ axi_out_arvalid' <=> state' = "SEND_AR"
<1> USE DEF ProtocolInv, ifu!ifu_ar_fire, ifu!ifu_r_fire, ifu!axi_arvalid, axi_ifu_arready
<1>t. /\ axi_state \in {"AXI_IDLE", "AXI_SEND_AR", "AXI_WAIT_R"}
      /\ state \in {"IDLE", "RESP", "SEND_AR", "WAIT_R"}
  BY DEF TypeOK, IfuTypeOK, IcacheTypeOK
<1>1. axi_state' = CASE axi_state = "AXI_SEND_AR" /\ state = "IDLE" -> "AXI_WAIT_R"
                     [] axi_state = "AXI_WAIT_R" /\ axi_in_rvalid /\ ifu!axi_rready -> "AXI_IDLE"
                     [] axi_state = "AXI_IDLE" /\ ifu!may_fetch -> "AXI_SEND_AR"
                     [] OTHER -> axi_state
  BY <1>t DEF ifu!AxiFsm, ifu!AxiStart, ifu!AxiRest, ifu!AxiSendAr, ifu!AxiReceive,
              ifu!AxiWait
<1>2. CASE icache!Flush
  BY <1>1, <1>2, <1>t DEF icache!Flush, icache!inRegs, icache!outRegs
<1>3. CASE icache!Idle
  BY <1>1, <1>3, <1>t DEF icache!Idle, icache!regs, icache!inRegs, icache!outRegs
<1>4. CASE icache!Hit
  BY <1>1, <1>4, <1>t DEF icache!Hit, icache!outRegs
<1>5. CASE icache!Miss
  BY <1>1, <1>5, <1>t DEF icache!Miss, icache!inRegs
<1>6. CASE icache!Respond
  <2>1. UNCHANGED axi_out_arvalid
    BY <1>6 DEF icache!Respond, icache!outRegs
  <2>2. CASE axi_in_rvalid /\ ifu!axi_rready
    BY <1>1, <1>6, <1>t, <2>1, <2>2 DEF icache!Respond
  <2>3. CASE ~(axi_in_rvalid /\ ifu!axi_rready)
    <3>1. state = "RESP" /\ state' = state /\ axi_in_rvalid' = axi_in_rvalid
      BY <1>6, <2>3, Zenon DEF icache!Respond
    <3> QED BY <1>1, <1>t, <2>1, <2>3, <3>1
  <2> QED BY <2>2, <2>3
<1>7. CASE icache!SendAr
  <2>1. UNCHANGED axi_in_rvalid
    BY <1>7 DEF icache!SendAr, icache!inRegs
  <2>2. CASE axi_out_arvalid /\ s_arready
    BY <1>1, <1>7, <1>t, <2>1, <2>2 DEF icache!SendAr
  <2>3. CASE ~(axi_out_arvalid /\ s_arready)
    <3>1. state = "SEND_AR" /\ state' = state /\ axi_out_arvalid' = axi_out_arvalid
      BY <1>7, <2>3, Zenon DEF icache!SendAr
    <3> QED BY <1>1, <1>t, <2>1, <2>3, <3>1
  <2> QED BY <2>2, <2>3
<1>8. CASE icache!RefillWait
  BY <1>1, <1>8, <1>t DEF icache!RefillWait, icache!regs, icache!inRegs, icache!outRegs
<1>9. CASE icache!RefillBeat
  BY <1>1, <1>9, <1>t DEF icache!RefillBeat, icache!inRegs, icache!outRegs
<1>10. CASE icache!RefillLast
  BY <1>1, <1>10, <1>t DEF icache!RefillLast, icache!outRegs
<1> QED BY <1>2, <1>3, <1>4, <1>5, <1>6, <1>7, <1>8, <1>9, <1>10 DEF icache!Clock

\* The memory and the refill move together: the line ends with the burst.
LEMMA BurstNext ==
    ASSUME TypeOK, ProtocolInv, icache!Clock, slave!SlaveClock
    PROVE  /\ s_left' > 0 <=> state' = "WAIT_R"
           /\ s_rvalid' => s_left' > 0
<1> USE DEF axi_icache_rready
<1>t. s_left \in Nat /\ icache!WORDS_PER_LINE \in Nat \ {0}
  BY LineSize DEF TypeOK, SlaveTypeOK
<1>p. /\ axi_out_arvalid <=> state = "SEND_AR"
      /\ s_left > 0 <=> state = "WAIT_R"
      /\ s_rvalid => s_left > 0
      /\ out_icache_flush => state = "IDLE"
  BY DEF ProtocolInv
<1>a. axi_out_arvalid => icache!axi_out_arlen + 1 = icache!WORDS_PER_LINE
  BY <1>t DEF icache!axi_out_arlen
<1>1. CASE state = "IDLE"
  <2>1. state' # "WAIT_R"
    BY <1>1, Zenon DEF icache!Clock, icache!Flush, icache!Idle, icache!Hit, icache!Miss,
       icache!Respond, icache!SendAr, icache!RefillWait, icache!RefillBeat,
       icache!RefillLast, icache!regs
  <2>2. slave!SlaveIdle
    BY <1>1, <1>p, <1>t DEF slave!SlaveClock, slave!SlaveAccept, slave!SlaveDelay,
       slave!SlaveHold, slave!SlaveBeat, slave!SlaveLast
  <2> QED BY <1>1, <1>p, <1>t, <2>1, <2>2 DEF slave!SlaveIdle
<1>2. CASE state = "RESP"
  <2>1. state' # "WAIT_R"
    BY <1>2, Zenon DEF icache!Clock, icache!Flush, icache!Idle, icache!Hit, icache!Miss,
       icache!Respond, icache!SendAr, icache!RefillWait, icache!RefillBeat, icache!RefillLast
  <2>2. slave!SlaveIdle
    BY <1>2, <1>p, <1>t DEF slave!SlaveClock, slave!SlaveAccept, slave!SlaveDelay,
       slave!SlaveHold, slave!SlaveBeat, slave!SlaveLast
  <2> QED BY <1>2, <1>p, <1>t, <2>1, <2>2 DEF slave!SlaveIdle
<1>3. CASE state = "SEND_AR"
  <2>1. IF s_arready THEN state' = "WAIT_R" ELSE state' = "SEND_AR"
    BY <1>3, <1>p, Zenon DEF icache!Clock, icache!Flush, icache!Idle, icache!Hit, icache!Miss,
       icache!Respond, icache!SendAr, icache!RefillWait, icache!RefillBeat, icache!RefillLast
  <2>2. IF s_arready THEN slave!SlaveAccept ELSE slave!SlaveIdle
    BY <1>3, <1>p, <1>t DEF slave!SlaveClock, slave!SlaveIdle, slave!SlaveAccept,
       slave!SlaveDelay, slave!SlaveHold, slave!SlaveBeat, slave!SlaveLast
  <2> QED BY <1>3, <1>p, <1>t, <1>a, <2>1, <2>2 DEF slave!SlaveIdle, slave!SlaveAccept
<1>4. CASE state = "WAIT_R"
  <2>1. IF s_rvalid /\ s_left = 1 THEN state' = "RESP" ELSE state' = "WAIT_R"
    BY <1>4, <1>p, Zenon DEF icache!Clock, icache!Flush, icache!Idle, icache!Hit, icache!Miss,
       icache!Respond, icache!SendAr, icache!RefillWait, icache!RefillBeat,
       icache!RefillLast, icache!regs
  <2>2. \/ slave!SlaveDelay /\ ~s_rvalid
        \/ slave!SlaveBeat /\ s_left > 1
        \/ slave!SlaveLast /\ s_rvalid /\ s_left = 1
    BY <1>4, <1>p, <1>t DEF slave!SlaveClock, slave!SlaveIdle, slave!SlaveAccept,
       slave!SlaveDelay, slave!SlaveHold, slave!SlaveBeat, slave!SlaveLast
  <2>3. /\ s_left' > 0 <=> ~(s_rvalid /\ s_left = 1)
        /\ s_rvalid' => s_left' > 0
    BY <1>4, <1>p, <1>t, <2>2 DEF slave!SlaveDelay, slave!SlaveBeat, slave!SlaveLast
  <2> QED BY <2>1, <2>3
<1> QED BY <1>1, <1>2, <1>3, <1>4 DEF TypeOK, IcacheTypeOK

\* What lies behind a fence.i is aligned, and raises no exception.
LEMMA AlignedNext ==
    ASSUME TypeOK, StreamInv, ProtocolInv, ifu!Clock, FenceClock, InputsClock
    PROVE  /\ ifu_state' = "IFU_VALID" /\ ~out_exception_valid' => out_pc' \in WordAddr
           /\ fence' # "none" => fetch_pc' \in WordAddr /\ ~exception_pending'
<1> USE DEF ifu!ifu_out_fire, ifu!out_valid
<1>t. outstanding_pc \in WordAddr /\ Plus(outstanding_pc, 4) \in WordAddr
  BY PlusWord DEF TypeOK, IfuTypeOK
<1>f. /\ fence' # "none" => fence # "none" \/ (ifu!ifu_out_fire /\ ~out_exception_valid)
      /\ fence # "none" => ~redirect /\ ~idu_ready
  BY FenceNext DEF StreamInv
<1>v. ifu_state = "IFU_VALID" /\ ~out_exception_valid =>
          out_pc \in WordAddr /\ fetch_pc \in WordAddr /\ ~exception_pending
  BY PlusWord DEF StreamInv, ProtocolInv
<1>n. fence # "none" => fetch_pc \in WordAddr /\ ~exception_pending
  BY DEF ProtocolInv
<1>1. CASE ifu!IfuRedirect
  BY <1>1, <1>f DEF ifu!IfuRedirect
<1>2. CASE ifu!IfuFenceiDone
  <2>1. fence = "pending"
    BY <1>2 DEF ifu!IfuFenceiDone, StreamInv
  <2>2. ifu_state = "IFU_VALID" => ~out_exception_valid
    BY <2>1, <1>n DEF StreamInv
  <2> QED BY <1>2, <1>n, <1>v, <2>1, <2>2 DEF ifu!IfuFenceiDone
<1>3. CASE ifu!IfuMisaligned
  <2>1. fetch_pc \notin WordAddr
    BY <1>3, SameParams
    DEF ifu!IfuMisaligned, ifu!raise_misaligned, ifu!fetch_pc_misaligned, WordAddr
  <2> QED BY <1>3, <1>f, <1>n, <2>1 DEF ifu!IfuMisaligned
<1>4. CASE ifu!IfuAccept
  BY <1>4, <1>t, <1>f, <1>n, SameParams DEF ifu!IfuAccept
<1>5. CASE ifu!IfuStayEmpty \/ ifu!IfuHold
  BY <1>5, <1>f, <1>n, <1>v DEF ifu!IfuStayEmpty, ifu!IfuHold, ifu!ifuRegs
<1>6. CASE ifu!IfuHandOver
  BY <1>6, <1>f, <1>n, <1>v DEF ifu!IfuHandOver
<1> QED BY <1>1, <1>2, <1>3, <1>4, <1>5, <1>6 DEF ifu!Clock, ifu!IfuFsm

\* The fence.i machine: from the commit until the report the buffer is empty
\* and the decoder waits; no read is started.
LEMMA FlushNext ==
    ASSUME TypeOK, StreamInv, ProtocolInv, ifu!Clock, FenceClock
    PROVE  /\ out_icache_flush' <=> fencei_state' = "FENCEI_BUSY"
           /\ fencei_state' # "FENCEI_IDLE" => ~out_fencei_flush_done'
           /\ fencei_state' # "FENCEI_IDLE" \/ out_fencei_flush_done' =>
                 fence' = "flushing" /\ ifu_state' = "IFU_EMPTY"
           /\ out_icache_flush' \/ out_fencei_flush_done' => axi_state' = "AXI_IDLE"
<1>c. ifu!FenceiFsm /\ ifu!AxiFsm /\ ifu!IfuFsm
  BY DEF ifu!Clock
<1>1. /\ out_icache_flush' <=> fencei_state' = "FENCEI_BUSY"
      /\ fencei_state' # "FENCEI_IDLE" => ~out_fencei_flush_done'
  BY <1>c DEF ProtocolInv, ifu!FenceiFsm, ifu!FenceiIdle, ifu!FenceiWait, ifu!FenceiBusy
<1>2. ASSUME fencei_state' # "FENCEI_IDLE" \/ out_fencei_flush_done'
      PROVE  fence' = "flushing" /\ ifu_state' = "IFU_EMPTY"
  <2>1. fencei_state # "FENCEI_IDLE" \/ fencei_done
    BY <1>c, <1>2 DEF ifu!FenceiFsm, ifu!FenceiIdle, ifu!FenceiWait, ifu!FenceiBusy
  <2>2. CASE fencei_state # "FENCEI_IDLE"
    <3>1. /\ fence = "flushing" /\ ifu_state = "IFU_EMPTY"
          /\ ~out_fencei_flush_done /\ ~redirect /\ ~fencei_done
          /\ fetch_pc \in WordAddr
      BY <2>2 DEF ProtocolInv, StreamInv
    <3>2. fence' = "flushing"
      BY <3>1 DEF FenceClock, DecodesFencei, CommitsFencei, FlushReported, FenceUnchanged
    <3>3. ~ifu!raise_misaligned
      BY <3>1, SameParams DEF ifu!raise_misaligned, ifu!fetch_pc_misaligned, WordAddr
    <3>4. ifu_state' = "IFU_EMPTY"
      BY <1>c, <2>2, <3>1, <3>3 DEF ifu!IfuFsm, ifu!IfuRedirect, ifu!IfuFenceiDone,
         ifu!IfuMisaligned, ifu!IfuAccept, ifu!keep_response, ifu!IfuStayEmpty,
         ifu!IfuHandOver, ifu!IfuHold, ifu!ifuRegs
    <3> QED BY <3>2, <3>4
  <2>3. CASE fencei_done
    <3>1. fence = "pending" /\ ~redirect
      BY <2>3 DEF StreamInv
    <3>2. fence' = "flushing"
      BY <2>3, <3>1
      DEF FenceClock, DecodesFencei, CommitsFencei, FlushReported, FenceUnchanged
    <3>3. ifu_state' = "IFU_EMPTY"
      BY <1>c, <2>3, <3>1 DEF ifu!IfuFsm, ifu!IfuRedirect, ifu!IfuFenceiDone,
         ifu!IfuMisaligned, ifu!IfuAccept, ifu!IfuStayEmpty, ifu!IfuHandOver, ifu!IfuHold,
         ifu!undisturbed
    <3> QED BY <3>2, <3>3
  <2> QED BY <2>1, <2>2, <2>3
<1>3. ASSUME out_icache_flush' \/ out_fencei_flush_done'
      PROVE  axi_state' = "AXI_IDLE"
  <2>1. fencei_state # "FENCEI_IDLE" /\ axi_state = "AXI_IDLE"
    BY <1>c, <1>3 DEF ProtocolInv, ifu!FenceiFsm, ifu!FenceiIdle, ifu!FenceiWait,
       ifu!FenceiBusy, ifu!fencei_may_flush
  <2> QED BY <1>c, <2>1 DEF ifu!AxiFsm, ifu!AxiStart, ifu!may_fetch, ifu!AxiRest,
             ifu!AxiSendAr, ifu!AxiReceive, ifu!AxiWait
<1> QED BY <1>1, <1>2, <1>3

LEMMA ProtocolNext == TypeOK /\ StreamInv /\ ProtocolInv /\ Next => ProtocolInv'
<1> SUFFICES ASSUME TypeOK, StreamInv, ProtocolInv, Next PROVE ProtocolInv'
  OBVIOUS
<1>1. ifu!AxiFsm /\ ifu!Clock /\ icache!Clock /\ slave!SlaveClock /\ FenceClock /\ InputsClock
  BY DEF Next, ifu!Clock
<1>2. /\ state' = "IDLE" <=> axi_state' # "AXI_WAIT_R"
      /\ axi_in_rvalid' <=> state' = "RESP"
      /\ axi_out_arvalid' <=> state' = "SEND_AR"
  BY <1>1, ReadNext
<1>3. (s_left' > 0 <=> state' = "WAIT_R") /\ (s_rvalid' => s_left' > 0)
  BY <1>1, BurstNext
<1>4. /\ ifu_state' = "IFU_VALID" /\ ~out_exception_valid' => out_pc' \in WordAddr
      /\ fence' # "none" => fetch_pc' \in WordAddr /\ ~exception_pending'
  BY <1>1, AlignedNext
<1>5. /\ out_icache_flush' <=> fencei_state' = "FENCEI_BUSY"
      /\ fencei_state' # "FENCEI_IDLE" => ~out_fencei_flush_done'
      /\ fencei_state' # "FENCEI_IDLE" \/ out_fencei_flush_done' =>
            fence' = "flushing" /\ ifu_state' = "IFU_EMPTY"
      /\ out_icache_flush' \/ out_fencei_flush_done' => axi_state' = "AXI_IDLE"
  BY <1>1, FlushNext
<1> QED BY <1>2, <1>3, <1>4, <1>5, SameParams DEF ProtocolInv, WordAddr, Addr, BYTE_NUM

LEMMA ProtocolStutter == ProtocolInv /\ UNCHANGED vars => ProtocolInv'
BY DEF ProtocolInv, vars, ifuVars, ifu!regs, ifu!axiRegs, ifu!fenceiRegs, ifu!ifuRegs,
       icacheVars, icache!regs, icache!inRegs, icache!outRegs, slaveVars, slave!slaveRegs,
       coreVars

LEMMA ProtocolCorrect == Spec => [](TypeOK /\ StreamInv /\ ProtocolInv)
<1>1. TypeOK /\ StreamInv /\ [Next]_vars => StreamInv'
  BY StreamNext, StreamStutter
<1>2. TypeOK /\ StreamInv /\ ProtocolInv /\ [Next]_vars => ProtocolInv'
  BY ProtocolNext, ProtocolStutter
<1> QED BY <1>1, <1>2, StreamInit, ProtocolInit, TypeCorrect, PTL DEF Spec

\* A flush never meets a read: ICACHE's state machine stands still in the flush
\* cycle, and no request, answer or beat is there to be lost.
THEOREM FlushIsQuiet == Spec => []FlushQuiescent
BY ProtocolCorrect, Quiescent, PTL

LEMMA FlushedNext ==
    TypeOK /\ ProtocolInv /\ ProtocolInv' /\ Next => FlushComplete'
<1> SUFFICES ASSUME TypeOK, ProtocolInv, ProtocolInv', Next, out_fencei_flush_done'
             PROVE  /\ ifu_state' = "IFU_EMPTY"
                    /\ axi_state' = "AXI_IDLE"
                    /\ \A i \in icache!Lines : ~valid_array'[i]
                    /\ \A a \in WordAddr : view'[a] = {mem'[a]}
  BY SameParams, Zenon DEF FlushComplete
<1>1. out_icache_flush
  BY DEF Next, ProtocolInv, ifu!Clock, ifu!FenceiFsm, ifu!FenceiIdle, ifu!FenceiWait,
         ifu!FenceiBusy
<1>2. valid_array' = [i \in icache!Lines |-> FALSE]
  BY <1>1, Zenon DEF Next, icache!Clock, icache!Flush, icache!Idle, icache!Hit, icache!Miss,
     icache!Respond, icache!SendAr, icache!RefillWait, icache!RefillBeat, icache!RefillLast
<1>3. \A a \in WordAddr : view'[a] = {mem'[a]}
  BY <1>1 DEF Next, port!ViewClock, TypeOK, SlaveTypeOK
<1>4. ifu_state' = "IFU_EMPTY" /\ axi_state' = "AXI_IDLE"
  BY DEF ProtocolInv
<1> QED BY <1>2, <1>3, <1>4

\* When IFU reports the flush of a fence.i, nothing fetched before it survives
\* in the buffer, on the read channel or in the cache.
THEOREM FlushIsComplete == Spec => []FlushComplete
<1>1. Init => FlushComplete
  BY DEF Init, ifu!Init, FlushComplete
<1>2. FlushComplete /\ UNCHANGED vars => FlushComplete'
  BY DEF FlushComplete, vars, ifuVars, ifu!regs, ifu!axiRegs, ifu!fenceiRegs, ifu!ifuRegs,
         icacheVars, icache!regs, icache!arrays
<1> QED BY <1>1, <1>2, ProtocolCorrect, FlushedNext, PTL DEF Spec

-----------------------------------------------------------------------------
(* A refill walks through the line of the word IFU asked for, the cache's   *)
(* address in step with the memory's.                                       *)

RefillInv ==
    /\ state = "SEND_AR" =>
          /\ axi_out_araddr = icache!line_base(outstanding_pc)
          /\ refill_addr = icache!line_base(outstanding_pc)
          /\ refill_cnt = 0
    /\ state \in {"SEND_AR", "WAIT_R"} =>
          req_word_offset = icache!word_offset(outstanding_pc)
    /\ state = "WAIT_R" =>
          /\ refill_cnt + s_left = icache!WORDS_PER_LINE
          /\ refill_addr = icache!line_base(outstanding_pc) + 4 * refill_cnt
          /\ s_addr = refill_addr

LEMMA SmallMod ==
    ASSUME NEW n \in Nat \ {0}, NEW m \in 0 .. n - 1
    PROVE  m % n = m
OBVIOUS

LEMMA WholeLines ==
    ASSUME NEW n \in Nat, NEW l \in Nat \ {0}, n % l = 0
    PROVE  \E k \in Nat : n = k * l
<1>1. n \div l \in Nat /\ n = (n \div l) * l + (n % l)
  BY DivMod
<1> QED BY <1>1, Z3

LEMMA NextMultiple ==
    ASSUME NEW l \in Nat \ {0}, NEW q \in Nat, NEW k \in Nat, q * l < k * l
    PROVE  q * l + l <= k * l
<1>1. q < k
  BY Z3
<1>2. (k - q) * l >= l
  BY <1>1, Z3
<1> QED BY <1>2, Z3

\* The words of a line are word addresses, and the line does not wrap.
LEMMA LineWord ==
    ASSUME NEW a \in WordAddr, NEW c \in icache!Words
    PROVE  /\ icache!line_base(a) + 4 * c \in WordAddr
           /\ icache!line(icache!line_base(a) + 4 * c) = icache!line(a)
           /\ icache!word_offset(icache!line_base(a) + 4 * c) = c
           /\ c + 1 \in icache!Words =>
                 Plus(icache!line_base(a) + 4 * c, 4) = icache!line_base(a) + 4 * (c + 1)
<1> DEFINE B == icache!line_base(a)
           L == CACHE_LINE_BYTES
           W == icache!WORDS_PER_LINE
<1>1. L \in Nat \ {0} /\ W \in Nat \ {0} /\ L = 4 * W /\ c \in 0 .. W - 1
  BY CacheAssumption, LineSize DEF icache!Words
<1>2. /\ B \in WordAddr
      /\ icache!line(a) \in Nat
      /\ B = icache!line(a) * L
      /\ icache!word_offset(a) \in 0 .. W - 1
      /\ a = B + 4 * icache!word_offset(a)
  BY Fields DEF icache!line_base, icache!Words
<1>3. B \in Nat /\ B % 4 = 0 /\ B < AddrLimit
  <2> HIDE DEF B
  <2> QED BY <1>2, AddrAssumption DEF WordAddr, Addr, BYTE_NUM
<1>4. 4 * c \in 0 .. L - 1 /\ (4 * c) \div 4 = c
  BY <1>1
<1>5. (B + 4 * c) \div L = icache!line(a) /\ (B + 4 * c) % L = 4 * c
  <2> HIDE DEF B, L
  <2>1. \A n \in Nat \ {0}, q \in Nat : \A r \in 0 .. n - 1 :
           (q * n + r) \div n = q /\ (q * n + r) % n = r
    BY DivModUnique
  <2> QED BY <1>1, <1>2, <1>4, <2>1, Zenon
<1>6. B + L <= AddrLimit
  <2>1. PICK k \in Nat : AddrLimit = k * L
    BY <1>1, AddrAssumption, CacheAssumption, WholeLines, Zenon
  <2> QED BY <1>1, <1>2, <1>3, <2>1, NextMultiple, Zenon
<1>7. B + 4 * c \in WordAddr
  <2> HIDE DEF B, L, W
  <2> QED BY <1>1, <1>3, <1>4, <1>6, AddrAssumption DEF WordAddr, Addr, BYTE_NUM
<1>8. c + 1 \in icache!Words => Plus(B + 4 * c, 4) = B + 4 * (c + 1)
  <2> SUFFICES ASSUME c + 1 \in 0 .. W - 1 PROVE Plus(B + 4 * c, 4) = B + 4 * (c + 1)
    BY DEF icache!Words
  <2> HIDE DEF B, L, W
  <2>1. /\ B + 4 * c + 4 \in Nat /\ B + 4 * c + 4 < AddrLimit
        /\ B + 4 * c + 4 = B + 4 * (c + 1)
    BY <1>1, <1>3, <1>6, AddrAssumption
  <2> QED BY <2>1, AddrAssumption DEF Plus
<1> QED BY <1>4, <1>5, <1>7, <1>8 DEF icache!line, icache!word_offset, icache!BYTE_NUM

\* The steps ICACHE and the memory can make in the same cycle.
LEMMA JointStep ==
    ASSUME TypeOK, ProtocolInv, icache!Clock, slave!SlaveClock
    PROVE  \/ slave!SlaveIdle /\ (icache!Flush \/ icache!Idle \/ icache!Hit \/ icache!Miss \/ icache!Respond)
           \/ slave!SlaveIdle /\ icache!SendAr /\ state' = "SEND_AR"
           \/ slave!SlaveAccept /\ icache!SendAr /\ state' = "WAIT_R"
           \/ icache!RefillWait /\ slave!SlaveDelay
           \/ icache!RefillBeat /\ slave!SlaveBeat
           \/ icache!RefillLast /\ slave!SlaveLast
<1> USE DEF axi_icache_rready
<1>t. s_left \in Nat
  BY LineSize DEF TypeOK, SlaveTypeOK
<1>p. /\ axi_out_arvalid <=> state = "SEND_AR"
      /\ s_left > 0 <=> state = "WAIT_R"
      /\ s_rvalid => s_left > 0
      /\ out_icache_flush => state = "IDLE"
  BY DEF ProtocolInv
<1>1. CASE icache!Flush \/ icache!Idle \/ icache!Hit \/ icache!Miss \/ icache!Respond
  <2>1. state # "WAIT_R" /\ state # "SEND_AR"
    BY <1>1, <1>p DEF icache!Flush, icache!Idle, icache!Hit, icache!Miss, icache!Respond
  <2> QED BY <1>1, <1>p, <1>t, <2>1 DEF slave!SlaveClock, slave!SlaveAccept,
             slave!SlaveDelay, slave!SlaveHold, slave!SlaveBeat, slave!SlaveLast
<1>2. CASE icache!SendAr
  <2>1. state = "SEND_AR"
    BY <1>2 DEF icache!SendAr
  <2>2. (slave!SlaveIdle /\ ~s_arready) \/ (slave!SlaveAccept /\ s_arready)
    <3>1. s_left = 0
      BY <1>p, <1>t, <2>1
    <3>2. slave!SlaveIdle \/ slave!SlaveAccept
      BY <3>1 DEF slave!SlaveClock, slave!SlaveDelay, slave!SlaveHold, slave!SlaveBeat,
         slave!SlaveLast
    <3>3. axi_out_arvalid
      BY <1>p, <2>1
    <3>4. /\ slave!SlaveIdle => ~(axi_out_arvalid /\ s_arready)
          /\ slave!SlaveAccept => s_arready
      BY Zenon DEF slave!SlaveIdle, slave!SlaveAccept
    <3> QED BY <3>2, <3>3, <3>4
  <2>3. IF s_arready THEN state' = "WAIT_R" ELSE state' = "SEND_AR"
    BY <1>2, <1>p, <2>1, Zenon DEF icache!SendAr
  <2> QED BY <1>2, <2>2, <2>3
<1>3. CASE icache!RefillWait \/ icache!RefillBeat \/ icache!RefillLast
  <2>1. state = "WAIT_R"
    BY <1>3 DEF icache!RefillWait, icache!RefillBeat, icache!RefillLast
  <2>2. slave!SlaveDelay \/ slave!SlaveBeat \/ slave!SlaveLast
    BY <1>p, <1>t, <2>1 DEF slave!SlaveClock, slave!SlaveIdle, slave!SlaveAccept,
       slave!SlaveHold
  <2> QED BY <1>3, <1>t, <2>2 DEF icache!RefillWait, icache!RefillBeat, icache!RefillLast,
             slave!SlaveDelay, slave!SlaveBeat, slave!SlaveLast
<1> QED BY <1>1, <1>2, <1>3 DEF icache!Clock

\* IFU does not touch the address of a read that is under way.
LEMMA OutstandingHeld ==
    ASSUME TypeOK, ProtocolInv, ifu!AxiFsm
    PROVE  state # "IDLE" \/ ifu!axi_arvalid => outstanding_pc' = outstanding_pc
BY DEF TypeOK, IfuTypeOK, ProtocolInv, ifu!AxiFsm, ifu!AxiStart, ifu!AxiRest, ifu!AxiSendAr,
       ifu!AxiReceive, ifu!AxiWait, ifu!axi_arvalid

LEMMA RefillNext ==
    ASSUME TypeOK, ProtocolInv, RefillInv, ifu!AxiFsm, icache!Clock, slave!SlaveClock
    PROVE  RefillInv'
<1> DEFINE pc == outstanding_pc
           W == icache!WORDS_PER_LINE
<1>t. /\ pc \in WordAddr /\ W \in Nat \ {0} /\ icache!Words = 0 .. W - 1
      /\ refill_cnt \in 0 .. W - 1 /\ s_left \in 0 .. W
  BY LineSize DEF TypeOK, IfuTypeOK, IcacheTypeOK, SlaveTypeOK, icache!Words
<1>u. icache!WORDS_PER_LINE' = W /\ icache!line_base(pc)' = icache!line_base(pc')
  BY DEF icache!WORDS_PER_LINE, icache!line_base, icache!line
<1>h. state # "IDLE" \/ ifu!axi_arvalid => pc' = pc
  BY OutstandingHeld
<1>1. CASE icache!Flush \/ icache!Idle \/ icache!Hit \/ icache!Respond
  <2>1. state' = "IDLE" \/ state' = "RESP"
    BY <1>1 DEF ProtocolInv, icache!Flush, icache!Idle, icache!Hit, icache!Respond, icache!regs
  <2> QED BY <2>1 DEF RefillInv
<1>2. CASE icache!Miss
  BY <1>2, <1>h DEF RefillInv, icache!Miss, ifu!axi_araddr
<1>3. CASE slave!SlaveIdle /\ icache!SendAr /\ state' = "SEND_AR"
  BY <1>3, <1>h DEF RefillInv, icache!SendAr, icache!refill
<1>4. CASE slave!SlaveAccept /\ icache!SendAr /\ state' = "WAIT_R"
  <2>1. /\ state = "SEND_AR" /\ pc' = pc
        /\ refill_addr' = refill_addr /\ refill_cnt' = refill_cnt
        /\ req_word_offset' = req_word_offset
    BY <1>4, <1>h DEF icache!SendAr, icache!refill
  <2>2. s_left' = W /\ s_addr' = axi_out_araddr
    BY <1>4, <1>t DEF slave!SlaveAccept, icache!axi_out_arlen
  <2>3. icache!line_base(pc) \in WordAddr
    BY <1>t, Fields
  <2>4. icache!line_base(pc) + 4 * 0 = icache!line_base(pc)
    <3> HIDE DEF pc
    <3> QED BY <2>3, AddrAssumption DEF WordAddr, Addr
  <2> QED BY <1>4, <1>t, <2>1, <2>2, <2>4 DEF RefillInv
<1>5. CASE icache!RefillWait /\ slave!SlaveDelay
  BY <1>5, <1>h DEF RefillInv, icache!RefillWait, slave!SlaveDelay, icache!regs, icache!refill
<1>6. CASE icache!RefillBeat /\ slave!SlaveBeat
  <2>1. /\ state = "WAIT_R" /\ state' = "WAIT_R" /\ pc' = pc
        /\ refill_addr' = Plus(refill_addr, 4)
        /\ refill_cnt' = (refill_cnt + 1) % W
        /\ req_word_offset' = req_word_offset
        /\ s_left > 1 /\ s_left' = s_left - 1
        /\ s_addr' = Plus(s_addr, 4)
    BY <1>6, <1>h, SameParams, Zenon DEF icache!RefillBeat, slave!SlaveBeat
  <2>2. /\ refill_cnt + s_left = W
        /\ refill_addr = icache!line_base(pc) + 4 * refill_cnt
        /\ s_addr = refill_addr
        /\ req_word_offset = icache!word_offset(pc)
    BY <2>1 DEF RefillInv
  <2>3. refill_cnt + 1 \in 0 .. W - 1
    BY <1>t, <2>1, <2>2
  <2>4. refill_cnt' = refill_cnt + 1
    BY <1>t, <2>1, <2>3
  <2>5. Plus(refill_addr, 4) = icache!line_base(pc) + 4 * (refill_cnt + 1)
    BY <1>t, <2>2, <2>3, LineWord, Zenon
  <2>6. refill_cnt' + s_left' = W
    BY <1>t, <2>1, <2>2, <2>4
  <2> QED BY <2>1, <2>2, <2>4, <2>5, <2>6 DEF RefillInv
<1>7. CASE icache!RefillLast
  BY <1>7, Zenon DEF RefillInv, icache!RefillLast
<1> QED BY <1>1, <1>2, <1>3, <1>4, <1>5, <1>6, <1>7, JointStep

LEMMA RefillInit == Init => RefillInv
BY DEF Init, icache!Init, RefillInv

LEMMA RefillStutter == RefillInv /\ UNCHANGED vars => RefillInv'
BY Zenon DEF RefillInv, vars, ifuVars, ifu!regs, ifu!axiRegs, icacheVars, icache!regs,
       icache!refill, icache!outRegs, slaveVars, slave!slaveRegs

LEMMA RefillCorrect == Spec => []RefillInv
<1>1. TypeOK /\ StreamInv /\ ProtocolInv /\ RefillInv /\ [Next]_vars => RefillInv'
  BY RefillNext, RefillStutter DEF Next, ifu!Clock
<1> QED BY <1>1, RefillInit, ProtocolCorrect, PTL DEF Spec

\* A refill ends with the last word of the line it is for, in any geometry:
\* the counter of the cache and the burst of the memory agree.
THEOREM BurstIsLine == Spec => []BurstMatches
<1>1. TypeOK /\ ProtocolInv /\ RefillInv => BurstMatches
  BY DEF ProtocolInv, RefillInv, BurstMatches
<1> QED BY <1>1, ProtocolCorrect, RefillCorrect, PTL

-----------------------------------------------------------------------------
(* The words under way are fresh: the one the memory presents, those of the *)
(* line that is being written, the answer to IFU, the buffered instruction, *)
(* and those of every valid line.                                           *)

Asked(w) == icache!line_base(outstanding_pc) + 4 * w

EntryWord(i, w) ==
    (tag_array[i] * CACHE_NUM_LINES + i) * CACHE_LINE_BYTES + w * BYTE_NUM

MemFresh    == \A a \in WordAddr : mem[a] \in view[a]
BeatFresh   == s_rvalid => s_rdata \in view[s_addr]
LineFresh   == state = "WAIT_R" =>
                  \A w \in icache!Words : w < refill_cnt =>
                     data_array[icache!index(outstanding_pc)][w] \in view[Asked(w)]
AnswerFresh == axi_in_rvalid => axi_in_rdata \in view[outstanding_pc]
BufferFresh == ifu_state = "IFU_VALID" /\ ~out_exception_valid => out_inst \in view[out_pc]
EntryTyped  == \A i \in icache!Lines : valid_array[i] =>
                  \A w \in icache!Words : EntryWord(i, w) \in WordAddr

DataInv ==
    /\ MemFresh /\ BeatFresh /\ LineFresh /\ AnswerFresh /\ BufferFresh
    /\ EntryTyped /\ CacheCoherent

SafeInv == TypeOK /\ StreamInv /\ ProtocolInv /\ RefillInv

\* Only a flush makes the view of a word smaller.
LEMMA ViewNext ==
    ASSUME TypeOK, Next, NEW a \in WordAddr
    PROVE  /\ mem'[a] \in view'[a]
           /\ ~out_icache_flush => view[a] \subseteq view'[a]
BY Zenon DEF TypeOK, SlaveTypeOK, Next, port!ViewClock

LEMMA BeatNext ==
    ASSUME SafeInv, MemFresh, BeatFresh, Next
    PROVE  BeatFresh'
<1>t. TypeOK /\ ProtocolInv /\ s_addr \in WordAddr /\ axi_out_araddr \in WordAddr
  BY DEF SafeInv, TypeOK, SlaveTypeOK, IcacheTypeOK
<1>v. \A a \in WordAddr : ~out_icache_flush => mem[a] \in view'[a] /\ view[a] \subseteq view'[a]
  BY <1>t, ViewNext DEF MemFresh
<1>c. icache!Clock /\ slave!SlaveClock
  BY DEF Next
<1>1. CASE slave!SlaveIdle
  BY <1>1, <1>t DEF slave!SlaveIdle, ProtocolInv, BeatFresh
<1>2. CASE slave!SlaveAccept /\ icache!SendAr
  <2>1. ~out_icache_flush /\ s_addr' = axi_out_araddr
    BY <1>2 DEF icache!SendAr, slave!SlaveAccept
  <2>2. s_rvalid' => s_rdata' = mem[axi_out_araddr]
    BY <1>2 DEF slave!SlaveAccept, slave!Deliver
  <2> QED BY <1>t, <1>v, <2>1, <2>2 DEF BeatFresh
<1>3. CASE icache!RefillWait /\ slave!SlaveDelay
  <2>1. ~out_icache_flush /\ s_addr' = s_addr
    BY <1>3 DEF icache!RefillWait, slave!SlaveDelay
  <2>2. s_rvalid' => s_rdata' = mem[s_addr]
    BY <1>3 DEF slave!SlaveDelay, slave!Deliver
  <2> QED BY <1>t, <1>v, <2>1, <2>2 DEF BeatFresh
<1>4. CASE icache!RefillBeat /\ slave!SlaveBeat
  <2>1. ~out_icache_flush /\ s_addr' = Plus(s_addr, 4)
    BY <1>4, SameParams DEF icache!RefillBeat, slave!SlaveBeat
  <2>2. s_rvalid' => s_rdata' = mem[Plus(s_addr, 4)]
    BY <1>4, SameParams DEF slave!SlaveBeat, slave!Deliver
  <2> QED BY <1>t, <1>v, <2>1, <2>2, PlusWord DEF BeatFresh
<1>5. CASE slave!SlaveLast
  BY <1>5 DEF slave!SlaveLast, BeatFresh
<1> QED BY <1>t, <1>c, <1>1, <1>2, <1>3, <1>4, <1>5, JointStep

\* Where the refill writes.
LEMMA RefillPlace ==
    ASSUME SafeInv, state = "WAIT_R"
    PROVE  /\ icache!index(refill_addr) = icache!index(outstanding_pc)
           /\ icache!tag(refill_addr) = icache!tag(outstanding_pc)
           /\ icache!word_offset(refill_addr) = refill_cnt
           /\ s_addr = Asked(refill_cnt)
           /\ refill_addr = Asked(refill_cnt)
<1>1. /\ outstanding_pc \in WordAddr /\ refill_cnt \in icache!Words
      /\ refill_addr = Asked(refill_cnt) /\ s_addr = refill_addr
  BY DEF SafeInv, TypeOK, IfuTypeOK, IcacheTypeOK, RefillInv, Asked
<1>2. /\ icache!line(refill_addr) = icache!line(outstanding_pc)
      /\ icache!word_offset(refill_addr) = refill_cnt
  BY <1>1, LineWord, Zenon DEF Asked
<1> QED BY <1>1, <1>2 DEF icache!index, icache!tag

LEMMA LineNext ==
    ASSUME SafeInv, BeatFresh, LineFresh, Next
    PROVE  LineFresh'
<1> DEFINE pc == outstanding_pc
           j == icache!index(pc)
           W == icache!WORDS_PER_LINE
<1>t. /\ TypeOK /\ ProtocolInv /\ RefillInv
      /\ pc \in WordAddr /\ j \in icache!Lines
      /\ W \in Nat \ {0} /\ icache!Words = 0 .. W - 1 /\ refill_cnt \in 0 .. W - 1
      /\ data_array \in [icache!Lines -> [icache!Words -> Data]]
  BY LineSize, Fields, Zenon DEF SafeInv, TypeOK, IfuTypeOK, IcacheTypeOK, icache!Words
<1>v. \A w \in icache!Words : ~out_icache_flush => view[Asked(w)] \subseteq view'[Asked(w)]
  BY <1>t, ViewNext, LineWord, Zenon DEF Asked
<1>c. icache!Clock /\ slave!SlaveClock /\ ifu!AxiFsm
  BY DEF Next, ifu!Clock
<1>h. state # "IDLE" => pc' = pc
  BY <1>t, <1>c, OutstandingHeld
<1>1. CASE state' # "WAIT_R"
  BY <1>1 DEF LineFresh
<1>2. CASE icache!SendAr /\ state' = "WAIT_R"
  <2>1. refill_cnt' = 0
    BY <1>2, <1>t DEF icache!SendAr, icache!refill, RefillInv
  <2> QED BY <2>1, <1>t DEF LineFresh, icache!Words, icache!WORDS_PER_LINE
<1>3. CASE icache!RefillWait
  <2>1. /\ state = "WAIT_R" /\ ~out_icache_flush /\ pc' = pc
        /\ refill_cnt' = refill_cnt /\ data_array' = data_array
    BY <1>3, <1>h DEF icache!RefillWait, icache!regs, icache!refill, icache!arrays
  <2> QED BY <2>1, <1>v, Zenon DEF LineFresh, Asked
<1>4. CASE icache!RefillBeat /\ slave!SlaveBeat
  <2>1. /\ state = "WAIT_R" /\ ~out_icache_flush /\ pc' = pc
        /\ refill_cnt' = (refill_cnt + 1) % W
        /\ data_array' = [data_array EXCEPT ![j] =
                             [data_array[j] EXCEPT ![refill_cnt] = s_rdata]]
        /\ s_rvalid /\ s_addr = Asked(refill_cnt) /\ s_left > 1
    BY Zenon, <1>4, <1>h, <1>t, RefillPlace
    DEF icache!RefillBeat, icache!refilled_line, slave!SlaveBeat
  <2>2. refill_cnt' = refill_cnt + 1
    <3>1. refill_cnt + s_left = W /\ s_left \in Nat
      BY <1>t, <2>1 DEF RefillInv, TypeOK, SlaveTypeOK
    <3>2. s_left > 1 /\ refill_cnt' = (refill_cnt + 1) % W
      BY <2>1
    <3>3. refill_cnt + 1 \in 0 .. W - 1
      BY <1>t, <3>1, <3>2
    <3>4. (refill_cnt + 1) % W = refill_cnt + 1
      BY <1>t, <3>3, SmallMod, Zenon
    <3> QED BY <3>2, <3>4
  <2>3. s_rdata \in view[Asked(refill_cnt)]
    BY <2>1 DEF BeatFresh
  <2> SUFFICES ASSUME NEW w \in icache!Words, w < refill_cnt + 1
               PROVE  data_array'[j][w] \in view'[Asked(w)]
    BY <2>1, <2>2 DEF LineFresh, Asked
  <2>4. CASE w = refill_cnt
    <3>1. data_array'[j][w] = s_rdata
      BY <1>t, <2>1, <2>4
    <3> QED BY <1>v, <2>1, <2>3, <2>4, <3>1
  <2>5. CASE w # refill_cnt
    <3>1. data_array'[j][w] = data_array[j][w]
      BY <1>t, <2>1, <2>5
    <3>2. w < refill_cnt
      BY <1>t, <2>5
    <3>3. data_array[j][w] \in view[Asked(w)]
      BY <2>1, <3>2 DEF LineFresh
    <3> QED BY <1>v, <2>1, <3>1, <3>3
  <2> QED BY <2>4, <2>5, Zenon
<1>5. CASE icache!Flush \/ icache!Idle \/ icache!Hit \/ icache!Miss \/ icache!Respond
           \/ icache!RefillLast
  <2>1. state' # "WAIT_R"
    BY <1>5, <1>t, Zenon DEF ProtocolInv, icache!Flush, icache!Idle, icache!Hit, icache!Miss,
       icache!Respond, icache!RefillLast, icache!regs
  <2> QED BY <1>1, <2>1
<1> QED BY <1>t, <1>c, <1>1, <1>2, <1>3, <1>4, <1>5, JointStep

\* What IFU is answered from a valid line, or at the end of a refill.
LEMMA AnswerRead ==
    ASSUME SafeInv, DataInv, icache!Hit \/ icache!RefillLast
    PROVE  axi_in_rdata' \in view[outstanding_pc]
<1> DEFINE pc == outstanding_pc
           j == icache!index(pc)
           o == icache!word_offset(pc)
           W == icache!WORDS_PER_LINE
<1>t. /\ RefillInv
      /\ pc \in WordAddr /\ j \in icache!Lines /\ o \in icache!Words
      /\ W \in Nat \ {0} /\ icache!Words = 0 .. W - 1 /\ refill_cnt \in 0 .. W - 1
      /\ pc = Asked(o)
  BY LineSize, Fields, Zenon DEF SafeInv, TypeOK, IfuTypeOK, IcacheTypeOK, icache!Words, Asked
<1>1. CASE icache!Hit
  <2>1. /\ state = "IDLE"
        /\ axi_in_rdata' = data_array[j][o]
        /\ valid_array[j] /\ tag_array[j] = icache!tag(pc)
    BY <1>1, Zenon DEF icache!Hit, icache!hit, ifu!axi_araddr
  <2>2. data_array[j][o] \in view[EntryWord(j, o)]
    BY <1>t, <2>1, Zenon DEF DataInv, CacheCoherent, EntryWord
  <2>3. EntryWord(j, o) = Asked(o)
    <3>1. tag_array[j] * CACHE_NUM_LINES + j = icache!line(pc)
      BY <1>t, <2>1, Fields, Zenon
    <3>2. o * BYTE_NUM = 4 * o
      BY <1>t DEF BYTE_NUM
    <3> QED BY <3>1, <3>2 DEF EntryWord, Asked, icache!line_base
  <2> QED BY <1>t, <2>1, <2>2, <2>3, Zenon
<1>2. CASE icache!RefillLast
  <2>1. /\ state = "WAIT_R"
        /\ axi_in_rdata' = IF o = refill_cnt THEN s_rdata ELSE data_array[j][o]
        /\ s_rvalid /\ s_left = 1 /\ s_addr = Asked(refill_cnt)
    BY <1>2, <1>t, RefillPlace, Zenon DEF icache!RefillLast, RefillInv
  <2>2. o = refill_cnt \/ o < refill_cnt
    BY <1>t, <2>1 DEF RefillInv
  <2> QED BY <1>t, <2>1, <2>2, Zenon DEF DataInv, BeatFresh, LineFresh
<1> QED BY <1>1, <1>2

LEMMA AnswerNext ==
    ASSUME SafeInv, DataInv, Next
    PROVE  AnswerFresh'
<1> DEFINE pc == outstanding_pc
<1>t. TypeOK /\ ProtocolInv /\ pc \in WordAddr
  BY DEF SafeInv, TypeOK, IfuTypeOK
<1>v. ~out_icache_flush => view[pc] \subseteq view'[pc]
  BY <1>t, ViewNext
<1>c. icache!Clock /\ ifu!AxiFsm
  BY DEF Next, ifu!Clock
<1>h. state # "IDLE" \/ ifu!axi_arvalid => pc' = pc
  BY <1>t, <1>c, OutstandingHeld
<1>1. CASE ~axi_in_rvalid'
  BY <1>1 DEF AnswerFresh
<1>2. CASE icache!Hit \/ icache!RefillLast
  <2>1. ~out_icache_flush /\ pc' = pc
    BY <1>2, <1>h DEF icache!Hit, icache!RefillLast
  <2> QED BY <1>2, <1>v, <2>1, AnswerRead DEF AnswerFresh
<1>3. CASE icache!Respond
  <2>1. /\ state = "RESP" /\ ~out_icache_flush /\ pc' = pc
        /\ axi_in_rdata' = axi_in_rdata
    BY <1>3, <1>h DEF icache!Respond
  <2>2. axi_in_rvalid
    BY <1>t, <2>1 DEF ProtocolInv
  <2> QED BY <1>v, <2>1, <2>2 DEF AnswerFresh, DataInv
<1>4. CASE icache!Flush \/ icache!Idle \/ icache!Miss \/ icache!SendAr
           \/ icache!RefillWait \/ icache!RefillBeat
  <2>1. axi_in_rvalid' = axi_in_rvalid /\ state # "RESP"
    BY <1>4, <1>t, Zenon DEF ProtocolInv, icache!Flush, icache!Idle, icache!Miss, icache!SendAr,
       icache!RefillWait, icache!RefillBeat, icache!regs, icache!inRegs
  <2>2. ~axi_in_rvalid
    BY <1>t, <2>1 DEF ProtocolInv
  <2> QED BY <1>1, <2>1, <2>2
<1> QED BY <1>c, <1>1, <1>2, <1>3, <1>4 DEF icache!Clock

\* The instruction IFU keeps is the answer it accepted.
LEMMA BufferNext ==
    ASSUME SafeInv, AnswerFresh, BufferFresh, Next
    PROVE  BufferFresh'
<1>t. /\ TypeOK /\ ProtocolInv /\ outstanding_pc \in WordAddr
      /\ ifu_state = "IFU_VALID" /\ ~out_exception_valid => out_pc \in WordAddr
  BY Zenon DEF SafeInv, TypeOK, IfuTypeOK, ProtocolInv
<1>v. \A a \in WordAddr : ~out_icache_flush => view[a] \subseteq view'[a]
  BY <1>t, ViewNext
<1>f. out_icache_flush => ifu_state = "IFU_EMPTY" /\ fencei_state # "FENCEI_IDLE"
  BY <1>t DEF ProtocolInv
<1>1. CASE ifu!IfuAccept
  <2>1. /\ axi_in_rvalid /\ out_inst' = axi_in_rdata /\ out_pc' = outstanding_pc
        /\ ~out_icache_flush
    BY <1>1, <1>f DEF ifu!IfuAccept, ifu!ifu_r_fire, ifu!keep_response
  <2> QED BY <1>t, <1>v, <2>1 DEF AnswerFresh, BufferFresh
<1>2. CASE ifu!IfuHold
  <2>1. /\ ifu_state = "IFU_VALID" /\ out_exception_valid' = out_exception_valid
        /\ out_inst' = out_inst /\ out_pc' = out_pc
    BY <1>2 DEF ifu!IfuHold, ifu!ifuRegs
  <2> QED BY <1>t, <1>v, <1>f, <2>1 DEF BufferFresh
<1>3. CASE ifu!IfuRedirect \/ ifu!IfuFenceiDone \/ ifu!IfuStayEmpty \/ ifu!IfuHandOver
  BY <1>3, Zenon DEF ifu!IfuRedirect, ifu!IfuFenceiDone, ifu!IfuStayEmpty, ifu!IfuHandOver,
     ifu!ifuRegs, BufferFresh
<1>4. CASE ifu!IfuMisaligned
  BY <1>4 DEF ifu!IfuMisaligned, BufferFresh
<1> QED BY <1>1, <1>2, <1>3, <1>4 DEF Next, ifu!Clock, ifu!IfuFsm

\* A valid line is coherent: it stays so when the cache leaves it alone, and
\* becomes so with the last word of its refill.
LEMMA EntryNext ==
    ASSUME SafeInv, DataInv, Next
    PROVE  EntryTyped' /\ CacheCoherent'
<1> DEFINE pc == outstanding_pc
           j == icache!index(pc)
           W == icache!WORDS_PER_LINE
           Writing(i) == state = "WAIT_R" /\ icache!index(refill_addr) = i
<1>t. /\ TypeOK /\ ProtocolInv /\ RefillInv
      /\ pc \in WordAddr /\ j \in icache!Lines
      /\ W \in Nat \ {0} /\ icache!Words = 0 .. W - 1 /\ refill_cnt \in 0 .. W - 1
      /\ tag_array \in [icache!Lines -> Nat]
      /\ valid_array \in [icache!Lines -> BOOLEAN]
      /\ data_array \in [icache!Lines -> [icache!Words -> Data]]
  BY LineSize, Fields, Zenon DEF SafeInv, TypeOK, IfuTypeOK, IcacheTypeOK, icache!Words
<1>v. \A a \in WordAddr : ~out_icache_flush => view[a] \subseteq view'[a]
  BY <1>t, ViewNext, Zenon
<1>w. icache!Words' = icache!Words /\ icache!Lines' = icache!Lines
  BY DEF icache!Words, icache!WORDS_PER_LINE, icache!Lines
<1>i. \A i \in icache!Lines : valid_array[i] =>
         \A w \in icache!Words :
            /\ EntryWord(i, w) \in WordAddr
            /\ ~Writing(i) => data_array[i][w] \in view[EntryWord(i, w)]
  BY Zenon DEF DataInv, EntryTyped, CacheCoherent, EntryWord
<1> SUFFICES ASSUME NEW i \in icache!Lines, NEW w \in icache!Words, valid_array'[i]
             PROVE  /\ EntryWord(i, w)' \in WordAddr
                    /\ ~Writing(i)' => data_array'[i][w] \in view'[EntryWord(i, w)']
  BY <1>w DEF EntryTyped, CacheCoherent, EntryWord
<1>1. ASSUME ~out_icache_flush, valid_array[i], tag_array'[i] = tag_array[i],
             ~Writing(i)' => ~Writing(i) /\ data_array'[i] = data_array[i]
      PROVE  /\ EntryWord(i, w)' \in WordAddr
             /\ ~Writing(i)' => data_array'[i][w] \in view'[EntryWord(i, w)']
  <2>1. EntryWord(i, w)' = EntryWord(i, w)
    BY <1>1, Zenon DEF EntryWord
  <2> QED BY <1>1, <1>i, <1>v, <2>1, Zenon
<1>2. CASE icache!Flush
  BY <1>2, ZenonT(30) DEF icache!Flush
<1>3. CASE icache!Idle \/ icache!Hit \/ icache!Miss \/ icache!Respond
  <2>1. ~out_icache_flush /\ state # "WAIT_R"
        /\ valid_array' = valid_array /\ tag_array' = tag_array /\ data_array' = data_array
    BY <1>3 DEF icache!Idle, icache!Hit, icache!Miss, icache!Respond, icache!regs, icache!arrays
  <2> QED BY <1>1, <2>1, Zenon
<1>4. CASE icache!SendAr \/ icache!RefillWait
  <2>1. /\ ~out_icache_flush
        /\ valid_array' = valid_array /\ tag_array' = tag_array /\ data_array' = data_array
    BY <1>4 DEF icache!SendAr, icache!RefillWait, icache!regs, icache!arrays
  <2>2. state = "WAIT_R" => state' = "WAIT_R" /\ refill_addr' = refill_addr
    BY <1>4 DEF icache!SendAr, icache!RefillWait, icache!regs, icache!refill
  <2>3. ~Writing(i)' => ~Writing(i)
    BY <2>2 DEF icache!index, icache!line
  <2> QED BY <1>1, <2>1, <2>3, Zenon
<1>5. CASE icache!RefillBeat /\ slave!SlaveBeat
  <2>1. /\ state = "WAIT_R" /\ state' = "WAIT_R" /\ ~out_icache_flush
        /\ valid_array' = valid_array /\ tag_array' = tag_array
        /\ data_array' = [data_array EXCEPT ![icache!index(refill_addr)] = icache!refilled_line]
    BY <1>5 DEF icache!RefillBeat, slave!SlaveBeat
  <2>2. icache!index(refill_addr) = j /\ icache!index(refill_addr)' = j
    <3>1. refill_addr' = Plus(Asked(refill_cnt), 4) /\ s_left > 1
      BY <1>5, <2>1, RefillPlace, SameParams, Zenon DEF icache!RefillBeat, slave!SlaveBeat
    <3>2. refill_cnt + 1 \in icache!Words
      <4>1. refill_cnt + s_left = W /\ s_left \in Nat
        BY <1>t, <2>1 DEF RefillInv, TypeOK, SlaveTypeOK
      <4> QED BY <1>t, <3>1, <4>1
    <3>3. refill_addr' = Asked(refill_cnt + 1)
      BY <1>t, <3>1, <3>2, LineWord, Zenon DEF Asked
    <3>4. icache!line(refill_addr') = icache!line(pc)
      BY <1>t, <3>2, <3>3, LineWord, Zenon DEF Asked
    <3>5. icache!index(refill_addr)' = j
      BY <3>4, Zenon DEF icache!index, icache!line
    <3> QED BY <2>1, <3>5, RefillPlace
  <2>3. ~Writing(i)' => ~Writing(i) /\ data_array'[i] = data_array[i]
    BY <1>t, <2>1, <2>2
  <2> QED BY <1>1, <2>1, <2>3, Zenon
<1>6. CASE icache!RefillLast
  <2>1. /\ state = "WAIT_R" /\ state' = "RESP" /\ ~out_icache_flush
        /\ s_rvalid /\ s_left = 1 /\ s_addr = Asked(refill_cnt)
        /\ valid_array' = [valid_array EXCEPT ![j] = TRUE]
        /\ tag_array' = [tag_array EXCEPT ![j] = icache!tag(pc)]
        /\ data_array' = [data_array EXCEPT ![j] =
                             [data_array[j] EXCEPT ![refill_cnt] = s_rdata]]
    BY <1>6, RefillPlace, Zenon DEF icache!RefillLast, icache!refilled_line
  <2>2. CASE i # j
    <3>1. icache!index(refill_addr) = j
      BY <2>1, RefillPlace
    <3>2. /\ valid_array'[i] = valid_array[i] /\ tag_array'[i] = tag_array[i]
          /\ data_array'[i] = data_array[i]
      BY <1>t, <2>1, <2>2, ZenonT(30)
    <3> QED BY <1>1, <2>1, <2>2, <3>1, <3>2, Zenon
  <2>3. CASE i = j
    <3>1. EntryWord(i, w)' = Asked(w)
      <4>1. tag_array'[i] * CACHE_NUM_LINES + i = icache!line(pc)
        BY <1>t, <2>1, <2>3, Fields, Zenon
      <4>2. w * BYTE_NUM = 4 * w
        BY <1>t DEF BYTE_NUM
      <4> QED BY <4>1, <4>2 DEF EntryWord, Asked, icache!line_base
    <3>2. Asked(w) \in WordAddr
      BY <1>t, LineWord, Zenon DEF Asked
    <3>3. w = refill_cnt \/ w < refill_cnt
      BY <1>t, <2>1 DEF RefillInv
    <3>4. data_array'[j][w] \in view[Asked(w)]
      <4>1. CASE w = refill_cnt
        <5>1. data_array'[j][w] = s_rdata
          BY <1>t, <2>1, <4>1
        <5> QED BY <2>1, <4>1, <5>1 DEF DataInv, BeatFresh
      <4>2. CASE w # refill_cnt
        <5>1. data_array'[j][w] = data_array[j][w]
          BY <1>t, <2>1, <4>2
        <5> QED BY <2>1, <3>3, <4>2, <5>1 DEF DataInv, LineFresh
      <4> QED BY <4>1, <4>2, Zenon
    <3> QED BY <1>v, <2>1, <2>3, <3>1, <3>2, <3>4
  <2> QED BY <2>2, <2>3, Zenon
<1>c. icache!Clock /\ slave!SlaveClock
  BY DEF Next
<1> QED BY <1>c, <1>t, <1>2, <1>3, <1>4, <1>5, <1>6, JointStep, Zenon

LEMMA DataInit == Init => DataInv
<1> SUFFICES ASSUME Init PROVE DataInv
  OBVIOUS
<1>1. MemFresh
  BY ProgramAssumption DEF Init, CoreInit, port!ViewInit, MemFresh
<1>2. \A i \in icache!Lines : ~valid_array[i]
  BY Zenon DEF Init, icache!Init
<1>3. ~s_rvalid /\ state = "IDLE" /\ ~axi_in_rvalid /\ ifu_state = "IFU_EMPTY"
  BY DEF Init, ifu!Init, icache!Init, slave!SlaveInit
<1> QED BY <1>1, <1>2, <1>3, Zenon DEF DataInv, BeatFresh, LineFresh, AnswerFresh, BufferFresh,
           EntryTyped, CacheCoherent

LEMMA DataNext == SafeInv /\ DataInv /\ Next => DataInv'
<1> SUFFICES ASSUME SafeInv, DataInv, Next PROVE DataInv'
  OBVIOUS
<1>1. MemFresh'
  BY ViewNext DEF SafeInv, MemFresh, WordAddr, Addr, BYTE_NUM
<1>2. BeatFresh' /\ LineFresh' /\ AnswerFresh' /\ BufferFresh'
  BY BeatNext, LineNext, AnswerNext, BufferNext DEF DataInv
<1>3. EntryTyped' /\ CacheCoherent'
  BY EntryNext
<1> QED BY <1>1, <1>2, <1>3 DEF DataInv

LEMMA DataStutter == DataInv /\ UNCHANGED vars => DataInv'
<1> SUFFICES ASSUME DataInv, UNCHANGED vars PROVE DataInv'
  OBVIOUS
<1> USE DEF vars, ifuVars, ifu!regs, ifu!axiRegs, ifu!ifuRegs, icacheVars, icache!regs,
            icache!arrays, icache!refill, icache!inRegs, slaveVars, slave!slaveRegs
<1>1. MemFresh' /\ BeatFresh' /\ AnswerFresh' /\ BufferFresh'
  BY Zenon DEF DataInv, MemFresh, BeatFresh, AnswerFresh, BufferFresh
<1>2. LineFresh'
  BY Zenon DEF DataInv, LineFresh, Asked
<1>3. EntryTyped' /\ CacheCoherent'
  BY Zenon DEF DataInv, EntryTyped, CacheCoherent, EntryWord
<1> QED BY <1>1, <1>2, <1>3, Zenon DEF DataInv

LEMMA DataCorrect == Spec => [](SafeInv /\ DataInv)
<1>1. SafeInv /\ DataInv /\ [Next]_vars => DataInv'
  BY DataNext, DataStutter
<1>2. TypeOK /\ StreamInv /\ ProtocolInv /\ RefillInv <=> SafeInv
  BY DEF SafeInv
<1> QED BY <1>1, <1>2, DataInit, ProtocolCorrect, RefillCorrect, PTL DEF Spec

\* The decoder is never given a word of another address, or one from before the
\* last fence.i, for every geometry of the cache and every program.
THEOREM InstructionsFresh == Spec => []InstFresh
<1>1. SafeInv /\ DataInv => InstFresh
  BY DEF SafeInv, ProtocolInv, DataInv, BufferFresh, InstFresh, ifu!out_valid
<1> QED BY <1>1, DataCorrect, PTL

\* Every word of every valid line has been at its address since the last flush.
THEOREM CacheIsCoherent == Spec => []CacheCoherent
<1>1. DataInv => CacheCoherent
  BY DEF DataInv
<1> QED BY <1>1, DataCorrect, PTL

-----------------------------------------------------------------------------
(***************************************************************************)
(* ICACHE in front of the memory implements InstPort, whatever its          *)
(* geometry: every clock edge is a step of the port or leaves it alone.      *)
(***************************************************************************)

LEMMA BarInit == Init => port!PortInit /\ port!ViewInit
BY DEF Init, icache!Init, port!PortInit, port_state_bar, port_addr_bar, port_data_bar

\* A refill is for the word that the port is asked for.
BarAddr ==
    port_addr_bar = IF state \in {"SEND_AR", "WAIT_R"} THEN outstanding_pc ELSE 0

LEMMA BarAddrHolds == SafeInv => BarAddr
<1> SUFFICES ASSUME SafeInv, state \in {"SEND_AR", "WAIT_R"}
             PROVE  icache!line_base(refill_addr) + req_word_offset * 4 = outstanding_pc
  BY SameParams DEF port_addr_bar, BarAddr
<1>1. /\ outstanding_pc \in WordAddr /\ 0 \in icache!Words
      /\ req_word_offset = icache!word_offset(outstanding_pc)
  BY LineSize DEF SafeInv, RefillInv, TypeOK, IfuTypeOK, icache!Words
<1>2. icache!line(refill_addr) = icache!line(outstanding_pc)
  <2>1. PICK c \in icache!Words :
           refill_addr = icache!line_base(outstanding_pc) + 4 * c
    <3>1. CASE state = "SEND_AR"
      <4>1. icache!line_base(outstanding_pc) \in Nat
        BY <1>1, Fields, AddrAssumption DEF WordAddr, Addr
      <4>2. icache!line_base(outstanding_pc) + 4 * 0 = icache!line_base(outstanding_pc)
        BY <4>1
      <4> QED BY <3>1, <1>1, <4>2 DEF SafeInv, RefillInv
    <3>2. CASE state = "WAIT_R"
      BY <3>2 DEF SafeInv, RefillInv, TypeOK, IcacheTypeOK
    <3> QED BY <3>1, <3>2
  <2> QED BY <1>1, <2>1, LineWord
<1>3. icache!line_base(refill_addr) = icache!line_base(outstanding_pc)
  BY <1>2 DEF icache!line_base
<1>4. outstanding_pc = icache!line_base(outstanding_pc) + 4 * req_word_offset
  BY <1>1, Fields
<1>5. req_word_offset * 4 = 4 * req_word_offset
  BY DEF SafeInv, TypeOK, IcacheTypeOK, icache!Words
<1> QED BY <1>3, <1>4, <1>5

LEMMA PortNext ==
    ASSUME SafeInv, DataInv, BarAddr, BarAddr', Next
    PROVE  port!PortClock
<1> DEFINE pc == outstanding_pc
<1>t. /\ TypeOK /\ ProtocolInv
      /\ state \in {"IDLE", "RESP", "SEND_AR", "WAIT_R"}
  BY DEF SafeInv, TypeOK, IcacheTypeOK
<1>c. icache!Clock /\ ifu!AxiFsm
  BY DEF Next, ifu!Clock
<1>h. state # "IDLE" \/ ifu!axi_arvalid => pc' = pc
  BY <1>t, <1>c, OutstandingHeld
<1>s. /\ state = "IDLE" => port_state_bar = "idle"
      /\ state = "RESP" => port_state_bar = "answer"
      /\ state \in {"SEND_AR", "WAIT_R"} => port_state_bar = "busy"
      /\ state' = "IDLE" => port_state_bar' = "idle"
      /\ state' = "RESP" => port_state_bar' = "answer"
      /\ state' \in {"SEND_AR", "WAIT_R"} => port_state_bar' = "busy"
  BY DEF port_state_bar
<1>d. /\ state # "RESP" => port_data_bar = 0
      /\ state = "RESP" => port_data_bar = axi_in_rdata
      /\ state' # "RESP" => port_data_bar' = 0
      /\ state' = "RESP" => port_data_bar' = axi_in_rdata'
  BY DEF port_data_bar
<1>a. /\ state \in {"SEND_AR", "WAIT_R"} => port_addr_bar = pc
      /\ state \notin {"SEND_AR", "WAIT_R"} => port_addr_bar = 0
      /\ state' \in {"SEND_AR", "WAIT_R"} => port_addr_bar' = pc'
      /\ state' \notin {"SEND_AR", "WAIT_R"} => port_addr_bar' = 0
  BY DEF BarAddr
<1>1. CASE icache!Flush \/ icache!Idle
  <2>1. state = "IDLE" /\ state' = "IDLE" /\ ~ifu!axi_arvalid
    BY <1>1, <1>t DEF ProtocolInv, icache!Flush, icache!Idle, icache!regs, ifu!axi_arvalid
  <2>2. port!PortQuiet
    BY <1>s, <1>d, <1>a, <2>1 DEF port!PortQuiet, port!portRegs
  <2> QED BY <2>2 DEF port!PortClock
<1>2. CASE icache!Hit
  <2>1. /\ state = "IDLE" /\ state' = "RESP" /\ ifu!axi_arvalid /\ ~out_icache_flush
        /\ axi_in_rdata' \in view[pc]
    BY <1>2, AnswerRead, Zenon DEF icache!Hit
  <2>2. port!Answer(ifu!axi_araddr)
    BY <1>s, <1>d, <1>a, <2>1 DEF port!Answer, ifu!axi_araddr
  <2> QED BY <1>s, <2>1, <2>2 DEF port!PortAccept, port!PortClock
<1>3. CASE icache!Miss
  <2>1. /\ state = "IDLE" /\ state' = "SEND_AR" /\ ifu!axi_arvalid /\ ~out_icache_flush
        /\ pc' = pc
    BY <1>3, <1>h DEF icache!Miss
  <2>2. port_state_bar' = "busy" /\ port_addr_bar' = ifu!axi_araddr /\ UNCHANGED port_data_bar
    BY <1>s, <1>d, <1>a, <2>1 DEF ifu!axi_araddr
  <2> QED BY <1>s, <2>1, <2>2 DEF port!PortAccept, port!PortClock
<1>4. CASE icache!Respond
  <2>1. /\ state = "RESP" /\ ~out_icache_flush /\ axi_in_rdata' = axi_in_rdata
        /\ IF ifu!axi_rready THEN state' = "IDLE" ELSE state' = "RESP"
    <3>1. state = "RESP" /\ ~out_icache_flush /\ axi_in_rdata' = axi_in_rdata
      BY <1>4 DEF icache!Respond
    <3>2. axi_in_rvalid
      BY <1>t, <3>1 DEF ProtocolInv
    <3>3. CASE ifu!axi_rready
      BY <1>4, <3>1, <3>2, <3>3 DEF icache!Respond
    <3>4. CASE ~ifu!axi_rready
      <4>1. state' = state
        BY <1>4, <3>4, ZenonT(30) DEF icache!Respond
      <4> QED BY <3>1, <3>4, <4>1
    <3> QED BY <3>3, <3>4
  <2>2. CASE ifu!axi_rready
    BY <1>s, <1>d, <1>a, <2>1, <2>2 DEF port!PortTake, port!PortClock
  <2>3. CASE ~ifu!axi_rready
    BY <1>s, <1>d, <1>a, <2>1, <2>3 DEF port!PortTake, port!PortClock, port!portRegs
  <2> QED BY <2>2, <2>3
<1>5. CASE icache!SendAr \/ icache!RefillWait \/ icache!RefillBeat
  <2>1. state \in {"SEND_AR", "WAIT_R"} /\ ~out_icache_flush
    BY <1>5 DEF icache!SendAr, icache!RefillWait, icache!RefillBeat
  <2>2. state' \in {"SEND_AR", "WAIT_R"}
    BY <1>5 DEF icache!SendAr, icache!RefillWait, icache!RefillBeat, icache!regs
  <2>3. pc' = pc
    BY <1>h, <2>1
  <2> QED BY <1>s, <1>d, <1>a, <2>1, <2>2, <2>3
          DEF port!PortBusy, port!PortClock, port!portRegs
<1>6. CASE icache!RefillLast
  <2>1. /\ state = "WAIT_R" /\ state' = "RESP" /\ ~out_icache_flush
        /\ axi_in_rdata' \in view[pc]
    BY <1>6, AnswerRead, Zenon DEF icache!RefillLast
  <2>2. port!Answer(port_addr_bar)
    BY <1>s, <1>d, <1>a, <2>1, Zenon DEF port!Answer
  <2> QED BY <1>s, <2>1, <2>2 DEF port!PortBusy, port!PortClock
<1> QED BY <1>c, <1>1, <1>2, <1>3, <1>4, <1>5, <1>6 DEF icache!Clock

LEMMA PortStutter == UNCHANGED vars => UNCHANGED <<port!portRegs, view, mem>>
BY DEF vars, icacheVars, icache!regs, icache!refill, icache!inRegs, port!portRegs,
       port_state_bar, port_addr_bar, port_data_bar

\* ICACHE and the memory behind it are the port that IFU may rely on: one read
\* at a time, answered with a value its word has had since the last flush.
THEOREM PortImplemented == Spec => ImplementsInstPort
<1>1. SafeInv /\ DataInv /\ BarAddr /\ BarAddr' /\ [Next]_vars
         => [port!PortClock /\ port!ViewClock]_<<port!portRegs, view, mem>>
  BY PortNext, PortStutter DEF Next
<1>2. Init => port!PortInit /\ port!ViewInit
  BY BarInit
<1> QED BY <1>1, <1>2, BarAddrHolds, DataCorrect, PTL DEF Spec, ImplementsInstPort, port!PortSpec

-----------------------------------------------------------------------------
(***************************************************************************)
(* Behind the cache the bus sees FetchMaster, which Bus puts in its place.  *)
(***************************************************************************)

LEMMA MasterNext ==
    ASSUME SafeInv, Next
    PROVE  master!MasterClock
<1> DEFINE LinesAsked == {a \in Addr : a % CACHE_LINE_BYTES = 0}
<1>t. /\ TypeOK /\ ProtocolInv /\ icache!Clock
      /\ state \in {"IDLE", "RESP", "SEND_AR", "WAIT_R"}
  BY DEF SafeInv, TypeOK, IcacheTypeOK, Next
<1>s. /\ state \in {"IDLE", "RESP"} => fm_state_bar = "idle" /\ fm_addr_bar = 0
      /\ state = "SEND_AR" => fm_state_bar = "req" /\ fm_addr_bar = axi_out_araddr
      /\ state = "WAIT_R" => fm_state_bar = "wait" /\ fm_addr_bar = 0
  BY DEF fm_state_bar, fm_addr_bar
<1>p. /\ state' \in {"IDLE", "RESP"} => fm_state_bar' = "idle" /\ fm_addr_bar' = 0
      /\ state' = "SEND_AR" => fm_state_bar' = "req" /\ fm_addr_bar' = axi_out_araddr'
      /\ state' = "WAIT_R" => fm_state_bar' = "wait" /\ fm_addr_bar' = 0
  BY DEF fm_state_bar, fm_addr_bar
<1>1. CASE icache!Flush \/ icache!Idle \/ icache!Hit \/ icache!Respond
  <2>1. state \in {"IDLE", "RESP"} /\ state' \in {"IDLE", "RESP"}
    BY <1>1, <1>t, Zenon DEF ProtocolInv, icache!Flush, icache!Idle, icache!Hit, icache!Respond,
       icache!regs
  <2> QED BY <1>s, <1>p, <2>1 DEF master!MasterWait, master!MasterClock, master!masterRegs
<1>2. CASE icache!Miss
  <2>1. /\ state = "IDLE" /\ state' = "SEND_AR"
        /\ axi_out_araddr' = icache!line_base(outstanding_pc)
    BY <1>2 DEF icache!Miss, ifu!axi_araddr
  <2>2. icache!line_base(outstanding_pc) \in LinesAsked
    <3>1. /\ icache!line_base(outstanding_pc) \in WordAddr
          /\ icache!line(outstanding_pc) \in Nat
      BY <1>t, Fields DEF TypeOK, IfuTypeOK
    <3>2. icache!line_base(outstanding_pc) % CACHE_LINE_BYTES = 0
      <4>1. CACHE_LINE_BYTES \in Nat \ {0} /\ 0 \in 0 .. CACHE_LINE_BYTES - 1
        BY CacheAssumption
      <4>2. (icache!line(outstanding_pc) * CACHE_LINE_BYTES + 0) % CACHE_LINE_BYTES = 0
        BY <3>1, <4>1, DivModUnique
      <4>3. icache!line(outstanding_pc) * CACHE_LINE_BYTES + 0
              = icache!line(outstanding_pc) * CACHE_LINE_BYTES
        BY <3>1, <4>1
      <4> QED BY <4>2, <4>3 DEF icache!line_base
    <3> QED BY <3>1, <3>2 DEF WordAddr
  <2>3. fm_addr_bar' \in LinesAsked
    BY <1>p, <2>1, <2>2
  <2> HIDE DEF LinesAsked
  <2>4. master!MasterAsk
    BY <1>s, <1>p, <2>1, <2>3 DEF master!MasterAsk, LinesAsked
  <2> QED BY <2>4 DEF master!MasterClock
<1>3. CASE icache!SendAr
  <2>1. state = "SEND_AR" /\ axi_out_arvalid /\ axi_out_araddr' = axi_out_araddr
    BY <1>3, <1>t DEF icache!SendAr, ProtocolInv
  <2>2. CASE s_arready
    <3>1. state' = "WAIT_R"
      BY <1>3, <2>1, <2>2 DEF icache!SendAr
    <3> QED BY <1>s, <1>p, <2>1, <2>2, <3>1 DEF master!MasterAccepted, master!MasterClock
  <2>3. CASE ~s_arready
    <3>1. state' = state
      BY <1>3, <2>3, ZenonT(30) DEF icache!SendAr
    <3> QED BY <1>s, <1>p, <2>1, <2>3, <3>1
            DEF master!MasterWait, master!MasterClock, master!masterRegs
  <2> QED BY <2>2, <2>3
<1>4. CASE icache!RefillWait \/ icache!RefillBeat
  <2>1. state = "WAIT_R" /\ state' = "WAIT_R" /\ ~(s_rvalid /\ s_left = 1)
    BY <1>4 DEF icache!RefillWait, icache!RefillBeat, icache!regs
  <2> QED BY <1>s, <1>p, <2>1 DEF master!MasterWait, master!MasterClock, master!masterRegs
<1>5. CASE icache!RefillLast
  <2>1. state = "WAIT_R" /\ state' = "RESP" /\ s_rvalid /\ s_left = 1
    BY <1>5 DEF icache!RefillLast
  <2> QED BY <1>s, <1>p, <2>1 DEF master!MasterServed, master!MasterClock
<1> QED BY <1>t, <1>1, <1>2, <1>3, <1>4, <1>5 DEF icache!Clock

\* IFU and ICACHE are the master that Bus assumes, for every geometry: they ask
\* for whole lines, one at a time, keep a request until it is accepted and take
\* every beat of a burst.
THEOREM MasterImplemented == Spec => ImplementsFetchMaster
<1>1. SafeInv /\ [Next]_vars => [master!MasterClock]_master!masterRegs
  <2>1. UNCHANGED vars => UNCHANGED master!masterRegs
    BY DEF vars, icacheVars, icache!regs, icache!outRegs, master!masterRegs, fm_state_bar,
           fm_addr_bar
  <2> QED BY <2>1, MasterNext
<1>2. Init => master!MasterInit
  BY DEF Init, icache!Init, master!MasterInit, fm_state_bar, fm_addr_bar
<1> QED BY <1>1, <1>2, DataCorrect, PTL DEF Spec, ImplementsFetchMaster, master!MasterSpec
=============================================================================
