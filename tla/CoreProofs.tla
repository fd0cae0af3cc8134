----------------------------- MODULE CoreProofs -----------------------------
(***************************************************************************)
(* A fence.i is alone in the pipeline, for every program, every word size  *)
(* and whatever the memories' delays.                                      *)
(***************************************************************************)
EXTENDS Core, TLAPS

\* The time a prover may take for a step.
USE SMTT(20), ZenonT(30)

FenceTypes ==
    /\ idu_valid \in BOOLEAN /\ exu_valid \in BOOLEAN /\ lsu_out_valid \in BOOLEAN
    /\ fence_pending \in BOOLEAN /\ out_fencei_flush_done \in BOOLEAN
    /\ fencei_state \in {"FENCEI_IDLE", "FENCEI_WAIT", "FENCEI_BUSY"}
    /\ lsu_state \in {"LSU_IDLE", "LSU_READ_ADDR", "LSU_WAIT_R",
                      "LSU_WRITE_REQ", "LSU_WAIT_B", "LSU_DONE"}

\* A fence.i is no jump, no trap and no access.
Plain(u) == ~u.is_jal /\ ~u.is_jalr /\ ~u.is_branch /\ ~u.trap_valid /\ ~u.is_load /\ ~u.is_store

\* What the decoder makes true of an instruction, and EXU keeps.
Decoded ==
    /\ idu_valid => (idu_uop.is_fencei => Plain(idu_uop)) /\ ~(idu_uop.is_load /\ idu_uop.is_store)
    /\ exu_valid => /\ exu_uop.is_fencei => ~exu_uop.is_load /\ ~exu_uop.is_store
                    /\ ~(exu_uop.is_load /\ exu_uop.is_store)

Quiet == ~idu_valid /\ ~exu_valid /\ lsu_state = "LSU_IDLE"

\* A fence.i that IDU has taken is in exactly one place: in IDU, in EXU, in LSU
\* for its commit, with IFU, or reported.  Behind it there is nothing.
FencePlace ==
    /\ idu_valid => (idu_uop.is_fencei <=> fence_pending)
    /\ exu_valid /\ exu_uop.is_fencei => fence_pending /\ ~idu_valid
    /\ out_fencei_done => fence_pending /\ Quiet
    /\ fencei_state # "FENCEI_IDLE" => fence_pending /\ Quiet /\ ~lsu_out_valid
    /\ out_fencei_flush_done => fence_pending /\ Quiet /\ ~lsu_out_valid /\ fencei_state = "FENCEI_IDLE"

\* A fence.i never waits in LSU.
LsuOut ==
    /\ lsu_state # "LSU_IDLE" => ~lsu_out_uop.is_fencei
    /\ lsu_out_valid => lsu_state \in {"LSU_IDLE", "LSU_DONE"}

\* The write slave is busy exactly while LSU waits for its answer.
WriteSlave ==
    /\ lsu_awvalid <=> lsu_state = "LSU_WRITE_REQ"
    /\ lsu_wvalid <=> lsu_state = "LSU_WRITE_REQ"
    /\ w_awready <=> w_wready
    /\ w_addr # << >> <=> lsu_state = "LSU_WAIT_B"
    /\ w_data # << >> <=> lsu_state = "LSU_WAIT_B"
    /\ w_bvalid => lsu_state = "LSU_WAIT_B"

FenceInv == FenceTypes /\ Decoded /\ FencePlace /\ LsuOut /\ WriteSlave

-----------------------------------------------------------------------------
(* What a clock edge does to each stage. *)

Taken == idu!idu_in_fire
Enters == exu_valid /\ lsu_out_ready

LEMMA DecodedPlain ==
  /\ idu!decoded.is_fencei => Plain(idu!decoded)
  /\ ~(idu!decoded.is_load /\ idu!decoded.is_store)
<1>1. /\ idu!decoded.is_fencei = (idu!f.op = "MISC_MEM" /\ idu!f.funct3 = 1)
      /\ idu!decoded.is_load = (idu!f.op = "LOAD")
      /\ idu!decoded.is_store = (idu!f.op = "STORE")
  BY DEF idu!decoded
<1>2. /\ idu!decoded.is_jal = (idu!f.op = "JAL")
      /\ idu!decoded.is_jalr = (idu!f.op = "JALR" /\ idu!f.funct3 = 0)
      /\ idu!decoded.is_branch = (idu!f.op = "BRANCH")
  BY DEF idu!decoded, idu!is_jalr
<1>3. idu!decoded.trap_valid = (idu!is("ecall") \/ idu!is("mret"))
  BY DEF idu!decoded
<1>4. idu!is("ecall") \/ idu!is("mret") => idu!f.op = "SYSTEM"
  BY DEF idu!is
<1> QED BY <1>1, <1>2, <1>3, <1>4, ZenonT(30) DEF Plain

IduMoves ==
    /\ idu_valid' \in BOOLEAN /\ fence_pending' \in BOOLEAN
    /\ Taken => ~fence_pending /\ ~redirect
    /\ fence_pending' <=> /\ ~redirect
                          /\ \/ Taken /\ idu!decoded.is_fencei
                             \/ fence_pending /\ ~out_fencei_flush_done
    /\ idu_valid' => /\ ~redirect
                     /\ \/ Taken /\ idu_uop' = idu!decoded
                        \/ ~Taken /\ idu_valid /\ ~exu!out_ready /\ idu_uop' = idu_uop

LEMMA IduSteps ==
  ASSUME Cycle, FenceTypes
  PROVE  IduMoves
<1>1. idu!FencePending /\ (idu!IduFlush \/ idu!IduTake \/ idu!IduPass)
  BY DEF Cycle, idu!IduClock
<1>2. Taken => ~fence_pending /\ ~redirect
  BY DEF Taken, idu!idu_in_fire, idu!out_ready
<1>3. /\ fence_pending' \in BOOLEAN
      /\ fence_pending' <=> /\ ~redirect
                            /\ \/ Taken /\ idu!decoded.is_fencei
                               \/ fence_pending /\ ~out_fencei_flush_done
  BY <1>1, Zenon DEF idu!FencePending, Taken
<1>4. idu_valid' \in BOOLEAN
  BY <1>1, Zenon DEF idu!IduFlush, idu!IduTake, idu!IduPass
<1>5. idu_valid' => /\ ~redirect
                    /\ \/ Taken /\ idu_uop' = idu!decoded
                       \/ ~Taken /\ idu_valid /\ ~exu!out_ready /\ idu_uop' = idu_uop
  BY <1>1, Zenon DEF idu!IduFlush, idu!IduTake, idu!IduPass, Taken
<1> QED BY <1>2, <1>3, <1>4, <1>5, Zenon DEF IduMoves

ExuMoves ==
    /\ exu_valid' \in BOOLEAN
    /\ exu_valid' => \/ /\ idu_valid /\ exu!out_ready
                        /\ exu_uop'.is_fencei = idu_uop.is_fencei
                        /\ exu_uop'.is_load = idu_uop.is_load
                        /\ exu_uop'.is_store = idu_uop.is_store
                     \/ exu_valid /\ ~lsu_out_ready /\ exu_uop' = exu_uop

LEMMA ExuSteps ==
  ASSUME Cycle, FenceTypes
  PROVE  ExuMoves
<1>1. exu!ExuTake \/ exu!ExuPass
  BY DEF Cycle, exu!ExuClock
<1>2. CASE exu!ExuTake
  BY <1>2 DEF exu!ExuTake, exu!exu_in_fire, ExuMoves
<1>3. CASE exu!ExuPass
  BY <1>3, Zenon DEF exu!ExuPass, ExuMoves
<1> QED BY <1>1, <1>2, <1>3

FenceiMoves ==
    /\ fencei_state' \in {"FENCEI_IDLE", "FENCEI_WAIT", "FENCEI_BUSY"}
    /\ out_fencei_flush_done' \in BOOLEAN
    /\ fencei_state' # "FENCEI_IDLE" => fencei_state # "FENCEI_IDLE" \/ out_fencei_done
    /\ out_fencei_flush_done' => fencei_state = "FENCEI_BUSY" /\ fencei_state' = "FENCEI_IDLE"

LEMMA FenceiSteps ==
  ASSUME Cycle, FenceTypes
  PROVE  FenceiMoves
<1>1. ifu!FenceiIdle \/ ifu!FenceiWait \/ ifu!FenceiBusy
  BY DEF Cycle, ifu!Clock, ifu!FenceiFsm
<1>2. CASE ifu!FenceiIdle
  <2>1. /\ fencei_state' = IF out_fencei_done THEN "FENCEI_WAIT" ELSE "FENCEI_IDLE"
        /\ out_fencei_flush_done' = FALSE
    BY <1>2, Zenon DEF ifu!FenceiIdle
  <2>2. /\ fencei_state' \in {"FENCEI_IDLE", "FENCEI_WAIT"}
        /\ fencei_state' # "FENCEI_IDLE" => out_fencei_done
    BY <2>1
  <2> QED BY <2>1, <2>2, ZenonT(30) DEF FenceiMoves
<1>3. CASE ifu!FenceiWait
  <2>1. /\ fencei_state = "FENCEI_WAIT" /\ out_fencei_flush_done' = FALSE
        /\ fencei_state' = "FENCEI_BUSY" \/ fencei_state' = fencei_state
    BY <1>3, Zenon DEF ifu!FenceiWait
  <2>2. fencei_state # "FENCEI_IDLE"
    BY <2>1
  <2> QED BY <2>1, <2>2, ZenonT(30) DEF FenceiMoves
<1>4. CASE ifu!FenceiBusy
  BY <1>4, Zenon DEF ifu!FenceiBusy, FenceiMoves
<1> QED BY <1>1, <1>2, <1>3, <1>4

\* LSU: where it goes, and what it holds.
LsuMoves ==
    /\ lsu_state' \in {"LSU_IDLE", "LSU_READ_ADDR", "LSU_WAIT_R",
                       "LSU_WRITE_REQ", "LSU_WAIT_B", "LSU_DONE"}
    /\ lsu_out_valid' \in BOOLEAN
    /\ lsu_state' # "LSU_IDLE" =>
          \/ lsu_state # "LSU_IDLE" /\ lsu_out_uop' = lsu_out_uop
          \/ /\ Enters /\ (exu_uop.is_load \/ exu_uop.is_store)
             /\ lsu_out_uop'.is_fencei = exu_uop.is_fencei
    /\ lsu_out_valid' =>
          \/ /\ lsu_state # "LSU_IDLE" /\ lsu_out_uop' = lsu_out_uop
             /\ lsu_state' = "LSU_DONE"
          \/ /\ Enters /\ lsu_state' = "LSU_IDLE"
             /\ lsu_out_uop'.is_fencei = exu_uop.is_fencei

LEMMA LsuSteps ==
  ASSUME Cycle, FenceTypes
  PROVE  LsuMoves
<1>1. /\ lsu_state' = lsu!next_state
      /\ lsu!OutValid /\ lsu!Capture
  BY DEF Cycle, lsu!Clock
<1>2. lsu!in_fire <=> Enters
  BY DEF lsu!in_fire, lsu!out_ready, Enters, lsu_out_ready
<1>3. /\ Enters => lsu_out_uop'.is_fencei = exu_uop.is_fencei
      /\ ~Enters => lsu_out_uop' = lsu_out_uop
  BY <1>1, <1>2 DEF lsu!Capture
<1>4. Enters => lsu_state = "LSU_IDLE" /\ ~lsu_out_valid
  BY DEF Enters, lsu_out_ready
<1>5. /\ lsu_out_valid' \in BOOLEAN
      /\ lsu_out_valid' <=> \/ s_rvalid /\ lsu_state = "LSU_WAIT_R"
                            \/ w_bvalid /\ lsu_state = "LSU_WAIT_B"
                            \/ Enters /\ ~exu_uop.is_load /\ ~exu_uop.is_store
  BY <1>1, <1>2 DEF lsu!OutValid, lsu!r_fire, lsu!axi_rready, lsu!b_fire, lsu!axi_bready,
        lsu!in_plain, lsu!out_fire
<1>6. lsu_state' = CASE lsu_state = "LSU_IDLE" /\ Enters /\ exu_uop.is_load -> "LSU_READ_ADDR"
      [] lsu_state = "LSU_IDLE" /\ ~(Enters /\ exu_uop.is_load) /\ Enters /\ exu_uop.is_store -> "LSU_WRITE_REQ"
      [] lsu_state = "LSU_READ_ADDR" /\ lsu!ar_fire                  -> "LSU_WAIT_R"
      [] lsu_state = "LSU_WAIT_R" /\ s_rvalid                     -> "LSU_DONE"
      [] lsu_state = "LSU_WRITE_REQ" /\ lsu!aw_fire /\ lsu!w_fire -> "LSU_WAIT_B"
      [] lsu_state = "LSU_WAIT_B" /\ w_bvalid                     -> "LSU_DONE"
      [] lsu_state = "LSU_DONE" /\ lsu_out_valid                  -> "LSU_IDLE"
      [] OTHER                                                    -> lsu_state
  BY <1>1, <1>2 DEF lsu!next_state, lsu!in_load, lsu!in_store, lsu!r_fire, lsu!axi_rready,
        lsu!b_fire, lsu!axi_bready, lsu!out_fire
<1>7. lsu_state' \in {"LSU_IDLE", "LSU_READ_ADDR", "LSU_WAIT_R",
                      "LSU_WRITE_REQ", "LSU_WAIT_B", "LSU_DONE"}
  BY <1>6 DEF FenceTypes
<1>8. lsu_state' # "LSU_IDLE" =>
          \/ lsu_state # "LSU_IDLE" /\ lsu_out_uop' = lsu_out_uop
          \/ /\ Enters /\ (exu_uop.is_load \/ exu_uop.is_store)
             /\ lsu_out_uop'.is_fencei = exu_uop.is_fencei
  BY <1>3, <1>4, <1>6 DEF FenceTypes
<1>9. lsu_out_valid' =>
          \/ /\ lsu_state # "LSU_IDLE" /\ lsu_out_uop' = lsu_out_uop
             /\ lsu_state' = "LSU_DONE"
          \/ /\ Enters /\ lsu_state' = "LSU_IDLE"
             /\ lsu_out_uop'.is_fencei = exu_uop.is_fencei
  BY <1>3, <1>4, <1>5, <1>6
<1> QED BY <1>5, <1>7, <1>8, <1>9, ZenonT(30) DEF LsuMoves

-----------------------------------------------------------------------------
(* The invariant.  From here on the stages are what the lemmas above say. *)

\* A store in LSU, its channels and the slave go on together.
LEMMA WriteSteps ==
  ASSUME Cycle, FenceInv
  PROVE  WriteSlave'
<1>1. /\ lsu_state' = lsu!next_state
      /\ lsu!AwChannel /\ lsu!WChannel
      /\ writes!WriteClock
  BY DEF Cycle, lsu!Clock
<1>2. FenceTypes /\ Decoded /\ LsuOut /\ WriteSlave
  BY DEF FenceInv
<1> DEFINE Store == lsu!in_store
           Load == lsu!in_load
<1>3. Load \/ Store => lsu_state = "LSU_IDLE" /\ ~(Load /\ Store)
  BY <1>2 DEF lsu!in_store, lsu!in_load, lsu!in_fire, lsu!out_ready, Decoded
<1>4. /\ lsu_awvalid' <=> Store \/ (lsu_state = "LSU_WRITE_REQ" /\ ~w_awready)
      /\ lsu_wvalid' <=> Store \/ (lsu_state = "LSU_WRITE_REQ" /\ ~w_wready)
  <2>1. /\ lsu_awvalid' = (Store \/ (lsu_awvalid /\ ~(lsu_awvalid /\ w_awready)))
        /\ lsu_wvalid' = (Store \/ (lsu_wvalid /\ ~(lsu_wvalid /\ w_wready)))
    BY <1>1, Zenon DEF lsu!AwChannel, lsu!WChannel, lsu!aw_fire, lsu!w_fire
  <2>2. (lsu_awvalid <=> lsu_state = "LSU_WRITE_REQ") /\ (lsu_wvalid <=> lsu_state = "LSU_WRITE_REQ")
    BY <1>2 DEF WriteSlave
  <2> HIDE DEF Store
  <2> QED BY <2>1, <2>2, Zenon
<1>5. /\ lsu_state' = "LSU_WRITE_REQ" <=> Store \/ (lsu_state = "LSU_WRITE_REQ" /\ ~w_awready)
      /\ lsu_state' = "LSU_WAIT_B" <=> \/ lsu_state = "LSU_WRITE_REQ" /\ w_awready
                                       \/ lsu_state = "LSU_WAIT_B" /\ ~w_bvalid
  <2>1. /\ lsu!aw_fire /\ lsu!w_fire <=> lsu_state = "LSU_WRITE_REQ" /\ w_awready
        /\ lsu!b_fire <=> w_bvalid
    BY <1>2 DEF lsu!aw_fire, lsu!w_fire, lsu!b_fire, lsu!axi_bready, WriteSlave
  <2> HIDE DEF Store, Load
  <2>2. lsu_state' = CASE lsu_state = "LSU_IDLE" /\ Load -> "LSU_READ_ADDR"
      [] lsu_state = "LSU_IDLE" /\ ~Load /\ Store              -> "LSU_WRITE_REQ"
      [] lsu_state = "LSU_READ_ADDR" /\ lsu!ar_fire            -> "LSU_WAIT_R"
      [] lsu_state = "LSU_WAIT_R" /\ lsu!r_fire                -> "LSU_DONE"
      [] lsu_state = "LSU_WRITE_REQ" /\ w_awready              -> "LSU_WAIT_B"
      [] lsu_state = "LSU_WAIT_B" /\ w_bvalid                  -> "LSU_DONE"
      [] lsu_state = "LSU_DONE" /\ lsu!out_fire                -> "LSU_IDLE"
      [] OTHER                                                 -> lsu_state
    BY <1>1, <2>1 DEF lsu!next_state, Store, Load
  <2> QED BY <1>3, <2>2
<1> HIDE DEF Store, Load
<1>6. /\ w_awready' <=> w_wready'
      /\ w_addr' # << >> <=> (lsu_state = "LSU_WRITE_REQ" /\ w_awready) \/ (lsu_state = "LSU_WAIT_B" /\ ~w_bvalid)
      /\ w_data' # << >> <=> (lsu_state = "LSU_WRITE_REQ" /\ w_awready) \/ (lsu_state = "LSU_WAIT_B" /\ ~w_bvalid)
      /\ w_bvalid' => lsu_state = "LSU_WAIT_B" /\ ~w_bvalid
  <2>1. CASE writes!WriteCollect
    BY <1>2, <2>1 DEF writes!WriteCollect, WriteSlave
  <2>2. CASE writes!WriteDelay
    BY <1>2, <2>2 DEF writes!WriteDelay, writes!writeRegs, WriteSlave
  <2>3. CASE writes!WritePerform
    BY <1>2, <2>3 DEF writes!WritePerform, WriteSlave
  <2>4. CASE writes!WriteHold
    BY <1>2, <2>4 DEF writes!WriteHold, WriteSlave
  <2>5. CASE writes!WriteAnswered
    BY <1>2, <2>5 DEF writes!WriteAnswered, WriteSlave
  <2> QED BY <1>1, <2>1, <2>2, <2>3, <2>4, <2>5 DEF writes!WriteClock
<1> QED
  <2>1. w_awready => w_wready
    BY <1>2 DEF WriteSlave
  <2>2. w_wready => w_awready
    BY <1>2 DEF WriteSlave
  <2> QED BY <1>4, <1>5, <1>6, <2>1, <2>2 DEF WriteSlave

\* While a fence.i is in the pipeline, EXU does not redirect: what EXU could be
\* taking is the fence itself.
LEMMA NoRedirect ==
  ASSUME FenceInv, fence_pending
  PROVE  ~redirect
<1>1. CASE ~idu_valid
  BY <1>1 DEF redirect, exu!out_redirect_fire, exu!exu_in_fire
<1>2. CASE idu_valid
  <2>1. Plain(idu_uop)
    BY <1>2 DEF FenceInv, FencePlace, Decoded
  <2>2. ~exu!redirect_valid
    BY <2>1 DEF Plain, exu!redirect_valid, exu!taken
  <2> QED BY <2>2 DEF redirect, exu!out_redirect_fire
<1> QED BY <1>1, <1>2

\* A fence.i that is on its way stays pending, and nothing is taken behind it.
LEMMA Pending ==
  ASSUME Cycle, FenceInv, fence_pending
  PROVE  /\ ~out_fencei_flush_done => fence_pending'
         /\ ~Taken
         /\ idu_valid' => idu_valid /\ ~exu!out_ready /\ idu_uop' = idu_uop
<1>1. IduMoves
  BY IduSteps DEF FenceInv
<1> QED BY <1>1, NoRedirect DEF IduMoves

LEMMA DecodedKept ==
  ASSUME Cycle, FenceInv
  PROVE  Decoded'
<1>1. IduMoves /\ ExuMoves /\ Decoded
  BY IduSteps, ExuSteps DEF FenceInv
<1>2. (idu_valid => (idu_uop.is_fencei => Plain(idu_uop)) /\ ~(idu_uop.is_load /\ idu_uop.is_store))'
  <2>1. CASE Taken /\ idu_uop' = idu!decoded
    BY <2>1, DecodedPlain DEF Plain
  <2>2. CASE idu_valid /\ idu_uop' = idu_uop
    BY <1>1, <2>2 DEF Decoded, Plain
  <2> QED BY <1>1, <2>1, <2>2 DEF IduMoves
<1>3. (exu_valid => /\ exu_uop.is_fencei => ~exu_uop.is_load /\ ~exu_uop.is_store
                    /\ ~(exu_uop.is_load /\ exu_uop.is_store))'
  BY <1>1 DEF ExuMoves, Decoded, Plain
<1> QED BY <1>2, <1>3 DEF Decoded

\* The fence moves on, and what is ahead of it has left.
LEMMA PlaceKept ==
  ASSUME Cycle, FenceInv
  PROVE  FencePlace'
<1>1. IduMoves /\ ExuMoves /\ LsuMoves /\ FenceiMoves
  BY IduSteps, ExuSteps, LsuSteps, FenceiSteps DEF FenceInv
<1>2. FencePlace /\ Decoded /\ LsuOut
  BY DEF FenceInv
<1>3. (idu_valid => (idu_uop.is_fencei <=> fence_pending))'
  <2>1. CASE Taken /\ idu_uop' = idu!decoded
    BY <1>1, <2>1 DEF IduMoves
  <2>2. CASE ~Taken /\ idu_valid /\ idu_uop' = idu_uop
    <3>1. ~out_fencei_flush_done
      BY <1>2, <2>2 DEF FencePlace, Quiet
    <3>2. ~redirect => (fence_pending' <=> fence_pending)
      BY <1>1, <2>2, <3>1 DEF IduMoves
    <3> QED BY <1>1, <1>2, <2>2, <3>2 DEF FencePlace, IduMoves
  <2> QED BY <1>1, <2>1, <2>2 DEF IduMoves
<1>4. (exu_valid /\ exu_uop.is_fencei => fence_pending /\ ~idu_valid)'
  <2> SUFFICES ASSUME exu_valid', exu_uop'.is_fencei
               PROVE  fence_pending' /\ ~idu_valid'
    OBVIOUS
  <2>1. CASE idu_valid /\ exu!out_ready /\ exu_uop'.is_fencei = idu_uop.is_fencei
    <3>1. fence_pending /\ ~out_fencei_flush_done
      BY <1>2, <2>1 DEF FencePlace, Quiet
    <3> QED BY <2>1, <3>1, Pending
  <2>2. CASE exu_valid /\ ~lsu_out_ready /\ exu_uop' = exu_uop
    <3>1. fence_pending /\ ~out_fencei_flush_done /\ ~idu_valid
      BY <1>2, <2>2 DEF FencePlace, Quiet
    <3> QED BY <3>1, Pending
  <2> QED BY <1>1, <2>1, <2>2, ZenonT(30) DEF ExuMoves
<1>5. (out_fencei_done => fence_pending /\ Quiet)'
  <2> SUFFICES ASSUME lsu_out_valid', lsu_out_uop'.is_fencei
               PROVE  fence_pending' /\ Quiet'
    BY DEF out_fencei_done, commit_fire
  <2>1. Enters /\ lsu_state' = "LSU_IDLE" /\ exu_uop.is_fencei
    BY <1>1, <1>2, Zenon DEF LsuMoves, LsuOut
  <2>2. fence_pending /\ ~out_fencei_flush_done /\ ~idu_valid
    BY <1>2, <2>1 DEF FencePlace, Quiet, Enters
  <2>3. fence_pending' /\ ~idu_valid'
    BY <2>2, Pending
  <2>4. ~exu_valid'
    BY <1>1, <2>1, <2>2 DEF ExuMoves, Enters
  <2> QED BY <2>1, <2>3, <2>4 DEF Quiet
<1>6. ASSUME fence_pending, Quiet, ~out_fencei_flush_done
      PROVE  fence_pending' /\ Quiet' /\ ~lsu_out_valid'
  <2>1. fence_pending' /\ ~idu_valid'
    BY <1>6, Pending DEF Quiet
  <2>2. ~exu_valid'
    BY <1>1, <1>6 DEF ExuMoves, Quiet
  <2>3. lsu_state' = "LSU_IDLE" /\ ~lsu_out_valid'
    BY <1>1, <1>6 DEF LsuMoves, Quiet, Enters
  <2> QED BY <2>1, <2>2, <2>3 DEF Quiet
<1>7. (fencei_state # "FENCEI_IDLE" => fence_pending /\ Quiet /\ ~lsu_out_valid)'
  <2> SUFFICES ASSUME fencei_state' # "FENCEI_IDLE"
               PROVE  fence_pending' /\ Quiet' /\ ~lsu_out_valid'
    OBVIOUS
  <2>1. fencei_state # "FENCEI_IDLE" \/ out_fencei_done
    BY <1>1 DEF FenceiMoves
  <2>2. fence_pending /\ Quiet /\ ~out_fencei_flush_done
    BY <1>2, <2>1 DEF FencePlace, out_fencei_done, commit_fire
  <2> QED BY <1>6, <2>2
<1>8. (out_fencei_flush_done =>
         fence_pending /\ Quiet /\ ~lsu_out_valid /\ fencei_state = "FENCEI_IDLE")'
  <2> SUFFICES ASSUME out_fencei_flush_done'
               PROVE  fence_pending' /\ Quiet' /\ ~lsu_out_valid' /\ fencei_state' = "FENCEI_IDLE"
    OBVIOUS
  <2>1. fencei_state = "FENCEI_BUSY" /\ fencei_state' = "FENCEI_IDLE"
    BY <1>1 DEF FenceiMoves
  <2>2. fence_pending /\ Quiet /\ ~out_fencei_flush_done
    BY <1>2, <2>1 DEF FencePlace
  <2> QED BY <1>6, <2>1, <2>2
<1> QED BY <1>3, <1>4, <1>5, <1>7, <1>8 DEF FencePlace

LEMMA FenceStep == FenceInv /\ [Next]_vars => FenceInv'
<1> SUFFICES ASSUME FenceInv, [Next]_vars
             PROVE  FenceInv'
  OBVIOUS
<1>1. CASE Cycle
  <2>1. IduMoves /\ ExuMoves /\ LsuMoves /\ FenceiMoves /\ LsuOut /\ Decoded
    BY <1>1, IduSteps, ExuSteps, LsuSteps, FenceiSteps DEF FenceInv
  <2>2. FenceTypes'
    BY <2>1 DEF IduMoves, ExuMoves, LsuMoves, FenceiMoves, FenceTypes
  <2>3. LsuOut'
    BY <2>1 DEF LsuMoves, LsuOut, Decoded, Enters
  <2> QED BY <1>1, <2>2, <2>3, DecodedKept, PlaceKept, WriteSteps DEF FenceInv
<1>2. CASE UNCHANGED vars
  <2>1. /\ idu_valid' = idu_valid /\ idu_uop' = idu_uop /\ fence_pending' = fence_pending
        /\ exu_valid' = exu_valid /\ exu_uop' = exu_uop
        /\ fencei_state' = fencei_state /\ out_fencei_flush_done' = out_fencei_flush_done
    BY <1>2 DEF vars
  <2>2. /\ lsu_state' = lsu_state /\ lsu_out_valid' = lsu_out_valid /\ lsu_out_uop' = lsu_out_uop
        /\ lsu_awvalid' = lsu_awvalid /\ lsu_wvalid' = lsu_wvalid
        /\ w_awready' = w_awready /\ w_wready' = w_wready /\ w_bvalid' = w_bvalid
        /\ w_addr' = w_addr /\ w_data' = w_data
    BY <1>2 DEF vars
  <2>3. FenceTypes'
    BY <2>1, <2>2, Zenon DEF FenceInv, FenceTypes
  <2>4. Decoded'
    BY <2>1, Zenon DEF FenceInv, Decoded, Plain
  <2>5. FencePlace'
    BY <2>1, <2>2, Zenon DEF FenceInv, FencePlace, Quiet, out_fencei_done, commit_fire
  <2>6. LsuOut'
    BY <2>2, Zenon DEF FenceInv, LsuOut
  <2>7. WriteSlave'
    BY <2>2, Zenon DEF FenceInv, WriteSlave
  <2> QED BY <2>3, <2>4, <2>5, <2>6, <2>7 DEF FenceInv
<1> QED BY <1>1, <1>2 DEF Next, Stopped

LEMMA FenceStart == Init => FenceInv
<1> SUFFICES ASSUME Init
             PROVE  FenceInv
  OBVIOUS
<1>1. /\ idu_valid = FALSE /\ fence_pending = FALSE /\ exu_valid = FALSE
      /\ fencei_state = "FENCEI_IDLE" /\ out_fencei_flush_done = FALSE
  BY Zenon DEF Init, idu!IduInit, exu!ExuInit, ifu!Init
<1>2. /\ lsu_state = "LSU_IDLE" /\ lsu_out_valid = FALSE
      /\ lsu_awvalid = FALSE /\ lsu_wvalid = FALSE
      /\ w_awready = FALSE /\ w_wready = FALSE /\ w_bvalid = FALSE
      /\ w_addr = << >> /\ w_data = << >>
  BY Zenon DEF Init, lsu!Init, writes!WriteInit
<1>3. FenceTypes
  BY <1>1, <1>2, Zenon DEF FenceTypes
<1>4. Decoded /\ FencePlace
  BY <1>1, <1>2 DEF Decoded, FencePlace, out_fencei_done, commit_fire
<1>5. LsuOut /\ WriteSlave
  BY <1>1, <1>2 DEF LsuOut, WriteSlave
<1> QED BY <1>3, <1>4, <1>5 DEF FenceInv

\* From the commit of a fence.i until the flush is reported the pipeline is empty,
\* no store is on its way and nothing is redirected, whatever the program and the
\* memories' delays: IDU takes nothing behind it, LSU commits in order, and a
\* store commits only when it has been answered.
THEOREM FenceIsAlone == Spec => []FenceiSerialises
<1>1. FenceInv => FenceiSerialises
  <2> SUFFICES ASSUME FenceInv
               PROVE  FenceiSerialises
    OBVIOUS
  <2>1. FencePlace /\ WriteSlave
    BY DEF FenceInv
  <2>2. fence_pending => ~redirect
    BY NoRedirect
  <2>3. fencei_state # "FENCEI_IDLE" \/ out_fencei_done \/ out_fencei_flush_done =>
          fence_pending /\ Quiet
    BY <2>1 DEF FencePlace
  <2>4. Quiet => w_addr = << >> /\ w_data = << >>
    BY <2>1 DEF Quiet, WriteSlave
  <2>5. out_fencei_done => fencei_state = "FENCEI_IDLE" /\ ~out_fencei_flush_done
    BY <2>1 DEF FencePlace, out_fencei_done, commit_fire
  <2> QED BY <2>2, <2>3, <2>4, <2>5 DEF FenceiSerialises, Quiet
<1> QED BY <1>1, FenceStart, FenceStep, PTL DEF Spec
=============================================================================
