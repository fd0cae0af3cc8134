------------------------------ MODULE NemuMmc -------------------------------
(***************************************************************************)
(* NEMU's SD card: the controller (nemu/src/device/sdcard.c) and the Linux *)
(* driver for it (nemu/resource/sdcard/nemu.c).                            *)
(***************************************************************************)
EXTENDS Integers, Sequences

-----------------------------------------------------------------------------
(***************************************************************************)
(* NEMU's SD card controller (nemu/src/device/sdcard.c): the registers the *)
(* driver of nemu/resource/sdcard/nemu.c uses, and the card image as a     *)
(* file of words.  dev.pos is the position of the stream fp, which is why  *)
(* the order of the accesses matters: every access of SDDATA moves it.     *)
(***************************************************************************)

CONSTANTS Words,      \* the words of the image: 0 .. n
          Images,     \* what the image may hold at first
          Values,     \* what a word holds
          BlkWords,   \* words of a block: 128
          ExtCsd      \* the words of the extended CSD, one block

VARIABLES card,       \* the image behind fp
          dev         \* [data, addr, write_cmd, read_ext_csd, pos]

\* Faulty variant of prepare_rw: the stream is not moved to the block.
prepare_rw_noseek(arg, is_write) ==
  dev' = [data |-> dev.data, addr |-> 0, write_cmd |-> is_write,
          read_ext_csd |-> dev.read_ext_csd, pos |-> dev.pos]

\* prepare_rw: blk_addr << 9 is the first word of the block in SDARG.
prepare_rw(arg, is_write) ==
  dev' = [data |-> dev.data, addr |-> 0, write_cmd |-> is_write,
          read_ext_csd |-> dev.read_ext_csd, pos |-> arg * BlkWords]

\* sdcard_handle_cmd after the write of SDARG.  The commands that only leave
\* a fixed answer in SDRSP0 to SDRSP3, or nothing, are "status"; the count of
\* MMC_SET_BLOCK_COUNT is not used by anything that follows.
sdcard_handle_cmd(cmd, arg) ==
  /\ \/ cmd \in {"read", "write"} /\ prepare_rw(arg, cmd = "write")
     \/ /\ cmd = "ext"
        /\ dev' = [data |-> dev.data, addr |-> 0, write_cmd |-> dev.write_cmd,
                   read_ext_csd |-> TRUE, pos |-> dev.pos]
     \/ cmd \in {"status", "count", "stop"} /\ UNCHANGED dev
  /\ UNCHANGED card

\* An access of SDDATA: the handler runs after the store of a write, and
\* before the load of a read; dev.data is base[SDDATA].
sdcard_data(stored) ==
  LET at == dev.pos
      csd == dev.read_ext_csd
      reads == ~csd /\ ~dev.write_cmd
  IN /\ dev' =
          [data |-> IF csd THEN ExtCsd[dev.addr + 1]
                    ELSE IF reads /\ at \in Words THEN card[at] ELSE stored,
           addr |-> dev.addr + 1,
           write_cmd |-> dev.write_cmd,
           read_ext_csd |-> csd /\ dev.addr # BlkWords - 1,
           pos |-> IF csd \/ at \notin Words THEN at ELSE at + 1]
     /\ card' = IF ~csd /\ dev.write_cmd /\ at \in Words THEN [card EXCEPT ![at] = stored] ELSE card

init_sdcard ==
  /\ card \in Images
  /\ dev = [data |-> 0, addr |-> 0, write_cmd |-> FALSE, read_ext_csd |-> FALSE, pos |-> 0]

-----------------------------------------------------------------------------
(***************************************************************************)
(* The Linux driver of NEMU's SD card (nemu/resource/sdcard/nemu.c) on the *)
(* controller above.  The threads of the kernel's block layer call         *)
(* nemu_request; under the host's mutex the driver sends the commands of   *)
(* one request and moves its words one access of SDDATA at a time.         *)
(* stage is the function of the driver that runs next, in the thread that  *)
(* holds the mutex.                                                        *)
(***************************************************************************)

CONSTANTS Clients,
          Requests,   \* [op, first, length, data, sbc, stop]: see BlockDevice
          NONE

\* What the MMC core hands to the driver: reads and writes begin at a block
\* and stay on the card, and the extended CSD is read whole.
Request == [op : {"read", "write", "ext", "status", "odd"}, first : Nat, length : Nat,
            data : Seq(Values), sbc : BOOLEAN, stop : BOOLEAN]

ASSUME MmcAssumption ==
  /\ 0 \in Words /\ Words \subseteq Nat /\ Images \subseteq [Words -> Values]
  /\ BlkWords \in Nat \ {0} /\ ExtCsd \in Seq(Nat) /\ Len(ExtCsd) = BlkWords
  /\ NONE \notin Clients
  /\ Requests \subseteq Request
  /\ \A r \in Requests :
       /\ r.op \in {"read", "write"} =>
            /\ r.first \in Words /\ r.first % BlkWords = 0 /\ Len(r.data) <= r.length
            /\ \A i \in 1 .. Len(r.data) : r.first + i - 1 \in Words
       /\ r.op = "ext" => Len(r.data) = BlkWords /\ r.length = BlkWords
       /\ r.op = "status" => r.length = 0

VARIABLES client,     \* [st, req, result, error] of every thread
          host,       \* [mrq, cmd, data, data_complete, use_sbc]
          stage,
          moved       \* words that went through SDDATA for host.data

mmcVars == <<card, dev, client, host, stage, moved>>

Req == client[host.mrq].req
HasData(r) == r.op \in {"read", "write", "ext"}
SDARG(r) == r.first \div BlkWords

MmcTypeOK ==
  /\ card \in [Words -> Values]
  /\ dev.pos \in Words \cup {w + 1 : w \in Words}
  /\ host.mrq \in Clients \cup {NONE}
  /\ host.cmd \in {"none", "sbc", "cmd", "stop"}
  /\ \A c \in Clients : client[c].st \in {"idle", "waiting", "done"}
  /\ stage \in {"unlocked", "send_sbc", "send_cmd", "send_stop", "pio", "finish_data",
             "finish_command", "transfer_complete", "finish_request", "unlock"}

\* A thread of the block layer hands a request to the driver.
Submit(c) ==
  /\ client[c].st \in {"idle", "done"}
  /\ \E r \in Requests :
       client' = [client EXCEPT ![c] = [st |-> "waiting", req |-> r, result |-> <<>>, error |-> FALSE]]
  /\ UNCHANGED <<card, dev, host, stage, moved>>

\* nemu_request refuses a block size that is not a power of two before it
\* takes the mutex.
RequestRefused(c) ==
  /\ client[c].st = "waiting"
  /\ client[c].req.op = "odd"
  /\ client' = [client EXCEPT ![c] = [st |-> "done", req |-> @.req, result |-> @.result, error |-> TRUE]]
  /\ UNCHANGED <<card, dev, host, stage, moved>>

\* nemu_request up to the first command: CMD23 is only sent before reads.
nemu_request(c) ==
  /\ client[c].st = "waiting"
  /\ client[c].req.op # "odd"
  /\ stage = "unlocked"
  /\ LET r == client[c].req
         sbc == r.sbc /\ r.op = "read"
     IN /\ host' = [mrq |-> c, cmd |-> host.cmd, data |-> host.data,
                    data_complete |-> host.data_complete, use_sbc |-> sbc]
        /\ stage' = IF sbc THEN "send_sbc" ELSE "send_cmd"
  /\ UNCHANGED <<card, dev, client, moved>>

Opcode(k) == CASE k = "sbc" -> "count" [] k = "stop" -> "stop" [] OTHER -> Req.op

SendStage(k) == CASE k = "sbc" -> "send_sbc" [] k = "stop" -> "send_stop" [] OTHER -> "send_cmd"

\* nemu_send_command with nemu_prepare_data; the words follow at once.
nemu_send_command(k) ==
  /\ stage = SendStage(k)
  /\ LET data == k = "cmd" /\ HasData(Req) IN
     /\ host' = [mrq |-> host.mrq, cmd |-> k, data |-> data,
                 data_complete |-> host.data_complete /\ ~data, use_sbc |-> host.use_sbc]
     /\ moved' = IF data THEN 0 ELSE moved
     /\ stage' = IF data THEN "pio" ELSE "finish_command"
  /\ sdcard_handle_cmd(Opcode(k), IF k = "cmd" THEN SDARG(Req) ELSE 0)
  /\ UNCHANGED client

\* nemu_transfer_block_pio for every block: one word, while there is room.
nemu_transfer_pio ==
  /\ stage = "pio"
  /\ moved < Req.length
  /\ moved < Len(Req.data)
  /\ sdcard_data(IF Req.op = "write" THEN Req.data[moved + 1] ELSE dev.data)
  /\ client' = IF Req.op = "write" THEN client
               ELSE [client EXCEPT ![host.mrq].result = Append(@, dev'.data)]
  /\ moved' = moved + 1
  /\ UNCHANGED <<host, stage>>

\* All blocks are through, or sg_miter_next has found no more room.
TransferEnds ==
  /\ stage = "pio"
  /\ moved = Req.length \/ moved = Len(Req.data)
  /\ client' = [client EXCEPT ![host.mrq].error = moved < Req.length]
  /\ stage' = "finish_data"
  /\ UNCHANGED <<card, dev, host, moved>>

\* nemu_finish_data: the command is still outstanding, and completes next.
nemu_finish_data ==
  /\ stage = "finish_data"
  /\ host' = [host EXCEPT !.data_complete = TRUE]
  /\ stage' = IF host.cmd # "none" THEN "finish_command" ELSE "transfer_complete"
  /\ UNCHANGED <<card, dev, client, moved>>

\* Faulty variant of nemu_finish_command: the end of CMD12 is taken for the
\* end of a transfer that needs CMD12.
nemu_finish_command_restops ==
  /\ stage = "finish_command"
  /\ host' = [host EXCEPT !.cmd = "none"]
  /\ stage' = IF host.cmd = "sbc" THEN "send_cmd"
              ELSE IF host.cmd = "stop" THEN "send_stop"
              ELSE IF ~host.data THEN "finish_request"
              ELSE IF host.data_complete THEN "transfer_complete" ELSE "unlock"
  /\ UNCHANGED <<card, dev, client, moved>>

\* nemu_finish_command: after CMD23 the actual command, after CMD12 the end;
\* after the actual command the end, or what nemu_transfer_complete decides.
\* With data outstanding it returns, and nothing more is done.
nemu_finish_command ==
  /\ stage = "finish_command"
  /\ host' = [host EXCEPT !.cmd = IF @ = "stop" THEN @ ELSE "none"]
  /\ stage' = IF host.cmd = "sbc" THEN "send_cmd"
              ELSE IF host.cmd = "stop" \/ ~host.data THEN "finish_request"
              ELSE IF host.data_complete THEN "transfer_complete" ELSE "unlock"
  /\ UNCHANGED <<card, dev, client, moved>>

\* nemu_transfer_complete: CMD12 ends an open transfer or a failed one.
nemu_transfer_complete ==
  /\ stage = "transfer_complete"
  /\ host' = [host EXCEPT !.data = FALSE]
  /\ stage' = IF Req.stop /\ (client[host.mrq].error \/ ~host.use_sbc)
           THEN "send_stop" ELSE "finish_request"
  /\ UNCHANGED <<card, dev, client, moved>>

\* nemu_finish_request: the client hears of it while the mutex is still held.
nemu_finish_request ==
  /\ stage = "finish_request"
  /\ client' = [client EXCEPT ![host.mrq].st = "done"]
  /\ host' = [mrq |-> NONE, cmd |-> "none", data |-> FALSE,
              data_complete |-> host.data_complete, use_sbc |-> host.use_sbc]
  /\ stage' = "unlock"
  /\ UNCHANGED <<card, dev, moved>>

mutex_unlock ==
  /\ stage = "unlock"
  /\ stage' = "unlocked"
  /\ UNCHANGED <<card, dev, client, host, moved>>

MmcInit ==
  /\ init_sdcard
  /\ client = [c \in Clients |-> [st |-> "idle", req |-> NONE, result |-> <<>>, error |-> FALSE]]
  /\ host = [mrq |-> NONE, cmd |-> "none", data |-> FALSE, data_complete |-> FALSE, use_sbc |-> FALSE]
  /\ stage = "unlocked"
  /\ moved = 0

Holder ==
  \/ \E k \in {"sbc", "cmd", "stop"} : nemu_send_command(k)
  \/ nemu_transfer_pio \/ TransferEnds \/ nemu_finish_data \/ nemu_finish_command
  \/ nemu_transfer_complete \/ nemu_finish_request \/ mutex_unlock

MmcNext == Holder \/ \E c \in Clients : Submit(c) \/ nemu_request(c) \/ RequestRefused(c)

MmcSpec == MmcInit /\ [][MmcNext]_mmcVars

-----------------------------------------------------------------------------
\* No WARN_ON of the driver is ever reached: there is no request when one is
\* taken, no command and no data outstanding when a command is sent, and the
\* data are complete when the transfer is (nemu.c 184, 220, 257, 372).
NoWarning ==
  /\ stage = "unlocked" => host.mrq = NONE
  /\ stage \in {"send_sbc", "send_cmd", "send_stop"} => host.cmd = "none" /\ ~host.data
  /\ stage = "transfer_complete" => host.data_complete

\* The words of the request the card has been told to move: the actual
\* command has gone out.
Served(c) ==
  /\ host.mrq = c
  /\ host.cmd \in {"cmd", "stop"} \/ stage \in {"transfer_complete", "send_stop", "finish_request"}

Writing(w) == \E c \in Clients :
  /\ Served(c)
  /\ client[c].req.op = "write"
  /\ w \in client[c].req.first .. (client[c].req.first + Len(client[c].req.data) - 1)

card_bar == [w \in Words |-> IF Writing(w) THEN Req.data[w - Req.first + 1] ELSE card[w]]

Answer(r) ==
  CASE r.op = "read" -> [i \in DOMAIN r.data |-> card[r.first + i - 1]]
    [] r.op = "ext" -> ExtCsd
    [] OTHER -> <<>>

client_bar == [c \in Clients |->
  IF Served(c)
  THEN [st |-> "served", req |-> client[c].req, result |-> Answer(client[c].req), error |-> FALSE]
  ELSE client[c]]

Dev == INSTANCE BlockDevice WITH card <- card_bar, client <- client_bar

\* Driver and controller together are a block device: a request reads or
\* writes exactly its words, as if at once, whatever was requested before it
\* and whichever request of another thread waits behind the mutex; and the
\* driver never has to warn of a command that does not fit what it is doing.
IsQuietBlockDevice == Dev!Spec /\ [](MmcTypeOK /\ NoWarning)

\* Every request is completed: no command, no early end of data and no error
\* leaves the driver with a request it never reports (nemu.c 298-342).
RequestsComplete == \A c \in Clients : client[c].st = "waiting" ~> client[c].st = "done"
=============================================================================
