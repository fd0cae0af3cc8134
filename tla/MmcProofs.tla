----------------------------- MODULE MmcProofs ------------------------------
(***************************************************************************)
(* The controller of NEMU's SD card and the Linux driver for it implement  *)
(* a block device, for every card, every block size, every set of threads  *)
(* and every set of requests the MMC core may make.                        *)
(***************************************************************************)
EXTENDS NemuMmc, TLAPS

\* The time a prover may take for a step.
USE SMTT(20), ZenonT(30)

Data == Values \cup Nat
Stages == {"unlocked", "send_sbc", "send_cmd", "send_stop", "pio", "finish_data",
           "finish_command", "transfer_complete", "finish_request", "unlock"}

DevType == [data : Data, addr : Nat, write_cmd : BOOLEAN, read_ext_csd : BOOLEAN, pos : Nat]
ClientType == [st : {"idle", "waiting", "done"}, req : Requests \cup {NONE},
               result : Seq(Data), error : BOOLEAN]
HostType == [mrq : Clients \cup {NONE}, cmd : {"none", "sbc", "cmd", "stop"},
             data : BOOLEAN, data_complete : BOOLEAN, use_sbc : BOOLEAN]

MmcType ==
  /\ card \in [Words -> Values]
  /\ dev \in DevType /\ dev.pos \in Words \cup {w + 1 : w \in Words}
  /\ client \in [Clients -> ClientType]
  /\ host \in HostType
  /\ stage \in Stages
  /\ moved \in Nat

\* A thread that waits has handed in a request, and as long as the card has
\* not been told of it nothing has been moved for it.
WaitingOK ==
  \A c \in Clients : client[c].st = "waiting" =>
    /\ client[c].req \in Requests
    /\ ~Served(c) => client[c].result = <<>> /\ client[c].error = FALSE

Active == stage \notin {"unlocked", "unlock"}

\* The thread that holds the mutex.
HolderOK ==
  IF Active THEN host.mrq \in Clients /\ client[host.mrq].st = "waiting" /\ Req.op # "odd"
  ELSE host.mrq = NONE /\ host.cmd = "none" /\ ~host.data

Client == client[host.mrq]

\* n words of the request have gone through SDDATA.
Moved(n) ==
  /\ n <= Len(Req.data)
  /\ Req.op = "write" => Client.result = <<>> /\ \A i \in 1 .. n : card[Req.first + i - 1] = Req.data[i]
  /\ Req.op = "read" => /\ Len(Client.result) = n
                        /\ \A i \in 1 .. n : Client.result[i] = card[Req.first + i - 1]
  /\ Req.op = "ext" => /\ Len(Client.result) = n
                       /\ \A i \in 1 .. n : Client.result[i] = ExtCsd[i]
  /\ Req.op = "status" => Client.result = <<>>

\* The card is where the next word belongs.
DevOK ==
  /\ Req.op \in {"read", "write"} =>
       ~dev.read_ext_csd /\ dev.pos = Req.first + moved /\ (dev.write_cmd <=> Req.op = "write")
  /\ Req.op = "ext" => dev.addr = moved /\ (dev.read_ext_csd <=> moved < BlkWords)

Done == Moved(Len(Req.data)) /\ (Client.error <=> Len(Req.data) < Req.length)

StageOK ==
  /\ dev.read_ext_csd => stage = "pio" /\ Req.op = "ext"
  /\ stage \in {"send_sbc", "send_cmd"} => host.cmd = "none" /\ ~host.data
  /\ stage = "pio" => host.cmd = "cmd" /\ host.data /\ HasData(Req) /\ Moved(moved) /\ DevOK /\ Client.error = FALSE
  /\ stage = "finish_data" => host.cmd = "cmd" /\ host.data /\ HasData(Req) /\ Done
  /\ stage = "finish_command" =>
       /\ host.cmd \in {"sbc", "cmd", "stop"}
       /\ host.cmd \in {"cmd", "stop"} => Done
       /\ host.cmd \in {"sbc", "stop"} => ~host.data
       /\ host.data => host.data_complete
  /\ stage = "transfer_complete" => host.cmd = "none" /\ host.data_complete /\ Done
  /\ stage = "send_stop" => host.cmd = "none" /\ ~host.data /\ Done
  /\ stage = "finish_request" => Done /\ ~host.data

MmcInv == MmcType /\ WaitingOK /\ HolderOK /\ StageOK

-----------------------------------------------------------------------------
\* What the invariant says of the thread that holds the mutex.
LEMMA HolderFacts ==
  ASSUME MmcInv, Active
  PROVE  /\ host.mrq \in Clients /\ Client.st = "waiting" /\ Req \in Requests /\ Req.op # "odd"
         /\ Client \in ClientType /\ Req \in Request
  BY MmcAssumption DEF MmcInv, HolderOK, WaitingOK, MmcType, Client, Req

LEMMA HostUpdate ==
  ASSUME NEW h \in HostType, NEW b \in BOOLEAN
  PROVE  /\ [h EXCEPT !.data = b] \in HostType /\ [h EXCEPT !.data_complete = b] \in HostType
         /\ [h EXCEPT !.data = b].mrq = h.mrq /\ [h EXCEPT !.data_complete = b].mrq = h.mrq
  BY DEF HostType

\* Steps that only move the driver on.
LEMMA StageMoves ==
  ASSUME MmcInv, nemu_finish_data \/ nemu_finish_command \/ nemu_transfer_complete
  PROVE  MmcInv'
<1>1. Active
  BY DEF nemu_finish_data, nemu_finish_command, nemu_transfer_complete, Active
<1>0. host \in HostType
  BY DEF MmcInv, MmcType
<1>2. UNCHANGED <<card, dev, client, moved>> /\ host'.mrq = host.mrq /\ host' \in HostType
  <2>1. CASE nemu_finish_data
    BY <1>0, <2>1, HostUpdate, Zenon DEF nemu_finish_data
  <2>2. CASE nemu_finish_command
    BY <1>0, <2>2 DEF nemu_finish_command, HostType
  <2>3. CASE nemu_transfer_complete
    BY <1>0, <2>3, HostUpdate, Zenon DEF nemu_transfer_complete
  <2> QED BY <2>1, <2>2, <2>3
<1>3. Req' = Req /\ Client' = Client
  BY <1>2 DEF Req, Client
<1>4. Active' /\ ~dev.read_ext_csd /\ stage' \in Stages
  BY <1>1 DEF nemu_finish_data, nemu_finish_command, nemu_transfer_complete, Active, MmcInv, StageOK, Stages
<1>5. MmcType'
  BY <1>2, <1>4 DEF MmcInv, MmcType
<1>6. HolderOK'
  BY <1>1, <1>2, <1>3, <1>4 DEF MmcInv, HolderOK
<1>7. Done => Done'
  BY <1>2, <1>3 DEF Done, Moved
<1>f. ASSUME nemu_finish_command
      PROVE  /\ host'.data = host.data /\ host'.data_complete = host.data_complete
             /\ \/ host.cmd = "sbc" /\ host'.cmd = "none" /\ stage' = "send_cmd" /\ ~host.data
                \/ host.cmd = "stop" /\ host'.cmd = "stop" /\ stage' = "finish_request" /\ ~host.data /\ Done
                \/ host.cmd = "cmd" /\ host'.cmd = "none" /\ stage' = "finish_request" /\ ~host.data /\ Done
                \/ /\ host.cmd = "cmd" /\ host'.cmd = "none" /\ stage' = "transfer_complete"
                   /\ host.data_complete /\ Done
  <2>1. /\ host.cmd \in {"sbc", "cmd", "stop"}
        /\ host.cmd \in {"cmd", "stop"} => Done
        /\ host.cmd \in {"sbc", "stop"} => ~host.data
        /\ host.data => host.data_complete
    BY <1>f DEF nemu_finish_command, MmcInv, StageOK
  <2>2. /\ host'.data = host.data /\ host'.data_complete = host.data_complete
        /\ host'.cmd = IF host.cmd = "stop" THEN "stop" ELSE "none"
    BY <1>0, <1>f DEF nemu_finish_command, HostType
  <2>3. CASE host.cmd = "sbc"
    <3>1. stage' = "send_cmd"
      BY <1>f, <2>3, Zenon DEF nemu_finish_command
    <3> QED BY <2>1, <2>2, <2>3, <3>1
  <2>4. CASE host.cmd = "stop"
    <3>1. stage' = "finish_request"
      BY <1>f, <2>4, <2>1, Zenon DEF nemu_finish_command
    <3> QED BY <2>1, <2>2, <2>4, <3>1
  <2>5. CASE host.cmd = "cmd" /\ ~host.data
    <3>1. stage' = "finish_request"
      BY <1>f, <2>5, <2>1, Zenon DEF nemu_finish_command
    <3> QED BY <2>1, <2>2, <2>5, <3>1
  <2>6. CASE host.cmd = "cmd" /\ host.data
    <3>1. stage' = "transfer_complete"
      BY <1>f, <2>6, <2>1, Zenon DEF nemu_finish_command
    <3> QED BY <2>1, <2>2, <2>6, <3>1
  <2> QED BY <2>1, <2>3, <2>4, <2>5, <2>6
<1>8. StageOK'
  <2>1. CASE nemu_finish_data
    BY <1>0, <1>2, <1>3, <1>4, <1>7, <2>1 DEF nemu_finish_data, MmcInv, HostType, StageOK
  <2>2. CASE nemu_finish_command
    BY <1>2, <1>3, <1>4, <1>7, <1>f, <2>2 DEF StageOK
  <2>3. CASE nemu_transfer_complete
    BY <1>0, <1>2, <1>3, <1>4, <1>7, <2>3 DEF nemu_transfer_complete, MmcInv, HostType, StageOK
  <2> QED BY <2>1, <2>2, <2>3
<1>9. \A c \in Clients : Served(c)' <=> Served(c)
  <2>1. CASE nemu_finish_data
    BY <1>0, <1>2, <2>1 DEF nemu_finish_data, MmcInv, HostType, StageOK, Served
  <2>2. CASE nemu_finish_command
    BY <1>2, <1>f, <2>2 DEF nemu_finish_command, Served
  <2>3. CASE nemu_transfer_complete
    BY <1>0, <1>2, <2>3 DEF nemu_transfer_complete, MmcInv, HostType, StageOK, Served
  <2> QED BY <2>1, <2>2, <2>3
<1>10. WaitingOK'
  BY <1>2, <1>9 DEF MmcInv, WaitingOK
<1> QED BY <1>5, <1>6, <1>8, <1>10 DEF MmcInv

LEMMA ClientUpdate ==
  ASSUME client \in [Clients -> ClientType], NEW c \in Clients, NEW k \in ClientType,
         client' = [client EXCEPT ![c] = k]
  PROVE  /\ client' \in [Clients -> ClientType] /\ client'[c] = k
         /\ \A d \in Clients \ {c} : client'[d] = client[d]
  OBVIOUS

\* A thread hands in a request, or has one refused: the holder is another.
LEMMA OutsideKeeps ==
  ASSUME MmcInv, NEW c \in Clients, Submit(c) \/ RequestRefused(c)
  PROVE  MmcInv' /\ c # host.mrq
<1>1. client \in [Clients -> ClientType] /\ UNCHANGED <<card, dev, host, stage, moved>>
  BY DEF MmcInv, MmcType, Submit, RequestRefused
<1>2. PICK k \in ClientType :
        /\ client' = [client EXCEPT ![c] = k]
        /\ k.st = "waiting" => k.req \in Requests /\ k.result = <<>> /\ k.error = FALSE
  <2>1. CASE Submit(c)
    <3>1. PICK r \in Requests :
            client' = [client EXCEPT ![c] = [st |-> "waiting", req |-> r, result |-> <<>>, error |-> FALSE]]
      BY <2>1, Zenon DEF Submit
    <3> DEFINE k == [st |-> "waiting", req |-> r, result |-> <<>>, error |-> FALSE]
    <3>2. k \in ClientType /\ k.req \in Requests /\ k.result = <<>> /\ k.error = FALSE
      BY DEF ClientType
    <3> HIDE DEF k
    <3> QED BY <3>1, <3>2, Zenon DEF k
  <2>2. CASE RequestRefused(c)
    <3> DEFINE k == [st |-> "done", req |-> client[c].req, result |-> client[c].result, error |-> TRUE]
    <3>1. client' = [client EXCEPT ![c] = k]
      BY <2>2 DEF RequestRefused
    <3>2. k \in ClientType /\ k.st # "waiting"
      BY <1>1 DEF ClientType
    <3> HIDE DEF k
    <3> QED BY <3>1, <3>2, Zenon
  <2> QED BY <2>1, <2>2, Zenon
<1>3. /\ client' \in [Clients -> ClientType] /\ client'[c] = k
      /\ \A d \in Clients \ {c} : client'[d] = client[d]
  BY <1>1, <1>2, ClientUpdate
<1>4. c # host.mrq
  <2>1. CASE Active
    BY <2>1, HolderFacts DEF Submit, RequestRefused, Client, Req
  <2>2. CASE ~Active
    BY <2>2, MmcAssumption DEF MmcInv, HolderOK
  <2> QED BY <2>1, <2>2
<1>5. MmcType'
  BY <1>1, <1>3 DEF MmcInv, MmcType
<1>6. WaitingOK'
  <2> SUFFICES ASSUME NEW d \in Clients, client'[d].st = "waiting"
               PROVE  /\ client'[d].req \in Requests
                      /\ ~Served(d)' => client'[d].result = <<>> /\ client'[d].error = FALSE
    BY Zenon DEF WaitingOK
  <2>1. Served(d)' <=> Served(d)
    BY <1>1 DEF Served
  <2>2. CASE d = c
    BY <1>2, <1>3, <2>2
  <2>3. CASE d # c
    <3>1. client'[d] = client[d]
      BY <1>3, <2>3
    <3> QED BY <2>1, <3>1 DEF MmcInv, WaitingOK
  <2> QED BY <2>2, <2>3, Zenon
<1>7. CASE Active
  <2>1. host.mrq \in Clients \ {c}
    BY <1>4, <1>7, HolderFacts
  <2>2. client'[host.mrq] = client[host.mrq]
    BY <1>3, <2>1
  <2>3. Req' = Req /\ Client' = Client
    BY <1>1, <2>2 DEF Req, Client
  <2>4. (Done <=> Done') /\ (DevOK <=> DevOK') /\ \A n \in Nat : Moved(n) <=> Moved(n)'
    BY <1>1, <2>3 DEF Done, DevOK, Moved
  <2>5. HolderOK'
    BY <1>1, <1>7, <2>1, <2>2, <2>3 DEF MmcInv, HolderOK, Active
  <2>6. StageOK'
    BY <1>1, <2>3, <2>4 DEF MmcInv, MmcType, StageOK
  <2> QED BY <1>4, <1>5, <1>6, <2>5, <2>6 DEF MmcInv
<1>8. CASE ~Active
  <2>1. HolderOK' /\ StageOK'
    BY <1>1, <1>8 DEF MmcInv, HolderOK, StageOK, Active
  <2> QED BY <1>4, <1>5, <1>6, <2>1 DEF MmcInv
<1> QED BY <1>7, <1>8

\* A thread takes the mutex, and the holder gives it back.
LEMMA MutexKeeps ==
  ASSUME MmcInv, mutex_unlock \/ \E c \in Clients : nemu_request(c)
  PROVE  MmcInv'
<1>1. host \in HostType /\ UNCHANGED <<card, dev, client, moved>>
  BY DEF MmcInv, MmcType, mutex_unlock, nemu_request
<1>2. CASE mutex_unlock
  <2>1. ~Active /\ ~Active' /\ host' = host /\ stage' \in Stages /\ stage' = "unlocked" /\ stage = "unlock"
    BY <1>2 DEF mutex_unlock, Active, Stages
  <2>2. \A c \in Clients : Served(c)' <=> Served(c)
    BY <2>1 DEF Served
  <2>3. WaitingOK'
    BY <1>1, <2>2 DEF MmcInv, WaitingOK
  <2> QED BY <1>1, <2>1, <2>3 DEF MmcInv, MmcType, HolderOK, StageOK
<1>3. ASSUME NEW c \in Clients, nemu_request(c) PROVE MmcInv'
  <2>1. /\ stage = "unlocked" /\ stage' \in {"send_sbc", "send_cmd"}
        /\ client[c].st = "waiting" /\ client[c].req.op # "odd"
        /\ host'.mrq = c /\ host'.cmd = host.cmd /\ host'.data = host.data
    BY <1>3 DEF nemu_request
  <2>2. host' \in HostType
    <3>1. client[c].req \in Request
      BY <2>1, MmcAssumption DEF MmcInv, WaitingOK
    <3>2. (client[c].req.sbc /\ client[c].req.op = "read") \in BOOLEAN
      BY <3>1 DEF Request
    <3> QED BY <1>1, <1>3, <3>2 DEF nemu_request, HostType
  <2>3. ~Active /\ Active' /\ host.cmd = "none" /\ ~host.data /\ host.mrq = NONE
    BY <2>1 DEF Active, MmcInv, HolderOK
  <2>4. HolderOK'
    BY <1>1, <2>1, <2>3 DEF HolderOK, Req
  <2>5. StageOK'
    BY <1>1, <2>1, <2>3 DEF MmcInv, StageOK
  <2>6. WaitingOK'
    <3>1. \A d \in Clients : ~Served(d) /\ ~Served(d)'
      BY <2>1, <2>3, MmcAssumption DEF Served
    <3> QED BY <1>1, <3>1 DEF MmcInv, WaitingOK
  <2>7. MmcType'
    BY <1>1, <2>1, <2>2 DEF MmcInv, MmcType, Stages
  <2> QED BY <2>4, <2>5, <2>6, <2>7 DEF MmcInv
<1> QED BY <1>2, <1>3

\* The requests the driver serves.
LEMMA RequestFacts ==
  ASSUME MmcInv, Active
  PROVE  /\ Req.first \in Nat /\ Req.length \in Nat /\ Req.data \in Seq(Values) /\ Len(Req.data) \in Nat
         /\ Req.op \in {"read", "write", "ext", "status"}
         /\ Req.op \in {"read", "write"} =>
              /\ Req.first \in Words /\ (Req.first \div BlkWords) * BlkWords = Req.first
              /\ Len(Req.data) <= Req.length
              /\ \A i \in 1 .. Len(Req.data) : Req.first + i - 1 \in Words
         /\ Req.op = "ext" => Len(Req.data) = BlkWords /\ Req.length = BlkWords
         /\ Req.op = "status" => Req.length = 0
<1> DEFINE r == Req
<1>1. r \in Requests /\ r \in Request /\ r.op # "odd"
  BY HolderFacts
<1> HIDE DEF r
<1>2. /\ r.first \in Nat /\ r.length \in Nat /\ r.data \in Seq(Values) /\ Len(r.data) \in Nat
      /\ r.op \in {"read", "write", "ext", "status"}
  BY <1>1 DEF Request
<1>3. /\ r.op \in {"read", "write"} =>
           /\ r.first \in Words /\ r.first % BlkWords = 0 /\ Len(r.data) <= r.length
           /\ \A i \in 1 .. Len(r.data) : r.first + i - 1 \in Words
      /\ r.op = "ext" => Len(r.data) = BlkWords /\ r.length = BlkWords
      /\ r.op = "status" => r.length = 0
  BY <1>1, MmcAssumption
<1>4. ASSUME r.first % BlkWords = 0 PROVE (r.first \div BlkWords) * BlkWords = r.first
  <2> DEFINE f == r.first
             q == f \div BlkWords
  <2>1. f \in Nat /\ BlkWords \in Nat /\ BlkWords > 0 /\ f % BlkWords = 0
    BY <1>2, <1>4, MmcAssumption
  <2> HIDE DEF f
  <2>2. f = BlkWords * q + (f % BlkWords) /\ q \in Nat
    BY <2>1
  <2> HIDE DEF q
  <2>3. q * BlkWords = f
    BY <2>1, <2>2
  <2> QED BY <2>3 DEF f, q
<1> QED BY <1>2, <1>3, <1>4 DEF r

\* nemu_send_command: CMD23 and CMD12 move nothing; the command itself sets the
\* card up for the first word.
LEMMA SendKeeps ==
  ASSUME MmcInv, NEW k \in {"sbc", "cmd", "stop"}, nemu_send_command(k)
  PROVE  MmcInv'
<1>1. host \in HostType /\ dev \in DevType /\ client' = client /\ card' = card
  BY DEF MmcInv, MmcType, nemu_send_command, sdcard_handle_cmd
<1>2. Active
  BY DEF nemu_send_command, SendStage, Active
<1> DEFINE D == k = "cmd" /\ HasData(Req)
           E == host.data_complete /\ ~D
<1>a. /\ host' = [mrq |-> host.mrq, cmd |-> k, data |-> D, data_complete |-> E, use_sbc |-> host.use_sbc]
      /\ moved' = IF D THEN 0 ELSE moved
      /\ stage' = IF D THEN "pio" ELSE "finish_command"
  BY Zenon DEF nemu_send_command
<1>b. D \in BOOLEAN /\ E \in BOOLEAN
  BY DEF HasData
<1> HIDE DEF D, E
<1>3. host'.mrq = host.mrq /\ host'.cmd = k /\ host'.data = D /\ host' \in HostType
  BY <1>1, <1>a, <1>b DEF HostType
<1>4. Req' = Req /\ Client' = Client
  BY <1>1, <1>3 DEF Req, Client
<1>5. CASE k \in {"sbc", "stop"}
  <2>1. stage' = "finish_command" /\ moved' = moved /\ ~host'.data
    <3>1. ~D
      BY <1>5 DEF D
    <3> QED BY <1>3, <1>a, <3>1, Zenon
  <2>2. dev' = dev /\ ~dev.read_ext_csd
    BY <1>5 DEF nemu_send_command, sdcard_handle_cmd, Opcode, SendStage, MmcInv, StageOK
  <2>4. MmcType'
    BY <1>1, <1>3, <2>1, <2>2 DEF MmcInv, MmcType, Stages
  <2>5. HolderOK' /\ Active'
    BY <1>1, <1>2, <1>3, <1>4, <2>1 DEF MmcInv, HolderOK, Active
  <2>6. k = "stop" => Done'
    <3>1. k = "stop" => Done
      BY DEF nemu_send_command, SendStage, MmcInv, StageOK
    <3> QED BY <1>1, <1>4, <3>1 DEF Done, Moved
  <2>7. StageOK'
    BY <1>3, <1>5, <2>1, <2>2, <2>6 DEF StageOK
  <2>8. \A c \in Clients : Served(c)' <=> Served(c)
    BY <1>3, <1>5, <2>1 DEF Served, nemu_send_command, SendStage, MmcInv, StageOK
  <2>9. WaitingOK'
    BY <1>1, <2>8 DEF MmcInv, WaitingOK
  <2> QED BY <2>4, <2>5, <2>7, <2>9 DEF MmcInv
<1>6. CASE k = "cmd"
  <2>1. stage = "send_cmd" /\ host.cmd = "none" /\ ~host.data
    BY <1>6 DEF nemu_send_command, SendStage, MmcInv, StageOK
  <2>2. Client.result = <<>> /\ Client.error = FALSE /\ Client.st = "waiting"
    <3>1. ~Served(host.mrq)
      BY <2>1 DEF Served
    <3>2. host.mrq \in Clients /\ client[host.mrq].st = "waiting"
      BY <1>2, HolderFacts DEF Client
    <3> QED BY <3>1, <3>2, Zenon DEF MmcInv, WaitingOK, Client
  <2>3. ~dev.read_ext_csd
    BY <2>1 DEF MmcInv, StageOK
  <2> DEFINE r == Req
  <2>4. D <=> HasData(r)
    BY <1>6 DEF D
  <2>7. /\ r.op \in {"read", "write"} =>
             dev' = [data |-> dev.data, addr |-> 0, write_cmd |-> r.op = "write",
                     read_ext_csd |-> dev.read_ext_csd, pos |-> (r.first \div BlkWords) * BlkWords]
        /\ r.op = "ext" =>
             dev' = [data |-> dev.data, addr |-> 0, write_cmd |-> dev.write_cmd,
                     read_ext_csd |-> TRUE, pos |-> dev.pos]
        /\ r.op = "status" => dev' = dev
    BY <1>6 DEF nemu_send_command, sdcard_handle_cmd, prepare_rw, Opcode, SDARG
  <2>8. dev' \in DevType /\ dev'.pos \in Words \cup {w + 1 : w \in Words}
    <3>1. CASE r.op \in {"read", "write"}
      <4> DEFINE w == r.op = "write"
                 p == (r.first \div BlkWords) * BlkWords
      <4>1. w \in BOOLEAN /\ p \in Words /\ p \in Nat
        BY <1>2, <3>1, RequestFacts
      <4>2. dev' = [data |-> dev.data, addr |-> 0, write_cmd |-> w,
                    read_ext_csd |-> dev.read_ext_csd, pos |-> p]
        BY <2>7, <3>1, Zenon
      <4> HIDE DEF w, p
      <4> QED BY <1>1, <4>1, <4>2 DEF DevType
    <3>2. CASE r.op = "ext"
      <4>1. dev.pos \in Words \cup {w + 1 : w \in Words}
        BY DEF MmcInv, MmcType
      <4>2. dev'.pos = dev.pos
        BY <2>7, <3>2
      <4>3. dev' \in DevType
        <5> DEFINE t == TRUE
        <5>1. t \in BOOLEAN
          OBVIOUS
        <5>2. dev' = [data |-> dev.data, addr |-> 0, write_cmd |-> dev.write_cmd,
                      read_ext_csd |-> t, pos |-> dev.pos]
          BY <2>7, <3>2
        <5> HIDE DEF t
        <5> QED BY <1>1, <5>1, <5>2 DEF DevType
      <4> QED BY <4>1, <4>2, <4>3
    <3>3. CASE r.op = "status"
      BY <2>7, <3>3 DEF MmcInv, MmcType
    <3> QED BY <1>2, <3>1, <3>2, <3>3, RequestFacts
  <2>9. MmcType'
    <3>1. moved' \in Nat /\ stage' \in Stages
      BY <1>a DEF MmcInv, MmcType, Stages
    <3> QED BY <1>1, <1>3, <2>8, <3>1 DEF MmcInv, MmcType
  <2>10. HolderOK' /\ Active'
    BY <1>1, <1>2, <1>3, <1>4, <1>a DEF MmcInv, HolderOK, Active
  <2>20. WaitingOK'
    <3>1. ASSUME NEW c \in Clients, c # host.mrq PROVE ~Served(c) /\ ~Served(c)'
      BY <1>3, <3>1 DEF Served
    <3>2. client[host.mrq].result = <<>> /\ client[host.mrq].error = FALSE
      BY <2>2 DEF Client
    <3> QED BY <1>1, <3>1, <3>2, Zenon DEF MmcInv, WaitingOK
  <2>11. CASE HasData(r)
    <3>1. stage' = "pio" /\ moved' = 0 /\ host'.data
      BY <1>3, <1>a, <2>4, <2>11, Zenon
    <3>2. Moved(0)'
      BY <1>2, <1>4, <2>2, <2>11, RequestFacts DEF Moved, HasData
    <3>3. DevOK' /\ (dev'.read_ext_csd => r.op = "ext")
      <4>1. CASE r.op \in {"read", "write"}
        <5>1. dev'.pos = r.first + moved'
          BY <1>2, <2>7, <3>1, <4>1, RequestFacts
        <5> DEFINE w == r.op = "write"
        <5>a. dev' = [data |-> dev.data, addr |-> 0, write_cmd |-> w, read_ext_csd |-> dev.read_ext_csd,
                      pos |-> (r.first \div BlkWords) * BlkWords]
          BY <2>7, <4>1, Zenon
        <5> HIDE DEF w
        <5>2. dev'.read_ext_csd = dev.read_ext_csd /\ dev'.write_cmd = w
          BY <5>a
        <5>3. r.op # "ext"
          BY <4>1
        <5> QED BY <1>4, <2>3, <5>1, <5>2, <5>3, Zenon DEF DevOK, w
      <4>2. CASE r.op = "ext"
        <5>1. dev'.addr = moved' /\ moved' < BlkWords
          BY <2>7, <3>1, <4>2, MmcAssumption
        <5> DEFINE t == TRUE
        <5>a. dev' = [data |-> dev.data, addr |-> 0, write_cmd |-> dev.write_cmd,
                      read_ext_csd |-> t, pos |-> dev.pos]
          BY <2>7, <4>2
        <5> HIDE DEF t
        <5>2. dev'.read_ext_csd = t
          BY <5>a
        <5>3. r.op \notin {"read", "write"}
          BY <4>2
        <5> QED BY <1>4, <4>2, <5>1, <5>2, <5>3, Zenon DEF DevOK, t
      <4> QED BY <2>11, <4>1, <4>2 DEF HasData
    <3> QED BY <1>3, <1>4, <1>6, <2>2, <2>9, <2>10, <2>11, <3>1, <3>2, <3>3, <2>20 DEF MmcInv, StageOK
  <2>12. CASE ~HasData(r)
    <3>1. stage' = "finish_command" /\ ~host'.data /\ r.op = "status" /\ dev' = dev
      <4>1. r.op = "status"
        BY <1>2, <2>12, RequestFacts DEF HasData
      <4> QED BY <1>3, <1>a, <2>4, <2>7, <2>12, <4>1, Zenon
    <3>2. Done'
      BY <1>2, <1>4, <2>2, <3>1, RequestFacts DEF Done, Moved
    <3> QED BY <1>3, <1>6, <2>3, <2>9, <2>10, <3>1, <3>2, <2>20 DEF MmcInv, StageOK
  <2> QED BY <2>11, <2>12
<1> QED BY <1>5, <1>6

\* One word through SDDATA: what the card makes of it, by kind of request.
LEMMA WordMoved ==
  ASSUME MmcInv, nemu_transfer_pio
  PROVE  /\ dev' \in DevType /\ dev'.addr = dev.addr + 1 /\ dev'.write_cmd = dev.write_cmd
         /\ Req.op = "write" =>
              /\ card' = [card EXCEPT ![Req.first + moved] = Req.data[moved + 1]]
              /\ ~dev'.read_ext_csd /\ dev'.pos = Req.first + moved + 1
         /\ Req.op = "read" =>
              /\ card' = card /\ dev'.data = card[Req.first + moved]
              /\ ~dev'.read_ext_csd /\ dev'.pos = Req.first + moved + 1
         /\ Req.op = "ext" =>
              /\ card' = card /\ dev'.data = ExtCsd[moved + 1]
              /\ (dev'.read_ext_csd <=> moved + 1 < BlkWords) /\ dev'.pos = dev.pos
<1> DEFINE r == Req
           n == moved
           csd == dev.read_ext_csd
           at == dev.pos
           stored == IF r.op = "write" THEN r.data[n + 1] ELSE dev.data
           reads == ~csd /\ ~dev.write_cmd
           newdata == IF csd THEN ExtCsd[dev.addr + 1]
                      ELSE IF reads /\ at \in Words THEN card[at] ELSE stored
           newcsd == csd /\ dev.addr # BlkWords - 1
           newpos == IF csd \/ at \notin Words THEN at ELSE at + 1
<1>1. /\ stage = "pio" /\ Active /\ n < r.length /\ n < Len(r.data) /\ n \in Nat
      /\ HasData(r) /\ Moved(n) /\ DevOK
  BY DEF nemu_transfer_pio, MmcInv, MmcType, StageOK, Active
<1>2. /\ dev' = [data |-> newdata, addr |-> dev.addr + 1, write_cmd |-> dev.write_cmd,
                 read_ext_csd |-> newcsd, pos |-> newpos]
      /\ card' = IF ~csd /\ dev.write_cmd /\ at \in Words THEN [card EXCEPT ![at] = stored] ELSE card
  BY Zenon DEF nemu_transfer_pio, sdcard_data
<1>3. dev \in DevType /\ card \in [Words -> Values]
  BY DEF MmcInv, MmcType
<1>4. /\ csd \in BOOLEAN /\ dev.write_cmd \in BOOLEAN /\ at \in Nat /\ dev.addr \in Nat /\ dev.data \in Data
      /\ newcsd \in BOOLEAN
  BY <1>3 DEF DevType
<1>5. r.first \in Nat /\ r.data \in Seq(Values) /\ r.op \in {"read", "write", "ext"}
  BY <1>1, RequestFacts DEF HasData
<1>6. r.op \in {"read", "write"} =>
        ~csd /\ at = r.first + n /\ at \in Words /\ (dev.write_cmd <=> r.op = "write")
  <2> SUFFICES ASSUME r.op \in {"read", "write"}
               PROVE  ~csd /\ at = r.first + n /\ at \in Words /\ (dev.write_cmd <=> r.op = "write")
    OBVIOUS
  <2>1. ~csd /\ at = r.first + n /\ (dev.write_cmd <=> r.op = "write")
    BY <1>1, Zenon DEF DevOK
  <2>2. \A i \in 1 .. Len(r.data) : r.first + i - 1 \in Words
    BY <1>1, RequestFacts
  <2>3. n + 1 \in 1 .. Len(r.data) /\ r.first + (n + 1) - 1 = r.first + n
    BY <1>1, <1>5
  <2> QED BY <2>1, <2>2, <2>3
<1>7. r.op = "ext" => csd /\ dev.addr = n /\ n < BlkWords
  <2> SUFFICES ASSUME r.op = "ext" PROVE csd /\ dev.addr = n /\ n < BlkWords
    OBVIOUS
  <2>1. n < BlkWords
    BY <1>1, RequestFacts
  <2> QED BY <1>1, <2>1, Zenon DEF DevOK
<1>8. stored \in Data
  BY <1>1, <1>4, <1>5 DEF Data
<1>9. newdata \in Data /\ newpos \in Nat
  <2>1. CASE r.op = "ext"
    <3>1. ExtCsd[n + 1] \in Nat
      BY <1>1, <1>7, <2>1, MmcAssumption
    <3>2. newdata = ExtCsd[n + 1] /\ newpos = at
      BY <1>7, <2>1, Zenon
    <3> QED BY <1>4, <3>1, <3>2 DEF Data
  <2>2. CASE r.op \in {"read", "write"}
    <3>1. card[at] \in Values
      BY <1>3, <1>6, <2>2
    <3> QED BY <1>4, <1>6, <1>8, <2>2, <3>1 DEF Data
  <2> QED BY <1>5, <2>1, <2>2
<1>10. newcsd <=> r.op = "ext" /\ n + 1 < BlkWords
  <2>1. CASE r.op = "ext"
    <3>1. n # BlkWords - 1 <=> n + 1 < BlkWords
      BY <1>1, <1>7, <2>1, MmcAssumption
    <3> QED BY <1>7, <2>1, <3>1, Zenon
  <2>2. CASE r.op \in {"read", "write"}
    BY <1>6, <2>2
  <2> QED BY <1>5, <2>1, <2>2
<1>11. CASE r.op = "write"
  <2>1. stored = r.data[n + 1] /\ newpos = at + 1 /\ at = r.first + n /\ card' = [card EXCEPT ![at] = stored]
    BY <1>2, <1>6, <1>11
  <2> HIDE DEF newdata, newcsd, newpos, stored
  <2>2. dev'.read_ext_csd = newcsd /\ dev'.pos = newpos /\ dev'.addr = dev.addr + 1 /\ dev'.write_cmd = dev.write_cmd
    BY <1>2
  <2>3. dev' \in DevType
    BY <1>2, <1>3, <1>4, <1>9 DEF DevType
  <2>4. ~newcsd
    BY <1>10, <1>11
  <2>5. r.first + n + 1 = at + 1
    BY <2>1
  <2> QED BY <1>11, <2>1, <2>2, <2>3, <2>4, <2>5
<1>12. CASE r.op = "read"
  <2>1. newdata = card[at] /\ newpos = at + 1 /\ at = r.first + n /\ card' = card
    BY <1>2, <1>6, <1>12
  <2> HIDE DEF newdata, newcsd, newpos, stored
  <2>2. /\ dev'.read_ext_csd = newcsd /\ dev'.pos = newpos /\ dev'.addr = dev.addr + 1
        /\ dev'.write_cmd = dev.write_cmd /\ dev'.data = newdata
    BY <1>2
  <2>3. dev' \in DevType
    BY <1>2, <1>3, <1>4, <1>9 DEF DevType
  <2>4. ~newcsd
    BY <1>10, <1>12
  <2>5. r.first + n + 1 = at + 1
    BY <2>1
  <2> QED BY <1>12, <2>1, <2>2, <2>3, <2>4, <2>5
<1>13. CASE r.op = "ext"
  <2>1. newdata = ExtCsd[n + 1] /\ newpos = at /\ card' = card
    BY <1>2, <1>7, <1>13
  <2> HIDE DEF newdata, newcsd, newpos, stored
  <2>2. /\ dev'.read_ext_csd = newcsd /\ dev'.pos = newpos /\ dev'.addr = dev.addr + 1
        /\ dev'.write_cmd = dev.write_cmd /\ dev'.data = newdata
    BY <1>2
  <2>3. dev' \in DevType
    BY <1>2, <1>3, <1>4, <1>9 DEF DevType
  <2> QED BY <1>10, <1>13, <2>1, <2>2, <2>3
<1> QED BY <1>5, <1>11, <1>12, <1>13

\* The word moved next is on the card.
LEMMA InRange ==
  ASSUME MmcInv, Active, Req.op \in {"read", "write"}, moved \in Nat, moved < Len(Req.data)
  PROVE  Req.first + moved \in Words
<1>1. Req.first \in Nat /\ Len(Req.data) \in Nat /\ \A i \in 1 .. Len(Req.data) : Req.first + i - 1 \in Words
  BY RequestFacts
<1>2. moved + 1 \in 1 .. Len(Req.data) /\ Req.first + (moved + 1) - 1 = Req.first + moved
  BY <1>1
<1> QED BY <1>1, <1>2

\* One more word has been moved.
LEMMA TransferKeeps ==
  ASSUME MmcInv, nemu_transfer_pio
  PROVE  MmcInv'
<1> DEFINE r == Req
           c == host.mrq
<1>0. PICK n \in Nat : n = moved
  BY DEF MmcInv, MmcType
<1>1. /\ stage = "pio" /\ Active /\ n < Len(r.data)
      /\ HasData(r) /\ Moved(n) /\ DevOK /\ Client.error = FALSE /\ host.cmd = "cmd" /\ host.data
  BY <1>0 DEF nemu_transfer_pio, MmcInv, MmcType, StageOK, Active
<1>2. moved' = n + 1 /\ host' = host /\ stage' = stage
  BY <1>0 DEF nemu_transfer_pio
<1>3. c \in Clients /\ Client \in ClientType /\ Client.st = "waiting" /\ r \in Requests /\ r.op # "odd"
  BY <1>1, HolderFacts
<1>4. client \in [Clients -> ClientType] /\ card \in [Words -> Values] /\ host \in HostType
  BY DEF MmcInv, MmcType
<1>5. r.first \in Nat /\ r.data \in Seq(Values) /\ r.op \in {"read", "write", "ext"} /\ Len(r.data) \in Nat
  BY <1>1, RequestFacts DEF HasData
<1>6. dev' \in DevType /\ dev'.addr = dev.addr + 1 /\ dev'.write_cmd = dev.write_cmd
  BY WordMoved
<1> DEFINE k == [Client EXCEPT !.result = Append(@, dev'.data)]
<1>7. /\ client' \in [Clients -> ClientType]
      /\ client'[c] = IF r.op = "write" THEN Client ELSE k
      /\ \A d \in Clients \ {c} : client'[d] = client[d]
  <2>1. CASE r.op = "write"
    BY <1>4, <2>1 DEF nemu_transfer_pio, Client
  <2>2. CASE r.op # "write"
    <3>1. client' = [client EXCEPT ![c] = k]
      BY <2>2 DEF nemu_transfer_pio, Client
    <3>2. k \in ClientType
      <4> DEFINE s == Append(Client.result, dev'.data)
      <4>1. Client.result \in Seq(Data) /\ dev'.data \in Data
        BY <1>3, <1>6 DEF ClientType, DevType
      <4>2. s \in Seq(Data)
        BY <4>1
      <4> HIDE DEF s
      <4>3. [Client EXCEPT !.result = s] \in ClientType
        BY <1>3, <4>2 DEF ClientType
      <4> QED BY <4>3 DEF s
    <3> HIDE DEF k
    <3> QED BY <1>3, <1>4, <2>2, <3>1, <3>2, ClientUpdate
  <2> QED BY <2>1, <2>2
<1>8. k.st = "waiting" /\ k.req = r /\ k.error = Client.error /\ k.result = Append(Client.result, dev'.data)
  BY <1>3 DEF ClientType, Client, Req
<1> HIDE DEF k
<1>9. Req' = r /\ Client'.st = "waiting" /\ Client'.error = FALSE
  BY <1>1, <1>2, <1>3, <1>7, <1>8 DEF Req, Client
<1>10. Client'.result = IF r.op = "write" THEN Client.result ELSE Append(Client.result, dev'.data)
  <2>1. Client' = client'[c]
    BY <1>2 DEF Client
  <2>2. CASE r.op = "write"
    BY <1>7, <2>1, <2>2
  <2>3. CASE r.op # "write"
    BY <1>7, <1>8, <2>1, <2>3
  <2> QED BY <2>2, <2>3
<1>11. Client.result \in Seq(Data)
  BY <1>3 DEF ClientType
<1>14. ASSUME Moved(n + 1)', DevOK', card' \in [Words -> Values],
              dev'.pos \in Words \cup {w + 1 : w \in Words}, dev'.read_ext_csd => r.op = "ext"
       PROVE  MmcInv'
  <2>1. MmcType'
    BY <1>1, <1>2, <1>4, <1>6, <1>7, <1>14 DEF MmcInv, MmcType
  <2>2. HolderOK'
    BY <1>1, <1>2, <1>3, <1>9 DEF HolderOK, Active, Client
  <2>3. StageOK'
    BY <1>1, <1>2, <1>9, <1>14 DEF StageOK
  <2>4. WaitingOK'
    <3>1. \A d \in Clients : Served(d)' <=> Served(d)
      BY <1>2 DEF Served
    <3>2. Served(c) /\ Req' \in Requests
      BY <1>1, <1>3, <1>9 DEF Served
    <3> QED BY <1>2, <1>7, <3>1, <3>2, Zenon DEF MmcInv, WaitingOK, Req
  <2> QED BY <2>1, <2>2, <2>3, <2>4 DEF MmcInv
<1>12. CASE r.op = "write"
  <2>1. /\ card' = [card EXCEPT ![r.first + n] = r.data[n + 1]]
        /\ ~dev'.read_ext_csd /\ dev'.pos = r.first + n + 1
    BY <1>12, <1>0, WordMoved
  <2>2. r.first + n \in Words
    BY <1>1, <1>12, <1>0, InRange
  <2>3. ASSUME NEW i \in 1 .. n + 1 PROVE card'[r.first + i - 1] = r.data[i]
    <3>1. CASE i = n + 1
      BY <1>1, <1>4, <1>5, <2>1, <2>2, <3>1
    <3>2. CASE i \in 1 .. n
      <4>1. card[r.first + i - 1] = r.data[i]
        BY <1>1, <1>12, <3>2 DEF Moved
      <4>2. r.first + i - 1 # r.first + n
        BY <1>1, <1>5, <3>2
      <4> QED BY <1>4, <2>1, <4>1, <4>2
    <3> QED BY <1>1, <3>1, <3>2
  <2>4. Client.result = <<>>
    BY <1>1, <1>12 DEF Moved
  <2>5. Moved(n + 1)'
    BY <1>1, <1>5, <1>9, <1>10, <1>12, <2>3, <2>4 DEF Moved
  <2>6. DevOK'
    <3>1. dev'.pos = r.first + moved'
      BY <1>1, <1>2, <1>5, <2>1
    <3>2. dev.write_cmd
      BY <1>1, <1>12 DEF DevOK
    <3> QED BY <1>6, <1>9, <1>12, <2>1, <3>1, <3>2 DEF DevOK
  <2>7. card' \in [Words -> Values] /\ dev'.pos \in Words \cup {w + 1 : w \in Words}
    BY <1>1, <1>4, <1>5, <2>1, <2>2
  <2> QED BY <2>1, <2>5, <2>6, <2>7, <1>14
<1>13. CASE r.op \in {"read", "ext"}
  <2>1. /\ card' = card
        /\ dev'.data = IF r.op = "read" THEN card[r.first + n] ELSE ExtCsd[n + 1]
        /\ r.op = "read" => ~dev'.read_ext_csd /\ dev'.pos = r.first + n + 1
        /\ r.op = "ext" => (dev'.read_ext_csd <=> n + 1 < BlkWords) /\ dev'.pos = dev.pos
    BY <1>13, <1>0, WordMoved
  <2>2. Len(Client.result) = n
    BY <1>1, <1>13 DEF Moved
  <2>3. /\ Len(Client'.result) = n + 1 /\ Client'.result[n + 1] = dev'.data
        /\ \A i \in 1 .. n : Client'.result[i] = Client.result[i]
    <3> DEFINE s == Client.result
    <3> HIDE DEF s
    <3>1. s \in Seq(Data) /\ Len(s) = n /\ dev'.data \in Data
      BY <1>6, <1>11, <2>2 DEF s, DevType
    <3>2. /\ Len(Append(s, dev'.data)) = n + 1 /\ Append(s, dev'.data)[n + 1] = dev'.data
          /\ \A i \in 1 .. n : Append(s, dev'.data)[i] = s[i]
      BY <3>1
    <3>3. Client'.result = Append(s, dev'.data)
      BY <1>10, <1>13 DEF s
    <3> QED BY <3>2, <3>3 DEF s
  <2>4. ASSUME NEW i \in 1 .. n + 1
        PROVE  Client'.result[i] = IF r.op = "read" THEN card[r.first + i - 1] ELSE ExtCsd[i]
    <3>1. CASE i = n + 1
      <4>1. r.first + i - 1 = r.first + n
        BY <1>1, <1>5, <3>1
      <4> QED BY <1>13, <2>1, <2>3, <3>1, <4>1
    <3>2. CASE i \in 1 .. n
      <4>1. Client.result[i] = IF r.op = "read" THEN card[r.first + i - 1] ELSE ExtCsd[i]
        BY <1>1, <1>13, <3>2 DEF Moved
      <4> QED BY <2>3, <3>2, <4>1
    <3> QED BY <1>1, <3>1, <3>2
  <2>5. Moved(n + 1)'
    <3>1. n + 1 <= Len(Req'.data)
      BY <1>1, <1>5, <1>9
    <3> QED BY <1>9, <1>13, <2>1, <2>3, <2>4, <3>1 DEF Moved
  <2>6. DevOK'
    <3>1. CASE r.op = "read"
      <4>1. dev'.pos = r.first + moved'
        BY <1>1, <1>2, <1>5, <2>1, <3>1
      <4>2. ~dev.write_cmd
        BY <1>1, <3>1 DEF DevOK
      <4> QED BY <1>6, <1>9, <2>1, <3>1, <4>1, <4>2 DEF DevOK
    <3>2. CASE r.op = "ext"
      <4>1. dev.addr = n
        BY <1>0, <1>1, <3>2 DEF DevOK
      <4> QED BY <1>2, <1>6, <1>9, <2>1, <3>2, <4>1 DEF DevOK
    <3> QED BY <1>13, <3>1, <3>2
  <2>7. card' \in [Words -> Values] /\ dev'.pos \in Words \cup {w + 1 : w \in Words}
    <3>1. CASE r.op = "read"
      <4>1. r.first + n \in Words
        BY <1>1, <3>1, <1>0, InRange
      <4> QED BY <1>1, <1>4, <1>5, <2>1, <3>1, <4>1
    <3>2. CASE r.op = "ext"
      BY <1>4, <2>1, <3>2 DEF MmcInv, MmcType
    <3> QED BY <1>13, <3>1, <3>2
  <2>8. dev'.read_ext_csd => r.op = "ext"
    BY <1>13, <2>1
  <2> QED BY <2>5, <2>6, <2>7, <2>8, <1>14
<1> QED BY <1>5, <1>12, <1>13

\* The transfer is over, with an error when the room was too small.
LEMMA TransferEndsKeeps ==
  ASSUME MmcInv, TransferEnds
  PROVE  MmcInv'
<1> DEFINE r == Req
           c == host.mrq
           e == moved < r.length
           k == [Client EXCEPT !.error = e]
<1>1. /\ stage = "pio" /\ Active /\ moved \in Nat /\ (moved = r.length \/ moved = Len(r.data))
      /\ HasData(r) /\ Moved(moved) /\ DevOK /\ host.cmd = "cmd" /\ host.data
  BY DEF TransferEnds, MmcInv, MmcType, StageOK, Active
<1>2. stage' = "finish_data" /\ UNCHANGED <<card, dev, host, moved>>
  BY DEF TransferEnds
<1>3. c \in Clients /\ Client \in ClientType /\ Client.st = "waiting" /\ r \in Requests /\ r.op # "odd"
  BY <1>1, HolderFacts
<1>4. client \in [Clients -> ClientType]
  BY DEF MmcInv, MmcType
<1>5. client' = [client EXCEPT ![c] = k]
  BY DEF TransferEnds, Client
<1>6. e \in BOOLEAN
  OBVIOUS
<1>7. (e <=> Len(r.data) < r.length) /\ moved = Len(r.data)
  <2>1. r.length \in Nat /\ Len(r.data) \in Nat /\ Len(r.data) <= r.length /\ moved <= Len(r.data)
    BY <1>1, RequestFacts DEF HasData, Moved
  <2> QED BY <1>1, <2>1
<1> HIDE DEF e
<1>8. /\ k \in ClientType /\ k.st = Client.st /\ k.req = r /\ k.result = Client.result /\ k.error = e
  BY <1>3, <1>6 DEF ClientType, Client, Req
<1> HIDE DEF k
<1>9. /\ client' \in [Clients -> ClientType] /\ client'[c] = k
      /\ \A d \in Clients \ {c} : client'[d] = client[d]
  BY <1>3, <1>4, <1>5, <1>8, ClientUpdate
<1>10. Client' = k /\ Req' = r
  BY <1>2, <1>8, <1>9 DEF Client, Req
<1>11. Done'
  <2>1. Moved(Len(r.data))
    BY <1>1, <1>7
  <2>2. Moved(Len(Req.data))'
    BY <1>2, <1>8, <1>10, <2>1 DEF Moved
  <2> QED BY <1>7, <1>8, <1>10, <2>2, Zenon DEF Done
<1>12. ~dev.read_ext_csd
  <2>1. CASE r.op = "ext"
    <3>1. ~(moved < BlkWords)
      BY <1>1, <1>7, <2>1, RequestFacts
    <3> QED BY <1>1, <2>1, <3>1 DEF DevOK
  <2>2. CASE r.op # "ext"
    BY <2>2 DEF MmcInv, StageOK
  <2> QED BY <2>1, <2>2
<1>13. MmcType'
  BY <1>2, <1>9 DEF MmcInv, MmcType, Stages
<1>14. HolderOK'
  BY <1>2, <1>3, <1>8, <1>9, <1>10 DEF HolderOK, Active, Client
<1>15. StageOK'
  BY <1>1, <1>2, <1>10, <1>11, <1>12 DEF StageOK
<1>16. WaitingOK'
  <2>1. \A d \in Clients : Served(d)' <=> Served(d)
    BY <1>1, <1>2 DEF Served
  <2>2. Served(c) /\ client'[c].req \in Requests
    BY <1>1, <1>3, <1>8, <1>9 DEF Served
  <2> QED BY <1>9, <2>1, <2>2, Zenon DEF MmcInv, WaitingOK
<1> QED BY <1>13, <1>14, <1>15, <1>16 DEF MmcInv

\* The client hears of it.
LEMMA FinishKeeps ==
  ASSUME MmcInv, nemu_finish_request
  PROVE  /\ MmcInv' /\ Done /\ host.mrq \in Clients /\ client'[host.mrq] = [Client EXCEPT !.st = "done"]
         /\ \A d \in Clients \ {host.mrq} : client'[d] = client[d]
<1> DEFINE c == host.mrq
           k == [Client EXCEPT !.st = "done"]
<1>1. stage = "finish_request" /\ Active /\ Done
  BY DEF nemu_finish_request, MmcInv, StageOK, Active
<1>2. stage' = "unlock" /\ UNCHANGED <<card, dev, moved>> /\ ~Active'
  BY DEF nemu_finish_request, Active
<1>3. c \in Clients /\ Client \in ClientType
  BY <1>1, HolderFacts
<1>4. client \in [Clients -> ClientType] /\ host \in HostType /\ ~dev.read_ext_csd
  BY <1>1 DEF MmcInv, MmcType, StageOK
<1>5. client' = [client EXCEPT ![c] = k]
  BY DEF nemu_finish_request, Client
<1>6. k \in ClientType /\ k.st = "done"
  BY <1>3 DEF ClientType
<1> HIDE DEF k
<1>7. /\ client' \in [Clients -> ClientType] /\ client'[c] = k
      /\ \A d \in Clients \ {c} : client'[d] = client[d]
  BY <1>3, <1>4, <1>5, <1>6, ClientUpdate
<1>8. host' \in HostType /\ host'.mrq = NONE /\ host'.cmd = "none" /\ ~host'.data
  <2> DEFINE f == FALSE
  <2>1. host' = [mrq |-> NONE, cmd |-> "none", data |-> f,
                 data_complete |-> host.data_complete, use_sbc |-> host.use_sbc] /\ f \in BOOLEAN
    BY DEF nemu_finish_request
  <2> HIDE DEF f
  <2>2. host' \in HostType /\ host'.mrq = NONE /\ host'.cmd = "none" /\ host'.data = f
    BY <1>4, <2>1 DEF HostType
  <2> QED BY <2>2 DEF f
<1>9. MmcType'
  BY <1>2, <1>7, <1>8 DEF MmcInv, MmcType, Stages
<1>10. HolderOK'
  BY <1>2, <1>8 DEF HolderOK
<1>11. StageOK'
  BY <1>2, <1>4 DEF StageOK
<1>12. WaitingOK'
  <2> SUFFICES ASSUME NEW d \in Clients, client'[d].st = "waiting"
               PROVE  /\ client'[d].req \in Requests
                      /\ ~Served(d)' => client'[d].result = <<>> /\ client'[d].error = FALSE
    BY Zenon DEF WaitingOK
  <2>1. d # c /\ client'[d] = client[d]
    BY <1>6, <1>7
  <2>2. ~Served(d)
    BY <2>1 DEF Served
  <2> QED BY <2>1, <2>2 DEF MmcInv, WaitingOK
<1> QED BY <1>1, <1>3, <1>7, <1>9, <1>10, <1>11, <1>12 DEF MmcInv, k

LEMMA MmcStart == MmcInit => MmcInv
<1> SUFFICES ASSUME MmcInit PROVE MmcInv
  OBVIOUS
<1>1. stage = "unlocked" /\ moved = 0 /\ card \in [Words -> Values] /\ ~Active
  BY MmcAssumption DEF MmcInit, init_sdcard, Active
<1> DEFINE f == FALSE
<1>2. dev = [data |-> 0, addr |-> 0, write_cmd |-> f, read_ext_csd |-> f, pos |-> 0] /\ f \in BOOLEAN
  BY DEF MmcInit, init_sdcard
<1>3. host = [mrq |-> NONE, cmd |-> "none", data |-> f, data_complete |-> f, use_sbc |-> f]
  BY DEF MmcInit
<1>4. client = [c \in Clients |-> [st |-> "idle", req |-> NONE, result |-> <<>>, error |-> f]]
  BY DEF MmcInit
<1>a. ~f
  OBVIOUS
<1> HIDE DEF f
<1>5. dev \in DevType /\ dev.pos = 0 /\ dev.read_ext_csd = f
  BY <1>2 DEF DevType, Data
<1>6. host \in HostType /\ host.mrq = NONE /\ host.cmd = "none" /\ host.data = f
  BY <1>2, <1>3 DEF HostType
<1>7. client \in [Clients -> ClientType] /\ \A c \in Clients : client[c].st = "idle"
  BY <1>2, <1>4 DEF ClientType
<1>8. MmcType
  BY <1>1, <1>5, <1>6, <1>7, MmcAssumption DEF MmcType, Stages
<1>9. WaitingOK
  BY <1>7 DEF WaitingOK
<1>10. HolderOK /\ StageOK
  BY <1>1, <1>5, <1>6, <1>a DEF HolderOK, StageOK
<1> QED BY <1>8, <1>9, <1>10 DEF MmcInv

LEMMA MmcKeeps == MmcInv /\ [MmcNext]_mmcVars => MmcInv'
<1> SUFFICES ASSUME MmcInv, [MmcNext]_mmcVars PROVE MmcInv'
  OBVIOUS
<1>1. CASE UNCHANGED mmcVars
  <2>1. UNCHANGED <<card, dev, client, host, stage, moved>>
    BY <1>1 DEF mmcVars
  <2>2. Req' = Req /\ Client' = Client /\ Active' = Active
    BY <2>1 DEF Req, Client, Active
  <2>3. WaitingOK'
    BY <2>1, Zenon DEF MmcInv, WaitingOK, Served
  <2>4. MmcType' /\ HolderOK'
    BY <2>1, <2>2 DEF MmcInv, MmcType, HolderOK
  <2>5. (Done' <=> Done) /\ (DevOK' <=> DevOK) /\ (Moved(moved)' <=> Moved(moved))
    BY <2>1, <2>2, Zenon DEF Done, Moved, DevOK
  <2>6. StageOK'
    BY <2>1, <2>2, <2>5, Zenon DEF MmcInv, StageOK
  <2> QED BY <2>3, <2>4, <2>6 DEF MmcInv
<1>2. CASE Holder
  BY <1>2, SendKeeps, TransferKeeps, TransferEndsKeeps, StageMoves, FinishKeeps, MutexKeeps DEF Holder
<1>3. ASSUME NEW c \in Clients, Submit(c) \/ nemu_request(c) \/ RequestRefused(c) PROVE MmcInv'
  BY <1>3, OutsideKeeps, MutexKeeps
<1> QED BY <1>1, <1>2, <1>3 DEF MmcNext

-----------------------------------------------------------------------------
\* Steps that the block device does not see: nobody's request is told to the
\* card or completed, and the words that change are being written anyway.
LEMMA QuietStep ==
  ASSUME \A c \in Clients : Served(c)' <=> Served(c),
         \A c \in Clients : Served(c) => client'[c].req = client[c].req,
         \A c \in Clients : ~Served(c) => client'[c] = client[c],
         \A c \in Clients : Served(c) /\ client[c].req.op # "write" => card' = card,
         \A w \in Words : ~Writing(w) => card'[w] = card[w]
  PROVE  UNCHANGED <<card_bar, client_bar>>
<1>1. ASSUME NEW w \in Words PROVE Writing(w)' <=> Writing(w)
  BY Zenon DEF Writing
<1>2. ASSUME NEW w \in Words, Writing(w) PROVE Req' = Req
  <2>1. PICK c \in Clients : Served(c)
    BY <1>2 DEF Writing
  <2>2. host.mrq = c /\ host'.mrq = c
    BY <2>1 DEF Served
  <2> QED BY <2>1, <2>2 DEF Req
<1>3. card_bar' = card_bar
  <2>1. ASSUME NEW w \in Words
        PROVE  (IF Writing(w) THEN Req.data[w - Req.first + 1] ELSE card[w])'
                 = IF Writing(w) THEN Req.data[w - Req.first + 1] ELSE card[w]
    <3>1. CASE Writing(w)
      BY <1>1, <1>2, <3>1
    <3>2. CASE ~Writing(w)
      BY <1>1, <3>2
    <3> QED BY <3>1, <3>2
  <2> QED BY <2>1, Zenon DEF card_bar
<1>4. ASSUME NEW c \in Clients, Served(c) PROVE Answer(client[c].req)' = Answer(client[c].req)
  <2>1. client'[c].req = client[c].req
    BY <1>4
  <2>2. CASE client[c].req.op # "write"
    BY <1>4, <2>1, <2>2 DEF Answer
  <2>3. CASE client[c].req.op = "write"
    BY <2>1, <2>3 DEF Answer
  <2> QED BY <2>2, <2>3
<1>5. client_bar' = client_bar
  <2> DEFINE bar(c) == IF Served(c)
                       THEN [st |-> "served", req |-> client[c].req,
                             result |-> Answer(client[c].req), error |-> FALSE]
                       ELSE client[c]
  <2>1. ASSUME NEW c \in Clients PROVE bar(c)' = bar(c)
    <3>1. CASE Served(c)
      <4>1. Served(c)' /\ client'[c].req = client[c].req
        BY <3>1
      <4>2. Answer(client[c].req)' = Answer(client[c].req)
        BY <1>4, <3>1
      <4> QED BY <3>1, <4>1, <4>2, Zenon
    <3>2. CASE ~Served(c)
      BY <3>2
    <3> QED BY <3>1, <3>2
  <2>2. client_bar = [c \in Clients |-> bar(c)] /\ client_bar' = [c \in Clients |-> bar(c)']
    BY DEF client_bar
  <2> QED BY <2>1, <2>2, Zenon
<1> QED BY <1>3, <1>5

\* Only the thread that holds the mutex is served.
LEMMA NobodyServed ==
  ASSUME MmcInv, ~Active, NEW c \in Clients
  PROVE  ~Served(c)
  BY MmcAssumption DEF MmcInv, HolderOK, Served

LEMMA MmcStartImplements == MmcInit => Dev!Init
<1> SUFFICES ASSUME MmcInit PROVE Dev!Init
  OBVIOUS
<1>0. MmcInv
  BY MmcStart
<1>1. MmcInv /\ ~Active /\ card \in [Words -> Values]
  <2>1. card \in [Words -> Values]
    BY <1>0 DEF MmcInv, MmcType
  <2>2. ~Active
    BY DEF MmcInit, Active
  <2> QED BY <1>0, <2>1, <2>2
<1>2. \A c \in Clients : ~Served(c)
  BY <1>1, NobodyServed
<1>3. card_bar = card
  <2>1. \A w \in Words : ~Writing(w)
    BY <1>2 DEF Writing
  <2> QED BY <1>1, <2>1 DEF card_bar
<1>4. \A c \in Clients : client_bar[c].st = "idle"
  BY <1>2 DEF client_bar, MmcInit
<1> QED BY <1>1, <1>3, <1>4 DEF Dev!Init

\* The steps of the driver between telling the card of a request and
\* completing it.
LEMMA MovesAreQuiet ==
  ASSUME MmcInv, MmcInv',
         \/ nemu_send_command("sbc") \/ nemu_send_command("stop") \/ nemu_transfer_pio
         \/ TransferEnds \/ nemu_finish_data \/ nemu_finish_command \/ nemu_transfer_complete
  PROVE  UNCHANGED <<card_bar, client_bar>>
<1> DEFINE m == host.mrq
<1>1. Active /\ host'.mrq = m
  BY DEF nemu_send_command, nemu_transfer_pio, TransferEnds, nemu_finish_data, nemu_finish_command,
         nemu_transfer_complete, SendStage, Active, MmcInv, MmcType, HostType
<1>2. m \in Clients /\ Req \in Requests
  BY <1>1, HolderFacts
<1>3. Served(m)' <=> Served(m)
  <2>1. CASE nemu_send_command("sbc")
    BY <1>1, <2>1 DEF nemu_send_command, SendStage, Served, MmcInv, StageOK
  <2>2. CASE nemu_send_command("stop")
    BY <1>1, <2>2 DEF nemu_send_command, SendStage, Served, MmcInv, StageOK
  <2>3. CASE nemu_transfer_pio \/ TransferEnds
    BY <1>1, <2>3 DEF nemu_transfer_pio, TransferEnds, Served
  <2>4. CASE nemu_finish_data
    BY <1>1, <2>4 DEF nemu_finish_data, Served, MmcInv, MmcType, HostType, StageOK
  <2>5. CASE nemu_finish_command
    BY <1>1, <2>5 DEF nemu_finish_command, Served, MmcInv, MmcType, HostType, StageOK
  <2>6. CASE nemu_transfer_complete
    BY <1>1, <2>6 DEF nemu_transfer_complete, Served, MmcInv, MmcType, HostType
  <2> QED BY <2>1, <2>2, <2>3, <2>4, <2>5, <2>6
<1>4. \A c \in Clients : c # m => ~Served(c) /\ ~Served(c)'
  BY <1>1 DEF Served
<1>5. \A c \in Clients \ {m} : client'[c] = client[c]
  <2>0. client \in [Clients -> ClientType]
    BY DEF MmcInv, MmcType
  <2>1. CASE UNCHANGED client
    BY <2>1
  <2>2. CASE nemu_transfer_pio
    BY <1>2, <2>0, <2>2 DEF nemu_transfer_pio
  <2>3. CASE TransferEnds
    BY <1>2, <2>0, <2>3 DEF TransferEnds
  <2> QED BY <2>1, <2>2, <2>3
          DEF nemu_send_command, nemu_finish_data, nemu_finish_command, nemu_transfer_complete
<1>6. client'[m].req = client[m].req /\ (~Served(m) => client' = client)
  <2>0. client \in [Clients -> ClientType] /\ client[m] \in ClientType
    BY <1>2 DEF MmcInv, MmcType
  <2>1. CASE UNCHANGED client
    BY <2>1
  <2>2. CASE nemu_transfer_pio
    <3>1. Served(m)
      BY <2>2 DEF nemu_transfer_pio, Served, MmcInv, StageOK
    <3> QED BY <1>2, <2>0, <2>2, <3>1 DEF nemu_transfer_pio, ClientType
  <2>3. CASE TransferEnds
    <3>1. Served(m)
      BY <2>3 DEF TransferEnds, Served, MmcInv, StageOK
    <3> QED BY <1>2, <2>0, <2>3, <3>1 DEF TransferEnds, ClientType
  <2> QED BY <2>1, <2>2, <2>3
          DEF nemu_send_command, nemu_finish_data, nemu_finish_command, nemu_transfer_complete
<1>7. (Req.op # "write" => card' = card) /\ \A w \in Words : ~Writing(w) => card'[w] = card[w]
  <2>1. CASE UNCHANGED card
    BY <2>1
  <2>2. CASE nemu_transfer_pio
    <3>1. /\ HasData(Req) /\ DevOK /\ Moved(moved) /\ moved \in Nat /\ Served(m)
          /\ moved < Len(Req.data) /\ card \in [Words -> Values]
      BY <2>2 DEF nemu_transfer_pio, MmcInv, MmcType, StageOK, Served
    <3>2. /\ Req.op # "write" => card' = card
          /\ Req.op = "write" => \A w \in Words \ {Req.first + moved} : card'[w] = card[w]
      <4>1. CASE Req.op = "ext"
        <5>1. Len(Req.data) = BlkWords
          BY <1>1, <4>1, RequestFacts
        <5>2. dev.read_ext_csd
          BY <3>1, <4>1, <5>1 DEF DevOK
        <5> QED BY <2>2, <4>1, <5>2 DEF nemu_transfer_pio, sdcard_data
      <4>2. CASE Req.op = "read"
        <5>1. ~dev.write_cmd
          BY <3>1, <4>2 DEF DevOK
        <5> QED BY <2>2, <4>2, <5>1 DEF nemu_transfer_pio, sdcard_data
      <4>3. CASE Req.op = "write"
        <5>1. dev.pos = Req.first + moved
          BY <3>1, <4>3 DEF DevOK
        <5> QED BY <2>2, <3>1, <4>3, <5>1 DEF nemu_transfer_pio, sdcard_data
      <4> QED BY <3>1, <4>1, <4>2, <4>3 DEF HasData
    <3>3. Req.op = "write" => Writing(Req.first + moved)
      <4>1. Req.first \in Nat /\ Len(Req.data) \in Nat
        BY <1>1, RequestFacts
      <4>2. Req.first + moved \in Req.first .. (Req.first + Len(Req.data) - 1)
        BY <3>1, <4>1
      <4> QED BY <1>2, <3>1, <4>2 DEF Writing, Req
    <3> QED BY <3>2, <3>3
  <2> QED BY <2>1, <2>2 DEF nemu_send_command, sdcard_handle_cmd, TransferEnds, nemu_finish_data,
                            nemu_finish_command, nemu_transfer_complete
<1>8. \A c \in Clients : Served(c)' <=> Served(c)
  BY <1>1, <1>3, <1>4 DEF Served
<1>9. \A c \in Clients : /\ Served(c) => client'[c].req = client[c].req
                         /\ ~Served(c) => client'[c] = client[c]
                         /\ Served(c) /\ client[c].req.op # "write" => card' = card
  BY <1>4, <1>5, <1>6, <1>7, Zenon DEF Req
<1> QED BY <1>7, <1>8, <1>9, QuietStep

LEMMA MutexIsQuiet ==
  ASSUME MmcInv, MmcInv', mutex_unlock \/ \E c \in Clients : nemu_request(c)
  PROVE  UNCHANGED <<card_bar, client_bar>>
<1>1. ~Active /\ UNCHANGED <<card, client>>
  BY DEF mutex_unlock, nemu_request, Active
<1>2. \A c \in Clients : ~Served(c)
  BY <1>1, NobodyServed
<1>3. \A c \in Clients : ~Served(c)'
  <2>1. host'.cmd = "none" /\ stage' \in {"unlocked", "send_sbc", "send_cmd"}
    BY <1>1 DEF mutex_unlock, nemu_request, MmcInv, HolderOK
  <2> QED BY <2>1 DEF Served
<1> QED BY <1>1, <1>2, <1>3, QuietStep

\* A thread hands in a request, or is told that it is refused.
LEMMA OutsideImplements ==
  ASSUME MmcInv, NEW c \in Clients, Submit(c) \/ RequestRefused(c)
  PROVE  Dev!Next
<1>1. c # host.mrq /\ client \in [Clients -> ClientType] /\ client[c] \in ClientType
  BY OutsideKeeps DEF MmcInv, MmcType
<1>2. UNCHANGED <<card, dev, host, stage, moved>>
  BY DEF Submit, RequestRefused
<1>3. ~Served(c) /\ \A d \in Clients : Served(d)' <=> Served(d)
  BY <1>1, <1>2 DEF Served
<1> DEFINE k == client'[c]
<1>4. client' = [client EXCEPT ![c] = k]
  BY <1>1 DEF Submit, RequestRefused
<1> HIDE DEF k
<1>5. card_bar' = card_bar
  <2>1. ASSUME NEW d \in Clients, Served(d) PROVE client'[d] = client[d] /\ Req' = Req
    <3>1. d # c /\ d = host.mrq
      BY <1>3, <2>1 DEF Served
    <3>2. client'[d] = client[d]
      BY <1>1, <1>4, <3>1
    <3> QED BY <1>2, <3>1, <3>2 DEF Req
  <2>2. ASSUME NEW w \in Words PROVE /\ Writing(w)' <=> Writing(w)
                                     /\ Writing(w) => Req' = Req
    BY <1>3, <2>1, Zenon DEF Writing
  <2>3. \A w \in Words : (IF Writing(w) THEN Req.data[w - Req.first + 1] ELSE card[w])'
                           = IF Writing(w) THEN Req.data[w - Req.first + 1] ELSE card[w]
    BY <1>2, <2>2
  <2> QED BY <2>3, Zenon DEF card_bar
<1>6. client_bar' = [client_bar EXCEPT ![c] = k] /\ client_bar[c] = client[c]
  <2> DEFINE bar(d) == IF Served(d)
                       THEN [st |-> "served", req |-> client[d].req,
                             result |-> Answer(client[d].req), error |-> FALSE]
                       ELSE client[d]
  <2>1. client_bar = [d \in Clients |-> bar(d)] /\ client_bar' = [d \in Clients |-> bar(d)']
    BY DEF client_bar
  <2>2. bar(c) = client[c] /\ bar(c)' = k
    BY <1>1, <1>3, <1>4
  <2>3. ASSUME NEW d \in Clients, d # c PROVE bar(d)' = bar(d)
    <3>1. client'[d] = client[d]
      BY <1>1, <1>4, <2>3
    <3>2. Answer(client[d].req)' = Answer(client[d].req)
      BY <1>2, <3>1 DEF Answer
    <3> QED BY <1>3, <3>1, <3>2, Zenon
  <2> HIDE DEF bar
  <2> QED BY <2>1, <2>2, <2>3
<1>7. CASE Submit(c)
  <2>1. Dev!Submit(c)
    <3>1. PICK r \in Requests :
            client' = [client EXCEPT ![c] = [st |-> "waiting", req |-> r, result |-> <<>>, error |-> FALSE]]
      BY <1>7, Zenon DEF Submit
    <3>2. k = [st |-> "waiting", req |-> r, result |-> <<>>, error |-> FALSE]
      BY <1>1, <3>1 DEF k
    <3>3. client_bar[c].st \in {"idle", "done"}
      BY <1>6, <1>7 DEF Submit
    <3> QED BY <1>5, <1>6, <3>2, <3>3, Zenon DEF Dev!Submit
  <2> QED BY <2>1 DEF Dev!Next
<1>8. CASE RequestRefused(c)
  <2>1. Dev!Refuse(c)
    <3>1. /\ client[c].st = "waiting" /\ client[c].req.op = "odd"
          /\ k = [st |-> "done", req |-> client[c].req, result |-> client[c].result, error |-> TRUE]
      BY <1>1, <1>8 DEF RequestRefused, k
    <3> QED BY <1>5, <1>6, <3>1, Zenon DEF Dev!Refuse
  <2> QED BY <2>1 DEF Dev!Next
<1> QED BY <1>7, <1>8

\* The command of a request reaches the card: from here on the request has
\* taken effect, although no word has been moved yet.
LEMMA CommandServes ==
  ASSUME MmcInv, nemu_send_command("cmd")
  PROVE  Dev!Next
<1>1. stage = "send_cmd" /\ Active /\ host.cmd = "none"
  BY DEF nemu_send_command, SendStage, Active, MmcInv, StageOK
<1>2. PICK c \in Clients : c = host.mrq
  BY <1>1, HolderFacts
<1> DEFINE r == client[c].req
           k == [st |-> "served", req |-> r, result |-> Answer(r), error |-> FALSE]
<1>3. /\ r = Req /\ client[c].st = "waiting" /\ r.op # "odd" /\ r \in Requests
      /\ client \in [Clients -> ClientType] /\ card \in [Words -> Values]
  BY <1>1, <1>2, HolderFacts DEF Req, Client, MmcInv, MmcType
<1>4. UNCHANGED <<card, client>> /\ host'.mrq = c /\ host'.cmd = "cmd"
  BY <1>2 DEF nemu_send_command, sdcard_handle_cmd
<1>5. \A d \in Clients : ~Served(d) /\ (Served(d)' <=> d = c)
  BY <1>1, <1>2, <1>4 DEF Served
<1>6. card_bar = card
  <2>1. \A w \in Words : ~Writing(w)
    BY <1>5 DEF Writing
  <2> QED BY <1>3, <2>1 DEF card_bar
<1>7. client_bar = client
  BY <1>3, <1>5 DEF client_bar
<1>8. client_bar' = [client EXCEPT ![c] = k]
  <2> DEFINE bar(d) == IF Served(d)
                       THEN [st |-> "served", req |-> client[d].req,
                             result |-> Answer(client[d].req), error |-> FALSE]
                       ELSE client[d]
  <2>1. client_bar' = [d \in Clients |-> bar(d)']
    BY DEF client_bar
  <2>2. bar(c)' = k
    <3>1. Answer(client[c].req)' = Answer(client[c].req)
      BY <1>4 DEF Answer
    <3> QED BY <1>4, <1>5, <3>1, Zenon
  <2>3. ASSUME NEW d \in Clients, d # c PROVE bar(d)' = client[d]
    BY <1>4, <1>5, <2>3
  <2> HIDE DEF k
  <2>4. \A d \in Clients : bar(d)' = IF d = c THEN k ELSE client[d]
    BY <2>2, <2>3, Zenon
  <2> HIDE DEF bar
  <2>5. client_bar' = [d \in Clients |-> IF d = c THEN k ELSE client[d]]
    BY <2>1, <2>4, Zenon
  <2>6. DOMAIN client = Clients
    BY <1>3
  <2>7. [client EXCEPT ![c] = k] = [d \in Clients |-> IF d = c THEN k ELSE client[d]]
    BY <2>6, Zenon
  <2> QED BY <2>5, <2>7
<1>9. Answer(r) = Dev!Reply(r, card)
  <2>1. r.op = "ext" => ExtCsd = [i \in DOMAIN r.data |-> ExtCsd[i]]
    <3> SUFFICES ASSUME r.op = "ext" PROVE ExtCsd = [i \in DOMAIN r.data |-> ExtCsd[i]]
      OBVIOUS
    <3>1. Len(r.data) = Len(ExtCsd) /\ ExtCsd \in Seq(Nat) /\ r.data \in Seq(Values)
      BY <1>3, MmcAssumption DEF Request
    <3>2. DOMAIN r.data = DOMAIN ExtCsd
      BY <3>1
    <3> QED BY <3>1, <3>2
  <2> QED BY <2>1 DEF Answer, Dev!Reply
<1>10. card_bar' = [w \in Words |-> IF r.op = "write" /\ w \in Dev!Covered(r)
                                    THEN r.data[w - r.first + 1] ELSE card[w]]
  <2>1. Req' = r
    BY <1>4 DEF Req
  <2>2. ASSUME NEW w \in Words PROVE Writing(w)' <=> r.op = "write" /\ w \in Dev!Covered(r)
    BY <1>4, <1>5, Zenon DEF Writing, Dev!Covered
  <2>3. \A w \in Words : (IF Writing(w) THEN Req.data[w - Req.first + 1] ELSE card[w])'
                          = IF r.op = "write" /\ w \in Dev!Covered(r) THEN r.data[w - r.first + 1] ELSE card[w]
    BY <1>4, <2>1, <2>2
  <2> QED BY <2>3, Zenon DEF card_bar
<1>11. Dev!Serve(c)
  BY <1>3, <1>6, <1>7, <1>8, <1>9, <1>10, Zenon DEF Dev!Serve
<1> QED BY <1>11 DEF Dev!Next

\* The request is completed, with what the card held when it was told of it.
LEMMA FinishCompletes ==
  ASSUME MmcInv, nemu_finish_request
  PROVE  Dev!Next
<1>1. PICK c \in Clients : c = host.mrq
  BY FinishKeeps
<1> DEFINE r == client[c].req
           k == client[c]
<1>2. /\ MmcInv' /\ Done /\ client'[c] = [k EXCEPT !.st = "done"] /\ r = Req
      /\ \A d \in Clients \ {c} : client'[d] = client[d]
  BY <1>1, FinishKeeps DEF Client, Req
<1>3. stage = "finish_request" /\ Active /\ ~Active' /\ card' = card
  BY DEF nemu_finish_request, Active
<1>4. /\ k \in ClientType /\ k.st = "waiting" /\ r \in Request /\ r.op # "odd" /\ r \in Requests
      /\ card \in [Words -> Values] /\ client' \in [Clients -> ClientType]
  <2>1. client' \in [Clients -> ClientType]
    BY <1>2 DEF MmcInv, MmcType
  <2> QED BY <1>1, <1>2, <1>3, <2>1, HolderFacts DEF MmcInv, MmcType, Client
<1>5. \A d \in Clients : (Served(d) <=> d = c) /\ ~Served(d)'
  <2>1. \A d \in Clients : Served(d) <=> d = c
    BY <1>1, <1>3 DEF Served
  <2>2. \A d \in Clients : ~Served(d)'
    <3>1. host'.mrq = NONE
      BY DEF nemu_finish_request
    <3> QED BY <3>1, MmcAssumption DEF Served
  <2> QED BY <2>1, <2>2
<1>6. k.result = Answer(r) /\ (k.error <=> Len(r.data) < r.length)
  <2>0. Moved(Len(r.data)) /\ (k.error <=> Len(r.data) < r.length)
    BY <1>1, <1>2, Zenon DEF Done, Client
  <2>1. Len(r.data) \in Nat /\ r.data \in Seq(Values) /\ k.result \in Seq(Data)
    BY <1>4 DEF Request, ClientType
  <2>2. CASE r.op = "read"
    <3>1. Len(k.result) = Len(r.data) /\ \A i \in 1 .. Len(r.data) : k.result[i] = card[r.first + i - 1]
      BY <1>1, <1>2, <2>0, <2>2 DEF Moved, Client
    <3>2. k.result = [i \in DOMAIN r.data |-> card[r.first + i - 1]]
      <4>1. DOMAIN k.result = 1 .. Len(r.data) /\ DOMAIN r.data = 1 .. Len(r.data)
        BY <2>1, <3>1
      <4>2. k.result = [i \in 1 .. Len(r.data) |-> k.result[i]]
        BY <2>1, <4>1
      <4> QED BY <3>1, <4>1, <4>2, Zenon
    <3> QED BY <2>0, <2>2, <3>2 DEF Answer
  <2>3. CASE r.op = "ext"
    <3>1. Len(k.result) = Len(r.data) /\ \A i \in 1 .. Len(r.data) : k.result[i] = ExtCsd[i]
      BY <1>1, <1>2, <2>0, <2>3 DEF Moved, Client
    <3>2. Len(r.data) = Len(ExtCsd) /\ ExtCsd \in Seq(Nat)
      BY <1>4, <2>3, MmcAssumption
    <3>3. k.result = ExtCsd
      BY <2>1, <3>1, <3>2
    <3> QED BY <2>0, <2>3, <3>3 DEF Answer
  <2>4. CASE r.op \in {"write", "status"}
    BY <1>1, <1>2, <2>0, <2>4 DEF Moved, Client, Answer
  <2> QED BY <1>4, <2>2, <2>3, <2>4 DEF Request
<1>7. card_bar = card /\ card_bar' = card
  <2>1. ASSUME NEW w \in Words, Writing(w) PROVE Req.data[w - Req.first + 1] = card[w]
    <3>1. r.op = "write" /\ w \in r.first .. (r.first + Len(r.data) - 1)
      BY <1>5, <2>1 DEF Writing
    <3>2. r.first \in Nat /\ Len(r.data) \in Nat /\ w \in Nat
      BY <1>4, MmcAssumption DEF Request
    <3> DEFINE i == w - r.first + 1
    <3>3. i \in 1 .. Len(r.data) /\ r.first + i - 1 = w
      <4> DEFINE a == r.first
                 n == Len(r.data)
      <4>1. a \in Nat /\ n \in Nat /\ w \in Nat /\ w \in a .. (a + n - 1) /\ i = w - a + 1
        BY <3>1, <3>2
      <4> HIDE DEF a, n, i
      <4>2. i \in 1 .. n /\ a + i - 1 = w
        BY <4>1
      <4> QED BY <4>2 DEF a, n
    <3> HIDE DEF i
    <3>4. card[r.first + i - 1] = r.data[i]
      BY <1>2, <3>1, <3>3 DEF Done, Moved
    <3> QED BY <1>2, <3>3, <3>4 DEF i
  <2>2. card_bar = card
    BY <1>4, <2>1 DEF card_bar
  <2>3. \A w \in Words : ~Writing(w)'
    BY <1>5 DEF Writing
  <2>4. card_bar' = card
    BY <1>3, <1>4, <2>3 DEF card_bar
  <2> QED BY <2>2, <2>4
<1>8. client_bar[c] = [st |-> "served", req |-> r, result |-> Answer(r), error |-> FALSE]
  BY <1>5, Zenon DEF client_bar
<1>9. client_bar' = client'
  BY <1>4, <1>5 DEF client_bar
<1>10. \A d \in Clients \ {c} : client_bar[d] = client[d]
  BY <1>5 DEF client_bar
<1> DEFINE e == Dev!Short(r)
           done == [st |-> "done", req |-> r, result |-> Answer(r), error |-> e]
<1>11. client'[c] = done
  <2>1. e \in BOOLEAN /\ k.error = e
    <3>1. e \in BOOLEAN /\ k.error \in BOOLEAN
      BY <1>4 DEF ClientType, Dev!Short
    <3>2. k.error <=> e
      BY <1>6 DEF Dev!Short
    <3> QED BY <3>1, <3>2
  <2> HIDE DEF e
  <2> QED BY <1>2, <1>4, <1>6, <2>1 DEF ClientType
<1>12. client_bar' = [client_bar EXCEPT ![c] = done]
  <2> HIDE DEF done
  <2>1. client_bar = [d \in Clients |-> client_bar[d]]
    BY DEF client_bar
  <2> QED BY <1>2, <1>4, <1>9, <1>10, <1>11, <2>1
<1>13. client_bar[c].st = "served" /\ client_bar[c].req = r /\ client_bar[c].result = Answer(r)
  BY <1>8
<1>14. Dev!Complete(c)
  BY <1>7, <1>12, <1>13, Zenon DEF Dev!Complete
<1> QED BY <1>14 DEF Dev!Next

\* Driver and controller together behave like the block device, step by step.
LEMMA StepImplements ==
  MmcInv /\ MmcInv' /\ [MmcNext]_mmcVars => [Dev!Next]_(Dev!vars)
<1> SUFFICES ASSUME MmcInv, MmcInv', [MmcNext]_mmcVars PROVE Dev!Next \/ UNCHANGED <<card_bar, client_bar>>
  BY DEF Dev!vars
<1>1. CASE UNCHANGED mmcVars
  <2>1. UNCHANGED <<card, client, host, stage>>
    BY <1>1 DEF mmcVars
  <2>2. \A c \in Clients : Served(c)' <=> Served(c)
    BY <2>1 DEF Served
  <2> QED BY <2>1, <2>2, QuietStep
<1>2. CASE Holder
  <2>1. \/ nemu_send_command("cmd") \/ nemu_finish_request \/ mutex_unlock
        \/ \/ nemu_send_command("sbc") \/ nemu_send_command("stop") \/ nemu_transfer_pio
           \/ TransferEnds \/ nemu_finish_data \/ nemu_finish_command \/ nemu_transfer_complete
    BY <1>2 DEF Holder
  <2> QED BY <2>1, CommandServes, FinishCompletes, MutexIsQuiet, MovesAreQuiet
<1>3. ASSUME NEW c \in Clients, Submit(c) \/ nemu_request(c) \/ RequestRefused(c)
      PROVE  Dev!Next \/ UNCHANGED <<card_bar, client_bar>>
  BY <1>3, OutsideImplements, MutexIsQuiet
<1> QED BY <1>1, <1>2, <1>3 DEF MmcNext

LEMMA MmcQuiet == MmcInv => MmcTypeOK /\ NoWarning
<1> SUFFICES ASSUME MmcInv PROVE MmcTypeOK /\ NoWarning
  OBVIOUS
<1>1. MmcTypeOK
  BY DEF MmcInv, MmcType, MmcTypeOK, HostType, ClientType, Stages
<1>2. NoWarning
  BY DEF NoWarning, MmcInv, StageOK, HolderOK, Active
<1> QED BY <1>1, <1>2

\* Driver and controller together are a block device, and the driver never
\* has to warn (sdcard.c 53-119, nemu.c 61-342): whatever the threads ask for
\* and however they wait for the mutex, each request takes effect once and as
\* a whole, and is completed with exactly what that effect returns.
THEOREM MmcIsBlockDevice == MmcSpec => IsQuietBlockDevice
<1>1. MmcSpec => []MmcInv
  BY MmcStart, MmcKeeps, PTL DEF MmcSpec
<1>2. MmcSpec => Dev!Spec
  BY <1>1, MmcStartImplements, StepImplements, PTL DEF MmcSpec, Dev!Spec
<1>3. MmcSpec => [](MmcTypeOK /\ NoWarning)
  BY <1>1, MmcQuiet, PTL
<1> QED BY <1>2, <1>3, PTL DEF IsQuietBlockDevice
=============================================================================
