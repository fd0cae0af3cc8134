----------------------------- MODULE MCDevices -----------------------------
(***************************************************************************)
(* The devices, one at a time: part says which of them runs, the others    *)
(* stay as they start.                                                     *)
(*   mmc       two blocks of two words and two threads; reads and writes of *)
(*             one and two blocks, with and without CMD23, those of one    *)
(*             block with room for half of it, the extended CSD, a command *)
(*             without data and one with an odd block size                 *)
(*   iomap     an address space of 32 bytes with a memory of 8, pages of 4 *)
(*             bytes, and every sequence of up to two devices              *)
(***************************************************************************)
EXTENDS NemuMmc, Devices

CONSTANT Parts
VARIABLE part

MCExtCsd == <<2, 3>>
MCImages == {[w \in Words |-> 0], [w \in Words |-> w % 2]}

Rq(op, first, length, data, sbc, stop) ==
  [op |-> op, first |-> first, length |-> length, data |-> data, sbc |-> sbc, stop |-> stop]

MCRequests ==
  { Rq("read", 0, 4, <<0, 0, 0, 0>>, TRUE, TRUE),
    Rq("read", 2, 2, <<0>>, FALSE, TRUE),
    Rq("write", 0, 4, <<1, 0, 1, 1>>, TRUE, TRUE),
    Rq("write", 2, 2, <<1>>, FALSE, TRUE),
    Rq("ext", 0, 2, <<0, 0>>, FALSE, FALSE),
    Rq("status", 0, 0, <<>>, FALSE, FALSE),
    Rq("odd", 0, 1, <<>>, FALSE, FALSE) }

MCAddrs == 0 .. 31
Small == [addr : {0, 3, 8, 14, 16, 30}, len : {1, 4, 6}, port : BOOLEAN]
MCConfigurations == UNION {[1 .. n -> Small] : n \in 1 .. 2}

Init ==
  /\ part \in Parts
  /\ MmcInit      /\ (part # "mmc" => card = [w \in Words |-> 0])
  /\ KeyboardInit /\ Ps2Init
  /\ ScreenInit   /\ (part # "screen" => vmem[0] = 0 /\ shown[0] = 0)
  /\ IoMapInit    /\ (part # "iomap" => todo = <<[addr |-> 0, len |-> 1, port |-> TRUE]>>)
  /\ UptimeInit   /\ (part # "uptime" => latching)

Next ==
  \/ /\ part = "mmc" /\ MmcNext
     /\ UNCHANGED <<part, keyboardVars, ps2Vars, screenVars, ioMapVars, uptimeVars>>
  \/ /\ part = "keyboard" /\ KeyboardNext
     /\ UNCHANGED <<part, mmcVars, ps2Vars, screenVars, ioMapVars, uptimeVars>>
  \/ /\ part = "ps2" /\ Ps2Next
     /\ UNCHANGED <<part, mmcVars, keyboardVars, screenVars, ioMapVars, uptimeVars>>
  \/ /\ part = "screen" /\ ScreenNext
     /\ UNCHANGED <<part, mmcVars, keyboardVars, ps2Vars, ioMapVars, uptimeVars>>
  \/ /\ part = "iomap" /\ IoMapNext
     /\ UNCHANGED <<part, mmcVars, keyboardVars, ps2Vars, screenVars, uptimeVars>>
  \/ /\ part = "uptime" /\ UptimeNext
     /\ UNCHANGED <<part, mmcVars, keyboardVars, ps2Vars, screenVars, ioMapVars>>

vars == <<part, mmcVars, keyboardVars, ps2Vars, screenVars, ioMapVars, uptimeVars>>
\* The kernel runs the thread that holds the driver's mutex, and a mutex of
\* Linux is handed to its waiters in turn.
Fairness ==
  /\ WF_mmcVars(part = "mmc" /\ Holder)
  /\ \A c \in Clients : /\ SF_mmcVars(part = "mmc" /\ nemu_request(c))
                       /\ WF_mmcVars(part = "mmc" /\ RequestRefused(c))

Spec == Init /\ [][Next]_vars /\ Fairness
=============================================================================
