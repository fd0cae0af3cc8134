---------------------------- MODULE BlockDevice ----------------------------
(***************************************************************************)
(* What the card and its driver promise together: a store of words on      *)
(* which every request takes effect at once, between its submission and    *)
(* its completion, and is completed once.                                  *)
(***************************************************************************)
EXTENDS Integers, Sequences

CONSTANTS Clients, Words, Values, Requests,
          ExtCsd     \* the card's description of itself, as words

(* A request names an operation, the first word and how many there are;     *)
(* data are the words to write, or the room for what is read.               *)
VARIABLES card,
          client     \* [st, req, result, error] of every client

Short(r) == Len(r.data) < r.length
Covered(r) == r.first .. (r.first + Len(r.data) - 1)
Reply(r, content) ==
  CASE r.op = "read" -> [i \in DOMAIN r.data |-> content[r.first + i - 1]]
    [] r.op = "ext"  -> [i \in DOMAIN r.data |-> ExtCsd[i]]
    [] OTHER -> <<>>

Submit(c) ==
  /\ client[c].st \in {"idle", "done"}
  /\ \E r \in Requests :
       client' = [client EXCEPT ![c] = [st |-> "waiting", req |-> r, result |-> <<>>, error |-> FALSE]]
  /\ UNCHANGED card

\* The effect: a write changes the covered words and no other.
Serve(c) ==
  /\ client[c].st = "waiting"
  /\ LET r == client[c].req IN
     /\ r.op # "odd"
     /\ card' = [w \in Words |-> IF r.op = "write" /\ w \in Covered(r)
                                 THEN r.data[w - r.first + 1] ELSE card[w]]
     /\ client' = [client EXCEPT ![c] = [st |-> "served", req |-> r, result |-> Reply(r, card), error |-> FALSE]]

\* Completion, with an error when the room given was too small.
Complete(c) ==
  /\ client[c].st = "served"
  /\ client' = [client EXCEPT ![c] = [st |-> "done", req |-> @.req, result |-> @.result, error |-> Short(@.req)]]
  /\ UNCHANGED card

\* A block size that is not supported is refused without any effect.
Refuse(c) ==
  /\ client[c].st = "waiting"
  /\ client[c].req.op = "odd"
  /\ client' = [client EXCEPT ![c] = [st |-> "done", req |-> @.req, result |-> @.result, error |-> TRUE]]
  /\ UNCHANGED card

Init ==
  /\ card \in [Words -> Values]
  /\ \A c \in Clients : client[c].st = "idle"

Next == \E c \in Clients : Submit(c) \/ Serve(c) \/ Complete(c) \/ Refuse(c)
vars == <<card, client>>
Spec == Init /\ [][Next]_vars
=============================================================================
