--------------------------- MODULE DevicesProofs ----------------------------
(***************************************************************************)
(* The devices and their drivers for every size of ring, screen, address    *)
(* space and counter, and for runs of every length.                         *)
(***************************************************************************)
EXTENDS Devices, Induction

\* The time a prover may take for a step.
USE SMTT(20), ZenonT(30)

-----------------------------------------------------------------------------
(***************************************************************************)
(* The keyboard of NEMU, for every ring and key map: KeysDelivered.        *)
(***************************************************************************)

KeyEvents == {Event(k, d) : k \in Keys, d \in BOOLEAN}
HostEvents == {Event(k, d) : k \in Keys \cup {Unmapped}, d \in BOOLEAN} \cup {QUIT}

\* The ring holds, from s.f on, the accepted keys that have not been read.
RingOK(s) ==
  LET n == Len(s.log) - Len(got) IN
  /\ n \in 0 .. KEY_QUEUE_LEN
  /\ n = KEY_QUEUE_LEN <=> s.state = "abort"
  /\ s.r = (s.f + n) % KEY_QUEUE_LEN
  /\ \A i \in 1 .. Len(got) : got[i] = s.log[i]
  /\ \A i \in 1 .. n : decode(s.queue[(s.f + i - 1) % KEY_QUEUE_LEN]) = s.log[Len(got) + i]

RingType ==
  [queue : [0 .. KEY_QUEUE_LEN - 1 -> KeyCodes \cup {KEY_NONE}],
   f : 0 .. KEY_QUEUE_LEN - 1, r : 0 .. KEY_QUEUE_LEN - 1,
   state : {"running", "stop", "quit", "abort"}, log : Seq(KeyEvents)]

Rings == {s \in RingType : s.f = key_f /\ RingOK(s)}

KeyboardInv ==
  /\ ring \in Rings
  /\ events \in Seq(HostEvents)
  /\ got \in Seq(KeyEvents)

\* A position of the ring, and one that has gone around it once.
LEMMA Around ==
  ASSUME NEW L \in Nat \ {0}, NEW m \in 0 .. 2 * L - 1
  PROVE  m % L = IF m < L THEN m ELSE m - L
<1>1. CASE m < L BY <1>1, Z3
<1>2. CASE m >= L
  <2>1. m - L \in 0 .. L - 1
    BY <1>2
  <2>2. (1 * L + (m - L)) % L = m - L
    BY <2>1, Z3
  <2> QED BY <1>2, <2>2
<1> QED BY <1>1, <1>2

\* A key is taken apart as it was put together.
LEMMA Decoded ==
  ASSUME NEW e \in KeyEvents
  PROVE  LET code == e.key + (IF e.down THEN KEYDOWN_MASK ELSE 0) IN
           code \in KeyCodes /\ decode(code) = e
<1> DEFINE M == KEYDOWN_MASK
           code == e.key + (IF e.down THEN M ELSE 0)
<1>1. PICK k \in Keys, d \in BOOLEAN : e = [key |-> k, down |-> d]
  BY DEF KeyEvents, Event
<1>2. M \in Nat \ {0} /\ k \in 1 .. M - 1
  BY KeyboardAssumption
<1>3. CASE d
  <2>1. code = k + M
    BY <1>1, <1>2, <1>3
  <2>2. (k + M) % M = k
    BY <1>2, Around
  <2>3. (k + M) \div M = 1
    BY <1>2, Z3
  <2>4. (1 % 2) = 1
    OBVIOUS
  <2>5. decode(code) = [key |-> k, down |-> TRUE]
    BY <2>1, <2>2, <2>3, <2>4, Zenon DEF decode
  <2>6. code \in KeyCodes
    BY <2>1 DEF KeyCodes
  <2> QED BY <1>1, <1>3, <2>5, <2>6
<1>4. CASE ~d
  <2>1. code = k + 0 /\ k + 0 = k
    BY <1>1, <1>2, <1>4
  <2>2. k % M = k
    BY <1>2, Around
  <2>3. k \div M = 0
    BY <1>2, Z3
  <2>4. ((0 % 2) = 1) = FALSE
    OBVIOUS
  <2>5. decode(code) = [key |-> k, down |-> FALSE]
    BY <2>1, <2>2, <2>3, <2>4, Zenon DEF decode
  <2>6. code \in KeyCodes
    BY <2>1 DEF KeyCodes
  <2> QED BY <1>1, <1>4, <2>5, <2>6, Zenon
<1> QED BY <1>3, <1>4

\* The places of a ring with n keys from f on, and the next free one r.
Places(L, f, n, r) ==
  /\ (r + 1) % L \in 0 .. L - 1
  /\ (r + 1) % L = (f + (n + 1)) % L
  /\ (r + 1) % L = f <=> n + 1 = L
  /\ \A i \in 1 .. n : (f + i - 1) % L \in (0 .. L - 1) \ {r}
  /\ (f + (n + 1) - 1) % L = r

LEMMA RingPlaces ==
  ASSUME NEW L \in Nat \ {0}, NEW f \in 0 .. L - 1, NEW n \in 0 .. L - 1, NEW r,
         r = (f + n) % L
  PROVE  Places(L, f, n, r)
<1>1. r = IF f + n < L THEN f + n ELSE f + n - L
  BY Around
<1>2. (r + 1) % L = IF r + 1 < L THEN r + 1 ELSE r + 1 - L
  <2> DEFINE m == r + 1
  <2>1. m \in 0 .. 2 * L - 1
    BY <1>1
  <2> HIDE DEF m
  <2>2. m % L = IF m < L THEN m ELSE m - L
    BY <2>1, Around, Zenon
  <2> QED BY <2>2 DEF m
<1>3. (f + (n + 1)) % L = IF f + (n + 1) < L THEN f + (n + 1) ELSE f + (n + 1) - L
  <2> DEFINE m == f + (n + 1)
  <2>1. m \in 0 .. 2 * L - 1
    OBVIOUS
  <2> HIDE DEF m
  <2>2. m % L = IF m < L THEN m ELSE m - L
    BY <2>1, Around, Zenon
  <2> QED BY <2>2 DEF m
<1>4. \A i \in 1 .. n : (f + i - 1) % L = IF f + i - 1 < L THEN f + i - 1 ELSE f + i - 1 - L
  <2> TAKE i \in 1 .. n
  <2> DEFINE m == f + i - 1
  <2>1. m \in 0 .. 2 * L - 1
    OBVIOUS
  <2> HIDE DEF m
  <2>2. m % L = IF m < L THEN m ELSE m - L
    BY <2>1, Around, Zenon
  <2> QED BY <2>2 DEF m
<1>5. f + (n + 1) - 1 = f + n
  OBVIOUS
<1> QED BY <1>1, <1>2, <1>3, <1>4, <1>5 DEF Places

LEMMA EnqueueKeeps ==
  ASSUME got \in Seq(KeyEvents), NEW s \in Rings, s.state = "running", NEW e \in KeyEvents
  PROVE  key_enqueue(s, e.key + (IF e.down THEN KEYDOWN_MASK ELSE 0), e) \in Rings
<1> DEFINE L == KEY_QUEUE_LEN
           code == e.key + (IF e.down THEN KEYDOWN_MASK ELSE 0)
           g == Len(got)
           n == Len(s.log) - g
           q == s.queue
           f == s.f
           r == s.r
           log == s.log
           r1 == (r + 1) % L
           t == key_enqueue(s, code, e)
<1>1. L \in Nat \ {0} /\ s \in RingType /\ f = key_f /\ RingOK(s)
  BY KeyboardAssumption DEF Rings
<1>2. f \in 0 .. L - 1 /\ r \in 0 .. L - 1 /\ log \in Seq(KeyEvents)
  BY <1>1 DEF RingType
<1>3. q \in [0 .. L - 1 -> KeyCodes \cup {KEY_NONE}]
  BY <1>1 DEF RingType
<1>4. /\ n \in 0 .. L /\ (n = L <=> s.state = "abort") /\ r = (f + n) % L
      /\ \A i \in 1 .. g : got[i] = log[i]
      /\ \A i \in 1 .. n : decode(q[(f + i - 1) % L]) = log[g + i]
  BY <1>1, Zenon DEF RingOK
<1>5. code \in KeyCodes /\ decode(code) = e
  BY Decoded
<1>6. t = [queue |-> [q EXCEPT ![r] = code], f |-> f, r |-> r1,
           state |-> IF r1 = f THEN "abort" ELSE s.state, log |-> Append(log, e)]
  BY DEF key_enqueue
<1>7. n # L
  BY <1>4
<1>8. g \in Nat /\ Len(log) \in Nat
  BY <1>2
<1>9. Len(log) = g + n
  BY <1>8
<1> HIDE DEF code, L, g, n, q, f, r, log, t
<1>10. n \in 0 .. L - 1
  BY <1>1, <1>4, <1>7
<1>11. /\ r1 \in 0 .. L - 1 /\ r1 = (f + (n + 1)) % L /\ (r1 = f <=> n + 1 = L)
       /\ \A i \in 1 .. n : (f + i - 1) % L \in (0 .. L - 1) \ {r}
       /\ (f + (n + 1) - 1) % L = r
  <2>1. r = (f + n) % L
    BY <1>4
  <2>2. L \in Nat \ {0} /\ f \in 0 .. L - 1 /\ n \in 0 .. L - 1
    BY <1>1, <1>2, <1>10
  <2>3. Places(L, f, n, r)
    BY <2>1, <2>2, RingPlaces
  <2> QED BY <2>3 DEF Places
<1> HIDE DEF r1
<1>12. /\ t.queue = [q EXCEPT ![r] = code] /\ t.f = f /\ t.r = r1 /\ t.log = Append(log, e)
       /\ t.state = IF r1 = f THEN "abort" ELSE "running"
  BY <1>6
<1>13. t \in RingType
  <2>1. [q EXCEPT ![r] = code] \in [0 .. L - 1 -> KeyCodes \cup {KEY_NONE}]
    BY <1>3, <1>5, Zenon
  <2>2. Append(log, e) \in Seq(KeyEvents)
    BY <1>2
  <2> QED BY <1>2, <1>6, <1>11, <2>1, <2>2 DEF RingType, L
<1>14. /\ Len(t.log) = g + n + 1 /\ t.log[g + n + 1] = e
       /\ \A i \in 1 .. g + n : t.log[i] = log[i]
  BY <1>2, <1>9, <1>12
<1>15. Len(t.log) - g = n + 1 /\ n + 1 \in 0 .. L
  BY <1>1, <1>8, <1>10, <1>14
<1>16. n + 1 = L <=> t.state = "abort"
  BY <1>11, <1>12
<1>17. \A i \in 1 .. g : got[i] = t.log[i]
  BY <1>4, <1>8, <1>10, <1>14
<1>18. \A i \in 1 .. n + 1 : decode(t.queue[(t.f + i - 1) % L]) = t.log[g + i]
  <2> TAKE i \in 1 .. n + 1
  <2>1. CASE i = n + 1
    <3>1. t.queue[r] = code
      BY <1>2, <1>3, <1>12
    <3>2. g + i = g + n + 1
      BY <1>8, <1>10, <2>1
    <3> QED BY <1>5, <1>11, <1>12, <1>14, <2>1, <3>1, <3>2, Zenon
  <2>2. CASE i \in 1 .. n
    <3>1. t.queue[(f + i - 1) % L] = q[(f + i - 1) % L]
      BY <1>3, <1>11, <1>12, <2>2
    <3>2. t.log[g + i] = log[g + i]
      <4>1. g + i \in 1 .. g + n
        BY <1>8, <1>10, <2>2
      <4> QED BY <1>14, <4>1
    <3> QED BY <1>4, <1>12, <2>2, <3>1, <3>2
  <2> QED BY <1>10, <2>1, <2>2
<1>19. RingOK(t)
  BY <1>11, <1>12, <1>15, <1>16, <1>17, <1>18, Zenon DEF RingOK, L, g
<1> QED BY <1>1, <1>12, <1>13, <1>19 DEF Rings, t, code

LEMMA PollKeeps ==
  ASSUME got \in Seq(KeyEvents), NEW s \in Rings, NEW e \in HostEvents
  PROVE  poll(s, e) \in Rings
<1>1. CASE e = QUIT /\ s.state # "abort"
  <2>1. poll(s, e) = [s EXCEPT !.state = "quit"]
    BY <1>1 DEF poll
  <2>2. /\ poll(s, e) \in RingType /\ poll(s, e).state = "quit"
        /\ poll(s, e).queue = s.queue /\ poll(s, e).f = s.f /\ poll(s, e).r = s.r
        /\ poll(s, e).log = s.log
    BY <2>1 DEF Rings, RingType
  <2>3. RingOK(poll(s, e))
    BY <1>1, <2>2 DEF Rings, RingOK
  <2> QED BY <2>2, <2>3 DEF Rings
<1>2. CASE ~(e = QUIT /\ s.state # "abort") /\ s.state = "running" /\ e.key \in Keys
  <2>1. e \in KeyEvents
    BY <1>2, KeyboardAssumption DEF HostEvents, KeyEvents, Event, QUIT, KEY_NONE
  <2> QED BY <1>2, <2>1, EnqueueKeeps DEF poll, send_key
<1>3. CASE ~(e = QUIT /\ s.state # "abort") /\ ~(s.state = "running" /\ e.key \in Keys)
  BY <1>3 DEF poll, send_key
<1> QED BY <1>1, <1>2, <1>3

\* What the loop of device_update leaves is a ring.
LEMMA PolledKeeps ==
  ASSUME KeyboardInv
  PROVE  Polled[Len(events)] \in Rings
<1> DEFINE m == Len(events)
           D == [p \in (1 .. m) \X Rings |-> poll(p[2], events[p[1]])]
           Body(f) == [n \in 0 .. m |-> IF n = 0 THEN ring ELSE poll(f[n - 1], events[n])]
<1>1. /\ m \in Nat /\ ring \in Rings /\ got \in Seq(KeyEvents)
      /\ \A n \in 1 .. m : events[n] \in HostEvents
  BY DEF KeyboardInv
<1> HIDE DEF m
<1>2. \A n \in 1 .. m, s \in Rings : poll(s, events[n]) \in Rings
  BY <1>1, PollKeeps
<1>3. \A n \in 1 .. m, s \in Rings : D[<<n, s>>] = poll(s, events[n])
  OBVIOUS
<1>4. D \in [(1 .. m) \X Rings -> Rings]
  BY <1>2
<1> HIDE DEF D
<1>5. PICK f \in [0 .. m -> Rings] :
         f[0] = ring /\ \A n \in 1 .. m : f[n] = D[<<n, f[n - 1]>>]
  <2>1. Iterated(Rings, ring, m, D)
    BY <1>1, <1>4, Iteration, Zenon
  <2> QED BY <2>1, Zenon DEF Iterated, Iterates
<1>6. f = Body(f)
  <2>1. \A n \in 0 .. m : f[n] = IF n = 0 THEN ring ELSE poll(f[n - 1], events[n])
    <3> TAKE n \in 0 .. m
    <3>1. CASE n = 0 BY <1>5, <3>1
    <3>2. CASE n # 0
      <4>1. n \in 1 .. m /\ n - 1 \in 0 .. m
        BY <1>1, <3>2
      <4> QED BY <1>3, <1>5, <3>2, <4>1, Zenon
    <3> QED BY <3>1, <3>2
  <2> QED BY <1>5, <2>1
<1>7. Polled = Body(Polled)
  <2>1. Polled = CHOOSE h : h = Body(h)
    BY DEF Polled, m
  <2> HIDE DEF Body
  <2> QED BY <1>6, <2>1
<1>8. Polled[0] = ring /\ \A n \in 1 .. m : Polled[n] = poll(Polled[n - 1], events[n])
  <2>1. \A n \in 0 .. m : Polled[n] = IF n = 0 THEN ring ELSE poll(Polled[n - 1], events[n])
    BY <1>7, Zenon
  <2> QED BY <1>1, <2>1
<1> DEFINE T == {n \in Nat : n <= m => Polled[n] \in Rings}
<1>9. 0 \in T
  BY <1>1, <1>8
<1>10. \A n \in Nat : n \in T => n + 1 \in T
  <2> SUFFICES ASSUME NEW n \in Nat, n \in T, n + 1 <= m PROVE Polled[n + 1] \in Rings
    OBVIOUS
  <2>1. n + 1 \in 1 .. m /\ (n + 1) - 1 = n /\ Polled[n] \in Rings
    BY <1>1
  <2> QED BY <1>2, <1>8, <2>1
<1>11. m \in T
  <2> HIDE DEF T
  <2> QED BY <1>1, <1>9, <1>10, SetInduction, Zenon
<1> QED BY <1>1, <1>11 DEF m

\* A read of the register takes the oldest key out of the ring.
LEMMA ReadKeeps ==
  ASSUME KeyboardInv, __am_input_keybrd
  PROVE  KeyboardInv'
<1> DEFINE L == KEY_QUEUE_LEN
           g == Len(got)
           n == Len(accepted) - g
<1>1. /\ L \in Nat \ {0} /\ ring \in RingType /\ RingOK(ring)
      /\ got \in Seq(KeyEvents) /\ events \in Seq(HostEvents)
  BY KeyboardAssumption DEF KeyboardInv, Rings
<1>2. /\ key_f \in 0 .. L - 1 /\ key_r \in 0 .. L - 1 /\ accepted \in Seq(KeyEvents)
      /\ state \in {"running", "stop", "quit", "abort"}
      /\ key_queue \in [0 .. L - 1 -> KeyCodes \cup {KEY_NONE}]
  BY <1>1 DEF ring, RingType
<1>3. /\ n \in 0 .. L /\ (n = L <=> state = "abort") /\ key_r = (key_f + n) % L
      /\ \A i \in 1 .. g : got[i] = accepted[i]
      /\ \A i \in 1 .. n : decode(key_queue[(key_f + i - 1) % L]) = accepted[g + i]
  BY <1>1 DEF RingOK, ring
<1>4. g \in Nat /\ Len(accepted) \in Nat /\ Len(accepted) = g + n
  BY <1>1, <1>2
<1>5. state = "running" /\ UNCHANGED <<events, key_queue, key_r, state, accepted>>
  BY DEF __am_input_keybrd
<1>6. CASE key_f = key_r
  <2>1. UNCHANGED <<key_f, got>>
    BY <1>6 DEF __am_input_keybrd
  <2> QED BY <1>5, <2>1 DEF KeyboardInv, ring, Rings, RingOK, RingType
<1>7. CASE key_f # key_r
  <2> DEFINE f1 == (key_f + 1) % L
             e == accepted[g + 1]
  <2>1. key_f' = f1 /\ got' = Append(got, decode(key_queue[key_f]))
    BY <1>7 DEF __am_input_keybrd
  <2> HIDE DEF g, n
  <2>2. key_f % L = key_f /\ (key_f + 0) % L = key_f /\ (key_f + 1 - 1) % L = key_f
    <3>1. key_f \in 0 .. 2 * L - 1 /\ key_f < L
      BY <1>1, <1>2
    <3>2. key_f % L = key_f
      BY <1>1, <3>1, Around
    <3>3. key_f + 0 = key_f /\ key_f + 1 - 1 = key_f
      BY <3>1
    <3> QED BY <3>2, <3>3
  <2>3. n \in 1 .. L - 1
    BY <1>1, <1>3, <1>5, <1>7, <2>2
  <2>4. e \in KeyEvents /\ decode(key_queue[key_f]) = e
    BY <1>2, <1>3, <1>4, <2>2, <2>3
  <2>5. got' \in Seq(KeyEvents) /\ Len(got') = g + 1
    BY <1>1, <2>1, <2>4 DEF g
  <2>6. f1 = IF key_f + 1 < L THEN key_f + 1 ELSE key_f + 1 - L
    <3> DEFINE a == key_f + 1
    <3>1. a \in 0 .. 2 * L - 1
      BY <1>1, <1>2
    <3> HIDE DEF a
    <3>2. a % L = IF a < L THEN a ELSE a - L
      BY <1>1, <3>1, Around, Zenon
    <3> QED BY <1>1, <1>2, <3>2 DEF a
  <2>7. f1 \in 0 .. L - 1
    BY <1>1, <1>2, <2>6
  <2>8. \A k \in 0 .. L - 1 : (f1 + k) % L = (key_f + (k + 1)) % L
    <3> TAKE k \in 0 .. L - 1
    <3> DEFINE a == f1 + k
               b == key_f + (k + 1)
    <3>1. a \in 0 .. 2 * L - 1 /\ b \in 0 .. 2 * L - 1
      BY <1>1, <1>2, <2>7
    <3>2. a = b \/ (a = b - L /\ b >= L)
      <4> HIDE DEF f1
      <4> QED BY <1>1, <1>2, <2>6
    <3> HIDE DEF a, b
    <3>3. a % L = IF a < L THEN a ELSE a - L
      BY <1>1, <3>1, Around, Zenon
    <3>4. b % L = IF b < L THEN b ELSE b - L
      BY <1>1, <3>1, Around, Zenon
    <3>5. a % L = b % L
      BY <1>1, <3>1, <3>2, <3>3, <3>4
    <3> QED BY <3>5 DEF a, b
  <2> HIDE DEF f1
  <2>9. key_r = (f1 + (n - 1)) % L
    <3>1. n - 1 \in 0 .. L - 1 /\ (n - 1) + 1 = n
      BY <1>1, <2>3
    <3> QED BY <1>3, <2>8, <3>1
  <2>10. \A i \in 1 .. g + 1 : got'[i] = accepted[i]
    BY <1>1, <1>3, <1>4, <2>1, <2>4 DEF g
  <2>11. \A i \in 1 .. n - 1 : decode(key_queue[(f1 + i - 1) % L]) = accepted[(g + 1) + i]
    <3> TAKE i \in 1 .. n - 1
    <3>1. i - 1 \in 0 .. L - 1 /\ i + 1 \in 1 .. n /\ (i - 1) + 1 = (i + 1) - 1
      BY <1>1, <2>3
    <3>2. f1 + i - 1 = f1 + (i - 1) /\ key_f + (i + 1) - 1 = key_f + ((i - 1) + 1)
      BY <1>1, <1>2, <2>3, <2>7
    <3>3. (f1 + i - 1) % L = (key_f + (i + 1) - 1) % L
      BY <2>8, <3>1, <3>2
    <3>4. g + (i + 1) = (g + 1) + i
      BY <1>4
    <3> QED BY <1>3, <3>1, <3>3, <3>4
  <2>12. Len(accepted) - (g + 1) = n - 1 /\ n - 1 \in 0 .. L /\ n - 1 # L
    BY <1>1, <1>4, <2>3
  <2>13. /\ ring'.queue = key_queue /\ ring'.f = f1 /\ ring'.r = key_r /\ ring'.state = "running"
         /\ ring'.log = accepted
    BY <1>5, <2>1 DEF ring
  <2>14. RingOK(ring)'
    BY <2>5, <2>9, <2>10, <2>11, <2>12, <2>13 DEF RingOK
  <2>15. ring' \in RingType /\ ring'.f = key_f'
    BY <1>2, <1>5, <2>1, <2>7 DEF ring, RingType
  <2> QED BY <1>1, <1>5, <2>5, <2>14, <2>15 DEF KeyboardInv, Rings
<1> QED BY <1>6, <1>7

LEMMA KeyboardStart == KeyboardInit => KeyboardInv
<1> SUFFICES ASSUME KeyboardInit PROVE KeyboardInv
  OBVIOUS
<1> DEFINE L == KEY_QUEUE_LEN
<1>1. L \in Nat \ {0} /\ 0 \in 0 .. L - 1 /\ (0 + 0) % L = 0
  BY KeyboardAssumption, Around
<1>2. ring = [queue |-> [i \in 0 .. L - 1 |-> KEY_NONE], f |-> 0, r |-> 0, state |-> "stop",
              log |-> <<>>] /\ got = <<>> /\ events = <<>>
  BY DEF KeyboardInit, ring
<1>3. ring \in RingType /\ ring.f = key_f
  BY <1>1, <1>2 DEF RingType, KeyboardInit
<1>4. RingOK(ring)
  BY <1>1, <1>2 DEF RingOK
<1> QED BY <1>2, <1>3, <1>4 DEF KeyboardInv, Rings

LEMMA KeyboardKeeps == KeyboardInv /\ [KeyboardNext]_keyboardVars => KeyboardInv'
<1> SUFFICES ASSUME KeyboardInv, [KeyboardNext]_keyboardVars PROVE KeyboardInv'
  OBVIOUS
<1>1. CASE UserEvent
  <2>1. UNCHANGED <<key_queue, key_f, key_r, state, accepted, got>>
    BY <1>1 DEF UserEvent
  <2>2. events' \in Seq(HostEvents)
    BY <1>1 DEF UserEvent, KeyboardInv, HostEvents
  <2> QED BY <2>1, <2>2, Zenon DEF KeyboardInv, ring, Rings, RingOK
<1>2. CASE device_update
  <2>1. Polled[Len(events)] \in Rings
    BY PolledKeeps
  <2>2. PICK s \in Rings : /\ key_queue' = s.queue /\ key_r' = s.r
                           /\ state' = s.state /\ accepted' = s.log
    BY <1>2, <2>1 DEF device_update
  <2>3. UNCHANGED <<key_f, got>> /\ events' = <<>>
    BY <1>2 DEF device_update
  <2>4. ring' = s
    BY <2>2, <2>3 DEF ring, Rings, RingType
  <2>5. Rings' = Rings
    BY <2>3 DEF Rings, RingOK
  <2> QED BY <2>2, <2>3, <2>4, <2>5 DEF KeyboardInv
<1>3. CASE __am_input_keybrd
  BY <1>3, ReadKeeps
<1>4. CASE Stop \/ Continue
  <2>1. UNCHANGED <<key_queue, key_f, key_r, accepted, got>> /\ state' \in {"running", "stop"}
        /\ state # "abort"
    BY <1>4 DEF Stop, Continue
  <2>e. events' \in Seq(HostEvents)
    <3>1. events' = events \/ events' = <<>>
      BY <1>4 DEF Stop, Continue
    <3>2. <<>> \in Seq(HostEvents) /\ events \in Seq(HostEvents)
      BY DEF KeyboardInv
    <3> QED BY <3>1, <3>2, Zenon
  <2>2. ring' \in RingType /\ ring'.f = key_f'
    BY <2>1 DEF KeyboardInv, Rings, RingType, ring
  <2>3. RingOK(ring)'
    BY <2>1 DEF KeyboardInv, Rings, RingOK, ring
  <2> QED BY <2>1, <2>e, <2>2, <2>3 DEF KeyboardInv, Rings
<1>5. CASE UNCHANGED keyboardVars
  BY <1>5 DEF keyboardVars, KeyboardInv, ring, Rings, RingOK
<1> QED BY <1>1, <1>2, <1>3, <1>4, <1>5 DEF KeyboardNext, KeyboardEnded

\* The guest is told every accepted key once, in order and taken apart as it
\* was put together, for every length of the ring and every key map; the
\* assertion of key_enqueue fails exactly when the ring is full.
THEOREM KeyboardDelivers == KeyboardSpec => []KeysDelivered
<1>1. KeyboardInv => KeysDelivered
  <2> SUFFICES ASSUME KeyboardInv PROVE KeysDelivered
    OBVIOUS
  <2> DEFINE L == KEY_QUEUE_LEN
             g == Len(got)
             n == Len(accepted) - g
  <2>1. /\ L \in Nat \ {0} /\ ring \in RingType /\ RingOK(ring) /\ got \in Seq(KeyEvents)
    BY KeyboardAssumption DEF KeyboardInv, Rings
  <2>2. /\ key_f \in 0 .. L - 1 /\ key_r \in 0 .. L - 1 /\ accepted \in Seq(KeyEvents)
        /\ state \in {"running", "stop", "quit", "abort"}
        /\ key_queue \in [0 .. L - 1 -> KeyCodes \cup {KEY_NONE}]
    BY <2>1 DEF ring, RingType
  <2>3. /\ n \in 0 .. L /\ (n = L <=> state = "abort") /\ key_r = (key_f + n) % L
        /\ \A i \in 1 .. g : got[i] = accepted[i]
        /\ \A i \in 1 .. n : decode(key_queue[(key_f + i - 1) % L]) = accepted[g + i]
    BY <2>1 DEF RingOK, ring
  <2>4. g \in Nat /\ Len(accepted) \in Nat /\ Len(accepted) = g + n
    BY <2>1, <2>2
  <2>5. ASSUME state # "abort" PROVE accepted = got \o Waiting
    <3> HIDE DEF g, n
    <3>1. n \in 0 .. L - 1
      BY <2>1, <2>3, <2>5
    <3>2. Pending = n
      <4>1. key_f + n \in 0 .. 2 * L - 1
        BY <2>1, <2>2, <3>1
      <4> DEFINE b == key_f + n
      <4>b. b \in 0 .. 2 * L - 1 /\ key_r = b % L
        BY <2>3, <4>1
      <4> HIDE DEF b
      <4>r. key_r = IF b < L THEN b ELSE b - L
        BY <2>1, <4>b, Around, Zenon
      <4>2. key_r = IF key_f + n < L THEN key_f + n ELSE key_f + n - L
        BY <2>1, <2>2, <3>1, <4>r DEF b
      <4> DEFINE a == key_r - key_f + L
      <4>3. a \in 0 .. 2 * L - 1 /\ (a = n + L \/ a = n)
        BY <2>1, <2>2, <3>1, <4>2
      <4> HIDE DEF a
      <4>4. a % L = IF a < L THEN a ELSE a - L
        BY <2>1, <4>3, Around, Zenon
      <4>5. a % L = n
        BY <2>1, <3>1, <4>3, <4>4
      <4> QED BY <4>5 DEF Pending, a
    <3>3. /\ Waiting = [i \in 1 .. n |-> decode(key_queue[(key_f + i - 1) % L])]
      BY <3>2 DEF Waiting
    <3>4. \A i \in 1 .. n : Waiting[i] = accepted[g + i] /\ accepted[g + i] \in KeyEvents
      <4> TAKE i \in 1 .. n
      <4>1. Waiting[i] = accepted[g + i]
        BY <2>3, <3>3
      <4>2. g + i \in 1 .. Len(accepted)
        BY <2>4, <3>1
      <4> QED BY <2>2, <4>1, <4>2
    <3>5. Waiting \in Seq(KeyEvents) /\ Len(Waiting) = n
      <4>1. Waiting \in [1 .. n -> KeyEvents]
        BY <3>3, <3>4
      <4> QED BY <3>1, <4>1
    <3>6. /\ got \o Waiting \in Seq(KeyEvents) /\ Len(got \o Waiting) = g + n
          /\ \A i \in 1 .. g + n :
               (got \o Waiting)[i] = IF i <= g THEN got[i] ELSE Waiting[i - g]
      BY <2>1, <3>5 DEF g
    <3>7. \A i \in 1 .. g + n : (got \o Waiting)[i] = accepted[i]
      <4> TAKE i \in 1 .. g + n
      <4>1. CASE i <= g BY <2>3, <2>4, <3>6, <4>1
      <4>2. CASE i > g
        <5>1. i - g \in 1 .. n /\ g + (i - g) = i
          BY <2>4, <3>1, <4>2
        <5>2. (got \o Waiting)[i] = Waiting[i - g]
          BY <2>4, <3>6, <4>2
        <5>3. Waiting[i - g] = accepted[g + (i - g)]
          BY <3>4, <5>1
        <5>4. accepted[g + (i - g)] = accepted[i]
          BY <5>1
        <5> QED BY <5>2, <5>3, <5>4
      <4>3. i <= g \/ i > g
        BY <2>4, <3>1
      <4> QED BY <4>1, <4>2, <4>3, Zenon
    <3> QED BY <2>2, <2>4, <3>6, <3>7
  <2> QED BY <2>2, <2>3, <2>5 DEF KeysDelivered, KeyboardTypeOK, KeysInOrder, OverflowWhenFull
<1> QED BY <1>1, KeyboardStart, KeyboardKeeps, PTL DEF KeyboardSpec

-----------------------------------------------------------------------------
(***************************************************************************)
(* The addresses of NEMU's devices, for every configuration, page size and *)
(* width of an address: DevicesSeparate.                                   *)
(***************************************************************************)

EntryType == [low : ADDRS, high : ADDRS, space : Nat, len : Nat \ {0}]

\* An entry names no more addresses than it has bytes, and those are given out.
EntryOK(m) == m.high <= m.low + m.len - 1 /\ m.space + m.len <= p_space
Apart(m, n) == m.space + m.len <= n.space \/ n.space + n.len <= m.space

TablesTyped ==
  /\ todo \in Seq(Device) /\ p_space \in Nat
  /\ maps \in Seq(EntryType) /\ ports \in Seq(EntryType)

TablesOK ==
  /\ \A i \in DOMAIN maps : EntryOK(maps[i])
  /\ \A i \in DOMAIN ports : EntryOK(ports[i])
  /\ \A i, k \in DOMAIN maps : i # k => Apart(maps[i], maps[k])
  /\ \A i, k \in DOMAIN ports : i # k => Apart(ports[i], ports[k])
  /\ \A i \in DOMAIN maps, k \in DOMAIN ports : Apart(maps[i], ports[k])

IoMapInv ==
  /\ TablesTyped /\ TablesOK /\ MapsDisjoint
  /\ phase \in {"init", "run"} => access.kind = "none"
  /\ AccessStaysInside

LEMMA PagesHold ==
  ASSUME NEW n \in Nat
  PROVE  Pages(n) \in Nat /\ n <= Pages(n)
<1>1. PAGE \in Nat \ {0}
  BY IoMapAssumption
<1> DEFINE q == (n + PAGE - 1) \div PAGE
<1>2. n + PAGE - 1 \in Nat
  BY <1>1
<1>3. /\ q \in Nat /\ (n + PAGE - 1) % PAGE \in 0 .. PAGE - 1
      /\ n + PAGE - 1 = q * PAGE + ((n + PAGE - 1) % PAGE)
  BY <1>1, <1>2, Z3
<1> HIDE DEF q
<1>4. q * PAGE \in Nat
  BY <1>1, <1>3
<1>5. n <= q * PAGE
  BY <1>1, <1>3, <1>4
<1> QED BY <1>4, <1>5 DEF Pages, q

LEMMA AddressesNatural == ADDRS \subseteq Nat
<1>1. \A n \in Int : 0 .. n \subseteq Nat
  OBVIOUS
<1>2. PICK n \in Int : ADDRS = 0 .. n
  BY IoMapAssumption
<1> QED BY <1>1, <1>2

LEMMA WrapBelow ==
  ASSUME NEW a \in Nat
  PROVE  Wrap(a) \in ADDRS /\ Wrap(a) <= a
<1> DEFINE N == Cardinality(ADDRS)
<1>1. N \in Nat \ {0} /\ ADDRS = 0 .. N - 1
  BY IoMapAssumption
<1> HIDE DEF N
<1>2. a % N \in 0 .. N - 1 /\ a \div N \in Nat /\ a = (a \div N) * N + (a % N)
  BY <1>1, Z3
<1>3. (a \div N) * N \in Nat
  BY <1>1, <1>2
<1>4. a % N <= a
  BY <1>2, <1>3
<1> QED BY <1>1, <1>2, <1>4 DEF Wrap, N

LEMMA EntryFits ==
  ASSUME NEW d \in Device, p_space \in Nat
  PROVE  /\ Entry(d) \in EntryType
         /\ Entry(d).high <= Entry(d).low + Entry(d).len - 1
         /\ Entry(d).space = p_space /\ Entry(d).len = d.len
<1>1. d.addr \in Nat /\ d.addr \in ADDRS /\ d.len \in Nat \ {0}
  BY IoMapAssumption DEF Device
<1>2. d.addr + d.len - 1 \in Nat
  BY <1>1
<1>3. Wrap(d.addr + d.len - 1) \in ADDRS /\ Wrap(d.addr + d.len - 1) <= d.addr + d.len - 1
  BY <1>2, WrapBelow
<1> QED BY <1>1, <1>3 DEF Entry, EntryType

\* A table with one more entry, behind all bytes given out so far.
LEMMA RegisterMap ==
  ASSUME TablesTyped, TablesOK, MapsDisjoint, NEW d \in Device, ~Overlaps(Entry(d)),
         maps' = Append(maps, Entry(d)), ports' = ports, p_space' = p_space + Pages(d.len)
  PROVE  maps' \in Seq(EntryType) /\ TablesOK' /\ MapsDisjoint'
<1> DEFINE m == Entry(d)
           l == Len(maps)
<1>1. /\ m \in EntryType /\ m.high <= m.low + m.len - 1
      /\ m.space = p_space /\ m.len = d.len
  BY EntryFits DEF TablesTyped
<1>2. /\ maps \in Seq(EntryType) /\ ports \in Seq(EntryType) /\ p_space \in Nat
      /\ d.len \in Nat /\ p_space' \in Nat /\ p_space + d.len <= p_space' /\ p_space <= p_space'
  <2>1. d.len \in Nat
    BY DEF Device
  <2>2. Pages(d.len) \in Nat /\ d.len <= Pages(d.len)
    BY <2>1, PagesHold
  <2> QED BY <2>1, <2>2 DEF TablesTyped
<1>o. \A i \in 1 .. l : ~(m.low <= maps[i].high /\ m.high >= maps[i].low)
  BY <1>2 DEF Overlaps
<1> HIDE DEF m
<1>m. maps' = Append(maps, m)
  BY DEF m
<1>3. /\ maps' \in Seq(EntryType) /\ l \in Nat /\ DOMAIN maps' = 1 .. l + 1 /\ DOMAIN maps = 1 .. l
      /\ maps'[l + 1] = m /\ \A i \in 1 .. l : maps'[i] = maps[i]
  BY <1>1, <1>2, <1>m
<1>4. \A i \in 1 .. l : /\ maps[i] \in EntryType
                        /\ maps[i].high <= maps[i].low + maps[i].len - 1
                        /\ maps[i].space + maps[i].len <= p_space
  BY <1>2, <1>3 DEF TablesOK, EntryOK
<1>5. \A i \in DOMAIN ports : /\ ports[i] \in EntryType
                              /\ ports[i].high <= ports[i].low + ports[i].len - 1
                              /\ ports[i].space + ports[i].len <= p_space
  BY <1>2 DEF TablesOK, EntryOK
<1>6. \A i \in 1 .. l + 1 : EntryOK(maps[i])'
  <2> TAKE i \in 1 .. l + 1
  <2>1. CASE i = l + 1
    BY <1>1, <1>2, <1>3, <2>1 DEF EntryOK, EntryType
  <2>2. CASE i \in 1 .. l
    BY <1>2, <1>3, <1>4, <2>2 DEF EntryOK, EntryType
  <2> QED BY <1>3, <2>1, <2>2
<1>7. \A i \in DOMAIN ports : EntryOK(ports[i])'
  BY <1>2, <1>5 DEF EntryOK, EntryType
<1>8. \A i \in 1 .. l : Apart(maps[i], m)
  BY <1>1, <1>4 DEF Apart
<1>9. \A i, k \in 1 .. l + 1 : i # k => Apart(maps[i], maps[k])'
  <2> TAKE i, k \in 1 .. l + 1
  <2>1. CASE i = l + 1 /\ k \in 1 .. l
    BY <1>3, <1>8, <2>1 DEF Apart
  <2>2. CASE i \in 1 .. l /\ k = l + 1
    BY <1>3, <1>8, <2>2 DEF Apart
  <2>3. CASE i \in 1 .. l /\ k \in 1 .. l
    BY <1>3, <2>3, Zenon DEF TablesOK, Apart
  <2>4. CASE i = l + 1 /\ k = l + 1
    BY <2>4
  <2> QED BY <1>3, <2>1, <2>2, <2>3, <2>4
<1>10. \A i, k \in DOMAIN ports : i # k => Apart(ports[i], ports[k])'
  BY DEF TablesOK, Apart
<1>11. \A i \in 1 .. l + 1, k \in DOMAIN ports : Apart(maps[i], ports[k])'
  <2> TAKE i \in 1 .. l + 1, k \in DOMAIN ports
  <2>1. CASE i = l + 1
    BY <1>1, <1>3, <1>5, <2>1 DEF Apart
  <2>2. CASE i \in 1 .. l
    BY <1>3, <2>2 DEF TablesOK, Apart
  <2> QED BY <1>3, <2>1, <2>2
<1>12. TablesOK'
  BY <1>3, <1>6, <1>7, <1>9, <1>10, <1>11, Zenon DEF TablesOK
<1>13. MapsDisjoint'
  <2>1. \A i \in 1 .. l : Addresses(maps[i]) \cap Addresses(m) = {}
    <3> SUFFICES ASSUME NEW i \in 1 .. l, NEW a \in ADDRS, map_inside(maps[i], a), map_inside(m, a)
                 PROVE  FALSE
      BY DEF Addresses
    <3>1. a \in Nat /\ maps[i].high \in Nat /\ maps[i].low \in Nat /\ m.low \in Nat /\ m.high \in Nat
      BY <1>1, <1>4, AddressesNatural, Zenon DEF EntryType
    <3>2. m.low <= a /\ a <= m.high /\ maps[i].low <= a /\ a <= maps[i].high
      BY DEF map_inside
    <3>3. m.low <= maps[i].high /\ m.high >= maps[i].low
      BY <3>1, <3>2
    <3> QED BY <1>o, <3>3
  <2>2. \A i, k \in 1 .. l : i # k => Addresses(maps[i]) \cap Addresses(maps[k]) = {}
    BY <1>3 DEF MapsDisjoint
  <2>3. \A i, k \in 1 .. l + 1 : i # k => Addresses(maps'[i]) \cap Addresses(maps'[k]) = {}
    <3> TAKE i, k \in 1 .. l + 1
    <3>1. CASE i = l + 1 /\ k \in 1 .. l
      BY <1>3, <2>1, <3>1
    <3>2. CASE i \in 1 .. l /\ k = l + 1
      BY <1>3, <2>1, <3>2
    <3>3. CASE i \in 1 .. l /\ k \in 1 .. l
      BY <1>3, <2>2, <3>3
    <3>4. CASE i = l + 1 /\ k = l + 1
      BY <3>4
    <3>5. (i = l + 1 \/ i \in 1 .. l) /\ (k = l + 1 \/ k \in 1 .. l)
      BY <1>3
    <3> QED BY <3>1, <3>2, <3>3, <3>4, <3>5, Zenon
  <2> QED BY <1>3, <2>3, ZenonT(30) DEF MapsDisjoint, Addresses, map_inside
<1> QED BY <1>3, <1>12, <1>13

LEMMA RegisterPort ==
  ASSUME TablesTyped, TablesOK, MapsDisjoint, NEW d \in Device,
         ports' = Append(ports, Entry(d)), maps' = maps, p_space' = p_space + Pages(d.len)
  PROVE  ports' \in Seq(EntryType) /\ TablesOK' /\ MapsDisjoint'
<1> DEFINE m == Entry(d)
           l == Len(ports)
<1>1. /\ m \in EntryType /\ m.high <= m.low + m.len - 1
      /\ m.space = p_space /\ m.len = d.len
  BY EntryFits DEF TablesTyped
<1>2. /\ maps \in Seq(EntryType) /\ ports \in Seq(EntryType) /\ p_space \in Nat
      /\ d.len \in Nat /\ p_space' \in Nat /\ p_space + d.len <= p_space' /\ p_space <= p_space'
  <2>1. d.len \in Nat
    BY DEF Device
  <2>2. Pages(d.len) \in Nat /\ d.len <= Pages(d.len)
    BY <2>1, PagesHold
  <2> QED BY <2>1, <2>2 DEF TablesTyped
<1> HIDE DEF m
<1>m. ports' = Append(ports, m)
  BY DEF m
<1>3. /\ ports' \in Seq(EntryType) /\ l \in Nat /\ DOMAIN ports' = 1 .. l + 1
      /\ DOMAIN ports = 1 .. l /\ ports'[l + 1] = m /\ \A i \in 1 .. l : ports'[i] = ports[i]
  BY <1>1, <1>2, <1>m
<1>4. \A i \in 1 .. l : /\ ports[i] \in EntryType
                        /\ ports[i].high <= ports[i].low + ports[i].len - 1
                        /\ ports[i].space + ports[i].len <= p_space
  BY <1>2, <1>3 DEF TablesOK, EntryOK
<1>5. \A i \in DOMAIN maps : /\ maps[i] \in EntryType
                             /\ maps[i].high <= maps[i].low + maps[i].len - 1
                             /\ maps[i].space + maps[i].len <= p_space
  BY <1>2 DEF TablesOK, EntryOK
<1>6. \A i \in 1 .. l + 1 : EntryOK(ports[i])'
  <2> TAKE i \in 1 .. l + 1
  <2>1. CASE i = l + 1
    BY <1>1, <1>2, <1>3, <2>1 DEF EntryOK, EntryType
  <2>2. CASE i \in 1 .. l
    BY <1>2, <1>3, <1>4, <2>2 DEF EntryOK, EntryType
  <2> QED BY <1>3, <2>1, <2>2
<1>7. \A i \in DOMAIN maps : EntryOK(maps[i])'
  BY <1>2, <1>5 DEF EntryOK, EntryType
<1>8. \A i \in 1 .. l : Apart(ports[i], m)
  BY <1>1, <1>4 DEF Apart
<1>9. \A i, k \in 1 .. l + 1 : i # k => Apart(ports[i], ports[k])'
  <2> TAKE i, k \in 1 .. l + 1
  <2>1. CASE i = l + 1 /\ k \in 1 .. l
    BY <1>3, <1>8, <2>1 DEF Apart
  <2>2. CASE i \in 1 .. l /\ k = l + 1
    BY <1>3, <1>8, <2>2 DEF Apart
  <2>3. CASE i \in 1 .. l /\ k \in 1 .. l
    BY <1>3, <2>3, Zenon DEF TablesOK, Apart
  <2>4. CASE i = l + 1 /\ k = l + 1
    BY <2>4
  <2> QED BY <1>3, <2>1, <2>2, <2>3, <2>4
<1>10. \A i, k \in DOMAIN maps : i # k => Apart(maps[i], maps[k])'
  BY Zenon DEF TablesOK, Apart
<1>11. \A i \in DOMAIN maps, k \in 1 .. l + 1 : Apart(maps[i], ports[k])'
  <2> TAKE i \in DOMAIN maps, k \in 1 .. l + 1
  <2>1. CASE k = l + 1
    BY <1>1, <1>3, <1>5, <2>1 DEF Apart
  <2>2. CASE k \in 1 .. l
    BY <1>3, <2>2, Zenon DEF TablesOK, Apart
  <2> QED BY <1>3, <2>1, <2>2
<1>12. TablesOK'
  BY <1>3, <1>6, <1>7, <1>9, <1>10, <1>11, Zenon DEF TablesOK
<1>13. MapsDisjoint'
  BY DEF MapsDisjoint, Addresses, map_inside
<1> QED BY <1>3, <1>12, <1>13

LEMMA RegisterKeeps == IoMapInv /\ Register => IoMapInv'
<1> SUFFICES ASSUME IoMapInv, Register PROVE IoMapInv'
  OBVIOUS
<1>1. /\ access.kind = "none" /\ access' = access /\ phase' \in {"init", "panic"}
      /\ todo' = Tail(todo) /\ todo # <<>>
  BY Zenon DEF Register, IoMapInv
<1>2. Head(todo) \in Device /\ Tail(todo) \in Seq(Device)
  BY <1>1 DEF IoMapInv, TablesTyped
<1>3. AccessStaysInside'
  BY <1>1 DEF AccessStaysInside
<1> DEFINE d == Head(todo)
<1>p. Pages(d.len) \in Nat
  <2>1. d.len \in Nat
    BY <1>2 DEF Device
  <2> QED BY <2>1, PagesHold
<1>4. CASE UNCHANGED <<maps, ports, p_space>>
  BY Zenon, <1>1, <1>2, <1>3, <1>4
     DEF IoMapInv, TablesTyped, TablesOK, EntryOK, Apart, MapsDisjoint, Addresses, map_inside
<1>5. CASE /\ maps' = Append(maps, Entry(d)) /\ ports' = ports
           /\ p_space' = p_space + Pages(d.len) /\ ~Overlaps(Entry(d))
  <2>1. maps' \in Seq(EntryType) /\ TablesOK' /\ MapsDisjoint'
    BY <1>2, <1>5, RegisterMap DEF IoMapInv
  <2>2. p_space' \in Nat
    BY <1>2, <1>5, <1>p DEF IoMapInv, TablesTyped
  <2> QED BY <1>1, <1>2, <1>3, <1>5, <2>1, <2>2 DEF IoMapInv, TablesTyped
<1>6. CASE /\ ports' = Append(ports, Entry(d)) /\ maps' = maps
           /\ p_space' = p_space + Pages(d.len)
  <2>1. ports' \in Seq(EntryType) /\ TablesOK' /\ MapsDisjoint'
    BY <1>2, <1>6, RegisterPort DEF IoMapInv
  <2>2. p_space' \in Nat
    BY <1>2, <1>6, <1>p DEF IoMapInv, TablesTyped
  <2> QED BY <1>1, <1>2, <1>3, <1>6, <2>1, <2>2 DEF IoMapInv, TablesTyped
<1> QED BY <1>4, <1>5, <1>6, Zenon DEF Register

\* find_mapid_by_addr yields an entry that has the address.
LEMMA FoundInside ==
  ASSUME NEW table \in Seq(EntryType), NEW a, find_mapid_by_addr(table, a) # 0
  PROVE  /\ find_mapid_by_addr(table, a) \in DOMAIN table
         /\ map_inside(table[find_mapid_by_addr(table, a)], a)
<1> DEFINE T == {i \in DOMAIN table : map_inside(table[i], a)}
           First(i) == /\ map_inside(table[i], a)
                       /\ \A k \in 1 .. i - 1 : ~map_inside(table[k], a)
<1>1. T # {} /\ T \subseteq Nat /\ DOMAIN table = 1 .. Len(table) /\ Len(table) \in Nat
  BY DEF find_mapid_by_addr
<1>2. PICK i \in T : \A k \in T : i <= k
  BY <1>1, LeastElement, Zenon
<1>3. \A k \in 1 .. i - 1 : k \notin T /\ k \in DOMAIN table
  BY <1>1, <1>2
<1>4. \E j \in DOMAIN table : First(j)
  BY <1>2, <1>3
<1>5. find_mapid_by_addr(table, a) = CHOOSE j \in DOMAIN table : First(j)
  BY <1>1 DEF find_mapid_by_addr
<1> HIDE DEF First
<1>6. find_mapid_by_addr(table, a) \in DOMAIN table /\ First(find_mapid_by_addr(table, a))
  BY <1>4, <1>5
<1> QED BY <1>6 DEF First

\* The bytes an entry answers with.
LEMMA InsideOwn ==
  ASSUME NEW m \in EntryType, EntryOK(m), p_space \in Nat, NEW a \in ADDRS, NEW n \in Nat \ {0},
         map_inside(m, a), a + n - 1 <= m.high
  PROVE  /\ Touched(m, a, n) \subseteq Own(m)
         /\ Touched(m, a, n) = m.space + (a - m.low) .. m.space + (a - m.low) + n - 1
<1> DEFINE N == Cardinality(ADDRS)
           o == a - m.low
<1>1. /\ m.low \in Nat /\ m.high \in Nat /\ a \in Nat /\ m.low <= a /\ a <= m.high
      /\ m.space \in Nat /\ m.len \in Nat /\ m.high <= m.low + m.len - 1
  BY AddressesNatural, Zenon DEF EntryType, EntryOK, map_inside
<1>2. N \in Nat \ {0} /\ a < N
  BY IoMapAssumption
<1> HIDE DEF N
<1>3. o \in 0 .. N - 1 /\ a - m.low + N = 1 * N + o
  BY <1>1, <1>2
<1> HIDE DEF o
<1>4. (1 * N + o) % N = o
  BY <1>2, <1>3, Z3
<1>5. Wrap(a - m.low + Cardinality(ADDRS)) = o
  BY <1>3, <1>4 DEF Wrap, N
<1>6. Touched(m, a, n) = {m.space + o + k : k \in 0 .. n - 1}
  BY <1>5 DEF Touched
<1> DEFINE s == m.space + o
<1>7. s \in Nat
  BY <1>1, <1>3
<1> HIDE DEF s
<1>8. {s + k : k \in 0 .. n - 1} = s .. s + n - 1
  <2>1. \A x \in s .. s + n - 1 : x - s \in 0 .. n - 1 /\ x = s + (x - s)
    BY <1>7
  <2>2. \A k \in 0 .. n - 1 : s + k \in s .. s + n - 1
    BY <1>7
  <2> QED BY <2>1, <2>2
<1>9. Touched(m, a, n) = s .. s + n - 1
  BY <1>6, <1>8 DEF s
<1>10. s >= m.space /\ s + n - 1 <= m.space + m.len - 1
  BY <1>1, <1>2, <1>3 DEF s, o
<1>11. s .. s + n - 1 \subseteq Own(m)
  BY <1>1, <1>7, <1>10 DEF Own
<1> QED BY <1>9, <1>11 DEF s, o

LEMMA AccessKeeps ==
  ASSUME IoMapInv, NEW kind \in {"mmio", "pio"}, NEW a \in ADDRS, NEW n \in Lengths,
         Access(kind, Table(kind), a, n), UNCHANGED <<maps, ports>>
  PROVE  AccessStaysInside' /\ phase' \in {"panic", "end"}
<1> DEFINE t == Table(kind)
           i == find_mapid_by_addr(t, a)
<1>1. CASE i = 0
  BY <1>1, Zenon DEF Access, IoMapInv, AccessStaysInside, Table, Own
<1>2. CASE i # 0
  <2>1. /\ access' = [kind |-> kind, addr |-> a, len |-> n, hit |-> i, bytes |-> Touched(t[i], a, n)]
        /\ phase' = "end"
    BY <1>2 DEF Access
  <2>2. t \in Seq(EntryType) /\ Table(kind)' = t /\ p_space \in Nat
    BY DEF IoMapInv, TablesTyped, Table
  <2>3. i \in DOMAIN t /\ map_inside(t[i], a)
    BY <1>2, <2>2, FoundInside
  <2>4. EntryOK(t[i])
    BY <2>3 DEF IoMapInv, TablesOK, Table
  <2>5. t[i] \in EntryType
    BY <2>2, <2>3
  <2>6. n \in Nat \ {0}
    BY IoMapAssumption
  <2> DEFINE m == t[i]
  <2>7. a + n - 1 <= m.high =>
          /\ Touched(m, a, n) \subseteq Own(m)
          /\ Touched(m, a, n) = m.space + (a - m.low) .. m.space + (a - m.low) + n - 1
    BY <2>2, <2>3, <2>4, <2>5, <2>6, InsideOwn, Zenon
  <2> HIDE DEF i
  <2>8. Table(access.kind)' = t /\ access'.kind = kind /\ access'.hit = i
    <3>1. access'.kind = kind /\ access'.hit = i
      BY <2>1
    <3>2. Table(access.kind)' = IF access'.kind = "pio" THEN ports' ELSE maps'
      BY DEF Table
    <3> QED BY <3>1, <3>2 DEF Table
  <2>9. access'.addr = a /\ access'.len = n /\ access'.bytes = Touched(m, a, n)
    BY <2>1
  <2> QED BY <2>1, <2>7, <2>8, <2>9, Zenon DEF AccessStaysInside, Own
<1> QED BY <1>1, <1>2

LEMMA IoMapKeeps == IoMapInv /\ [IoMapNext]_ioMapVars => IoMapInv'
<1> SUFFICES ASSUME IoMapInv, [IoMapNext]_ioMapVars PROVE IoMapInv'
  OBVIOUS
<1>u. UNCHANGED <<todo, maps, ports, p_space>> => (TablesTyped /\ TablesOK /\ MapsDisjoint)'
  BY Zenon DEF IoMapInv, TablesTyped, TablesOK, EntryOK, Apart, MapsDisjoint, Addresses, map_inside
<1>1. CASE Register
  BY <1>1, RegisterKeeps
<1>2. CASE Start
  BY <1>2, <1>u, Zenon DEF Start, IoMapInv, AccessStaysInside, Table, Own
<1>3. CASE paddr_access
  <2>1. UNCHANGED <<todo, maps, ports, p_space>>
    BY <1>3 DEF paddr_access
  <2>2. PICK a \in ADDRS, n \in Lengths :
           \/ /\ access' = [kind |-> "pmem", addr |-> a, len |-> n, hit |-> 0, bytes |-> {}]
              /\ phase' = "end"
           \/ Access("mmio", maps, a, n)
    BY <1>3, Zenon DEF paddr_access
  <2>3. AccessStaysInside' /\ phase' \in {"panic", "end"}
    <3>1. CASE Access("mmio", maps, a, n)
      BY <2>1, <3>1, AccessKeeps DEF Table
    <3>2. CASE ~Access("mmio", maps, a, n)
      <4>1. access'.kind = "pmem" /\ phase' = "end"
        BY <2>2, <3>2
      <4>2. ~(access'.kind \in {"mmio", "pio"}) /\ phase' \in {"panic", "end"}
        BY <4>1
      <4> QED BY <4>2, Zenon DEF AccessStaysInside
    <3> QED BY <3>1, <3>2
  <2> QED BY <1>u, <2>1, <2>3 DEF IoMapInv
<1>4. CASE pio_access
  <2>1. UNCHANGED <<todo, maps, ports, p_space>>
    BY <1>4 DEF pio_access
  <2>2. PICK a \in ADDRS, n \in Lengths :
           Access("pio", ports, a, n) \/ (phase' = "panic" /\ UNCHANGED access)
    BY <1>4 DEF pio_access
  <2>3. AccessStaysInside' /\ phase' \in {"panic", "end"}
    <3>1. CASE Access("pio", ports, a, n)
      BY <2>1, <3>1, AccessKeeps DEF Table
    <3>2. CASE ~Access("pio", ports, a, n)
      BY <2>1, <2>2, <3>2, Zenon DEF IoMapInv, AccessStaysInside, Table, Own
    <3> QED BY <3>1, <3>2
  <2> QED BY <1>u, <2>1, <2>3 DEF IoMapInv
<1>5. CASE UNCHANGED ioMapVars
  BY <1>5, <1>u, Zenon DEF ioMapVars, IoMapInv, AccessStaysInside, Table, Own
<1> QED BY <1>1, <1>2, <1>3, <1>4, <1>5 DEF IoMapNext, IoMapEnded

LEMMA ApartOwn ==
  ASSUME NEW m \in EntryType, NEW n \in EntryType, Apart(m, n)
  PROVE  Own(m) \cap Own(n) = {}
<1> SUFFICES ASSUME NEW x, x \in Own(m), x \in Own(n) PROVE FALSE
  OBVIOUS
<1>1. m.space \in Nat /\ m.len \in Nat /\ n.space \in Nat /\ n.len \in Nat
  BY DEF EntryType
<1>2. m.space + m.len <= n.space \/ n.space + n.len <= m.space
  BY DEF Apart
<1>3. x \in m.space .. m.space + m.len - 1
  BY DEF Own
<1>4. x \in n.space .. n.space + n.len - 1
  BY DEF Own
<1> QED  BY <1>1, <1>2, <1>3, <1>4

\* Whatever devices a configuration has, each address and each byte of the io
\* space is one device's, and an access stays inside the device it hit.
THEOREM DevicesAreSeparate == IoMapSpec => []DevicesSeparate
<1>1. IoMapInit => IoMapInv
  <2> SUFFICES ASSUME IoMapInit PROVE IoMapInv
    OBVIOUS
  <2>1. TablesTyped
    BY IoMapAssumption DEF IoMapInit, TablesTyped
  <2>2. TablesOK /\ MapsDisjoint
    BY DEF IoMapInit, TablesOK, MapsDisjoint
  <2>3. access.kind = "none"
    BY DEF IoMapInit
  <2>4. AccessStaysInside
    BY <2>3 DEF AccessStaysInside
  <2> QED BY <2>1, <2>2, <2>3, <2>4 DEF IoMapInv
<1>2. IoMapInv => SpacesDisjoint
  <2> SUFFICES ASSUME IoMapInv PROVE SpacesDisjoint
    OBVIOUS
  <2> DEFINE all == maps \o ports
             l == Len(maps)
             p == Len(ports)
  <2>1. maps \in Seq(EntryType) /\ ports \in Seq(EntryType) /\ l \in Nat /\ p \in Nat
    BY DEF IoMapInv, TablesTyped
  <2>t. /\ \A i, k \in 1 .. l : i # k => Apart(maps[i], maps[k])
        /\ \A i, k \in 1 .. p : i # k => Apart(ports[i], ports[k])
        /\ \A i \in 1 .. l, k \in 1 .. p : Apart(maps[i], ports[k])
    <3>1. TablesOK /\ DOMAIN maps = 1 .. l /\ DOMAIN ports = 1 .. p
      BY <2>1 DEF IoMapInv
    <3> QED BY <3>1, Zenon DEF TablesOK
  <2>2. /\ DOMAIN all = 1 .. l + p
        /\ \A i \in 1 .. l + p : all[i] = IF i <= l THEN maps[i] ELSE ports[i - l]
    BY <2>1
  <2>3. \A i \in 1 .. l + p : all[i] \in EntryType
    BY <2>1
  <2> HIDE DEF all
  <2>4. \A i, k \in 1 .. l + p : i # k => Apart(all[i], all[k])
    <3> SUFFICES ASSUME NEW i \in 1 .. l + p, NEW k \in 1 .. l + p, i # k
                 PROVE  Apart(all[i], all[k])
      OBVIOUS
    <3>1. CASE i <= l /\ k <= l
      BY <2>1, <2>2, <2>t, <3>1
    <3>2. CASE i > l /\ k > l
      <4>1. i - l \in 1 .. p /\ k - l \in 1 .. p /\ i - l # k - l
        BY <2>1, <3>2
      <4> QED BY <2>1, <2>2, <2>t, <3>2, <4>1
    <3>3. CASE i <= l /\ k > l
      <4>1. k - l \in 1 .. p /\ i \in 1 .. l
        BY <2>1, <3>3
      <4> QED BY <2>1, <2>2, <2>t, <3>3, <4>1
    <3>4. CASE i > l /\ k <= l
      <4>1. i - l \in 1 .. p /\ k \in 1 .. l
        BY <2>1, <3>4
      <4>2. Apart(maps[k], ports[i - l])
        BY <2>t, <4>1, Zenon
      <4> QED BY <2>1, <2>2, <3>4, <4>1, <4>2 DEF Apart
    <3> QED BY <2>1, <3>1, <3>2, <3>3, <3>4
  <2>5. \A i, k \in 1 .. l + p : Apart(all[i], all[k]) => Own(all[i]) \cap Own(all[k]) = {}
    BY <2>3, ApartOwn
  <2> QED BY <2>2, <2>4, <2>5, Zenon DEF SpacesDisjoint, all
<1>3. IoMapInv => DevicesSeparate
  BY <1>2 DEF IoMapInv, DevicesSeparate
<1> QED BY <1>1, <1>3, IoMapKeeps, PTL DEF IoMapSpec

-----------------------------------------------------------------------------
(* The screen: the rows stored so far, and of the current row the pixels to *)
(* the left of the next one, hold the colour; all others are as before.     *)

Drawing == {d \in [x : Nat, y : Nat, w : Nat, h : Nat, c : Colours,
                   s : SyncValues \cup {0}, i : Nat, j : Nat] :
              /\ d.x + d.w <= W /\ d.y + d.h <= H
              /\ d.i <= d.h /\ d.j < d.w}

StoredAt(d, row, col) ==
  /\ col \in d.x .. d.x + d.w - 1
  /\ row >= d.y
  /\ row < d.y + d.i \/ (row = d.y + d.i /\ col < d.x + d.j)
Stored(d, p) == StoredAt(d, p \div W, p % W)

ScreenInv ==
  /\ vmem \in [Index -> Colours] /\ before \in [Index -> Colours]
  /\ sync \in {0, 1}
  /\ draw # NotDrawing =>
       /\ draw \in Drawing
       /\ draw.i = draw.h => draw.j = 0
       /\ \A p \in Index : vmem[p] = IF Stored(draw, p) THEN draw.c ELSE before[p]
  /\ SyncShows

\* A place of the screen is one row and one column.
LEMMA RowColumn ==
  ASSUME NEW r \in Nat, NEW c \in 0 .. W - 1
  PROVE  (r * W + c) \div W = r /\ (r * W + c) % W = c
<1> DEFINE p == r * W + c
           q == p \div W
           m == p % W
<1>1. W \in Nat /\ W > 0 /\ r * W \in Nat /\ p \in Nat
  BY ScreenAssumption
<1>2. q \in Int /\ m \in 0 .. W - 1 /\ p = W * q + m
  BY <1>1
<1>3. W * q + m = W * r + c
  BY <1>1, <1>2
<1> HIDE DEF q, m, p
<1>4. ~(q > r)
  <2> SUFFICES ASSUME q > r PROVE FALSE
    OBVIOUS
  <2>1. q - r >= 1 /\ W * (q - r) = W * q - W * r
    BY <1>1, <1>2
  <2>2. W * (q - r) >= W
    BY <1>1, <1>2, <2>1
  <2> QED BY <1>1, <1>2, <1>3, <2>1, <2>2
<1>5. ~(q < r)
  <2> SUFFICES ASSUME q < r PROVE FALSE
    OBVIOUS
  <2>1. r - q >= 1 /\ W * (r - q) = W * r - W * q
    BY <1>1, <1>2
  <2>2. W * (r - q) >= W
    BY <1>1, <1>2, <2>1
  <2> QED BY <1>1, <1>2, <1>3, <2>1, <2>2
<1>6. q = r
  BY <1>2, <1>4, <1>5
<1>7. m = c
  BY <1>1, <1>2, <1>3, <1>6
<1> QED BY <1>6, <1>7 DEF q, m, p

\* Every place is the one of its row and its column.
LEMMA PlaceSplit ==
  ASSUME NEW p \in Index
  PROVE  /\ p \in Nat /\ p \div W \in Nat /\ p % W \in 0 .. W - 1
         /\ p = (p \div W) * W + (p % W)
<1>1. W \in Nat /\ W > 0 /\ H \in Nat /\ W * H \in Nat /\ p \in Nat
  BY ScreenAssumption DEF Index
<1> QED BY <1>1

\* The pixel stored next, in the model's arithmetic.
LEMMA PixelPlace ==
  ASSUME NEW d \in Drawing, d.i < d.h
  PROVE  /\ PixelIndex(d) \in Index
         /\ \A p \in Index : p = PixelIndex(d) <=> (p \div W = d.y + d.i /\ p % W = d.x + d.j)
<1> DEFINE r == d.y + d.i
           c == d.x + d.j
<1>1. W \in Nat /\ W > 0 /\ H \in Nat /\ H > 0
  BY ScreenAssumption
<1>2. r \in Nat /\ r < H /\ c \in 0 .. W - 1
  BY <1>1 DEF Drawing
<1>3. PixelIndex(d) = r * W + c
  BY <1>1 DEF PixelIndex, Drawing
<1> HIDE DEF r, c
<1>4. r * W + c \in Index
  <2>1. r * W <= (H - 1) * W /\ r * W \in Nat
    BY <1>1, <1>2
  <2>2. (H - 1) * W = W * H - W
    BY <1>1
  <2> QED BY <1>1, <1>2, <2>1, <2>2 DEF Index
<1>5. (r * W + c) \div W = r /\ (r * W + c) % W = c
  BY <1>2, RowColumn
<1>6. ASSUME NEW p \in Index PROVE p = r * W + c <=> (p \div W = r /\ p % W = c)
  BY <1>5, PlaceSplit
<1> QED BY <1>3, <1>4, <1>6 DEF r, c

\* After a pixel, its place is the only one that has joined the stored ones.
LEMMA StoredGrows ==
  ASSUME NEW d \in Drawing, d.i < d.h,
         NEW e, e = IF d.j + 1 < d.w THEN [d EXCEPT !.j = @ + 1] ELSE [d EXCEPT !.j = 0, !.i = @ + 1]
  PROVE  /\ e \in Drawing /\ e.c = d.c /\ (e.i = e.h => e.j = 0)
         /\ \A p \in Index : Stored(e, p) <=> Stored(d, p) \/ p = PixelIndex(d)
<1>1. CASE d.j + 1 < d.w
  <2> DEFINE f == [d EXCEPT !.j = d.j + 1]
  <2>1. e = f /\ f \in Drawing
    BY <1>1 DEF Drawing
  <2>2. f.x = d.x /\ f.y = d.y /\ f.w = d.w /\ f.h = d.h /\ f.i = d.i /\ f.j = d.j + 1 /\ f.c = d.c
    BY DEF Drawing
  <2> HIDE DEF f
  <2>3. ASSUME NEW p \in Index PROVE Stored(f, p) <=> Stored(d, p) \/ p = PixelIndex(d)
    <3>1. p \div W \in Nat /\ p % W \in Nat
      BY PlaceSplit, ScreenAssumption
    <3>2. p = PixelIndex(d) <=> (p \div W = d.y + d.i /\ p % W = d.x + d.j)
      BY PixelPlace
    <3> DEFINE r == p \div W
               c == p % W
    <3> HIDE DEF r, c
    <3>3. StoredAt(f, r, c) <=> StoredAt(d, r, c) \/ (r = d.y + d.i /\ c = d.x + d.j)
      BY <3>1, <2>2, <1>1 DEF StoredAt, Drawing, r, c
    <3> QED BY <3>2, <3>3 DEF Stored, r, c
  <2> QED BY <1>1, <2>1, <2>2, <2>3 DEF Drawing
<1>2. CASE ~(d.j + 1 < d.w)
  <2> DEFINE Typed == [x : Nat, y : Nat, w : Nat, h : Nat, c : Colours,
                       s : SyncValues \cup {0}, i : Nat, j : Nat]
             g == [d EXCEPT !.j = 0]
             f == [g EXCEPT !.i = d.i + 1]
  <2>a. d \in Typed /\ g \in Typed
    BY DEF Drawing
  <2>b. g.x = d.x /\ g.y = d.y /\ g.w = d.w /\ g.h = d.h /\ g.i = d.i /\ g.j = 0 /\ g.c = d.c
    BY <2>a
  <2>c. e = f
    BY <1>2
  <2> HIDE DEF g
  <2>d. f \in Typed
    BY <2>a
  <2>2. f.x = d.x /\ f.y = d.y /\ f.w = d.w /\ f.h = d.h /\ f.i = d.i + 1 /\ f.j = 0 /\ f.c = d.c
    BY <2>a, <2>b
  <2>1. f \in Drawing
    BY <2>d, <2>2 DEF Drawing
  <2> HIDE DEF f
  <2>3. ASSUME NEW p \in Index PROVE Stored(f, p) <=> Stored(d, p) \/ p = PixelIndex(d)
    <3>1. p \div W \in Nat /\ p % W \in Nat
      BY PlaceSplit, ScreenAssumption
    <3>2. p = PixelIndex(d) <=> (p \div W = d.y + d.i /\ p % W = d.x + d.j)
      BY PixelPlace
    <3> DEFINE r == p \div W
               c == p % W
    <3> HIDE DEF r, c
    <3>3. StoredAt(f, r, c) <=> StoredAt(d, r, c) \/ (r = d.y + d.i /\ c = d.x + d.j)
      BY <3>1, <2>2, <1>2 DEF StoredAt, Drawing, r, c
    <3> QED BY <3>2, <3>3 DEF Stored, r, c
  <2> QED BY <2>1, <2>2, <2>3, <2>c, Zenon
<1> QED BY <1>1, <1>2

LEMMA ScreenStart == ScreenInit => ScreenInv
  BY ScreenAssumption DEF ScreenInit, ScreenInv, SyncShows

LEMMA StorePixelKeeps == ScreenInv /\ StorePixel => ScreenInv'
<1> SUFFICES ASSUME ScreenInv, StorePixel PROVE ScreenInv'
  OBVIOUS
<1> DEFINE d == draw
           q == PixelIndex(draw)
<1>1. d \in Drawing /\ d.i < d.h /\ draw # NotDrawing
  BY DEF ScreenInv, StorePixel
<1>2. q \in Index /\ d.c \in Colours
  BY <1>1, PixelPlace DEF Drawing
<1>3. /\ vmem' = [vmem EXCEPT ![q] = d.c]
      /\ vmem' \in [Index -> Colours]
      /\ before' = before /\ sync' = sync /\ unsynced' = TRUE
  BY <1>2 DEF ScreenInv, StorePixel
<1>4. /\ draw' \in Drawing /\ draw'.c = d.c /\ (draw'.i = draw'.h => draw'.j = 0)
      /\ \A p \in Index : Stored(draw', p) <=> Stored(d, p) \/ p = q
  <2>1. draw' = IF d.j + 1 < d.w THEN [d EXCEPT !.j = @ + 1] ELSE [d EXCEPT !.j = 0, !.i = @ + 1]
    BY DEF StorePixel
  <2> QED BY <1>1, <2>1, StoredGrows, ZenonT(30)
<1>5. ASSUME NEW p \in Index
      PROVE  vmem'[p] = IF Stored(draw', p) THEN draw'.c ELSE before'[p]
  <2>1. vmem[p] = IF Stored(d, p) THEN d.c ELSE before[p]
    BY <1>1 DEF ScreenInv
  <2>2. vmem'[p] = IF p = q THEN d.c ELSE vmem[p]
    BY <1>2, <1>3 DEF ScreenInv
  <2> HIDE DEF d, q
  <2> QED BY <1>3, <1>4, <2>1, <2>2, Zenon
<1>6. SyncShows' /\ (sync \in {0, 1})' /\ (before \in [Index -> Colours])'
  BY <1>3 DEF SyncShows, ScreenInv
<1> QED BY <1>3, <1>4, <1>5, <1>6, Zenon DEF ScreenInv, Index

LEMMA ScreenKeeps == ScreenInv /\ [ScreenNext]_screenVars => ScreenInv'
<1> SUFFICES ASSUME ScreenInv, [ScreenNext]_screenVars PROVE ScreenInv'
  OBVIOUS
<1>1. CASE BeginDraw
  <2>1. PICK x \in 0 .. W - 1, y \in 0 .. H - 1, w \in 1 .. W, h \in 1 .. H, c \in Colours,
             s \in SyncValues \cup {0} :
          /\ x + w <= W /\ y + h <= H
          /\ draw' = [x |-> x, y |-> y, w |-> w, h |-> h, c |-> c, s |-> s, i |-> 0, j |-> 0]
    BY <1>1, Zenon DEF BeginDraw
  <2>2. draw' \in Drawing /\ draw'.i = 0 /\ draw'.j = 0
    BY <2>1, ScreenAssumption DEF Drawing
  <2>3. ASSUME NEW p \in Index PROVE ~Stored(draw', p)
    <3>1. p \div W \in Nat /\ p % W \in Nat
      BY PlaceSplit, ScreenAssumption
    <3> QED BY <2>2, <3>1 DEF Stored, StoredAt, Drawing
  <2>4. vmem' = vmem /\ before' = vmem /\ UNCHANGED <<sync, shown, unsynced>>
    BY <1>1, Zenon DEF BeginDraw
  <2> QED BY <2>2, <2>3, <2>4 DEF ScreenInv, SyncShows
<1>2. CASE StorePixel
  BY <1>2, StorePixelKeeps
<1>3. CASE EndDraw
  <2>1. sync' \in {0, 1}
    BY <1>3, ScreenAssumption DEF EndDraw, ScreenInv, Drawing
  <2>2. SyncShows'
    <3>1. CASE draw.s # 0
      <4>1. sync' = draw.s
        BY <1>3, <3>1, Zenon DEF EndDraw
      <4> QED BY <3>1, <4>1 DEF SyncShows
    <3>2. CASE draw.s = 0
      BY <1>3, <3>2 DEF EndDraw, ScreenInv, SyncShows
    <3> QED BY <3>1, <3>2
  <2> QED BY <1>3, <2>1, <2>2, Zenon DEF EndDraw, ScreenInv
<1>4. CASE vga_update_screen
  BY <1>4 DEF vga_update_screen, ScreenInv, SyncShows, Stored, StoredAt
<1>5. CASE UNCHANGED screenVars
  BY <1>5 DEF screenVars, ScreenInv, SyncShows, Stored, StoredAt
<1> QED BY <1>1, <1>2, <1>3, <1>4, <1>5 DEF ScreenNext

\* Whatever rectangles are drawn, at whatever moments the picture is shown, and
\* however large the screen is.
THEOREM ScreenShowsPicture == ScreenSpec => []PictureShown
<1>1. ScreenInv => PictureShown
  <2> SUFFICES ASSUME ScreenInv, draw # NotDrawing, draw.i = draw.h, NEW p \in Index
               PROVE  Stored(draw, p) <=> InRect(draw, p)
    BY Zenon DEF PictureShown, DrawsRectangle, ScreenInv
  <2>1. draw \in Drawing /\ draw.j = 0
    BY DEF ScreenInv
  <2>2. p \div W \in Nat /\ p % W \in Nat
    BY PlaceSplit, ScreenAssumption
  <2> DEFINE r == p \div W
             c == p % W
  <2> HIDE DEF r, c
  <2>3. StoredAt(draw, r, c) <=> c \in draw.x .. draw.x + draw.w - 1 /\ r \in draw.y .. draw.y + draw.h - 1
    BY <2>1, <2>2 DEF StoredAt, Drawing, r, c
  <2> QED BY <2>3 DEF Stored, InRect, r, c
<1> QED BY <1>1, ScreenStart, ScreenKeeps, PTL DEF ScreenSpec

-----------------------------------------------------------------------------
(* The PS/2 keyboard.  sent are all bytes the keyboard has made of the keys  *)
(* typed, the bytes of key k behind the first at[k]; what the driver has not *)
(* read of them is in the controller and on the line, and the flags tell how *)
(* many bytes n of the next key it has read.                                 *)

KeySet == [ext : BOOLEAN, code : ScanCodes \cup ExtCodes, down : BOOLEAN]
ByteSet == ScanCodes \cup ExtCodes \cup {EXT, BREAK}

CodeAt(sent, a, k) ==
  \A i \in 1 .. Len(Bytes(k)) : sent[a + i] = Bytes(k)[i]

SentOK(sent, at, keys) ==
  /\ at[Len(keys) + 1] = Len(sent)
  /\ \A k \in 1 .. Len(keys) + 1 : at[k] <= Len(sent)
  /\ \A k \in 1 .. Len(keys) : /\ at[k + 1] = at[k] + Len(Bytes(keys[k]))
                               /\ CodeAt(sent, at[k], keys[k])

LeftOK(sent, a, buffered, coming) ==
  /\ Len(sent) = a + Len(buffered) + Len(coming)
  /\ \A i \in 1 .. Len(buffered) : buffered[i] = sent[a + i]
  /\ \A i \in 1 .. Len(coming) : coming[i] = sent[a + Len(buffered) + i]

FlagsOK(n, k, e, b) ==
  \/ n = 0 /\ ~e /\ ~b
  \/ n = 1 /\ k.ext /\ e /\ ~b
  \/ n = 1 /\ ~k.ext /\ ~k.down /\ ~e /\ b
  \/ n = 2 /\ k.ext /\ ~k.down /\ e /\ b

Ps2Type ==
  /\ typed \in Seq(KeySet) /\ reported \in Seq(KeySet)
  /\ fifo \in Seq(ByteSet) /\ line \in Seq(ByteSet)
  /\ extended \in BOOLEAN /\ break_code \in BOOLEAN

Streams(sent, at, n) ==
  /\ SentOK(sent, at, typed)
  /\ LeftOK(sent, at[Len(reported) + 1] + n, fifo, line)
  /\ IF Len(reported) = Len(typed) THEN n = 0 /\ ~extended /\ ~break_code
     ELSE FlagsOK(n, typed[Len(reported) + 1], extended, break_code)

Ps2Inv ==
  /\ Ps2Type /\ KeysDecoded
  /\ \E sent \in Seq(ByteSet), at \in [1 .. Len(typed) + 1 -> Nat], n \in 0 .. 2 : Streams(sent, at, n)

LEMMA Joined ==
  ASSUME NEW S, NEW x \in S, NEW y \in S, NEW z \in S
  PROVE  /\ <<>> \o <<x>> = <<x>> /\ <<x>> \o <<>> = <<x>>
         /\ <<x>> \o <<y>> = <<x, y>> /\ <<x, y>> \o <<z>> = <<x, y, z>>
<1>1. <<x>> \o <<y>> = <<x, y>>
  <2>1. <<x>> \in Seq(S) /\ <<y>> \in Seq(S) /\ <<x, y>> \in Seq(S)
    OBVIOUS
  <2> DEFINE s == <<x>> \o <<y>>
  <2>2. s \in Seq(S) /\ Len(s) = 2 /\ s[1] = x /\ s[2] = y
    BY <2>1
  <2> HIDE DEF s
  <2>3. s = <<x, y>>
    BY <2>1, <2>2
  <2> QED BY <2>3 DEF s
<1>2. <<x, y>> \o <<z>> = <<x, y, z>>
  <2>1. <<x, y>> \in Seq(S) /\ <<z>> \in Seq(S) /\ <<x, y, z>> \in Seq(S)
    OBVIOUS
  <2> DEFINE s == <<x, y>> \o <<z>>
  <2>2. s \in Seq(S) /\ Len(s) = 3 /\ s[1] = x /\ s[2] = y /\ s[3] = z
    BY <2>1
  <2> HIDE DEF s
  <2>3. s = <<x, y, z>>
    BY <2>1, <2>2
  <2> QED BY <2>3 DEF s
<1>3. <<>> \o <<x>> = <<x>> /\ <<x>> \o <<>> = <<x>>
  OBVIOUS
<1> QED BY <1>1, <1>2, <1>3

\* The bytes of a key: its code is the last, and no prefix is a code.
LEMMA BytesOfKey ==
  ASSUME NEW k \in KeySet
  PROVE  /\ Bytes(k) \in Seq(ByteSet)
         /\ Len(Bytes(k)) = 1 + (IF k.ext THEN 1 ELSE 0) + (IF k.down THEN 0 ELSE 1)
         /\ k.ext => Bytes(k)[1] = EXT
         /\ ~k.down => Bytes(k)[Len(Bytes(k)) - 1] = BREAK
         /\ Bytes(k)[Len(Bytes(k))] = k.code
         /\ k.code \notin {EXT, BREAK, EMPTY}
<1>1. k.code \in ByteSet /\ EXT \in ByteSet /\ BREAK \in ByteSet /\ k.ext \in BOOLEAN /\ k.down \in BOOLEAN
  BY DEF KeySet, ByteSet
<1>2. k.code \notin {EXT, BREAK, EMPTY}
  BY CodesAssumption DEF KeySet
<1>3. CASE k.ext /\ k.down
  <2>1. Bytes(k) = <<EXT>> \o <<>> \o <<k.code>>
    BY <1>3 DEF Bytes
  <2>2. Bytes(k) = <<EXT, k.code>>
    BY <1>1, <2>1, Joined, ZenonT(30)
  <2> QED BY <1>1, <1>2, <1>3, <2>2
<1>4. CASE k.ext /\ ~k.down
  <2>1. Bytes(k) = <<EXT>> \o <<BREAK>> \o <<k.code>>
    BY <1>4 DEF Bytes
  <2>2. Bytes(k) = <<EXT, BREAK, k.code>>
    BY <1>1, <2>1, Joined, ZenonT(30)
  <2> QED BY <1>1, <1>2, <1>4, <2>2
<1>5. CASE ~k.ext /\ k.down
  <2>1. Bytes(k) = <<>> \o <<>> \o <<k.code>>
    BY <1>5 DEF Bytes
  <2>2. Bytes(k) = <<k.code>>
    BY <2>1
  <2> QED BY <1>1, <1>2, <1>5, <2>2
<1>6. CASE ~k.ext /\ ~k.down
  <2>1. Bytes(k) = <<>> \o <<BREAK>> \o <<k.code>>
    BY <1>6 DEF Bytes
  <2>2. Bytes(k) = <<BREAK, k.code>>
    BY <1>1, <2>1, Joined, Zenon
  <2> QED BY <1>1, <1>2, <1>6, <2>2
<1> QED BY <1>3, <1>4, <1>5, <1>6, Zenon

\* One more key: its bytes are sent behind all others.
SentOn(sent, at, keys, m) ==
  \E at2 \in [1 .. m + 2 -> Nat] :
    SentOK(sent, at2, keys) /\ \A k \in 1 .. m + 1 : at2[k] = at[k]

LEMMA SentMore ==
  ASSUME NEW keys \in Seq(KeySet), NEW sent \in Seq(ByteSet), NEW m \in Nat, m = Len(keys),
         NEW at \in [1 .. m + 1 -> Nat], SentOK(sent, at, keys), NEW key \in KeySet
  PROVE  SentOn(sent \o Bytes(key), at, Append(keys, key), m)
<1> DEFINE B == Bytes(key)
           new == sent \o B
           more == Append(keys, key)
           l == Len(sent)
           b == Len(B)
           at2 == [k \in 1 .. m + 2 |-> IF k = m + 2 THEN l + b ELSE at[k]]
<1>1. B \in Seq(ByteSet) /\ l \in Nat /\ b \in Nat
  BY BytesOfKey
<1>5. at[m + 1] = l /\ \A k \in 1 .. m + 1 : at[k] <= l
  BY DEF SentOK
<1>3. /\ Len(more) = m + 1 /\ more[m + 1] = key
      /\ \A k \in 1 .. m : more[k] = keys[k]
  OBVIOUS
<1> HIDE DEF B
<1>2. /\ new \in Seq(ByteSet) /\ Len(new) = l + b
      /\ \A i \in 1 .. l : new[i] = sent[i]
      /\ \A i \in 1 .. b : new[l + i] = B[i]
  BY <1>1
<1> HIDE DEF new, more, l, b
<1>4. at2 \in [1 .. m + 2 -> Nat]
  <2>1. \A k \in 1 .. m + 2 : k # m + 2 => at[k] \in Nat
    OBVIOUS
  <2> QED BY <1>1, <2>1
<1>6. at2[m + 2] = l + b /\ \A k \in 1 .. m + 1 : at2[k] = at[k]
  BY <1>1
<1> HIDE DEF at2
<1>7. ASSUME NEW k \in 1 .. m + 1
      PROVE  at2[k + 1] = at2[k] + Len(Bytes(more[k])) /\ CodeAt(new, at2[k], more[k])
  <2>1. CASE k = m + 1
    <3>2. at2[k] = l /\ more[k] = key /\ at2[k + 1] = l + b
      <4>1. k + 1 = m + 2 /\ k \in 1 .. m + 1
        BY <2>1
      <4> QED BY <4>1, <1>3, <1>5, <1>6, <2>1, Zenon
    <3> QED BY <1>2, <3>2 DEF CodeAt, B, b
  <2>2. CASE k \in 1 .. m
    <3> DEFINE C == Bytes(keys[k])
               c == Len(C)
    <3>1. more[k] = keys[k] /\ at2[k] = at[k] /\ at2[k + 1] = at[k + 1]
      <4>1. k + 1 \in 1 .. m + 1
        BY <2>2
      <4> QED BY <4>1, <1>3, <1>6, <2>2
    <3>2. at[k + 1] = at[k] + c /\ CodeAt(sent, at[k], keys[k])
      BY <2>2 DEF SentOK
    <3>3. at[k + 1] <= l /\ at[k] \in Nat
      BY <2>2, <1>5
    <3>a. keys[k] \in KeySet
      BY <2>2
    <3>b. c \in Nat
      BY <3>a, BytesOfKey
    <3> HIDE DEF C, c
    <3>4. \A i \in 1 .. c : at[k] + i \in 1 .. l
      BY <1>1, <3>2, <3>3, <3>b
    <3>5. CodeAt(new, at[k], keys[k])
      BY <1>2, <3>2, <3>4, Zenon DEF CodeAt, c, C
    <3> QED BY <3>1, <3>2, <3>5, Zenon DEF c, C
  <2> QED BY <2>1, <2>2
<1>8. ASSUME NEW k \in 1 .. m + 2 PROVE at2[k] <= Len(new)
  <2>1. CASE k = m + 2
    BY <1>1, <1>2, <1>6, <2>1
  <2>2. CASE k \in 1 .. m + 1
    <3>1. at2[k] \in Nat /\ at2[k] <= l
      BY <1>5, <1>6, <2>2
    <3> QED BY <1>1, <1>2, <3>1
  <2> QED BY <2>1, <2>2
<1>9. SentOK(new, at2, more)
  <2>1. at2[Len(more) + 1] = Len(new)
    BY <1>2, <1>3, <1>6
  <2>2. \A k \in 1 .. Len(more) : /\ at2[k + 1] = at2[k] + Len(Bytes(more[k]))
                                  /\ CodeAt(new, at2[k], more[k])
    BY <1>3, <1>7, Zenon
  <2>3. \A k \in 1 .. Len(more) + 1 : at2[k] <= Len(new)
    BY <1>3, <1>8
  <2> QED BY <2>1, <2>2, <2>3, Zenon DEF SentOK
<1> QED BY <1>4, <1>6, <1>9, ZenonT(30) DEF SentOn, new, more, B

\* What is left to read grows with what is sent.
LEMMA LeftMore ==
  ASSUME NEW sent \in Seq(ByteSet), NEW a \in Nat, NEW buffered \in Seq(ByteSet),
         NEW coming \in Seq(ByteSet), LeftOK(sent, a, buffered, coming), NEW B \in Seq(ByteSet)
  PROVE  LeftOK(sent \o B, a, buffered, coming \o B)
<1> DEFINE l == Len(sent)
           f == Len(buffered)
           c == Len(coming)
           b == Len(B)
           s2 == sent \o B
           c2 == coming \o B
<1>1. l \in Nat /\ f \in Nat /\ c \in Nat /\ b \in Nat /\ l = a + f + c
  BY DEF LeftOK
<1>2. /\ Len(s2) = l + b /\ Len(c2) = c + b
      /\ \A i \in 1 .. l : s2[i] = sent[i]
      /\ \A i \in 1 .. b : s2[l + i] = B[i]
      /\ \A i \in 1 .. c : c2[i] = coming[i]
      /\ \A i \in 1 .. b : c2[c + i] = B[i]
  OBVIOUS
<1>3. /\ \A i \in 1 .. f : buffered[i] = sent[a + i]
      /\ \A i \in 1 .. c : coming[i] = sent[a + f + i]
  BY DEF LeftOK
<1> HIDE DEF s2, c2, l, f, c, b
<1>4. Len(s2) = a + f + Len(c2)
  BY <1>1, <1>2
<1>5. ASSUME NEW i \in 1 .. f PROVE buffered[i] = s2[a + i]
  <2>1. a + i \in 1 .. l
    BY <1>1
  <2> QED BY <1>2, <1>3, <2>1
<1>6. ASSUME NEW i \in 1 .. c + b PROVE c2[i] = s2[a + f + i]
  <2>1. CASE i \in 1 .. c
    <3>1. a + f + i \in 1 .. l
      BY <1>1, <2>1
    <3> QED BY <1>2, <1>3, <2>1, <3>1
  <2>2. CASE i \in c + 1 .. c + b
    <3> DEFINE j == i - c
    <3>1. j \in 1 .. b /\ i = c + j /\ a + f + i = l + j
      BY <1>1, <2>2
    <3> HIDE DEF j
    <3> QED BY <1>2, <3>1, Zenon
  <2> QED BY <1>1, <2>1, <2>2
<1>7. \A i \in 1 .. Len(c2) : c2[i] = s2[a + f + i]
  BY <1>2, <1>6, Zenon
<1> QED BY <1>4, <1>5, <1>7, ZenonT(30) DEF LeftOK, s2, c2, f

LEMMA TypeKeeps == Ps2Inv /\ Type => Ps2Inv'
<1> SUFFICES ASSUME Ps2Inv, Type PROVE Ps2Inv'
  OBVIOUS
<1>1. PICK key \in KeySet : typed' = Append(typed, key) /\ line' = line \o Bytes(key)
  BY DEF Type, Key, KeySet
<1>2. UNCHANGED <<fifo, break_code, extended, reported>>
  BY DEF Type
<1> DEFINE m == Len(typed)
           r == Len(reported)
           B == Bytes(key)
<1>3. PICK sent \in Seq(ByteSet), at \in [1 .. m + 1 -> Nat], n \in 0 .. 2 : Streams(sent, at, n)
  BY DEF Ps2Inv
<1>4. Ps2Type /\ KeysDecoded /\ m \in Nat /\ r \in Nat /\ r <= m
  BY DEF Ps2Inv, Ps2Type, KeysDecoded
<1>5. B \in Seq(ByteSet)
  BY BytesOfKey, Zenon
<1>6. /\ typed' \in Seq(KeySet) /\ Len(typed') = m + 1
      /\ \A k \in 1 .. m : typed'[k] = typed[k]
  BY <1>1, <1>4 DEF Ps2Type
<1>7. Ps2Type'
  BY <1>1, <1>2, <1>4, <1>5, <1>6 DEF Ps2Type
<1>8. KeysDecoded'
  <2>1. \A i \in DOMAIN reported : i \in 1 .. m
    BY <1>4 DEF Ps2Type
  <2> QED BY <1>2, <1>4, <1>6, <2>1 DEF KeysDecoded
<1>9. PICK at2 \in [1 .. m + 2 -> Nat] :
        SentOK(sent \o B, at2, typed') /\ \A k \in 1 .. m + 1 : at2[k] = at[k]
  <2>1. typed \in Seq(KeySet)
    BY <1>4 DEF Ps2Type
  <2>2. SentOK(sent, at, typed)
    BY <1>3, Zenon DEF Streams
  <2>3. typed' = Append(typed, key)
    BY <1>1
  <2> HIDE DEF m
  <2>4. m = Len(typed)
    BY DEF m
  <2>5. SentOn(sent \o B, at, typed', m)
    BY <1>4, <2>1, <2>2, <2>3, <2>4, SentMore, ZenonT(30)
  <2> QED BY <2>5, Zenon DEF SentOn
<1>10. at2[r + 1] = at[r + 1] /\ at[r + 1] \in Nat
  BY <1>4, <1>9
<1> DEFINE a == at[r + 1] + n
<1>11. LeftOK(sent \o B, a, fifo, line \o B)
  <2>1. LeftOK(sent, a, fifo, line) /\ fifo \in Seq(ByteSet) /\ line \in Seq(ByteSet)
    BY <1>3, <1>4 DEF Streams, Ps2Type
  <2>2. a \in Nat
    BY <1>10
  <2> HIDE DEF a, B
  <2> QED BY <1>5, <2>1, <2>2, LeftMore, ZenonT(30)
<1>12. LeftOK(sent \o B, at2[r + 1] + n, fifo, line')
  BY <1>1, <1>10, <1>11
<1>13. FlagsOK(n, typed'[r + 1], extended, break_code)
  <2>1. CASE r = m
    BY <1>3, <2>1 DEF Streams, FlagsOK
  <2>2. CASE r # m
    <3>1. r + 1 \in 1 .. m
      BY <1>4, <2>2
    <3> QED BY <1>3, <1>6, <2>2, <3>1, Zenon DEF Streams
  <2> QED BY <2>1, <2>2
<1>14. sent \o B \in Seq(ByteSet) /\ at2 \in [1 .. Len(typed') + 1 -> Nat] /\ Len(reported') # Len(typed')
  BY <1>2, <1>4, <1>5, <1>6
<1>15. Streams(sent \o B, at2, n)'
  BY <1>2, <1>9, <1>12, <1>13, <1>14, ZenonT(30) DEF Streams
<1> QED BY <1>7, <1>8, <1>14, <1>15, ZenonT(30) DEF Ps2Inv

LEMMA ArriveKeeps == Ps2Inv /\ Arrive => Ps2Inv'
<1> SUFFICES ASSUME Ps2Inv, Arrive PROVE Ps2Inv'
  OBVIOUS
<1>1. /\ line # <<>> /\ fifo' = Append(fifo, Head(line)) /\ line' = Tail(line)
      /\ UNCHANGED <<break_code, extended, typed, reported>>
  BY DEF Arrive
<1>2. PICK sent \in Seq(ByteSet), at \in [1 .. Len(typed) + 1 -> Nat], n \in 0 .. 2 : Streams(sent, at, n)
  BY DEF Ps2Inv
<1>3. fifo \in Seq(ByteSet) /\ line \in Seq(ByteSet) /\ KeysDecoded
  BY DEF Ps2Inv, Ps2Type
<1>4. Ps2Type' /\ KeysDecoded'
  BY <1>1, <1>3 DEF Ps2Inv, Ps2Type, KeysDecoded
<1> DEFINE a == at[Len(reported) + 1] + n
<1>5. LeftOK(sent, a, fifo, line) /\ a \in Nat
  <2>1. Len(reported) + 1 \in 1 .. Len(typed) + 1
    BY DEF Ps2Inv, Ps2Type, KeysDecoded
  <2>2. at[Len(reported) + 1] \in Nat
    BY <2>1
  <2> QED BY <1>2, <2>2 DEF Streams
<1> HIDE DEF a
<1> DEFINE f == Len(fifo)
           c == Len(line)
<1>6. /\ f \in Nat /\ c \in Nat /\ c > 0
      /\ Len(fifo') = f + 1 /\ Len(line') = c - 1
      /\ fifo'[f + 1] = line[1] /\ \A i \in 1 .. f : fifo'[i] = fifo[i]
      /\ \A i \in 1 .. c - 1 : line'[i] = line[i + 1]
  BY <1>1, <1>3
<1>7. /\ Len(sent) = a + f + c
      /\ \A i \in 1 .. f : fifo[i] = sent[a + i]
      /\ \A i \in 1 .. c : line[i] = sent[a + f + i]
  BY <1>5 DEF LeftOK
<1> HIDE DEF f, c
<1>8. LeftOK(sent, a, fifo', line')
  <2>1. Len(sent) = a + (f + 1) + (c - 1)
    BY <1>5, <1>6, <1>7
  <2>2. ASSUME NEW i \in 1 .. f + 1 PROVE fifo'[i] = sent[a + i]
    <3>1. CASE i = f + 1
      <4>1. a + f + 1 = a + i /\ 1 \in 1 .. c
        BY <1>5, <1>6, <3>1
      <4> QED BY <1>6, <1>7, <3>1, <4>1
    <3>2. CASE i \in 1 .. f
      BY <1>6, <1>7, <3>2
    <3> QED BY <1>6, <3>1, <3>2
  <2>3. ASSUME NEW i \in 1 .. c - 1 PROVE line'[i] = sent[a + (f + 1) + i]
    <3>1. i + 1 \in 1 .. c
      BY <1>6
    <3>2. a + f + (i + 1) = a + (f + 1) + i
      BY <1>5, <1>6
    <3> QED BY <1>6, <1>7, <3>1, <3>2
  <2>4. \A i \in 1 .. Len(line') : line'[i] = sent[a + Len(fifo') + i]
    BY <1>6, <2>3
  <2>5. \A i \in 1 .. Len(fifo') : fifo'[i] = sent[a + i]
    BY <1>6, <2>2
  <2> QED BY <1>6, <2>1, <2>4, <2>5, Zenon DEF LeftOK
<1>9. Streams(sent, at, n)'
  BY <1>1, <1>2, <1>8 DEF Streams, a
<1> QED BY <1>1, <1>2, <1>4, <1>9 DEF Ps2Inv

\* What the next byte of a key is, and what the driver makes of it.
ReadsNext(B, n, k, e, b) ==
  /\ n + 1 \in 1 .. Len(B) /\ B[n + 1] # EMPTY
  /\ B[n + 1] = EXT => FlagsOK(n + 1, k, TRUE, b) /\ n + 1 \in 0 .. 2
  /\ B[n + 1] = BREAK => FlagsOK(n + 1, k, e, TRUE) /\ n + 1 \in 0 .. 2
  /\ B[n + 1] \notin {EXT, BREAK} =>
       n + 1 = Len(B) /\ B[n + 1] = k.code /\ (e <=> k.ext) /\ (b <=> ~k.down)

LEMMA NextByte ==
  ASSUME NEW k \in KeySet, NEW n \in 0 .. 2, NEW e \in BOOLEAN, NEW b \in BOOLEAN, FlagsOK(n, k, e, b)
  PROVE  ReadsNext(Bytes(k), n, k, e, b)
<1>1. EXT # BREAK /\ EXT # EMPTY /\ BREAK # EMPTY
  BY DEF EXT, BREAK, EMPTY
<1> DEFINE B == Bytes(k)
           l == Len(B)
<1>3. /\ l = 1 + (IF k.ext THEN 1 ELSE 0) + (IF k.down THEN 0 ELSE 1)
      /\ k.ext => B[1] = EXT
      /\ ~k.down => B[l - 1] = BREAK
      /\ B[l] = k.code /\ k.code \notin {EXT, BREAK, EMPTY}
  BY BytesOfKey, Zenon
<1> SUFFICES ReadsNext(B, n, k, e, b)
  OBVIOUS
<1> HIDE DEF B, l
<1>x. ASSUME n + 1 \in 1 .. l, B[n + 1] = EXT, FlagsOK(n + 1, k, TRUE, b), n + 1 \in 0 .. 2
      PROVE  ReadsNext(B, n, k, e, b)
  BY <1>1, <1>x, Zenon DEF ReadsNext, l
<1>b. ASSUME n + 1 \in 1 .. l, B[n + 1] = BREAK, FlagsOK(n + 1, k, e, TRUE), n + 1 \in 0 .. 2
      PROVE  ReadsNext(B, n, k, e, b)
  BY <1>1, <1>b, Zenon DEF ReadsNext, l
<1>k. ASSUME n + 1 \in 1 .. l, n + 1 = l, B[n + 1] = k.code, e <=> k.ext, b <=> ~k.down
      PROVE  ReadsNext(B, n, k, e, b)
  BY <1>3, <1>k, Zenon DEF ReadsNext, l
<1>4. CASE k.ext /\ k.down
  <2>1. l = 2 /\ B[1] = EXT /\ B[2] = k.code
    <3>1. (IF k.ext THEN 1 ELSE 0) = 1 /\ (IF k.down THEN 0 ELSE 1) = 0
      BY <1>4, Zenon
    <3>2. l = 2
      BY <1>3, <3>1
    <3> QED BY <1>3, <1>4, <3>2
  <2>2. (n = 0 /\ ~e /\ ~b) \/ (n = 1 /\ e /\ ~b)
    BY <1>4, Zenon DEF FlagsOK
  <2>3. CASE n = 0 /\ ~e /\ ~b
    <3>1. n + 1 = 1 /\ n + 1 \in 1 .. l /\ n + 1 \in 0 .. 2 /\ B[n + 1] = EXT
      BY <2>1, <2>3
    <3>2. FlagsOK(1, k, TRUE, b)
      BY <1>4, <2>3, Zenon DEF FlagsOK
    <3> QED BY <1>x, <3>1, <3>2, Zenon
  <2>4. CASE n = 1 /\ e /\ ~b
    <3>1. n + 1 = l /\ n + 1 \in 1 .. l /\ B[n + 1] = k.code
      BY <2>1, <2>4
    <3> QED BY <1>4, <1>k, <2>4, <3>1, Zenon
  <2> QED BY <2>2, <2>3, <2>4, Zenon
<1>5. CASE k.ext /\ ~k.down
  <2>1. l = 3 /\ B[1] = EXT /\ B[2] = BREAK /\ B[3] = k.code
    <3>1. (IF k.ext THEN 1 ELSE 0) = 1 /\ (IF k.down THEN 0 ELSE 1) = 1
      BY <1>5, Zenon
    <3>2. l = 3
      BY <1>3, <3>1
    <3> QED BY <1>3, <1>5, <3>2
  <2>2. (n = 0 /\ ~e /\ ~b) \/ (n = 1 /\ e /\ ~b) \/ (n = 2 /\ e /\ b)
    BY <1>5, Zenon DEF FlagsOK
  <2>3. CASE n = 0 /\ ~e /\ ~b
    <3>1. n + 1 = 1 /\ n + 1 \in 1 .. l /\ n + 1 \in 0 .. 2 /\ B[n + 1] = EXT
      BY <2>1, <2>3
    <3>2. FlagsOK(1, k, TRUE, b)
      BY <1>5, <2>3, Zenon DEF FlagsOK
    <3> QED BY <1>x, <3>1, <3>2, Zenon
  <2>4. CASE n = 1 /\ e /\ ~b
    <3>1. n + 1 = 2 /\ n + 1 \in 1 .. l /\ n + 1 \in 0 .. 2 /\ B[n + 1] = BREAK
      BY <2>1, <2>4
    <3>2. FlagsOK(2, k, e, TRUE)
      BY <1>5, <2>4, Zenon DEF FlagsOK
    <3> QED BY <1>b, <3>1, <3>2, Zenon
  <2>5. CASE n = 2 /\ e /\ b
    <3>1. n + 1 = l /\ n + 1 \in 1 .. l /\ B[n + 1] = k.code
      BY <2>1, <2>5
    <3> QED BY <1>5, <1>k, <2>5, <3>1, Zenon
  <2> QED BY <2>2, <2>3, <2>4, <2>5, Zenon
<1>6. CASE ~k.ext /\ k.down
  <2>1. l = 1 /\ B[1] = k.code
    <3>1. (IF k.ext THEN 1 ELSE 0) = 0 /\ (IF k.down THEN 0 ELSE 1) = 0
      BY <1>6, Zenon
    <3>2. l = 1
      BY <1>3, <3>1
    <3> QED BY <1>3, <1>6, <3>2
  <2>2. (n = 0 /\ ~e /\ ~b)
    BY <1>6, Zenon DEF FlagsOK
  <2>3. CASE n = 0 /\ ~e /\ ~b
    <3>1. n + 1 = l /\ n + 1 \in 1 .. l /\ B[n + 1] = k.code
      BY <2>1, <2>3
    <3> QED BY <1>6, <1>k, <2>3, <3>1, Zenon
  <2> QED BY <2>2, <2>3, Zenon
<1>7. CASE ~k.ext /\ ~k.down
  <2>1. l = 2 /\ B[1] = BREAK /\ B[2] = k.code
    <3>1. (IF k.ext THEN 1 ELSE 0) = 0 /\ (IF k.down THEN 0 ELSE 1) = 1
      BY <1>7, Zenon
    <3>2. l = 2
      BY <1>3, <3>1
    <3> QED BY <1>3, <1>7, <3>2
  <2>2. (n = 0 /\ ~e /\ ~b) \/ (n = 1 /\ ~e /\ b)
    BY <1>7, Zenon DEF FlagsOK
  <2>3. CASE n = 0 /\ ~e /\ ~b
    <3>1. n + 1 = 1 /\ n + 1 \in 1 .. l /\ n + 1 \in 0 .. 2 /\ B[n + 1] = BREAK
      BY <2>1, <2>3
    <3>2. FlagsOK(1, k, e, TRUE)
      BY <1>7, <2>3, Zenon DEF FlagsOK
    <3> QED BY <1>b, <3>1, <3>2, Zenon
  <2>4. CASE n = 1 /\ ~e /\ b
    <3>1. n + 1 = l /\ n + 1 \in 1 .. l /\ B[n + 1] = k.code
      BY <2>1, <2>4
    <3> QED BY <1>7, <1>k, <2>4, <3>1, Zenon
  <2> QED BY <2>2, <2>3, <2>4, Zenon
<1> QED BY <1>4, <1>5, <1>6, <1>7, Zenon

LEMMA LeftTail ==
  ASSUME NEW sent \in Seq(ByteSet), NEW a \in Nat, NEW buffered \in Seq(ByteSet),
         NEW coming \in Seq(ByteSet), LeftOK(sent, a, buffered, coming), buffered # <<>>
  PROVE  LeftOK(sent, a + 1, Tail(buffered), coming) /\ Head(buffered) = sent[a + 1]
         /\ a + 1 <= Len(sent)
<1> DEFINE f == Len(buffered)
           c == Len(coming)
           t == Tail(buffered)
<1>1. /\ f \in Nat /\ f > 0 /\ c \in Nat /\ Len(t) = f - 1 /\ Head(buffered) = buffered[1]
      /\ \A i \in 1 .. f - 1 : t[i] = buffered[i + 1]
  OBVIOUS
<1>2. /\ Len(sent) = a + f + c
      /\ \A i \in 1 .. f : buffered[i] = sent[a + i]
      /\ \A i \in 1 .. c : coming[i] = sent[a + f + i]
  BY Zenon DEF LeftOK
<1> HIDE DEF f, c, t
<1>3. Len(sent) = (a + 1) + (f - 1) + c /\ a + 1 <= Len(sent)
  BY <1>1, <1>2
<1>4. ASSUME NEW i \in 1 .. f - 1 PROVE t[i] = sent[(a + 1) + i]
  <2>1. i + 1 \in 1 .. f /\ a + (i + 1) = (a + 1) + i
    BY <1>1
  <2> QED BY <1>1, <1>2, <2>1
<1>5. ASSUME NEW i \in 1 .. c PROVE coming[i] = sent[(a + 1) + (f - 1) + i]
  <2>1. a + f + i = (a + 1) + (f - 1) + i
    BY <1>1
  <2> QED BY <1>2, <2>1
<1>6. LeftOK(sent, a + 1, t, coming)
  <2>1. Len(sent) = (a + 1) + Len(t) + Len(coming)
    BY <1>1, <1>3 DEF c
  <2>2. \A i \in 1 .. Len(t) : t[i] = sent[(a + 1) + i]
    BY <1>1, <1>4, Zenon
  <2>3. \A i \in 1 .. Len(coming) : coming[i] = sent[(a + 1) + Len(t) + i]
    BY <1>1, <1>5 DEF c
  <2> QED BY <2>1, <2>2, <2>3, ZenonT(30) DEF LeftOK
<1>7. Head(buffered) = sent[a + 1]
  <2>1. 1 \in 1 .. f
    BY <1>1
  <2> QED BY <1>1, <1>2, <2>1
<1> QED BY <1>3, <1>6, <1>7, ZenonT(30) DEF t

LEMMA PollKeepsPs2 == Ps2Inv /\ Poll => Ps2Inv'
<1> SUFFICES ASSUME Ps2Inv, Poll PROVE Ps2Inv'
  OBVIOUS
<1>1. /\ typed \in Seq(KeySet) /\ reported \in Seq(KeySet)
      /\ fifo \in Seq(ByteSet) /\ line \in Seq(ByteSet)
      /\ extended \in BOOLEAN /\ break_code \in BOOLEAN /\ KeysDecoded
  BY DEF Ps2Inv, Ps2Type
<1> DEFINE m == Len(typed)
           r == Len(reported)
<1>2. m \in Nat /\ r \in Nat /\ r <= m
  BY <1>1 DEF KeysDecoded
<1>3. PICK sent \in Seq(ByteSet), at \in [1 .. m + 1 -> Nat], n \in 0 .. 2 : Streams(sent, at, n)
  BY DEF Ps2Inv
<1> DEFINE a == at[r + 1] + n
<1>4. at[r + 1] \in Nat /\ a \in Nat
  BY <1>2, <1>3
<1>5. SentOK(sent, at, typed) /\ LeftOK(sent, a, fifo, line)
  BY <1>3, Zenon DEF Streams
<1>6. line' = line /\ typed' = typed
  BY DEF Poll
<1>7. CASE fifo = <<>>
  <2>1. inb = EMPTY
    BY <1>7 DEF inb
  <2>2. UNCHANGED <<fifo, extended, break_code, reported>>
    <3>1. EMPTY # EXT /\ EMPTY # BREAK
      BY DEF EXT, BREAK, EMPTY
    <3>2. UNCHANGED <<extended, break_code, reported>>
      BY <2>1, <3>1, Zenon DEF Poll
    <3> QED BY <1>7, <3>2 DEF Poll
  <2>3. Ps2Type' /\ KeysDecoded'
    BY <1>1, <1>6, <2>2, ZenonT(30) DEF Ps2Type, KeysDecoded
  <2>4. Streams(sent, at, n)'
    BY <1>3, <1>6, <2>2, ZenonT(30) DEF Streams
  <2> QED BY <1>3, <1>6, <2>3, <2>4, ZenonT(30) DEF Ps2Inv
<1>8. CASE fifo # <<>>
  <2> DEFINE h == Head(fifo)
             k == typed[r + 1]
  <2>1. inb = h /\ fifo' = Tail(fifo)
    BY <1>8 DEF inb, Poll
  <2>2. LeftOK(sent, a + 1, fifo', line) /\ h = sent[a + 1] /\ a + 1 <= Len(sent)
    BY <1>1, <1>4, <1>5, <1>8, <2>1, LeftTail, Zenon
  <2>3. r < m
    <3> SUFFICES ASSUME r = m PROVE FALSE
      BY <1>2
    <3>1. n = 0 /\ at[m + 1] = Len(sent)
      BY <1>3, <1>5 DEF Streams, SentOK
    <3> QED BY <1>4, <2>2, <3>1
  <2>b. Len(reported) # Len(typed)
    BY <1>2, <2>3
  <2>4. r + 1 \in 1 .. m /\ k \in KeySet
    BY <1>1, <1>2, <2>3
  <2>5. FlagsOK(n, k, extended, break_code)
    BY <1>2, <1>3, <2>3 DEF Streams
  <2> DEFINE B == Bytes(k)
  <2>6. ReadsNext(B, n, k, extended, break_code)
    BY <1>1, <2>4, <2>5, NextByte, ZenonT(30)
  <2>7. /\ at[(r + 1) + 1] = at[r + 1] + Len(B)
        /\ \A i \in 1 .. Len(B) : sent[at[r + 1] + i] = B[i]
    BY <1>5, <2>4 DEF SentOK, CodeAt
  <2>8. a + 1 = at[r + 1] + (n + 1)
    BY <1>4
  <2>9. h = B[n + 1]
    BY <2>2, <2>6, <2>7, <2>8, Zenon DEF ReadsNext
  <2>10. fifo' \in Seq(ByteSet)
    BY <1>1, <1>8, <2>1
  <2>11. LeftOK(sent, at[r + 1] + (n + 1), fifo', line')
    BY <1>6, <2>2, <2>8
  <2>12. EXT # BREAK /\ EXT # EMPTY /\ BREAK # EMPTY
    BY DEF EXT, BREAK, EMPTY
  <2> HIDE DEF h, k, B, a
  <2>13. CASE h = EXT
    <3>1. extended' = TRUE /\ UNCHANGED <<break_code, reported>>
      BY <2>1, <2>12, <2>13 DEF Poll
    <3>2. FlagsOK(n + 1, k, extended', break_code') /\ n + 1 \in 0 .. 2
      BY <2>6, <2>9, <2>13, <3>1, Zenon DEF ReadsNext
    <3>3. Streams(sent, at, n + 1)'
      BY <1>5, <1>6, <2>b, <2>11, <3>1, <3>2, ZenonT(30) DEF Streams, k
    <3>4. Ps2Type' /\ KeysDecoded'
      BY <1>1, <1>6, <2>10, <3>1, Zenon DEF Ps2Type, KeysDecoded
    <3> QED BY <1>3, <1>6, <3>2, <3>3, <3>4, ZenonT(30) DEF Ps2Inv
  <2>14. CASE h = BREAK
    <3>1. break_code' = TRUE /\ UNCHANGED <<extended, reported>>
      BY <2>1, <2>12, <2>14 DEF Poll
    <3>2. FlagsOK(n + 1, k, extended', break_code') /\ n + 1 \in 0 .. 2
      BY <2>6, <2>9, <2>14, <3>1, Zenon DEF ReadsNext
    <3>3. Streams(sent, at, n + 1)'
      BY <1>5, <1>6, <2>b, <2>11, <3>1, <3>2, ZenonT(30) DEF Streams, k
    <3>4. Ps2Type' /\ KeysDecoded'
      BY <1>1, <1>6, <2>10, <3>1 DEF Ps2Type, KeysDecoded
    <3> QED BY <1>3, <1>6, <3>2, <3>3, <3>4, Zenon DEF Ps2Inv
  <2>15. CASE h \notin {EXT, BREAK}
    <3>1. n + 1 = Len(B) /\ h = k.code /\ (extended <=> k.ext) /\ (break_code <=> ~k.down)
      BY <2>6, <2>9, <2>15 DEF ReadsNext
    <3>2. h # EMPTY
      BY <2>6, <2>9 DEF ReadsNext
    <3>3. /\ reported' = Append(reported, Key(extended, h, ~break_code))
          /\ extended' = FALSE /\ break_code' = FALSE
      <4>1. h # EXT /\ h # BREAK
        BY <2>15
      <4> QED BY <2>1, <3>2, <4>1, Zenon DEF Poll, Lookup
    <3>4. Key(extended, h, ~break_code) = k
      <4>1. k = [ext |-> k.ext, code |-> k.code, down |-> k.down] /\ k.ext \in BOOLEAN /\ k.down \in BOOLEAN
        BY <2>4 DEF KeySet
      <4>2. k.ext = extended /\ k.down = ~break_code
        BY <1>1, <3>1, <4>1, Zenon
      <4> QED BY <3>1, <4>1, <4>2, Zenon DEF Key
    <3>5. /\ reported' \in Seq(KeySet) /\ Len(reported') = r + 1 /\ DOMAIN reported' = 1 .. r + 1
          /\ reported'[r + 1] = k /\ \A i \in 1 .. r : reported'[i] = reported[i]
      BY <1>1, <2>4, <3>3, <3>4
    <3>6. KeysDecoded'
      <4>1. \A i \in 1 .. r : reported[i] = typed[i]
        BY <1>1 DEF KeysDecoded
      <4>2. ASSUME NEW i \in 1 .. r + 1 PROVE reported'[i] = typed[i]
        <5>1. CASE i \in 1 .. r
          BY <3>5, <4>1, <5>1
        <5>2. CASE i = r + 1
          BY <3>5, <5>2 DEF k
        <5> QED BY <1>2, <5>1, <5>2
      <4> QED BY <1>2, <1>6, <2>3, <3>5, <4>2 DEF KeysDecoded
    <3>7. LeftOK(sent, at[Len(reported') + 1] + 0, fifo', line')
      <4>1. (r + 1) + 1 \in 1 .. m + 1
        BY <1>2, <2>3
      <4>2. at[(r + 1) + 1] \in Nat
        BY <4>1
      <4> DEFINE x == at[(r + 1) + 1]
                 y == at[r + 1]
      <4>3. y + (n + 1) = x + 0 /\ x + 0 = at[Len(reported') + 1] + 0
        BY <1>4, <2>7, <3>1, <3>5, <4>2
      <4> QED BY <2>11, <4>3
    <3>8. FlagsOK(0, typed'[Len(reported') + 1], extended', break_code') /\ ~extended' /\ ~break_code'
      BY <3>3 DEF FlagsOK
    <3>9. Streams(sent, at, 0)'
      BY <1>5, <1>6, <3>7, <3>8 DEF Streams
    <3>10. Ps2Type'
      BY <1>1, <1>6, <2>10, <3>3, <3>5, Zenon DEF Ps2Type
    <3>11. 0 \in 0 .. 2
      OBVIOUS
    <3> QED BY <1>3, <1>6, <3>6, <3>9, <3>10, <3>11, ZenonT(30) DEF Ps2Inv
  <2> QED BY <2>13, <2>14, <2>15
<1> QED BY <1>7, <1>8

\* However the bytes of the keys arrive between the polls, and however many
\* keys there are.
THEOREM Ps2KeysDecoded == Ps2Spec => []KeysDecoded
<1>1. Ps2Init => Ps2Inv
  <2> SUFFICES ASSUME Ps2Init PROVE Ps2Inv
    OBVIOUS
  <2>1. Ps2Type /\ KeysDecoded /\ Len(typed) = 0 /\ Len(reported) = 0
    <3>1. <<>> \in Seq(KeySet) /\ <<>> \in Seq(ByteSet) /\ Len(<<>>) = 0 /\ DOMAIN <<>> = {} /\ 0 <= 0
      OBVIOUS
    <3>2. Ps2Type
      BY <3>1, Zenon DEF Ps2Init, Ps2Type
    <3> QED BY <3>1, <3>2, Zenon DEF Ps2Init, KeysDecoded
  <2> DEFINE sent == <<>>
             at == [k \in 1 .. Len(typed) + 1 |-> 0]
  <2>2. sent \in Seq(ByteSet) /\ at \in [1 .. Len(typed) + 1 -> Nat] /\ 0 \in 0 .. 2
    OBVIOUS
  <2>3. Streams(sent, at, 0)
    BY <2>1 DEF Ps2Init, Streams, SentOK, LeftOK
  <2> HIDE DEF sent, at
  <2> QED BY <2>1, <2>2, <2>3, Zenon DEF Ps2Inv
<1>2. Ps2Inv /\ [Ps2Next]_ps2Vars => Ps2Inv'
  <2>1. ASSUME Ps2Inv, Call \/ UNCHANGED ps2Vars PROVE Ps2Inv'
    <3>1. UNCHANGED <<line, fifo, break_code, extended, typed, reported>>
      BY <2>1 DEF Call, ps2Vars
    <3> QED BY <2>1, <3>1 DEF Ps2Inv, Ps2Type, KeysDecoded, Streams
  <2> QED BY <2>1, TypeKeeps, ArriveKeeps, PollKeepsPs2 DEF Ps2Next
<1>3. Ps2Inv => KeysDecoded
  BY DEF Ps2Inv
<1> QED BY <1>1, <1>2, <1>3, PTL DEF Ps2Spec

-----------------------------------------------------------------------------
(***************************************************************************)
(* The uptime driver for every width of the halves: what a call returns    *)
(* is a time of the call.                                                  *)
(***************************************************************************)

\* What quotient and remainder say of a time.
LEMMA Split ==
  ASSUME NEW t \in Nat
  PROVE  /\ t \div RADIX \in Nat
         /\ t % RADIX \in Nat
         /\ t % RADIX < RADIX
         /\ t = RADIX * (t \div RADIX) + (t % RADIX)
BY ClockAssumption, Z3

\* A product grows with its factor.
LEMMA Grows ==
  ASSUME NEW a \in Nat, NEW b \in Nat, a < b
  PROVE  RADIX * a + RADIX <= RADIX * b
<1>1. PICK d \in Nat : b = a + 1 + d
  BY a < b
<1>2. RADIX * b = RADIX * a + RADIX + RADIX * d
  BY <1>1, ClockAssumption
<1>3. RADIX * d \in Nat
  BY ClockAssumption
<1> QED BY <1>2, <1>3, ClockAssumption

\* The upper half never falls as time passes.
LEMMA UpperHalfGrows ==
  ASSUME NEW s \in Nat, NEW t \in Nat, s <= t
  PROVE  s \div RADIX <= t \div RADIX
<1> SUFFICES ASSUME t \div RADIX < s \div RADIX
             PROVE  FALSE
  BY Split
<1>1. RADIX * (t \div RADIX) + RADIX <= RADIX * (s \div RADIX)
  BY Split, Grows
<1>2. t < RADIX * (t \div RADIX) + RADIX
  BY Split, ClockAssumption
<1>3. RADIX * (s \div RADIX) <= s
  BY Split, ClockAssumption
<1> QED BY <1>1, <1>2, <1>3, Split, ClockAssumption

-----------------------------------------------------------------------------
(* The inductive invariant.  Each half read belongs to a moment of the call,*)
(* the lower half's not before the upper half's: with a latch, the moment  *)
(* is that of the last refresh, which may be the debugger's.                *)
UpperRead == \E s \in Nat :
  /\ began <= s /\ s <= time
  /\ high1 = s \div RADIX
  /\ latching => \E p \in Nat : s <= p /\ p <= time /\ port.lo = p % RADIX

BothRead == \E s \in Nat, t \in Nat :
  /\ began <= s /\ s <= t /\ t <= time
  /\ high1 = s \div RADIX
  /\ low = t % RADIX

Result == high1 * RADIX + low

ClockInv ==
  /\ time \in Nat /\ began \in Nat /\ began <= time
  /\ pc \in {"high1", "low", "high2", "return"}
  /\ pc = "low" => UpperRead
  /\ pc = "high2" => BothRead
  /\ pc = "return" => Result \in Nat /\ began <= Result /\ Result <= time

\* The upper half has not changed: the halves belong together.
LEMMA Consistent ==
  ASSUME NEW s \in Nat, NEW t \in Nat, NEW u \in Nat, s <= t, t <= u,
         s \div RADIX = u \div RADIX
  PROVE  (s \div RADIX) * RADIX + (t % RADIX) = t
<1>1. s \div RADIX <= t \div RADIX /\ t \div RADIX <= u \div RADIX
  BY UpperHalfGrows
<1>2. t \div RADIX = s \div RADIX
  BY <1>1, Split
<1> DEFINE q == t \div RADIX
           r == t % RADIX
<1>3. q \in Nat /\ r \in Nat /\ t = RADIX * q + r
  BY Split
<1>4. q * RADIX = RADIX * q
  BY <1>3, ClockAssumption
<1> QED BY <1>2, <1>3, <1>4

LEMMA ClockInvInductive == ClockInv /\ [UptimeNext]_uptimeVars => ClockInv'
<1> SUFFICES ASSUME ClockInv, [UptimeNext]_uptimeVars PROVE ClockInv'
  OBVIOUS
<1> USE ClockAssumption DEF ClockInv
<1>1. CASE Tick
  <2>1. /\ time' = time + 1 /\ UNCHANGED <<latching, port, pc, high1, low, began>>
    BY <1>1 DEF Tick
  <2>2. UpperRead => UpperRead'
    <3> SUFFICES ASSUME UpperRead PROVE UpperRead'
      OBVIOUS
    <3>1. PICK s \in Nat : /\ began <= s /\ s <= time /\ high1 = s \div RADIX
                           /\ latching => \E p \in Nat : s <= p /\ p <= time /\ port.lo = p % RADIX
      BY DEF UpperRead
    <3>2. ASSUME latching
          PROVE  \E p \in Nat : s <= p /\ p <= time' /\ port'.lo = p % RADIX
      <4>1. PICK p \in Nat : s <= p /\ p <= time /\ port.lo = p % RADIX
        BY <3>1, <3>2
      <4>2. p <= time' /\ port'.lo = p % RADIX
        BY <4>1, <2>1
      <4> QED BY <4>1, <4>2
    <3>3. began' <= s /\ s <= time' /\ high1' = s \div RADIX
      BY <2>1, <3>1
    <3>4. latching' => \E p \in Nat : s <= p /\ p <= time' /\ port'.lo = p % RADIX
      BY <2>1, <3>2
    <3> QED BY <3>3, <3>4 DEF UpperRead
  <2>3. ASSUME BothRead PROVE BothRead'
    <3>1. PICK s \in Nat, t \in Nat : /\ began <= s /\ s <= t /\ t <= time
                                     /\ high1 = s \div RADIX /\ low = t % RADIX
      BY <2>3 DEF BothRead
    <3>2. /\ began' <= s /\ s <= t /\ t <= time'
          /\ high1' = s \div RADIX /\ low' = t % RADIX
      BY <2>1, <3>1
    <3> QED BY <3>2 DEF BothRead
  <2> QED BY <2>1, <2>2, <2>3 DEF Result
<1>2. CASE ReadHigh1
  <2>1. /\ pc' = "low" /\ high1' = time \div RADIX /\ UNCHANGED <<latching, time, began>>
        /\ latching => port'.lo = time % RADIX
    BY <1>2 DEF ReadHigh1, HiValue, rtc_io_handler, Halves
  <2>2. UpperRead'
    BY <2>1 DEF UpperRead
  <2> QED BY <2>1, <2>2
<1>3. CASE ReadLow
  <2>1. /\ pc = "low" /\ pc' = "high2" /\ UNCHANGED <<high1, time, began>>
        /\ low' = IF latching THEN port.lo ELSE time % RADIX
    BY <1>3 DEF ReadLow, LoValue
  <2>2. PICK s \in Nat : /\ began <= s /\ s <= time /\ high1 = s \div RADIX
                         /\ latching => \E p \in Nat : s <= p /\ p <= time /\ port.lo = p % RADIX
    BY <2>1 DEF UpperRead
  <2>3. \E t \in Nat : s <= t /\ t <= time /\ low' = t % RADIX
    <3>1. CASE latching
      BY <2>1, <2>2, <3>1
    <3>2. CASE ~latching
      BY <2>1, <2>2, <3>2
    <3> QED BY <3>1, <3>2
  <2>4. BothRead'
    BY <2>1, <2>2, <2>3 DEF BothRead
  <2> QED BY <2>1, <2>4
<1>4. CASE ReadHigh2
  <2>1. /\ pc = "high2" /\ UNCHANGED <<time, began, high1, low>>
        /\ pc' = IF high1 # time \div RADIX THEN "high1" ELSE "return"
    BY <1>4 DEF ReadHigh2, HiValue
  <2>2. CASE high1 # time \div RADIX
    BY <2>1, <2>2
  <2>3. CASE high1 = time \div RADIX
    <3>1. PICK s \in Nat, t \in Nat : /\ began <= s /\ s <= t /\ t <= time
                                     /\ high1 = s \div RADIX /\ low = t % RADIX
      BY <2>1 DEF BothRead
    <3>2. (s \div RADIX) * RADIX + (t % RADIX) = t
      BY <2>3, <3>1, Consistent
    <3>3. Result = t
      BY <3>1, <3>2 DEF Result
    <3>4. Result' = Result
      BY <2>1 DEF Result
    <3>5. Result' \in Nat /\ began <= Result' /\ Result' <= time
      BY <3>1, <3>3, <3>4
    <3> QED BY <2>1, <2>3, <3>5
  <2> QED BY <2>2, <2>3
<1>5. CASE Return
  BY <1>5 DEF Return
<1>6. CASE Peek
  <2>1. /\ UNCHANGED <<latching, time, pc, high1, low, began>>
        /\ port'.lo = time % RADIX
    BY <1>6 DEF Peek, rtc_io_handler, Halves
  <2>2. ASSUME UpperRead PROVE UpperRead'
    <3>1. PICK s \in Nat : began <= s /\ s <= time /\ high1 = s \div RADIX
      BY <2>2 DEF UpperRead
    <3>2. \E p \in Nat : s <= p /\ p <= time' /\ port'.lo = p % RADIX
      BY <2>1, <3>1
    <3>3. began' <= s /\ s <= time' /\ high1' = s \div RADIX
      BY <2>1, <3>1
    <3> QED BY <3>2, <3>3 DEF UpperRead
  <2>3. BothRead => BothRead'
    BY <2>1 DEF BothRead
  <2> QED BY <2>1, <2>2, <2>3 DEF Result
<1>7. CASE UNCHANGED uptimeVars
  BY <1>7 DEF uptimeVars, UpperRead, BothRead, Result
<1> QED BY <1>1, <1>2, <1>3, <1>4, <1>5, <1>6, <1>7 DEF UptimeNext

\* Whatever the width of the halves, however often the clock carries between
\* the reads and whenever the debugger refreshes the latch, a call of
\* __am_timer_uptime returns a time of the call.
THEOREM UptimeIsTimeOfCall == UptimeSpec => TimeOfCall
<1>1. UptimeInit => ClockInv
  BY ClockAssumption DEF UptimeInit, ClockInv
<1>2. ClockInv /\ [UptimeNext]_uptimeVars => (last' # last => last' \in began .. time)
  <2> SUFFICES ASSUME ClockInv, [UptimeNext]_uptimeVars, last' # last
               PROVE  last' \in began .. time
    OBVIOUS
  <2>1. Return
    BY DEF UptimeNext, uptimeVars, Tick, ReadHigh1, ReadLow, ReadHigh2, Peek
  <2>2. last' = Result /\ pc = "return"
    BY <2>1 DEF Return, Result
  <2> QED BY <2>2 DEF ClockInv
<1>3. ClockInv /\ [UptimeNext]_uptimeVars => ClockInv'
  BY ClockInvInductive
<1>4. QED
  BY <1>1, <1>2, <1>3, PTL DEF UptimeSpec, TimeOfCall
=============================================================================
