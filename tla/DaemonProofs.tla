---------------------------- MODULE DaemonProofs ----------------------------
(***************************************************************************)
(* The connection and the pairing, for every value of their constants: the *)
(* watchdog does not cut a live connection early, notices a dead one in    *)
(* time and keeps one whose server answers, whatever the interval, back-off*)
(* cap, latency and length of a behaviour; and pairings and unpairings,    *)
(* however they overlap, leave one client at most, which serves the paired *)
(* device, for any number of devices, requests at a time, tasks, restarts. *)
(***************************************************************************)
EXTENDS Watchdog, Lifecycle, SequenceTheorems, TLAPS

USE WatchdogAssumption, LifecycleAssumption

(* The watchdog. *)

\* The age the oldest unacked beat has at least, in the current streak.
Streak == IF misses = 1 THEN Interval ELSE 0

\* The inductive invariant: the outstanding beat was sent after the last sign of
\* life, a whole interval later if one miss was counted, and a miss is counted
\* only while a beat is outstanding.
BeatAfterLife ==
  /\ now \in Nat /\ life \in Nat /\ life <= now
  /\ expected \in Nat \cup {NoBeat} /\ misses \in {0, 1}
  /\ expected = NoBeat => misses = 0
  /\ expected # NoBeat => life + Streak <= expected

LEMMA InitBeat == Init => BeatAfterLife
BY DEF Init, BeatAfterLife, NoBeat, Streak

LEMMA StepBeat == BeatAfterLife /\ [Next]_vars => BeatAfterLife'
<1>. SUFFICES ASSUME BeatAfterLife, [Next]_vars PROVE BeatAfterLife'
  OBVIOUS
<1>. USE DEF BeatAfterLife, Streak, NoBeat
<1>1. CASE UNCHANGED <<now, life, expected, misses>>
  BY <1>1
<1>2. CASE DialFails \/ HelloRefused \/ TickKill \/ SocketError \/ CloseFrame \/ Stop
  <2>1. expected' = NoBeat /\ misses' = 0 /\ life' = 0 /\ UNCHANGED now
    BY <1>2 DEF DialFails, HelloRefused, TickKill, SocketError, CloseFrame, Drop, Stop, Gone
  <2>. QED
    BY <2>1
<1>3. CASE HelloAck \/ ReadAck
  BY <1>3 DEF HelloAck, ReadAck
<1>4. CASE TickBeat
  BY <1>4 DEF TickBeat, SendBeat, Rest
<1>5. CASE TickMiss
  BY <1>5 DEF TickMiss, SendBeat, Rest
<1>6. CASE Clock
  BY <1>6 DEF Clock, timers
<1>7. CASE Dial \/ ReadRequest \/ FinishAction
  BY <1>1, <1>7 DEF Dial, ReadRequest, FinishAction, timers
<1>8. CASE ServerAck \/ ServerRequest \/ PeerDies
  BY <1>1, <1>8 DEF ServerAck, ServerRequest, PeerDies, timers
<1>9. CASE TickBurst
  BY <1>1, <1>9 DEF TickBurst, Rest
<1>10. CASE UNCHANGED vars
  BY <1>1, <1>10 DEF vars
<1>. QED
  BY <1>2, <1>3, <1>4, <1>5, <1>6, <1>7, <1>8, <1>9, <1>10 DEF Next

\* The verdict falls two whole intervals after the last sign of life at the
\* earliest, even when the interval catches up after a suspension and serves its
\* ticks in a burst, or a long action has held the loop.
THEOREM NeverKilledEarly == Spec => KillNotEarly
<1>1. BeatAfterLife /\ [Next]_vars => [TickKill => now - life >= 2 * Interval]_vars
  <2>1. ASSUME BeatAfterLife, TickKill PROVE now - life >= 2 * Interval
    <3>1. expected # NoBeat /\ now - expected >= Interval /\ misses + 1 >= 2
      BY <2>1 DEF TickKill
    <3>. QED
      BY <2>1, <3>1 DEF BeatAfterLife, Streak, NoBeat
  <2>. QED
    BY <2>1
<1>. QED
  BY InitBeat, StepBeat, <1>1, PTL DEF Spec, KillNotEarly

----------------------------------------------------------------------------
(* What the connection's variables hold. *)

\* The link: nothing is handled and nothing awaited off a connection.
Linked ==
  /\ phase \in {"down", "hello", "up", "stopped"}
  /\ backoff \in 1 .. MaxBackoff /\ wakeAt \in Nat
  /\ peer \in BOOLEAN /\ busy \in BOOLEAN
  /\ phase # "up" => ~busy /\ expected = NoBeat

\* The queues between the loop and the server.
Queued ==
  /\ inbox \in Seq({"ack", "req"}) /\ flight \in Seq(0 .. MaxTime)
  /\ pending \in 0 .. Outstanding

\* The clocks: none is stamped with a time to come, and the next tick is at most
\* an interval away.
Timed ==
  /\ now \in 0 .. MaxTime /\ since \in 0 .. now /\ deadAt \in 0 .. now /\ life \in 0 .. now
  /\ tickAt \in Nat /\ tickAt <= now + Interval
  /\ expected \in {NoBeat} \cup 0 .. now /\ misses \in 0 .. 1
  /\ expected = NoBeat => misses = 0

\* The server's count of actions is right: those it sent that the loop has not
\* read, d[i] of them after the first i frames, and the one being handled.
Handled == IF busy THEN 1 ELSE 0
IsRequest(frame) == IF frame = "req" THEN 1 ELSE 0
Counts(d, q) ==
  /\ d \in [0 .. Len(q) -> Nat] /\ d[Len(q)] = 0
  /\ \A i \in DOMAIN q : d[i - 1] = d[i] + IsRequest(q[i])
RequestsCounted == \E d : Counts(d, inbox) /\ pending = d[0] + Handled

Ends == DialFails \/ HelloRefused \/ TickKill \/ SocketError \/ CloseFrame \/ Stop

LEMMA QueueTail ==
  ASSUME NEW S, NEW q \in Seq(S), q # <<>>
  PROVE  /\ Tail(q) \in Seq(S) /\ Len(q) \in Nat \ {0} /\ Len(Tail(q)) = Len(q) - 1 /\ Head(q) = q[1] /\ q[1] \in S
         /\ \A i \in 1 .. Len(q) - 1 : Tail(q)[i] = q[i + 1]
<1>1. Len(q) \in Nat \ {0} /\ Head(q) = q[1] /\ q[1] \in S
  BY EmptySeq
<1>. QED BY <1>1, HeadTailProperties

LEMMA QueueAppend ==
  ASSUME NEW S, NEW q \in Seq(S), NEW e \in S
  PROVE  /\ Append(q, e) \in Seq(S) /\ Len(q) \in Nat /\ Len(Append(q, e)) = Len(q) + 1
         /\ Append(q, e)[Len(q) + 1] = e /\ \A i \in 1 .. Len(q) : Append(q, e)[i] = q[i]
BY AppendProperties

LEMMA EndsGone ==
  ASSUME Linked, now \in 0 .. MaxTime, Ends
  PROVE  /\ Gone /\ now' = now /\ phase' \in {"down", "stopped"}
         /\ backoff' \in 1 .. MaxBackoff /\ wakeAt' \in Nat
<1>1. backoff \in Nat /\ backoff >= 1 /\ now \in Nat /\ wakeAt \in Nat
  BY DEF Linked
<1>2. ASSUME NEW floor \in BOOLEAN, Drop(floor)
      PROVE  /\ Gone /\ now' = now /\ phase' = "down" /\ backoff' \in 1 .. MaxBackoff /\ wakeAt' \in Nat
  <2>. DEFINE b == IF floor THEN 1 ELSE backoff
  <2>1. b \in Nat /\ b >= 1
    BY <1>1
  <2>2. Gone /\ now' = now /\ phase' = "down" /\ backoff' = (IF 2 * b > MaxBackoff THEN MaxBackoff ELSE 2 * b)
        /\ \E jitter \in 0 .. 1 : wakeAt' = now + b + jitter
    BY <1>2 DEF Drop
  <2>. HIDE DEF b
  <2>3. backoff' \in 1 .. MaxBackoff
    BY <2>1, <2>2
  <2>4. wakeAt' \in Nat
    BY <1>1, <2>1, <2>2
  <2>. QED BY <2>2, <2>3, <2>4
<1>3. CASE Stop
  BY <1>3 DEF Stop, Linked
<1>4. CASE CloseFrame
  BY <1>2, <1>4 DEF CloseFrame
<1>5. CASE DialFails \/ HelloRefused \/ TickKill \/ SocketError
  <2>1. Drop(FALSE)
    BY <1>5 DEF DialFails, HelloRefused, TickKill, SocketError
  <2>. QED BY <1>2, <2>1
<1>. QED BY <1>3, <1>4, <1>5 DEF Ends

LEMMA TimedStep == Timed /\ Linked /\ [Next]_vars => Timed'
<1>. SUFFICES ASSUME Timed, Linked, [Next]_vars PROVE Timed'
  OBVIOUS
<1>1. CASE Ends
  <2>1. Gone /\ now' = now
    BY <1>1, EndsGone DEF Timed
  <2>. QED BY <2>1 DEF Gone, Timed, NoBeat
<1>2. CASE HelloAck
  BY <1>2 DEF HelloAck, Timed, NoBeat
<1>3. CASE ReadAck
  BY <1>3 DEF ReadAck, Timed, NoBeat
<1>4. CASE TickBeat \/ TickMiss
  <2>1. /\ tickAt' = tickAt + Interval /\ now >= tickAt /\ UNCHANGED <<now, since, life, deadAt>> /\ expected' = now
        /\ misses' \in 0 .. 1
    BY <1>4 DEF TickBeat, TickMiss, TickDue, NextTick, SendBeat, Rest, Timed
  <2>. QED BY <2>1 DEF Timed, NoBeat
<1>5. CASE TickBurst
  BY <1>5 DEF TickBurst, TickDue, NextTick, Rest, Timed, NoBeat
<1>6. CASE PeerDies
  BY <1>6 DEF PeerDies, timers, Timed
<1>7. CASE Clock
  BY <1>7 DEF Clock, timers, Timed
<1>8. CASE ReadRequest \/ FinishAction
  BY <1>8 DEF ReadRequest, FinishAction, timers, Timed
<1>9. CASE UNCHANGED <<now, since, deadAt, life, timers>>
  BY <1>9 DEF timers, Timed
<1>10. CASE Dial \/ ServerAck \/ ServerRequest \/ UNCHANGED vars
  BY <1>9, <1>10 DEF Dial, ServerAck, ServerRequest, timers, vars
<1>. QED
  BY <1>1, <1>2, <1>3, <1>4, <1>5, <1>6, <1>7, <1>8, <1>10 DEF Next, Ends

LEMMA LinkedStep == Timed /\ Linked /\ [Next]_vars => Linked'
<1>. SUFFICES ASSUME Timed, Linked, [Next]_vars PROVE Linked'
  OBVIOUS
<1>1. CASE Ends
  <2>1. /\ Gone /\ phase' \in {"down", "stopped"} /\ backoff' \in 1 .. MaxBackoff /\ wakeAt' \in Nat
    BY <1>1, EndsGone DEF Timed
  <2>. QED BY <2>1 DEF Gone, Linked
<1>2. CASE Dial
  BY <1>2 DEF Dial, timers, Linked
<1>3. CASE HelloAck
  BY <1>3 DEF HelloAck, Linked
<1>4. CASE ReadAck
  BY <1>4 DEF ReadAck, Idle, Linked
<1>5. CASE ReadRequest
  BY <1>5 DEF ReadRequest, Idle, timers, Linked
<1>6. CASE FinishAction
  BY <1>6 DEF FinishAction, timers, Linked
<1>7. CASE TickBeat \/ TickBurst \/ TickMiss
  <2>1. phase = "up" /\ Rest
    BY <1>7 DEF TickBeat, TickBurst, TickMiss, TickDue, Idle
  <2>. QED BY <2>1 DEF Rest, Linked
<1>8. CASE PeerDies
  BY <1>8 DEF PeerDies, timers, Linked
<1>9. CASE UNCHANGED <<phase, backoff, wakeAt, peer, busy, expected>>
  BY <1>9 DEF Linked
<1>10. CASE ServerAck \/ ServerRequest \/ Clock \/ UNCHANGED vars
  BY <1>9, <1>10 DEF ServerAck, ServerRequest, Clock, timers, vars
<1>. QED
  BY <1>1, <1>2, <1>3, <1>4, <1>5, <1>6, <1>7, <1>8, <1>10 DEF Next, Ends

LEMMA QueuedStep == Timed /\ Linked /\ Queued /\ RequestsCounted /\ [Next]_vars => Queued'
<1>. SUFFICES ASSUME Timed, Linked, Queued, RequestsCounted, [Next]_vars PROVE Queued'
  OBVIOUS
<1>1. CASE Ends
  <2>1. Gone
    BY <1>1, EndsGone DEF Timed
  <2>2. <<>> \in Seq({"ack", "req"}) /\ <<>> \in Seq(0 .. MaxTime)
    OBVIOUS
  <2>. QED BY <2>1, <2>2 DEF Gone, Queued
<1>2. CASE ReadAck \/ ReadRequest
  <2>1. inbox # <<>> /\ inbox' = Tail(inbox) /\ UNCHANGED <<flight, pending>>
    BY <1>2 DEF ReadAck, ReadRequest
  <2>2. inbox' \in Seq({"ack", "req"})
    BY <2>1, QueueTail DEF Queued
  <2>. QED BY <2>1, <2>2 DEF Queued
<1>3. CASE FinishAction
  <2>1. busy /\ pending \in 0 .. Outstanding /\ pending' = pending - 1 /\ UNCHANGED <<inbox, flight>>
    BY <1>3 DEF FinishAction, Queued
  <2>2. PICK d \in [0 .. Len(inbox) -> Nat] : pending = d[0] + Handled
    BY DEF RequestsCounted, Counts
  <2>3. Len(inbox) \in Nat
    BY DEF Queued
  <2>4. d[0] \in Nat
    BY <2>2, <2>3
  <2>5. pending - 1 \in 0 .. Outstanding
    BY <2>1, <2>2, <2>4 DEF Handled
  <2>. QED BY <2>1, <2>5 DEF Queued
<1>4. CASE TickBeat \/ TickBurst \/ TickMiss
  <2>1. UNCHANGED <<inbox, pending>> /\ (flight' = flight \/ flight' = Append(flight, now))
    BY <1>4 DEF TickBeat, TickBurst, TickMiss, SendBeat, Rest
  <2>2. flight' \in Seq(0 .. MaxTime)
    <3>1. CASE flight' = Append(flight, now)
      BY <3>1, QueueAppend DEF Queued, Timed
    <3>. QED BY <2>1, <3>1 DEF Queued
  <2>. QED BY <2>1, <2>2 DEF Queued
<1>5. CASE ServerAck
  <2>1. flight # <<>> /\ flight' = Tail(flight) /\ inbox' = Append(inbox, "ack") /\ UNCHANGED pending
    BY <1>5 DEF ServerAck
  <2>2. flight' \in Seq(0 .. MaxTime)
    BY <2>1, QueueTail DEF Queued
  <2>3. inbox' \in Seq({"ack", "req"})
    BY <2>1, QueueAppend DEF Queued
  <2>. QED BY <2>1, <2>2, <2>3 DEF Queued
<1>6. CASE ServerRequest
  <2>1. inbox' \in Seq({"ack", "req"})
    BY <1>6, QueueAppend DEF ServerRequest, Queued
  <2>. QED BY <1>6, <2>1 DEF ServerRequest, Queued
<1>7. CASE PeerDies
  <2>1. <<>> \in Seq(0 .. MaxTime)
    OBVIOUS
  <2>. QED BY <1>7, <2>1 DEF PeerDies, Queued
<1>8. CASE UNCHANGED wire
  BY <1>8 DEF wire, Queued
<1>9. CASE Dial \/ HelloAck \/ Clock \/ UNCHANGED vars
  BY <1>8, <1>9 DEF Dial, HelloAck, Clock, wire, vars
<1>. QED
  BY <1>1, <1>2, <1>3, <1>4, <1>5, <1>6, <1>7, <1>9 DEF Next, Ends

\* How the count follows a queue that gains or loses a frame at either end.
LEMMA CountsTail ==
  ASSUME NEW q \in Seq({"ack", "req"}), q # <<>>, NEW d, Counts(d, q)
  PROVE  /\ d[0] \in Nat /\ d[0] - IsRequest(Head(q)) \in Nat
         /\ \E e : Counts(e, Tail(q)) /\ e[0] = d[0] - IsRequest(Head(q))
<1>. DEFINE e == [i \in 0 .. Len(Tail(q)) |-> d[i + 1]]
<1>1. /\ Len(q) \in Nat \ {0} /\ Len(Tail(q)) = Len(q) - 1 /\ Head(q) = q[1] /\ Tail(q) \in Seq({"ack", "req"})
      /\ \A i \in 1 .. Len(q) - 1 : Tail(q)[i] = q[i + 1]
  BY QueueTail
<1>2. d[0] = d[1] + IsRequest(q[1]) /\ d[0] \in Nat /\ d[1] \in Nat /\ IsRequest(q[1]) \in 0 .. 1
  <2>1. 1 \in DOMAIN q /\ 0 \in 0 .. Len(q) /\ 1 \in 0 .. Len(q) /\ 1 - 1 = 0
    BY <1>1
  <2>. QED BY <2>1 DEF Counts, IsRequest
<1>3. e \in [0 .. Len(Tail(q)) -> Nat]
  <2>1. ASSUME NEW i \in 0 .. Len(Tail(q)) PROVE d[i + 1] \in Nat
    <3>1. i + 1 \in 0 .. Len(q)
      BY <1>1
    <3>. QED BY <3>1 DEF Counts
  <2>. QED BY <2>1
<1>4. e[Len(Tail(q))] = 0
  <2>1. Len(Tail(q)) \in 0 .. Len(Tail(q)) /\ Len(Tail(q)) + 1 = Len(q)
    BY <1>1
  <2>. QED BY <2>1 DEF Counts
<1>5. ASSUME NEW i \in DOMAIN Tail(q) PROVE e[i - 1] = e[i] + IsRequest(Tail(q)[i])
  <2>1. /\ i \in 1 .. Len(q) - 1 /\ i - 1 \in 0 .. Len(Tail(q)) /\ i \in 0 .. Len(Tail(q))
        /\ i + 1 \in DOMAIN q /\ (i - 1) + 1 = i /\ (i + 1) - 1 = i
    BY <1>1
  <2>2. d[(i + 1) - 1] = d[i + 1] + IsRequest(q[i + 1])
    BY <2>1 DEF Counts
  <2>3. e[i - 1] = d[(i - 1) + 1] /\ e[i] = d[i + 1] /\ Tail(q)[i] = q[i + 1]
    BY <1>1, <2>1
  <2>. QED BY <2>1, <2>2, <2>3
<1>6. e[0] = d[1]
  <2>1. 0 \in 0 .. Len(Tail(q)) /\ 0 + 1 = 1
    BY <1>1
  <2>. QED BY <2>1
<1>. HIDE DEF e
<1>7. Counts(e, Tail(q))
  BY <1>3, <1>4, <1>5 DEF Counts
<1>8. e[0] = d[0] - IsRequest(Head(q)) /\ d[0] - IsRequest(Head(q)) \in Nat
  BY <1>1, <1>2, <1>6
<1>. QED BY <1>2, <1>7, <1>8

LEMMA CountsAppend ==
  ASSUME NEW q \in Seq({"ack", "req"}), NEW frame \in {"ack", "req"}, NEW d, Counts(d, q)
  PROVE  \E e : Counts(e, Append(q, frame)) /\ e[0] = d[0] + IsRequest(frame)
<1>. DEFINE a == Append(q, frame)
            e == [i \in 0 .. Len(a) |-> IF i = Len(a) THEN 0 ELSE d[i] + IsRequest(frame)]
<1>1. /\ a \in Seq({"ack", "req"}) /\ Len(q) \in Nat /\ Len(a) = Len(q) + 1
      /\ a[Len(q) + 1] = frame /\ \A i \in 1 .. Len(q) : a[i] = q[i]
  BY QueueAppend
<1>. HIDE DEF a
<1>2. ASSUME NEW i \in 0 .. Len(q) PROVE d[i] \in Nat /\ IsRequest(frame) \in 0 .. 1 /\ d[i] + IsRequest(frame) \in Nat
  <2>1. d[i] \in Nat /\ IsRequest(frame) \in 0 .. 1
    BY DEF Counts, IsRequest
  <2>. QED BY <2>1
<1>3. ASSUME NEW i \in 0 .. Len(q) PROVE e[i] = d[i] + IsRequest(frame)
  <2>1. i \in 0 .. Len(a) /\ i # Len(a)
    BY <1>1
  <2>. QED BY <2>1
<1>4. e[Len(a)] = 0
  <2>1. Len(a) \in 0 .. Len(a)
    BY <1>1
  <2>. QED BY <2>1
<1>5. e \in [0 .. Len(a) -> Nat]
  <2>1. ASSUME NEW i \in 0 .. Len(a), i # Len(a) PROVE i \in 0 .. Len(q)
    BY <1>1, <2>1
  <2>. QED BY <1>2, <2>1
<1>. HIDE DEF e
<1>6. ASSUME NEW i \in DOMAIN a PROVE e[i - 1] = e[i] + IsRequest(a[i])
  <2>1. DOMAIN a = 1 .. Len(q) + 1 /\ DOMAIN q = 1 .. Len(q)
    BY <1>1
  <2>2. CASE i = Len(q) + 1
    <3>1. Len(q) \in 0 .. Len(q) /\ i - 1 = Len(q)
      BY <1>1, <2>2
    <3>2. e[i - 1] = d[Len(q)] + IsRequest(frame)
      BY <1>3, <3>1
    <3>. QED BY <1>1, <1>4, <2>2, <3>2 DEF Counts
  <2>3. CASE i # Len(q) + 1
    <3>1. i \in 1 .. Len(q) /\ i - 1 \in 0 .. Len(q) /\ i \in 0 .. Len(q)
      BY <1>1, <2>1, <2>3
    <3>2. d[i - 1] = d[i] + IsRequest(q[i]) /\ a[i] = q[i]
      BY <1>1, <2>1, <3>1 DEF Counts
    <3>3. e[i - 1] = d[i - 1] + IsRequest(frame) /\ e[i] = d[i] + IsRequest(frame)
      BY <1>3, <3>1
    <3>4. d[i] \in Nat /\ IsRequest(frame) \in 0 .. 1 /\ IsRequest(q[i]) \in 0 .. 1
      BY <1>2, <3>1 DEF IsRequest
    <3>. QED BY <3>2, <3>3, <3>4
  <2>. QED BY <2>2, <2>3
<1>7. Counts(e, a)
  BY <1>4, <1>5, <1>6 DEF Counts
<1>8. e[0] = d[0] + IsRequest(frame)
  BY <1>1, <1>3
<1>. QED BY <1>7, <1>8 DEF a

LEMMA NoneCounted == ASSUME NEW q, q = <<>> PROVE \E d : Counts(d, q) /\ d[0] = 0
<1>. DEFINE d == [i \in 0 .. 0 |-> 0]
<1>1. Counts(d, <<>>)
  BY DEF Counts
<1>. QED BY <1>1

LEMMA CountStep == Queued /\ Linked /\ Timed /\ RequestsCounted /\ [Next]_vars => RequestsCounted'
<1>. SUFFICES ASSUME Queued, Linked, Timed, RequestsCounted, [Next]_vars PROVE RequestsCounted'
  OBVIOUS
<1>1. ASSUME NEW e, Counts(e, inbox'), pending' = e[0] + Handled' PROVE RequestsCounted'
  BY <1>1 DEF RequestsCounted, Counts
<1>2. PICK d : Counts(d, inbox) /\ pending = d[0] + Handled
  BY DEF RequestsCounted
<1>3. inbox \in Seq({"ack", "req"}) /\ Len(inbox) \in Nat /\ busy \in BOOLEAN
  BY DEF Queued, Linked
<1>4. d[0] \in Nat
  BY <1>2, <1>3 DEF Counts
<1>5. CASE Ends
  <2>1. inbox' = <<>> /\ pending' = 0 /\ busy' = FALSE
    BY <1>5, EndsGone DEF Gone, Timed
  <2>2. PICK e : Counts(e, inbox') /\ e[0] = 0
    BY <2>1, NoneCounted
  <2>. QED BY <1>1, <2>1, <2>2 DEF Handled
<1>6. CASE ReadAck \/ ReadRequest
  <2>1. /\ inbox # <<>> /\ inbox' = Tail(inbox) /\ pending' = pending
        /\ Handled' = Handled + IsRequest(Head(inbox)) /\ Handled = 0 /\ IsRequest(Head(inbox)) \in 0 .. 1
    BY <1>6 DEF ReadAck, ReadRequest, Idle, Handled, IsRequest
  <2>2. PICK e : Counts(e, Tail(inbox)) /\ e[0] = d[0] - IsRequest(Head(inbox))
    BY <1>2, <1>3, <2>1, CountsTail
  <2>3. pending' = e[0] + Handled'
    BY <1>2, <1>4, <2>1, <2>2
  <2>. QED BY <1>1, <2>1, <2>2, <2>3
<1>7. CASE FinishAction
  <2>1. inbox' = inbox /\ pending' = pending - 1 /\ Handled = 1 /\ Handled' = 0
    BY <1>7 DEF FinishAction, Handled
  <2>. QED BY <1>1, <1>2, <1>4, <2>1
<1>8. CASE ServerAck \/ ServerRequest
  <2>1. PICK frame \in {"ack", "req"} :
          /\ inbox' = Append(inbox, frame) /\ pending' = pending + IsRequest(frame) /\ IsRequest(frame) \in 0 .. 1
    <3>1. pending \in Nat
      BY DEF Queued
    <3>2. CASE ServerAck
      BY <3>1, <3>2 DEF ServerAck, IsRequest
    <3>3. CASE ServerRequest
      BY <3>1, <3>3 DEF ServerRequest, IsRequest
    <3>. QED BY <1>8, <3>2, <3>3
  <2>2. PICK e : Counts(e, Append(inbox, frame)) /\ e[0] = d[0] + IsRequest(frame)
    BY <1>2, <1>3, CountsAppend
  <2>3. Handled' = Handled /\ Handled \in 0 .. 1
    BY <1>8 DEF ServerAck, ServerRequest, Handled
  <2>4. pending' = e[0] + Handled'
    BY <1>2, <1>4, <2>1, <2>2, <2>3
  <2>. QED BY <1>1, <2>1, <2>2, <2>4
<1>9. CASE UNCHANGED <<inbox, pending, busy>>
  BY <1>1, <1>2, <1>9 DEF Handled
<1>10. CASE \/ Dial \/ HelloAck \/ TickBeat \/ TickBurst \/ TickMiss \/ PeerDies \/ Clock \/ UNCHANGED vars
  BY <1>9, <1>10 DEF Dial, HelloAck, TickBeat, TickBurst, TickMiss, Rest, PeerDies, Clock, wire, vars
<1>. QED
  BY <1>5, <1>6, <1>7, <1>8, <1>10 DEF Next, Ends

LEMMA InitWatchdog == Init => Timed /\ Linked /\ Queued /\ RequestsCounted
<1>. SUFFICES ASSUME Init PROVE Timed /\ Linked /\ Queued /\ RequestsCounted
  OBVIOUS
<1>1. <<>> \in Seq({"ack", "req"}) /\ <<>> \in Seq(0 .. MaxTime)
  OBVIOUS
<1>2. Queued
  BY <1>1 DEF Init, Queued
<1>3. RequestsCounted
  BY NoneCounted DEF Init, RequestsCounted, Handled
<1>4. Timed
  BY DEF Init, Timed, NoBeat
<1>5. Linked
  <2>1. 1 \in 1 .. MaxBackoff
    OBVIOUS
  <2>. QED BY <2>1 DEF Init, Linked
<1>. QED BY <1>2, <1>3, <1>4, <1>5

LEMMA WatchdogTyped == Spec => [](Timed /\ Linked /\ Queued /\ RequestsCounted)
BY InitWatchdog, TimedStep, LinkedStep, QueuedStep, CountStep, PTL DEF Spec

\* Type correctness, at bottom the server's count of the actions it has in
\* flight: it never goes below zero, since an answer is given once per request.
THEOREM WatchdogTypesHold == Spec => []TypeOK
<1>1. Timed /\ Linked /\ Queued => TypeOK
  <2>. SUFFICES ASSUME Timed, Linked, Queued PROVE TypeOK
    OBVIOUS
  <2>1. /\ now \in 0 .. MaxTime /\ since \in 0 .. MaxTime /\ deadAt \in 0 .. MaxTime /\ life \in 0 .. MaxTime
        /\ tickAt \in Nat /\ expected \in {NoBeat} \cup 0 .. MaxTime /\ misses \in 0 .. 1
    BY DEF Timed
  <2>. QED BY <2>1 DEF Linked, Queued, TypeOK
<1>. QED BY <1>1, WatchdogTyped, PTL

\* How far the clock may run past the moment an idle loop was left with a dead
\* peer: two intervals more for a beat that was counted as a miss, and one for a
\* tick that found the beat too young to judge.
Dead == Larger(deadAt, since)
Allowed == IF misses = 1 THEN 4 * Interval ELSE 2 * Interval
Noticed(dead) ==
  /\ inbox # <<>> => now = dead
  /\ now <= Larger(dead, tickAt + Lag)
  /\ expected = NoBeat => tickAt <= dead + Interval
  /\ expected # NoBeat =>
       /\ expected <= Larger(dead, tickAt)
       /\ \/ tickAt <= dead + Allowed
          \/ tickAt <= dead + Allowed + Interval /\ expected + Interval <= tickAt
Noticing == Idle /\ ~peer => Noticed(Dead)

LEMMA NoticingStep ==
  ASSUME Lag <= Interval
  PROVE  Timed /\ Linked /\ Noticing /\ [Next]_vars => Noticing'
<1>. SUFFICES ASSUME Timed, Linked, Noticing, [Next]_vars, Idle', ~peer' PROVE Noticed(Dead)'
  BY DEF Noticing
<1>1. /\ now \in Nat /\ since \in 0 .. now /\ deadAt \in 0 .. now /\ tickAt \in Nat /\ tickAt <= now + Interval
      /\ expected \in {NoBeat} \cup 0 .. now /\ misses \in {0, 1} /\ (expected = NoBeat => misses = 0)
      /\ Interval \in Nat \ {0} /\ Lag \in Nat
  BY DEF Timed
<1>2. Dead \in 0 .. now /\ now \in 0 .. now
  BY <1>1 DEF Dead, Larger
<1>3. ASSUME NEW dead \in {now}, UNCHANGED <<now, tickAt, expected, misses>>, Dead' = dead PROVE Noticed(Dead)'
  BY <1>1, <1>3 DEF Noticed, Larger, Allowed, NoBeat
<1>4. ASSUME Idle, ~peer, Dead' = Dead, tickAt' = tickAt + Interval, UNCHANGED <<inbox, now>>, now >= tickAt
      PROVE  /\ Noticed(Dead) /\ Dead \in Nat /\ (inbox' # <<>> => now' = Dead)
             /\ now' <= Larger(Dead, tickAt' + Lag) /\ now' <= Larger(Dead, tickAt')
  <2>1. Noticed(Dead) /\ Dead \in Nat
    BY <1>2, <1>4 DEF Noticing
  <2>. QED BY <1>1, <1>4, <2>1 DEF Noticed, Larger
<1>5. CASE Ends \/ Dial
  BY <1>5, EndsGone DEF Dial, Idle, Timed
<1>6. CASE HelloAck \/ ServerAck \/ ServerRequest
  BY <1>6 DEF HelloAck, ServerAck, ServerRequest
<1>7. CASE ReadAck
  <2>1. Noticed(Dead) /\ inbox # <<>> /\ Dead' = Dead /\ UNCHANGED <<now, tickAt>> /\ expected' = NoBeat
    BY <1>7 DEF ReadAck, Idle, Noticing, Dead
  <2>2. now = Dead
    BY <2>1 DEF Noticed
  <2>. QED BY <1>1, <2>1, <2>2 DEF Noticed, Larger, NoBeat
<1>8. CASE ReadRequest
  BY <1>8 DEF ReadRequest, Idle
<1>9. CASE FinishAction
  <2>1. UNCHANGED <<now, tickAt, expected, misses>> /\ since' = now /\ deadAt' = deadAt
    BY <1>9 DEF FinishAction, timers
  <2>2. Dead' = now
    BY <1>1, <2>1 DEF Dead, Larger
  <2>. QED BY <1>3, <2>1, <2>2
<1>10. CASE PeerDies
  <2>1. UNCHANGED <<now, tickAt, expected, misses>> /\ deadAt' = now /\ since' = since
    BY <1>10 DEF PeerDies, timers
  <2>2. Dead' = now
    BY <1>1, <2>1 DEF Dead, Larger
  <2>. QED BY <1>3, <2>1, <2>2
<1>11. ASSUME TickDue, NextTick, Rest
       PROVE  Idle /\ ~peer /\ Dead' = Dead /\ tickAt' = tickAt + Interval /\ UNCHANGED <<inbox, now>> /\ now >= tickAt
  BY <1>11 DEF TickDue, NextTick, Rest, Dead
<1>12. CASE TickBeat
  <2>1. TickDue /\ NextTick /\ Rest /\ expected = NoBeat /\ expected' = now /\ misses' = misses
    BY <1>12 DEF TickBeat, SendBeat
  <2>2. tickAt' <= Dead + 2 * Interval
    BY <1>1, <1>2, <1>4, <1>11, <2>1 DEF Noticed
  <2>3. expected' # NoBeat /\ misses' = 0
    BY <1>1, <2>1 DEF NoBeat
  <2>4. tickAt' <= Dead + Allowed'
    BY <2>2, <2>3 DEF Allowed
  <2>. QED BY <1>4, <1>11, <2>1, <2>3, <2>4 DEF Noticed
<1>13. CASE TickMiss
  <2>1. TickDue /\ NextTick /\ Rest /\ expected # NoBeat /\ expected' = now /\ misses = 0 /\ misses' = 1
    BY <1>1, <1>13 DEF TickMiss, SendBeat
  <2>2. tickAt <= Dead + 3 * Interval
    BY <1>1, <1>2, <1>4, <1>11, <2>1 DEF Noticed, Allowed
  <2>3. tickAt' <= Dead + Allowed' /\ expected' # NoBeat
    BY <1>1, <1>2, <1>11, <2>1, <2>2 DEF Allowed, NoBeat
  <2>. QED BY <1>4, <1>11, <2>1, <2>3 DEF Noticed
<1>14. CASE TickBurst
  <2>1. TickDue /\ NextTick /\ Rest /\ expected # NoBeat /\ now - expected < Interval /\ UNCHANGED <<expected, misses>>
    BY <1>14 DEF TickBurst
  <2>2. Noticed(Dead) /\ Dead \in Nat /\ tickAt' = tickAt + Interval /\ now >= tickAt
    BY <1>4, <1>11, <2>1
  <2>3. /\ expected \in Nat /\ Allowed \in Nat /\ Allowed >= Interval /\ Allowed' = Allowed
        /\ expected <= Larger(Dead, tickAt)
        /\ \/ tickAt <= Dead + Allowed
           \/ tickAt <= Dead + Allowed + Interval /\ expected + Interval <= tickAt
    BY <1>1, <2>1, <2>2 DEF Noticed, Allowed, NoBeat
  <2>4. tickAt <= Dead + Allowed
    BY <1>1, <2>1, <2>2, <2>3
  <2>5. expected' <= Larger(Dead, tickAt')
    BY <1>1, <2>1, <2>2, <2>3 DEF Larger
  <2>6. \/ tickAt' <= Dead + Allowed'
        \/ tickAt' <= Dead + Allowed' + Interval /\ expected' + Interval <= tickAt'
    BY <1>1, <2>1, <2>2, <2>3, <2>4 DEF Larger
  <2>. QED BY <1>4, <1>11, <2>1, <2>5, <2>6 DEF Noticed
<1>15. CASE Clock
  <2>1. /\ Idle /\ ~peer /\ inbox = <<>> /\ now < tickAt + Lag /\ now' = now + 1 /\ Dead' = Dead
        /\ UNCHANGED <<inbox, tickAt, expected, misses>>
    BY <1>15 DEF Clock, Idle, timers, wire, Dead
  <2>2. Noticed(Dead)
    BY <2>1 DEF Noticing
  <2>3. now' <= Larger(Dead, tickAt' + Lag)
    BY <1>1, <1>2, <2>1 DEF Larger
  <2>. QED BY <2>1, <2>2, <2>3 DEF Noticed, Allowed
<1>16. CASE UNCHANGED vars
  <2>1. Noticed(Dead)
    BY <1>16 DEF vars, Idle, Noticing
  <2>. QED BY <1>16, <2>1 DEF vars, timers, wire, Noticed, Dead, Allowed
<1>. QED
  BY <1>5, <1>6, <1>7, <1>8, <1>9, <1>10, <1>12, <1>13, <1>14, <1>15, <1>16 DEF Next, Ends

\* A half-dead connection is noticed in time, whatever the back-off cap, the
\* latency of the server and the length of an action, if an idle loop serves its
\* ticks within an interval: zombie_decision tolerates one aged miss, and a tick
\* that comes too early for a verdict costs one interval, not the verdict.
THEOREM ZombieNoticed == ASSUME Lag <= Interval PROVE Spec => []DetectedInTime
<1>1. Init => Noticing
  BY DEF Init, Idle, Noticing
<1>2. Spec => []Noticing
  BY <1>1, WatchdogTyped, NoticingStep, PTL DEF Spec
<1>3. Timed /\ Noticing => DetectedInTime
  <2>. SUFFICES ASSUME Timed, Noticing, Idle, ~peer PROVE now <= Dead + Detection
    BY DEF DetectedInTime, Dead
  <2>1. /\ Noticed(Dead) /\ now \in Nat /\ Dead \in Nat /\ tickAt \in Nat /\ Interval \in Nat /\ Lag \in Nat
        /\ expected \in Int /\ misses \in {0, 1}
    BY DEF Noticing, Timed, Dead, Larger, NoBeat
  <2>2. tickAt <= Dead + 5 * Interval
    BY <2>1 DEF Noticed, Allowed
  <2>3. now <= Larger(Dead, tickAt + Lag)
    BY <2>1 DEF Noticed
  <2>. QED BY <2>1, <2>2, <2>3 DEF Larger, Detection
<1>. QED BY <1>2, <1>3, WatchdogTyped, PTL

\* The beats a live server has not acked are in the order they were sent, and
\* none is older than the latency it is assumed to have.
Flown ==
  /\ \A i \in DOMAIN flight : flight[i] <= now /\ now <= flight[i] + AckDelay
  /\ \A i, j \in DOMAIN flight : i <= j => flight[i] <= flight[j]

\* One action at a time: no request is in the inbox behind the one being handled
\* or behind another.
NoneQueued == \A i \in DOMAIN inbox : inbox[i] # "req"
OneRequest ==
  /\ busy => pending = 1 /\ NoneQueued
  /\ \A i \in DOMAIN inbox : inbox[i] = "req" => pending = 1
  /\ \A i, j \in DOMAIN inbox : inbox[i] = "req" /\ inbox[j] = "req" => i = j

\* The outstanding beat of a live connection is still in flight, or some ack
\* awaits reading; once the latency is over the ack is the very next frame an
\* idle loop reads, so a first miss is judged with the ack already there.
AckFirst == inbox # <<>> /\ Head(inbox) = "ack"
BeatFlies == \E i \in DOMAIN flight : flight[i] = expected
AckWaits == \E i \in DOMAIN inbox : inbox[i] = "ack"
Answered ==
  peer /\ expected # NoBeat =>
    /\ BeatFlies \/ AckWaits
    /\ Idle /\ now > expected + AckDelay => AckFirst
    /\ misses = 1 => Idle /\ now = expected /\ AckFirst

LEMMA Between ==
  ASSUME NEW a \in Nat, NEW b \in Nat, NEW t \in Nat, NEW k \in Nat, a <= b, b <= t, t < a + k
  PROVE  b <= t + 1 /\ t + 1 <= b + k
OBVIOUS

LEMMA FlownStep == Flown /\ Timed /\ Linked /\ Queued /\ [Next]_vars => Flown'
<1>. SUFFICES ASSUME Flown, Timed, Linked, Queued, [Next]_vars PROVE Flown'
  OBVIOUS
<1>1. now \in Nat /\ AckDelay \in Nat /\ flight \in Seq(0 .. MaxTime) /\ Len(flight) \in Nat /\ DOMAIN flight = 1 .. Len(flight)
  BY DEF Timed, Queued
<1>2. CASE flight' = <<>>
  BY <1>2 DEF Flown
<1>3. CASE UNCHANGED <<flight, now>>
  BY <1>3 DEF Flown
<1>4. CASE flight' = Append(flight, now) /\ now' = now /\ now \in 0 .. MaxTime
  <2>1. /\ flight' \in Seq(0 .. MaxTime) /\ Len(flight') = Len(flight) + 1 /\ DOMAIN flight' = 1 .. Len(flight')
        /\ flight'[Len(flight) + 1] = now /\ \A i \in 1 .. Len(flight) : flight'[i] = flight[i]
    BY <1>1, <1>4, QueueAppend
  <2>2. ASSUME NEW i \in DOMAIN flight' PROVE flight'[i] \in Nat /\ flight'[i] <= now /\ now <= flight'[i] + AckDelay
    <3>1. CASE i \in DOMAIN flight
      <4>1. flight[i] \in Nat /\ flight'[i] = flight[i]
        BY <1>1, <2>1, <3>1
      <4>. QED BY <3>1, <4>1 DEF Flown
    <3>2. CASE i = Len(flight) + 1
      BY <1>1, <2>1, <3>2
    <3>. QED BY <1>1, <2>1, <3>1, <3>2
  <2>3. ASSUME NEW i \in DOMAIN flight', NEW j \in DOMAIN flight', i <= j PROVE flight'[i] <= flight'[j]
    <3>1. CASE j = Len(flight) + 1
      BY <2>1, <2>2, <3>1
    <3>2. CASE j # Len(flight) + 1
      <4>1. i \in DOMAIN flight /\ j \in DOMAIN flight
        BY <1>1, <2>1, <2>3, <3>2
      <4>. QED BY <1>1, <2>1, <2>3, <4>1 DEF Flown
    <3>. QED BY <3>1, <3>2
  <2>. QED BY <1>4, <2>2, <2>3 DEF Flown
<1>5. CASE ServerAck
  <2>1. /\ now' = now /\ Len(flight) \in Nat \ {0} /\ DOMAIN flight' = 1 .. Len(flight) - 1
        /\ \A i \in 1 .. Len(flight) - 1 : flight'[i] = flight[i + 1]
    BY <1>1, <1>5, QueueTail DEF ServerAck
  <2>2. ASSUME NEW i \in DOMAIN flight' PROVE i + 1 \in DOMAIN flight /\ flight'[i] = flight[i + 1]
    BY <1>1, <2>1
  <2>3. ASSUME NEW i \in DOMAIN flight', NEW j \in DOMAIN flight', i <= j PROVE flight'[i] <= flight'[j]
    <3>1. i + 1 <= j + 1
      BY <2>1, <2>3
    <3>. QED BY <2>2, <3>1 DEF Flown
  <2>. QED BY <2>1, <2>2, <2>3 DEF Flown
<1>6. CASE Clock
  <2>1. /\ now' = now + 1 /\ flight' = flight /\ (flight # <<>> => now < Head(flight) + AckDelay)
    BY <1>6 DEF Clock, wire
  <2>2. ASSUME NEW i \in DOMAIN flight
        PROVE  flight[i] <= now + 1 /\ now + 1 <= flight[i] + AckDelay
    <3>1. flight # <<>> /\ 1 \in DOMAIN flight /\ 1 <= i
      BY <1>1
    <3>2. Head(flight) = flight[1] /\ flight[1] \in Nat /\ flight[i] \in Nat
      BY <1>1, <3>1, QueueTail
    <3>3. flight[1] <= flight[i] /\ flight[i] <= now
      BY <3>1 DEF Flown
    <3>4. now < flight[1] + AckDelay
      BY <2>1, <3>1, <3>2
    <3>. QED BY <1>1, <3>2, <3>3, <3>4, Between
  <2>. QED BY <2>1, <2>2 DEF Flown
<1>7. CASE Ends \/ PeerDies
  BY <1>2, <1>7, EndsGone DEF PeerDies, Gone, Timed
<1>8. CASE TickBeat \/ TickMiss \/ TickBurst
  BY <1>3, <1>4, <1>8 DEF TickBeat, TickMiss, TickBurst, SendBeat, Rest, Timed
<1>9. CASE Dial \/ HelloAck \/ ReadAck \/ ReadRequest \/ FinishAction \/ ServerRequest \/ UNCHANGED vars
  BY <1>3, <1>9 DEF Dial, HelloAck, ReadAck, ReadRequest, FinishAction, ServerRequest, wire, vars
<1>. QED
  BY <1>5, <1>6, <1>7, <1>8, <1>9 DEF Next, Ends

LEMMA InboxTail ==
  ASSUME Queued, inbox # <<>>, inbox' = Tail(inbox)
  PROVE  /\ Head(inbox) = inbox[1] /\ 1 \in DOMAIN inbox
         /\ \A i \in DOMAIN inbox' : i + 1 \in DOMAIN inbox /\ i + 1 # 1 /\ inbox'[i] = inbox[i + 1]
         /\ \A i, j \in DOMAIN inbox' : i + 1 = j + 1 => i = j
         /\ \A i \in DOMAIN inbox : i # 1 => i - 1 \in DOMAIN inbox' /\ inbox'[i - 1] = inbox[i]
<1>1. /\ inbox \in Seq({"ack", "req"}) /\ Len(inbox) \in Nat \ {0} /\ Head(inbox) = inbox[1]
      /\ inbox' \in Seq({"ack", "req"}) /\ Len(inbox') = Len(inbox) - 1
      /\ \A i \in 1 .. Len(inbox) - 1 : inbox'[i] = inbox[i + 1]
  BY QueueTail DEF Queued
<1>2. DOMAIN inbox = 1 .. Len(inbox) /\ DOMAIN inbox' = 1 .. Len(inbox) - 1
  BY <1>1
<1>3. ASSUME NEW i \in DOMAIN inbox, i # 1 PROVE i - 1 \in 1 .. Len(inbox) - 1 /\ (i - 1) + 1 = i
  BY <1>1, <1>2, <1>3
<1>4. ASSUME NEW i \in DOMAIN inbox' PROVE i + 1 \in DOMAIN inbox /\ i + 1 # 1 /\ i \in Int
  BY <1>1, <1>2
<1>5. ASSUME NEW i \in DOMAIN inbox, i # 1 PROVE i - 1 \in DOMAIN inbox' /\ inbox'[i - 1] = inbox[i]
  BY <1>1, <1>2, <1>3, <1>5
<1>6. 1 \in DOMAIN inbox
  BY <1>1, <1>2
<1>. QED BY <1>1, <1>2, <1>4, <1>5, <1>6

LEMMA InboxAppend ==
  ASSUME Queued, NEW frame \in {"ack", "req"}, inbox' = Append(inbox, frame)
  PROVE  /\ \A i \in DOMAIN inbox : i \in DOMAIN inbox' /\ inbox'[i] = inbox[i]
         /\ \E last \in DOMAIN inbox' : inbox'[last] = frame /\ \A i \in DOMAIN inbox' : i \in DOMAIN inbox \/ i = last
         /\ inbox # <<>> => inbox' # <<>> /\ Head(inbox') = Head(inbox)
<1>1. /\ inbox \in Seq({"ack", "req"}) /\ Len(inbox) \in Nat
      /\ inbox' \in Seq({"ack", "req"}) /\ Len(inbox') = Len(inbox) + 1 /\ inbox'[Len(inbox) + 1] = frame
      /\ \A i \in 1 .. Len(inbox) : inbox'[i] = inbox[i]
  BY QueueAppend DEF Queued
<1>2. DOMAIN inbox = 1 .. Len(inbox) /\ DOMAIN inbox' = 1 .. Len(inbox) + 1
  BY <1>1
<1>3. ASSUME inbox # <<>> PROVE inbox' # <<>> /\ Head(inbox') = Head(inbox)
  <2>1. Len(inbox) \in Nat \ {0} /\ Head(inbox) = inbox[1] /\ inbox' # <<>>
    BY <1>1, <1>3, QueueTail
  <2>2. Head(inbox') = inbox'[1]
    BY <1>1, <2>1, QueueTail
  <2>. QED BY <1>1, <2>1, <2>2
<1>4. \A i \in DOMAIN inbox : i \in DOMAIN inbox'
  BY <1>1, <1>2
<1>5. Len(inbox) + 1 \in DOMAIN inbox' /\ \A i \in DOMAIN inbox' : i \in DOMAIN inbox \/ i = Len(inbox) + 1
  BY <1>1, <1>2
<1>. QED BY <1>1, <1>2, <1>3, <1>4, <1>5

LEMMA OneRequestStep ==
  ASSUME Outstanding <= 1
  PROVE  OneRequest /\ Timed /\ Linked /\ Queued /\ [Next]_vars => OneRequest'
<1>. SUFFICES ASSUME OneRequest, Timed, Linked, Queued, [Next]_vars PROVE OneRequest'
  OBVIOUS
<1>1. pending \in 0 .. 1 /\ busy \in BOOLEAN /\ Outstanding \in Nat
  BY DEF Queued, Linked
<1>2. CASE Ends
  <2>1. inbox' = <<>> /\ busy' = FALSE
    BY <1>2, EndsGone DEF Gone, Timed
  <2>. QED BY <2>1 DEF OneRequest
<1>3. CASE ReadAck \/ ReadRequest
  <2>1. inbox # <<>> /\ inbox' = Tail(inbox) /\ pending' = pending /\ ~busy
    BY <1>3 DEF ReadAck, ReadRequest, Idle
  <2>2. /\ Head(inbox) = inbox[1] /\ 1 \in DOMAIN inbox
        /\ \A i \in DOMAIN inbox' : i + 1 \in DOMAIN inbox /\ i + 1 # 1 /\ inbox'[i] = inbox[i + 1]
        /\ \A i, j \in DOMAIN inbox' : i + 1 = j + 1 => i = j
    BY <2>1, InboxTail
  <2>3. \A i \in DOMAIN inbox' : inbox'[i] = "req" => pending' = 1
    BY <2>1, <2>2 DEF OneRequest
  <2>4. \A i, j \in DOMAIN inbox' : inbox'[i] = "req" /\ inbox'[j] = "req" => i = j
    BY <2>2 DEF OneRequest
  <2>5. ASSUME busy' PROVE pending' = 1 /\ NoneQueued'
    <3>1. inbox[1] = "req"
      BY <1>3, <2>1, <2>2, <2>5 DEF ReadAck, ReadRequest
    <3>2. pending = 1
      BY <2>2, <3>1 DEF OneRequest
    <3>3. \A i \in DOMAIN inbox : inbox[i] = "req" => i = 1
      BY <2>2, <3>1 DEF OneRequest
    <3>. QED BY <2>1, <2>2, <3>2, <3>3 DEF NoneQueued
  <2>. QED BY <2>3, <2>4, <2>5 DEF OneRequest
<1>4. CASE FinishAction
  <2>1. busy /\ ~busy' /\ inbox' = inbox
    BY <1>4 DEF FinishAction
  <2>. QED BY <2>1 DEF OneRequest, NoneQueued
<1>5. CASE ServerAck
  <2>1. inbox' = Append(inbox, "ack") /\ UNCHANGED <<pending, busy>>
    BY <1>5 DEF ServerAck
  <2>2. \A i \in DOMAIN inbox' : inbox'[i] = "req" => i \in DOMAIN inbox /\ inbox[i] = "req"
    BY <2>1, InboxAppend
  <2>. QED BY <2>1, <2>2 DEF OneRequest, NoneQueued
<1>6. CASE ServerRequest
  <2>1. inbox' = Append(inbox, "req") /\ pending' = 1 /\ pending = 0 /\ busy' = busy
    BY <1>1, <1>6 DEF ServerRequest
  <2>2. ~busy /\ \A i \in DOMAIN inbox : inbox[i] # "req"
    BY <2>1 DEF OneRequest
  <2>3. PICK last \in DOMAIN inbox' : \A i \in DOMAIN inbox' : inbox'[i] = "req" => i = last
    BY <2>1, <2>2, InboxAppend
  <2>. QED BY <2>1, <2>2, <2>3 DEF OneRequest
<1>7. CASE UNCHANGED <<inbox, pending, busy>>
  BY <1>7 DEF OneRequest, NoneQueued
<1>8. CASE \/ Dial \/ HelloAck \/ TickBeat \/ TickBurst \/ TickMiss \/ PeerDies \/ Clock \/ UNCHANGED vars
  BY <1>7, <1>8 DEF Dial, HelloAck, TickBeat, TickBurst, TickMiss, Rest, PeerDies, Clock, wire, vars
<1>. QED
  BY <1>2, <1>3, <1>4, <1>5, <1>6, <1>8 DEF Next, Ends

LEMMA AnsweredStep ==
  ASSUME AckDelay < Interval
  PROVE  Answered /\ Flown /\ OneRequest /\ Timed /\ Linked /\ Queued /\ [Next]_vars => Answered'
<1>. SUFFICES ASSUME Answered, Flown, OneRequest, Timed, Linked, Queued, [Next]_vars, peer', expected' # NoBeat
              PROVE  /\ BeatFlies' \/ AckWaits'
                     /\ Idle' /\ now' > expected' + AckDelay => AckFirst'
                     /\ misses' = 1 => Idle' /\ now' = expected' /\ AckFirst'
  BY DEF Answered
<1>1. /\ now \in Nat /\ AckDelay \in Nat /\ Interval \in Nat /\ expected \in Int /\ misses \in {0, 1}
      /\ expected = NoBeat => misses = 0
  BY DEF Timed, NoBeat
<1>2. CASE UNCHANGED <<now, phase, peer, inbox, flight, busy, expected, misses>>
  BY <1>2 DEF Answered, BeatFlies, AckWaits, AckFirst, Idle
<1>3. CASE Ends \/ HelloAck \/ ReadAck \/ PeerDies
  BY <1>3, EndsGone DEF HelloAck, ReadAck, PeerDies, Gone, Timed
<1>4. CASE Dial
  BY <1>4 DEF Dial, Linked, timers
<1>5. CASE ReadRequest
  <2>1. /\ peer /\ expected # NoBeat /\ inbox # <<>> /\ inbox' = Tail(inbox) /\ Head(inbox) = "req" /\ ~Idle'
        /\ UNCHANGED <<flight, expected, misses>>
    BY <1>5 DEF ReadRequest, timers, Idle
  <2>2. misses # 1
    BY <2>1 DEF Answered, AckFirst
  <2>3. BeatFlies \/ AckWaits
    BY <2>1 DEF Answered
  <2>4. AckWaits => AckWaits'
    <3>. SUFFICES ASSUME NEW i \in DOMAIN inbox, inbox[i] = "ack" PROVE AckWaits'
      BY DEF AckWaits
    <3>1. Head(inbox) = inbox[1]
      BY <2>1, InboxTail
    <3>2. i # 1
      BY <2>1, <3>1
    <3>3. i - 1 \in DOMAIN inbox' /\ inbox'[i - 1] = inbox[i]
      BY <2>1, <3>2, InboxTail
    <3>. QED BY <3>3 DEF AckWaits
  <2>. QED BY <2>1, <2>2, <2>3, <2>4 DEF BeatFlies
<1>6. CASE FinishAction
  <2>1. /\ busy /\ peer /\ expected # NoBeat
        /\ UNCHANGED <<now, inbox, flight, expected, misses>>
    BY <1>6 DEF FinishAction, timers
  <2>2. (BeatFlies \/ AckWaits) /\ misses # 1
    BY <2>1 DEF Answered, Idle
  <2>3. ASSUME now > expected + AckDelay PROVE AckFirst
    <3>1. ~BeatFlies
      <4>. SUFFICES ASSUME NEW i \in DOMAIN flight, flight[i] = expected PROVE FALSE
        BY DEF BeatFlies
      <4>1. now <= expected + AckDelay
        BY DEF Flown
      <4>. QED BY <1>1, <2>3, <4>1
    <3>2. inbox \in Seq({"ack", "req"}) /\ inbox # <<>> /\ \A i \in DOMAIN inbox : inbox[i] # "req"
      BY <2>1, <2>2, <3>1 DEF AckWaits, Queued, OneRequest, NoneQueued
    <3>3. Head(inbox) = inbox[1] /\ inbox[1] \in {"ack", "req"} /\ Len(inbox) \in Nat \ {0} /\ DOMAIN inbox = 1 .. Len(inbox)
      BY <3>2, QueueTail
    <3>4. 1 \in DOMAIN inbox
      BY <3>3
    <3>. QED BY <3>2, <3>3, <3>4 DEF AckFirst
  <2>. QED BY <2>1, <2>2, <2>3 DEF BeatFlies, AckWaits, AckFirst
<1>7. CASE TickBeat \/ TickMiss
  <2>1. /\ peer /\ Idle /\ Rest /\ expected' = now /\ flight' = Append(flight, now)
        /\ UNCHANGED <<now, inbox>> /\ Idle'
    <3>1. Idle /\ Rest /\ SendBeat
      BY <1>7 DEF TickBeat, TickMiss, TickDue
    <3>. QED BY <3>1 DEF SendBeat, Rest, Idle
  <2>2. BeatFlies'
    <3>1. flight \in Seq(0 .. MaxTime) /\ now \in 0 .. MaxTime
      BY DEF Queued, Timed
    <3>2. flight' \in Seq(0 .. MaxTime) /\ Len(flight) \in Nat /\ Len(flight') = Len(flight) + 1 /\ flight'[Len(flight) + 1] = now
      BY <2>1, <3>1, QueueAppend
    <3>3. Len(flight) + 1 \in DOMAIN flight'
      BY <3>2
    <3>. QED BY <2>1, <3>2, <3>3 DEF BeatFlies
  <2>3. ~(now' > expected' + AckDelay)
    BY <1>1, <2>1
  <2>4. ASSUME misses' = 1 PROVE AckFirst
    <3>1. expected # NoBeat /\ now - expected >= Interval
      BY <1>1, <1>7, <2>4 DEF TickBeat, TickMiss
    <3>2. now > expected + AckDelay
      BY <1>1, <3>1
    <3>. QED BY <2>1, <3>1, <3>2 DEF Answered
  <2>. QED BY <2>1, <2>2, <2>3, <2>4 DEF AckFirst
<1>8. CASE ServerAck \/ ServerRequest
  <2>1. PICK frame \in {"ack", "req"} : inbox' = Append(inbox, frame) /\ (frame = "req" => flight' = flight)
    BY <1>8 DEF ServerAck, ServerRequest
  <2>2. peer /\ expected # NoBeat /\ UNCHANGED <<now, expected, misses>> /\ (Idle' <=> Idle)
    <3>1. peer /\ UNCHANGED <<now, phase, busy, timers>>
      BY <1>8 DEF ServerAck, ServerRequest
    <3>. QED BY <3>1 DEF timers, Idle
  <2>3. AckFirst => AckFirst'
    BY <2>1, InboxAppend DEF AckFirst
  <2>4. BeatFlies' \/ AckWaits'
    <3>1. CASE frame = "ack"
      BY <2>1, <3>1, InboxAppend DEF AckWaits
    <3>2. CASE frame = "req"
      <4>1. AckWaits => AckWaits'
        BY <2>1, InboxAppend DEF AckWaits
      <4>. QED BY <2>1, <2>2, <3>2, <4>1 DEF Answered, BeatFlies
    <3>. QED BY <3>1, <3>2
  <2>. QED BY <2>2, <2>3, <2>4 DEF Answered
<1>9. CASE Clock
  <2>1. /\ peer /\ expected # NoBeat /\ now' = now + 1 /\ UNCHANGED <<inbox, flight, expected, misses>> /\ Idle' = Idle
        /\ (Idle => inbox = <<>>) /\ (flight # <<>> => now < Head(flight) + AckDelay)
    BY <1>9 DEF Clock, wire, timers, Idle
  <2>2. (BeatFlies \/ AckWaits) /\ misses # 1
    BY <2>1 DEF Answered, AckFirst
  <2>3. ASSUME Idle, now + 1 > expected + AckDelay PROVE FALSE
    <3>1. PICK i \in DOMAIN flight : flight[i] = expected
      BY <2>1, <2>2, <2>3 DEF BeatFlies, AckWaits
    <3>2. flight \in Seq(0 .. MaxTime) /\ flight # <<>> /\ DOMAIN flight = 1 .. Len(flight)
      BY <3>1 DEF Queued
    <3>3. Head(flight) = flight[1] /\ flight[1] \in Nat /\ 1 \in DOMAIN flight /\ 1 <= i
      BY <3>1, <3>2, QueueTail
    <3>4. flight[1] <= expected /\ now < flight[1] + AckDelay
      BY <2>1, <3>1, <3>2, <3>3 DEF Flown
    <3>. QED BY <1>1, <2>3, <3>3, <3>4
  <2>. QED BY <2>1, <2>2, <2>3 DEF BeatFlies, AckWaits
<1>10. CASE TickBurst
  BY <1>2, <1>10 DEF TickBurst, Rest
<1>11. CASE UNCHANGED vars
  BY <1>2, <1>11 DEF vars, timers, wire
<1>. QED
  BY <1>3, <1>4, <1>5, <1>6, <1>7, <1>8, <1>9, <1>10, <1>11 DEF Next, Ends

\* A live server is never taken for a zombie, whatever the interval, the length
\* of an action and the lateness of a tick, if it has one action in flight at a
\* time and acks within an interval: when the loop comes back from the action the
\* ack is the next frame, and it is read before time moves on.
THEOREM LiveServerKept ==
  ASSUME Outstanding <= 1, AckDelay < Interval
  PROVE  Spec => LivePeerKept
<1>1. Init => Flown /\ OneRequest /\ Answered
  BY DEF Init, Flown, OneRequest, Answered
<1>2. Spec => [](Flown /\ OneRequest /\ Answered)
  BY <1>1, WatchdogTyped, FlownStep, OneRequestStep, AnsweredStep, PTL DEF Spec
<1>3. Answered /\ Timed /\ [Next]_vars => [TickKill => ~peer]_vars
  <2>. SUFFICES ASSUME Answered, Timed, TickKill, peer PROVE FALSE
    OBVIOUS
  <2>1. expected # NoBeat /\ now - expected >= Interval /\ misses + 1 >= 2
    BY DEF TickKill
  <2>2. misses = 1 /\ now \in Nat /\ Interval \in Nat \ {0}
    BY <2>1 DEF Timed
  <2>3. now = expected
    BY <2>1, <2>2 DEF Answered
  <2>. QED BY <2>1, <2>2, <2>3
<1>. QED
  BY <1>2, <1>3, WatchdogTyped, PTL DEF Spec, LivePeerKept

(* Pairing. *)

Device == Devices \cup {Nobody}
Servers == {"none", "web", "daemon", "cli"}
Steps == {"check", "spend", "key", "write", "swap", "read", "unkey", "clear", "stop", "renew",
          "exit", "save", "load", "wipe"}
Stages == {"over", "spawned", "dialing", "up"}

\* Whoever changes the paired device replaces or stops the task next.
FollowedUp(left) ==
  \A n \in 1 .. Len(left) :
    /\ left[n] = "write" => n < Len(left) /\ left[n + 1] = "swap"
    /\ left[n] = "clear" => n < Len(left) /\ left[n + 1] = "stop"
    /\ left[n] \in {"read", "load"} => n < Len(left)

Requests == [by : Servers, left : Seq(Steps), device : Device, nonce : Int]

LifecycleTypes ==
  /\ paired \in Device /\ file \in Device
  /\ request \in [Callers -> Requests]
  /\ task \in [Tasks -> [stage : Stages, device : Device]] /\ handle \subseteq Tasks

NonceTypes == nonce \in Nat /\ minted \in Nat

RequestsFollowUp ==
  \A c \in Callers : request[c] # NoRequest => request[c].left # <<>> /\ FollowedUp(request[c].left)

OneLive == \A k \in Tasks : Live(k) => handle = {k}
ServesPaired ==
  ~Halfway /\ ~cut => \A k \in Tasks : task[k].stage \in {"dialing", "up"} => task[k].device = paired

\* The inductive invariant.
PairingInv == LifecycleTypes /\ RequestsFollowUp /\ OneLive /\ ServesPaired

----------------------------------------------------------------------------
(* Requests follow up what they change. *)

Shapes == {PairSteps, LinkSteps, UnpairSteps, WindowSteps, ShutdownSteps, CliPairSteps, CliUnpairSteps}

\* Each kind of request, as its steps, follows up what it changes (server.rs:
\* handle_pair, handle_unpair; main.rs: UiCmd::Unpair, the deep link).
LEMMA ShapesFollowUp == \A s \in Shapes : s \in Seq(Steps) /\ s # <<>> /\ FollowedUp(s)
<1>1. PairSteps \in Seq(Steps) /\ PairSteps # <<>> /\ FollowedUp(PairSteps)
  <2>1. PairSteps \in Seq(Steps) BY DEF PairSteps, Steps
  <2>2. PairSteps # <<>> BY DEF PairSteps
  <2>3. FollowedUp(PairSteps) BY DEF PairSteps, FollowedUp
  <2>. QED BY <2>1, <2>2, <2>3
<1>2. LinkSteps \in Seq(Steps) /\ LinkSteps # <<>> /\ FollowedUp(LinkSteps)
  <2>1. LinkSteps \in Seq(Steps) BY DEF LinkSteps, Steps
  <2>2. LinkSteps # <<>> BY DEF LinkSteps
  <2>3. FollowedUp(LinkSteps) BY DEF LinkSteps, FollowedUp
  <2>. QED BY <2>1, <2>2, <2>3
<1>3. UnpairSteps \in Seq(Steps) /\ UnpairSteps # <<>> /\ FollowedUp(UnpairSteps)
  <2>1. UnpairSteps \in Seq(Steps) BY DEF UnpairSteps, Steps
  <2>2. UnpairSteps # <<>> BY DEF UnpairSteps
  <2>3. FollowedUp(UnpairSteps) BY DEF UnpairSteps, FollowedUp
  <2>. QED BY <2>1, <2>2, <2>3
<1>4. WindowSteps \in Seq(Steps) /\ WindowSteps # <<>> /\ FollowedUp(WindowSteps)
  <2>1. WindowSteps \in Seq(Steps) BY DEF WindowSteps, Steps
  <2>2. WindowSteps # <<>> BY DEF WindowSteps
  <2>3. FollowedUp(WindowSteps) BY DEF WindowSteps, FollowedUp
  <2>. QED BY <2>1, <2>2, <2>3
<1>5. ShutdownSteps \in Seq(Steps) /\ ShutdownSteps # <<>> /\ FollowedUp(ShutdownSteps)
  <2>1. ShutdownSteps \in Seq(Steps) BY DEF ShutdownSteps, Steps
  <2>2. ShutdownSteps # <<>> BY DEF ShutdownSteps
  <2>3. FollowedUp(ShutdownSteps) BY DEF ShutdownSteps, FollowedUp
  <2>. QED BY <2>1, <2>2, <2>3
<1>6. CliPairSteps \in Seq(Steps) /\ CliPairSteps # <<>> /\ FollowedUp(CliPairSteps)
  <2>1. CliPairSteps \in Seq(Steps) BY DEF CliPairSteps, Steps
  <2>2. CliPairSteps # <<>> BY DEF CliPairSteps
  <2>3. FollowedUp(CliPairSteps) BY DEF CliPairSteps, FollowedUp
  <2>. QED BY <2>1, <2>2, <2>3
<1>7. CliUnpairSteps \in Seq(Steps) /\ CliUnpairSteps # <<>> /\ FollowedUp(CliUnpairSteps)
  <2>1. CliUnpairSteps \in Seq(Steps) BY DEF CliUnpairSteps, Steps
  <2>2. CliUnpairSteps # <<>> BY DEF CliUnpairSteps
  <2>3. FollowedUp(CliUnpairSteps) BY DEF CliUnpairSteps, FollowedUp
  <2>. QED BY <2>1, <2>2, <2>3
<1>. QED BY <1>1, <1>2, <1>3, <1>4, <1>5, <1>6, <1>7 DEF Shapes

\* What is left of a request after a step still follows up.
LEMMA TailFollowsUp ==
  ASSUME NEW left \in Seq(Steps), left # <<>>, FollowedUp(left), Len(left) # 1
  PROVE  Tail(left) \in Seq(Steps) /\ Tail(left) # <<>> /\ FollowedUp(Tail(left))
<1>1. Len(left) \in Nat /\ Len(left) > 1
  <2>1. Len(left) \in Nat \ {0}
    BY EmptySeq
  <2>2. Len(left) # 1
    OBVIOUS
  <2>3. \A n \in Nat \ {0} : n # 1 => n \in Nat /\ n > 1
    OBVIOUS
  <2>. QED BY ONLY <2>1, <2>2, <2>3
<1>2. /\ Tail(left) \in Seq(Steps) /\ Len(Tail(left)) = Len(left) - 1
      /\ \A n \in 1 .. Len(Tail(left)) : Tail(left)[n] = left[n + 1]
  BY HeadTailProperties
<1>3. Tail(left) # <<>>
  <2>1. Len(Tail(left)) # 0
    BY <1>1, <1>2
  <2>. QED BY <2>1, EmptySeq
<1>4. ASSUME NEW n \in 1 .. Len(Tail(left))
      PROVE  /\ Tail(left)[n] = "write" => n < Len(Tail(left)) /\ Tail(left)[n + 1] = "swap"
             /\ Tail(left)[n] = "clear" => n < Len(Tail(left)) /\ Tail(left)[n + 1] = "stop"
             /\ Tail(left)[n] \in {"read", "load"} => n < Len(Tail(left))
  <2>1. n + 1 \in 1 .. Len(left) /\ Tail(left)[n] = left[n + 1]
    BY <1>1, <1>2
  <2>2. n + 1 < Len(left) => n < Len(Tail(left)) /\ Tail(left)[n + 1] = left[(n + 1) + 1]
    BY <1>1, <1>2
  <2>. QED BY <2>1, <2>2 DEF FollowedUp
<1>. QED BY <1>2, <1>3, <1>4 DEF FollowedUp

LEMMA Advance ==
  ASSUME LifecycleTypes, RequestsFollowUp, NEW c \in Callers, request[c] # NoRequest
  PROVE  /\ Done(c) \in [Callers -> Requests]
         /\ \A d \in Callers \ {c} : Done(c)[d] = request[d]
         /\ Len(request[c].left) = 1 => Done(c)[c] = NoRequest
         /\ Len(request[c].left) # 1 =>
              /\ Done(c)[c].left = Tail(request[c].left)
              /\ Done(c)[c].left # <<>> /\ FollowedUp(Done(c)[c].left)
<1>1. NoRequest \in Requests
  BY EmptySeq DEF NoRequest, Requests, Servers, Device
<1>2. /\ request[c] \in Requests /\ request[c].left \in Seq(Steps)
      /\ request[c].left # <<>> /\ FollowedUp(request[c].left)
  BY DEF LifecycleTypes, RequestsFollowUp, Requests
<1>3. CASE Len(request[c].left) = 1
  BY <1>1, <1>3 DEF LifecycleTypes, Done, After
<1>4. CASE Len(request[c].left) # 1
  <2>1. /\ Tail(request[c].left) \in Seq(Steps) /\ Tail(request[c].left) # <<>>
        /\ FollowedUp(Tail(request[c].left))
    BY <1>2, <1>4, TailFollowsUp
  <2>2. Done(c) = [request EXCEPT ![c] = After(request[c])]
    BY DEF Done
  <2>3. After(request[c]) \in Requests /\ After(request[c]).left = Tail(request[c].left)
    <3>1. request[c].by \in Servers /\ request[c].device \in Device /\ request[c].nonce \in Int
      BY <1>2 DEF Requests
    <3>. QED BY <1>4, <2>1, <3>1 DEF After, Requests, Device
  <2>4. Done(c)[c].left = Tail(request[c].left)
    BY <2>2, <2>3 DEF LifecycleTypes
  <2>. QED BY <1>4, <2>1, <2>2, <2>3, <2>4 DEF LifecycleTypes
<1>. QED BY <1>3, <1>4

\* What a request does between its reads and writes keeps the requests in order.
LEMMA RequestStep ==
  ASSUME LifecycleTypes, RequestsFollowUp, NEW c \in Callers, NEW step, At(c, step),
         request' = Done(c) \/ request' = Refused(c)
  PROVE  request' \in [Callers -> Requests] /\ RequestsFollowUp'
<1>1. request[c] # NoRequest
  BY DEF At
<1>2. CASE request' = Done(c)
  BY <1>1, <1>2, Advance DEF RequestsFollowUp, LifecycleTypes
<1>3. CASE request' = Refused(c)
  <2>1. NoRequest \in Requests
    BY EmptySeq DEF NoRequest, Requests, Servers, Device
  <2>. QED BY <1>3, <2>1 DEF Refused, RequestsFollowUp, LifecycleTypes
<1>. QED BY <1>2, <1>3

\* The same of a step that also reads the device; such a step is not the last.
LEMMA ReadStep ==
  ASSUME LifecycleTypes, RequestsFollowUp, NEW c \in Callers, NEW d \in Device,
         At(c, "read") \/ At(c, "load"), request' = [Done(c) EXCEPT ![c].device = d]
  PROVE  request' \in [Callers -> Requests] /\ RequestsFollowUp'
<1>1. request[c] # NoRequest /\ Head(request[c].left) \in {"read", "load"}
  BY DEF At
<1>2. request[c].left \in Seq(Steps) /\ request[c].left # <<>> /\ FollowedUp(request[c].left)
  BY <1>1 DEF LifecycleTypes, RequestsFollowUp, Requests
<1>3. Len(request[c].left) # 1
  <2>1. Len(request[c].left) \in Nat \ {0} /\ Head(request[c].left) = request[c].left[1]
    BY <1>2, EmptySeq
  <2>2. 1 < Len(request[c].left)
    BY <1>1, <1>2, <2>1 DEF FollowedUp
  <2>3. \A n \in Nat : 1 < n => n # 1
    OBVIOUS
  <2>. QED BY ONLY <2>1, <2>2, <2>3
<1>4. /\ Done(c) \in [Callers -> Requests] /\ \A e \in Callers \ {c} : Done(c)[e] = request[e]
      /\ Done(c)[c].left # <<>> /\ FollowedUp(Done(c)[c].left)
  BY <1>1, <1>3, Advance
<1>5. request' = [Done(c) EXCEPT ![c] = [Done(c)[c] EXCEPT !.device = d]]
  OBVIOUS
<1>6. [Done(c)[c] EXCEPT !.device = d] \in Requests /\ [Done(c)[c] EXCEPT !.device = d].left = Done(c)[c].left
  BY <1>4 DEF Requests
<1>. QED BY <1>4, <1>5, <1>6 DEF RequestsFollowUp

\* Only a swap or a stop ends being halfway.
LEMMA StaysHalfway ==
  ASSUME NEW c \in Callers, NEW step, step \notin {"swap", "stop"}, At(c, step), Halfway,
         \A d \in Callers \ {c} : request'[d] = request[d]
  PROVE  Halfway'
BY DEF At, Halfway

\* A request that writes or clears the paired device is halfway until it swaps or
\* stops the task.
LEMMA WriteGoesHalfway ==
  ASSUME LifecycleTypes, RequestsFollowUp, NEW c \in Callers, At(c, "write") \/ At(c, "clear"), request' = Done(c)
  PROVE  Halfway'
<1>1. request[c] # NoRequest /\ Head(request[c].left) \in {"write", "clear"}
  BY DEF At
<1>2. request[c].left \in Seq(Steps) /\ request[c].left # <<>> /\ FollowedUp(request[c].left)
  BY <1>1 DEF LifecycleTypes, RequestsFollowUp, Requests
<1>3. /\ Len(request[c].left) # 1 /\ Tail(request[c].left) # <<>>
      /\ Head(Tail(request[c].left)) \in {"swap", "stop"}
  <2>1. Len(request[c].left) \in Nat \ {0} /\ Head(request[c].left) = request[c].left[1]
    BY <1>2, EmptySeq
  <2>2. Len(request[c].left) > 1 /\ request[c].left[2] \in {"swap", "stop"}
    BY <1>1, <1>2, <2>1 DEF FollowedUp
  <2>3. /\ Tail(request[c].left) \in Seq(Steps) /\ Len(Tail(request[c].left)) = Len(request[c].left) - 1
        /\ \A n \in 1 .. Len(Tail(request[c].left)) : Tail(request[c].left)[n] = request[c].left[n + 1]
    BY <1>2, HeadTailProperties
  <2>4. Len(Tail(request[c].left)) >= 1 /\ Tail(request[c].left)[1] = request[c].left[2]
    BY <2>1, <2>2, <2>3
  <2>5. Tail(request[c].left) # <<>>
    <3>1. Len(Tail(request[c].left)) # 0
      BY <2>1, <2>4
    <3>. QED BY <3>1, EmptySeq
  <2>. QED BY <2>1, <2>2, <2>3, <2>4, <2>5
<1>4. request'[c].left = Tail(request[c].left)
  BY <1>1, <1>3, Advance
<1>5. request'[c] # NoRequest
  <2>1. NoRequest.left = <<>>
    BY DEF NoRequest
  <2>. QED BY <1>3, <1>4, <2>1
<1>. QED BY <1>3, <1>4, <1>5 DEF Halfway

----------------------------------------------------------------------------
(* The invariant. *)

LEMMA PairingInit == LifecycleInit => PairingInv
<1>. SUFFICES ASSUME LifecycleInit PROVE PairingInv
  OBVIOUS
<1>1. NoRequest \in Requests
  BY EmptySeq DEF NoRequest, Requests, Servers, Device
<1>2. NoTasks \in [Tasks -> [stage : Stages, device : Device]] /\ Spawned \in [stage : Stages, device : Device]
  BY DEF NoTasks, Over, Spawned, Stages, Device
<1>3. LifecycleTypes
  BY <1>1, <1>2 DEF LifecycleInit, LifecycleTypes, Device
<1>4. \A k \in Tasks : task[k].stage \in {"over", "spawned"}
  BY <1>2 DEF LifecycleInit, NoTasks, Over, Spawned
<1>. QED
  BY <1>3, <1>4 DEF PairingInv, LifecycleInit, RequestsFollowUp, OneLive, ServesPaired, Live, NoTasks, Over

\* A step of a request that leaves the paired device and the task alone.
LEMMA QuietStep ==
  ASSUME PairingInv, NEW c \in Callers, NEW step, step \notin {"swap", "stop"}, At(c, step),
         request' \in [Callers -> Requests], RequestsFollowUp', \A d \in Callers \ {c} : request'[d] = request[d],
         file' \in Device, UNCHANGED <<paired, task, handle, cut>>
  PROVE  PairingInv'
<1>1. LifecycleTypes' /\ OneLive'
  BY DEF PairingInv, LifecycleTypes, OneLive, Live
<1>2. Halfway => Halfway'
  BY StaysHalfway
<1>3. ServesPaired'
  BY <1>2 DEF PairingInv, ServesPaired
<1>. QED BY <1>1, <1>3 DEF PairingInv

LEMMA OtherCallers ==
  ASSUME LifecycleTypes, NEW c \in Callers, request' = Done(c) \/ request' = Refused(c)
  PROVE  \A d \in Callers \ {c} : request'[d] = request[d]
BY DEF Done, Refused, LifecycleTypes

LEMMA RequestsPreserve ==
  ASSUME PairingInv, NEW c \in Callers,
         CheckPaired(c) \/ TakeNonce(c) \/ SaveKey(c) \/ DeleteKey(c) \/ RenewNonce(c) \/ WriteFile(c)
  PROVE  PairingInv'
<1>. DEFINE Busy == {"check", "spend", "key", "unkey", "renew", "save", "wipe"}
<1>1. PICK step \in Busy : At(c, step)
  BY DEF CheckPaired, TakeNonce, SaveKey, DeleteKey, RenewNonce, WriteFile
<1>2. request' = Done(c) \/ request' = Refused(c)
  BY DEF CheckPaired, TakeNonce, SaveKey, DeleteKey, RenewNonce, WriteFile
<1>3. request[c].device \in Device
  BY DEF PairingInv, LifecycleTypes, Requests
<1>4. file' \in Device /\ UNCHANGED <<paired, task, handle, cut>>
  BY <1>3 DEF PairingInv, LifecycleTypes, CheckPaired, TakeNonce, SaveKey, DeleteKey, RenewNonce, WriteFile,
              Saved, Device, pairing, link
<1>5. request' \in [Callers -> Requests] /\ RequestsFollowUp' /\ \A d \in Callers \ {c} : request'[d] = request[d]
  BY <1>1, <1>2, RequestStep, OtherCallers DEF PairingInv
<1>6. step \notin {"swap", "stop"}
  OBVIOUS
<1>. QED BY <1>1, <1>4, <1>5, <1>6, QuietStep

LEMMA ReadsPreserve ==
  ASSUME PairingInv, NEW c \in Callers, ReadDevice(c) \/ ReadFile(c)
  PROVE  PairingInv'
<1>1. PICK step \in {"read", "load"} : At(c, step)
  BY DEF ReadDevice, ReadFile
<1>2. PICK d \in Device : request' = [Done(c) EXCEPT ![c].device = d]
  BY DEF ReadDevice, ReadFile, PairingInv, LifecycleTypes
<1>3. request' \in [Callers -> Requests] /\ RequestsFollowUp'
  BY <1>1, <1>2, ReadStep DEF PairingInv
<1>4. \A e \in Callers \ {c} : request'[e] = request[e]
  BY <1>2 DEF Done, PairingInv, LifecycleTypes
<1>5. file' \in Device /\ UNCHANGED <<paired, task, handle, cut>>
  BY DEF ReadDevice, ReadFile, pairing, link, PairingInv, LifecycleTypes
<1>6. step \notin {"swap", "stop"}
  OBVIOUS
<1>. QED BY <1>1, <1>3, <1>4, <1>5, <1>6, QuietStep

LEMMA WritesPreserve ==
  ASSUME PairingInv, NEW c \in Callers, WriteState(c) \/ ClearState(c)
  PROVE  PairingInv'
<1>1. (At(c, "write") \/ At(c, "clear")) /\ request' = Done(c) /\ UNCHANGED <<task, handle>>
  BY DEF WriteState, ClearState, link
<1>2. request' \in [Callers -> Requests] /\ RequestsFollowUp'
  BY <1>1, RequestStep DEF PairingInv
<1>3. paired' \in Device /\ file' \in Device
  BY DEF WriteState, ClearState, Saved, Device, PairingInv, LifecycleTypes, Requests
<1>4. Halfway'
  BY <1>1, WriteGoesHalfway DEF PairingInv
<1>. QED BY <1>1, <1>2, <1>3, <1>4 DEF PairingInv, LifecycleTypes, OneLive, ServesPaired, Live

\* What is aborted is all there is.
LEMMA EndedAll == PairingInv => Ended(handle) = NoTasks
BY DEF PairingInv, LifecycleTypes, OneLive, Live, Ended, NoTasks

LEMMA SwapsPreserve ==
  ASSUME PairingInv, NEW c \in Callers, SwapClient(c) \/ StopClient(c)
  PROVE  PairingInv'
<1>1. request' = Done(c) /\ UNCHANGED <<paired, file>> /\ (At(c, "swap") \/ At(c, "stop"))
  BY DEF SwapClient, StopClient, pairing
<1>2. request' \in [Callers -> Requests] /\ RequestsFollowUp'
  BY <1>1, RequestStep DEF PairingInv
<1>3. \/ task' = NoTasks /\ handle' = {}
      \/ \E k \in Tasks : task' = [NoTasks EXCEPT ![k] = Spawned] /\ handle' = {k}
  BY EndedAll DEF SwapClient, StopClient
<1>4. task' \in [Tasks -> [stage : Stages, device : Device]] /\ handle' \subseteq Tasks
  BY <1>3 DEF NoTasks, Over, Spawned, Stages, Device
<1>5. OneLive' /\ \A k \in Tasks : task'[k].stage \in {"over", "spawned"}
  BY <1>3 DEF OneLive, Live, NoTasks, Over, Spawned
<1>. QED BY <1>1, <1>2, <1>4, <1>5 DEF PairingInv, LifecycleTypes, ServesPaired

\* A page that leaves gives up its own request; what it leaves undone is noted.
LEMMA LeavingPreserves ==
  ASSUME PairingInv, NEW c \in Callers, PageLeaves(c)
  PROVE  PairingInv'
<1>1. request' = Refused(c) /\ UNCHANGED <<paired, file, task, handle>>
  BY DEF PageLeaves, pairing
<1>2. NoRequest \in Requests
  BY EmptySeq DEF NoRequest, Requests, Servers, Device
<1>3. LifecycleTypes' /\ RequestsFollowUp' /\ \A d \in Callers \ {c} : request'[d] = request[d]
  BY <1>1, <1>2 DEF PairingInv, LifecycleTypes, RequestsFollowUp, Refused
<1>4. ~Halfway' /\ ~cut' => ~Halfway /\ ~cut
  BY <1>3 DEF PageLeaves, Halfway
<1>. QED BY <1>1, <1>3, <1>4 DEF PairingInv, OneLive, ServesPaired, Live

LEMMA BeginPreserves ==
  ASSUME PairingInv, NonceTypes, NEW c \in Callers, Request(c)
  PROVE  PairingInv'
<1>1. PICK by \in Servers, steps \in Shapes, d \in Device, n \in Int : Begin(c, by, steps, d, n)
  BY DEF Request, Servers, Shapes, Device, NonceTypes
<1>2. steps \in Seq(Steps) /\ steps # <<>> /\ FollowedUp(steps)
  BY ShapesFollowUp
<1>. DEFINE r == [by |-> by, left |-> steps, device |-> d, nonce |-> n]
<1>3. request[c] = NoRequest /\ request' = [request EXCEPT ![c] = r] /\ UNCHANGED <<paired, file, task, handle, cut>>
  BY <1>1 DEF Begin, pairing, link
<1>4. r \in Requests /\ r.left = steps
  BY <1>2 DEF Requests
<1>. HIDE DEF r
<1>5. LifecycleTypes' /\ RequestsFollowUp'
  BY <1>2, <1>3, <1>4 DEF PairingInv, LifecycleTypes, RequestsFollowUp
<1>6. Halfway => Halfway'
  BY <1>3 DEF PairingInv, LifecycleTypes, Halfway
<1>. QED BY <1>3, <1>5, <1>6 DEF PairingInv, OneLive, ServesPaired, Live

LEMMA ClientPreserves ==
  ASSUME PairingInv, NEW k \in Tasks, ReadPairing(k) \/ HelloAcked(k) \/ ConnectionEnds(k)
  PROVE  PairingInv'
<1>1. UNCHANGED <<paired, file, request, handle, cut>>
  BY DEF ReadPairing, HelloAcked, ConnectionEnds, pairing
<1>2. Live(k)
  BY DEF ReadPairing, HelloAcked, ConnectionEnds, Live, Over, Spawned
<1>3. \/ task' = Ended({k})
      \/ /\ task[k].stage \in {"dialing", "up"}
         /\ task' = [task EXCEPT ![k].stage = "dialing"] \/ task' = [task EXCEPT ![k].stage = "up"]
      \/ task' = [task EXCEPT ![k] = [stage |-> "dialing", device |-> paired]]
  BY DEF ReadPairing, HelloAcked, ConnectionEnds
<1>4. /\ task' \in [Tasks -> [stage : Stages, device : Device]]
      /\ \A j \in Tasks \ {k} : task'[j] = task[j]
      /\ \/ task'[k].stage = "over"
         \/ task'[k].device = paired
         \/ task'[k].device = task[k].device /\ task[k].stage \in {"dialing", "up"}
  <2>1. task \in [Tasks -> [stage : Stages, device : Device]] /\ paired \in Device
    BY DEF PairingInv, LifecycleTypes
  <2>2. CASE task' = Ended({k})
    BY <2>1, <2>2 DEF Ended, Over, Stages, Device
  <2>3. CASE task' = [task EXCEPT ![k] = [stage |-> "dialing", device |-> paired]]
    BY <2>1, <2>3 DEF Stages
  <2>4. ASSUME NEW s \in {"dialing", "up"}, task[k].stage \in {"dialing", "up"},
               task' = [task EXCEPT ![k].stage = s]
        PROVE  /\ task' \in [Tasks -> [stage : Stages, device : Device]]
               /\ \A j \in Tasks \ {k} : task'[j] = task[j]
               /\ task'[k].device = task[k].device
    BY <2>1, <2>4 DEF Stages
  <2>. QED BY <1>3, <2>2, <2>3, <2>4
<1>5. LifecycleTypes' /\ RequestsFollowUp' /\ (Halfway <=> Halfway')
  BY <1>1, <1>4 DEF PairingInv, LifecycleTypes, RequestsFollowUp, Halfway
<1>6. OneLive'
  BY <1>1, <1>2, <1>4 DEF PairingInv, OneLive, Live
<1>7. ServesPaired'
  BY <1>1, <1>4, <1>5 DEF PairingInv, ServesPaired
<1>. QED BY <1>5, <1>6, <1>7 DEF PairingInv

LEMMA RestartPreserves ==
  ASSUME PairingInv, Restart
  PROVE  PairingInv'
<1>1. NoRequest \in Requests
  BY EmptySeq DEF NoRequest, Requests, Servers, Device
<1>2. \/ task' = NoTasks /\ handle' = {}
      \/ \E k \in Tasks : task' = [NoTasks EXCEPT ![k] = Spawned] /\ handle' = {k}
  BY DEF Restart
<1>3. task' \in [Tasks -> [stage : Stages, device : Device]] /\ handle' \subseteq Tasks
  BY <1>2 DEF NoTasks, Over, Spawned, Stages, Device
<1>4. OneLive' /\ \A k \in Tasks : task'[k].stage \in {"over", "spawned"}
  BY <1>2 DEF OneLive, Live, NoTasks, Over, Spawned
<1>5. LifecycleTypes' /\ RequestsFollowUp'
  BY <1>1, <1>3 DEF Restart, PairingInv, LifecycleTypes, RequestsFollowUp
<1>. QED BY <1>4, <1>5 DEF PairingInv, ServesPaired

\* Nonces are numbered as they are minted.
LEMMA NonceStep == NonceTypes /\ [LifecycleNext]_lifeVars => NonceTypes'
<1>. SUFFICES ASSUME NonceTypes, [LifecycleNext]_lifeVars PROVE NonceTypes'
  OBVIOUS
<1>. USE DEF NonceTypes
<1>1. CASE \E c \in Callers : TakeNonce(c) \/ RenewNonce(c)
  BY <1>1 DEF TakeNonce, RenewNonce
<1>2. CASE Status \/ NonceExpires \/ Restart \/ \E c \in Callers : Exit(c)
  BY <1>2 DEF Status, NonceExpires, Restart, Exit
<1>3. ASSUME NEW c \in Callers,
             \/ Request(c) \/ CheckPaired(c) \/ SaveKey(c) \/ WriteState(c) \/ SwapClient(c) \/ ReadDevice(c)
             \/ DeleteKey(c) \/ ClearState(c) \/ StopClient(c) \/ ReadFile(c) \/ WriteFile(c) \/ PageLeaves(c)
      PROVE  NonceTypes'
  BY <1>3 DEF Request, Begin, CheckPaired, SaveKey, WriteState, SwapClient, ReadDevice, DeleteKey, ClearState,
              StopClient, ReadFile, WriteFile, PageLeaves, nonces
<1>4. CASE UNCHANGED lifeVars \/ \E k \in Tasks : ReadPairing(k) \/ HelloAcked(k) \/ ConnectionEnds(k)
  BY <1>4 DEF lifeVars, ReadPairing, HelloAcked, ConnectionEnds, nonces
<1>. QED BY <1>1, <1>2, <1>3, <1>4 DEF LifecycleNext

LEMMA PairingStep == PairingInv /\ NonceTypes /\ [LifecycleNext]_lifeVars => PairingInv'
<1>. SUFFICES ASSUME PairingInv, NonceTypes, [LifecycleNext]_lifeVars PROVE PairingInv'
  OBVIOUS
<1>1. CASE UNCHANGED <<paired, file, request, task, handle, cut>>
  BY <1>1 DEF PairingInv, LifecycleTypes, RequestsFollowUp, OneLive, ServesPaired, Live, Halfway
<1>2. ASSUME NEW c \in Callers, Request(c) PROVE PairingInv'
  BY <1>2, BeginPreserves
<1>3. ASSUME NEW c \in Callers,
             \/ CheckPaired(c) \/ TakeNonce(c) \/ SaveKey(c)
             \/ DeleteKey(c) \/ RenewNonce(c) \/ WriteFile(c)
      PROVE  PairingInv'
  BY <1>3, RequestsPreserve
<1>4. ASSUME NEW c \in Callers, ReadDevice(c) \/ ReadFile(c) PROVE PairingInv'
  BY <1>4, ReadsPreserve
<1>5. ASSUME NEW c \in Callers, WriteState(c) \/ ClearState(c) PROVE PairingInv'
  BY <1>5, WritesPreserve
<1>6. ASSUME NEW c \in Callers, SwapClient(c) \/ StopClient(c) PROVE PairingInv'
  BY <1>6, SwapsPreserve
<1>7. ASSUME NEW k \in Tasks, ReadPairing(k) \/ HelloAcked(k) \/ ConnectionEnds(k) PROVE PairingInv'
  BY <1>7, ClientPreserves
<1>8. CASE Restart \/ \E c \in Callers : Exit(c)
  BY <1>8, RestartPreserves DEF Exit
<1>9. CASE Status \/ NonceExpires \/ UNCHANGED lifeVars
  BY <1>1, <1>9 DEF Status, NonceExpires, lifeVars, pairing, link
<1>10. ASSUME NEW c \in Callers, PageLeaves(c) PROVE PairingInv'
  BY <1>10, LeavingPreserves
<1>. QED
  BY <1>2, <1>3, <1>4, <1>5, <1>6, <1>7, <1>8, <1>9, <1>10 DEF LifecycleNext

\* However pairings, unpairings and restarts overlap and wherever a page takes its
\* request along, one client at most is alive and the handle can abort it; and no
\* client serves another device than the paired one, unless a page left between
\* the pairing and the task (server.rs: handle_pair, handle_unpair; main.rs:
\* UiCmd::Unpair, the deep link, run_ws_client).
THEOREM OnePairedClient == LifecycleSpec => []ClientServesPaired
<1>1. PairingInv => ClientServesPaired
  BY DEF PairingInv, OneLive, ServesPaired, ClientServesPaired
<1>2. LifecycleInit => NonceTypes
  BY DEF LifecycleInit, NonceTypes
<1>. QED
  BY PairingInit, PairingStep, NonceStep, <1>1, <1>2, PTL DEF LifecycleSpec
=============================================================================
