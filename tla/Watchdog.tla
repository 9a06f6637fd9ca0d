------------------------------ MODULE Watchdog ------------------------------
(***************************************************************************)
(* The connection loop of the desktop daemon seen as a failure detector    *)
(* (WsClient::run and connect_once): dialling with back-off, hello, and    *)
(* the heartbeat whose acks tell a live server from a half-dead socket.    *)
(* Frames and heartbeat ticks are served by one select! loop, which serves *)
(* neither while it handles an action.                                     *)
(***************************************************************************)
EXTENDS Integers, Sequences

CONSTANTS
  Interval,    \* heartbeat_interval_ms
  MaxBackoff,  \* the 30 s cap of run()
  AckDelay,    \* environment: a live server's ack arrives within this
  Handling,    \* environment: an action keeps the loop at most this long
  Lag,         \* environment: how late an idle loop may serve a tick
  Outstanding, \* environment: how many actions the server has in flight
  MaxTime      \* bound: where a behaviour ends

ASSUME WatchdogAssumption ==
  /\ Interval \in Nat \ {0} /\ MaxBackoff \in Nat \ {0}
  /\ AckDelay \in Nat /\ Handling \in Nat /\ Lag \in Nat
  /\ Outstanding \in Nat /\ MaxTime \in Nat

NoBeat == -1

VARIABLES
  now,       \* the clock
  phase,     \* "down" (back-off sleep), "hello" (awaiting hello_ack), "up",
             \* "stopped" (run() returned)
  backoff, wakeAt, \* the next back-off, the end of the current one
  peer,      \* the server end of this connection is alive
  inbox,     \* frames received and not read: "ack" or "req"
  flight,    \* times of the heartbeats the server has not acked yet
  pending,   \* actions the server has sent and not seen answered
  busy, since, \* the loop is handling an action; when it last began or ended one
  tickAt,    \* the interval's next tick
  expected,  \* expected_heartbeat
  misses,    \* consecutive_misses
  life, deadAt \* history of a connection: last proof of life read; when the peer died

timers == <<tickAt, expected, misses>>
wire == <<inbox, flight, pending>>
vars == <<now, phase, backoff, wakeAt, peer, inbox, flight, pending, busy, since,
          tickAt, expected, misses, life, deadAt>>

Init ==
  /\ now = 0 /\ phase = "down" /\ backoff = 1 /\ wakeAt = 0
  /\ peer = FALSE /\ inbox = <<>> /\ flight = <<>> /\ pending = 0
  /\ busy = FALSE /\ since = 0
  /\ tickAt = 0 /\ expected = NoBeat /\ misses = 0
  /\ life = 0 /\ deadAt = 0

----------------------------------------------------------------------------
(* run(): dialling and backing off. *)

\* The state of a connection goes with it: the socket and connect_once's own.
Gone ==
  /\ peer' = FALSE /\ inbox' = <<>> /\ flight' = <<>> /\ pending' = 0
  /\ busy' = FALSE /\ since' = 0
  /\ tickAt' = 0 /\ expected' = NoBeat /\ misses' = 0
  /\ life' = 0 /\ deadAt' = 0

\* connect_once returned.  After an error the back-off doubles, after a clean
\* close it starts at the floor; up to one more unit of jitter is slept.
Drop(floor) ==
  LET b == IF floor THEN 1 ELSE backoff
  IN /\ phase' = "down" /\ Gone /\ UNCHANGED now
     /\ \E jitter \in 0..1 : wakeAt' = now + b + jitter
     /\ backoff' = IF 2 * b > MaxBackoff THEN MaxBackoff ELSE 2 * b

Dial ==
  /\ phase = "down" /\ now >= wakeAt
  /\ phase' = "hello" /\ peer' = TRUE /\ wakeAt' = 0
  /\ UNCHANGED <<now, backoff, wire, busy, since, timers, life, deadAt>>
DialFails == phase = "down" /\ now >= wakeAt /\ Drop(FALSE)

\* The first frame is awaited without a timeout.
HelloAck ==
  /\ phase = "hello" /\ peer
  /\ phase' = "up" /\ since' = now
  /\ tickAt' = now /\ expected' = NoBeat /\ misses' = 0 /\ life' = now
  /\ UNCHANGED <<now, backoff, wakeAt, peer, wire, busy, deadAt>>
HelloRefused == phase = "hello" /\ peer /\ Drop(FALSE)

----------------------------------------------------------------------------
(* connect_once: one branch of select! at a time. *)

Idle == phase = "up" /\ ~busy

\* Mutant: the ack clears the deadline and not the streak.
AckKeepsMisses ==
  /\ Idle /\ inbox # <<>> /\ Head(inbox) = "ack"
  /\ inbox' = Tail(inbox)
  /\ expected' = NoBeat /\ life' = now
  /\ UNCHANGED <<now, phase, backoff, wakeAt, peer, flight, pending, busy, since,
                 tickAt, misses, deadAt>>

\* Any ack proves the server alive.
ReadAck ==
  /\ Idle /\ inbox # <<>> /\ Head(inbox) = "ack"
  /\ inbox' = Tail(inbox)
  /\ expected' = NoBeat /\ misses' = 0 /\ life' = now
  /\ UNCHANGED <<now, phase, backoff, wakeAt, peer, flight, pending, busy, since,
                 tickAt, deadAt>>

ReadRequest ==
  /\ Idle /\ inbox # <<>> /\ Head(inbox) = "req"
  /\ inbox' = Tail(inbox) /\ busy' = TRUE /\ since' = now
  /\ UNCHANGED <<now, phase, backoff, wakeAt, peer, flight, pending, timers, life, deadAt>>

FinishAction ==
  /\ busy /\ busy' = FALSE /\ since' = now
  /\ pending' = pending - 1
  /\ UNCHANGED <<now, phase, backoff, wakeAt, peer, inbox, flight, timers, life, deadAt>>

TickDue == Idle /\ now >= tickAt
NextTick == tickAt' = tickAt + Interval
\* A heartbeat to a half-dead peer vanishes in the socket buffer.
SendBeat ==
  /\ expected' = now
  /\ flight' = IF peer THEN Append(flight, now) ELSE flight
Rest == UNCHANGED <<now, phase, backoff, wakeAt, peer, inbox, pending, busy, since, life, deadAt>>

\* No beat is outstanding.
TickBeat ==
  /\ TickDue /\ expected = NoBeat
  /\ NextTick /\ SendBeat /\ UNCHANGED misses /\ Rest

\* `burst': the beat is younger than an interval; it is judged again next time.
TickBurst ==
  /\ TickDue /\ expected # NoBeat /\ now - expected < Interval
  /\ NextTick /\ UNCHANGED <<expected, misses, flight>> /\ Rest

\* Mutant: a catch-up tick counts as a miss.
MissWithoutAge ==
  /\ TickDue /\ expected # NoBeat
  /\ misses + 1 < 2
  /\ NextTick /\ SendBeat /\ misses' = misses + 1 /\ Rest

\* Mutant: the streak is counted and never judged.
MissWithoutVerdict ==
  /\ TickDue /\ expected # NoBeat /\ now - expected >= Interval
  /\ NextTick /\ SendBeat /\ misses' = misses + 1 /\ Rest

\* Mutant: every new beat starts a new streak.
MissForgotten ==
  /\ TickDue /\ expected # NoBeat /\ now - expected >= Interval
  /\ misses + 1 < 2
  /\ NextTick /\ SendBeat /\ misses' = 0 /\ Rest

\* A first aged miss is tolerated.
TickMiss ==
  /\ TickDue /\ expected # NoBeat /\ now - expected >= Interval
  /\ misses + 1 < 2
  /\ NextTick /\ SendBeat /\ misses' = misses + 1 /\ Rest

\* zombie_decision: the second aged miss in a row forces the reconnect.
TickKill ==
  /\ TickDue
  /\ expected # NoBeat /\ now - expected >= Interval
  /\ misses + 1 >= 2
  /\ Drop(FALSE)

\* auth_failed instead of hello_ack, or a revoke frame: run() returns.
Stop ==
  /\ peer /\ (phase = "hello" \/ (Idle /\ inbox = <<>>))
  /\ phase' = "stopped" /\ Gone /\ UNCHANGED <<now, backoff, wakeAt>>

\* A receive or send error; a close frame.
SocketError == Idle /\ Drop(FALSE)
CloseFrame == Idle /\ peer /\ Drop(TRUE)

----------------------------------------------------------------------------
(* The server and the clock. *)

ServerAck ==
  /\ phase = "up" /\ peer /\ flight # <<>>
  /\ flight' = Tail(flight) /\ inbox' = Append(inbox, "ack")
  /\ UNCHANGED <<now, phase, backoff, wakeAt, peer, pending, busy, since, timers, life, deadAt>>

ServerRequest ==
  /\ phase = "up" /\ peer /\ pending < Outstanding
  /\ pending' = pending + 1 /\ inbox' = Append(inbox, "req")
  /\ UNCHANGED <<now, phase, backoff, wakeAt, peer, flight, busy, since, timers, life, deadAt>>

\* The path dies without a TCP error (suspend, NAT, eviction).
PeerDies ==
  /\ peer
  /\ peer' = FALSE /\ deadAt' = now /\ flight' = <<>>
  /\ UNCHANGED <<now, phase, backoff, wakeAt, inbox, pending, busy, since, timers, life>>

\* Time passes unless that breaks an assumption on the environment: an ack, the
\* end of the action in progress or something the idle loop can serve is due.
Clock ==
  /\ now < MaxTime /\ now' = now + 1
  /\ flight # <<>> => now < Head(flight) + AckDelay
  /\ busy => now < since + Handling
  /\ Idle => inbox = <<>> /\ now < tickAt + Lag
  /\ phase = "down" => now < wakeAt
  /\ UNCHANGED <<phase, backoff, wakeAt, peer, wire, busy, since, timers, life, deadAt>>

Next ==
  \/ Dial \/ DialFails \/ HelloAck \/ HelloRefused \/ Stop
  \/ ReadAck \/ ReadRequest \/ FinishAction
  \/ TickBeat \/ TickBurst \/ TickMiss \/ TickKill \/ SocketError \/ CloseFrame
  \/ ServerAck \/ ServerRequest \/ PeerDies \/ Clock

Spec == Init /\ [][Next]_vars

----------------------------------------------------------------------------
(* Properties. *)

TypeOK ==
  /\ now \in 0..MaxTime /\ phase \in {"down", "hello", "up", "stopped"}
  /\ backoff \in 1..MaxBackoff /\ wakeAt \in Nat
  /\ peer \in BOOLEAN /\ inbox \in Seq({"ack", "req"}) /\ flight \in Seq(0..MaxTime)
  /\ pending \in 0..Outstanding
  /\ busy \in BOOLEAN /\ since \in 0..MaxTime
  /\ tickAt \in Nat /\ expected \in {NoBeat} \cup 0..MaxTime /\ misses \in 0..1
  /\ life \in 0..MaxTime /\ deadAt \in 0..MaxTime

\* The watchdog never cuts a connection that gave a sign of life within the last
\* two intervals, however late or bunched the ticks come.
KillNotEarly == [][TickKill => now - life >= 2 * Interval]_vars

\* With one action outstanding at a time a live server is never taken for a
\* zombie, however long the action keeps the loop from reading the acks.
LivePeerKept == [][TickKill => ~peer]_vars

\* A half-dead connection is noticed: no idle loop keeps one longer than this.
Detection == 5 * Interval + Lag
Larger(m, n) == IF m > n THEN m ELSE n
DetectedInTime ==
  Idle /\ ~peer => now <= Larger(deadAt, since) + Detection
============================================================================
