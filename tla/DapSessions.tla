---------------------------- MODULE DapSessions ----------------------------
(***************************************************************************)
(* The debugger engine (dap_ops.rs): named sessions, each a debug adapter  *)
(* spoken to over stdio.  An operation is a short plan of requests; start  *)
(* replaces a session of the same name, and a session enters the map only  *)
(* once its debuggee was launched.  Operations come one at a time from the *)
(* client's loop; beside them run, per adapter, the reader task and the    *)
(* adapter with its debuggee.                                              *)
(*                                                                         *)
(* A stop is known by its number, an output event is 0.  Stack frames are  *)
(* known by the stop they were taken at.                                   *)
(*                                                                         *)
(* A request is written, outside its timeout, once there is room in the    *)
(* pipe: one that is full for a time only delays it, an adapter that has   *)
(* stopped reading for good holds it.                                      *)
(***************************************************************************)
EXTENDS Integers, Sequences, FiniteSets

CONSTANTS DapNames,    \* session names
          DapSlots,    \* bound: adapters ever spawned are 1 .. DapSlots
          DapAsks,     \* bound: requests ever sent
          DapStops,    \* bound: stops and outputs of one debuggee
          EventRing    \* EVENT_RING

ASSUME DapAssumption ==
  DapSlots \in Nat \ {0} /\ DapAsks \in Nat /\ DapStops \in Nat /\ EventRing \in Nat \ {0}

VARIABLES adapter,   \* the adapters, in the order they were spawned
          dapSession,\* the engine's map: name -> adapter, 0 when absent
          dapOp,     \* the operation in progress
          sent,      \* requests sent so far, which number them
          left,      \* adapters alive when their engine was dropped
          dapFull    \* the operation's adapter has stopped reading, its pipe full
dapVars == <<adapter, dapSession, dapOp, sent, left, dapFull>>

\* The requests each operation makes, in order.
Plan == [start |-> <<"initialize", "launch">>, breakpoints |-> <<"setBreakpoints", "configurationDone">>,
         stack |-> <<"stackTrace">>, variables |-> <<"scopes", "variables", "variables">>,
         run |-> <<"continue">>, step |-> <<"next">>, read |-> <<"read">>, stop |-> <<"disconnect">>]
NoOp == [op |-> "none", name |-> "", stage |-> "idle", at |-> 0, plan |-> <<>>, id |-> 0, num |-> 0,
         reply |-> <<>>, then |-> "end"]
NewAdapter == [alive |-> TRUE, reading |-> TRUE, next |-> 1, pending |-> {}, todo |-> {}, wire |-> <<>>,
               ring |-> <<>>, running |-> FALSE, made |-> 0, frame |-> 0]

DapInit ==
  /\ adapter = <<>> /\ dapSession = [n \in DapNames |-> 0] /\ dapOp = NoOp /\ sent = 0 /\ left = {}
  /\ dapFull = FALSE

Begin(op, n, k, plan, then) ==
  dapOp' = [NoOp EXCEPT !.op = op, !.name = n, !.stage = "ask", !.at = k, !.plan = plan, !.then = then]

\* start: the previous session of that name leaves the map and is torn down
\* before its successor is spawned.
DapStart(n) ==
  /\ dapOp = NoOp /\ sent + 4 <= DapAsks /\ Len(adapter) < DapSlots
  /\ IF dapSession[n] # 0
     THEN Begin("start", n, dapSession[n], Plan.stop, "spawn")
     ELSE dapOp' = [NoOp EXCEPT !.op = "start", !.name = n, !.stage = "spawn"]
  /\ dapSession' = [dapSession EXCEPT ![n] = 0] /\ UNCHANGED <<adapter, sent, left, dapFull>>
SpawnAdapter ==
  /\ dapOp.stage = "spawn"
  /\ \/ adapter' = Append(adapter, NewAdapter) /\ Begin("start", dapOp.name, Len(adapter) + 1, Plan.start, "end")
     \/ adapter' = adapter /\ dapOp' = NoOp
  /\ UNCHANGED <<dapSession, sent, left, dapFull>>
DapStop(n) ==
  /\ dapOp = NoOp /\ sent + 4 <= DapAsks /\ dapSession[n] # 0
  /\ Begin("stop", n, dapSession[n], Plan.stop, "end")
  /\ dapSession' = [dapSession EXCEPT ![n] = 0] /\ UNCHANGED <<adapter, sent, left, dapFull>>
\* Any operation on a session in the map; variables needs a frame.
DapCall(n, op) ==
  /\ dapOp = NoOp /\ sent + 4 <= DapAsks /\ dapSession[n] # 0
  /\ op = "variables" => adapter[dapSession[n]].frame # 0
  /\ Begin(op, n, dapSession[n], Plan[op], "end")
  /\ UNCHANGED <<adapter, dapSession, sent, left, dapFull>>
\* events: the ring is drained.
DapEvents(n) ==
  /\ dapOp = NoOp /\ dapSession[n] # 0 /\ adapter[dapSession[n]].ring # <<>>
  /\ adapter' = [adapter EXCEPT ![dapSession[n]].ring = <<>>] /\ UNCHANGED <<dapSession, dapOp, sent, left, dapFull>>

\* What a failed request does to the operation: a disconnect is best effort, a
\* configurationDone too, a start is torn down, anything else just fails.
Failed ==
  CASE Head(dapOp.plan) = "disconnect" -> [dapOp EXCEPT !.stage = "kill", !.reply = <<>>]
    [] Head(dapOp.plan) # "disconnect" /\ dapOp.op = "start" ->
         [dapOp EXCEPT !.stage = "ask", !.plan = Plan.stop, !.reply = <<>>]
    [] OTHER -> NoOp

\* A write goes through, or fails since nobody is at the other end.
DapWritable == ~dapFull \/ ~adapter[dapOp.at].alive

\* request: registered, then written; the write to a dead adapter may fail and
\* leaves the entry behind.
DapSend ==
  /\ dapOp.stage = "ask" /\ DapWritable
  /\ LET k == dapOp.at  id == adapter[k].next
         entered == [adapter EXCEPT ![k].next = id + 1, ![k].pending = @ \cup {id}]
     IN /\ sent' = sent + 1
        /\ \/ /\ adapter' = [entered EXCEPT ![k].todo = IF adapter[k].alive
                               THEN @ \cup {[id |-> id, num |-> sent', command |-> Head(dapOp.plan)]} ELSE @]
              /\ dapOp' = [dapOp EXCEPT !.stage = "wait", !.id = id, !.num = sent', !.reply = <<>>]
           \/ ~adapter[k].alive /\ adapter' = entered /\ dapOp' = Failed
  /\ dapFull' = FALSE /\ UNCHANGED <<dapSession, left>>

\* A reply: the plan goes on, or the operation ends as its kind says.
DapReply ==
  /\ dapOp.stage = "wait" /\ dapOp.reply # <<>>
  /\ LET ok == dapOp.reply[1].ok \/ Head(dapOp.plan) = "configurationDone"
         rest == Tail(dapOp.plan)
     IN /\ dapOp' \in
             IF ~ok \/ Head(dapOp.plan) = "disconnect" THEN {Failed}
             ELSE IF rest # <<>>
             THEN {[dapOp EXCEPT !.stage = "ask", !.plan = rest, !.reply = <<>>]}
                  \cup (IF dapOp.op = "variables" THEN {NoOp} ELSE {})
             ELSE IF dapOp.op \in {"start", "step"} THEN {[dapOp EXCEPT !.stage = "stopped", !.reply = <<>>]}
             ELSE {NoOp}
        /\ adapter' = IF ok /\ dapOp.op = "stack"
                      THEN [adapter EXCEPT ![dapOp.at].frame = adapter[dapOp.at].made] ELSE adapter
  /\ UNCHANGED <<dapSession, sent, left, dapFull>>
DapTimeout ==
  /\ dapOp.stage = "wait" /\ dapOp.reply = <<>>
  /\ adapter' = [adapter EXCEPT ![dapOp.at].pending = @ \ {dapOp.id}]
  /\ dapOp' = IF Head(dapOp.plan) = "configurationDone" THEN NoOp ELSE Failed
  /\ UNCHANGED <<dapSession, sent, left, dapFull>>

\* An adapter whose client is gone: its life is all that matters of it.
Unheld(a) == [NewAdapter EXCEPT !.alive = a.alive, !.reading = FALSE]

\* teardown's end: the child is killed and awaited, the reader aborted; what
\* the client held is dropped with it.
KillAdapter ==
  /\ dapOp.stage = "kill"
  /\ adapter' = [adapter EXCEPT ![dapOp.at] = [Unheld(@) EXCEPT !.alive = FALSE]]
  /\ dapOp' = IF dapOp.then = "spawn" THEN [dapOp EXCEPT !.stage = "spawn"] ELSE NoOp
  /\ UNCHANGED <<dapSession, sent, left, dapFull>>

\* wait_for_stopped: the newest stop in the ring is handed back, or the deadline
\* passes; a start then enters the map.
StopSeen ==
  /\ dapOp.stage = "stopped"
  /\ dapSession' = IF dapOp.op = "start" THEN [dapSession EXCEPT ![dapOp.name] = dapOp.at] ELSE dapSession
  /\ dapOp' = NoOp /\ UNCHANGED <<adapter, sent, left, dapFull>>

\* The adapter answers, stops, prints, or dies.
AdapterAnswers(k, r, ok) ==
  /\ adapter[k].alive /\ r \in adapter[k].todo
  /\ adapter' = [adapter EXCEPT ![k].todo = @ \ {r},
                   ![k].running = @ \/ (ok /\ r.command \in {"launch", "continue", "next"}),
                   ![k].wire = Append(@, [kind |-> "answer", id |-> r.id, num |-> r.num, ok |-> ok])]
  /\ UNCHANGED <<dapSession, dapOp, sent, left, dapFull>>
DebuggeeEvent(k, stops) ==
  /\ adapter[k].alive /\ adapter[k].running /\ adapter[k].made < DapStops
  /\ adapter' = [adapter EXCEPT ![k].made = @ + 1, ![k].running = ~stops,
                   ![k].wire = Append(@, [kind |-> "event", stop |-> IF stops THEN adapter[k].made + 1 ELSE 0])]
  /\ UNCHANGED <<dapSession, dapOp, sent, left, dapFull>>
AdapterDies(k) ==
  /\ adapter[k].alive /\ adapter' = [adapter EXCEPT ![k].alive = FALSE, ![k].todo = {}]
  /\ UNCHANGED <<dapSession, dapOp, sent, left, dapFull>>

\* The adapter has stopped reading when a request is written to it.  (What is
\* written first always fits into the pipe.)
DapStalls ==
  /\ ~dapFull /\ dapFull' = TRUE /\ dapOp.stage = "ask"
  /\ adapter[dapOp.at].alive /\ adapter[dapOp.at].next > 1
  /\ UNCHANGED <<adapter, dapSession, dapOp, sent, left>>

AwaitsId(k, id) == dapOp.stage = "wait" /\ dapOp.at = k /\ dapOp.id = id
\* Mutant: the ring of events is not bounded.
RouteUncapped(k) ==
  /\ adapter[k].reading /\ adapter[k].wire # <<>>
  /\ LET m == Head(adapter[k].wire)
         rest == [adapter EXCEPT ![k].wire = Tail(@)]
     IN \/ /\ m.kind = "answer" /\ adapter' = [rest EXCEPT ![k].pending = @ \ {m.id}]
           /\ dapOp' = IF m.id \in adapter[k].pending /\ AwaitsId(k, m.id)
                       THEN [dapOp EXCEPT !.reply = <<m>>] ELSE dapOp
        \/ /\ m.kind = "event" /\ UNCHANGED dapOp
           /\ adapter' = [rest EXCEPT ![k].ring = Append(@, m.stop)]
  /\ UNCHANGED <<dapSession, sent, left, dapFull>>

\* route_message: answers to the sender registered under their id, events into
\* the ring, whose oldest makes room.
RouteMessage(k) ==
  /\ adapter[k].reading /\ adapter[k].wire # <<>>
  /\ LET m == Head(adapter[k].wire)
         rest == [adapter EXCEPT ![k].wire = Tail(@)]
     IN \/ /\ m.kind = "answer" /\ adapter' = [rest EXCEPT ![k].pending = @ \ {m.id}]
           /\ dapOp' = IF m.id \in adapter[k].pending /\ AwaitsId(k, m.id)
                       THEN [dapOp EXCEPT !.reply = <<m>>] ELSE dapOp
        \/ /\ m.kind = "event" /\ UNCHANGED dapOp
           /\ adapter' = [rest EXCEPT ![k].ring =
                            Append(IF Len(@) >= EventRing THEN Tail(@) ELSE @, m.stop)]
  /\ UNCHANGED <<dapSession, sent, left, dapFull>>
ReaderEnds(k) ==
  /\ adapter[k].reading /\ ~adapter[k].alive /\ adapter[k].wire = <<>>
  /\ adapter' = [adapter EXCEPT ![k].reading = FALSE, ![k].pending = {}]
  /\ dapOp' = IF dapOp.id \in adapter[k].pending /\ AwaitsId(k, dapOp.id)
              THEN [dapOp EXCEPT !.reply = <<[kind |-> "answer", id |-> dapOp.id, num |-> dapOp.num, ok |-> FALSE]>>]
              ELSE dapOp
  /\ UNCHANGED <<dapSession, sent, left, dapFull>>

\* The client is dropped with its engine, or the daemon exits: the adapters were
\* spawned without kill_on_drop and only see their stdin close.  What they say is read by nobody.
DapDropped ==
  /\ adapter # <<>>
  /\ left' = {k \in DOMAIN adapter : adapter[k].alive}
  /\ adapter' = [k \in DOMAIN adapter |-> Unheld(adapter[k])]
  /\ dapSession' = [n \in DapNames |-> 0] /\ dapOp' = NoOp /\ dapFull' = FALSE /\ UNCHANGED sent

DapCaller == SpawnAdapter \/ DapSend \/ DapReply \/ DapTimeout \/ KillAdapter \/ StopSeen
DapAdapter ==
  \E k \in DOMAIN adapter :
    \/ RouteMessage(k) \/ ReaderEnds(k) \/ AdapterDies(k)
    \/ \E stops \in BOOLEAN : DebuggeeEvent(k, stops)
    \/ \E r \in adapter[k].todo, ok \in BOOLEAN : AdapterAnswers(k, r, ok)
DapNext ==
  \/ \E n \in DapNames :
       DapStart(n) \/ DapStop(n) \/ DapEvents(n)
         \/ \E op \in {"breakpoints", "stack", "variables", "run", "step", "read"} : DapCall(n, op)
  \/ DapCaller \/ DapAdapter \/ DapStalls \/ DapDropped

DapFairness == WF_dapVars(DapCaller)
DapSpec == DapInit /\ [][DapNext]_dapVars /\ DapFairness
----------------------------------------------------------------------------
\* Type correctness of the engine's state; a frame belongs to the debuggee it
\* was taken from.
DapTypeOK ==
  /\ \A k \in DOMAIN adapter :
       /\ adapter[k].alive \in BOOLEAN /\ adapter[k].reading \in BOOLEAN
       /\ adapter[k].pending \subseteq 1 .. DapAsks
       /\ Len(adapter[k].ring) <= EventRing /\ adapter[k].frame \in 0 .. adapter[k].made
  /\ dapSession \in [DapNames -> 0 .. Len(adapter)] /\ left \subseteq DOMAIN adapter
  /\ dapOp.stage \in {"idle", "spawn", "ask", "wait", "kill", "stopped"} /\ sent \in 0 .. DapAsks
  /\ dapFull \in BOOLEAN

\* A request is given the answer made for it, although answers to requests that
\* timed out may still arrive (dap_ops.rs: route_message).
DapOwnAnswer == dapOp.reply # <<>> => dapOp.reply[1].num = dapOp.num

\* Whatever request fails, times out, is refused or cannot be written on the way, a
\* live adapter is in the map or held by the operation in progress as long as its
\* client lives (dap_ops.rs: start, teardown).  A client that goes leaves its adapters
\* behind, dap_ops.rs:137-141 spawns them without kill_on_drop: these are `left`.
DapNoOrphan ==
  \A k \in DOMAIN adapter : adapter[k].alive =>
    k \in left \/ dapOp.at = k \/ \E n \in DapNames : dapSession[n] = k
============================================================================
