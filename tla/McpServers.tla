---------------------------- MODULE McpServers ----------------------------
(***************************************************************************)
(* The MCP host (mcp_ops.rs): servers the user declared are started on the *)
(* first call that needs them, spoken to in request and response lines,    *)
(* and replaced when a call finds them dead.  Calls come one at a time     *)
(* from the client's loop; beside them run, per server, a reader task that *)
(* routes answers by id and the server itself, which answers late, in any  *)
(* order, with an error, or dies.                                          *)
(*                                                                         *)
(* An instance is one spawned server with its pipe and its pending map.    *)
(* Answers carry the number of the request they were made for, so that     *)
(* taking another request's answer shows.                                  *)
(*                                                                         *)
(* A write to a server waits, outside every timeout, until there is room   *)
(* in the pipe: a pipe that is full for a time only delays it, a server    *)
(* that has stopped reading for good holds it.  The daemon's own end       *)
(* (std::process::exit) drops nothing, and the next daemon knows nothing   *)
(* of the servers it left.                                                 *)
(***************************************************************************)
EXTENDS Integers, Sequences, FiniteSets

CONSTANTS McpNames,   \* the declared servers
          McpSlots,   \* bound: instances ever spawned are 1 .. McpSlots
          McpAsks,    \* bound: requests ever written
          MaxPages    \* MAX_LIST_PAGES

ASSUME McpAssumption == McpSlots \in Nat \ {0} /\ McpAsks \in Nat /\ MaxPages \in Nat \ {0}

VARIABLES inst,     \* instances, in the order they were spawned
          servers,  \* the engine's map: name -> instance, 0 when absent
          call,     \* the call in progress
          asked,    \* requests made so far, which number them
          mcpFull,  \* the call's server has stopped reading, its pipe full
          outlived  \* instances alive when their daemon exited
mcpVars == <<inst, servers, call, asked, mcpFull, outlived>>

NoCall == [stage |-> "idle", name |-> "", op |-> "", at |-> 0, id |-> 0, num |-> 0, page |-> 0, reply |-> <<>>]
Newborn == [alive |-> TRUE, reading |-> TRUE, next |-> 1, pending |-> {}, todo |-> {}, wire |-> <<>>]

McpInit ==
  /\ inst = <<>> /\ servers = [n \in McpNames |-> 0] /\ call = NoCall /\ asked = 0
  /\ mcpFull = FALSE /\ outlived = {}

\* is_alive: the child exists and try_wait has nothing to report.
Alive(k) == k # 0 /\ inst[k].alive
\* A write goes through, or fails since nobody is at the other end.
McpWritable == ~mcpFull \/ ~inst[call.at].alive
\* Dropping or stopping an instance kills its process (kill_on_drop).
Killed(k) == [j \in DOMAIN inst |-> IF j = k THEN [inst[j] EXCEPT !.alive = FALSE, !.todo = {}] ELSE inst[j]]

\* A call of list_tools or call: ensure_running finds a live instance or spawns
\* one outside the map's lock, whose handshake comes first.
McpCall(n, op) ==
  /\ call = NoCall /\ asked + MaxPages + 1 <= McpAsks
  /\ \/ Alive(servers[n])
        /\ call' = [NoCall EXCEPT !.stage = "ask", !.name = n, !.op = op, !.at = servers[n], !.page = 1]
        /\ UNCHANGED inst
     \/ ~Alive(servers[n]) /\ Len(inst) < McpSlots
        /\ inst' = Append(inst, Newborn)
        /\ call' = [NoCall EXCEPT !.stage = "hello", !.name = n, !.op = op, !.at = Len(inst) + 1, !.page = 1]
  /\ UNCHANGED <<servers, asked, mcpFull, outlived>>

\* Mutant: the counter of request ids does not advance.
RegisteredSameId(k, id) == [inst EXCEPT ![k].pending = @ \cup {id}]

\* The oneshot is registered, then the line is written; a write to a dead
\* server may still find room in the pipe, or fail and leave the entry behind.
Registered(k, id) == [inst EXCEPT ![k].next = id + 1, ![k].pending = @ \cup {id}]
Ask ==
  /\ call.stage \in {"hello", "ask"} /\ McpWritable
  /\ LET k == call.at  id == inst[k].next
     IN /\ asked' = asked + 1
        /\ \/ /\ inst' = [Registered(k, id) EXCEPT
                            ![k].todo = IF inst[k].alive THEN @ \cup {[id |-> id, num |-> asked']} ELSE @]
              /\ call' = [call EXCEPT !.stage = IF @ = "hello" THEN "handshake" ELSE "wait",
                                      !.id = id, !.num = asked', !.reply = <<>>]
           \/ ~inst[k].alive /\ inst' = Registered(k, id) /\ call' = NoCall
  /\ mcpFull' = FALSE /\ UNCHANGED <<servers, outlived>>

\* The server answers any request it was sent, well or with an error.
Answer(k, r, ok) ==
  /\ inst[k].alive /\ r \in inst[k].todo
  /\ inst' = [inst EXCEPT ![k].todo = @ \ {r}, ![k].wire = Append(@, [id |-> r.id, num |-> r.num, ok |-> ok])]
  /\ UNCHANGED <<servers, call, asked, mcpFull, outlived>>
McpDies(k) == inst[k].alive /\ inst' = Killed(k) /\ UNCHANGED <<servers, call, asked, mcpFull, outlived>>

\* The server has stopped reading when a request is written to it.  (What a
\* handshake writes always fits into the pipe.)
McpStalls ==
  /\ ~mcpFull /\ mcpFull' = TRUE /\ call.stage = "ask" /\ inst[call.at].alive
  /\ UNCHANGED <<inst, servers, call, asked, outlived>>

Waits(k, id) == call.stage \in {"handshake", "wait"} /\ call.at = k /\ call.id = id
\* The reader routes a line to the sender registered under its id, if any.
RouteLine(k) ==
  /\ inst[k].reading /\ inst[k].wire # <<>>
  /\ LET a == Head(inst[k].wire)
     IN /\ inst' = [inst EXCEPT ![k].wire = Tail(@), ![k].pending = @ \ {a.id}]
        /\ call' = IF a.id \in inst[k].pending /\ Waits(k, a.id) THEN [call EXCEPT !.reply = <<a>>] ELSE call
  /\ UNCHANGED <<servers, asked, mcpFull, outlived>>
\* stdout closed: every pending request fails at once.
DrainPending(k) ==
  /\ inst[k].reading /\ ~inst[k].alive /\ inst[k].wire = <<>>
  /\ inst' = [inst EXCEPT ![k].reading = FALSE, ![k].pending = {}]
  /\ call' = IF call.id \in inst[k].pending /\ Waits(k, call.id)
             THEN [call EXCEPT !.reply = <<[id |-> call.id, num |-> call.num, ok |-> FALSE]>>] ELSE call
  /\ UNCHANGED <<servers, asked, mcpFull, outlived>>

\* The handshake is answered: the notification is written, and the instance
\* takes its name in the map, which drops (and so kills) a dead predecessor.
\* A refused handshake or a failed write drops the new instance instead.
Handshake ==
  /\ call.stage = "handshake" /\ call.reply # <<>>
  /\ \/ call.reply[1].ok
        /\ servers' = [servers EXCEPT ![call.name] = call.at]
        /\ inst' = Killed(servers[call.name]) /\ call' = [call EXCEPT !.stage = "ask"]
     \/ (~call.reply[1].ok \/ ~inst[call.at].alive)
        /\ inst' = Killed(call.at) /\ call' = NoCall /\ UNCHANGED servers
  /\ UNCHANGED <<asked, mcpFull, outlived>>

\* An answer ends a tool call; a page of tools may name a next one.
PageOrResult ==
  /\ call.stage = "wait" /\ call.reply # <<>>
  /\ \/ call' = NoCall
     \/ /\ call.op = "list" /\ call.reply[1].ok /\ call.page < MaxPages
        /\ call' = [call EXCEPT !.stage = "ask", !.page = @ + 1, !.reply = <<>>]
  /\ UNCHANGED <<inst, servers, asked, mcpFull, outlived>>

\* Mutant: the wait relies on the reader to fail it once the server is gone.
TimeoutWhileRead ==
  /\ call.stage \in {"handshake", "wait"} /\ call.reply = <<>> /\ inst[call.at].reading
  /\ inst' = IF call.stage = "handshake" THEN Killed(call.at) ELSE inst
  /\ call' = NoCall /\ UNCHANGED <<servers, asked, mcpFull, outlived>>

\* The timeout fires with no answer; the entry stays in the pending map.  An
\* instance that never finished its handshake is dropped.
CallTimeout ==
  /\ call.stage \in {"handshake", "wait"} /\ call.reply = <<>>
  /\ inst' = IF call.stage = "handshake" THEN Killed(call.at) ELSE inst
  /\ call' = NoCall /\ UNCHANGED <<servers, asked, mcpFull, outlived>>

StopServer(n) ==
  /\ call = NoCall /\ servers[n] # 0
  /\ servers' = [servers EXCEPT ![n] = 0] /\ inst' = Killed(servers[n])
  /\ UNCHANGED <<call, asked, mcpFull, outlived>>

\* Mutant: the children are spawned without kill_on_drop.
DropLeavesServers ==
  /\ inst # <<>> /\ servers' = [n \in McpNames |-> 0] /\ call' = NoCall /\ mcpFull' = FALSE
  /\ UNCHANGED <<inst, asked, outlived>>

\* The client is dropped with its engine, in the middle of a call or not:
\* kill_on_drop takes its instances along.
HostDropped ==
  /\ inst # <<>>
  /\ inst' = [k \in DOMAIN inst |-> [inst[k] EXCEPT !.alive = @ /\ k \in outlived]]
  /\ servers' = [n \in McpNames |-> 0] /\ call' = NoCall /\ mcpFull' = FALSE
  /\ UNCHANGED <<asked, outlived>>

\* The daemon exits: no destructor runs, the servers only see their stdin close.
DaemonExits ==
  /\ inst # <<>>
  /\ outlived' = {k \in DOMAIN inst : inst[k].alive}
  /\ inst' = [k \in DOMAIN inst |-> [Newborn EXCEPT !.alive = inst[k].alive, !.reading = FALSE]]
  /\ servers' = [n \in McpNames |-> 0] /\ call' = NoCall /\ mcpFull' = FALSE /\ UNCHANGED asked

McpReader == \E k \in DOMAIN inst : RouteLine(k) \/ DrainPending(k)
McpCaller == Ask \/ Handshake \/ PageOrResult \/ CallTimeout
McpNext ==
  \/ \E n \in McpNames : StopServer(n) \/ \E op \in {"call", "list"} : McpCall(n, op)
  \/ \E k \in DOMAIN inst : McpDies(k) \/ \E r \in inst[k].todo, ok \in BOOLEAN : Answer(k, r, ok)
  \/ McpReader \/ McpCaller \/ McpStalls \/ HostDropped \/ DaemonExits

\* The runtime keeps polling the call and its timer.
McpFairness == WF_mcpVars(McpCaller)
McpSpec == McpInit /\ [][McpNext]_mcpVars /\ McpFairness
----------------------------------------------------------------------------
\* Type correctness of the host's state.
McpTypeOK ==
  /\ \A k \in DOMAIN inst :
       /\ inst[k].alive \in BOOLEAN /\ inst[k].reading \in BOOLEAN
       /\ inst[k].pending \subseteq 1 .. McpAsks
  /\ Len(inst) <= McpSlots /\ asked \in 0 .. McpAsks
  /\ mcpFull \in BOOLEAN /\ outlived \subseteq DOMAIN inst
  /\ servers \in [McpNames -> 0 .. Len(inst)]
  /\ call.stage \in {"idle", "hello", "handshake", "ask", "wait"}
  /\ call.stage # "idle" => call.at \in DOMAIN inst

\* A call is given the answer to its own request, whatever answers to timed-out
\* requests, earlier pages or a predecessor's requests are still under way
\* (mcp_ops.rs: classify_response and the pending map).
McpOwnAnswer == call.reply # <<>> => call.reply[1].num = call.num

\* A server process that runs is one the engine can still stop: it is in the map
\* or the call in progress is starting it, through failures, timeouts, respawns and
\* dropped clients (mcp_ops.rs: ensure_running, kill_on_drop).  It cannot be said of
\* the daemon's own exit, against mcp_ops.rs:17-18: server.rs:248 ends the process
\* without dropping anything, and what `outlived' holds runs on.
McpNoOrphan ==
  \A k \in DOMAIN inst : inst[k].alive =>
    \/ k \in outlived
    \/ \E n \in McpNames : servers[n] = k
    \/ call.stage \in {"hello", "handshake"} /\ call.at = k
============================================================================
