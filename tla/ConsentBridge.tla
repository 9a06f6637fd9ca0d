--------------------------- MODULE ConsentBridge ---------------------------
(***************************************************************************)
(* The action pipeline of the desktop daemon: the WebSocket read loop      *)
(* (WsClient::connect_once), the capability gate, the consent broker with  *)
(* its two answering surfaces (web cockpit, egui dialog) and the actions   *)
(* parked until the owner decides.                                         *)
(*                                                                         *)
(* Three processes interleave: the read loop, the UI thread and the clock. *)
(* The loop does one thing at a time; while it handles an action it reads  *)
(* no frame, no decision and no tick.  `loop' is its program counter:      *)
(*   off      no connection (dialling, or in the back-off sleep)           *)
(*   idle     in select!, every ready branch may be taken                  *)
(*   asking   path_gate has raised a prompt, the action is not parked yet  *)
(*   running  the operation of action `act' is executing                   *)
(*   stopped  run() returned after a revoke                                *)
(***************************************************************************)
EXTENDS Naturals, Sequences, FiniteSets

CONSTANTS
  Id,        \* action ids
  Scope,     \* capability scopes
  Path,      \* the paths (roots) the actions target
  ArmOf,     \* [Id -> Arm]: which arm of handle_action's match serves it
  ScopeOf,   \* [Id -> Scope]: required_scope of the action
  PathOf,    \* [Id -> Path]: its target
  Grants,    \* scope snapshots the server may send: [scopes, paths] records
  Timeout,   \* CONSENT_TIMEOUT_MS, counted in clock units
  MaxSend,   \* bound: how often the server sends one action id
  NoAct      \* "no action is being handled"

\* "fs": path-gated arms that park; "delete": fs.delete, which does not pass
\* the park marker on; "restore": fs.restore with its own authorization;
\* "shell": shell.execute; "direct": the other arms authorized by their scope
\* alone (memory, pty, browser, eval, ...).
Arm == {"fs", "delete", "restore", "shell", "direct"}
PathArm == {"fs", "delete"}
Approval == {"once", "always"}
Answer == Approval \cup {"deny"}
Decision == [id : Id, answer : Answer]
Gate == [scopes : SUBSET Scope, paths : SUBSET Path]

ASSUME ConstantsAssumption ==
  /\ IsFiniteSet(Id)
  /\ ArmOf \in [Id -> Arm] /\ ScopeOf \in [Id -> Scope] /\ PathOf \in [Id -> Path]
  /\ Grants \subseteq Gate
  /\ Timeout \in Nat /\ MaxSend \in Nat
  /\ NoAct \notin Id

VARIABLES
  loop, act,   \* the read loop and the action it is handling
  link,        \* the socket still reaches the server
  due,         \* the heartbeat interval has a tick ready
  gate,        \* Arc<Mutex<CapabilityGate>>
  parked, age, \* WsClient.parked and how long each entry has been there
  prompts,     \* ConsentState.pending
  hand,        \* UI thread between pending.remove and the notifier push
  queue,       \* the notifier channel
  relayed,     \* prompts the server has received and may answer
  task,        \* the task registry's view of each id
  sends, results, approvals, spent, timely   \* history

loopVars == <<loop, act, link, due>>
brokerVars == <<prompts, hand, queue>>
history == <<sends, results, approvals, spent, timely>>
vars == <<loop, act, link, due, gate, parked, age, prompts, hand, queue,
          relayed, task, sends, results, approvals, spent, timely>>

NoGrant == [scopes |-> {}, paths |-> {}]
Init ==
  /\ loop = "off" /\ act = NoAct /\ link = FALSE /\ due = FALSE
  /\ gate = NoGrant
  /\ parked = {} /\ age = [i \in Id |-> 0]
  /\ prompts = {} /\ hand = {} /\ queue = <<>> /\ relayed = {}
  /\ task = [i \in Id |-> "none"]
  /\ sends = [i \in Id |-> 0] /\ results = [i \in Id |-> 0]
  /\ approvals = [i \in Id |-> 0] /\ spent = [i \in Id |-> 0]
  /\ timely = {}

----------------------------------------------------------------------------
(* What the gate in force says of an action. *)

\* The early "capability not granted" check; fs.restore skips it.
Allowed(g, i) == ArmOf[i] = "restore" \/ ScopeOf[i] \in g.scopes

\* The gate authorizes the target without a human.
Trusted(g, i) ==
  CASE ArmOf[i] \in PathArm -> PathOf[i] \in g.paths
    [] ArmOf[i] = "restore" -> ScopeOf[i] \in g.scopes
    [] OTHER                -> TRUE

\* path_gate stores a remembered path in the shared gate before the action runs.
Remember(g, i, d) ==
  IF ArmOf[i] \in PathArm /\ d = "always"
    THEN [g EXCEPT !.paths = @ \cup {PathOf[i]}] ELSE g

\* send_action_result: finish the task, then write the frame; on a dead
\* socket the frame is lost.
Reply(i) ==
  /\ task' = [task EXCEPT ![i] = "Finished"]
  /\ results' = IF link THEN [results EXCEPT ![i] = @ + 1] ELSE results

\* ConsentBroker::answer as the loop's own thread runs it: drain the prompt and,
\* if it was there, wake the loop.
Wake(order, ans) == [k \in DOMAIN order |-> [id |-> order[k], answer |-> ans]]
Orders(S) ==
  {order \in [1..Cardinality(S) -> S] :
     \A i, j \in DOMAIN order : order[i] = order[j] => i = j}
answer(S, ans) ==
  /\ prompts' = prompts \ S
  /\ \E order \in Orders(S \cap prompts) : queue' = queue \o Wake(order, ans)

----------------------------------------------------------------------------
(* handle_action: d is the owner's decision when a parked action resumes,   *)
(* "none" on first dispatch.                                                *)

\* An error result: the scope is not granted; the frame is unusable (malformed
\* parameters, unknown capability, hard-stopped command), which is seen on first
\* dispatch, or its checkpoint is gone; or the owner said no and the gate alone
\* does not allow the target.
HandleRefuse(i, d) ==
  /\ \/ ~Allowed(gate, i)
     \/ d = "none" \/ ArmOf[i] = "restore"
     \/ ~Trusted(gate, i) /\ d = "deny"
  /\ Reply(i)
  /\ loop' = "idle" /\ act' = NoAct
  /\ UNCHANGED <<gate, spent, relayed>>

\* Mutant: any decision that comes back lets the action run.
RunOnAnyDecision(i, d) ==
  /\ Allowed(gate, i) /\ (Trusted(gate, i) \/ d # "none")
  /\ task' = [task EXCEPT ![i] = "Running"]
  /\ loop' = "running" /\ act' = i
  /\ gate' = IF Trusted(gate, i) THEN gate ELSE Remember(gate, i, d)
  /\ spent' = IF Trusted(gate, i) THEN spent ELSE [spent EXCEPT ![i] = @ + 1]
  /\ UNCHANGED <<results, relayed>>

\* Authorized by the gate in force now, or by the owner's decision.
HandleRun(i, d) ==
  /\ Allowed(gate, i) /\ (Trusted(gate, i) \/ d \in Approval)
  /\ task' = [task EXCEPT ![i] = "Running"]
  /\ loop' = "running" /\ act' = i
  /\ gate' = IF Trusted(gate, i) THEN gate ELSE Remember(gate, i, d)
  /\ spent' = IF Trusted(gate, i) THEN spent ELSE [spent EXCEPT ![i] = @ + 1]
  /\ UNCHANGED <<results, relayed>>

\* Nobody has decided: relay the prompt (best effort) and register it.
HandleAsk(i) ==
  /\ Allowed(gate, i) /\ ~Trusted(gate, i)
  /\ task' = [task EXCEPT ![i] = "Running"]
  /\ loop' = "asking" /\ act' = i
  /\ relayed' = IF link THEN relayed \cup {i} ELSE relayed
  /\ UNCHANGED <<gate, results, spent>>

\* An action_request frame arrives.
RecvRequest(i) ==
  /\ loop = "idle" /\ link /\ sends[i] < MaxSend
  /\ sends' = [sends EXCEPT ![i] = @ + 1]
  /\ \/ HandleRefuse(i, "none") /\ UNCHANGED prompts
     \/ HandleRun(i, "none") /\ UNCHANGED prompts
     \/ HandleAsk(i) /\ prompts' = prompts \cup {i}
  /\ UNCHANGED <<link, due, parked, age, hand, queue, approvals, timely>>

\* handle_action returned AwaitingConsent: the request goes to the map.
Park(i) ==
  /\ loop = "asking" /\ act = i /\ ArmOf[i] # "delete"
  /\ parked' = parked \cup {i} /\ age' = [age EXCEPT ![i] = 0]
  /\ loop' = "idle" /\ act' = NoAct
  /\ UNCHANGED <<link, due, gate, brokerVars, relayed, task, history>>

\* The fs.delete arm reports the park marker as an ordinary error.
DeleteUnparked(i) ==
  /\ loop = "asking" /\ act = i /\ ArmOf[i] = "delete"
  /\ Reply(i)
  /\ loop' = "idle" /\ act' = NoAct
  /\ UNCHANGED <<link, due, gate, parked, age, brokerVars, relayed,
                 sends, approvals, spent, timely>>

\* Mutant: the loop goes back to select! still holding the action.
CompleteKeepsAct(i) ==
  /\ loop = "running" /\ act = i
  /\ Reply(i)
  /\ loop' = "idle"
  /\ UNCHANGED <<act, link, due, gate, parked, age, brokerVars, relayed,
                 sends, approvals, spent, timely>>

\* The operation ends and its result frame is sent.
Complete(i) ==
  /\ loop = "running" /\ act = i
  /\ Reply(i)
  /\ loop' = "idle" /\ act' = NoAct
  /\ UNCHANGED <<link, due, gate, parked, age, brokerVars, relayed,
                 sends, approvals, spent, timely>>

\* A stream frame cannot be written: `?' leaves handle_action and connect_once
\* without a result and without finishing the task.
StreamFailed(i) ==
  /\ loop = "running" /\ act = i /\ ArmOf[i] = "shell" /\ ~link
  /\ loop' = "off" /\ act' = NoAct /\ due' = FALSE
  /\ UNCHANGED <<link, gate, parked, age, brokerVars, relayed, task, history>>

----------------------------------------------------------------------------
(* Decisions. *)

\* History of what the owner decided; `timely' marks approvals given before
\* the declared timeout.
OwnerSays(i, ans) ==
  /\ approvals' = IF ans \in Approval THEN [approvals EXCEPT ![i] = @ + 1] ELSE approvals
  /\ timely' = IF ans \in Approval /\ age[i] <= Timeout THEN timely \cup {i} ELSE timely

\* Mutant: handle_frame wakes the loop although answer() already did.
WebAnswerWakesTwice(i, ans) ==
  /\ loop = "idle" /\ link /\ i \in relayed /\ i \in prompts
  /\ prompts' = prompts \ {i}
  /\ queue' = queue \o <<[id |-> i, answer |-> ans], [id |-> i, answer |-> ans]>>
  /\ OwnerSays(i, ans)
  /\ UNCHANGED <<loopVars, gate, parked, age, hand, relayed, task, sends, results, spent>>

\* The web's answer, relayed in a consent_response frame.  Once another
\* surface has answered, broker.answer returns false and nothing changes.
WebAnswer(i, ans) ==
  /\ loop = "idle" /\ link /\ i \in relayed /\ i \in prompts
  /\ answer({i}, ans)
  /\ OwnerSays(i, ans)
  /\ UNCHANGED <<loopVars, gate, parked, age, hand, relayed, task, sends, results, spent>>

\* The egui dialog: answer() removes the prompt under the broker's lock ...
UiAnswer(i, ans) ==
  /\ hand = {} /\ i \in prompts
  /\ prompts' = prompts \ {i}
  /\ hand' = {[id |-> i, answer |-> ans]}
  /\ OwnerSays(i, ans)
  /\ UNCHANGED <<loopVars, gate, parked, age, queue, relayed, task, sends, results, spent>>

\* Mutant: answer() drains the prompt and never wakes the loop.
UiForgetsToNotify ==
  /\ hand # {} /\ hand' = {}
  /\ UNCHANGED <<loopVars, gate, parked, age, prompts, queue, relayed, task, history>>

\* ... and, the lock released, pushes to the notifier; after run() returned
\* nobody holds the receiver and the push is lost.
UiNotify ==
  /\ hand # {}
  /\ \E h \in hand : queue' = IF loop = "stopped" THEN queue ELSE Append(queue, h)
  /\ hand' = {}
  /\ UNCHANGED <<loopVars, gate, parked, age, prompts, relayed, task, history>>

\* Mutant: the loop reads the parked entry without removing it.
ResumeKeepsParked ==
  /\ loop = "idle" /\ queue # <<>>
  /\ LET i == Head(queue).id
         d == Head(queue).answer
     IN /\ queue' = Tail(queue)
        /\ \/ i \in parked /\ HandleRefuse(i, d)
           \/ i \in parked /\ HandleRun(i, d)
           \/ i \notin parked /\ UNCHANGED <<loop, act, gate, relayed, task, results, spent>>
        /\ timely' = timely \ {i}
  /\ UNCHANGED <<link, due, parked, age, prompts, hand, sends, approvals>>

\* The loop takes a decision from the channel.  A swept or unknown id is dropped.
Resume ==
  /\ loop = "idle" /\ queue # <<>>
  /\ LET i == Head(queue).id
         d == Head(queue).answer
     IN /\ queue' = Tail(queue)
        /\ parked' = parked \ {i}
        /\ age' = [age EXCEPT ![i] = 0]
        /\ \/ i \in parked /\ HandleRefuse(i, d)
           \/ i \in parked /\ HandleRun(i, d)
           \/ i \notin parked /\ UNCHANGED <<loop, act, gate, relayed, task, results, spent>>
        /\ timely' = timely \ {i}
  /\ UNCHANGED <<link, due, prompts, hand, sends, approvals>>

----------------------------------------------------------------------------
(* The clock, the connection and the owner's device. *)

\* One clock unit: parked actions age (saturating) and a heartbeat falls due.
Clock ==
  /\ due' = TRUE
  /\ age' = [i \in Id |-> IF i \in parked /\ age[i] <= Timeout THEN age[i] + 1 ELSE age[i]]
  /\ UNCHANGED <<loop, act, link, gate, parked, brokerVars, relayed, task, history>>

\* What sweep_expired_parked takes out of the map.
Expired == {i \in parked : age[i] > Timeout}

\* Mutant: the sweep empties the map and forgets the broker.
SweepLeavesPrompts ==
  /\ loop = "idle" /\ due
  /\ due' = FALSE
  /\ parked' = parked \ Expired
  /\ age' = [i \in Id |-> IF i \in Expired THEN 0 ELSE age[i]]
  /\ UNCHANGED <<loop, act, link, gate, brokerVars, relayed, task, history>>

\* Mutant: the tick sends its heartbeat and does not sweep.
TickWithoutSweep ==
  /\ loop = "idle" /\ due
  /\ due' = FALSE
  /\ UNCHANGED <<loop, act, link, gate, parked, age, brokerVars, relayed, task, history>>

\* The heartbeat tick sweeps: expired entries leave the map and their prompts
\* are answered "deny".  (The heartbeat itself is modelled in Watchdog.)
HeartbeatTick ==
  /\ loop = "idle" /\ due
  /\ due' = FALSE
  /\ parked' = parked \ Expired
  /\ age' = [i \in Id |-> IF i \in Expired THEN 0 ELSE age[i]]
  /\ answer(Expired, "deny")
  /\ UNCHANGED <<loop, act, link, gate, hand, relayed, task, history>>

\* hello_ack: the server's snapshot replaces the gate; the new interval's
\* first tick is ready at once.
Connect ==
  /\ loop = "off"
  /\ gate' \in Grants
  /\ loop' = "idle" /\ link' = TRUE /\ due' = TRUE
  /\ UNCHANGED <<act, parked, age, brokerVars, relayed, task, history>>

\* The path to the server dies; the loop has not noticed yet.
LinkLost ==
  /\ link /\ link' = FALSE
  /\ UNCHANGED <<loop, act, due, gate, parked, age, brokerVars, relayed, task, history>>

\* connect_once returns (close frame, receive or send error, watchdog).
Disconnect ==
  /\ loop = "idle"
  /\ loop' = "off" /\ link' = FALSE /\ due' = FALSE
  /\ UNCHANGED <<act, gate, parked, age, brokerVars, relayed, task, history>>

\* scope_update replaces the whole snapshot.
ScopeUpdate ==
  /\ loop = "idle" /\ link
  /\ gate' \in Grants
  /\ UNCHANGED <<loopVars, parked, age, brokerVars, relayed, task, history>>

\* The WsClient is gone: its parked map, gate and channel with it; the broker
\* and the task registry outlive it.
DropClient ==
  /\ act' = NoAct /\ link' = FALSE /\ due' = FALSE /\ gate' = NoGrant
  /\ parked' = {} /\ age' = [i \in Id |-> 0] /\ queue' = <<>>
  /\ UNCHANGED <<prompts, hand, relayed, task, history>>

\* A revoke frame, or auth_failed in place of hello_ack: run() returns and the
\* daemon stays disconnected.
Revoke ==
  /\ loop = "off" \/ (loop = "idle" /\ link)
  /\ loop' = "stopped" /\ DropClient

\* Pairing again: the running client task is aborted wherever it is and a
\* fresh one installs its notifier.
Repair == loop' = "off" /\ DropClient

LoopStep ==
  \/ \E i \in Id : RecvRequest(i) \/ Park(i) \/ DeleteUnparked(i)
                      \/ Complete(i) \/ StreamFailed(i)
  \/ \E i \in Id, ans \in Answer : WebAnswer(i, ans)
  \/ Resume \/ HeartbeatTick \/ Connect \/ Disconnect \/ ScopeUpdate
UiStep == UiNotify \/ \E i \in Id, ans \in Answer : UiAnswer(i, ans)
ClientStep == LoopStep \/ UiStep \/ Clock \/ LinkLost
Next == ClientStep \/ Revoke \/ Repair

Spec == Init /\ [][Next]_vars

\* The lifetime of one WsClient: never revoked, never paired again.
ClientSpec == Init /\ [][ClientStep]_vars

\* As ClientSpec, with a scheduler that is never starved: no heartbeat interval
\* goes by inside the UI's call or while an idle loop has something ready.
Starved == hand # {} \/ (loop = "idle" /\ (due \/ queue # <<>>)) \/ loop = "asking"
PunctualStep == LoopStep \/ UiStep \/ LinkLost \/ (~Starved /\ Clock)
PunctualSpec == Init /\ [][PunctualStep]_vars

\* select! polls its ready branches in random order, so a branch ready again
\* and again is taken; a handler that started ends; the client dials again
\* after every disconnection; the UI thread finishes its call.
FairClientSpec ==
  /\ ClientSpec
  /\ WF_vars(Clock) /\ WF_vars(Connect) /\ WF_vars(UiNotify)
  /\ WF_vars(\E i \in Id : Park(i) \/ DeleteUnparked(i) \/ Complete(i))
  /\ SF_vars(Resume) /\ SF_vars(HeartbeatTick)

----------------------------------------------------------------------------
(* Properties. *)

TypeOK ==
  /\ loop \in {"off", "idle", "asking", "running", "stopped"}
  /\ act \in Id \cup {NoAct}
  /\ act = NoAct <=> loop \notin {"asking", "running"}
  /\ link \in BOOLEAN /\ due \in BOOLEAN
  /\ gate \in Gate
  /\ parked \subseteq Id /\ age \in [Id -> 0..(Timeout + 1)]
  /\ prompts \subseteq Id /\ relayed \subseteq Id
  /\ hand \subseteq Decision /\ queue \in Seq(Decision)
  /\ task \in [Id -> {"none", "Running", "Finished"}]
  /\ sends \in [Id -> 0..MaxSend]
  /\ results \in [Id -> Nat] /\ approvals \in [Id -> Nat] /\ spent \in [Id -> Nat]
  /\ timely \subseteq Id

Queued(i) == \E k \in DOMAIN queue : queue[k].id = i
InHand(i) == \E h \in hand : h.id = i
ApprovalsQueued(i) == {k \in DOMAIN queue : queue[k].id = i /\ queue[k].answer \in Approval}
ApprovalsInHand(i) == {h \in hand : h.id = i /\ h.answer \in Approval}

\* A parked action can always still be decided: its prompt is up, or an answer
\* to it is on its way to the loop.  (A parked entry with neither would wait
\* for the sweep whatever the owner does.)
ParkedIsAnswerable ==
  \A i \in parked : i \in prompts \/ InHand(i) \/ Queued(i)

\* Approvals are not multiplied: the operations an approval let through plus
\* the approvals still travelling never exceed the approvals the owner gave,
\* whichever surfaces answer and however often the server sends the id.
ApprovalsNotMultiplied ==
  \A i \in Id : spent[i] + Cardinality(ApprovalsQueued(i))
                  + Cardinality(ApprovalsInHand(i)) <= approvals[i]

\* Every request is answered at most once: results sent plus the work still
\* held for the id never exceed the requests received.
AnsweredAtMostOnce ==
  \A i \in Id : results[i] + (IF i \in parked THEN 1 ELSE 0)
                 + (IF act = i THEN 1 ELSE 0) <= sends[i]

\* With ids sent once and every arm parking, no surface shows a prompt whose
\* answer cannot reach an action.
NoOrphanPrompt ==
  \A i \in prompts : i \in parked \/ (loop = "asking" /\ act = i)

\* Nothing waits for ever: every parked action leaves the map (consent.rs:
\* "short enough that a prompt nobody answers does not sit ... forever").
ParkedIsResolved == \A i \in Id : i \in parked ~> i \notin parked

\* Every prompt comes off the owner's screen, answered or swept.
PromptComesDown == \A i \in Id : i \in prompts ~> i \notin prompts

----------------------------------------------------------------------------
(* What the documentation says and the code does not do. *)

\* The prompt's lifetime and the daemon's are the same: an approval given in
\* time reaches its action.  A decision still queued when the tick comes first
\* is dropped with the swept entry.
TimelyApprovalHonoured ==
  [][\A i \in parked \ parked' : i \in timely => Len(queue') < Len(queue)]_vars

\* "denegar -> respetado": the action the owner denied does not run.  path_gate
\* asks the gate again before it looks at the decision.
DenialRespected ==
  [][Resume /\ Head(queue).answer = "deny" => loop' # "running"]_vars
============================================================================
