-------------------------- MODULE ConsentContract --------------------------
(***************************************************************************)
(* What the action pipeline promises the owner of the device, whatever the *)
(* transport, the surfaces and the timers do: an action runs at most once, *)
(* one at a time, and only while its capability is granted and either the  *)
(* gate alone opens its target or the owner approved it while it waited.   *)
(***************************************************************************)
CONSTANT Id

VARIABLES
  phase,      \* [Id -> Phases]
  approved,   \* the ids the owner has approved
  permitted,  \* the ids whose capability is granted now
  open        \* the ids the gate would run now without asking

vars == <<phase, approved, permitted, open>>
Phases == {"idle", "waiting", "running", "closed"}

Init ==
  /\ phase = [i \in Id |-> "idle"]
  /\ approved = {}
  /\ permitted \in SUBSET Id /\ open \in SUBSET permitted

\* A request the gate cannot decide alone waits for the owner.
Ask(i) ==
  /\ phase[i] = "idle" /\ i \in permitted \ open
  /\ phase' = [phase EXCEPT ![i] = "waiting"]
  /\ UNCHANGED <<approved, permitted, open>>

\* The owner says yes, possibly after the action was given up.
Approve(i) ==
  /\ phase[i] # "idle"
  /\ approved' = approved \cup {i}
  /\ UNCHANGED <<phase, permitted, open>>

\* The operation begins.  Remembering the answer may open further targets.
Start(i) ==
  /\ phase[i] \in {"idle", "waiting"}
  /\ \A j \in Id : phase[j] # "running"
  /\ i \in permitted
  /\ i \in open \/ (phase[i] = "waiting" /\ i \in approved)
  /\ phase' = [phase EXCEPT ![i] = "running"]
  /\ open \subseteq open' /\ open' \subseteq permitted
  /\ UNCHANGED <<approved, permitted>>

\* Actions end, are refused, expire or are abandoned with their client.
Close(S) ==
  /\ phase' = [i \in Id |-> IF i \in S THEN "closed" ELSE phase[i]]
  /\ UNCHANGED approved

\* The server replaces the grants.
Regrant ==
  /\ permitted' \in SUBSET Id /\ open' \in SUBSET permitted'
  /\ UNCHANGED <<phase, approved>>

Next ==
  \/ \E i \in Id : Ask(i) \/ Approve(i) \/ Start(i)
  \/ \E S \in SUBSET Id : Close(S) /\ UNCHANGED <<permitted, open>>
  \* the client goes away: whatever is in progress is abandoned, nothing is granted
  \/ /\ Close({i \in Id : phase[i] \in {"waiting", "running"}})
     /\ permitted' \in SUBSET Id /\ open' \in SUBSET permitted'
  \/ Regrant

Spec == Init /\ [][Next]_vars
============================================================================
