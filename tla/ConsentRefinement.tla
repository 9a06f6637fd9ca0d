------------------------- MODULE ConsentRefinement -------------------------
(***************************************************************************)
(* ConsentBridge implements ConsentContract when the server sends each     *)
(* action id once (MaxSend = 1): the phase of an action is read off the    *)
(* loop, the parked map and the history.                                   *)
(***************************************************************************)
EXTENDS ConsentBridge

PhaseOf(i) ==
  IF sends[i] = 0 THEN "idle"
  ELSE IF act = i /\ loop = "running" THEN "running"
  ELSE IF i \in parked \/ act = i THEN "waiting"
  ELSE "closed"

Contract == INSTANCE ConsentContract WITH
  phase     <- [i \in Id |-> PhaseOf(i)],
  approved  <- {i \in Id : approvals[i] > 0},
  permitted <- {i \in Id : Allowed(gate, i)},
  open      <- {i \in Id : Allowed(gate, i) /\ Trusted(gate, i)}

\* The pipeline never does what the contract forbids: no second run, no two
\* runs at once, none without a grant and either an open target or an approval
\* given while the action waited.
ImplementsContract == Contract!Spec
============================================================================
