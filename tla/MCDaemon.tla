------------------------------ MODULE MCDaemon ------------------------------
(***************************************************************************)
(* The daemon's connection: the loop that watches over it, and the         *)
(* pairings and unpairings that start and stop that loop.  A behaviour is  *)
(* about one of the two.                                                   *)
(***************************************************************************)
EXTENDS Watchdog, Lifecycle, TLC

CONSTANTS d1, d2, r1, r2, k1, k2

\* Devices, requests and tasks are compared with each other only.
Alike == Permutations({d1, d2}) \cup Permutations({r1, r2}) \cup Permutations({k1, k2})

VARIABLE about

\* The part a behaviour is not about starts in one way only.
MCInit ==
  /\ about \in {"connection", "pairing"} /\ Init /\ LifecycleInit
  /\ about = "connection" => paired = Nobody

MCNext ==
  /\ about' = about
  /\ \/ about = "connection" /\ Next /\ UNCHANGED lifeVars
     \/ about = "pairing" /\ LifecycleNext /\ UNCHANGED vars

MCSpec == MCInit /\ [][MCNext]_<<about, vars, lifeVars>>
=============================================================================
