----------------------------- MODULE MCConsent -----------------------------
(***************************************************************************)
(* Small instances of the action pipeline: two or three action ids, one    *)
(* arm each, two roots of which the server may grant one.                  *)
(***************************************************************************)
EXTENDS ConsentRefinement

CONSTANTS a, b, c,       \* action ids
          write, undo,   \* capability scopes (undo: desktop.fs.restore)
          p, q           \* paths

\* Nothing granted; the scope without the path; scope and path; everything.
Snapshots ==
  {[scopes |-> {}, paths |-> {}],
   [scopes |-> {write}, paths |-> {q}],
   [scopes |-> {write}, paths |-> {p}],
   [scopes |-> {write, undo}, paths |-> {q}]}
\* Nothing, or both scopes without the path.
SnapshotsFew ==
  {[scopes |-> {}, paths |-> {}], [scopes |-> {write, undo}, paths |-> {q}]}
\* The owner grants the scope and never the path.
SnapshotScopeOnly == {[scopes |-> {write}, paths |-> {q}]}

OnPathP == [i \in Id |-> p]
AllWrite == [i \in Id |-> write]

\* Two actions that park, on the same path.
ArmParking == [i \in Id |-> "fs"]
\* A write, an undo and a shell command.
ArmSession == [i \in Id |-> CASE i = a -> "fs" [] i = b -> "restore" [] OTHER -> "shell"]
ScopeSession == [i \in Id |-> IF i = b THEN undo ELSE write]
\* A write and a delete.
ArmWriteDelete == [i \in Id |-> IF i = a THEN "fs" ELSE "delete"]
============================================================================
