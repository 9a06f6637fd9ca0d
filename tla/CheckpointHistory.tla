------------------------- MODULE CheckpointHistory -------------------------
(***************************************************************************)
(* The undo store with its history, to compare what it still holds with    *)
(* what its declared limits promise.                                       *)
(***************************************************************************)
EXTENDS CheckpointStore

VARIABLES taken, \* every entry captured so far
          done   \* those whose mutation or undo was carried out

historyVars == <<vars, taken, done>>

InitHistory == Init /\ taken = {} /\ done = {}

Observe ==
  /\ taken' = IF pc' = "blob" THEN taken \cup {cur'} ELSE taken
  /\ done' = IF pc = "ready" /\ pc' = "idle" /\ files' # files THEN done \cup {cur} ELSE done

HistorySpec == InitHistory /\ [][Next /\ Observe]_historyVars

\* "Toda mutacion fs del agente es reversible dentro de los limites
\* declarados": a file the store can keep stays restorable until MaxCheckpoints
\* newer captures, or newer bytes beyond MaxTotalBytes, push it out.
ReversibleWithinLimits ==
  pc = "idle" =>
    \A e \in done :
      /\ e.pre \in Kept
      /\ Cardinality({f \in taken : f.ts >= e.ts}) <= MaxCheckpoints
      /\ TotalSize({f \in taken : f.ts >= e.ts /\ f.pre \in Kept}) <= MaxTotalBytes
      => e \in index /\ Intact(e)
============================================================================
