------------------------ MODULE MCCheckpointHistory ------------------------
(***************************************************************************)
(* The instances of MCCheckpoint, with the store's history.                *)
(***************************************************************************)
EXTENDS MCCheckpoint, CheckpointHistory
============================================================================
