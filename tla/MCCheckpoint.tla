---------------------------- MODULE MCCheckpoint ----------------------------
(***************************************************************************)
(* Two files, one content the store keeps, one it does not, a folder.      *)
(***************************************************************************)
EXTENDS CheckpointStore

CONSTANTS f, g, small, huge, folder

Bytes == [c \in Content |-> CASE c = huge -> 5 [] c = Absent -> 0 [] OTHER -> 1]
=============================================================================
