------------------------------ MODULE UndoLog ------------------------------
(***************************************************************************)
(* What the checkpoint store promises: a first-in first-out log of the     *)
(* pre-images an undo can bring back.  A pre-image enters as the newest    *)
(* and only the oldest ones are ever given up, whatever crashes.           *)
(***************************************************************************)
EXTENDS Naturals, Sequences

CONSTANT PreImage
VARIABLE log

Init == log = <<>>

Record == \E e \in PreImage : log' = Append(log, e)

Forget == \E n \in 1..Len(log) : log' = SubSeq(log, n + 1, Len(log))

Spec == Init /\ [][Record \/ Forget]_log
============================================================================
