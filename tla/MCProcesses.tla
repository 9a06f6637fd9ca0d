----------------------------- MODULE MCProcesses -----------------------------
(***************************************************************************)
(* The parts of the daemon that own child processes.  They share no state  *)
(* (ManagedProcess, with the task registry it composes with, sees a shell  *)
(* action as one executor), so they are checked side by side: a behaviour  *)
(* runs one of them while the others stay as they were built.              *)
(***************************************************************************)
EXTENDS ManagedProcess, LogRing, ShellCommand, TerminalSessions

VARIABLE part

Parts == {"processes", "logs", "shell", "terminal"}

MCInit == part \in Parts /\ ProcInit /\ RingInit /\ ShellInit /\ PtyInit

MCNext ==
  /\ part' = part
  /\ \/ part = "processes" /\ ProcNext /\ UNCHANGED <<ringVars, shellVars, ptyVars>>
     \/ part = "logs" /\ RingNext /\ UNCHANGED <<procVars, shellVars, ptyVars>>
     \/ part = "shell" /\ ShellNext /\ UNCHANGED <<procVars, ringVars, ptyVars>>
     \/ part = "terminal" /\ PtyNext /\ UNCHANGED <<procVars, ringVars, shellVars>>

MCSpec ==
  /\ MCInit /\ [][MCNext]_<<part, procVars, ringVars, shellVars, ptyVars>>
  /\ ProcFairness /\ ShellFairness

\* The specification of a shell command alone.
ShellSpec ==
  /\ part = "shell" /\ ProcInit /\ RingInit /\ ShellInit /\ PtyInit
  /\ [][MCNext]_<<part, procVars, ringVars, shellVars, ptyVars>>
  /\ ShellFairness

TypesOK == ProcTypeOK /\ RingTypeOK /\ ShellTypeOK /\ PtyTypeOK
============================================================================
