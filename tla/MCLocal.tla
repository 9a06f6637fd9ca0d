------------------------------- MODULE MCLocal -------------------------------
(***************************************************************************)
(* What the daemon keeps and starts on the owner's machine: three stores   *)
(* on the disk (undo checkpoints, the chat archive, the agent's memory)    *)
(* and the child processes.  They share no file and no lock, so a          *)
(* behaviour uses one of them.                                             *)
(***************************************************************************)
EXTENDS MCProcesses, MCCheckpoint, ChatStore, MemoryStore

CONSTANTS c1, c2, m1, m2, m3

Belongs == [n \in Notes |-> IF n = m3 THEN c2 ELSE c1]
Words == [c \in Contents |-> {"word", c}]

VARIABLE disk

childVars == <<part, procVars, ringVars, shellVars, ptyVars>>

\* What is not used starts in one way only.
LocalInit ==
  /\ disk \in {"undo", "chats", "memory", "unused"}
  /\ MCInit /\ Init /\ ChatInit /\ MemoryInit
  /\ disk # "unused" => part = "logs"
  /\ disk # "undo" => \A p \in Path : files[p] = Absent
  /\ disk # "chats" => version = 0

LocalNext ==
  /\ disk' = disk
  /\ \/ disk = "unused" /\ MCNext /\ UNCHANGED <<vars, chatVars, memoryVars>>
     \/ disk = "undo" /\ Next /\ UNCHANGED <<childVars, chatVars, memoryVars>>
     \/ disk = "chats" /\ ChatNext /\ UNCHANGED <<childVars, vars, memoryVars>>
     \/ disk = "memory" /\ MemoryNext /\ UNCHANGED <<childVars, vars, chatVars>>

LocalSpec ==
  /\ LocalInit /\ [][LocalNext]_<<disk, childVars, vars, chatVars, memoryVars>>
  /\ ProcFairness /\ ShellFairness
==============================================================================
