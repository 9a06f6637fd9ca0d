--------------------------- MODULE ManagedProcess ---------------------------
(***************************************************************************)
(* Processes that outlive a call (proc_ops.rs) and shell commands, as the  *)
(* executors behind the task registry.  The client's read loop serves one  *)
(* call at a time; every process has a monitor task of its own, which      *)
(* waits for the child or its cancellation and then publishes the outcome  *)
(* in three places, one after the other.                                   *)
(***************************************************************************)
EXTENDS TaskRegistry

VARIABLES
  child,   \* id -> "none", "alive", "dead"
  outcome, \* id -> what its executor makes of the child's end, and has not reported, or "none"
  mon,     \* process -> where its monitor is
  table,   \* process -> ProcEngine.procs: "absent", "running" or the outcome
  loop     \* the read loop: [at, id]

procVars == <<registry, child, outcome, mon, table, loop>>
procs == <<child, outcome, mon, table>>

At(place, id) == [at |-> place, id |-> id]
Idle == At("idle", Nobody)
\* The read loop holds the lock of the process table.
TableLocked == loop.at \in {"table", "polling"}

ProcInit ==
  /\ RegistryInit
  /\ child = [i \in Ids |-> "none"] /\ outcome = [i \in Ids |-> "none"]
  /\ mon = [p \in Procs |-> "none"] /\ table = [p \in Procs |-> "absent"]
  /\ loop = Idle

----------------------------------------------------------------------------
(* ProcEngine::start, in the order of the code: the monitor is running     *)
(* before the process is recorded, cancellable or in the table.            *)

StartSpawn(p) ==
  /\ loop = Idle /\ child[p] = "none"
  /\ child' = [child EXCEPT ![p] = "alive"] /\ mon' = [mon EXCEPT ![p] = "waiting"]
  /\ loop' = At("spawned", p)
  /\ UNCHANGED <<registry, outcome, table>>

StartRecord ==
  /\ loop.at = "spawned" /\ Record(loop.id) /\ loop' = At("recorded", loop.id)
  /\ UNCHANGED <<tokens, cancelled, killing, procs>>

StartRegister ==
  /\ loop.at = "recorded" /\ RegisterToken(loop.id) /\ loop' = At("registered", loop.id)
  /\ UNCHANGED <<tasks, cancelled, killing, procs>>

StartInsert ==
  /\ loop.at = "registered"
  /\ table' = [table EXCEPT ![loop.id] = "running"] /\ loop' = At("table", loop.id)
  /\ UNCHANGED <<registry, child, outcome, mon>>

----------------------------------------------------------------------------
(* The other operations on the table. *)

\* logs, list.
ReadTable ==
  /\ loop = Idle /\ loop' = At("table", Nobody)
  /\ UNCHANGED <<registry, procs>>

Signal(p) ==
  /\ loop = Idle /\ table[p] = "running"
  /\ cancelled' = cancelled \cup {p} /\ loop' = At("table", p)
  /\ UNCHANGED <<tasks, tokens, killing, procs>>

Release == loop.at = "table" /\ loop' = Idle /\ UNCHANGED <<registry, procs>>

\* wait polls the table until the process left Running or the deadline.
Wait(p) ==
  /\ loop = Idle /\ table[p] # "absent" /\ loop' = At("waiting", p)
  /\ UNCHANGED <<registry, procs>>
Poll ==
  /\ loop.at = "waiting" /\ loop' = At("polling", loop.id)
  /\ UNCHANGED <<registry, procs>>
PollDone ==
  /\ loop.at = "polling"
  /\ loop' = IF table[loop.id] = "running" THEN At("waiting", loop.id) ELSE Idle
  /\ UNCHANGED <<registry, procs>>
WaitDeadline == loop.at = "waiting" /\ loop' = Idle /\ UNCHANGED <<registry, procs>>

----------------------------------------------------------------------------
(* monitor(). *)

ChildExits(i) ==
  /\ child[i] = "alive" /\ child' = [child EXCEPT ![i] = "dead"]
  /\ UNCHANGED <<registry, outcome, mon, table, loop>>

\* The cancelled branch of select!: TERM to the group, ...
MonitorTerm(p) ==
  /\ mon[p] = "waiting" /\ p \in cancelled
  /\ mon' = [mon EXCEPT ![p] = "killing"]
  /\ UNCHANGED <<registry, child, outcome, table, loop>>

\* Mutant: a child that ignores TERM is waited for.
ReapWithoutKill(p) ==
  /\ mon[p] = "killing" /\ child[p] = "dead"
  /\ mon' = [mon EXCEPT ![p] = "ended"] /\ outcome' = [outcome EXCEPT ![p] = "killed"]
  /\ UNCHANGED <<registry, child, table, loop>>

\* ... wait, KILL after two seconds, reap.
MonitorReap(p) ==
  /\ mon[p] = "killing"
  /\ child' = [child EXCEPT ![p] = "dead"]
  /\ mon' = [mon EXCEPT ![p] = "ended"] /\ outcome' = [outcome EXCEPT ![p] = "killed"]
  /\ UNCHANGED <<registry, table, loop>>

\* child.wait(): an exit code, a signal, or an error.
MonitorWaited(p) ==
  /\ mon[p] = "waiting" /\ child[p] = "dead"
  /\ mon' = [mon EXCEPT ![p] = "ended"]
  /\ \E o \in Terminal : outcome' = [outcome EXCEPT ![p] = o]
  /\ UNCHANGED <<registry, child, table, loop>>

\* try_lock: a table in use, or without the process yet, is left as it is.
MonitorPublish(p) ==
  /\ mon[p] = "ended" /\ mon' = [mon EXCEPT ![p] = "published"]
  /\ table' = IF TableLocked \/ table[p] = "absent" THEN table
              ELSE [table EXCEPT ![p] = outcome[p]]
  /\ UNCHANGED <<registry, child, outcome, loop>>

MonitorUpdate(p) ==
  /\ mon[p] = "published" /\ mon' = [mon EXCEPT ![p] = "done"]
  /\ Update(p, outcome[p]) /\ outcome' = [outcome EXCEPT ![p] = "none"]
  /\ UNCHANGED <<cancelled, killing, child, table, loop>>

----------------------------------------------------------------------------
(* A shell action in the read loop (ws_client.rs). *)

ActionBegin(a) ==
  /\ loop = Idle /\ child[a] = "none" /\ Record(a) /\ loop' = At("begun", a)
  /\ UNCHANGED <<tokens, cancelled, killing, procs>>

\* The token is registered, the command spawned, its output streamed.
ActionRun ==
  /\ loop.at = "begun" /\ RegisterToken(loop.id)
  /\ child' = [child EXCEPT ![loop.id] = "alive"] /\ loop' = At("running", loop.id)
  /\ UNCHANGED <<tasks, cancelled, killing, outcome, mon, table>>

\* await_result: the child ended, by itself, by the timeout or by the token.
ActionFinish ==
  /\ loop.at = "running"
  /\ child[loop.id] = "dead" \/ loop.id \in cancelled
  /\ child' = [child EXCEPT ![loop.id] = "dead"]
  /\ \E o \in Terminal : outcome' = [outcome EXCEPT ![loop.id] = o]
  /\ loop' = At("finished", loop.id)
  /\ UNCHANGED <<registry, mon, table>>

\* send_action_result.
ActionReport ==
  /\ loop.at = "finished" /\ Update(loop.id, outcome[loop.id]) /\ loop' = Idle
  /\ outcome' = [outcome EXCEPT ![loop.id] = "none"]
  /\ UNCHANGED <<cancelled, killing, child, mon, table>>

\* The stream's `?': the handler returns and the command is left to itself.
ActionAbandoned == loop.at = "running" /\ loop' = Idle /\ UNCHANGED <<registry, procs>>

\* Pairing anew aborts the client at an await and builds another, with a table
\* of its own; processes, monitors and the registry stay.
ClientReplaced ==
  /\ loop.at \in {"idle", "registered", "waiting", "running"}
  /\ loop' = Idle /\ table' = [p \in Procs |-> "absent"]
  /\ UNCHANGED <<registry, child, outcome, mon>>

----------------------------------------------------------------------------
UiStep ==
  /\ Refresh \/ KillMark \/ \E i \in Ids : KillCancel(i)
  /\ UNCHANGED <<procs, loop>>
LoopStep ==
  \/ StartRecord \/ StartRegister \/ StartInsert \/ ReadTable \/ Release
  \/ Poll \/ PollDone \/ WaitDeadline
  \/ ActionRun \/ ActionFinish \/ ActionReport \/ ActionAbandoned
  \/ ClientReplaced
  \/ \E p \in Procs : StartSpawn(p) \/ Signal(p) \/ Wait(p)
  \/ \E a \in Actions : ActionBegin(a)
MonitorStep(p) ==
  \/ MonitorTerm(p) \/ MonitorReap(p) \/ MonitorWaited(p)
  \/ MonitorPublish(p) \/ MonitorUpdate(p)
ProcNext ==
  \/ UiStep \/ LoopStep
  \/ \E p \in Procs : MonitorStep(p)
  \/ \E i \in Ids : ChildExits(i)

\* A monitor is a task of the runtime: it runs whenever it is ready.
ProcFairness == \A p \in Procs : WF_procVars(MonitorStep(p))

----------------------------------------------------------------------------
(* Properties. *)

ProcTypeOK ==
  /\ RegistryTypeOK
  /\ child \in [Ids -> {"none", "alive", "dead"}]
  /\ outcome \in [Ids -> Terminal \cup {"none"}]
  /\ mon \in [Procs -> {"none", "waiting", "killing", "ended", "published", "done"}]
  /\ table \in [Procs -> Terminal \cup {"absent", "running"}]
  /\ loop \in [at : {"idle", "spawned", "recorded", "registered", "table", "waiting", "polling",
                     "begun", "running", "finished"},
               id : Ids \cup {Nobody}]

\* Nothing is reported ended while its child lives, neither in the task list (of
\* which the window shows a copy) nor in the process table.  A kill shows as Cancelling until the
\* executor has reaped the child (task_registry.rs:161-163, shell.rs:342-343).
TerminalIsTrue ==
  \A i \in Ids : child[i] # "dead" =>
    /\ Terminal \cap StatusesOf(tasks, i) = {}
    /\ i \in Procs => table[i] \notin Terminal

\* A managed process that runs can be killed by the owner, whatever became of
\* the client that started it (proc_ops.rs:14-16).
RunningIsKillable ==
  \A p \in Procs :
    mon[p] \in {"waiting", "killing"} /\ loop \notin {At("spawned", p), At("recorded", p)}
      => p \in tokens

\* A task whose child lives leaves the list only because the list was full,
\* never because of its age or of another task's end.
LiveTaskDroppedOnlyByCap ==
  [][\A i \in IdsOf(tasks) :
       child[i] = "alive" /\ i \notin IdsOf(tasks)' => Len(tasks) = MaxTasks]_procVars

\* A cancelled process dies and its monitor finishes, whoever cancelled it.
CancelledProcessEnds ==
  \A p \in Procs : (p \in cancelled /\ child[p] = "alive") ~> (mon[p] = "done" /\ child[p] = "dead")
============================================================================
