---------------------------- MODULE TaskRegistry ----------------------------
(***************************************************************************)
(* The global task list and cancellation map of task_registry.rs, and the  *)
(* user interface's two loops over them (daemon-cli/src/main.rs): one      *)
(* drops stale records and hands the window a copy of the list, one kills  *)
(* a task the owner chose in that copy.  Each structure has a lock of its  *)
(* own, so a kill is two steps.  The window's copy is the list as it was at *)
(* some earlier time and is left out.                                      *)
(***************************************************************************)
EXTENDS Integers, Sequences, FiniteSets

CONSTANTS
  Procs,     \* ids of managed processes
  Actions,   \* ids of action requests that run a shell command
  MaxTasks,  \* the 200 records the global list keeps
  Nobody     \* not an id

Ids == Procs \cup Actions
ASSUME RegistryAssumption == Nobody \notin Ids /\ MaxTasks \in Nat \ {0}

VARIABLES
  tasks,     \* SHARED_TASKS
  tokens,    \* SHARED_CANCELLATIONS: the ids whose token is registered
  cancelled, \* the ids whose token has been cancelled
  killing    \* the id the kill loop has cancelled and not marked yet

registry == <<tasks, tokens, cancelled, killing>>

\* "ended" stands for Completed and Failed.
Terminal == {"ended", "killed"}
Status == Terminal \cup {"running", "cancelling"}

RegistryInit ==
  /\ tasks = <<>> /\ tokens = {} /\ cancelled = {} /\ killing = Nobody

IdsOf(list) == {list[i].id : i \in DOMAIN list}
StatusesOf(list, id) == {list[i].status : i \in {j \in DOMAIN list : list[j].id = id}}
SetStatus(list, id, s) ==
  [i \in DOMAIN list |-> IF list[i].id = id THEN [list[i] EXCEPT !.status = s] ELSE list[i]]

\* The drain of the oldest records.
Newest(list) ==
  IF Len(list) > MaxTasks THEN SubSeq(list, Len(list) - MaxTasks + 1, Len(list)) ELSE list

\* Mutant: the list is not drained.
RecordUncapped(id) ==
  tasks' = IF id \in IdsOf(tasks)
           THEN SetStatus(tasks, id, "running")
           ELSE Append(tasks, [id |-> id, status |-> "running"])

\* record_global_task, with status Running as every caller passes it.
Record(id) ==
  tasks' = Newest(IF id \in IdsOf(tasks)
                  THEN SetStatus(tasks, id, "running")
                  ELSE Append(tasks, [id |-> id, status |-> "running"]))

RegisterToken(id) == tokens' = tokens \cup {id}

\* Mutant: any change of status unregisters the token.
UpdateUnregisters(id, s) ==
  tasks' = SetStatus(tasks, id, s) /\ tokens' = tokens \ {id}

\* update_global_task: a terminal status unregisters the token.  (The two locks
\* are taken one after the other; what can fall in between is a kill, which
\* does the same there as before the update.)
Update(id, s) ==
  /\ tasks' = SetStatus(tasks, id, s)
  /\ tokens' = IF s \in Terminal THEN tokens \ {id} ELSE tokens

----------------------------------------------------------------------------
(* The loops of the user interface.  `reg' is write-locked by each. *)

\* The records at some places of a list, in their order.
Remaining(list, places) ==
  [k \in 1 .. Cardinality(places) |->
     list[CHOOSE i \in places : Cardinality({j \in places : j <= i}) = k]]

\* Mutant: the record's age is looked at, whatever its status.
RefreshDropsRunning ==
  /\ killing = Nobody
  /\ \E gone \in SUBSET DOMAIN tasks : tasks' = Remaining(tasks, DOMAIN tasks \ gone)
  /\ UNCHANGED <<tokens, cancelled, killing>>

\* cleanup_stale_tasks, then states(): some terminal records have reached
\* their age.
Refresh ==
  /\ killing = Nobody
  /\ \E gone \in SUBSET {i \in DOMAIN tasks : tasks[i].status \in Terminal} :
       tasks' = Remaining(tasks, DOMAIN tasks \ gone)
  /\ UNCHANGED <<tokens, cancelled, killing>>

\* kill_task for a task that the window, perhaps out of date, shows as running.
\* No handle is ever stored (spawn_task has no caller): cancel_global_task, ...
KillCancel(id) ==
  /\ killing = Nobody /\ id \in tokens
  /\ cancelled' = cancelled \cup {id} /\ killing' = id
  /\ UNCHANGED <<tasks, tokens>>

\* Mutant: the task is reported killed as soon as its token is cancelled.
MarkKilled ==
  /\ killing # Nobody /\ killing' = Nobody
  /\ Update(killing, "killed")
  /\ UNCHANGED cancelled

\* ... and then mark_status(Cancelling), whatever happened meanwhile.
KillMark ==
  /\ killing # Nobody /\ killing' = Nobody
  /\ Update(killing, "cancelling")
  /\ UNCHANGED cancelled

----------------------------------------------------------------------------
TaskRecord == [id : Ids, status : Status]
RegistryTypeOK ==
  /\ tasks \in Seq(TaskRecord) /\ Len(tasks) <= MaxTasks
  /\ tokens \subseteq Ids /\ cancelled \subseteq Ids /\ killing \in Ids \cup {Nobody}
  /\ \A i, j \in DOMAIN tasks : tasks[i].id = tasks[j].id => i = j
============================================================================
