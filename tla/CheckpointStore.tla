-------------------------- MODULE CheckpointStore --------------------------
(***************************************************************************)
(* The undo store of the desktop daemon (checkpoint.rs) under the actions  *)
(* that use it: every write, patch, AST edit and delete captures the       *)
(* target's pre-image first, and an undo captures the current content      *)
(* before it overwrites it.  Blobs, index and files are durable; a crash   *)
(* or an I/O error may end the operation between any two of their updates. *)
(***************************************************************************)
EXTENDS Naturals, Sequences, FiniteSets, FiniteSetsExt

CONSTANTS
  Path,           \* the files the agent touches
  Content,        \* what a path can hold, Absent and Torn included
  Absent,         \* nothing there
  Torn,           \* a file of which only a part was written
  Folders,        \* the contents that are directories
  SizeOf,         \* [Content -> Nat]: bytes of a file, children of a folder
  MaxCheckpoints, \* MAX_CHECKPOINTS
  MaxTotalBytes,  \* MAX_TOTAL_BYTES
  MaxFileBytes,   \* MAX_FILE_BYTES
  MaxWriteBytes,  \* MAX_WRITE_BYTES of fs_ops.rs
  MaxStamp        \* bound: how many captures a behaviour makes

ASSUME StoreAssumption ==
  /\ Absent \in Content /\ Torn \in Content /\ Folders \subseteq Content
  /\ Absent \notin Folders /\ Torn \notin Folders /\ Absent # Torn
  /\ SizeOf \in [Content -> Nat] /\ SizeOf[Absent] = 0
  /\ MaxCheckpoints \in Nat \ {0} /\ MaxTotalBytes \in Nat
  /\ MaxFileBytes \in Nat /\ MaxWriteBytes \in Nat /\ MaxStamp \in Nat

\* The pre-images whose bytes are kept; folders and larger files are recorded
\* without their content (`truncated').
Kept == {c \in Content \ Folders : c # Absent /\ SizeOf[c] <= MaxFileBytes}

Stamp == 1..MaxStamp
\* An index line.  existed, size, truncated and hash are functions of `pre'.
Entry == [ts : Stamp, path : Path, pre : Content]
NoEntry == [ts |-> 0]
\* What the operation in progress will do once the capture succeeded.
Goal == [kind : {"put"}, data : Content] \cup [kind : {"undo"}, entry : Entry]
NoGoal == [kind |-> "none"]

VARIABLES
  files,     \* [Path -> Content]: the owner's disk
  index,     \* index.jsonl
  blobs,     \* [Stamp -> Content]: the .blob files, Absent where there is none
  clock,     \* the last now_ms() taken: captures get distinct, growing stamps
  pc,        \* where the operation in progress stands
  cur, goal, \* the entry it captures, what it is for
  kept       \* enforce_limits' entries, in memory

store == <<index, blobs>>
vars == <<files, index, blobs, clock, pc, cur, goal, kept>>

Init ==
  /\ files \in [Path -> Content \ {Torn}]
  /\ index = {} /\ blobs = [s \in Stamp |-> Absent] /\ clock = 0
  /\ pc = "idle" /\ cur = NoEntry /\ goal = NoGoal /\ kept = {}

----------------------------------------------------------------------------
\* capture, first half: read the target and write its blob.
Capture(p, g) ==
  /\ pc = "idle" /\ clock < MaxStamp
  /\ clock' = clock + 1
  /\ cur' = [ts |-> clock + 1, path |-> p, pre |-> files[p]]
  /\ blobs' = IF files[p] \in Kept THEN [blobs EXCEPT ![clock + 1] = files[p]] ELSE blobs
  /\ goal' = g /\ pc' = "blob"
  /\ UNCHANGED <<files, index, kept>>

\* desktop.fs.write, fs.patch, code.ast_edit (a file) and fs.delete (Absent).
\* (A patch may also leave a larger file larger, which the store cannot tell
\* apart.)
Mutate(p, data) ==
  /\ data \in Content \ (Folders \cup {Torn}) /\ SizeOf[data] <= MaxWriteBytes
  /\ Capture(p, [kind |-> "put", data |-> data])

\* desktop.fs.restore of a listed checkpoint.
Restore(e) ==
  e \in index /\ Capture(e.path, [kind |-> "undo", entry |-> e])

\* capture, second half: the entry enters the index.
AppendEntry ==
  /\ pc = "blob" /\ pc' = "evict"
  /\ index' = index \cup {cur} /\ kept' = index'
  /\ UNCHANGED <<files, blobs, clock, cur, goal>>

\* enforce_limits sums the recorded sizes, of truncated entries too.
TotalSize(S) == MapThenSumSet(LAMBDA e : SizeOf[e.pre], S)
\* Mutant: one entry too many is let through.
OverLimitByOne(S) == Cardinality(S) > MaxCheckpoints + 1 \/ TotalSize(S) > MaxTotalBytes
OverLimit(S) == Cardinality(S) > MaxCheckpoints \/ TotalSize(S) > MaxTotalBytes
IsOldest(v, S) == v \in S /\ \A e \in S : v.ts <= e.ts

\* Mutant: the operation's own entry is not spared.
EvictWithoutSkip ==
  /\ pc = "evict" /\ OverLimit(kept)
  /\ \E v \in kept :
       /\ IsOldest(v, kept)
       /\ blobs' = [blobs EXCEPT ![v.ts] = Absent]
       /\ kept' = kept \ {v}
  /\ UNCHANGED <<files, index, clock, pc, cur, goal>>

\* Mutant: max_by_key for min_by_key.
EvictNewest ==
  /\ pc = "evict" /\ OverLimit(kept)
  /\ \E v \in kept \ {cur} :
       /\ \A e \in kept \ {cur} : e.ts <= v.ts
       /\ blobs' = [blobs EXCEPT ![v.ts] = Absent]
       /\ kept' = kept \ {v}
  /\ UNCHANGED <<files, index, clock, pc, cur, goal>>

\* One turn of the loop: the oldest other entry's blob goes ...
EvictOldest ==
  /\ pc = "evict" /\ OverLimit(kept)
  /\ \E v \in kept \ {cur} :
       /\ IsOldest(v, kept \ {cur})
       /\ blobs' = [blobs EXCEPT ![v.ts] = Absent]
       /\ kept' = kept \ {v}
  /\ UNCHANGED <<files, index, clock, pc, cur, goal>>

\* ... and at the end the index is rewritten.
WriteIndex ==
  /\ pc = "evict" /\ (~OverLimit(kept) \/ kept = {cur})
  /\ index' = kept /\ kept' = {} /\ pc' = "ready"
  /\ UNCHANGED <<files, blobs, clock, cur, goal>>

Finish == pc' = "idle" /\ cur' = NoEntry /\ goal' = NoGoal /\ kept' = {}

\* The mutation the capture was for (a temporary file and a rename).
ApplyMutation ==
  /\ pc = "ready" /\ goal.kind = "put" /\ Finish
  /\ files' = [files EXCEPT ![cur.path] = goal.data]
  /\ UNCHANGED <<store, clock>>

\* restore, second half.  A missing or different blob, a truncated pre-image
\* and a folder in the way end in an error (Abort).
Restorable(e) ==
  \/ e.pre = Absent
  \/ e.pre \in Kept /\ blobs[e.ts] = e.pre /\ files[e.path] \notin Folders
ApplyRestore ==
  /\ pc = "ready" /\ goal.kind = "undo" /\ Restorable(goal.entry) /\ Finish
  /\ files' = [files EXCEPT ![cur.path] = goal.entry.pre]
  /\ UNCHANGED <<store, clock>>

\* The daemon dies inside the std::fs::write that restores a file.
TornRestore ==
  /\ pc = "ready" /\ goal.kind = "undo" /\ Restorable(goal.entry) /\ Finish
  /\ goal.entry.pre # Absent
  /\ files' = [files EXCEPT ![cur.path] = Torn]
  /\ UNCHANGED <<store, clock>>

\* Mutant: the failed operation stays open.
AbortKeepsEntry ==
  /\ pc # "idle" /\ pc' = "idle"
  /\ UNCHANGED <<files, store, clock, cur, goal, kept>>

\* An I/O error (the mutation is refused, the undo fails) or a crash.
Abort ==
  /\ pc # "idle" /\ Finish
  /\ UNCHANGED <<files, store, clock>>

\* The owner edits a file meanwhile.
OwnerEdits(p, data) ==
  /\ data # Torn /\ files' = [files EXCEPT ![p] = data]
  /\ UNCHANGED <<store, clock, pc, cur, goal, kept>>

Next ==
  \/ \E p \in Path, data \in Content : Mutate(p, data) \/ OwnerEdits(p, data)
  \/ \E e \in index : Restore(e)
  \/ AppendEntry \/ EvictOldest \/ WriteIndex
  \/ ApplyMutation \/ ApplyRestore \/ TornRestore \/ Abort

Spec == Init /\ [][Next]_vars

----------------------------------------------------------------------------
(* Properties. *)

TypeOK ==
  /\ files \in [Path -> Content]
  /\ index \subseteq Entry /\ kept \subseteq Entry
  /\ blobs \in [Stamp -> Kept \cup {Absent}]
  /\ clock \in 0..MaxStamp
  /\ pc \in {"idle", "blob", "evict", "ready"}
  /\ IF pc = "idle" THEN cur = NoEntry /\ goal = NoGoal
                    ELSE cur \in Entry /\ goal \in Goal

Intact(e) == e.pre \in Kept => blobs[e.ts] = e.pre

\* The pre-image is safe before the file changes: whatever the agent writes,
\* deletes or restores, and even if the write itself is cut short, the index
\* holds what the capture saw, with its bytes.
CapturedBeforeChange ==
  [][pc = "ready" /\ files' # files /\ pc' = "idle" => cur \in index /\ Intact(cur)]_vars

\* A crash or an error in the middle of an eviction leaves entries without a
\* blob: they are never newer than one that can still be restored.
DamageIsOldest ==
  \A e, f \in index : ~Intact(e) /\ f.pre \in Kept /\ Intact(f) => e.ts < f.ts

\* Once the limits were enforced the store is within them, or holds nothing but
\* the checkpoint of the operation in progress.
LimitsEnforced ==
  pc = "ready" =>
    \/ index = {cur}
    \/ /\ Cardinality(index) <= MaxCheckpoints
       /\ TotalSize({e \in index : e.pre \in Kept}) <= MaxTotalBytes

\* What can be restored, oldest first, is a first-in first-out log.
Restorables == {e \in index : e.pre \in Kept /\ blobs[e.ts] = e.pre}
OldestFirst(S) ==
  CHOOSE q \in [1..Cardinality(S) -> S] : \A i, j \in DOMAIN q : i < j => q[i].ts < q[j].ts
UndoLog == INSTANCE UndoLog WITH PreImage <- Entry, log <- OldestFirst(Restorables)
ImplementsUndoLog == UndoLog!Spec
============================================================================
