------------------------------- MODULE LogRing -------------------------------
(***************************************************************************)
(* The log ring of a managed process (proc_ops.rs) and a caller that polls *)
(* it for new lines.  Lines are numbered from 0 as the process prints      *)
(* them.  Pushes and reads exclude each other, so each is one step.        *)
(***************************************************************************)
EXTENDS Integers, Sequences

CONSTANTS
  RingCapacity, \* RING_CAPACITY, 500 lines
  MaxLines      \* bound: lines a process prints

ASSUME RingAssumption == RingCapacity \in Nat \ {0} /\ MaxLines \in Nat

VARIABLES
  ring,  \* the lines kept
  total, \* how many were pushed
  from,  \* the caller's next `start'
  batch, \* what its last poll returned
  seen   \* history: one past the newest line a poll has returned

ringVars == <<ring, total, from, batch, seen>>
RingInit == ring = <<>> /\ total = 0 /\ from = 0 /\ batch = <<>> /\ seen = 0

LeastOf(m, n) == IF m < n THEN m ELSE n

Push ==
  /\ total < MaxLines
  /\ ring' = Append(IF Len(ring) >= RingCapacity THEN Tail(ring) ELSE ring, total)
  /\ total' = total + 1
  /\ UNCHANGED <<from, batch, seen>>

\* Mutant: `start' names the last line already seen.
ReadInclusive(start, max) ==
  LET skipped == (total - Len(ring)) + LeastOf(IF start = 0 THEN 0 ELSE start - 1, total)
  IN SubSeq(ring, skipped + 1, LeastOf(skipped + max, Len(ring)))

\* LogRing::read skips the dropped lines, which are not in the ring any more,
\* and then `start' lines more.
ReadLines(start, max) ==
  LET skipped == (total - Len(ring)) + LeastOf(start, total)
  IN SubSeq(ring, skipped + 1, LeastOf(skipped + max, Len(ring)))

\* desktop.proc.op logs.  The caller goes on from the lines it got or from the
\* total it was told.
PollLogs(max) ==
  /\ batch' = ReadLines(from, max)
  /\ from' \in {from + Len(batch'), total}
  /\ seen' = IF batch' = <<>> THEN seen ELSE batch'[Len(batch')] + 1
  /\ UNCHANGED <<ring, total>>

RingNext == Push \/ \E max \in 1..RingCapacity : PollLogs(max)

RingSpec == RingInit /\ [][RingNext]_ringVars

----------------------------------------------------------------------------
RingTypeOK ==
  /\ ring \in Seq(0..MaxLines) /\ Len(ring) <= RingCapacity
  /\ total \in 0..MaxLines /\ from \in 0..MaxLines
  /\ batch \in Seq(0..MaxLines) /\ seen \in Nat

\* No poll returns a line twice or out of order, whatever the ring has dropped;
\* and until the ring is full it returns exactly the next ones (proc_ops.rs:17-18).
\* What it does after the ring has wrapped is the matter of PollsFromStart.
PollsInOrder ==
  [][\A max \in 1..RingCapacity : PollLogs(max) =>
       /\ \A i \in DOMAIN batch' : batch'[i] >= from /\ batch'[i] >= seen
       /\ \A i \in 1..Len(batch') - 1 : batch'[i + 1] = batch'[i] + 1
       /\ total <= RingCapacity =>
            /\ Len(batch') = LeastOf(max, total - from)
            /\ \A i \in DOMAIN batch' : batch'[i] = from + i - 1]_ringVars

\* "Lines from `start` (absolute line number)" (proc_ops.rs:142): the lines kept
\* that are at `start' or later, as many as the caller takes.
PollsFromStart ==
  [][\A max \in 1..RingCapacity : PollLogs(max) =>
       LET kept == SelectSeq(ring, LAMBDA line : line >= from)
       IN batch' = SubSeq(kept, 1, LeastOf(max, Len(kept)))]_ringVars
============================================================================
