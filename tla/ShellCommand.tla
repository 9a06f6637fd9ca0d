---------------------------- MODULE ShellCommand ----------------------------
(***************************************************************************)
(* One shell command (shell.rs): the child and what it left running, a     *)
(* pump per output stream that accumulates and streams in batches over a   *)
(* bounded channel, the read loop that forwards the batches, and           *)
(* await_result, which terminates first and drains after.  Output is       *)
(* counted in bytes; a character takes up to Width of them.                *)
(***************************************************************************)
EXTENDS Integers, Sequences

CONSTANTS
  MaxOutput,   \* MAX_OUTPUT_BYTES per stream
  FlushBytes,  \* STREAM_FLUSH_BYTES
  ChannelSize, \* 64 chunks
  Marker,      \* length of the truncation marker
  Width,       \* bytes of the widest character
  MaxPrinted   \* bound: lines per stream

ASSUME ShellAssumption ==
  /\ MaxOutput \in Nat /\ FlushBytes \in Nat \ {0} /\ ChannelSize \in Nat \ {0}
  /\ Marker \in Nat /\ Width \in Nat \ {0} /\ MaxPrinted \in Nat

Streams == {"stdout", "stderr"}

VARIABLES
  leader,   \* the child: "none", "alive", "dead"
  rest,     \* a descendant that holds the pipes: "none", "alive", "away" (it
            \* left the process group), "dead"
  stage,    \* "idle" before the call; await_result: "running", "terminating", "grace", "draining", "done"
  verdict,  \* what will be reported: "none", "exit", "cancelled", "timeout"
  pump,     \* per stream: "none", "reading", "flushing", "marking", "closing", "done"
  buf,      \* stdout_buf, stderr_buf: their length
  pend,     \* batched and not sent yet
  dropped, stopped, \* *_dropped, stream_stopped
  printed,  \* lines the stream's pump has read
  chan,     \* the channel: [s, n]
  streamed, \* bytes forwarded to the server, per stream
  receiver  \* the read loop still receives

outputs == <<pump, buf, pend, dropped, stopped, printed>>
shellVars == <<leader, rest, stage, verdict, outputs, chan, streamed, receiver>>

ShellInit ==
  /\ leader = "none" /\ rest = "none" /\ stage = "idle" /\ verdict = "none"
  /\ pump = [s \in Streams |-> "none"]
  /\ buf = [s \in Streams |-> 0] /\ pend = [s \in Streams |-> 0]
  /\ dropped = [s \in Streams |-> FALSE] /\ stopped = [s \in Streams |-> FALSE]
  /\ printed = [s \in Streams |-> 0]
  /\ chan = <<>> /\ streamed = [s \in Streams |-> 0] /\ receiver = TRUE

----------------------------------------------------------------------------
(* The processes. *)

\* Somebody holds the write ends of the pipes.
PipesOpen == leader = "alive" \/ rest \in {"alive", "away"}

\* ShellRunner::run: a process group of its own, two pumps.
RunCommand ==
  /\ stage = "idle" /\ stage' = "running" /\ leader' = "alive"
  /\ pump' = [s \in Streams |-> "reading"]
  /\ UNCHANGED <<rest, verdict, buf, pend, dropped, stopped, printed, chan, streamed, receiver>>

Processes == UNCHANGED <<stage, verdict, outputs, chan, streamed, receiver>>
LeaderExits == leader = "alive" /\ leader' = "dead" /\ UNCHANGED rest /\ Processes
Background ==
  leader = "alive" /\ rest = "none" /\ rest' \in {"alive", "away"} /\ UNCHANGED leader /\ Processes
RestExits == rest \in {"alive", "away"} /\ rest' = "dead" /\ UNCHANGED leader /\ Processes

----------------------------------------------------------------------------
(* The pumps. *)

Pumped == UNCHANGED <<leader, rest, stage, verdict, streamed, receiver>>

\* push_capped: past the limit nothing is kept.  The line that crosses it is cut
\* after as many characters as there are bytes left.
Pushed(s, n) ==
  IF buf[s] >= MaxOutput THEN {buf[s]}
  ELSE IF buf[s] + n > MaxOutput
       THEN LET space == MaxOutput - buf[s]
            IN {buf[s] + cut + Marker : cut \in {c \in space..n : c <= Width * space}}
       ELSE {buf[s] + n}

\* One line of n bytes; the pipe may still hold some after its last writer died.
PumpLine(s, n) ==
  /\ pump[s] = "reading" /\ printed[s] < MaxPrinted
  /\ printed' = [printed EXCEPT ![s] = @ + 1]
  /\ \E b \in Pushed(s, n) : buf' = [buf EXCEPT ![s] = b]
  /\ LET full == dropped[s] \/ buf[s] + n > MaxOutput
     IN /\ dropped' = [dropped EXCEPT ![s] = full]
        /\ IF full
           THEN /\ pump' = [pump EXCEPT ![s] = IF stopped[s] THEN "reading" ELSE "marking"]
                /\ stopped' = [stopped EXCEPT ![s] = TRUE]
                /\ UNCHANGED pend
           ELSE /\ pend' = [pend EXCEPT ![s] = @ + n]
                /\ pump' = [pump EXCEPT ![s] = IF pend'[s] >= FlushBytes THEN "flushing" ELSE @]
                /\ UNCHANGED stopped
  /\ Pumped /\ UNCHANGED chan

\* Mutant: the last batch, below the flush threshold, is not sent.
EofDropsRest(s) ==
  /\ pump[s] = "reading" /\ ~PipesOpen
  /\ pump' = [pump EXCEPT ![s] = "done"]
  /\ Pumped /\ UNCHANGED <<buf, pend, dropped, stopped, printed, chan>>

PumpEof(s) ==
  /\ pump[s] = "reading" /\ ~PipesOpen
  /\ pump' = [pump EXCEPT ![s] = IF pend[s] = 0 THEN "done" ELSE "closing"]
  /\ Pumped /\ UNCHANGED <<buf, pend, dropped, stopped, printed, chan>>

\* Sending a chunk waits for room; without a receiver it fails.
SendChunk(s, n) ==
  \/ receiver /\ Len(chan) < ChannelSize /\ chan' = Append(chan, [s |-> s, n |-> n])
  \/ ~receiver /\ UNCHANGED chan

\* A full batch; the failure ends the pump and with it the batch.
PumpFlush(s) ==
  /\ pump[s] \in {"flushing", "closing"} /\ SendChunk(s, pend[s])
  /\ pend' = [pend EXCEPT ![s] = 0]
  /\ pump' = [pump EXCEPT ![s] = IF @ = "flushing" /\ receiver THEN "reading" ELSE "done"]
  /\ Pumped /\ UNCHANGED <<buf, dropped, stopped, printed>>

\* The limit was just crossed: what is batched, then the marker (no bytes of the
\* command's own).
PumpMark(s) ==
  /\ pump[s] = "marking" /\ SendChunk(s, pend[s])
  /\ pend' = [pend EXCEPT ![s] = 0]
  /\ pump' = [pump EXCEPT ![s] = IF pend[s] = 0 THEN "reading" ELSE "marking"]
  /\ Pumped /\ UNCHANGED <<buf, dropped, stopped, printed>>

----------------------------------------------------------------------------
(* The read loop. *)

Receive ==
  /\ receiver /\ chan # <<>>
  /\ chan' = Tail(chan) /\ streamed' = [streamed EXCEPT ![Head(chan).s] = @ + Head(chan).n]
  /\ UNCHANGED <<leader, rest, stage, verdict, outputs, receiver>>

\* A frame cannot be written: the handler returns and drops the receiver.
ReceiverLost ==
  /\ receiver /\ stage \notin {"idle", "done"} /\ receiver' = FALSE /\ chan' = <<>>
  /\ UNCHANGED <<leader, rest, stage, verdict, outputs, streamed>>

----------------------------------------------------------------------------
(* await_result. *)

Awaits == UNCHANGED <<outputs, chan, streamed, receiver>>

WaitReturns ==
  /\ stage = "running" /\ leader = "dead"
  /\ stage' = "draining" /\ verdict' = "exit"
  /\ Awaits /\ UNCHANGED <<leader, rest>>

\* Mutant: the pumps are awaited before the tree is terminated.
DrainBeforeTerminate ==
  /\ stage = "running" /\ verdict' \in {"timeout", "cancelled"} /\ stage' = "draining"
  /\ Awaits /\ UNCHANGED <<leader, rest>>

\* The timeout (clamp_timeout: one second to ten minutes) or the cancellation.
GiveUp ==
  /\ stage = "running" /\ verdict' \in {"timeout", "cancelled"} /\ stage' = "terminating"
  /\ Awaits /\ UNCHANGED <<leader, rest>>

\* terminate_child: TERM to the group, which any of its processes may ignore.
Term ==
  /\ stage = "terminating" /\ stage' = "grace"
  /\ leader' \in {leader, "dead"}
  /\ rest' \in IF rest = "alive" THEN {rest, "dead"} ELSE {rest}
  /\ Awaits /\ UNCHANGED verdict

\* The child, and not its group, is waited for.
GraceEnough ==
  /\ stage = "grace" /\ leader = "dead" /\ stage' = "draining"
  /\ Awaits /\ UNCHANGED <<leader, rest, verdict>>

\* Two seconds later: KILL to the group and to the child.
Kill ==
  /\ stage = "grace" /\ leader = "alive" /\ stage' = "draining"
  /\ leader' = "dead" /\ rest' = IF rest = "alive" THEN "dead" ELSE rest
  /\ Awaits /\ UNCHANGED verdict

\* Both pumps are awaited, without a limit; the loop sends the result when the
\* channel is empty and closed.
Report ==
  /\ stage = "draining" /\ \A s \in Streams : pump[s] = "done"
  /\ chan = <<>>
  /\ stage' = "done"
  /\ Awaits /\ UNCHANGED <<leader, rest, verdict>>

----------------------------------------------------------------------------
PumpStep(s) == PumpEof(s) \/ PumpFlush(s) \/ PumpMark(s)
AwaitStep == WaitReturns \/ GiveUp \/ Term \/ GraceEnough \/ Kill \/ Report

ShellNext ==
  \/ RunCommand \/ LeaderExits \/ Background \/ RestExits
  \/ \E s \in Streams : PumpStep(s) \/ \E n \in 1..MaxOutput : PumpLine(s, n)
  \/ Receive \/ ReceiverLost \/ AwaitStep

\* The timeout fires; the tasks of the runtime and the read loop make progress.
ShellFairness ==
  /\ WF_shellVars(AwaitStep) /\ WF_shellVars(Receive)
  /\ \A s \in Streams : WF_shellVars(PumpStep(s))

----------------------------------------------------------------------------
(* Properties. *)

ShellTypeOK ==
  /\ leader \in {"none", "alive", "dead"} /\ rest \in {"none", "alive", "away", "dead"}
  /\ stage \in {"idle", "running", "terminating", "grace", "draining", "done"}
  /\ verdict \in {"none", "exit", "timeout", "cancelled"}
  /\ pump \in [Streams -> {"none", "reading", "flushing", "marking", "closing", "done"}]
  \* MAX_OUTPUT_BYTES is exceeded only by the marker and by wide characters.
  /\ buf \in [Streams -> 0..Width * MaxOutput + Marker]
  /\ pend \in [Streams -> 0..MaxOutput] /\ streamed \in [Streams -> 0..MaxOutput]
  /\ dropped \in [Streams -> BOOLEAN] /\ stopped \in [Streams -> BOOLEAN]
  /\ printed \in [Streams -> 0..MaxPrinted]
  /\ chan \in Seq([s : Streams, n : 0..MaxOutput]) /\ Len(chan) <= ChannelSize
  /\ receiver \in BOOLEAN

\* When the result of an untruncated command is sent, every byte of it has been
\* streamed before (shell.rs:124-127, 340-341).
StreamedBeforeResult ==
  stage = "done" /\ receiver =>
    \A s \in Streams : ~dropped[s] => streamed[s] = buf[s]

\* A command is always stopped, by itself, the timeout or the owner; and once
\* nothing holds its pipes its result comes (shell.rs:354-361).
ShellEnds ==
  /\ (stage = "running") ~> (leader = "dead")
  /\ (stage = "draining" /\ ~PipesOpen) ~> (stage = "done")

\* What shell.rs:354-361 and 425-427 promise of the order "terminate first, drain
\* after": a command that was stopped reports, as nothing of its process group
\* survives to hold the pipes.
StoppedCommandReports == (stage = "terminating") ~> (stage = "done" \/ rest = "away")
============================================================================
