-------------------------- MODULE TerminalSessions --------------------------
(***************************************************************************)
(* Persistent shells (pty_ops.rs): the session table, the boot handshake   *)
(* that precedes an entry, and the output buffer that a reader thread      *)
(* fills while the client's calls drain it.  Lines of a session are        *)
(* numbered as its shell prints them; the first is the terminal's echo of  *)
(* the handshake command, the second the marker it prints.                 *)
(***************************************************************************)
EXTENDS Integers, Sequences, FiniteSets

CONSTANTS
  Sessions,    \* session ids the web may send
  MaxSessions, \* 8
  RingLines,   \* RING_LINES, 1000
  MaxShell,    \* bound: lines a shell prints
  NoSession    \* not a session

ASSUME TerminalAssumption ==
  /\ NoSession \notin Sessions /\ MaxSessions \in Nat \ {0}
  /\ RingLines \in Nat \ {0} /\ MaxShell \in Nat

VARIABLES
  shell,   \* the session's process: "none", "alive", "dead"
  sessions, \* the sessions in the engine's map
  booting, \* the session get_or_create is spawning
  calling, \* the session a run waits on
  made,    \* lines the shell has printed
  lines,   \* BufferState.lines, by number
  partial, \* an incomplete line is in the buffer
  given    \* lines of the current shell up to this one were handed out

ptyVars == <<shell, sessions, booting, calling, made, lines, partial, given>>
buffers == <<made, lines, partial, given>>

PtyInit ==
  /\ shell = [s \in Sessions |-> "none"] /\ sessions = {}
  /\ booting = NoSession /\ calling = NoSession
  /\ made = [s \in Sessions |-> 0] /\ lines = [s \in Sessions |-> <<>>]
  /\ partial = [s \in Sessions |-> FALSE] /\ given = [s \in Sessions |-> 0]

Free == booting = NoSession /\ calling = NoSession

----------------------------------------------------------------------------
(* The shell and its reader thread. *)

PrintPart(s) ==
  /\ shell[s] = "alive" /\ made[s] < MaxShell /\ ~partial[s]
  /\ partial' = [partial EXCEPT ![s] = TRUE]
  /\ UNCHANGED <<shell, sessions, booting, calling, made, lines, given>>

\* Mutant: a full ring drops the line just read.
PrintLineDropsNewest(s) ==
  /\ shell[s] = "alive" /\ made[s] < MaxShell
  /\ made' = [made EXCEPT ![s] = @ + 1] /\ partial' = [partial EXCEPT ![s] = FALSE]
  /\ lines' = [lines EXCEPT ![s] = IF Len(@) >= RingLines THEN @ ELSE Append(@, made[s] + 1)]
  /\ UNCHANGED <<shell, sessions, booting, calling, given>>

\* OutputBuffer::push up to a newline; the ring drops its oldest line.
RingPush(ring, n) == Append(IF Len(ring) >= RingLines THEN Tail(ring) ELSE ring, n)
PrintLine(s) ==
  /\ shell[s] = "alive" /\ made[s] < MaxShell
  /\ made' = [made EXCEPT ![s] = @ + 1] /\ partial' = [partial EXCEPT ![s] = FALSE]
  /\ lines' = [lines EXCEPT ![s] = RingPush(lines[s], made[s] + 1)]
  /\ UNCHANGED <<shell, sessions, booting, calling, given>>

ShellDies(s) ==
  /\ shell[s] = "alive" /\ shell' = [shell EXCEPT ![s] = "dead"]
  /\ UNCHANGED <<sessions, booting, calling, buffers>>

\* drain: the lines are taken, the incomplete one is copied and stays.
DrainOutput(s) ==
  /\ lines' = [lines EXCEPT ![s] = <<>>]
  /\ given' = [given EXCEPT ![s] = made[s]]
  /\ UNCHANGED <<made, partial>>

----------------------------------------------------------------------------
(* The calls. *)

\* run with a session the map does not hold: get_or_create spawns a shell.
Spawn(s) ==
  /\ Free /\ s \notin sessions
  /\ booting' = s /\ shell' = [shell EXCEPT ![s] = "alive"]
  /\ made' = [made EXCEPT ![s] = 0] /\ lines' = [lines EXCEPT ![s] = <<>>]
  /\ partial' = [partial EXCEPT ![s] = FALSE] /\ given' = [given EXCEPT ![s] = 0]
  /\ UNCHANGED <<sessions, calling>>

\* Mutant: a shell that does not answer is given up and left running.
BootFailsLeavesShell ==
  /\ booting # NoSession /\ booting' = NoSession
  /\ UNCHANGED <<shell, sessions, calling, buffers>>

\* The shell is found dead (a failed write too means nobody reads), or the
\* handshake times out and the shell is killed.
BootFails ==
  /\ booting # NoSession /\ booting' = NoSession
  /\ shell' = [shell EXCEPT ![booting] = "dead"]
  /\ UNCHANGED <<sessions, calling, buffers>>

\* The marker is in the buffer, be it in the echoed command.  The buffer is
\* drained; any session makes room, and dies as its last reference goes.
Booted ==
  /\ booting # NoSession /\ shell[booting] = "alive" /\ lines[booting] # <<>>
  /\ DrainOutput(booting)
  /\ \E victims \in SUBSET sessions :
       /\ Cardinality(victims) = IF Cardinality(sessions) >= MaxSessions THEN 1 ELSE 0
       /\ sessions' = (sessions \ victims) \cup {booting}
       /\ shell' = [s \in Sessions |-> IF s \in victims THEN "dead" ELSE shell[s]]
  /\ calling' = booting /\ booting' = NoSession

\* run with a session of the map; a dead one is refused and stays.
Run(s) ==
  /\ Free /\ s \in sessions /\ shell[s] = "alive" /\ calling' = s
  /\ UNCHANGED <<shell, sessions, booting, buffers>>

\* The output has settled or the deadline came.
RunReturns ==
  /\ calling # NoSession /\ DrainOutput(calling) /\ calling' = NoSession
  /\ UNCHANGED <<shell, sessions, booting>>

ReadOutput(s) == Free /\ s \in sessions /\ DrainOutput(s) /\ UNCHANGED <<shell, sessions, booting, calling>>

ExitShell(s) ==
  /\ Free /\ s \in sessions /\ sessions' = sessions \ {s}
  /\ shell' = [shell EXCEPT ![s] = "dead"]
  /\ UNCHANGED <<booting, calling, buffers>>

\* Pairing anew drops the client and its engine: every session in the map is
\* killed, and a shell in its handshake reads end of file from the terminal.
EngineDropped ==
  /\ sessions' = {} /\ calling' = NoSession /\ booting' = NoSession
  /\ shell' = [s \in Sessions |-> IF s \in sessions \cup {booting} THEN "dead" ELSE shell[s]]
  /\ UNCHANGED buffers

PtyNext ==
  \/ Booted \/ BootFails \/ RunReturns \/ EngineDropped
  \/ \E s \in Sessions :
       \/ PrintPart(s) \/ PrintLine(s) \/ ShellDies(s)
       \/ Spawn(s) \/ Run(s) \/ ReadOutput(s) \/ ExitShell(s)
PtySpec == PtyInit /\ [][PtyNext]_ptyVars

----------------------------------------------------------------------------
(* Properties. *)

PtyTypeOK ==
  /\ shell \in [Sessions -> {"none", "alive", "dead"}]
  /\ sessions \subseteq Sessions /\ Cardinality(sessions) <= MaxSessions
  /\ booting \in Sessions \cup {NoSession} /\ calling \in sessions \cup {NoSession}
  /\ made \in [Sessions -> 0..MaxShell] /\ given \in [Sessions -> 0..MaxShell]
  /\ lines \in [Sessions -> Seq(1..MaxShell)] /\ partial \in [Sessions -> BOOLEAN]

\* Every shell that runs can still be reached: eviction, a failed handshake, exit
\* and the end of the client leave none behind (pty_ops.rs:24, 34-35).
NoShellLeaks == \A s \in Sessions : shell[s] = "alive" => s \in sessions \cup {booting}

\* What the next drain hands out are the newest lines not handed out yet, as many
\* as the ring holds, each once and in order (pty_ops.rs:29-30).
BufferIsUnreadTail ==
  \A s \in Sessions :
    LET unread == made[s] - given[s]
    IN /\ Len(lines[s]) = IF unread < RingLines THEN unread ELSE RingLines
       /\ \A i \in DOMAIN lines[s] : lines[s][i] = made[s] - Len(lines[s]) + i
============================================================================
