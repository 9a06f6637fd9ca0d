---------------------------- MODULE ProcessProofs ----------------------------
(***************************************************************************)
(* The parts of the daemon that own child processes, for every value of    *)
(* their constants: no shell outlives every way of reaching it, and a      *)
(* drain hands out exactly the newest unread lines; what the task list and *)
(* the process table report of a process is true, a process that runs can  *)
(* be killed, a live task leaves the list only when the list is full, a    *)
(* poll of the logs returns the next lines, and a shell command's output   *)
(* is streamed before its result.                                          *)
(***************************************************************************)
EXTENDS MCProcesses, SequenceTheorems, FiniteSetTheorems, TLAPS

USE TerminalAssumption, RegistryAssumption, RingAssumption, ShellAssumption

(* Terminal sessions. *)

\* The inductive invariant: the shapes, the limit on sessions, and the two
\* properties themselves.
Shapes ==
  /\ shell \in [Sessions -> {"none", "alive", "dead"}]
  /\ booting \in Sessions \cup {NoSession} /\ calling \in sessions \cup {NoSession}
  /\ made \in [Sessions -> 0..MaxShell] /\ given \in [Sessions -> 0..MaxShell]
  /\ lines \in [Sessions -> Seq(1..MaxShell)] /\ partial \in [Sessions -> BOOLEAN]
Limited == sessions \subseteq Sessions /\ IsFiniteSet(sessions) /\ Cardinality(sessions) <= MaxSessions

\* One buffer: m lines printed, g of them handed out, and the rest, or the
\* newest of the rest, in the ring.
Tailed(unread, m, g) ==
  /\ g <= m
  /\ Len(unread) = IF m - g < RingLines THEN m - g ELSE RingLines
  /\ \A i \in DOMAIN unread : unread[i] = m - Len(unread) + i
Buffered == \A s \in Sessions : Tailed(lines[s], made[s], given[s])

IInv == Shapes /\ Limited /\ NoShellLeaks /\ Buffered

----------------------------------------------------------------------------
(* The ring. *)

LEMMA EmptyTailed == ASSUME NEW m \in Nat PROVE Tailed(<<>>, m, m)
BY DEF Tailed

LEMMA PushTailed ==
  ASSUME NEW m \in Nat, NEW g \in Nat, m + 1 <= MaxShell, NEW unread \in Seq(1..MaxShell), Tailed(unread, m, g)
  PROVE  RingPush(unread, m + 1) \in Seq(1..MaxShell) /\ Tailed(RingPush(unread, m + 1), m + 1, g)
<1>. DEFINE kept == IF Len(unread) >= RingLines THEN Tail(unread) ELSE unread
<1>1. Len(unread) \in Nat /\ DOMAIN unread = 1 .. Len(unread)
  OBVIOUS
<1>2. /\ kept \in Seq(1..MaxShell)
      /\ Len(kept) = (IF Len(unread) >= RingLines THEN RingLines - 1 ELSE Len(unread))
      /\ \A i \in 1 .. Len(kept) : kept[i] = m - Len(kept) + i
  <2>1. CASE Len(unread) >= RingLines
    <3>1. Len(unread) = RingLines /\ unread # <<>>
      BY <1>1, <2>1 DEF Tailed
    <3>2. /\ Tail(unread) \in Seq(1..MaxShell) /\ Len(Tail(unread)) = RingLines - 1
          /\ \A i \in 1 .. Len(Tail(unread)) : Tail(unread)[i] = unread[i + 1]
      BY <3>1, HeadTailProperties
    <3>3. \A i \in 1 .. RingLines - 1 : unread[i + 1] = m - RingLines + (i + 1)
      <4>1. ASSUME NEW i \in 1 .. RingLines - 1 PROVE unread[i + 1] = m - RingLines + (i + 1)
        <5>1. i + 1 \in DOMAIN unread
          BY <1>1, <3>1
        <5>2. unread[i + 1] = m - Len(unread) + (i + 1)
          BY <5>1 DEF Tailed
        <5>. QED BY <3>1, <5>2
      <4>. QED BY <4>1
    <3>. QED BY <2>1, <3>2, <3>3
  <2>2. CASE ~(Len(unread) >= RingLines)
    BY <1>1, <2>2 DEF Tailed
  <2>. QED BY <2>1, <2>2
<1>. HIDE DEF kept
<1>3. /\ Append(kept, m + 1) \in Seq(1..MaxShell)
      /\ Len(Append(kept, m + 1)) = Len(kept) + 1
      /\ \A i \in 1 .. Len(kept) : Append(kept, m + 1)[i] = kept[i]
      /\ Append(kept, m + 1)[Len(kept) + 1] = m + 1
  BY <1>2, AppendProperties, m + 1 \in 1..MaxShell
<1>4. RingPush(unread, m + 1) = Append(kept, m + 1)
  BY DEF RingPush, kept
<1>. DEFINE new == Append(kept, m + 1)
<1>5. Len(new) = IF m + 1 - g < RingLines THEN m + 1 - g ELSE RingLines
  BY <1>1, <1>2, <1>3 DEF Tailed
<1>6. \A i \in DOMAIN new : new[i] = m + 1 - Len(new) + i
  <2>1. DOMAIN new = 1 .. Len(kept) + 1 /\ Len(kept) \in Nat
    BY <1>2, <1>3
  <2>2. ASSUME NEW i \in 1 .. Len(kept) PROVE new[i] = m + 1 - Len(new) + i
    <3>1. new[i] = kept[i] /\ kept[i] = m - Len(kept) + i
      BY <1>2, <1>3
    <3>2. Len(new) = Len(kept) + 1
      BY <1>3
    <3>. HIDE DEF new
    <3>. QED BY <2>1, <3>1, <3>2
  <2>3. new[Len(kept) + 1] = m + 1 - Len(new) + (Len(kept) + 1)
    BY <1>3, <2>1
  <2>4. \A i \in DOMAIN new : i \in 1 .. Len(kept) \/ i = Len(kept) + 1
    BY <2>1
  <2>. HIDE DEF new
  <2>. QED BY <2>2, <2>3, <2>4
<1>. HIDE DEF new
<1>7. Tailed(new, m + 1, g)
  BY <1>5, <1>6 DEF Tailed
<1>. QED BY <1>3, <1>4, <1>7 DEF new

----------------------------------------------------------------------------
(* The steps. *)

LEMMA InitInv == PtyInit => IInv
<1>. SUFFICES ASSUME PtyInit PROVE IInv
  OBVIOUS
<1>1. Shapes
  BY DEF PtyInit, Shapes
<1>2. Limited
  BY FS_EmptySet DEF PtyInit, Limited
<1>3. NoShellLeaks
  BY DEF PtyInit, NoShellLeaks
<1>4. Buffered
  BY EmptyTailed DEF PtyInit, Buffered
<1>. QED BY <1>1, <1>2, <1>3, <1>4 DEF IInv

\* Steps that leave the buffers alone.
LEMMA BuffersKept == ASSUME IInv, UNCHANGED buffers PROVE Buffered'
BY DEF IInv, Buffered, buffers

\* A drain empties the buffer and hands everything out.
LEMMA DrainKeeps ==
  ASSUME IInv, NEW s \in Sessions, DrainOutput(s)
  PROVE  /\ Buffered' /\ UNCHANGED <<made, partial>>
         /\ given' \in [Sessions -> 0..MaxShell] /\ lines' \in [Sessions -> Seq(1..MaxShell)]
<1>1. made[s] \in Nat
  BY DEF IInv, Shapes
<1>2. \A r \in Sessions : Tailed(lines'[r], made'[r], given'[r])
  BY <1>1, EmptyTailed DEF IInv, Shapes, Buffered, DrainOutput
<1>. QED BY <1>2 DEF IInv, Shapes, Buffered, DrainOutput

LEMMA PrintPreserves ==
  ASSUME IInv, NEW s \in Sessions, PrintLine(s) PROVE IInv'
<1>1. /\ made[s] \in Nat /\ given[s] \in Nat /\ made[s] + 1 <= MaxShell
      /\ lines[s] \in Seq(1..MaxShell) /\ Tailed(lines[s], made[s], given[s])
  BY DEF IInv, Shapes, Buffered, PrintLine
<1>2. /\ RingPush(lines[s], made[s] + 1) \in Seq(1..MaxShell)
      /\ Tailed(RingPush(lines[s], made[s] + 1), made[s] + 1, given[s])
  BY <1>1, PushTailed
<1>3. Shapes'
  BY <1>1, <1>2 DEF IInv, Shapes, PrintLine
<1>4. Buffered'
  BY <1>2 DEF IInv, Shapes, Buffered, PrintLine
<1>. QED BY <1>3, <1>4 DEF IInv, Limited, NoShellLeaks, PrintLine

LEMMA SpawnPreserves ==
  ASSUME IInv, NEW s \in Sessions, Spawn(s) PROVE IInv'
<1>1. Shapes'
  BY EmptySeq DEF IInv, Shapes, Spawn
<1>2. Buffered'
  <2>1. Tailed(<<>>, 0, 0)
    BY EmptyTailed
  <2>. QED BY <2>1 DEF IInv, Shapes, Buffered, Spawn
<1>3. NoShellLeaks'
  BY DEF IInv, Shapes, NoShellLeaks, Spawn, Free
<1>. QED BY <1>1, <1>2, <1>3 DEF IInv, Limited, Spawn

\* Room is made before the new entry: the limit holds, and the victim is dead.
LEMMA BootedPreserves == ASSUME IInv, Booted PROVE IInv'
<1>1. booting \in Sessions /\ booting # NoSession
  BY DEF Booted, IInv, Shapes
<1>2. PICK victims \in SUBSET sessions :
        /\ Cardinality(victims) = IF Cardinality(sessions) >= MaxSessions THEN 1 ELSE 0
        /\ sessions' = (sessions \ victims) \cup {booting}
        /\ shell' = [s \in Sessions |-> IF s \in victims THEN "dead" ELSE shell[s]]
  BY DEF Booted
<1>3. Buffered' /\ UNCHANGED <<made, partial>>
      /\ given' \in [Sessions -> 0..MaxShell] /\ lines' \in [Sessions -> Seq(1..MaxShell)]
  BY <1>1, DrainKeeps DEF Booted
<1>4. Limited'
  <2>1. IsFiniteSet(sessions) /\ Cardinality(sessions) \in Nat /\ Cardinality(sessions) <= MaxSessions
    BY FS_CardinalityType DEF IInv, Limited
  <2>2. IsFiniteSet(victims)
    BY <2>1, FS_Subset
  <2>3. IsFiniteSet(sessions \ victims) /\ Cardinality(sessions \ victims) + 1 <= MaxSessions
    <3>1. CASE Cardinality(sessions) >= MaxSessions
      <4>1. PICK x : victims = {x}
        BY <1>2, <2>2, <3>1, FS_Singleton
      <4>2. x \in sessions
        BY <4>1
      <4>3. /\ IsFiniteSet(sessions \ {x})
            /\ Cardinality(sessions \ {x}) = Cardinality(sessions) - 1
        BY <2>1, <4>2, FS_RemoveElement
      <4>. QED BY <2>1, <4>1, <4>3
    <3>2. CASE ~(Cardinality(sessions) >= MaxSessions)
      <4>1. victims = {} /\ sessions \ victims = sessions
        BY <1>2, <2>2, <3>2, FS_EmptySet
      <4>. QED BY <2>1, <3>2, <4>1
    <3>. QED BY <3>1, <3>2
  <2>4. Cardinality(sessions \ victims) \in Nat
    BY <2>3, FS_CardinalityType
  <2>5. IsFiniteSet(sessions') /\ Cardinality(sessions') <= MaxSessions
    <3>. DEFINE others == sessions \ victims
    <3>1. /\ IsFiniteSet(others \cup {booting})
          /\ Cardinality(others \cup {booting}) = IF booting \in others THEN Cardinality(others) ELSE Cardinality(others) + 1
      BY <2>3, FS_AddElement
    <3>. QED BY <1>2, <2>3, <2>4, <3>1
  <2>. QED BY <1>1, <1>2, <2>5 DEF IInv, Limited
<1>5. Shapes'
  BY <1>1, <1>2, <1>3 DEF IInv, Shapes, Booted
<1>6. NoShellLeaks'
  BY <1>2 DEF IInv, NoShellLeaks, Booted
<1>. QED BY <1>3, <1>4, <1>5, <1>6 DEF IInv

LEMMA ExitPreserves ==
  ASSUME IInv, NEW s \in Sessions, ExitShell(s) PROVE IInv'
<1>1. Limited'
  BY FS_RemoveElement, FS_CardinalityType, FS_Subset DEF IInv, Limited, ExitShell
<1>2. Shapes'
  BY DEF IInv, Shapes, ExitShell, Free, buffers
<1>3. Buffered'
  BY BuffersKept DEF ExitShell
<1>4. NoShellLeaks'
  BY DEF IInv, Shapes, NoShellLeaks, ExitShell
<1>. QED BY <1>1, <1>2, <1>3, <1>4 DEF IInv

LEMMA DroppedPreserves == ASSUME IInv, EngineDropped PROVE IInv'
<1>1. Limited'
  BY FS_EmptySet DEF Limited, EngineDropped
<1>2. Shapes'
  BY DEF IInv, Shapes, EngineDropped, buffers
<1>3. Buffered'
  BY BuffersKept DEF EngineDropped
<1>4. NoShellLeaks'
  BY DEF IInv, Shapes, NoShellLeaks, EngineDropped
<1>. QED BY <1>1, <1>2, <1>3, <1>4 DEF IInv

LEMMA BootFailsPreserves == ASSUME IInv, BootFails PROVE IInv'
<1>1. Shapes'
  BY DEF IInv, Shapes, BootFails, buffers
<1>2. Buffered'
  BY BuffersKept DEF BootFails
<1>3. NoShellLeaks'
  BY DEF IInv, Shapes, NoShellLeaks, BootFails
<1>. QED BY <1>1, <1>2, <1>3 DEF IInv, Limited, BootFails

\* The steps that only drain a buffer or wait for one.
LEMMA ReadPreserves ==
  ASSUME IInv, RunReturns \/ \E s \in Sessions : ReadOutput(s) PROVE IInv'
<1>1. PICK s \in Sessions : DrainOutput(s)
  BY DEF RunReturns, ReadOutput, IInv, Shapes, Limited
<1>2. UNCHANGED <<shell, sessions, booting>> /\ calling' \in {calling, NoSession}
  BY DEF RunReturns, ReadOutput
<1>3. Shapes'
  BY <1>1, <1>2, DrainKeeps DEF IInv, Shapes
<1>4. Buffered'
  BY <1>1, DrainKeeps
<1>. QED BY <1>2, <1>3, <1>4 DEF IInv, Limited, NoShellLeaks

LEMMA StepPreserves == IInv /\ [PtyNext]_ptyVars => IInv'
<1>. SUFFICES ASSUME IInv, [PtyNext]_ptyVars PROVE IInv'
  OBVIOUS
<1>1. CASE Booted
  BY <1>1, BootedPreserves
<1>2. CASE BootFails
  BY <1>2, BootFailsPreserves
<1>3. CASE RunReturns \/ \E s \in Sessions : ReadOutput(s)
  BY <1>3, ReadPreserves
<1>4. CASE EngineDropped
  BY <1>4, DroppedPreserves
<1>5. ASSUME NEW s \in Sessions, PrintPart(s) PROVE IInv'
  BY <1>5 DEF IInv, Shapes, Limited, NoShellLeaks, Buffered, PrintPart
<1>6. ASSUME NEW s \in Sessions, PrintLine(s) PROVE IInv'
  BY <1>6, PrintPreserves
<1>7. ASSUME NEW s \in Sessions, ShellDies(s) PROVE IInv'
  BY <1>7, BuffersKept DEF IInv, Shapes, Limited, NoShellLeaks, buffers, ShellDies
<1>8. ASSUME NEW s \in Sessions, Spawn(s) PROVE IInv'
  BY <1>8, SpawnPreserves
<1>9. ASSUME NEW s \in Sessions, Run(s) PROVE IInv'
  BY <1>9, BuffersKept DEF IInv, Shapes, Limited, NoShellLeaks, buffers, Run
<1>10. ASSUME NEW s \in Sessions, ExitShell(s) PROVE IInv'
  BY <1>10, ExitPreserves
<1>11. CASE UNCHANGED ptyVars
  BY <1>11 DEF IInv, Shapes, Limited, NoShellLeaks, Buffered, ptyVars
<1>. QED BY <1>1, <1>2, <1>3, <1>4, <1>5, <1>6, <1>7, <1>8, <1>9, <1>10, <1>11 DEF PtyNext

LEMMA InvHolds == PtySpec => []IInv
BY InitInv, StepPreserves, PTL DEF PtySpec

\* Types: the map never holds more sessions than the limit, whatever it evicts
\* (pty_ops.rs: get_or_create).
THEOREM SessionsLimited == PtySpec => []PtyTypeOK
<1>1. IInv => PtyTypeOK
  BY DEF IInv, Shapes, Limited, PtyTypeOK
<1>. QED BY <1>1, InvHolds, PTL

\* A running shell is always in the map or in its handshake: eviction, exit, a
\* failed handshake and the end of the client kill what they let go of.
THEOREM ShellsReachable == PtySpec => []NoShellLeaks
<1>1. IInv => NoShellLeaks
  BY DEF IInv
<1>. QED BY <1>1, InvHolds, PTL

\* A drain hands out the newest unread lines, once each and in order, however
\* the shell's printing and the calls alternate (pty_ops.rs: OutputBuffer).
THEOREM DrainsUnreadTail == PtySpec => []BufferIsUnreadTail
<1>1. IInv => BufferIsUnreadTail
  BY DEF IInv, Buffered, Tailed, BufferIsUnreadTail
<1>. QED BY <1>1, InvHolds, PTL

----------------------------------------------------------------------------
(* The task list. *)

\* What is kept of a list is its records at the places kept, each of them once
\* (task_registry.rs: cleanup_stale_tasks).
LEMMA KeptProperties ==
  ASSUME NEW S, NEW list \in Seq(S), NEW places \in SUBSET DOMAIN list
  PROVE  /\ Remaining(list, places) \in Seq(S) /\ Len(Remaining(list, places)) <= Len(list)
         /\ \A k \in DOMAIN Remaining(list, places) : \E i \in places : Remaining(list, places)[k] = list[i]
         /\ \A i \in places : \E k \in DOMAIN Remaining(list, places) : Remaining(list, places)[k] = list[i]
         /\ (\A i, j \in DOMAIN list : list[i] = list[j] => i = j) =>
              \A k, l \in DOMAIN Remaining(list, places) : Remaining(list, places)[k] = Remaining(list, places)[l] => k = l
<1>. DEFINE Upto(i) == {j \in places : j <= i}
            n == Cardinality(places)
            r == [i \in places |-> Cardinality(Upto(i))]
            Place(k) == CHOOSE i \in places : Cardinality(Upto(i)) = k
<1>1. DOMAIN list = 1 .. Len(list) /\ Len(list) \in Nat /\ places \subseteq 1 .. Len(list) /\ places \subseteq Int
  OBVIOUS
<1>2. IsFiniteSet(places) /\ n \in Nat /\ n <= Len(list)
  <2>1. IsFiniteSet(1 .. Len(list)) /\ Cardinality(1 .. Len(list)) = Len(list)
    <3>1. 1 \in Int /\ Len(list) \in Int /\ (1 > Len(list) => Len(list) = 0) /\ Len(list) - 1 + 1 = Len(list)
      BY <1>1
    <3>. QED BY <3>1, FS_Interval
  <2>2. IsFiniteSet(places) /\ n <= Len(list)
    BY <1>1, <2>1, FS_Subset
  <2>. QED BY <2>2, FS_CardinalityType
<1>3. ASSUME NEW i \in places PROVE r[i] \in 1 .. n
  <2>1. Upto(i) \in SUBSET places /\ i \in Upto(i)
    BY <1>1
  <2>2. IsFiniteSet(Upto(i)) /\ Cardinality(Upto(i)) <= n
    BY <1>2, <2>1, FS_Subset
  <2>3. Cardinality(Upto(i)) \in Nat /\ Cardinality(Upto(i)) # 0
    BY <2>1, <2>2, FS_CardinalityType, FS_EmptySet
  <2>. QED BY <1>2, <2>2, <2>3
<1>4. ASSUME NEW i \in places, NEW j \in places, i < j PROVE r[i] # r[j]
  <2>1. Upto(i) \in SUBSET Upto(j) /\ j \in Upto(j) /\ j \notin Upto(i)
    BY <1>1, <1>4
  <2>2. IsFiniteSet(Upto(j))
    BY <1>2, FS_Subset
  <2>. QED BY <2>1, <2>2, FS_Subset
<1>5. ASSUME NEW i \in places, NEW j \in places, r[i] = r[j] PROVE i = j
  <2>. HIDE DEF r
  <2>1. ~(i < j) /\ ~(j < i)
    BY <1>4, <1>5
  <2>. QED BY <1>1, <2>1
<1>6. r \in Injection(places, 1 .. n)
  BY <1>3, <1>5 DEF Injection, IsInjective
<1>7. \A k \in 1 .. n : \E i \in places : r[i] = k
  <2>1. IsFiniteSet(1 .. n) /\ Cardinality(1 .. n) = n
    BY <1>2, FS_Interval
  <2>2. r \in Surjection(places, 1 .. n)
    BY <1>6, <2>1, FS_Injection
  <2>. QED BY <2>2 DEF Surjection
<1>8. \A k \in 1 .. n : Place(k) \in places /\ r[Place(k)] = k
  BY <1>7
<1>9. Remaining(list, places) = [k \in 1 .. n |-> list[Place(k)]]
  BY DEF Remaining
<1>. HIDE DEF Upto, n, r, Place
<1>10. \A i \in places : Place(r[i]) = i
  BY <1>3, <1>5, <1>8
<1>11. Remaining(list, places) \in Seq(S) /\ Len(Remaining(list, places)) = n /\ DOMAIN Remaining(list, places) = 1 .. n
  <2>1. \A k \in 1 .. n : list[Place(k)] \in S
    BY <1>1, <1>8
  <2>2. [k \in 1 .. n |-> list[Place(k)]] \in [1 .. n -> S]
    BY <2>1
  <2>3. Remaining(list, places) \in Seq(S)
    BY <1>2, <1>9, <2>2
  <2>. QED BY <1>2, <1>9, <2>3
<1>12. \A i \in places : r[i] \in 1 .. n /\ Remaining(list, places)[r[i]] = list[i]
  BY <1>3, <1>9, <1>10
<1>13. \A k \in 1 .. n : Remaining(list, places)[k] = list[Place(k)]
  BY <1>9
<1>14. ASSUME \A i, j \in DOMAIN list : list[i] = list[j] => i = j, NEW k \in 1 .. n, NEW l \in 1 .. n,
              Remaining(list, places)[k] = Remaining(list, places)[l]
       PROVE  k = l
  <2>1. Place(k) = Place(l)
    BY <1>8, <1>13, <1>14
  <2>. QED BY <1>8, <2>1
<1>15. \A k \in 1 .. n : \E i \in places : Remaining(list, places)[k] = list[i]
  BY <1>8, <1>13
<1>. QED BY <1>2, <1>11, <1>12, <1>14, <1>15

\* The list is capped, holds an id once, and recording forgets the oldest record
\* of a full list only (task_registry.rs: record_global_task).
LEMMA SetStatusProperties ==
  ASSUME NEW list \in Seq(TaskRecord), NEW id, NEW s \in Status
  PROVE  /\ SetStatus(list, id, s) \in Seq(TaskRecord) /\ DOMAIN SetStatus(list, id, s) = DOMAIN list
         /\ Len(SetStatus(list, id, s)) = Len(list)
         /\ \A i \in DOMAIN list :
              /\ SetStatus(list, id, s)[i].id = list[i].id
              /\ SetStatus(list, id, s)[i].status = IF list[i].id = id THEN s ELSE list[i].status
<1>1. DOMAIN list = 1 .. Len(list) /\ Len(list) \in Nat
  OBVIOUS
<1>2. ASSUME NEW i \in 1 .. Len(list)
      PROVE  /\ list[i] \in TaskRecord
             /\ [list[i] EXCEPT !.status = s] \in TaskRecord
             /\ [list[i] EXCEPT !.status = s].id = list[i].id /\ [list[i] EXCEPT !.status = s].status = s
  <2>1. list[i] \in TaskRecord
    BY <1>1
  <2>2. ASSUME NEW t \in TaskRecord
        PROVE  /\ [t EXCEPT !.status = s] \in TaskRecord
               /\ [t EXCEPT !.status = s].id = t.id /\ [t EXCEPT !.status = s].status = s
    BY DEF TaskRecord
  <2>. QED BY <2>1, <2>2
<1>3. SetStatus(list, id, s) \in [1 .. Len(list) -> TaskRecord]
  BY <1>1, <1>2 DEF SetStatus
<1>4. SetStatus(list, id, s) \in Seq(TaskRecord) /\ Len(SetStatus(list, id, s)) = Len(list)
  BY <1>1, <1>3
<1>. QED BY <1>1, <1>2, <1>3, <1>4 DEF SetStatus

LEMMA NewestProperties ==
  ASSUME NEW S, NEW list \in Seq(S), Len(list) <= MaxTasks + 1
  PROVE  /\ Newest(list) \in Seq(S) /\ Len(Newest(list)) <= MaxTasks
         /\ \E d \in 0 .. 1 :
              /\ d = 1 => Len(list) = MaxTasks + 1
              /\ Len(list) = Len(Newest(list)) + d
              /\ \A i \in 1 .. Len(Newest(list)) : Newest(list)[i] = list[i + d]
<1>1. Len(list) \in Nat /\ MaxTasks \in Nat \ {0}
  OBVIOUS
<1>2. CASE Len(list) > MaxTasks
  <2>1. Len(list) = MaxTasks + 1 /\ Newest(list) = SubSeq(list, 2, Len(list))
    BY <1>1, <1>2 DEF Newest
  <2>2. /\ SubSeq(list, 2, Len(list)) \in Seq(S) /\ Len(SubSeq(list, 2, Len(list))) = MaxTasks
        /\ \A i \in 1 .. MaxTasks : SubSeq(list, 2, Len(list))[i] = list[i + 1]
    BY <1>1, <2>1, SubSeqProperties
  <2>. QED BY <1>1, <2>1, <2>2
<1>3. CASE ~(Len(list) > MaxTasks)
  BY <1>1, <1>3 DEF Newest
<1>. QED BY <1>2, <1>3

----------------------------------------------------------------------------
(* The processes and their monitors. *)

\* Where the read loop is tells what it holds.
LoopInv ==
  /\ loop.at \in {"spawned", "recorded", "registered", "waiting", "polling"} => loop.id \in Procs
  /\ loop.at \in {"begun", "running", "finished"} =>
       loop.id \in Actions /\ (loop.id \in Procs => mon[loop.id] = "none")
  /\ loop.at = "begun" => child[loop.id] = "none"
  /\ loop.at = "finished" => outcome[loop.id] \in Terminal

\* An outcome is there once the child is dead and until it is reported.
OutcomeInv ==
  /\ \A i \in Ids : outcome[i] # "none" => child[i] = "dead"
  /\ \A p \in Procs : child[p] = "none" => mon[p] = "none"
  /\ \A p \in Procs : mon[p] \in {"ended", "published"} => outcome[p] \in Terminal

ProcTypes ==
  /\ child \in [Ids -> {"none", "alive", "dead"}]
  /\ outcome \in [Ids -> Terminal \cup {"none"}]
  /\ mon \in [Procs -> {"none", "waiting", "killing", "ended", "published", "done"}]
  /\ table \in [Procs -> Terminal \cup {"absent", "running"}]
  /\ loop \in [at : {"idle", "spawned", "recorded", "registered", "table", "waiting", "polling",
                     "begun", "running", "finished"},
               id : Ids \cup {Nobody}]

\* What the list and the table report ended is dead.
ListTrue == \A k \in DOMAIN tasks : tasks[k].status \in Terminal => child[tasks[k].id] = "dead"
TableTrue == \A p \in Procs : table[p] \in Terminal => child[p] = "dead"

\* The inductive invariant.
ProcInv == RegistryTypeOK /\ ProcTypes /\ LoopInv /\ OutcomeInv /\ ListTrue /\ TableTrue /\ RunningIsKillable

LEMMA ProcInitInv == ProcInit => ProcInv
<1>. SUFFICES ASSUME ProcInit PROVE ProcInv
  OBVIOUS
<1>1. tasks \in Seq(TaskRecord) /\ Len(tasks) = 0 /\ DOMAIN tasks = {}
  BY EmptySeq DEF ProcInit, RegistryInit
<1>2. RegistryTypeOK /\ ListTrue
  BY <1>1 DEF ProcInit, RegistryInit, RegistryTypeOK, ListTrue
<1>3. ProcTypes /\ LoopInv /\ OutcomeInv /\ TableTrue /\ RunningIsKillable
  BY DEF ProcInit, RegistryInit, ProcTypes, LoopInv, OutcomeInv, TableTrue, RunningIsKillable, Idle, At, Ids, Terminal
<1>. QED BY <1>2, <1>3 DEF ProcInv

\* The list goes over into one whose records are old ones, or of one id with a
\* new status; a record is lost only when it was terminal or the list full.
ListStep(id, s) ==
  /\ tasks' \in Seq(TaskRecord) /\ Len(tasks') <= MaxTasks
  /\ \A i, j \in DOMAIN tasks' : tasks'[i].id = tasks'[j].id => i = j
  /\ \A k \in DOMAIN tasks' :
       (tasks'[k].id = id /\ tasks'[k].status = s) \/ \E j \in DOMAIN tasks : tasks'[k] = tasks[j]
  /\ \A j \in DOMAIN tasks :
       \/ tasks[j].status \in Terminal \/ Len(tasks) = MaxTasks
       \/ \E k \in DOMAIN tasks' : tasks'[k].id = tasks[j].id

LEMMA UpdateIsListStep ==
  ASSUME RegistryTypeOK, NEW id, NEW s \in Status, tasks' = SetStatus(tasks, id, s)
  PROVE  ListStep(id, s)
<1>1. /\ tasks' \in Seq(TaskRecord) /\ DOMAIN tasks' = DOMAIN tasks /\ Len(tasks') = Len(tasks)
      /\ \A i \in DOMAIN tasks :
           tasks'[i].id = tasks[i].id /\ tasks'[i].status = IF tasks[i].id = id THEN s ELSE tasks[i].status
  BY SetStatusProperties DEF RegistryTypeOK
<1>2. \A i \in DOMAIN tasks : tasks[i].id # id => tasks'[i] = tasks[i]
  BY DEF SetStatus
<1>3. Len(tasks) <= MaxTasks /\ \A i, j \in DOMAIN tasks : tasks[i].id = tasks[j].id => i = j
  BY DEF RegistryTypeOK
<1>4. \A i, j \in DOMAIN tasks' : tasks'[i].id = tasks'[j].id => i = j
  BY <1>1, <1>3
<1>5. \A k \in DOMAIN tasks' :
        (tasks'[k].id = id /\ tasks'[k].status = s) \/ \E j \in DOMAIN tasks : tasks'[k] = tasks[j]
  BY <1>1, <1>2
<1>6. \A j \in DOMAIN tasks : \E k \in DOMAIN tasks' : tasks'[k].id = tasks[j].id
  BY <1>1
<1>. QED BY <1>1, <1>3, <1>4, <1>5, <1>6 DEF ListStep

LEMMA RecordIsListStep ==
  ASSUME RegistryTypeOK, NEW id \in Ids, Record(id)
  PROVE  ListStep(id, "running")
<1>1. tasks \in Seq(TaskRecord) /\ Len(tasks) \in Nat /\ Len(tasks) <= MaxTasks /\ DOMAIN tasks = 1 .. Len(tasks)
  BY DEF RegistryTypeOK
<1>. DEFINE r == [id |-> id, status |-> "running"]
<1>2. "running" \in Status /\ r \in TaskRecord /\ r.id = id /\ r.status = "running"
  BY DEF Status, TaskRecord
<1>3. CASE id \in IdsOf(tasks)
  <2>. DEFINE l == SetStatus(tasks, id, "running")
  <2>1. l \in Seq(TaskRecord) /\ Len(l) = Len(tasks)
    BY <1>1, <1>2, SetStatusProperties
  <2>2. tasks' = l
    BY <1>1, <1>3, <2>1 DEF Record, Newest
  <2>. QED BY <1>2, <2>2, UpdateIsListStep
<1>4. CASE id \notin IdsOf(tasks)
  <2>. DEFINE l == Append(tasks, r)
  <2>. HIDE DEF r
  <2>1. /\ l \in Seq(TaskRecord) /\ Len(l) = Len(tasks) + 1 /\ l[Len(tasks) + 1] = r
        /\ \A i \in 1 .. Len(tasks) : l[i] = tasks[i]
    BY <1>1, <1>2
  <2>2. tasks' = Newest(l)
    BY <1>4 DEF Record, r
  <2>. HIDE DEF l
  <2>3. PICK d \in 0 .. 1 :
          /\ tasks' \in Seq(TaskRecord) /\ Len(tasks') <= MaxTasks
          /\ d = 1 => Len(tasks) = MaxTasks
          /\ Len(tasks) + 1 = Len(tasks') + d
          /\ \A i \in 1 .. Len(tasks') : tasks'[i] = l[i + d]
    <3>1. PICK d \in 0 .. 1 :
            /\ d = 1 => Len(l) = MaxTasks + 1
            /\ Len(l) = Len(Newest(l)) + d
            /\ \A i \in 1 .. Len(Newest(l)) : Newest(l)[i] = l[i + d]
      BY <1>1, <2>1, NewestProperties
    <3>2. Newest(l) \in Seq(TaskRecord) /\ Len(Newest(l)) <= MaxTasks
      BY <1>1, <2>1, NewestProperties
    <3>3. d = 1 => Len(tasks) = MaxTasks
      <4>1. Len(tasks) \in Nat /\ MaxTasks \in Nat /\ Len(l) = Len(tasks) + 1
        BY <1>1, <2>1
      <4>2. d = 1 => Len(l) = MaxTasks + 1
        BY <3>1
      <4>. QED BY <4>1, <4>2
    <3>4. /\ Len(tasks) + 1 = Len(tasks') + d
          /\ \A i \in 1 .. Len(tasks') : tasks'[i] = l[i + d]
      BY <2>1, <2>2, <3>1
    <3>5. tasks' \in Seq(TaskRecord) /\ Len(tasks') <= MaxTasks
      BY <2>2, <3>2
    <3>. QED BY <3>3, <3>4, <3>5
  <2>4. Len(tasks') \in Nat /\ DOMAIN tasks' = 1 .. Len(tasks')
    BY <2>3
  <2>0. Len(tasks) \in Nat /\ Len(tasks') \in Nat /\ Len(tasks) + 1 = Len(tasks') + d
    BY <1>1, <2>3, <2>4
  <2>5. ASSUME NEW k \in 1 .. Len(tasks')
        PROVE  \/ k + d = Len(tasks) + 1 /\ tasks'[k] = r
               \/ k + d \in 1 .. Len(tasks) /\ tasks'[k] = tasks[k + d]
    <3>1. k + d = Len(tasks) + 1 \/ k + d \in 1 .. Len(tasks)
      BY <2>0
    <3>2. tasks'[k] = l[k + d]
      BY <2>3
    <3>3. CASE k + d = Len(tasks) + 1
      BY <2>1, <3>2, <3>3
    <3>4. CASE k + d \in 1 .. Len(tasks)
      BY <2>1, <3>2, <3>4
    <3>. QED BY <3>1, <3>3, <3>4
  <2>6. \A i \in 1 .. Len(tasks) : tasks[i].id # id
    BY <1>1, <1>4 DEF IdsOf
  <2>7. ASSUME NEW i \in 1 .. Len(tasks'), NEW j \in 1 .. Len(tasks'), tasks'[i].id = tasks'[j].id
        PROVE  i = j
    <3>1. i + d = j + d
      <4>1. CASE i + d = Len(tasks) + 1 /\ tasks'[i] = r
        BY <1>2, <2>5, <2>6, <2>7, <4>1
      <4>2. CASE i + d \in 1 .. Len(tasks) /\ tasks'[i] = tasks[i + d]
        <5>1. j + d \in 1 .. Len(tasks) /\ tasks'[j] = tasks[j + d]
          BY <1>2, <2>5, <2>6, <2>7, <4>2
        <5>. QED BY <1>1, <2>7, <4>2, <5>1 DEF RegistryTypeOK
      <4>. QED BY <2>5, <4>1, <4>2
    <3>. QED BY <2>3, <2>4, <3>1
  <2>8. \A k \in DOMAIN tasks' :
          (tasks'[k].id = id /\ tasks'[k].status = "running") \/ \E j \in DOMAIN tasks : tasks'[k] = tasks[j]
    BY <1>1, <1>2, <2>4, <2>5
  <2>9. ASSUME NEW j \in DOMAIN tasks, Len(tasks) # MaxTasks
        PROVE  \E k \in DOMAIN tasks' : tasks'[k].id = tasks[j].id
    <3>1. d = 0 /\ j \in 1 .. Len(tasks) /\ j \in 1 .. Len(tasks')
      <4>1. d # 1 /\ j \in 1 .. Len(tasks)
        BY <1>1, <2>3, <2>9
      <4>2. d = 0
        BY <4>1
      <4>. QED BY <1>1, <2>3, <2>4, <4>1, <4>2
    <3>2. tasks'[j] = tasks[j]
      BY <1>1, <2>5, <3>1
    <3>. QED BY <2>4, <3>1, <3>2
  <2>. QED BY <2>3, <2>4, <2>7, <2>8, <2>9 DEF ListStep
<1>. QED BY <1>3, <1>4

LEMMA RefreshIsListStep ==
  ASSUME RegistryTypeOK, Refresh
  PROVE  ListStep(Nobody, "running")
<1>1. PICK gone \in SUBSET {i \in DOMAIN tasks : tasks[i].status \in Terminal} :
        tasks' = Remaining(tasks, DOMAIN tasks \ gone)
  BY DEF Refresh
<1>. DEFINE places == DOMAIN tasks \ gone
<1>2. /\ tasks' \in Seq(TaskRecord) /\ Len(tasks') <= Len(tasks)
      /\ \A k \in DOMAIN tasks' : \E i \in places : tasks'[k] = tasks[i]
      /\ \A i \in places : \E k \in DOMAIN tasks' : tasks'[k] = tasks[i]
      /\ (\A i, j \in DOMAIN tasks : tasks[i] = tasks[j] => i = j) =>
           \A k, l \in DOMAIN tasks' : tasks'[k] = tasks'[l] => k = l
  <2>1. tasks \in Seq(TaskRecord) /\ places \in SUBSET DOMAIN tasks /\ tasks' = Remaining(tasks, places)
    BY <1>1 DEF RegistryTypeOK
  <2>. HIDE DEF places
  <2>. QED BY <2>1, KeptProperties
<1>3. ASSUME NEW k \in DOMAIN tasks', NEW l \in DOMAIN tasks', tasks'[k].id = tasks'[l].id PROVE k = l
  <2>1. PICK i \in places, j \in places : tasks'[k] = tasks[i] /\ tasks'[l] = tasks[j]
    BY <1>2
  <2>2. i = j
    BY <1>3, <2>1 DEF RegistryTypeOK
  <2>3. \A m, n \in DOMAIN tasks : tasks[m] = tasks[n] => m = n
    BY DEF RegistryTypeOK
  <2>. QED BY <1>2, <2>1, <2>2, <2>3
<1>4. Len(tasks') <= MaxTasks
  <2>1. Len(tasks') \in Nat /\ Len(tasks) \in Nat /\ Len(tasks) <= MaxTasks
    BY <1>2 DEF RegistryTypeOK
  <2>. QED BY <1>2, <2>1
<1>. QED BY <1>2, <1>3, <1>4 DEF ListStep

LEMMA SameIsListStep ==
  ASSUME RegistryTypeOK, UNCHANGED tasks
  PROVE  ListStep(Nobody, "running")
BY DEF RegistryTypeOK, ListStep
\* A step that reports of dead children only, and raises none, keeps the list true.
LEMMA ListStaysTrue ==
  ASSUME ProcInv, NEW id, NEW s, ListStep(id, s), s \in Terminal => child'[id] = "dead",
         \A i \in Ids : child[i] = "dead" => child'[i] = "dead",
         tokens' \subseteq Ids, cancelled' \subseteq Ids, killing' \in Ids \cup {Nobody}
  PROVE  RegistryTypeOK' /\ ListTrue'
<1>1. RegistryTypeOK'
  BY DEF ListStep, RegistryTypeOK
<1>2. ASSUME NEW k \in DOMAIN tasks', tasks'[k].status \in Terminal
      PROVE  child'[tasks'[k].id] = "dead"
  <2>1. CASE tasks'[k].id = id /\ tasks'[k].status = s
    BY <1>2, <2>1
  <2>2. CASE \E j \in DOMAIN tasks : tasks'[k] = tasks[j]
    <3>1. PICK j \in DOMAIN tasks : tasks'[k] = tasks[j]
      BY <2>2
    <3>2. tasks[j] \in TaskRecord /\ tasks[j].status \in Terminal
      BY <1>2, <3>1 DEF ProcInv, RegistryTypeOK
    <3>3. tasks[j].id \in Ids /\ child[tasks[j].id] = "dead"
      BY <3>1, <3>2 DEF ProcInv, TaskRecord, ListTrue
    <3>. QED BY <3>1, <3>3
  <2>. QED BY <2>1, <2>2 DEF ListStep
<1>. QED BY <1>1, <1>2 DEF ListTrue

\* What is not about the list.
RestInv == ProcTypes /\ LoopInv /\ OutcomeInv /\ TableTrue /\ RunningIsKillable

LEMMA QuietListStep ==
  ASSUME ProcInv, UNCHANGED tasks, \A i \in Ids : child[i] = "dead" => child'[i] = "dead",
         tokens' \subseteq Ids, cancelled' \subseteq Ids, killing' \in Ids \cup {Nobody}
  PROVE  RegistryTypeOK' /\ ListTrue'
<1>1. ListStep(Nobody, "running") /\ "running" \notin Terminal
  BY SameIsListStep DEF ProcInv, Terminal
<1>. QED BY <1>1, ListStaysTrue

\* A step that leaves the list alone and raises no child.
QuietList ==
  /\ UNCHANGED tasks /\ \A i \in Ids : child[i] = "dead" => child'[i] = "dead"
  /\ tokens' \subseteq Ids /\ cancelled' \subseteq Ids /\ killing' \in Ids \cup {Nobody}

\* The read loop's steps that leave the task list alone (proc_ops.rs).
LEMMA LoopKeeps ==
  ASSUME ProcInv,
         \/ StartRegister \/ StartInsert \/ ReadTable \/ Release \/ Poll \/ PollDone
         \/ WaitDeadline
         \/ \E p \in Procs : StartSpawn(p) \/ Signal(p) \/ Wait(p)
  PROVE  RestInv' /\ QuietList
<1>. USE DEF RestInv, ProcInv, RegistryTypeOK, ProcTypes, LoopInv, OutcomeInv, TableTrue, RunningIsKillable,
             Ids, At, Idle, Terminal, registry, procs, QuietList
<1>1. CASE StartRegister
  BY <1>1 DEF StartRegister, RegisterToken
<1>2. CASE StartInsert
  BY <1>2 DEF StartInsert
<1>3. CASE ReadTable
  BY <1>3 DEF ReadTable
<1>4. CASE Release
  BY <1>4 DEF Release
<1>5. CASE Poll
  BY <1>5 DEF Poll
<1>6. CASE PollDone
  BY <1>6 DEF PollDone
<1>7. CASE WaitDeadline
  BY <1>7 DEF WaitDeadline
<1>8. ASSUME NEW p \in Procs, StartSpawn(p) PROVE RestInv' /\ QuietList
  BY <1>8 DEF StartSpawn
<1>9. ASSUME NEW p \in Procs, Signal(p) PROVE RestInv' /\ QuietList
  BY <1>9 DEF Signal
<1>10. ASSUME NEW p \in Procs, Wait(p) PROVE RestInv' /\ QuietList
  BY <1>10 DEF Wait
<1>. QED BY <1>1, <1>2, <1>3, <1>4, <1>5, <1>6, <1>7, <1>8, <1>9, <1>10

\* The steps of a shell action that leave the list alone, and a new client (ws_client.rs).
LEMMA ActionKeeps ==
  ASSUME ProcInv,
         \/ ActionRun \/ ActionFinish \/ ActionAbandoned \/ ClientReplaced
  PROVE  RestInv' /\ QuietList
<1>. USE DEF RestInv, ProcInv, RegistryTypeOK, ProcTypes, LoopInv, OutcomeInv, TableTrue, RunningIsKillable,
             Ids, At, Idle, Terminal, registry, procs, QuietList
<1>1. CASE ActionRun
  BY <1>1 DEF ActionRun, RegisterToken
<1>2. CASE ActionFinish
  BY <1>2 DEF ActionFinish
<1>3. CASE ActionAbandoned
  BY <1>3 DEF ActionAbandoned
<1>4. CASE ClientReplaced
  BY <1>4 DEF ClientReplaced
<1>. QED BY <1>1, <1>2, <1>3, <1>4

\* A monitor's steps up to the publication, and the child's end (proc_ops.rs).
LEMMA MonitorKeeps ==
  ASSUME ProcInv,
         \/ \E i \in Ids : ChildExits(i) \/ (KillCancel(i) /\ UNCHANGED <<procs, loop>>)
         \/ \E p \in Procs : MonitorTerm(p) \/ MonitorReap(p) \/ MonitorWaited(p) \/ MonitorPublish(p)
  PROVE  RestInv' /\ QuietList
<1>. USE DEF RestInv, ProcInv, RegistryTypeOK, ProcTypes, LoopInv, OutcomeInv, TableTrue, RunningIsKillable,
             Ids, At, Idle, Terminal, registry, procs, QuietList
<1>1. ASSUME NEW p \in Procs, MonitorTerm(p) PROVE RestInv' /\ QuietList
  BY <1>1 DEF MonitorTerm
<1>2. ASSUME NEW p \in Procs, MonitorReap(p) PROVE RestInv' /\ QuietList
  BY <1>2 DEF MonitorReap
<1>3. ASSUME NEW p \in Procs, MonitorWaited(p) PROVE RestInv' /\ QuietList
  BY <1>3 DEF MonitorWaited
<1>4. ASSUME NEW p \in Procs, MonitorPublish(p) PROVE RestInv' /\ QuietList
  BY <1>4 DEF MonitorPublish, TableLocked
<1>5. ASSUME NEW i \in Ids, ChildExits(i) PROVE RestInv' /\ QuietList
  BY <1>5 DEF ChildExits
<1>6. ASSUME NEW i \in Ids, KillCancel(i), UNCHANGED <<procs, loop>> PROVE RestInv' /\ QuietList
  BY <1>6 DEF KillCancel
<1>. QED BY <1>1, <1>2, <1>3, <1>4, <1>5, <1>6

\* The steps that change the list (task_registry.rs: record_global_task,
\* update_global_task, mark_status, cleanup_stale_tasks).
LEMMA StartRecordPreserves == ASSUME ProcInv, StartRecord PROVE ProcInv'
<1>1. loop.id \in Ids
  BY DEF StartRecord, ProcInv, LoopInv, Ids
<1>2. RegistryTypeOK' /\ ListTrue'
  <2>1. ListStep(loop.id, "running") /\ "running" \notin Terminal
    BY <1>1, RecordIsListStep DEF StartRecord, ProcInv, Terminal
  <2>2. UNCHANGED <<child, tokens, cancelled, killing>>
    BY DEF StartRecord, procs
  <2>. QED BY <2>1, <2>2, ListStaysTrue DEF ProcInv, RegistryTypeOK
<1>3. RestInv'
  BY DEF StartRecord, RestInv, ProcInv, ProcTypes, LoopInv, OutcomeInv, TableTrue, RunningIsKillable, Ids, At, Terminal, procs
<1>. QED BY <1>2, <1>3 DEF ProcInv, RestInv

LEMMA ActionBeginPreserves == ASSUME ProcInv, NEW a \in Actions, ActionBegin(a) PROVE ProcInv'
<1>1. RegistryTypeOK' /\ ListTrue'
  <2>1. ListStep(a, "running") /\ "running" \notin Terminal
    BY RecordIsListStep DEF ActionBegin, ProcInv, Terminal, Ids
  <2>2. UNCHANGED <<child, tokens, cancelled, killing>>
    BY DEF ActionBegin, procs
  <2>. QED BY <2>1, <2>2, ListStaysTrue DEF ProcInv, RegistryTypeOK
<1>2. RestInv'
  BY DEF ActionBegin, RestInv, ProcInv, ProcTypes, LoopInv, OutcomeInv, TableTrue, RunningIsKillable, Ids, At, Idle,
         Terminal, procs
<1>. QED BY <1>1, <1>2 DEF ProcInv, RestInv

LEMMA MonitorUpdatePreserves == ASSUME ProcInv, NEW p \in Procs, MonitorUpdate(p) PROVE ProcInv'
<1>1. p \in Ids /\ outcome[p] \in Terminal /\ child[p] = "dead"
  BY DEF MonitorUpdate, ProcInv, OutcomeInv, Ids, Terminal
<1>2. RegistryTypeOK' /\ ListTrue'
  <2>1. ListStep(p, outcome[p])
    BY <1>1, UpdateIsListStep DEF MonitorUpdate, Update, ProcInv, Status
  <2>2. UNCHANGED <<child, cancelled, killing>> /\ tokens' \subseteq tokens
    BY DEF MonitorUpdate, Update
  <2>. QED BY <1>1, <2>1, <2>2, ListStaysTrue DEF ProcInv, RegistryTypeOK
<1>3. RestInv'
  BY <1>1 DEF MonitorUpdate, Update, RestInv, ProcInv, ProcTypes, LoopInv, OutcomeInv, TableTrue, RunningIsKillable,
              Ids, At, Terminal
<1>. QED BY <1>2, <1>3 DEF ProcInv, RestInv

LEMMA ActionReportPreserves == ASSUME ProcInv, ActionReport PROVE ProcInv'
<1>1. loop.id \in Ids /\ outcome[loop.id] \in Terminal /\ child[loop.id] = "dead"
  BY DEF ActionReport, ProcInv, LoopInv, OutcomeInv, Ids, Terminal
<1>2. RegistryTypeOK' /\ ListTrue'
  <2>1. ListStep(loop.id, outcome[loop.id])
    BY <1>1, UpdateIsListStep DEF ActionReport, Update, ProcInv, Status
  <2>2. UNCHANGED <<child, cancelled, killing>> /\ tokens' \subseteq tokens
    BY DEF ActionReport, Update
  <2>. QED BY <1>1, <2>1, <2>2, ListStaysTrue DEF ProcInv, RegistryTypeOK
<1>3. RestInv'
  BY <1>1 DEF ActionReport, Update, RestInv, ProcInv, ProcTypes, LoopInv, OutcomeInv, TableTrue, RunningIsKillable,
              Ids, At, Idle, Terminal
<1>. QED BY <1>2, <1>3 DEF ProcInv, RestInv

\* The window's two other steps.
LEMMA WindowPreserves == ASSUME ProcInv, Refresh \/ KillMark, UNCHANGED <<procs, loop>> PROVE ProcInv'
<1>1. "running" \notin Terminal /\ "cancelling" \in Status /\ "cancelling" \notin Terminal
  BY DEF Terminal, Status
<1>2. \E id, s : ListStep(id, s) /\ s \notin Terminal
  <2>1. CASE Refresh
    BY <1>1, <2>1, RefreshIsListStep DEF ProcInv
  <2>2. CASE KillMark
    BY <1>1, <2>2, UpdateIsListStep DEF ProcInv, KillMark, Update
  <2>. QED BY <2>1, <2>2
<1>3. UNCHANGED <<child, tokens, cancelled>> /\ killing' \in {killing, Nobody}
  BY <1>1 DEF Refresh, KillMark, Update, procs
<1>4. RegistryTypeOK' /\ ListTrue'
  BY <1>2, <1>3, ListStaysTrue DEF ProcInv, RegistryTypeOK
<1>5. RestInv'
  BY <1>3 DEF RestInv, ProcInv, ProcTypes, LoopInv, OutcomeInv, TableTrue, RunningIsKillable, At, procs
<1>. QED BY <1>4, <1>5 DEF ProcInv, RestInv

LEMMA QuietPreserves == ASSUME ProcInv, RestInv', QuietList PROVE ProcInv'
BY QuietListStep DEF QuietList, ProcInv, RestInv

LEMMA ProcStep == ProcInv /\ [ProcNext]_procVars => ProcInv'
<1>. SUFFICES ASSUME ProcInv, [ProcNext]_procVars PROVE ProcInv'
  OBVIOUS
<1>1. CASE UiStep
  BY <1>1, WindowPreserves, MonitorKeeps, QuietPreserves DEF UiStep
<1>2. CASE LoopStep
  BY <1>2, LoopKeeps, ActionKeeps, QuietPreserves, StartRecordPreserves, ActionReportPreserves, ActionBeginPreserves
     DEF LoopStep
<1>3. ASSUME NEW p \in Procs, MonitorStep(p) PROVE ProcInv'
  BY <1>3, MonitorKeeps, QuietPreserves, MonitorUpdatePreserves DEF MonitorStep
<1>4. ASSUME NEW i \in Ids, ChildExits(i) PROVE ProcInv'
  BY <1>4, MonitorKeeps, QuietPreserves
<1>5. CASE UNCHANGED procVars
  <2>1. UNCHANGED <<tasks, tokens, cancelled, killing, child, outcome, mon, table, loop>>
    BY <1>5 DEF procVars, registry
  <2>. QED
    BY <2>1 DEF ProcInv, RegistryTypeOK, ProcTypes, LoopInv, OutcomeInv, ListTrue, TableTrue, RunningIsKillable
<1>. QED BY <1>1, <1>2, <1>3, <1>4, <1>5 DEF ProcNext

\* Every step of the daemon is one of this part's or leaves it alone.
LEMMA ProcPart == MCInit => ProcInit
BY DEF MCInit
LEMMA ProcPartStep == [MCNext]_<<part, procVars, ringVars, shellVars, ptyVars>> => [ProcNext]_procVars
BY DEF MCNext

LEMMA ProcHolds == MCSpec => []ProcInv
BY ProcInitInv, ProcStep, ProcPart, ProcPartStep, PTL DEF MCSpec

\* What the task list and the process table report ended is dead, whoever ended it
\* and whatever the read loop, the monitors and the window's loops do in between
\* (task_registry.rs:161-163, proc_ops.rs: monitor, shell.rs:342-343).
THEOREM ReportedEndIsTrue == MCSpec => []TerminalIsTrue
<1>1. ProcInv => TerminalIsTrue
  BY DEF ProcInv, ListTrue, TableTrue, TerminalIsTrue, StatusesOf, Ids
<1>. QED BY <1>1, ProcHolds, PTL

\* A process whose monitor waits for it or kills it has its token registered, once
\* its start is past that point: the window can kill it even after its client is
\* gone (proc_ops.rs: start, monitor; task_registry.rs: update_global_task).
THEOREM RunningStaysKillable == MCSpec => []RunningIsKillable
<1>1. ProcInv => RunningIsKillable
  BY DEF ProcInv
<1>. QED BY <1>1, ProcHolds, PTL

LEMMA StepsOfList == ProcInv /\ [ProcNext]_procVars => UNCHANGED tasks \/ \E id, s : ListStep(id, s)
<1>. SUFFICES ASSUME ProcInv, [ProcNext]_procVars PROVE UNCHANGED tasks \/ \E id, s : ListStep(id, s)
  OBVIOUS
<1>1. CASE UiStep
  <2>1. CASE Refresh
    BY <2>1, RefreshIsListStep DEF ProcInv
  <2>2. CASE KillMark
    BY <2>2, UpdateIsListStep DEF KillMark, Update, ProcInv, Status
  <2>. QED BY <1>1, <2>1, <2>2 DEF UiStep, KillCancel
<1>2. CASE LoopStep
  <2>1. CASE StartRecord
    BY <2>1, RecordIsListStep DEF StartRecord, ProcInv, LoopInv, Ids
  <2>2. CASE ActionReport
    <3>1. outcome[loop.id] \in Status
      BY <2>2 DEF ActionReport, ProcInv, LoopInv, Status
    <3>. QED BY <2>2, <3>1, UpdateIsListStep DEF ActionReport, Update, ProcInv
  <2>3. CASE \E a \in Actions : ActionBegin(a)
    BY <2>3, RecordIsListStep DEF ActionBegin, ProcInv, Ids
  <2>. QED BY <1>2, <2>1, <2>2, <2>3, LoopKeeps, ActionKeeps DEF LoopStep, QuietList
<1>3. ASSUME NEW p \in Procs, MonitorStep(p) PROVE UNCHANGED tasks \/ \E id, s : ListStep(id, s)
  <2>1. CASE MonitorUpdate(p)
    <3>1. outcome[p] \in Status
      BY <2>1 DEF MonitorUpdate, ProcInv, OutcomeInv, Status
    <3>. QED BY <2>1, <3>1, UpdateIsListStep DEF MonitorUpdate, Update, ProcInv
  <2>. QED BY <1>3, <2>1, MonitorKeeps DEF MonitorStep, QuietList
<1>4. CASE UNCHANGED procVars \/ \E i \in Ids : ChildExits(i)
  BY <1>4 DEF procVars, registry, ChildExits
<1>. QED BY <1>1, <1>2, <1>3, <1>4 DEF ProcNext

\* A task whose child lives leaves the list only when the list was full: neither
\* the window's cleanup nor the end of another task takes it away
\* (task_registry.rs: record_global_task, cleanup_stale_tasks).
THEOREM LiveTaskKept == MCSpec => LiveTaskDroppedOnlyByCap
<1>1. ProcInv /\ [ProcNext]_procVars =>
        [\A i \in IdsOf(tasks) : child[i] = "alive" /\ i \notin IdsOf(tasks)' => Len(tasks) = MaxTasks]_procVars
  <2>. SUFFICES ASSUME ProcInv, [ProcNext]_procVars, NEW i \in IdsOf(tasks), child[i] = "alive", i \notin IdsOf(tasks)'
                PROVE  Len(tasks) = MaxTasks
    OBVIOUS
  <2>1. PICK j \in DOMAIN tasks : tasks[j].id = i
    BY DEF IdsOf
  <2>2. tasks[j].status \notin Terminal
    BY <2>1 DEF ProcInv, ListTrue
  <2>3. PICK id, s : ListStep(id, s)
    BY <2>1, StepsOfList DEF IdsOf
  <2>4. ~ \E k \in DOMAIN tasks' : tasks'[k].id = tasks[j].id
    BY <2>1 DEF IdsOf
  <2>. QED BY <2>2, <2>3, <2>4 DEF ListStep
<1>2. MCSpec => [][ProcNext]_procVars
  BY ProcPartStep, PTL DEF MCSpec
<1>. QED BY <1>1, <1>2, ProcHolds, PTL DEF LiveTaskDroppedOnlyByCap

----------------------------------------------------------------------------
(* The log ring. *)

\* The ring holds the newest lines, all of them until it is full.
RingInv ==
  /\ total \in 0 .. MaxLines /\ from \in 0 .. total
  /\ ring \in Seq(0 .. MaxLines) /\ batch \in Seq(0 .. MaxLines)
  /\ Len(ring) = LeastOf(total, RingCapacity)
  /\ \A i \in 1 .. Len(ring) : ring[i] = total - Len(ring) + i - 1

LEMMA RingInitInv == RingInit => RingInv
BY EmptySeq DEF RingInit, RingInv, LeastOf

LEMMA PushPreserves == ASSUME RingInv, Push PROVE RingInv'
<1>1. /\ total \in Nat /\ total < MaxLines /\ total' = total + 1 /\ UNCHANGED <<from, batch, seen>>
      /\ ring \in Seq(0 .. MaxLines) /\ Len(ring) \in Nat /\ RingCapacity \in Nat \ {0} /\ MaxLines \in Nat
  BY DEF RingInv, Push
<1>. DEFINE kept == IF Len(ring) >= RingCapacity THEN Tail(ring) ELSE ring
<1>2. /\ kept \in Seq(0 .. MaxLines) /\ Len(kept) + 1 = LeastOf(total + 1, RingCapacity)
      /\ \A i \in 1 .. Len(kept) : kept[i] = total - Len(kept) + i - 1
  <2>1. CASE Len(ring) >= RingCapacity
    <3>1. Len(ring) = RingCapacity /\ total >= RingCapacity /\ ring # <<>>
      BY <1>1, <2>1 DEF RingInv, LeastOf
    <3>2. /\ Tail(ring) \in Seq(0 .. MaxLines) /\ Len(Tail(ring)) = Len(ring) - 1
          /\ \A i \in 1 .. Len(Tail(ring)) : Tail(ring)[i] = ring[i + 1]
      BY <1>1, <3>1, HeadTailProperties
    <3>3. \A i \in 1 .. Len(ring) - 1 : i + 1 \in 1 .. Len(ring) /\ ring[i + 1] = total - Len(ring) + (i + 1) - 1
      BY <1>1 DEF RingInv
    <3>. QED BY <1>1, <2>1, <3>1, <3>2, <3>3 DEF LeastOf
  <2>2. CASE ~(Len(ring) >= RingCapacity)
    <3>1. Len(ring) = LeastOf(total, RingCapacity) /\ \A i \in 1 .. Len(ring) : ring[i] = total - Len(ring) + i - 1
      BY DEF RingInv
    <3>2. Len(ring) = total /\ total < RingCapacity /\ LeastOf(total + 1, RingCapacity) = total + 1
      BY <1>1, <2>2, <3>1 DEF LeastOf
    <3>. QED BY <1>1, <2>2, <3>1, <3>2
  <2>. QED BY <2>1, <2>2
<1>3. ring' = Append(kept, total)
  BY DEF Push
<1>. HIDE DEF kept
<1>4. /\ ring' \in Seq(0 .. MaxLines) /\ Len(ring') = Len(kept) + 1 /\ ring'[Len(kept) + 1] = total
      /\ \A i \in 1 .. Len(kept) : ring'[i] = kept[i]
  BY <1>1, <1>2, <1>3
<1>5. ASSUME NEW i \in 1 .. Len(ring')
      PROVE  ring'[i] = (total + 1) - Len(ring') + i - 1
  <2>1. Len(kept) \in Nat /\ Len(ring') = Len(kept) + 1
    BY <1>2, <1>4
  <2>2. CASE i \in 1 .. Len(kept)
    <3>1. ring'[i] = total - Len(kept) + i - 1
      BY <1>2, <1>4, <2>2
    <3>. QED BY <1>1, <2>1, <3>1
  <2>3. CASE i = Len(kept) + 1
    BY <1>1, <1>4, <2>1, <2>3
  <2>. QED BY <2>1, <2>2, <2>3
<1>6. total' \in 0 .. MaxLines /\ from' \in 0 .. total'
  BY <1>1 DEF RingInv
<1>. QED BY <1>1, <1>2, <1>4, <1>5, <1>6 DEF RingInv

\* What a poll returns, given where the ring starts (proc_ops.rs: LogRing::read).
LEMMA PollReturns ==
  ASSUME RingInv, NEW max \in 1 .. RingCapacity, PollLogs(max)
  PROVE  /\ batch' \in Seq(0 .. MaxLines) /\ Len(batch') \in Nat /\ from + Len(batch') <= total
         /\ \A i \in 1 .. Len(batch') : batch'[i] = 2 * (total - Len(ring)) + from + i - 1
         /\ total <= RingCapacity => total = Len(ring)
         /\ total <= RingCapacity => Len(batch') = LeastOf(max, total - from)
<1>. DEFINE lost == total - Len(ring)
            last == LeastOf(lost + from + max, Len(ring))
<1>1. /\ total \in Nat /\ from \in Nat /\ from <= total /\ ring \in Seq(0 .. MaxLines) /\ Len(ring) \in Nat
      /\ Len(ring) <= total /\ lost \in Nat /\ max \in Nat /\ max >= 1
      /\ total <= RingCapacity => lost = 0
  BY DEF RingInv, LeastOf
<1>2. batch' = SubSeq(ring, lost + from + 1, last)
  <2>1. LeastOf(from, total) = from
    BY <1>1 DEF LeastOf
  <2>. QED BY <2>1 DEF PollLogs, ReadLines
<1>3. last \in Nat /\ last <= Len(ring)
  BY <1>1 DEF LeastOf
<1>4. /\ batch' \in Seq(0 .. MaxLines)
      /\ Len(batch') = (IF lost + from + 1 <= last THEN last - (lost + from) ELSE 0)
      /\ \A i \in 1 .. last - (lost + from) : batch'[i] = ring[lost + from + i]
  <2>. HIDE DEF last, lost
  <2>1. CASE lost + from + 1 <= last
    <3>1. lost + from + 1 \in 1 .. Len(ring) + 1 /\ last \in lost + from .. Len(ring)
      BY <1>1, <1>3, <2>1
    <3>2. PICK m \in Int, n \in Int : m = lost + from + 1 /\ n = last
      BY <1>1, <1>3
    <3>3. \A i \in m .. n : ring[i] \in 0 .. MaxLines
      <4>1. m \in 1 .. Len(ring) + 1 /\ n \in m - 1 .. Len(ring)
        BY <1>1, <3>1, <3>2
      <4>2. \A i \in m .. n : i \in 1 .. Len(ring)
        BY <1>1, <4>1
      <4>. QED BY <1>1, <4>2
    <3>4. /\ SubSeq(ring, m, n) \in Seq(0 .. MaxLines)
          /\ Len(SubSeq(ring, m, n)) = IF m <= n THEN n - m + 1 ELSE 0
          /\ \A i \in 1 .. n - m + 1 : SubSeq(ring, m, n)[i] = ring[m + i - 1]
      BY <3>3, SubSeqProperties
    <3>5. n - m + 1 = last - (lost + from) /\ m <= n /\ batch' = SubSeq(ring, m, n)
      BY <1>1, <1>2, <1>3, <2>1, <3>2
    <3>6. ASSUME NEW i \in 1 .. n - m + 1 PROVE m + i - 1 = lost + from + i
      BY <1>1, <3>2
    <3>. QED BY <2>1, <3>4, <3>5, <3>6
  <2>2. CASE ~(lost + from + 1 <= last)
    BY <1>1, <1>2, <1>3, <2>2, SubSeqEmpty, EmptySeq
  <2>. QED BY <2>1, <2>2
<1>5. Len(batch') \in Nat /\ from + Len(batch') <= total
  BY <1>1, <1>3, <1>4
<1>6. ASSUME NEW i \in 1 .. Len(batch')
      PROVE  batch'[i] = 2 * lost + from + i - 1
  <2>. HIDE DEF last
  <2>1. i \in 1 .. last - (lost + from) /\ lost + from + i \in 1 .. Len(ring)
    BY <1>1, <1>3, <1>4
  <2>2. batch'[i] = ring[lost + from + i] /\ ring[lost + from + i] = lost + (lost + from + i) - 1
    BY <1>4, <2>1 DEF RingInv
  <2>. QED BY <1>1, <2>2
<1>7. ASSUME total <= RingCapacity
      PROVE  total = Len(ring) /\ Len(batch') = LeastOf(max, total - from)
  <2>1. lost = 0 /\ total = Len(ring)
    BY <1>1, <1>7
  <2>2. last = LeastOf(from + max, total)
    BY <1>1, <2>1
  <2>. QED BY <1>1, <1>4, <2>1, <2>2 DEF LeastOf
<1>. QED BY <1>4, <1>5, <1>6, <1>7

LEMMA PollPreserves == ASSUME RingInv, NEW max \in 1 .. RingCapacity, PollLogs(max) PROVE RingInv'
<1>1. batch' \in Seq(0 .. MaxLines) /\ Len(batch') \in Nat /\ from + Len(batch') <= total
  BY PollReturns
<1>2. from' \in {from + Len(batch'), total} /\ UNCHANGED <<ring, total>>
  BY DEF PollLogs
<1>3. from' \in 0 .. total
  BY <1>1, <1>2 DEF RingInv
<1>. QED BY <1>1, <1>2, <1>3 DEF RingInv

LEMMA RingStep == RingInv /\ [RingNext]_ringVars => RingInv'
<1>1. RingInv /\ UNCHANGED ringVars => RingInv'
  BY DEF RingInv, ringVars
<1>. QED BY <1>1, PushPreserves, PollPreserves DEF RingNext

\* The newest line a poll has returned lies behind what the next poll can return.
SeenInv == seen \in Nat /\ seen <= 2 * (total - Len(ring)) + from

LEMMA SeenStep == RingInv /\ SeenInv /\ [RingNext]_ringVars => SeenInv'
<1>. SUFFICES ASSUME RingInv, SeenInv, [RingNext]_ringVars PROVE SeenInv'
  OBVIOUS
<1>. DEFINE lost == total - Len(ring)
<1>1. total \in Nat /\ Len(ring) = LeastOf(total, RingCapacity) /\ from \in Nat /\ from <= total /\ RingCapacity \in Nat
  BY DEF RingInv
<1>2. CASE Push
  <2>1. RingInv' /\ total' = total + 1 /\ UNCHANGED <<from, seen>>
    BY <1>2, PushPreserves DEF Push
  <2>2. Len(ring)' = LeastOf(total + 1, RingCapacity)
    BY <2>1 DEF RingInv
  <2>3. lost \in Nat /\ total' - Len(ring') \in Nat /\ lost <= total' - Len(ring')
    BY <1>1, <2>1, <2>2 DEF LeastOf
  <2>4. seen \in Nat /\ seen <= 2 * lost + from
    BY DEF SeenInv
  <2>. HIDE DEF lost
  <2>5. PICK now \in Nat : now = total' - Len(ring') /\ lost <= now
    BY <2>3
  <2>6. seen <= 2 * now + from
    BY <1>1, <2>3, <2>4, <2>5
  <2>. QED BY <2>1, <2>4, <2>5, <2>6 DEF SeenInv
<1>3. ASSUME NEW max \in 1 .. RingCapacity, PollLogs(max) PROVE SeenInv'
  <2>1. /\ UNCHANGED <<ring, total>> /\ from' \in {from + Len(batch'), total}
        /\ seen' = IF batch' = <<>> THEN seen ELSE batch'[Len(batch')] + 1
    BY <1>3 DEF PollLogs
  <2>2. /\ batch' \in Seq(0 .. MaxLines) /\ Len(batch') \in Nat /\ from + Len(batch') <= total
        /\ \A i \in 1 .. Len(batch') : batch'[i] = 2 * lost + from + i - 1
    BY <1>3, PollReturns
  <2>3. lost \in Nat /\ seen <= 2 * lost + from /\ seen \in Nat
    BY <1>1 DEF LeastOf, SeenInv
  <2>. HIDE DEF lost
  <2>4. from' \in Nat /\ from + Len(batch') <= from'
    BY <1>1, <2>1, <2>2
  <2>5. CASE batch' = <<>>
    <3>1. seen' = seen /\ from <= from'
      BY <1>1, <2>1, <2>2, <2>4, <2>5
    <3>2. from \in Nat
      BY <1>1
    <3>3. seen' \in Nat /\ seen' <= 2 * lost + from'
      <4>1. ASSUME NEW l \in Nat, NEW f \in Nat, NEW g \in Nat, NEW s \in Nat, s <= 2 * l + f, f <= g
            PROVE  s <= 2 * l + g
        BY <4>1
      <4>. QED BY <2>3, <2>4, <3>1, <3>2, <4>1
    <3>. QED BY <2>1, <3>3 DEF SeenInv, lost
  <2>6. CASE batch' # <<>>
    <3>1. Len(batch') \in 1 .. Len(batch')
      BY <2>2, <2>6, EmptySeq
    <3>2. seen' = 2 * lost + from + Len(batch') - 1 + 1
      <4>1. seen' = batch'[Len(batch')] + 1
        BY <2>1, <2>6
      <4>2. PICK n \in 1 .. Len(batch') : n = Len(batch')
        BY <3>1
      <4>3. batch'[n] = 2 * lost + from + n - 1
        BY <2>2
      <4>. QED BY <4>1, <4>2, <4>3
    <3>3. seen' \in Nat /\ seen' <= 2 * lost + from'
      BY <1>1, <2>2, <2>3, <2>4, <3>2
    <3>. QED BY <2>1, <3>3 DEF SeenInv, lost
  <2>. QED BY <2>5, <2>6
<1>4. CASE UNCHANGED ringVars
  BY <1>4 DEF SeenInv, ringVars
<1>. QED BY <1>2, <1>3, <1>4 DEF RingNext

LEMMA RingPart == /\ MCInit => RingInit
                  /\ [MCNext]_<<part, procVars, ringVars, shellVars, ptyVars>> => [RingNext]_ringVars
BY DEF MCInit, MCNext

LEMMA RingHolds == MCSpec => [](RingInv /\ SeenInv)
<1>1. RingInit => RingInv /\ SeenInv
  BY RingInitInv DEF RingInit, RingInv, SeenInv, LeastOf
<1>2. RingInv /\ SeenInv /\ [RingNext]_ringVars => (RingInv /\ SeenInv)'
  BY RingStep, SeenStep
<1>. QED BY <1>1, <1>2, RingPart, PTL DEF MCSpec

\* For every ring size a poll returns consecutive lines, at `start' or later, that
\* no earlier poll returned, also after the ring has wrapped; and until the ring is
\* full exactly the next ones, as many as were asked for (proc_ops.rs:17-18,
\* LogRing::read).
THEOREM LogsInOrder == MCSpec => PollsInOrder
<1>. DEFINE InOrder(max) ==
       /\ \A i \in DOMAIN batch' : batch'[i] >= from /\ batch'[i] >= seen
       /\ \A i \in 1..Len(batch') - 1 : batch'[i + 1] = batch'[i] + 1
       /\ total <= RingCapacity =>
            /\ Len(batch') = LeastOf(max, total - from)
            /\ \A i \in DOMAIN batch' : batch'[i] = from + i - 1
<1>1. ASSUME RingInv, SeenInv, NEW max \in 1 .. RingCapacity, PollLogs(max) PROVE InOrder(max)
  <2>1. /\ total \in Nat /\ from \in Nat /\ total - Len(ring) \in Nat
        /\ DOMAIN batch' = 1 .. Len(batch') /\ Len(batch') \in Nat
    BY <1>1, PollReturns DEF RingInv, LeastOf
  <2>2. /\ \A i \in 1 .. Len(batch') : batch'[i] = 2 * (total - Len(ring)) + from + i - 1
        /\ total <= RingCapacity => total = Len(ring) /\ Len(batch') = LeastOf(max, total - from)
    BY <1>1, PollReturns
  <2>3. \A i \in 1 .. Len(batch') - 1 : batch'[i + 1] = batch'[i] + 1
    BY <2>1, <2>2
  <2>4. \A i \in 1 .. Len(batch') : batch'[i] >= from /\ batch'[i] >= seen
    BY <1>1, <2>1, <2>2 DEF SeenInv
  <2>5. total <= RingCapacity => \A i \in 1 .. Len(batch') : batch'[i] = from + i - 1
    <3>1. ASSUME total <= RingCapacity, NEW i \in 1 .. Len(batch') PROVE batch'[i] = from + i - 1
      <4>1. 2 * (total - Len(ring)) = 0
        BY <2>1, <2>2, <3>1
      <4>2. batch'[i] = 2 * (total - Len(ring)) + from + i - 1
        BY <2>2
      <4>. QED BY <2>1, <4>1, <4>2
    <3>. QED BY <3>1
  <2>. QED BY <2>1, <2>2, <2>3, <2>4, <2>5
<1>2. RingInv /\ SeenInv /\ [RingNext]_ringVars => [\A max \in 1 .. RingCapacity : PollLogs(max) => InOrder(max)]_ringVars
  BY <1>1
<1>3. MCSpec => [][RingNext]_ringVars
  BY RingPart, PTL DEF MCSpec
<1>4. MCSpec => [][\A max \in 1 .. RingCapacity : PollLogs(max) => InOrder(max)]_ringVars
  BY <1>2, <1>3, RingHolds, PTL
<1>. QED BY <1>4 DEF PollsInOrder

----------------------------------------------------------------------------
(* The shell command. *)

\* x bytes of a stream have left its pump: f counts those forwarded and, chunk by
\* chunk, those in the channel.
Carried(s, x) ==
  \E f \in [0 .. Len(chan) -> 0 .. x] :
    /\ f[0] = streamed[s] /\ f[Len(chan)] = x
    /\ \A i \in 1 .. Len(chan) : f[i] = f[i - 1] + IF chan[i].s = s THEN chan[i].n ELSE 0

\* What a stream's pump has read was carried on or waits in its batch, all of it
\* while nothing was dropped and the read loop receives.
Accounted(s) ==
  \E x \in 0 .. MaxOutput :
    /\ Carried(s, x) /\ x + pend[s] <= MaxOutput
    /\ ~dropped[s] => x + pend[s] <= buf[s] /\ buf[s] <= MaxOutput
    /\ ~dropped[s] /\ receiver => x + pend[s] = buf[s]

\* The processes and await_result.
CallTypes ==
  /\ leader \in {"none", "alive", "dead"} /\ rest \in {"none", "alive", "away", "dead"}
  /\ stage \in {"idle", "running", "terminating", "grace", "draining", "done"}
  /\ verdict \in {"none", "exit", "timeout", "cancelled"}

\* The pumps and the channel.
FlowTypes ==
  /\ pump \in [Streams -> {"none", "reading", "flushing", "marking", "closing", "done"}]
  /\ buf \in [Streams -> 0 .. Width * MaxOutput + Marker]
  /\ pend \in [Streams -> Nat] /\ streamed \in [Streams -> Nat]
  /\ dropped \in [Streams -> BOOLEAN] /\ stopped \in [Streams -> BOOLEAN]
  /\ printed \in [Streams -> 0 .. MaxPrinted]
  /\ chan \in Seq([s : Streams, n : 0 .. MaxOutput]) /\ Len(chan) <= ChannelSize
  /\ receiver \in BOOLEAN

\* A pump ends with an empty batch, the call with ended pumps and an empty channel.
AllSent ==
  /\ \A s \in Streams : pump[s] = "done" => pend[s] = 0
  /\ stage = "done" => chan = <<>> /\ \A s \in Streams : pump[s] = "done"

\* The inductive invariant.
ShellInv == CallTypes /\ FlowTypes /\ AllSent /\ \A s \in Streams : Accounted(s)

Chunks == [s : Streams, n : 0 .. MaxOutput]

LEMMA CarriedAppend ==
  ASSUME chan \in Seq(Chunks), NEW s \in Streams, NEW x \in Nat, NEW t \in Streams, NEW m \in 0 .. MaxOutput,
         Carried(s, x), chan' = Append(chan, [s |-> t, n |-> m]), UNCHANGED streamed,
         NEW y \in Nat, y = x + IF t = s THEN m ELSE 0
  PROVE  Carried(s, y)'
<1>1. PICK f \in [0 .. Len(chan) -> 0 .. x] :
        /\ f[0] = streamed[s] /\ f[Len(chan)] = x
        /\ \A i \in 1 .. Len(chan) : f[i] = f[i - 1] + IF chan[i].s = s THEN chan[i].n ELSE 0
  BY DEF Carried
<1>. DEFINE n == Len(chan)
            c == [s |-> t, n |-> m]
            g == [i \in 0 .. n + 1 |-> IF i = n + 1 THEN y ELSE f[i]]
<1>2. n \in Nat /\ x <= y /\ c \in Chunks /\ c.s = t /\ c.n = m
  BY DEF Chunks
<1>. HIDE DEF c
<1>3. Len(chan') = n + 1 /\ chan'[n + 1] = c /\ \A i \in 1 .. n : chan'[i] = chan[i]
  BY <1>2 DEF c
<1>4. g \in [0 .. n + 1 -> 0 .. y]
  <2>1. ASSUME NEW i \in 0 .. n + 1 PROVE (IF i = n + 1 THEN y ELSE f[i]) \in 0 .. y
    <3>1. i # n + 1 => i \in 0 .. n
      BY <1>2
    <3>. QED BY <1>1, <1>2, <3>1
  <2>. QED BY <2>1
<1>5. g[0] = streamed'[s] /\ g[n + 1] = y
  BY <1>1, <1>2
<1>6. ASSUME NEW i \in 1 .. n + 1
      PROVE  g[i] = g[i - 1] + IF chan'[i].s = s THEN chan'[i].n ELSE 0
  <2>1. CASE i = n + 1
    <3>1. g[i] = y /\ g[i - 1] = x
      BY <1>1, <1>2, <2>1
    <3>. QED BY <1>2, <1>3, <2>1, <3>1
  <2>2. CASE i # n + 1
    <3>1. i \in 1 .. n /\ i - 1 \in 0 .. n /\ i - 1 # n + 1
      BY <1>2, <2>2
    <3>2. g[i] = f[i] /\ g[i - 1] = f[i - 1] /\ chan'[i] = chan[i]
      BY <1>2, <1>3, <2>2, <3>1
    <3>. QED BY <1>1, <3>1, <3>2
  <2>. QED BY <2>1, <2>2
<1>. HIDE DEF g
<1>7. /\ g \in [0 .. Len(chan') -> 0 .. y] /\ g[0] = streamed'[s] /\ g[Len(chan')] = y
      /\ \A i \in 1 .. Len(chan') : g[i] = g[i - 1] + IF chan'[i].s = s THEN chan'[i].n ELSE 0
  BY <1>3, <1>4, <1>5, <1>6
<1>. QED BY <1>7 DEF Carried

LEMMA CarriedTail ==
  ASSUME chan \in Seq(Chunks), streamed \in [Streams -> Nat], NEW s \in Streams, NEW x \in Nat,
         Carried(s, x), Receive
  PROVE  Carried(s, x)'
<1>1. PICK f \in [0 .. Len(chan) -> 0 .. x] :
        /\ f[0] = streamed[s] /\ f[Len(chan)] = x
        /\ \A i \in 1 .. Len(chan) : f[i] = f[i - 1] + IF chan[i].s = s THEN chan[i].n ELSE 0
  BY DEF Carried
<1>. DEFINE n == Len(chan) - 1
            g == [i \in 0 .. n |-> f[i + 1]]
<1>2. /\ chan # <<>> /\ chan' = Tail(chan)
      /\ streamed' = [streamed EXCEPT ![Head(chan).s] = @ + Head(chan).n]
  BY DEF Receive
<1>3. /\ n \in Nat /\ Len(chan) = n + 1 /\ Len(chan') = n /\ \A i \in 1 .. n : chan'[i] = chan[i + 1]
      /\ Head(chan) = chan[1] /\ chan[1] \in Chunks
  <2>1. Len(chan) \in Nat \ {0} /\ Head(chan) = chan[1]
    BY <1>2, EmptySeq
  <2>2. Len(Tail(chan)) = n /\ \A i \in 1 .. n : Tail(chan)[i] = chan[i + 1]
    BY <1>2, HeadTailProperties
  <2>. QED BY <1>2, <2>1, <2>2
<1>4. g \in [0 .. n -> 0 .. x]
  BY <1>1, <1>3
<1>5. g[0] = streamed'[s]
  <2>1. f[1] = f[0] + IF chan[1].s = s THEN chan[1].n ELSE 0
    BY <1>1, <1>3
  <2>2. streamed'[s] = streamed[s] + IF chan[1].s = s THEN chan[1].n ELSE 0
    BY <1>2, <1>3 DEF Chunks
  <2>. QED BY <1>1, <1>3, <2>1, <2>2
<1>6. g[n] = x
  BY <1>1, <1>3
<1>7. ASSUME NEW i \in 1 .. n
      PROVE  g[i] = g[i - 1] + IF chan'[i].s = s THEN chan'[i].n ELSE 0
  <2>1. i + 1 \in 1 .. Len(chan) /\ (i + 1) - 1 = i /\ i - 1 \in 0 .. n /\ (i - 1) + 1 = i
    BY <1>3
  <2>2. f[i + 1] = f[i] + IF chan[i + 1].s = s THEN chan[i + 1].n ELSE 0
    BY <1>1, <2>1
  <2>. QED BY <1>3, <2>1, <2>2
<1>. HIDE DEF g
<1>. QED BY <1>3, <1>4, <1>5, <1>6, <1>7 DEF Carried

LEMMA CarriedEmpty ==
  ASSUME streamed \in [Streams -> Nat], NEW s \in Streams, chan' = <<>>, UNCHANGED streamed
  PROVE  Carried(s, streamed[s])'
<1>. DEFINE g == [i \in 0 .. 0 |-> streamed[s]]
<1>1. Len(chan') = 0 /\ g \in [0 .. 0 -> 0 .. streamed[s]] /\ g[0] = streamed'[s]
  OBVIOUS
<1>. HIDE DEF g
<1>. QED BY <1>1 DEF Carried

LEMMA CarriedBounds ==
  ASSUME chan \in Seq(Chunks), NEW s \in Streams, NEW x \in Nat, Carried(s, x)
  PROVE  streamed[s] \in 0 .. x
BY DEF Carried

\* A step that neither carries nor reads for a stream.
LEMMA AccountedSame ==
  ASSUME NEW s \in Streams, Accounted(s), UNCHANGED <<chan, streamed, receiver>>,
         pend'[s] = pend[s], buf'[s] = buf[s], dropped'[s] = dropped[s]
  PROVE  Accounted(s)'
<1>1. \A x : Carried(s, x) => Carried(s, x)'
  BY DEF Carried
<1>. QED BY <1>1 DEF Accounted

LEMMA ShellInitInv == ShellInit => ShellInv
<1>. SUFFICES ASSUME ShellInit PROVE ShellInv
  OBVIOUS
<1>1. \A s \in Streams : Carried(s, 0)
  <2>. DEFINE g == [i \in 0 .. 0 |-> 0]
  <2>1. /\ Len(chan) = 0 /\ g \in [0 .. Len(chan) -> 0 .. 0] /\ g[0] = 0 /\ g[Len(chan)] = 0
        /\ \A s \in Streams : streamed[s] = 0
    BY DEF ShellInit
  <2>. HIDE DEF g
  <2>. QED BY <2>1 DEF Carried
<1>2. \A s \in Streams : Accounted(s)
  BY <1>1 DEF ShellInit, Accounted
<1>3. 0 <= Width * MaxOutput + Marker
  OBVIOUS
<1>4. chan \in Seq(Chunks) /\ Len(chan) = 0
  BY EmptySeq DEF ShellInit
<1>. QED BY <1>2, <1>3, <1>4 DEF ShellInit, ShellInv, CallTypes, FlowTypes, AllSent, Chunks

\* The processes and await_result leave the pumps and the channel alone.
LEMMA CallPreserves ==
  ASSUME ShellInv,
         LeaderExits \/ Background \/ RestExits \/ WaitReturns \/ GiveUp \/ Term \/ GraceEnough \/ Kill \/ Report
  PROVE  ShellInv'
<1>1. UNCHANGED <<pump, buf, pend, dropped, stopped, printed, chan, streamed, receiver>>
  BY DEF LeaderExits, Background, RestExits, Processes, WaitReturns, GiveUp, Term, GraceEnough, Kill, Report, Awaits, outputs
<1>2. FlowTypes' /\ \A s \in Streams : Accounted(s)'
  BY <1>1, AccountedSame DEF ShellInv, FlowTypes
<1>3. CallTypes'
  BY DEF LeaderExits, Background, RestExits, Processes, WaitReturns, GiveUp, Term, GraceEnough, Kill, Report,
         ShellInv, CallTypes
<1>4. stage' = "done" => stage = "done" \/ (chan = <<>> /\ \A s \in Streams : pump[s] = "done")
  BY DEF LeaderExits, Background, RestExits, Processes, WaitReturns, GiveUp, Term, GraceEnough, Kill, Report
<1>5. AllSent'
  BY <1>1, <1>4 DEF ShellInv, AllSent
<1>. QED BY <1>2, <1>3, <1>5 DEF ShellInv

LEMMA RunPreserves == ASSUME ShellInv, RunCommand PROVE ShellInv'
<1>1. FlowTypes' /\ CallTypes' /\ AllSent'
  BY DEF RunCommand, ShellInv, FlowTypes, CallTypes, AllSent
<1>2. \A s \in Streams : Accounted(s)'
  BY AccountedSame DEF RunCommand, ShellInv
<1>. QED BY <1>1, <1>2 DEF ShellInv

LEMMA EofPreserves == ASSUME ShellInv, NEW s \in Streams, PumpEof(s) PROVE ShellInv'
<1>1. FlowTypes' /\ CallTypes' /\ AllSent'
  BY DEF PumpEof, Pumped, ShellInv, FlowTypes, CallTypes, AllSent
<1>2. \A t \in Streams : Accounted(t)'
  BY AccountedSame DEF PumpEof, Pumped, ShellInv
<1>. QED BY <1>1, <1>2 DEF ShellInv

\* What a cut line leaves in the buffer: wide characters may take it past the limit.
LEMMA CutBound ==
  ASSUME NEW b \in Nat, b < MaxOutput, NEW cut \in Nat, cut <= Width * (MaxOutput - b)
  PROVE  b + cut + Marker \in 0 .. Width * MaxOutput + Marker
<1>. DEFINE wm == Width * MaxOutput
            wb == Width * b
            ws == Width * (MaxOutput - b)
<1>1. b \in Nat /\ Width \in Nat \ {0} /\ MaxOutput \in Nat
  OBVIOUS
<1>2. wm \in Nat /\ wb \in Nat /\ ws = wm - wb
  BY <1>1
<1>3. b <= wb
  BY <1>1
<1>. HIDE DEF wm, wb, ws
<1>4. cut <= ws
  BY DEF ws
<1>5. b + cut <= wm
  BY <1>1, <1>2, <1>3, <1>4
<1>6. b + cut + Marker \in 0 .. wm + Marker
  BY <1>1, <1>2, <1>5
<1>. QED BY <1>6 DEF wm

LEMMA LinePreserves ==
  ASSUME ShellInv, NEW s \in Streams, NEW n \in 1 .. MaxOutput, PumpLine(s, n)
  PROVE  ShellInv'
<1>1. PICK b \in Pushed(s, n) : buf' = [buf EXCEPT ![s] = b]
  BY DEF PumpLine
<1>2. buf[s] \in 0 .. Width * MaxOutput + Marker /\ buf[s] \in Nat /\ MaxOutput \in Nat
  BY DEF ShellInv, FlowTypes
<1>3. b \in 0 .. Width * MaxOutput + Marker /\ (buf[s] + n <= MaxOutput => b = buf[s] + n)
  <2>1. CASE buf[s] >= MaxOutput
    BY <1>1, <1>2, <2>1 DEF Pushed
  <2>2. CASE buf[s] < MaxOutput /\ buf[s] + n > MaxOutput
    <3>1. PICK cut \in (MaxOutput - buf[s]) .. n : cut <= Width * (MaxOutput - buf[s]) /\ b = buf[s] + cut + Marker
      BY <1>1, <1>2, <2>2 DEF Pushed
    <3>2. cut \in Nat
      BY <1>2, <2>2
    <3>. QED BY <1>2, <2>2, <3>1, <3>2, CutBound
  <2>3. CASE buf[s] < MaxOutput /\ buf[s] + n <= MaxOutput
    <3>1. b = buf[s] + n
      BY <1>1, <1>2, <2>3 DEF Pushed
    <3>2. MaxOutput <= Width * MaxOutput + Marker
      OBVIOUS
    <3>. QED BY <1>2, <2>3, <3>1, <3>2
  <2>. QED BY <1>2, <2>1, <2>2, <2>3
<1>. DEFINE full == dropped[s] \/ buf[s] + n > MaxOutput
<1>4. /\ pump[s] = "reading" /\ printed[s] < MaxPrinted /\ printed' = [printed EXCEPT ![s] = printed[s] + 1]
      /\ dropped' = [dropped EXCEPT ![s] = full]
      /\ UNCHANGED <<leader, rest, stage, verdict, streamed, receiver, chan>>
  BY DEF PumpLine, Pumped
<1>5. \/ full /\ UNCHANGED pend
      \/ ~full /\ pend' = [pend EXCEPT ![s] = pend[s] + n]
  BY DEF PumpLine
<1>6. /\ pump' \in [Streams -> {"none", "reading", "flushing", "marking", "closing", "done"}]
      /\ \A t \in Streams : pump'[t] = "done" => pump[t] = "done" /\ t # s
      /\ stopped' \in [Streams -> BOOLEAN]
  <2>. HIDE DEF full
  <2>1. /\ pump \in [Streams -> {"none", "reading", "flushing", "marking", "closing", "done"}]
        /\ stopped \in [Streams -> BOOLEAN]
    BY DEF ShellInv, FlowTypes
  <2>2. \E x \in {"reading", "flushing", "marking"} : pump' = [pump EXCEPT ![s] = x]
    BY <1>4 DEF PumpLine
  <2>3. UNCHANGED stopped \/ stopped' = [stopped EXCEPT ![s] = TRUE]
    BY DEF PumpLine
  <2>4. stopped' \in [Streams -> BOOLEAN]
    BY <2>1, <2>3
  <2>. QED BY <1>4, <2>1, <2>2, <2>4
<1>. HIDE DEF full
<1>7. FlowTypes'
  <2>1. full \in BOOLEAN /\ n \in Nat
    BY DEF full
  <2>2. dropped' \in [Streams -> BOOLEAN]
    BY <1>4, <2>1 DEF ShellInv, FlowTypes
  <2>4. pend' \in [Streams -> Nat]
    BY <1>5, <2>1 DEF ShellInv, FlowTypes
  <2>5. printed' \in [Streams -> 0 .. MaxPrinted]
    <3>1. printed[s] \in Nat /\ printed[s] < MaxPrinted /\ printed \in [Streams -> 0 .. MaxPrinted]
      BY <1>4 DEF ShellInv, FlowTypes
    <3>. QED BY <1>4, <3>1
  <2>3. buf' \in [Streams -> 0 .. Width * MaxOutput + Marker]
    BY <1>1, <1>3 DEF ShellInv, FlowTypes
  <2>. QED BY <1>4, <1>6, <2>2, <2>3, <2>4, <2>5 DEF ShellInv, FlowTypes
<1>8. CallTypes'
  BY <1>4 DEF ShellInv, CallTypes
<1>9. AllSent'
  BY <1>4, <1>5, <1>6 DEF ShellInv, FlowTypes, AllSent
<1>10. ASSUME NEW t \in Streams PROVE Accounted(t)'
  <2>1. CASE t # s
    <3>1. pend'[t] = pend[t] /\ buf'[t] = buf[t] /\ dropped'[t] = dropped[t]
      BY <1>1, <1>4, <1>5, <2>1 DEF ShellInv, FlowTypes
    <3>. QED BY <1>4, <3>1, AccountedSame DEF ShellInv
  <2>2. CASE t = s
    <3>1. PICK x \in 0 .. MaxOutput :
            /\ Carried(s, x) /\ x + pend[s] <= MaxOutput
            /\ ~dropped[s] => x + pend[s] <= buf[s] /\ buf[s] <= MaxOutput
            /\ ~dropped[s] /\ receiver => x + pend[s] = buf[s]
      BY DEF ShellInv, Accounted
    <3>2. Carried(s, x)'
      BY <1>4, <3>1 DEF Carried
    <3>3. /\ dropped'[s] = full /\ buf'[s] = b /\ pend[s] \in Nat
          /\ pend'[s] = IF full THEN pend[s] ELSE pend[s] + n
      BY <1>1, <1>4, <1>5 DEF ShellInv, FlowTypes
    <3>4. ~full => ~dropped[s] /\ buf[s] + n <= MaxOutput
      BY <1>2 DEF full
    <3>5. /\ x + pend'[s] <= MaxOutput
          /\ ~dropped'[s] => x + pend'[s] <= buf'[s] /\ buf'[s] <= MaxOutput
          /\ ~dropped'[s] /\ receiver' => x + pend'[s] = buf'[s]
      BY <1>2, <1>3, <1>4, <3>1, <3>3, <3>4
    <3>. QED BY <2>2, <3>2, <3>5 DEF Accounted
  <2>. QED BY <2>1, <2>2
<1>. QED BY <1>7, <1>8, <1>9, <1>10 DEF ShellInv

\* Sending carries on what the stream had batched, as long as somebody receives.
LEMMA SendPreserves ==
  ASSUME ShellInv, NEW s \in Streams, SendChunk(s, pend[s]), pend' = [pend EXCEPT ![s] = 0],
         UNCHANGED <<streamed, receiver, buf, dropped>>
  PROVE  /\ pend' \in [Streams -> Nat] /\ chan' \in Seq(Chunks) /\ Len(chan') <= ChannelSize
         /\ \A t \in Streams : Accounted(t)'
<1>1. /\ chan \in Seq(Chunks) /\ Len(chan) <= ChannelSize /\ Len(chan) \in Nat /\ ChannelSize \in Nat
      /\ pend \in [Streams -> Nat] /\ buf \in [Streams -> Nat]
  BY DEF ShellInv, FlowTypes, Chunks
<1>2. pend' \in [Streams -> Nat] /\ pend'[s] = 0 /\ \A t \in Streams : t # s => pend'[t] = pend[t]
  BY <1>1
<1>3. pend[s] \in 0 .. MaxOutput
  BY <1>1 DEF ShellInv, Accounted
<1>4. CASE receiver /\ Len(chan) < ChannelSize /\ chan' = Append(chan, [s |-> s, n |-> pend[s]])
  <2>1. chan' \in Seq(Chunks) /\ Len(chan') <= ChannelSize
    BY <1>1, <1>3, <1>4 DEF Chunks
  <2>2. ASSUME NEW t \in Streams PROVE Accounted(t)'
    <3>1. PICK x \in 0 .. MaxOutput :
            /\ Carried(t, x) /\ x + pend[t] <= MaxOutput
            /\ ~dropped[t] => x + pend[t] <= buf[t] /\ buf[t] <= MaxOutput
            /\ ~dropped[t] /\ receiver => x + pend[t] = buf[t]
      BY DEF ShellInv, Accounted
    <3>2. /\ x \in Nat /\ pend'[t] \in Nat /\ pend[t] \in Nat /\ buf'[t] \in Nat /\ MaxOutput \in Nat
          /\ x + (IF s = t THEN pend[s] ELSE 0) + pend'[t] = x + pend[t]
          /\ x + (IF s = t THEN pend[s] ELSE 0) \in 0 .. MaxOutput
      BY <1>1, <1>2, <3>1
    <3>3. PICK y \in 0 .. MaxOutput : y = x + IF s = t THEN pend[s] ELSE 0
      BY <3>2
    <3>4. PICK m \in 0 .. MaxOutput : m = pend[s]
      BY <1>3
    <3>5. /\ chan' = Append(chan, [s |-> s, n |-> m]) /\ UNCHANGED streamed
          /\ x \in Nat /\ y \in Nat /\ y = x + IF s = t THEN m ELSE 0
      BY <1>4, <3>2, <3>3, <3>4
    <3>6. Carried(t, y)'
      BY <1>1, <3>1, <3>5, CarriedAppend
    <3>7. /\ y + pend'[t] <= MaxOutput
          /\ ~dropped'[t] => y + pend'[t] <= buf'[t] /\ buf'[t] <= MaxOutput
          /\ ~dropped'[t] /\ receiver' => y + pend'[t] = buf'[t]
      BY <3>1, <3>2, <3>3
    <3>. QED BY <3>6, <3>7 DEF Accounted
  <2>. QED BY <1>2, <2>1, <2>2
<1>5. CASE ~receiver /\ UNCHANGED chan
  <2>1. ASSUME NEW t \in Streams PROVE Accounted(t)'
    <3>1. PICK x \in 0 .. MaxOutput :
            /\ Carried(t, x) /\ x + pend[t] <= MaxOutput
            /\ ~dropped[t] => x + pend[t] <= buf[t] /\ buf[t] <= MaxOutput
      BY DEF ShellInv, Accounted
    <3>2. Carried(t, x)'
      BY <1>5, <3>1 DEF Carried
    <3>3. pend'[t] \in Nat /\ pend'[t] <= pend[t] /\ pend[t] \in Nat /\ buf[t] \in Nat /\ ~receiver'
      BY <1>1, <1>2, <1>5
    <3>4. /\ x + pend'[t] <= MaxOutput
          /\ ~dropped'[t] => x + pend'[t] <= buf'[t] /\ buf'[t] <= MaxOutput
      BY <3>1, <3>3
    <3>. QED BY <3>2, <3>3, <3>4 DEF Accounted
  <2>. QED BY <1>1, <1>2, <1>5, <2>1
<1>. QED BY <1>4, <1>5 DEF SendChunk

LEMMA PumpSendPreserves ==
  ASSUME ShellInv, NEW s \in Streams, PumpFlush(s) \/ PumpMark(s)
  PROVE  ShellInv'
<1>1. /\ SendChunk(s, pend[s]) /\ pend' = [pend EXCEPT ![s] = 0] /\ pump[s] \in {"flushing", "closing", "marking"}
      /\ UNCHANGED <<leader, rest, stage, verdict, streamed, receiver, buf, dropped, stopped, printed>>
  BY DEF PumpFlush, PumpMark, Pumped
<1>2. /\ pend' \in [Streams -> Nat] /\ chan' \in Seq(Chunks) /\ Len(chan') <= ChannelSize
      /\ \A t \in Streams : Accounted(t)'
  BY <1>1, SendPreserves
<1>3. /\ pump' \in [Streams -> {"none", "reading", "flushing", "marking", "closing", "done"}]
      /\ \A t \in Streams : t # s => pump'[t] = pump[t]
  BY DEF PumpFlush, PumpMark, ShellInv, FlowTypes
<1>4. FlowTypes'
  BY <1>1, <1>2, <1>3 DEF ShellInv, FlowTypes, Chunks
<1>5. CallTypes'
  BY <1>1 DEF ShellInv, CallTypes
<1>6. AllSent'
  <2>1. \A t \in Streams : pend'[t] = IF t = s THEN 0 ELSE pend[t]
    BY <1>1 DEF ShellInv, FlowTypes
  <2>2. stage # "done"
    BY <1>1 DEF ShellInv, AllSent
  <2>. QED BY <1>1, <1>3, <2>1, <2>2 DEF ShellInv, AllSent
<1>. QED BY <1>2, <1>4, <1>5, <1>6 DEF ShellInv

LEMMA ReceivePreserves == ASSUME ShellInv, Receive PROVE ShellInv'
<1>1. /\ chan \in Seq(Chunks) /\ chan # <<>> /\ chan' = Tail(chan) /\ Len(chan) <= ChannelSize
      /\ streamed \in [Streams -> Nat]
      /\ UNCHANGED <<leader, rest, stage, verdict, pump, buf, pend, dropped, stopped, printed, receiver>>
  BY DEF Receive, outputs, ShellInv, FlowTypes, Chunks
<1>2. chan' \in Seq(Chunks) /\ Len(chan') <= ChannelSize
  <2>1. Tail(chan) \in Seq(Chunks) /\ Len(Tail(chan)) = Len(chan) - 1 /\ Len(chan) \in Nat
    BY <1>1, HeadTailProperties
  <2>. QED BY <1>1, <2>1
<1>3. streamed' \in [Streams -> Nat]
  <2>1. Head(chan) \in Chunks
    BY <1>1, HeadTailProperties
  <2>. QED BY <1>1, <2>1 DEF Receive, Chunks
<1>4. ASSUME NEW s \in Streams PROVE Accounted(s)'
  <2>1. \A x \in Nat : Carried(s, x) => Carried(s, x)'
    BY <1>1, CarriedTail
  <2>2. \A x \in 0 .. MaxOutput : Carried(s, x) => Carried(s, x)'
    BY <2>1
  <2>. QED BY <1>1, <2>2 DEF ShellInv, Accounted
<1>5. FlowTypes' /\ CallTypes'
  BY <1>1, <1>2, <1>3 DEF ShellInv, FlowTypes, CallTypes, Chunks
<1>6. AllSent'
  BY <1>1 DEF ShellInv, AllSent
<1>. QED BY <1>4, <1>5, <1>6 DEF ShellInv

\* What the channel held is lost with the receiver; what was forwarded stays.
LEMMA LostPreserves == ASSUME ShellInv, ReceiverLost PROVE ShellInv'
<1>1. /\ chan' = <<>> /\ receiver' = FALSE /\ chan \in Seq(Chunks) /\ streamed \in [Streams -> Nat]
      /\ UNCHANGED <<leader, rest, stage, verdict, pump, buf, pend, dropped, stopped, printed, streamed>>
  BY DEF ReceiverLost, outputs, ShellInv, FlowTypes, Chunks
<1>2. ASSUME NEW s \in Streams PROVE Accounted(s)'
  <2>1. PICK x \in 0 .. MaxOutput :
          /\ Carried(s, x) /\ x + pend[s] <= MaxOutput
          /\ ~dropped[s] => x + pend[s] <= buf[s] /\ buf[s] <= MaxOutput
    BY DEF ShellInv, Accounted
  <2>2. streamed[s] \in 0 .. x
    BY <1>1, <2>1, CarriedBounds
  <2>3. Carried(s, streamed[s])'
    BY <1>1, CarriedEmpty
  <2>4. pend[s] \in Nat /\ buf[s] \in Nat /\ MaxOutput \in Nat
    BY DEF ShellInv, FlowTypes
  <2>5. /\ streamed[s] \in 0 .. MaxOutput /\ streamed[s] + pend[s] <= MaxOutput
        /\ ~dropped[s] => streamed[s] + pend[s] <= buf[s] /\ buf[s] <= MaxOutput
    BY <2>1, <2>2, <2>4
  <2>. QED BY <1>1, <2>3, <2>5 DEF Accounted
<1>3. chan' \in Seq(Chunks) /\ Len(chan') = 0 /\ ChannelSize \in Nat
  BY <1>1, EmptySeq
<1>4. FlowTypes' /\ CallTypes'
  <2>1. Len(chan') <= ChannelSize
    BY <1>3
  <2>. QED BY <1>1, <1>3, <2>1 DEF ShellInv, FlowTypes, CallTypes, Chunks
<1>5. AllSent'
  BY <1>1 DEF ShellInv, AllSent
<1>. QED BY <1>2, <1>4, <1>5 DEF ShellInv

LEMMA ShellStep == ShellInv /\ [ShellNext]_shellVars => ShellInv'
<1>1. ShellInv /\ UNCHANGED shellVars => ShellInv'
  BY AccountedSame DEF shellVars, outputs, ShellInv, CallTypes, FlowTypes, AllSent
<1>. QED BY <1>1, RunPreserves, CallPreserves, EofPreserves, PumpSendPreserves, LinePreserves, ReceivePreserves,
            LostPreserves DEF ShellNext, PumpStep, AwaitStep

LEMMA ShellPart == /\ MCInit => ShellInit
                   /\ [MCNext]_<<part, procVars, ringVars, shellVars, ptyVars>> => [ShellNext]_shellVars
BY DEF MCInit, MCNext

LEMMA ShellHolds == MCSpec => []ShellInv
BY ShellInitInv, ShellStep, ShellPart, PTL DEF MCSpec

\* The result of a command whose output was not truncated comes after every byte
\* of it, of both streams, was forwarded, whatever the lines, the batches and the
\* channel's room (shell.rs: run, pump_stream, await_result; ws_client.rs: the
\* read loop).
THEOREM OutputBeforeResult == MCSpec => []StreamedBeforeResult
<1>1. ShellInv => StreamedBeforeResult
  <2>. SUFFICES ASSUME ShellInv, stage = "done", receiver, NEW s \in Streams, ~dropped[s]
                PROVE  streamed[s] = buf[s]
    BY DEF StreamedBeforeResult
  <2>1. chan = <<>> /\ pend[s] = 0
    BY DEF ShellInv, AllSent
  <2>2. PICK x \in 0 .. MaxOutput : Carried(s, x) /\ x + pend[s] = buf[s]
    BY DEF ShellInv, Accounted
  <2>3. streamed[s] = x
    BY <2>1, <2>2 DEF Carried
  <2>. QED BY <2>1, <2>2, <2>3
<1>. QED BY <1>1, ShellHolds, PTL

----------------------------------------------------------------------------
(* The limits of the four parts together. *)

LEMMA PtyPart == /\ MCInit => PtyInit
                 /\ [MCNext]_<<part, procVars, ringVars, shellVars, ptyVars>> => [PtyNext]_ptyVars
BY DEF MCInit, MCNext

\* The task list keeps MaxTasks records, the ring its capacity, a command's
\* buffers their limit (past it the marker and the width of the characters that
\* were cut), the channel its chunks and the terminals their number
\* (task_registry.rs: MAX_TASKS; proc_ops.rs: LOG_CAPACITY; shell.rs:
\* MAX_OUTPUT_BYTES; pty_ops.rs: MAX_SESSIONS).
THEOREM LimitsHold == MCSpec => []TypesOK
<1>1. ProcInv => ProcTypeOK
  BY DEF ProcInv, ProcTypes, ProcTypeOK
<1>2. RingInv /\ SeenInv => RingTypeOK
  BY DEF RingInv, SeenInv, RingTypeOK, LeastOf
<1>3. ShellInv => ShellTypeOK
  <2>. SUFFICES ASSUME ShellInv PROVE ShellTypeOK
    OBVIOUS
  <2>1. ASSUME NEW s \in Streams PROVE pend[s] \in 0 .. MaxOutput /\ streamed[s] \in 0 .. MaxOutput
    <3>1. PICK x \in 0 .. MaxOutput : Carried(s, x) /\ x + pend[s] <= MaxOutput
      BY DEF ShellInv, Accounted
    <3>2. streamed[s] \in 0 .. x
      BY <3>1, CarriedBounds DEF ShellInv, FlowTypes, Chunks
    <3>. QED BY <3>1, <3>2 DEF ShellInv, FlowTypes
  <2>2. pend \in [Streams -> 0 .. MaxOutput] /\ streamed \in [Streams -> 0 .. MaxOutput]
    BY <2>1 DEF ShellInv, FlowTypes
  <2>. QED BY <2>2 DEF ShellInv, CallTypes, FlowTypes, ShellTypeOK
<1>4. MCSpec => []IInv
  BY InitInv, StepPreserves, PtyPart, PTL DEF MCSpec
<1>5. IInv => PtyTypeOK
  BY DEF IInv, Shapes, Limited, PtyTypeOK
<1>. QED BY <1>1, <1>2, <1>3, <1>4, <1>5, ProcHolds, RingHolds, ShellHolds, PTL DEF TypesOK
==============================================================================
