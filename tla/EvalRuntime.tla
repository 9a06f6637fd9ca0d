---------------------------- MODULE EvalRuntime ----------------------------
(***************************************************************************)
(* Persistent evaluation (eval_session.rs): one JavaScript runtime,         *)
(* spawned when first needed, keeps a context per session; the engine runs one *)
(* call at a time under its lock and reads the runtime's frames only       *)
(* during a call.  Code left running in a session (timers, promises)       *)
(* prints at any time, so frames of every session arrive in any call, or   *)
(* wait in the pipe until the next one.                                    *)
(*                                                                         *)
(* Console lines are numbered per session, from 1 in each of its lives: a  *)
(* life ends when the session is reaped or the runtime is killed.  Standard *)
(* output and standard error are kept apart and alike: one is modelled.    *)
(*                                                                         *)
(* A request is written before its deadline exists.  A pipe that is full   *)
(* for a time only delays the write; a runtime that has stopped reading    *)
(* for good (its code spins, or waits to print what nobody reads between   *)
(* calls) holds it.                                                        *)
(***************************************************************************)
EXTENDS Integers, Sequences, FiniteSets, SequencesExt

CONSTANTS EvalSessions,  \* session ids
          EvalLines,     \* bound: lines one session prints in a life
          EvalLives,     \* bound: lives of one session
          EvalPipe,      \* bound: frames in the runtime's stdout
          MaxCaptured    \* the lines that make up MAX_CAPTURED_CHARS

ASSUME EvalAssumption ==
  EvalLines \in Nat /\ EvalLives \in Nat /\ EvalPipe \in Nat \ {0} /\ MaxCaptured \in Nat \ {0}

VARIABLES runtime,   \* the engine's slot: "none", "up", or "dead" and still in the slot
          contexts,  \* the runtime's sessions: id -> life, 0 when it has none
          stdin,     \* requests written and not yet read by the runtime
          stdout,    \* frames written and not yet read by the engine
          known,     \* the engine's sessions, with whether they have idled out
          pendingOut,\* lines held for each session's next call
          evalCall,  \* the call in progress
          ghosts,    \* reaped sessions with a line of their old code still to come
          life,      \* the life each session is in (counted for the properties)
          printed,   \* lines printed in that life
          delivered, \* lines given to the session's calls in that life
          evalFull   \* the runtime has stopped reading, its pipe full
evalVars ==
  <<runtime, contexts, stdin, stdout, known, pendingOut, evalCall, ghosts, life, printed, delivered, evalFull>>

NoEval == [session |-> "", stage |-> "idle", requests |-> <<>>, out |-> <<>>]
Nothing == [s \in EvalSessions |-> <<>>]

EvalInit ==
  /\ runtime = "none" /\ contexts = [s \in EvalSessions |-> 0] /\ stdin = <<>> /\ stdout = <<>>
  /\ known = [s \in EvalSessions |-> "no"] /\ pendingOut = Nothing /\ evalCall = NoEval /\ ghosts = {}
  /\ life = [s \in EvalSessions |-> 1] /\ printed = [s \in EvalSessions |-> 0] /\ delivered = Nothing
  /\ evalFull = FALSE

Expired == {s \in EvalSessions : known[s] = "idle"}
\* A life ends: what comes later under that id is a new session's.
EndLives(S) ==
  /\ life' = [s \in EvalSessions |-> IF s \in S THEN life[s] + 1 ELSE life[s]]
  /\ printed' = [s \in EvalSessions |-> IF s \in S THEN 0 ELSE printed[s]]
  /\ delivered' = [s \in EvalSessions |-> IF s \in S THEN <<>> ELSE delivered[s]]

Kept == [s \in EvalSessions |-> IF s \in Expired THEN <<>> ELSE pendingOut[s]]

\* exec, up to its writes: idle sessions are reaped, and the runtime is to be told.
EvalExec(s) ==
  /\ evalCall = NoEval /\ life[s] < EvalLives
  /\ known' = [r \in EvalSessions |-> IF r \in Expired THEN "no" ELSE known[r]]
  /\ EndLives(Expired) /\ pendingOut' = Kept
  /\ ghosts' = IF runtime = "up" THEN ghosts \cup Expired ELSE ghosts
  /\ evalCall' = [NoEval EXCEPT !.session = s, !.stage = "writing", !.requests =
                    [i \in 1 .. Cardinality(Expired) |-> [op |-> "destroy", session |-> SetToSeq(Expired)[i]]]
                       \o <<[op |-> "exec", session |-> s]>>]
  /\ UNCHANGED <<runtime, contexts, stdin, stdout, evalFull>>

\* The next request is written, to a runtime spawned if the slot is empty.  One that
\* has died since its last call fails the write and keeps the slot, which only the
\* exec request minds.  After that one the call reads, beginning with what was held
\* for its session.
EvalWrite ==
  /\ evalCall.stage = "writing" /\ (~evalFull \/ runtime # "up")
  /\ LET r == Head(evalCall.requests)  s == evalCall.session
         rest == [evalCall EXCEPT !.requests = Tail(@)]
     IN /\ IF runtime = "dead"
           THEN UNCHANGED <<runtime, stdin>>
           ELSE runtime' = "up" /\ stdin' = Append(stdin, r)
        /\ \/ r.op = "destroy" /\ evalCall' = rest /\ UNCHANGED pendingOut
           \/ r.op = "exec" /\ runtime = "dead" /\ evalCall' = NoEval /\ UNCHANGED pendingOut
           \/ /\ r.op = "exec" /\ runtime # "dead"
              /\ evalCall' = [rest EXCEPT !.stage = "reading", !.out = pendingOut[s]]
              /\ pendingOut' = [pendingOut EXCEPT ![s] = <<>>]
  /\ evalFull' = FALSE
  /\ UNCHANGED <<contexts, stdout, known, ghosts, life, printed, delivered>>

\* The runtime has stopped reading when something is written to it.
EvalStalls ==
  /\ runtime = "up" /\ evalCall.stage = "writing" /\ ~evalFull /\ evalFull' = TRUE
  /\ UNCHANGED <<runtime, contexts, stdin, stdout, known, pendingOut, evalCall, ghosts, life, printed, delivered>>

\* The runtime frees a session, or runs code in it, made anew if it has none.
RuntimeReads ==
  /\ runtime = "up" /\ stdin # <<>>
  /\ stdin' = Tail(stdin)
  /\ LET r == Head(stdin)
     IN \/ /\ r.op = "destroy" /\ contexts' = [contexts EXCEPT ![r.session] = 0]
           /\ stdout' = Append(stdout, [type |-> "freed", session |-> r.session])
        \/ /\ r.op = "exec" /\ UNCHANGED stdout
           /\ contexts' = [contexts EXCEPT ![r.session] = IF @ = 0 THEN life[r.session] ELSE @]
  /\ UNCHANGED <<runtime, known, pendingOut, evalCall, life, printed, delivered, ghosts, evalFull>>

\* Code of a session prints, during its call or at any later time; code of a
\* reaped session still may (once here), under the same id.
Line(s, in, n) == [type |-> "line", session |-> s, in |-> in, n |-> n]
Prints(s) ==
  /\ runtime = "up" /\ Len(stdout) < EvalPipe
  /\ \/ /\ contexts[s] = life[s] /\ printed[s] < EvalLines
        /\ printed' = [printed EXCEPT ![s] = @ + 1]
        /\ stdout' = Append(stdout, Line(s, life[s], printed[s] + 1))
        /\ UNCHANGED ghosts
     \/ /\ s \in ghosts /\ ghosts' = ghosts \ {s}
        /\ stdout' = Append(stdout, Line(s, 0, 0)) /\ UNCHANGED printed
  /\ UNCHANGED <<runtime, contexts, stdin, known, pendingOut, evalCall, life, delivered, evalFull>>

\* The code's value, or its error, ends the request; it may never come.
Finishes ==
  /\ runtime = "up" /\ evalCall.stage = "reading" /\ stdin = <<>>
  /\ \A i \in DOMAIN stdout : stdout[i].type # "end"
  /\ stdout' = Append(stdout, [type |-> "end", session |-> evalCall.session])
  /\ UNCHANGED <<runtime, contexts, stdin, known, pendingOut, evalCall, life, printed, delivered, ghosts, evalFull>>
RuntimeDies ==
  /\ runtime = "up" /\ runtime' = "dead"
  /\ contexts' = [s \in EvalSessions |-> 0] /\ stdin' = <<>> /\ ghosts' = {}
  /\ UNCHANGED <<stdout, known, pendingOut, evalCall, life, printed, delivered, evalFull>>

\* append_capped: a buffer that has reached its limit takes one mark instead of
\* whatever comes.
Cut == [type |-> "cut"]
AppendCapped(buf, f) ==
  IF Len(buf) < MaxCaptured THEN Append(buf, f)
  ELSE IF buf[Len(buf)] # Cut THEN Append(buf, Cut) ELSE buf

\* Mutant: frames are routed by the request in flight.
ReadByRequest ==
  /\ evalCall.stage = "reading" /\ stdout # <<>> /\ stdout' = Tail(stdout)
  /\ LET f == Head(stdout)  s == evalCall.session
     IN \/ /\ f.type = "line"
           /\ evalCall' = IF f.session = s THEN [evalCall EXCEPT !.out = AppendCapped(@, f)] ELSE evalCall
           /\ UNCHANGED <<known, pendingOut, delivered>>
        \/ f.type = "freed" /\ UNCHANGED <<known, pendingOut, evalCall, delivered>>
        \/ /\ f.type = "end" /\ evalCall' = NoEval /\ UNCHANGED pendingOut
           /\ known' = [known EXCEPT ![s] = "fresh"]
           /\ delivered' = [delivered EXCEPT ![s] = @ \o evalCall.out]
  /\ UNCHANGED <<runtime, contexts, stdin, life, printed, ghosts, evalFull>>

\* One frame: a line goes to this call, or is held for its own session, as far as
\* the buffer takes it (dropped when that session is not known); the request's
\* end returns what the session printed and marks the session used.
EvalRead ==
  /\ evalCall.stage = "reading" /\ stdout # <<>> /\ stdout' = Tail(stdout)
  /\ LET f == Head(stdout)  s == evalCall.session
     IN \/ /\ f.type = "line"
           /\ evalCall' = IF f.session = s THEN [evalCall EXCEPT !.out = AppendCapped(@, f)] ELSE evalCall
           /\ pendingOut' = IF f.session # s /\ known[f.session] # "no"
                            THEN [pendingOut EXCEPT ![f.session] = AppendCapped(@, f)] ELSE pendingOut
           /\ UNCHANGED <<known, delivered>>
        \/ f.type = "freed" /\ UNCHANGED <<known, pendingOut, evalCall, delivered>>
        \/ /\ f.type = "end" /\ evalCall' = NoEval /\ UNCHANGED pendingOut
           /\ known' = [known EXCEPT ![s] = "fresh"]
           /\ delivered' = [delivered EXCEPT ![s] = @ \o evalCall.out]
  /\ UNCHANGED <<runtime, contexts, stdin, life, printed, ghosts, evalFull>>

Emptied ==
  /\ runtime' = "none" /\ contexts' = [s \in EvalSessions |-> 0] /\ stdin' = <<>> /\ stdout' = <<>>
  /\ ghosts' = {} /\ evalCall' = NoEval /\ evalFull' = FALSE
  /\ EndLives({s \in EvalSessions : known[s] # "no" \/ contexts[s] # 0 \/ printed[s] > 0})
Forgotten == known' = [s \in EvalSessions |-> "no"] /\ pendingOut' = Nothing

\* Mutant: the runtime is killed and its sessions are not forgotten.
KillKeepsSessions ==
  /\ evalCall.stage = "reading" /\ Emptied /\ UNCHANGED <<known, pendingOut>>

\* The deadline passes, or the runtime is gone with nothing left to read: it is
\* killed, its slot emptied, and every session forgotten.
EvalKill == evalCall.stage = "reading" /\ Emptied /\ Forgotten

\* SESSION_TTL passes since a session's last call.
IdlesOut(s) ==
  /\ evalCall = NoEval /\ known[s] = "fresh" /\ known' = [known EXCEPT ![s] = "idle"]
  /\ UNCHANGED <<runtime, contexts, stdin, stdout, pendingOut, evalCall, life, printed, delivered, ghosts, evalFull>>

EvalNext ==
  \/ \E s \in EvalSessions : EvalExec(s) \/ Prints(s) \/ IdlesOut(s)
  \/ EvalWrite \/ EvalStalls \/ RuntimeReads \/ Finishes \/ RuntimeDies \/ EvalRead \/ EvalKill

EvalFairness == WF_evalVars(EvalWrite) /\ WF_evalVars(EvalRead) /\ WF_evalVars(EvalKill)
EvalSpec == EvalInit /\ [][EvalNext]_evalVars /\ EvalFairness
----------------------------------------------------------------------------
\* Type correctness of the engine's state.
EvalTypeOK ==
  /\ runtime \in {"none", "up", "dead"} /\ ghosts \subseteq EvalSessions
  /\ known \in [EvalSessions -> {"no", "fresh", "idle"}]
  /\ life \in [EvalSessions -> 1 .. EvalLives + 2] /\ contexts \in [EvalSessions -> 0 .. EvalLives + 2]
  /\ \A s \in EvalSessions : known[s] = "no" => pendingOut[s] = <<>>
  /\ evalCall.stage \in {"idle", "writing", "reading"} /\ evalFull \in BOOLEAN

\* What its calls received, what is held for it and what is still in the pipe is a
\* session's console (eval_session.rs:11-19).
Gathered(s) == IF evalCall.session = s THEN evalCall.out ELSE <<>>
Console(s) == delivered[s] \o Gathered(s) \o pendingOut[s] \o stdout
IsLineOf(f, s, l) == f.type = "line" /\ f.session = s /\ f.in = l

\* Of the lines s printed in life l those among the frames are in order and once,
\* and where one is missing a buffer was cut.
InOrder(frames, s, l) ==
  \A i, j \in DOMAIN frames : i < j /\ IsLineOf(frames[i], s, l) /\ IsLineOf(frames[j], s, l) =>
    frames[i].n < frames[j].n
MissingOnlyAtCut(frames, s, l, p) ==
  \A n \in 1 .. p :
    \/ \E i \in DOMAIN frames : IsLineOf(frames[i], s, l) /\ frames[i].n = n
    \/ \E i \in DOMAIN frames :
         /\ frames[i] = Cut
         /\ \A j \in DOMAIN frames :
              IsLineOf(frames[j], s, l) => IF j < i THEN frames[j].n < n ELSE frames[j].n > n

\* No session's console output is doubled, reordered or given to another session,
\* and none is lost but past the capture limit, where a mark stands for it.
ConsoleComplete ==
  \A s \in EvalSessions :
    /\ InOrder(Console(s), s, life[s]) /\ MissingOnlyAtCut(Console(s), s, life[s], printed[s])
    /\ \A i \in DOMAIN delivered[s] : delivered[s][i] = Cut \/ delivered[s][i].session = s

\* A session the engine remembers still has its context, with the variables its
\* earlier calls left there: state is lost only together with the session
\* (eval_session.rs:5-9, "a wedged context must never survive silently").
SessionsRemembered ==
  \A s \in EvalSessions : known[s] # "no" /\ runtime = "up" => contexts[s] = life[s]
============================================================================
