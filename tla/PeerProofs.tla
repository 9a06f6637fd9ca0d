----------------------------- MODULE PeerProofs -----------------------------
(***************************************************************************)
(* The JavaScript runtime and the debug adapters, and then all the engines *)
(* that talk to a peer process together, for every value of their          *)
(* constants: an evaluation session keeps its context and its console, a   *)
(* request is given the answer made for it, and no failure leaves a peer   *)
(* that nobody can stop.                                                   *)
(***************************************************************************)
EXTENDS ServerProofs

USE McpAssumption, DapAssumption, LspAssumption, EvalAssumption, BrowserAssumption

(* The JavaScript runtime. *)

EvalRequest == [op : {"destroy", "exec"}, session : EvalSessions]
EvalFrame == [type : {"freed", "end"}, session : EvalSessions]
             \cup [type : {"line"}, session : EvalSessions, in : Nat, n : Nat]
EvalBuffer == EvalFrame \cup {Cut}
EvalCalls == [session : EvalSessions \cup {""}, stage : {"idle", "writing", "reading"},
              requests : Seq(EvalRequest), out : Seq(EvalBuffer)]

EvalShapes ==
  /\ runtime \in {"none", "up", "dead"} /\ ghosts \subseteq EvalSessions
  /\ known \in [EvalSessions -> {"no", "fresh", "idle"}]
  /\ life \in [EvalSessions -> Nat \ {0}] /\ contexts \in [EvalSessions -> Nat]
  /\ printed \in [EvalSessions -> Nat]
  /\ stdin \in Seq(EvalRequest) /\ stdout \in Seq(EvalFrame)
  /\ pendingOut \in [EvalSessions -> Seq(EvalBuffer)]
  /\ evalCall \in EvalCalls

\* The call in progress is of a session, and has requests to write before it reads;
\* lines are held for known sessions only.
EvalCallInv ==
  /\ evalCall.stage = "idle" => evalCall = NoEval
  /\ evalCall.stage # "idle" => evalCall.session \in EvalSessions
  /\ evalCall.stage = "writing" => evalCall.requests # <<>> /\ evalCall.out = <<>>
  /\ evalCall.stage # "writing" => evalCall.requests = <<>>
  /\ \A s \in EvalSessions : known[s] = "no" => pendingOut[s] = <<>>

\* The runtime still has to be told to free a session.
Doomed(s) ==
  \/ \E i \in DOMAIN stdin : stdin[i] = [op |-> "destroy", session |-> s]
  \/ \E i \in DOMAIN evalCall.requests : evalCall.requests[i] = [op |-> "destroy", session |-> s]

\* What the call in progress has yet to write, and the runtime yet to read: the
\* sessions the call reaped, then its own request.  The request ends after it has
\* been read.
RequestsInv ==
  /\ \A i \in DOMAIN evalCall.requests :
       /\ evalCall.requests[i].op = "destroy" => known[evalCall.requests[i].session] = "no"
       /\ evalCall.requests[i].op = "exec" <=> i = Len(evalCall.requests)
  /\ evalCall.stage = "writing" => evalCall.requests[Len(evalCall.requests)].session = evalCall.session
  /\ \A i \in DOMAIN stdin :
       /\ stdin[i].op = "destroy" => known[stdin[i].session] = "no"
       /\ stdin[i].op = "exec" <=> evalCall.stage = "reading" /\ i = Len(stdin)
  /\ stdin # <<>> => evalCall.stage # "idle"
  /\ stdin # <<>> /\ evalCall.stage = "reading" => stdin[Len(stdin)].session = evalCall.session
  /\ \A i \in DOMAIN stdout : stdout[i].type = "end" => evalCall.stage = "reading" /\ stdin = <<>>
  /\ \A i, j \in DOMAIN stdout : stdout[i].type = "end" /\ stdout[j].type = "end" => i = j

\* A context is of its session's life, or about to be freed; the runtime has none
\* when it is not up, and the engine has no session and reads nothing without a runtime.
ContextsInv ==
  /\ \A s \in EvalSessions : contexts[s] \in {0, life[s]} \/ Doomed(s)
  /\ evalCall.stage = "reading" /\ runtime = "up" /\ stdin = <<>>
       => contexts[evalCall.session] = life[evalCall.session]
  /\ runtime # "up" => stdin = <<>> /\ \A s \in EvalSessions : contexts[s] = 0
  /\ runtime = "none" => evalCall.stage # "reading" /\ \A s \in EvalSessions : known[s] = "no"

\* A life is counted at most twice past the calls that may start one: when its
\* session is reaped, and when the runtime is killed before it freed the session.
LifeInv(s) ==
  /\ life[s] <= EvalLives + 2 /\ contexts[s] <= life[s]
  /\ known[s] # "no" \/ contexts[s] = life[s] \/ printed[s] > 0 \/ (evalCall.stage # "idle" /\ evalCall.session = s)
       => life[s] <= EvalLives
  /\ contexts[s] # 0 => life[s] <= EvalLives + 1
LivesInv == \A s \in EvalSessions : LifeInv(s)

EvalInv ==
  /\ EvalShapes /\ EvalCallInv /\ RequestsInv /\ ContextsInv /\ LivesInv /\ SessionsRemembered
  /\ IsFiniteSet(Expired)

LEMMA EvalInitInv == EvalInit => EvalInv
<1>. SUFFICES ASSUME EvalInit PROVE EvalInv
  OBVIOUS
<1>1. <<>> \in Seq(EvalRequest) /\ <<>> \in Seq(EvalFrame) /\ <<>> \in Seq(EvalBuffer) /\ DOMAIN <<>> = {}
  OBVIOUS
<1>2. /\ runtime = "none" /\ ghosts = {} /\ stdin = <<>> /\ stdout = <<>> /\ evalCall = NoEval
      /\ \A s \in EvalSessions : /\ known[s] = "no" /\ contexts[s] = 0 /\ life[s] = 1
                                 /\ printed[s] = 0 /\ pendingOut[s] = <<>>
  BY DEF EvalInit, Nothing
<1>3. NoEval \in EvalCalls /\ NoEval.stage = "idle" /\ NoEval.requests = <<>>
  BY <1>1 DEF NoEval, EvalCalls
<1>4. EvalShapes
  BY <1>1, <1>3 DEF EvalInit, EvalShapes, Nothing
<1>5. EvalCallInv /\ RequestsInv /\ ContextsInv /\ SessionsRemembered
  BY <1>1, <1>2, <1>3 DEF EvalCallInv, RequestsInv, ContextsInv, SessionsRemembered
<1>6. LivesInv
  BY <1>2, <1>3, EvalAssumption DEF LivesInv, LifeInv
<1>7. Expired = {}
  BY <1>2 DEF Expired
<1>. QED BY <1>4, <1>5, <1>6, <1>7, FS_EmptySet DEF EvalInv

\* SetToSeq lists a finite set.
LEMMA ListsAll ==
  ASSUME NEW S, IsFiniteSet(S)
  PROVE  /\ SetToSeq(S) \in [1 .. Cardinality(S) -> S]
         /\ \A x \in S : \E i \in 1 .. Cardinality(S) : SetToSeq(S)[i] = x
<1>1. Cardinality(S) \in Nat
  BY FS_CardinalityType
<1>2. \E f \in [1 .. Cardinality(S) -> S] : IsInjective(f)
  <2>1. ExistsBijection(1 .. Cardinality(S), S)
    BY FS_CardinalityType
  <2>. QED BY <2>1 DEF ExistsBijection, Bijection, Injection
<1>3. SetToSeq(S) \in [1 .. Cardinality(S) -> S] /\ IsInjective(SetToSeq(S))
  BY <1>2 DEF SetToSeq
<1> DEFINE f == SetToSeq(S)  D == 1 .. Cardinality(S)  R == {f[i] : i \in D}
<1>4. R \subseteq S /\ f \in [D -> R]
  BY <1>3
<1>5. IsFiniteSet(D) /\ Cardinality(D) = Cardinality(S)
  BY <1>1, FS_Interval
<1>6. f \in Bijection(D, R)
  BY <1>3, <1>4 DEF Bijection, Injection, Surjection, IsInjective
<1>7. Cardinality(R) = Cardinality(S)
  BY <1>5, <1>6, FS_Bijection DEF ExistsBijection
<1>8. R = S
  BY <1>4, <1>7, FS_Subset
<1>. QED BY <1>3, <1>8

\* The requests a call writes: the sessions it reaps, then its own.
ExecTodo(s) ==
  [i \in 1 .. Cardinality(Expired) |-> [op |-> "destroy", session |-> SetToSeq(Expired)[i]]]
    \o <<[op |-> "exec", session |-> s]>>
LEMMA ExecRequests ==
  ASSUME IsFiniteSet(Expired), NEW s \in EvalSessions, NEW todo, todo = ExecTodo(s)
  PROVE  /\ todo \in Seq(EvalRequest) /\ todo # <<>>
         /\ todo[Len(todo)] = [op |-> "exec", session |-> s]
         /\ \A i \in DOMAIN todo : i # Len(todo) => todo[i].op = "destroy" /\ todo[i].session \in Expired
         /\ \A r \in Expired : \E i \in DOMAIN todo : todo[i] = [op |-> "destroy", session |-> r]
<1> DEFINE n == Cardinality(Expired)
           q == [i \in 1 .. n |-> [op |-> "destroy", session |-> SetToSeq(Expired)[i]]]
           e == [op |-> "exec", session |-> s]
<1>1. n \in Nat /\ Expired \subseteq EvalSessions
  BY FS_CardinalityType DEF Expired
<1>2. \A i \in 1 .. n : SetToSeq(Expired)[i] \in Expired
  BY ListsAll
<1>3. \A i \in 1 .. n : q[i] \in EvalRequest /\ q[i].op = "destroy" /\ q[i].session \in Expired
  BY <1>1, <1>2 DEF EvalRequest
<1>4. q \in Seq(EvalRequest) /\ Len(q) = n /\ DOMAIN q = 1 .. n
  <2>1. \A i \in 1 .. n : [op |-> "destroy", session |-> SetToSeq(Expired)[i]] \in EvalRequest
    BY <1>1, <1>2 DEF EvalRequest
  <2>2. q \in [1 .. n -> EvalRequest]
    BY <2>1
  <2>. HIDE DEF q, n
  <2>. QED BY <1>1, <2>2
<1>5. e \in EvalRequest
  BY DEF EvalRequest
<1>6. \A r \in Expired : \E i \in 1 .. n : q[i] = [op |-> "destroy", session |-> r]
  <2>1. ASSUME NEW r \in Expired PROVE \E i \in 1 .. n : q[i] = [op |-> "destroy", session |-> r]
    <3>1. PICK i \in 1 .. n : SetToSeq(Expired)[i] = r
      BY ListsAll
    <3>. QED BY <3>1
  <2>. QED BY <2>1
<1>. HIDE DEF q, e, n
<1>7. todo = Append(q, e)
  <2>2. todo = q \o <<e>>
    BY DEF q, e, n, ExecTodo
  <2>3. q \in Seq(EvalRequest) /\ e \in EvalRequest
    BY <1>4, <1>5
  <2>4. Append(q, e) = q \o <<e>>
    BY <2>3, AppendIsConcat
  <2>. QED BY <2>2, <2>4
<1>8. /\ todo \in Seq(EvalRequest) /\ Len(todo) = n + 1 /\ DOMAIN todo = 1 .. n \cup {n + 1}
      /\ todo[n + 1] = e /\ \A i \in 1 .. n : todo[i] = q[i]
  <2>1. PICK t : t = Append(q, e)
    OBVIOUS
  <2>2. t \in Seq(EvalRequest) /\ Len(t) = n + 1 /\ DOMAIN t = 1 .. n \cup {n + 1} /\ t[n + 1] = e
        /\ \A i \in 1 .. n : t[i] = q[i]
    BY <1>4, <1>5, <2>1, AppendElements
  <2>. QED BY <1>7, <2>1, <2>2
<1>9. todo # <<>>
  <2>0. Len(todo) = n + 1
    BY <1>8
  <2>1. Len(todo) # 0
    <3>1. n \in Nat
      BY <1>1
    <3>2. n + 1 # 0
      BY <3>1
    <3>. QED BY <2>0, <3>2, Zenon
  <2>2. Len(<<>>) = 0
    OBVIOUS
  <2>. QED BY <2>1, <2>2, Zenon
<1>10. \A i \in DOMAIN todo : i # Len(todo) => i \in 1 .. n /\ todo[i] = q[i]
  BY <1>8
<1>11. \A r \in Expired : \E i \in DOMAIN todo : todo[i] = [op |-> "destroy", session |-> r]
  <2>1. ASSUME NEW r \in Expired PROVE \E i \in DOMAIN todo : todo[i] = [op |-> "destroy", session |-> r]
    <3>1. PICK i \in 1 .. n : q[i] = [op |-> "destroy", session |-> r]
      BY <1>6
    <3>2. i \in DOMAIN todo /\ todo[i] = q[i]
      BY <1>8
    <3>. QED BY <3>1, <3>2, Zenon
  <2>. QED BY <2>1
<1>12. todo[Len(todo)] = [op |-> "exec", session |-> s]
  BY <1>8 DEF e
<1>13. \A i \in DOMAIN todo : i # Len(todo) => todo[i].op = "destroy" /\ todo[i].session \in Expired
  BY <1>3, <1>10
<1>. QED BY <1>8, <1>9, <1>11, <1>12, <1>13

\* A call ends the lives of the sessions it reaps.
LEMMA LivesEnd ==
  ASSUME EvalShapes, NEW S \in SUBSET EvalSessions, EndLives(S)
  PROVE  /\ life' \in [EvalSessions -> Nat \ {0}] /\ printed' \in [EvalSessions -> Nat]
         /\ \A r \in EvalSessions : IF r \in S THEN life'[r] = life[r] + 1 /\ printed'[r] = 0
                                    ELSE life'[r] = life[r] /\ printed'[r] = printed[r]
<1>1. \A r \in EvalSessions : life[r] \in Nat \ {0} /\ printed[r] \in Nat
  BY DEF EvalShapes
<1>2. \A r \in EvalSessions : life[r] + 1 \in Nat \ {0}
  BY <1>1
<1>. QED BY <1>1, <1>2 DEF EndLives

LEMMA EvalExecPreserves == ASSUME EvalInv, NEW s \in EvalSessions, EvalExec(s) PROVE EvalInv'
<1>0. /\ evalCall = NoEval /\ life[s] < EvalLives /\ EndLives(Expired) /\ UNCHANGED <<contexts, stdout>>
      /\ known' = [r \in EvalSessions |-> IF r \in Expired THEN "no" ELSE known[r]]
      /\ EvalShapes /\ EvalCallInv /\ RequestsInv /\ ContextsInv /\ LivesInv /\ SessionsRemembered
      /\ IsFiniteSet(Expired) /\ Expired \subseteq EvalSessions /\ evalCall.stage = "idle"
  BY DEF EvalExec, EvalInv, Expired, NoEval
<1>1. /\ life' \in [EvalSessions -> Nat \ {0}] /\ printed' \in [EvalSessions -> Nat]
      /\ \A r \in EvalSessions : IF r \in Expired THEN life'[r] = life[r] + 1 /\ printed'[r] = 0
                                 ELSE life'[r] = life[r] /\ printed'[r] = printed[r]
  BY <1>0, LivesEnd
<1>2. /\ known' \in [EvalSessions -> {"no", "fresh", "idle"}]
      /\ \A r \in EvalSessions : known'[r] = IF r \in Expired THEN "no" ELSE known[r]
      /\ \A r \in EvalSessions : r \in Expired <=> known[r] = "idle"
  BY <1>0 DEF EvalShapes, Expired
<1>3. /\ Kept \in [EvalSessions -> Seq(EvalBuffer)]
      /\ \A r \in EvalSessions : known'[r] = "no" => Kept[r] = <<>>
  <2>1. <<>> \in Seq(EvalBuffer) /\ pendingOut \in [EvalSessions -> Seq(EvalBuffer)]
    BY <1>0 DEF EvalShapes
  <2>. QED BY <1>0, <1>2, <2>1 DEF Kept, EvalCallInv
<1>4. stdin = <<>> /\ \A i \in DOMAIN stdout : stdout[i].type # "end"
  BY <1>0 DEF RequestsInv
<1>5. IsFiniteSet(Expired')
  <2>1. Expired' = {}
    BY <1>2 DEF Expired
  <2>. QED BY <2>1, FS_EmptySet
<1>6. \A r \in EvalSessions : /\ life'[r] <= EvalLives + 2 /\ contexts'[r] <= life'[r]
                              /\ known'[r] # "no" \/ contexts'[r] = life'[r] \/ printed'[r] > 0 \/ r = s
                                   => life'[r] <= EvalLives
                              /\ contexts'[r] # 0 => life'[r] <= EvalLives + 1
  <2>. SUFFICES ASSUME NEW r \in EvalSessions
                PROVE  /\ life'[r] <= EvalLives + 2 /\ contexts'[r] <= life'[r]
                       /\ known'[r] # "no" \/ contexts'[r] = life'[r] \/ printed'[r] > 0 \/ r = s
                            => life'[r] <= EvalLives
                       /\ contexts'[r] # 0 => life'[r] <= EvalLives + 1
    OBVIOUS
  <2>1. /\ life[r] \in Nat /\ contexts[r] \in Nat /\ printed[r] \in Nat /\ contexts'[r] = contexts[r] /\ LifeInv(r)
    BY <1>0 DEF EvalShapes, LivesInv
  <2>2. CASE r \in Expired
    BY <1>0, <1>1, <1>2, <2>1, <2>2, EvalAssumption DEF LifeInv
  <2>3. CASE r \notin Expired
    BY <1>0, <1>1, <1>2, <2>1, <2>3, EvalAssumption DEF LifeInv
  <2>. QED BY <2>2, <2>3
<1>7. /\ evalCall'.stage = "writing" /\ evalCall'.session = s /\ evalCall'.out = <<>>
      /\ evalCall'.requests = [i \in 1 .. Cardinality(Expired) |-> [op |-> "destroy", session |-> SetToSeq(Expired)[i]]]
                                \o <<[op |-> "exec", session |-> s]>>
      /\ evalCall' = [session |-> evalCall'.session, stage |-> evalCall'.stage,
                      requests |-> evalCall'.requests, out |-> evalCall'.out]
  BY DEF EvalExec, NoEval
<1>8. PICK todo : todo = evalCall'.requests
  OBVIOUS
<1>a. IsFiniteSet(Expired) /\ todo = ExecTodo(s)
  BY <1>0, <1>7, <1>8, Zenon DEF ExecTodo
<1>9. /\ todo \in Seq(EvalRequest) /\ todo # <<>> /\ todo[Len(todo)] = [op |-> "exec", session |-> s]
      /\ \A i \in DOMAIN todo : i # Len(todo) => todo[i].op = "destroy" /\ todo[i].session \in Expired
      /\ \A r \in Expired : \E i \in DOMAIN todo : todo[i] = [op |-> "destroy", session |-> r]
  BY <1>a, ExecRequests
<1>10. evalCall' \in EvalCalls
  <2>1. <<>> \in Seq(EvalBuffer)
    OBVIOUS
  <2>2. PICK c : c = evalCall'
    OBVIOUS
  <2>3. c = [session |-> s, stage |-> "writing", requests |-> todo, out |-> <<>>]
    BY <1>7, <1>8, <2>2, Zenon
  <2>4. c \in EvalCalls
    BY <1>9, <2>1, <2>3 DEF EvalCalls
  <2>. QED BY <2>2, <2>4
<1>11. UNCHANGED <<runtime, contexts, stdin, stdout>> /\ pendingOut' = Kept /\ ghosts' \subseteq EvalSessions
  BY <1>0 DEF EvalExec, EvalShapes
<1>12. EvalShapes'
  BY <1>0, <1>1, <1>2, <1>3, <1>10, <1>11 DEF EvalShapes
<1>13. EvalCallInv'
  BY <1>3, <1>7, <1>8, <1>9, <1>11 DEF EvalCallInv
<1>14. RequestsInv'
  <2>1. \A i \in DOMAIN todo : /\ todo[i].op = "destroy" => known'[todo[i].session] = "no"
                               /\ todo[i].op = "exec" <=> i = Len(todo)
    <3>. SUFFICES ASSUME NEW i \in DOMAIN todo
                  PROVE  /\ todo[i].op = "destroy" => known'[todo[i].session] = "no"
                         /\ todo[i].op = "exec" <=> i = Len(todo)
      OBVIOUS
    <3>1. CASE i = Len(todo)
      BY <1>9, <3>1
    <3>2. CASE i # Len(todo)
      BY <1>0, <1>2, <1>9, <3>2
    <3>. QED BY <3>1, <3>2
  <2>2. todo[Len(todo)].session = s /\ DOMAIN <<>> = {}
    BY <1>9
  <2>. QED BY <1>4, <1>7, <1>8, <1>11, <2>1, <2>2 DEF RequestsInv
<1>15. \A r \in EvalSessions : contexts'[r] \in {0, life'[r]} \/ Doomed(r)'
  <2>. SUFFICES ASSUME NEW r \in EvalSessions PROVE contexts'[r] \in {0, life'[r]} \/ Doomed(r)'
    OBVIOUS
  <2>1. CASE r \in Expired
    BY <1>8, <1>9, <2>1 DEF Doomed
  <2>2. CASE r \notin Expired
    <3>1. DOMAIN NoEval.requests = {} /\ DOMAIN <<>> = {}
      BY DEF NoEval
    <3>2. ~Doomed(r)
      BY <1>0, <1>4, <3>1 DEF Doomed
    <3>. QED BY <1>0, <1>1, <1>11, <2>2, <3>2 DEF ContextsInv
  <2>. QED BY <2>1, <2>2
<1>16. ContextsInv'
  BY <1>0, <1>2, <1>7, <1>11, <1>15 DEF ContextsInv
<1>17. SessionsRemembered'
  BY <1>0, <1>1, <1>2, <1>11 DEF SessionsRemembered
<1>18. LivesInv'
  BY <1>6, <1>7 DEF LivesInv, LifeInv
<1>. QED BY <1>5, <1>12, <1>13, <1>14, <1>16, <1>17, <1>18 DEF EvalInv

\* A step that leaves the engine's sessions and their lives as they are.
LEMMA EvalBeside ==
  ASSUME EvalInv, EvalShapes', EvalCallInv', RequestsInv', ContextsInv', UNCHANGED <<known, life>>,
         \A s \in EvalSessions :
           /\ contexts'[s] = contexts[s] \/ contexts'[s] = 0
                \/ (contexts'[s] = life[s] /\ evalCall.stage # "idle" /\ evalCall.session = s)
           /\ printed'[s] > 0 => printed[s] > 0 \/ contexts[s] = life[s]
           /\ evalCall'.stage # "idle" /\ evalCall'.session = s => evalCall.stage # "idle" /\ evalCall.session = s
  PROVE  LivesInv' /\ IsFiniteSet(Expired)'
<1>1. IsFiniteSet(Expired)'
  BY DEF EvalInv, Expired
<1>2. ASSUME NEW s \in EvalSessions PROVE LifeInv(s)'
  <2>1. /\ life[s] \in Nat \ {0} /\ contexts[s] \in Nat /\ contexts'[s] \in Nat /\ LifeInv(s) /\ known'[s] = known[s]
        /\ life'[s] = life[s]
    BY <1>2 DEF EvalInv, EvalShapes, LivesInv
  <2>2. /\ contexts'[s] = contexts[s] \/ contexts'[s] = 0
             \/ (contexts'[s] = life[s] /\ evalCall.stage # "idle" /\ evalCall.session = s)
        /\ printed'[s] > 0 => printed[s] > 0 \/ contexts[s] = life[s]
        /\ evalCall'.stage # "idle" /\ evalCall'.session = s => evalCall.stage # "idle" /\ evalCall.session = s
    BY <1>2
  <2>. QED BY <2>1, <2>2, EvalAssumption DEF LifeInv
<1>. QED BY <1>1, <1>2 DEF LivesInv

\* One request goes from the call to the runtime, or is lost with it.
LEMMA EvalWritePreserves == ASSUME EvalInv, EvalWrite PROVE EvalInv'
<1>0. /\ EvalShapes /\ EvalCallInv /\ RequestsInv /\ ContextsInv /\ SessionsRemembered /\ LivesInv
      /\ evalCall.stage = "writing" /\ evalCall.session \in EvalSessions /\ evalCall \in EvalCalls
      /\ evalCall.requests # <<>> /\ evalCall.out = <<>>
      /\ UNCHANGED <<contexts, stdout, known, ghosts, life, printed, delivered>>
      /\ pendingOut \in [EvalSessions -> Seq(EvalBuffer)]
      /\ stdin \in Seq(EvalRequest) /\ <<>> \in Seq(EvalBuffer) /\ <<>> \in Seq(EvalRequest)
  <2>1. EvalShapes /\ EvalCallInv /\ RequestsInv /\ ContextsInv /\ SessionsRemembered /\ LivesInv
    BY DEF EvalInv
  <2>2. evalCall.stage = "writing" /\ UNCHANGED <<contexts, stdout, known, ghosts, life, printed, delivered>>
    BY DEF EvalWrite
  <2>3. evalCall.session \in EvalSessions /\ evalCall.requests # <<>> /\ evalCall.out = <<>>
    BY <2>1, <2>2 DEF EvalCallInv
  <2>4. /\ evalCall \in EvalCalls /\ pendingOut \in [EvalSessions -> Seq(EvalBuffer)]
        /\ stdin \in Seq(EvalRequest)
    BY <2>1 DEF EvalShapes
  <2>. QED BY <2>1, <2>2, <2>3, <2>4
<1>1. PICK q \in Seq(EvalRequest) : q = evalCall.requests
  BY <1>0 DEF EvalCalls
<1>2. PICK r \in EvalRequest : r = q[1] /\ r = Head(q)
  <2>1. q # <<>>
    BY <1>0, <1>1
  <2>. QED BY <2>1, TailElements
<1>b. PICK rest : rest = Tail(q)
  OBVIOUS
<1>3. /\ rest \in Seq(EvalRequest) /\ Len(rest) = Len(q) - 1 /\ 1 \in DOMAIN q
      /\ \A j \in DOMAIN rest : j + 1 \in DOMAIN q /\ rest[j] = q[j + 1]
  <2>1. q # <<>>
    BY <1>0, <1>1
  <2>. QED BY <1>b, <2>1, TailElements
<1>4. Len(q) \in Nat /\ Len(rest) \in Nat /\ DOMAIN q = 1 .. Len(q) /\ DOMAIN rest = 1 .. Len(rest)
  BY <1>3, LenProperties
<1>5. /\ r.op \in {"destroy", "exec"} /\ r.session \in EvalSessions
      /\ r.op = "destroy" => known[r.session] = "no"
      /\ r.op = "exec" <=> Len(q) = 1
      /\ q[Len(q)].session = evalCall.session
  <2>1. r.op \in {"destroy", "exec"} /\ r.session \in EvalSessions
    BY DEF EvalRequest
  <2>2. /\ \A i \in DOMAIN q : /\ q[i].op = "destroy" => known[q[i].session] = "no"
                               /\ q[i].op = "exec" <=> i = Len(q)
        /\ q[Len(q)].session = evalCall.session
    BY <1>0, <1>1 DEF RequestsInv
  <2>a. 1 \in DOMAIN q /\ r = q[1]
    BY <1>2, <1>3
  <2>3. r.op = "destroy" => known[r.session] = "no"
    BY <1>0, <1>1, <2>a DEF RequestsInv
  <2>4. r.op = "exec" <=> 1 = Len(q)
    BY <1>0, <1>1, <2>a DEF RequestsInv
  <2>. QED BY <2>1, <2>2, <2>3, <2>4
<1>6. /\ rest = <<>> <=> Len(q) = 1
      /\ \A i \in DOMAIN rest : /\ rest[i].op = "destroy" => known[rest[i].session] = "no"
                                /\ rest[i].op = "exec" <=> i = Len(rest)
      /\ rest # <<>> => rest[Len(rest)].session = evalCall.session
  <2>1. rest = <<>> <=> Len(q) = 1
    <3>1. rest = <<>> <=> Len(rest) = 0
      BY <1>3, EmptySeq
    <3>. QED BY <1>3, <1>4, <3>1
  <2>2. ASSUME NEW i \in DOMAIN rest
        PROVE  /\ rest[i].op = "destroy" => known[rest[i].session] = "no"
               /\ rest[i].op = "exec" <=> i = Len(rest)
    <3>1. i + 1 \in DOMAIN q /\ rest[i] = q[i + 1]
      BY <1>3
    <3>2. /\ q[i + 1].op = "destroy" => known[q[i + 1].session] = "no"
          /\ q[i + 1].op = "exec" <=> i + 1 = Len(q)
      BY <1>0, <1>1, <3>1 DEF RequestsInv
    <3>3. i + 1 = Len(q) <=> i = Len(rest)
      BY <1>3, <1>4
    <3>. QED BY <3>1, <3>2, <3>3, Zenon
  <2>3. ASSUME rest # <<>> PROVE rest[Len(rest)].session = evalCall.session
    <3>1. Len(rest) \in DOMAIN rest
      BY <1>3, <1>4, <2>1, <2>3
    <3>2. rest[Len(rest)] = q[Len(rest) + 1] /\ Len(rest) + 1 = Len(q)
      BY <1>3, <1>4, <3>1
    <3>. QED BY <1>5, <3>2
  <2>. QED BY <2>1, <2>2, <2>3
<1>c. \A i \in DOMAIN rest : /\ rest[i].op = "destroy" => known'[rest[i].session] = "no"
                             /\ rest[i].op = "exec" <=> i = Len(rest)
  <2>1. known' = known
    BY <1>0
  <2>. SUFFICES ASSUME NEW i \in DOMAIN rest
                PROVE  /\ rest[i].op = "destroy" => known'[rest[i].session] = "no"
                       /\ rest[i].op = "exec" <=> i = Len(rest)
    OBVIOUS
  <2>2. rest[i].op = "destroy" => known[rest[i].session] = "no"
    BY <1>6
  <2>3. rest[i].op = "exec" <=> i = Len(rest)
    BY <1>6
  <2>. QED BY <2>1, <2>2, <2>3
\* What is still to be freed is still to be told.
<1>7. ASSUME NEW s \in EvalSessions, Doomed(s), r # [op |-> "destroy", session |-> s]
      PROVE  \/ \E i \in DOMAIN stdin : stdin[i] = [op |-> "destroy", session |-> s]
             \/ \E i \in DOMAIN rest : rest[i] = [op |-> "destroy", session |-> s]
  <2>1. ASSUME NEW i \in DOMAIN q, q[i] = [op |-> "destroy", session |-> s]
        PROVE  \E j \in DOMAIN rest : rest[j] = [op |-> "destroy", session |-> s]
    <3>1. i # 1
      BY <1>2, <1>7, <2>1
    <3>2. i - 1 \in DOMAIN rest
      BY <1>3, <1>4, <3>1
    <3>3. rest[i - 1] = q[i - 1 + 1] /\ i - 1 + 1 = i
      BY <1>3, <1>4, <3>2
    <3>4. rest[i - 1] = [op |-> "destroy", session |-> s]
      BY <2>1, <3>3
    <3>. QED BY <3>2, <3>4
  <2>. QED BY <1>1, <1>7, <2>1 DEF Doomed
<1>8. /\ \/ runtime = "dead" /\ UNCHANGED <<runtime, stdin>>
         \/ runtime # "dead" /\ runtime' = "up" /\ stdin' = Append(stdin, r)
      /\ \/ r.op = "destroy" /\ evalCall' = [evalCall EXCEPT !.requests = rest] /\ UNCHANGED pendingOut
         \/ r.op = "exec" /\ runtime = "dead" /\ evalCall' = NoEval /\ UNCHANGED pendingOut
         \/ /\ r.op = "exec" /\ runtime # "dead"
            /\ evalCall' = [[evalCall EXCEPT !.requests = rest] EXCEPT !.stage = "reading",
                                                                       !.out = pendingOut[evalCall.session]]
            /\ pendingOut' = [pendingOut EXCEPT ![evalCall.session] = <<>>]
  BY <1>1, <1>2, <1>b DEF EvalWrite
\* The call, with one request less to write, or reading, or over.
<1>9. /\ r.op = "destroy" =>
           /\ evalCall' \in EvalCalls /\ evalCall'.stage = "writing" /\ evalCall'.session = evalCall.session
           /\ evalCall'.requests = rest /\ evalCall'.out = <<>> /\ rest # <<>>
      /\ r.op = "exec" /\ runtime # "dead" =>
           /\ evalCall' \in EvalCalls /\ evalCall'.stage = "reading" /\ evalCall'.session = evalCall.session
           /\ evalCall'.requests = <<>>
      /\ r.op = "exec" /\ runtime = "dead" => evalCall' = NoEval
  <2>1. PICK c \in EvalCalls : c = evalCall
    BY <1>0
  <2>2. pendingOut[c.session] \in Seq(EvalBuffer)
    BY <1>0, <2>1
  <2>3. PICK d : d = evalCall'
    OBVIOUS
  <2>4. CASE r.op = "destroy"
    <3>1. d = [c EXCEPT !.requests = rest]
      BY <1>8, <2>1, <2>3, <2>4
    <3>2. /\ d \in EvalCalls /\ d.stage = c.stage /\ d.session = c.session /\ d.requests = rest /\ d.out = c.out
      BY <1>3, <3>1 DEF EvalCalls
    <3>3. rest # <<>>
      BY <1>5, <1>6, <2>4
    <3>. QED BY <1>0, <2>1, <2>3, <2>4, <3>2, <3>3
  <2>5. CASE r.op = "exec" /\ runtime # "dead"
    <3>1. d = [[c EXCEPT !.requests = rest] EXCEPT !.stage = "reading", !.out = pendingOut[c.session]]
      BY <1>8, <2>1, <2>3, <2>5
    <3>2. PICK o \in Seq(EvalBuffer) : o = pendingOut[c.session]
      BY <2>2
    <3>3. d \in EvalCalls /\ d.stage = "reading" /\ d.session = c.session /\ d.requests = rest
      BY <1>3, <3>1, <3>2 DEF EvalCalls
    <3>4. rest = <<>>
      BY <1>5, <1>6, <2>5
    <3>. QED BY <1>0, <2>1, <2>3, <2>5, <3>3, <3>4
  <2>6. CASE r.op = "exec" /\ runtime = "dead"
    BY <1>8, <2>6
  <2>. QED BY <1>5, <2>4, <2>5, <2>6
<1>10. NoEval \in EvalCalls /\ NoEval.stage = "idle" /\ NoEval.requests = <<>> /\ DOMAIN <<>> = {}
  <2>1. <<>> \in Seq(EvalBuffer) /\ <<>> \in Seq(EvalRequest)
    OBVIOUS
  <2>. QED BY <2>1 DEF NoEval, EvalCalls
<1>11. /\ pendingOut' \in [EvalSessions -> Seq(EvalBuffer)]
       /\ \A s \in EvalSessions : known[s] = "no" => pendingOut'[s] = <<>>
  <2>1. CASE UNCHANGED pendingOut
    BY <1>0, <2>1 DEF EvalCallInv
  <2>2. CASE pendingOut' = [pendingOut EXCEPT ![evalCall.session] = <<>>]
    BY <1>0, <2>2 DEF EvalCallInv
  <2>. QED BY <1>8, <2>1, <2>2
<1>12. CASE runtime = "dead"
  <2>1. stdin' = <<>> /\ stdin = <<>> /\ runtime' = "dead"
    BY <1>0, <1>8, <1>12 DEF ContextsInv
  <2>2. evalCall' \in EvalCalls
    BY <1>5, <1>9, <1>10, <1>12
  <2>3. EvalShapes'
    BY <1>0, <1>11, <2>1, <2>2 DEF EvalShapes
  <2>4. EvalCallInv'
    BY <1>0, <1>5, <1>9, <1>10, <1>11, <1>12 DEF EvalCallInv
  <2>5. RequestsInv'
    <3>1. \A i \in DOMAIN stdout : stdout[i].type # "end"
      BY <1>0 DEF RequestsInv
    <3>2. /\ UNCHANGED <<stdout, known>>
          /\ \A i \in DOMAIN stdout : stdout[i].type # "end"
          /\ stdin' = <<>> /\ DOMAIN stdin' = {}
      BY <1>0, <1>10, <2>1, <3>1
    <3>3. CASE r.op = "destroy"
      <4>1. /\ evalCall'.stage = "writing" /\ evalCall'.session = evalCall.session
            /\ evalCall'.requests = rest /\ rest # <<>>
        BY <1>9, <3>3
      <4>2. /\ \A i \in DOMAIN evalCall'.requests :
                  /\ evalCall'.requests[i].op = "destroy" => known'[evalCall'.requests[i].session] = "no"
                  /\ evalCall'.requests[i].op = "exec" <=> i = Len(evalCall'.requests)
            /\ evalCall'.requests[Len(evalCall'.requests)].session = evalCall'.session
        BY <1>6, <1>c, <4>1, Zenon
      <4>3. DOMAIN stdin' = {} /\ stdin' = <<>> /\ \A i \in DOMAIN stdout' : stdout'[i].type # "end"
        BY <3>2
      <4>. QED BY <4>2, <4>3 DEF RequestsInv
    <3>4. CASE r.op = "exec"
      BY <1>9, <1>10, <1>12, <3>2, <3>4 DEF RequestsInv
    <3>. QED BY <1>5, <3>3, <3>4
  <2>6. ContextsInv' /\ SessionsRemembered'
    BY <1>0, <1>12, <2>1 DEF ContextsInv, SessionsRemembered
  <2>7. LivesInv' /\ IsFiniteSet(Expired)'
    <3>1. \A s \in EvalSessions :
            evalCall'.stage # "idle" /\ evalCall'.session = s => evalCall.stage # "idle" /\ evalCall.session = s
      BY <1>0, <1>5, <1>9, <1>10, <1>12
    <3>. QED BY <1>0, <2>3, <2>4, <2>5, <2>6, <3>1, EvalBeside
  <2>. QED BY <2>3, <2>4, <2>5, <2>6, <2>7 DEF EvalInv
<1>13. CASE runtime # "dead"
  <2>0. runtime' = "up" /\ stdin' = Append(stdin, r)
    BY <1>8, <1>13
  <2>1. /\ stdin' \in Seq(EvalRequest) /\ Len(stdin') = Len(stdin) + 1 /\ DOMAIN stdin' = DOMAIN stdin \cup {Len(stdin) + 1}
        /\ stdin'[Len(stdin) + 1] = r /\ \A j \in DOMAIN stdin : j # Len(stdin) + 1 /\ stdin'[j] = stdin[j]
    BY <1>0, <2>0, AppendElements
  <2>2. /\ evalCall' \in EvalCalls /\ evalCall'.stage \in {"writing", "reading"} /\ evalCall'.session = evalCall.session
        /\ evalCall'.stage = "writing" <=> r.op = "destroy"
        /\ evalCall'.requests = rest /\ (rest = <<>> <=> r.op = "exec")
        /\ evalCall'.stage = "writing" => evalCall'.out = <<>>
    BY <1>5, <1>6, <1>9, <1>13
  <2>3. EvalShapes'
    BY <1>0, <1>11, <2>0, <2>1, <2>2 DEF EvalShapes
  <2>4. EvalCallInv'
    <3>1. r.op = "destroy" <=> r.op # "exec"
      BY <1>5
    <3>2. evalCall.session \in EvalSessions /\ known' = known
      BY <1>0
    <3>. QED BY <1>11, <2>2, <3>1, <3>2 DEF EvalCallInv
  <2>5. stdin' # <<>> /\ Len(stdin) \in Nat
    BY <1>0, <2>1, EmptySeq, LenProperties
  <2>6. \A i \in DOMAIN stdin : stdin[i].op = "destroy" /\ known[stdin[i].session] = "no"
    <3>. SUFFICES ASSUME NEW i \in DOMAIN stdin PROVE stdin[i].op = "destroy" /\ known[stdin[i].session] = "no"
      OBVIOUS
    <3>1. stdin[i] \in EvalRequest
      BY <1>0
    <3>2. stdin[i].op \in {"destroy", "exec"}
      BY <3>1 DEF EvalRequest
    <3>3. stdin[i].op # "exec" /\ (stdin[i].op = "destroy" => known[stdin[i].session] = "no")
      BY <1>0 DEF RequestsInv
    <3>. QED BY <3>2, <3>3
  <2>7. \A i \in DOMAIN stdin' : /\ stdin'[i].op = "destroy" => known[stdin'[i].session] = "no"
                                 /\ stdin'[i].op = "exec" <=> evalCall'.stage = "reading" /\ i = Len(stdin')
    BY <1>5, <2>1, <2>2, <2>6
  <2>8. RequestsInv'
    <3>1. \A i \in DOMAIN stdout : stdout[i].type # "end"
      BY <1>0 DEF RequestsInv
    <3>2. evalCall'.stage = "reading" => stdin'[Len(stdin')].session = evalCall'.session
      BY <1>2, <1>5, <2>1, <2>2
    <3>3. /\ UNCHANGED <<stdout, known>>
          /\ \A i \in DOMAIN stdout : stdout[i].type # "end"
      BY <1>0, <3>1
    <3>4. rest # <<>> <=> evalCall'.stage = "writing"
      BY <1>5, <2>2
    <3>5. /\ \A i \in DOMAIN evalCall'.requests :
                /\ evalCall'.requests[i].op = "destroy" => known'[evalCall'.requests[i].session] = "no"
                /\ evalCall'.requests[i].op = "exec" <=> i = Len(evalCall'.requests)
          /\ evalCall'.stage = "writing" => evalCall'.requests[Len(evalCall'.requests)].session = evalCall'.session
      <4>1. evalCall'.requests = rest /\ evalCall'.session = evalCall.session
        BY <2>2
      <4>. QED BY <1>6, <1>c, <3>4, <4>1, Zenon
    <3>6. stdin' # <<>> => evalCall'.stage # "idle"
      BY <2>2
    <3>7. \A i \in DOMAIN stdout' : stdout'[i].type # "end"
      BY <3>3
    <3>. QED BY <2>7, <3>2, <3>3, <3>5, <3>6, <3>7 DEF RequestsInv
  <2>9. ASSUME NEW s \in EvalSessions PROVE contexts'[s] \in {0, life'[s]} \/ Doomed(s)'
    <3>1. CASE contexts[s] \in {0, life[s]}
      BY <1>0, <3>1
    <3>2. CASE Doomed(s) /\ r # [op |-> "destroy", session |-> s]
      <4>1. CASE \E i \in DOMAIN stdin : stdin[i] = [op |-> "destroy", session |-> s]
        BY <2>1, <4>1 DEF Doomed
      <4>2. CASE \E i \in DOMAIN rest : rest[i] = [op |-> "destroy", session |-> s]
        BY <2>2, <4>2 DEF Doomed
      <4>. QED BY <1>7, <3>2, <4>1, <4>2
    <3>3. CASE r = [op |-> "destroy", session |-> s]
      BY <2>1, <3>3 DEF Doomed
    <3>. QED BY <1>0, <3>1, <3>2, <3>3 DEF ContextsInv
  <2>10. ContextsInv'
    BY <1>0, <2>0, <2>5, <2>9 DEF ContextsInv
  <2>11. SessionsRemembered'
    <3>1. runtime \in {"none", "up"}
      BY <1>0, <1>13 DEF EvalShapes
    <3>. QED BY <1>0, <3>1 DEF SessionsRemembered, ContextsInv
  <2>12. LivesInv' /\ IsFiniteSet(Expired)'
    <3>1. \A s \in EvalSessions :
            evalCall'.stage # "idle" /\ evalCall'.session = s => evalCall.stage # "idle" /\ evalCall.session = s
      BY <1>0, <2>2
    <3>. QED BY <1>0, <2>3, <2>4, <2>8, <2>10, <2>11, <3>1, EvalBeside
  <2>. QED BY <2>3, <2>4, <2>8, <2>10, <2>11, <2>12 DEF EvalInv
<1>. QED BY <1>12, <1>13

\* A step that changes nothing the invariant speaks of.
LEMMA EvalSame ==
  ASSUME EvalInv,
         UNCHANGED <<runtime, contexts, stdin, stdout, known, pendingOut, evalCall, ghosts, life, printed, delivered>>
  PROVE  EvalInv'
<1>1. EvalShapes' /\ EvalCallInv' /\ RequestsInv'
  BY DEF EvalInv, EvalShapes, EvalCallInv, RequestsInv
<1>2. ContextsInv' /\ LivesInv' /\ SessionsRemembered'
  BY DEF EvalInv, ContextsInv, Doomed, LivesInv, LifeInv, SessionsRemembered
<1>3. IsFiniteSet(Expired)'
  BY DEF EvalInv, Expired
<1>. QED BY <1>1, <1>2, <1>3 DEF EvalInv

LEMMA RuntimeReadsPreserves == ASSUME EvalInv, RuntimeReads PROVE EvalInv'
<1>. DEFINE r == Head(stdin)
<1>0. /\ EvalShapes /\ EvalCallInv /\ RequestsInv /\ ContextsInv /\ SessionsRemembered
      /\ runtime = "up" /\ stdin # <<>> /\ stdin' = Tail(stdin) /\ stdin \in Seq(EvalRequest)
      /\ UNCHANGED <<runtime, known, pendingOut, evalCall, life, printed, delivered, ghosts>>
      /\ \/ /\ r.op = "destroy" /\ contexts' = [contexts EXCEPT ![r.session] = 0]
            /\ stdout' = Append(stdout, [type |-> "freed", session |-> r.session])
         \/ /\ r.op = "exec" /\ UNCHANGED stdout
            /\ contexts' = [contexts EXCEPT ![r.session] = IF contexts[r.session] = 0 THEN life[r.session]
                                                           ELSE contexts[r.session]]
  BY DEF EvalInv, EvalShapes, RuntimeReads
<1>1. /\ stdin' \in Seq(EvalRequest) /\ Len(stdin') = Len(stdin) - 1 /\ 1 \in DOMAIN stdin /\ r = stdin[1]
      /\ r \in EvalRequest /\ \A j \in DOMAIN stdin' : j + 1 \in DOMAIN stdin /\ stdin'[j] = stdin[j + 1]
  BY <1>0, TailElements
<1>2. /\ r.session \in EvalSessions /\ evalCall.stage # "idle" /\ evalCall.session \in EvalSessions
      /\ \A i \in DOMAIN stdout : stdout[i].type # "end"
  BY <1>0, <1>1 DEF EvalRequest, RequestsInv, EvalCallInv
<1>3. /\ r.op = "destroy" => known[r.session] = "no"
      /\ r.op = "exec" <=> evalCall.stage = "reading" /\ Len(stdin) = 1
      /\ evalCall.stage = "reading" => stdin[Len(stdin)].session = evalCall.session
  BY <1>0, <1>1 DEF RequestsInv
<1>4. Len(stdin) \in Nat /\ Len(stdin') \in Nat /\ DOMAIN stdin = 1 .. Len(stdin) /\ DOMAIN stdin' = 1 .. Len(stdin')
  BY <1>0, <1>1
<1>5. /\ \A i \in DOMAIN stdin' : stdin'[i].op = "destroy" => known[stdin'[i].session] = "no"
      /\ \A i \in DOMAIN stdin' : stdin'[i].op = "exec" <=> evalCall.stage = "reading" /\ i = Len(stdin')
      /\ evalCall.stage = "reading" /\ stdin' # <<>> => stdin'[Len(stdin')].session = evalCall.session
      /\ r.op = "exec" <=> evalCall.stage = "reading" /\ stdin' = <<>>
  <2>1. ASSUME NEW i \in DOMAIN stdin'
        PROVE  /\ stdin'[i].op = "destroy" => known[stdin'[i].session] = "no"
               /\ stdin'[i].op = "exec" <=> evalCall.stage = "reading" /\ i = Len(stdin')
    <3>1. i + 1 \in DOMAIN stdin /\ stdin'[i] = stdin[i + 1]
      BY <1>1
    <3>2. /\ stdin[i + 1].op = "destroy" => known[stdin[i + 1].session] = "no"
          /\ stdin[i + 1].op = "exec" <=> evalCall.stage = "reading" /\ i + 1 = Len(stdin)
      BY <1>0, <3>1 DEF RequestsInv
    <3>3. i + 1 = Len(stdin) <=> i = Len(stdin')
      BY <1>1, <1>4
    <3>. QED BY <3>1, <3>2, <3>3, Zenon
  <2>2. stdin' = <<>> <=> Len(stdin) = 1
    <3>1. stdin' = <<>> <=> Len(stdin') = 0
      BY <1>1, EmptySeq
    <3>. QED BY <1>1, <1>4, <3>1
  <2>3. ASSUME evalCall.stage = "reading", stdin' # <<>> PROVE stdin'[Len(stdin')].session = evalCall.session
    <3>1. Len(stdin') \in DOMAIN stdin'
      BY <1>1, <1>4, <2>2, <2>3
    <3>2. stdin'[Len(stdin')] = stdin[Len(stdin') + 1] /\ Len(stdin') + 1 = Len(stdin)
      BY <1>1, <1>4, <3>1
    <3>. QED BY <1>3, <2>3, <3>2
  <2>. QED BY <1>3, <2>1, <2>2, <2>3
<1>6. /\ contexts \in [EvalSessions -> Nat] /\ life \in [EvalSessions -> Nat \ {0}]
      /\ life' = life /\ known' = known /\ evalCall' = evalCall /\ stdout \in Seq(EvalFrame)
  BY <1>0 DEF EvalShapes
<1>7. CASE r.op = "destroy"
  <2>0. evalCall.stage = "reading" => stdin' # <<>>
    BY <1>5, <1>7
  <2>1. /\ contexts' \in [EvalSessions -> Nat]
        /\ \A s \in EvalSessions : contexts'[s] = IF s = r.session THEN 0 ELSE contexts[s]
    BY <1>0, <1>2, <1>6, <1>7
  <2>2. stdout' \in Seq(EvalFrame) /\ \A i \in DOMAIN stdout' : stdout'[i].type # "end"
    <3>1. PICK f : f = [type |-> "freed", session |-> r.session]
      OBVIOUS
    <3>2. f \in EvalFrame /\ f.type # "end"
      BY <1>2, <3>1 DEF EvalFrame
    <3>3. stdout' = Append(stdout, f)
      BY <1>0, <1>7, <3>1
    <3>4. /\ stdout' \in Seq(EvalFrame) /\ DOMAIN stdout' = DOMAIN stdout \cup {Len(stdout) + 1}
          /\ stdout'[Len(stdout) + 1] = f /\ \A j \in DOMAIN stdout : stdout'[j] = stdout[j]
      BY <1>6, <3>2, <3>3, AppendElements
    <3>. QED BY <1>2, <3>2, <3>4
  <2>3. EvalShapes' /\ EvalCallInv'
    BY <1>0, <1>1, <2>1, <2>2 DEF EvalShapes, EvalCallInv
  <2>4. RequestsInv'
    BY <1>0, <1>2, <1>5, <2>2 DEF RequestsInv
  <2>5. \A s \in EvalSessions : contexts'[s] \in {0, life'[s]} \/ Doomed(s)'
    <3>. SUFFICES ASSUME NEW s \in EvalSessions, s # r.session PROVE contexts'[s] \in {0, life'[s]} \/ Doomed(s)'
      BY <2>1
    <3>1. CASE contexts[s] \in {0, life[s]}
      BY <1>6, <2>1, <3>1
    <3>2. CASE \E i \in DOMAIN evalCall.requests : evalCall.requests[i] = [op |-> "destroy", session |-> s]
      BY <1>6, <3>2 DEF Doomed
    <3>3. CASE \E i \in DOMAIN stdin : stdin[i] = [op |-> "destroy", session |-> s]
      <4>1. PICK i \in DOMAIN stdin : stdin[i] = [op |-> "destroy", session |-> s]
        BY <3>3
      <4>2. i # 1
        BY <1>1, <4>1
      <4>3. i - 1 \in DOMAIN stdin'
        BY <1>1, <1>4, <4>1, <4>2
      <4>4. stdin'[i - 1] = stdin[i - 1 + 1] /\ i - 1 + 1 = i
        BY <1>1, <1>4, <4>3
      <4>5. stdin'[i - 1] = [op |-> "destroy", session |-> s]
        BY <4>1, <4>4
      <4>. QED BY <4>3, <4>5 DEF Doomed
    <3>. QED BY <1>0, <3>1, <3>2, <3>3 DEF ContextsInv, Doomed
  <2>6. ContextsInv'
    BY <1>0, <1>7, <2>0, <2>5 DEF ContextsInv
  <2>7. SessionsRemembered'
    BY <1>0, <1>3, <1>6, <1>7, <2>1 DEF SessionsRemembered
  <2>8. LivesInv' /\ IsFiniteSet(Expired)'
    BY <1>0, <2>1, <2>3, <2>4, <2>6, EvalBeside
  <2>. QED BY <2>3, <2>4, <2>6, <2>7, <2>8 DEF EvalInv
<1>8. CASE r.op = "exec"
  <2>1. stdin' = <<>> /\ evalCall.stage = "reading" /\ r.session = evalCall.session /\ stdout' = stdout
    BY <1>0, <1>1, <1>3, <1>5, <1>8
  <2>2. \A s \in EvalSessions : ~Doomed(s)
    <3>1. DOMAIN evalCall.requests = {}
      BY <1>0, <2>1 DEF EvalCallInv
    <3>2. DOMAIN stdin = {1} /\ stdin[1].op = "exec"
      BY <1>1, <1>3, <1>4, <1>8
    <3>. QED BY <3>1, <3>2 DEF Doomed
  <2>3. \A s \in EvalSessions : contexts[s] \in {0, life[s]}
    BY <1>0, <2>2 DEF ContextsInv
  <2>4. /\ contexts' \in [EvalSessions -> Nat]
        /\ \A s \in EvalSessions : contexts'[s] = IF s = r.session THEN life[s] ELSE contexts[s]
    <3>1. contexts' = [contexts EXCEPT ![r.session] = life[r.session]]
      BY <1>0, <1>2, <1>6, <1>8, <2>3
    <3>. QED BY <1>2, <1>6, <3>1
  <2>5. EvalShapes' /\ EvalCallInv'
    BY <1>0, <1>1, <2>1, <2>4 DEF EvalShapes, EvalCallInv
  <2>6. RequestsInv'
    BY <1>0, <1>2, <1>5, <2>1 DEF RequestsInv
  <2>7. ContextsInv'
    BY <1>0, <1>2, <1>6, <2>1, <2>3, <2>4 DEF ContextsInv
  <2>8. SessionsRemembered'
    BY <1>0, <1>6, <2>4 DEF SessionsRemembered
  <2>9. LivesInv' /\ IsFiniteSet(Expired)'
    BY <1>0, <1>2, <2>1, <2>4, <2>5, <2>6, <2>7, EvalBeside
  <2>. QED BY <2>5, <2>6, <2>7, <2>8, <2>9 DEF EvalInv
<1>. QED BY <1>0, <1>7, <1>8

\* The runtime writes a line: the pipe grows by a frame that ends nothing.
LEMMA PrintsPreserves == ASSUME EvalInv, NEW s \in EvalSessions, Prints(s) PROVE EvalInv'
<1>0. /\ EvalShapes /\ EvalCallInv /\ RequestsInv /\ ContextsInv /\ SessionsRemembered /\ runtime = "up"
      /\ UNCHANGED <<runtime, contexts, stdin, known, pendingOut, evalCall, life, delivered>>
      /\ stdout \in Seq(EvalFrame) /\ life[s] \in Nat /\ printed[s] \in Nat
  BY DEF EvalInv, EvalShapes, Prints
<1>1. /\ printed' \in [EvalSessions -> Nat] /\ ghosts' \subseteq EvalSessions
      /\ \A r \in EvalSessions : printed'[r] > 0 => printed[r] > 0 \/ contexts[r] = life[r]
      /\ \E f \in EvalFrame : f.type = "line" /\ stdout' = Append(stdout, f)
  <2>1. CASE /\ contexts[s] = life[s] /\ printed[s] < EvalLines
             /\ printed' = [printed EXCEPT ![s] = printed[s] + 1]
             /\ stdout' = Append(stdout, Line(s, life[s], printed[s] + 1)) /\ UNCHANGED ghosts
    <3>1. Line(s, life[s], printed[s] + 1) \in EvalFrame /\ Line(s, life[s], printed[s] + 1).type = "line"
      BY <1>0 DEF Line, EvalFrame
    <3>2. printed' \in [EvalSessions -> Nat] /\ \A r \in EvalSessions : r # s => printed'[r] = printed[r]
      BY <1>0, <2>1 DEF EvalShapes
    <3>3. ghosts' \subseteq EvalSessions
      BY <1>0, <2>1 DEF EvalShapes
    <3>. QED BY <2>1, <3>1, <3>2, <3>3
  <2>2. CASE /\ s \in ghosts /\ ghosts' = ghosts \ {s}
             /\ stdout' = Append(stdout, Line(s, 0, 0)) /\ UNCHANGED printed
    <3>1. Line(s, 0, 0) \in EvalFrame /\ Line(s, 0, 0).type = "line"
      BY DEF Line, EvalFrame
    <3>. QED BY <1>0, <2>2, <3>1 DEF EvalShapes
  <2>. QED BY <2>1, <2>2 DEF Prints
<1>2. PICK f \in EvalFrame : f.type = "line" /\ stdout' = Append(stdout, f)
  BY <1>1
<1>3. /\ stdout' \in Seq(EvalFrame) /\ DOMAIN stdout' = DOMAIN stdout \cup {Len(stdout) + 1}
      /\ stdout'[Len(stdout) + 1] = f /\ \A j \in DOMAIN stdout : stdout'[j] = stdout[j]
  BY <1>0, <1>2, AppendElements
<1>4. EvalShapes' /\ EvalCallInv'
  BY <1>0, <1>1, <1>3 DEF EvalShapes, EvalCallInv
<1>5. RequestsInv'
  BY <1>0, <1>2, <1>3 DEF RequestsInv
<1>6. ContextsInv' /\ SessionsRemembered'
  BY <1>0 DEF ContextsInv, Doomed, SessionsRemembered
<1>7. LivesInv' /\ IsFiniteSet(Expired)'
  BY <1>0, <1>1, <1>4, <1>5, <1>6, EvalBeside
<1>. QED BY <1>4, <1>5, <1>6, <1>7 DEF EvalInv

LEMMA FinishesPreserves == ASSUME EvalInv, Finishes PROVE EvalInv'
<1>0. /\ EvalShapes /\ EvalCallInv /\ RequestsInv /\ ContextsInv /\ SessionsRemembered
      /\ evalCall.stage = "reading" /\ stdin = <<>> /\ evalCall.session \in EvalSessions
      /\ UNCHANGED <<runtime, contexts, stdin, known, pendingOut, evalCall, life, printed, delivered, ghosts>>
      /\ stdout \in Seq(EvalFrame) /\ stdout' = Append(stdout, [type |-> "end", session |-> evalCall.session])
  BY DEF EvalInv, EvalShapes, EvalCallInv, Finishes
<1>1. [type |-> "end", session |-> evalCall.session] \in EvalFrame
  BY <1>0 DEF EvalFrame
<1>2. /\ stdout' \in Seq(EvalFrame) /\ DOMAIN stdout' = DOMAIN stdout \cup {Len(stdout) + 1}
      /\ \A j \in DOMAIN stdout : stdout'[j] = stdout[j]
  BY <1>0, <1>1, AppendElements
<1>3. EvalShapes' /\ EvalCallInv'
  BY <1>0, <1>2 DEF EvalShapes, EvalCallInv
<1>4. RequestsInv'
  <2>1. \A j \in DOMAIN stdout : stdout'[j].type # "end"
    BY <1>2 DEF Finishes
  <2>2. \A i, j \in DOMAIN stdout' : stdout'[i].type = "end" /\ stdout'[j].type = "end" => i = j
    BY <1>2, <2>1
  <2>. QED BY <1>0, <2>2 DEF RequestsInv
<1>5. ContextsInv' /\ SessionsRemembered'
  BY <1>0 DEF ContextsInv, Doomed, SessionsRemembered
<1>6. LivesInv' /\ IsFiniteSet(Expired)'
  BY <1>0, <1>3, <1>4, <1>5, EvalBeside
<1>. QED BY <1>3, <1>4, <1>5, <1>6 DEF EvalInv

LEMMA RuntimeDiesPreserves == ASSUME EvalInv, RuntimeDies PROVE EvalInv'
<1>0. /\ EvalShapes /\ EvalCallInv /\ RequestsInv /\ runtime' = "dead"
      /\ contexts' = [s \in EvalSessions |-> 0] /\ stdin' = <<>> /\ ghosts' = {}
      /\ UNCHANGED <<stdout, known, pendingOut, evalCall, life, printed, delivered>>
  BY DEF EvalInv, RuntimeDies
<1>1. <<>> \in Seq(EvalRequest) /\ DOMAIN <<>> = {}
  OBVIOUS
<1>2. EvalShapes' /\ EvalCallInv'
  BY <1>0, <1>1 DEF EvalShapes, EvalCallInv
<1>3. RequestsInv'
  BY <1>0, <1>1 DEF RequestsInv
<1>4. ContextsInv' /\ SessionsRemembered'
  BY <1>0 DEF ContextsInv, SessionsRemembered
<1>5. LivesInv' /\ IsFiniteSet(Expired)'
  BY <1>0, <1>2, <1>3, <1>4, EvalBeside
<1>. QED BY <1>2, <1>3, <1>4, <1>5 DEF EvalInv

LEMMA CappedType ==
  ASSUME NEW b \in Seq(EvalBuffer), NEW f \in EvalFrame
  PROVE  AppendCapped(b, f) \in Seq(EvalBuffer)
<1>1. f \in EvalBuffer /\ Cut \in EvalBuffer
  BY DEF EvalBuffer
<1>. QED BY <1>1, AppendProperties DEF AppendCapped

\* A frame that does not end the call changes only what is held and what the call
\* has gathered.
LEMMA EvalReadPreserves == ASSUME EvalInv, EvalRead PROVE EvalInv'
<1>. DEFINE f == Head(stdout)
            s == evalCall.session
<1>0. /\ EvalShapes /\ EvalCallInv /\ RequestsInv /\ ContextsInv /\ SessionsRemembered /\ LivesInv
      /\ IsFiniteSet(Expired) /\ evalCall.stage = "reading" /\ s \in EvalSessions
      /\ stdout # <<>> /\ stdout' = Tail(stdout) /\ stdout \in Seq(EvalFrame) /\ evalCall \in EvalCalls
      /\ UNCHANGED <<runtime, contexts, stdin, life, printed, ghosts>>
      /\ pendingOut \in [EvalSessions -> Seq(EvalBuffer)]
  BY DEF EvalInv, EvalShapes, EvalCallInv, EvalRead
<1>1. /\ stdout' \in Seq(EvalFrame) /\ 1 \in DOMAIN stdout /\ f = stdout[1] /\ f \in EvalFrame
      /\ \A j \in DOMAIN stdout' : j + 1 \in DOMAIN stdout /\ stdout'[j] = stdout[j + 1]
  BY <1>0, TailElements
<1>2. CASE f.type # "end"
  <2>1. UNCHANGED known
    BY <1>2 DEF EvalRead
  <2>2. evalCall' \in EvalCalls /\ evalCall'.stage = "reading" /\ evalCall'.session = s /\ evalCall'.requests = evalCall.requests
    <3>1. CASE evalCall' = evalCall
      BY <1>0, <3>1
    <3>2. CASE evalCall' = [evalCall EXCEPT !.out = AppendCapped(evalCall.out, f)]
      <4>0. evalCall.out \in Seq(EvalBuffer)
        BY <1>0 DEF EvalCalls
      <4>1. AppendCapped(evalCall.out, f) \in Seq(EvalBuffer)
        BY <1>1, <4>0, CappedType
      <4>2. PICK o \in Seq(EvalBuffer) : o = AppendCapped(evalCall.out, f)
        BY <4>1
      <4>. QED BY <1>0, <3>2, <4>2 DEF EvalCalls
    <3>. QED BY <1>2, <3>1, <3>2 DEF EvalRead
  <2>3. /\ pendingOut' \in [EvalSessions -> Seq(EvalBuffer)]
        /\ \A r \in EvalSessions : known[r] = "no" => pendingOut'[r] = pendingOut[r]
    <3>1. CASE UNCHANGED pendingOut
      BY <1>0, <3>1
    <3>2. CASE /\ f.type = "line" /\ known[f.session] # "no"
               /\ pendingOut' = [pendingOut EXCEPT ![f.session] = AppendCapped(pendingOut[f.session], f)]
      <4>1. f.session \in EvalSessions
        BY <1>1 DEF EvalFrame
      <4>2. AppendCapped(pendingOut[f.session], f) \in Seq(EvalBuffer)
        BY <1>0, <1>1, <4>1, CappedType
      <4>. QED BY <1>0, <3>2, <4>1, <4>2
    <3>. QED BY <1>2, <3>1, <3>2 DEF EvalRead
  <2>4. EvalShapes' /\ EvalCallInv'
    BY <1>0, <1>1, <2>1, <2>2, <2>3 DEF EvalShapes, EvalCallInv
  <2>5. RequestsInv'
    BY <1>0, <1>1, <2>1, <2>2 DEF RequestsInv
  <2>6. ContextsInv' /\ SessionsRemembered'
    BY <1>0, <2>1, <2>2 DEF ContextsInv, Doomed, SessionsRemembered
  <2>7. LivesInv' /\ IsFiniteSet(Expired)'
    BY <1>0, <2>1, <2>2, <2>4, <2>5, <2>6, EvalBeside
  <2>. QED BY <2>4, <2>5, <2>6, <2>7 DEF EvalInv
<1>3. CASE f.type = "end"
  <2>1. evalCall' = NoEval /\ UNCHANGED pendingOut /\ known' = [known EXCEPT ![s] = "fresh"] /\ stdin = <<>>
    BY <1>0, <1>1, <1>3 DEF EvalRead, RequestsInv
  <2>2. /\ known' \in [EvalSessions -> {"no", "fresh", "idle"}]
        /\ \A r \in EvalSessions : known'[r] = IF r = s THEN "fresh" ELSE known[r]
    BY <1>0, <2>1 DEF EvalShapes
  <2>3. NoEval \in EvalCalls /\ NoEval.stage = "idle" /\ NoEval.requests = <<>> /\ evalCall.requests = <<>>
    <3>1. <<>> \in Seq(EvalBuffer) /\ <<>> \in Seq(EvalRequest)
      OBVIOUS
    <3>2. evalCall.requests = <<>>
      BY <1>0 DEF EvalCallInv
    <3>. QED BY <3>1, <3>2 DEF NoEval, EvalCalls
  <2>4. EvalShapes' /\ EvalCallInv'
    BY <1>0, <1>1, <2>1, <2>2, <2>3 DEF EvalShapes, EvalCallInv
  <2>5. \A i \in DOMAIN stdout' : stdout'[i].type # "end"
    <3>. SUFFICES ASSUME NEW i \in DOMAIN stdout' PROVE stdout'[i].type # "end"
      OBVIOUS
    <3>1. i \in Nat \ {0} /\ i + 1 \in DOMAIN stdout /\ stdout'[i] = stdout[i + 1]
      BY <1>1
    <3>2. stdout[1].type = "end" /\ stdout[i + 1].type = "end" => 1 = i + 1
      BY <1>0, <1>1, <3>1 DEF RequestsInv
    <3>. QED BY <1>1, <1>3, <3>1, <3>2
  <2>6. RequestsInv'
    <3>1. \A i \in DOMAIN <<>> : FALSE
      OBVIOUS
    <3>. QED BY <1>0, <2>1, <2>3, <2>5, <3>1 DEF RequestsInv
  <2>7. contexts[s] = life[s] \/ runtime # "up"
    BY <1>0, <2>1 DEF ContextsInv
  <2>8. runtime # "none"
    BY <1>0 DEF ContextsInv
  <2>9. ContextsInv' /\ SessionsRemembered'
    BY <1>0, <2>1, <2>2, <2>3, <2>7, <2>8 DEF ContextsInv, Doomed, SessionsRemembered
  <2>10. LivesInv'
    BY <1>0, <2>1, <2>2, <2>3 DEF LivesInv, LifeInv
  <2>11. IsFiniteSet(Expired')
    <3>1. Expired' \subseteq Expired
      BY <2>2 DEF Expired
    <3>. QED BY <1>0, <3>1, FS_Subset
  <2>. QED BY <2>4, <2>6, <2>9, <2>10, <2>11 DEF EvalInv
<1>. QED BY <1>2, <1>3

LEMMA EvalKillPreserves == ASSUME EvalInv, EvalKill PROVE EvalInv'
<1>. DEFINE S == {s \in EvalSessions : known[s] # "no" \/ contexts[s] # 0 \/ printed[s] > 0}
<1>0. /\ EvalShapes /\ LivesInv /\ S \in SUBSET EvalSessions
      /\ runtime' = "none" /\ contexts' = [s \in EvalSessions |-> 0] /\ stdin' = <<>> /\ stdout' = <<>>
      /\ ghosts' = {} /\ evalCall' = NoEval /\ EndLives(S)
      /\ known' = [s \in EvalSessions |-> "no"] /\ pendingOut' = Nothing
  BY DEF EvalInv, EvalKill, Emptied, Forgotten
<1>1. /\ life' \in [EvalSessions -> Nat \ {0}] /\ printed' \in [EvalSessions -> Nat]
      /\ \A r \in EvalSessions : IF r \in S THEN life'[r] = life[r] + 1 /\ printed'[r] = 0
                                 ELSE life'[r] = life[r] /\ printed'[r] = printed[r]
  BY <1>0, LivesEnd
<1>2. <<>> \in Seq(EvalRequest) /\ <<>> \in Seq(EvalFrame) /\ <<>> \in Seq(EvalBuffer) /\ DOMAIN <<>> = {}
  OBVIOUS
<1>3. NoEval \in EvalCalls /\ NoEval.stage = "idle" /\ NoEval.requests = <<>>
  BY <1>2 DEF NoEval, EvalCalls
<1>4. EvalShapes' /\ EvalCallInv'
  BY <1>0, <1>1, <1>2, <1>3 DEF EvalShapes, EvalCallInv, Nothing
<1>5. RequestsInv'
  BY <1>0, <1>2, <1>3 DEF RequestsInv
<1>6. ContextsInv' /\ SessionsRemembered'
  BY <1>0, <1>3 DEF ContextsInv, SessionsRemembered
<1>7. ASSUME NEW r \in EvalSessions PROVE LifeInv(r)'
  <2>1. /\ life[r] \in Nat \ {0} /\ contexts[r] \in Nat /\ printed[r] \in Nat /\ LifeInv(r)
        /\ contexts'[r] = 0 /\ known'[r] = "no" /\ evalCall'.stage = "idle"
    BY <1>0, <1>3 DEF EvalShapes, LivesInv
  <2>2. printed'[r] = 0
    BY <1>1, <2>1
  <2>3. life'[r] \in Nat \ {0} /\ life'[r] <= EvalLives + 2
    BY <1>1, <2>1, EvalAssumption DEF LifeInv
  <2>. QED BY <2>1, <2>2, <2>3 DEF LifeInv
<1>8. Expired' = {}
  BY <1>0 DEF Expired
<1>. QED BY <1>4, <1>5, <1>6, <1>7, <1>8, FS_EmptySet DEF EvalInv, LivesInv

LEMMA IdlesOutPreserves == ASSUME EvalInv, NEW s \in EvalSessions, IdlesOut(s) PROVE EvalInv'
<1>0. /\ EvalShapes /\ EvalCallInv /\ RequestsInv /\ ContextsInv /\ LivesInv /\ SessionsRemembered
      /\ IsFiniteSet(Expired) /\ known[s] = "fresh" /\ known' = [known EXCEPT ![s] = "idle"]
      /\ UNCHANGED <<runtime, contexts, stdin, stdout, pendingOut, evalCall, life, printed, delivered, ghosts>>
  BY DEF EvalInv, IdlesOut
<1>1. /\ known' \in [EvalSessions -> {"no", "fresh", "idle"}]
      /\ \A r \in EvalSessions : known'[r] = IF r = s THEN "idle" ELSE known[r]
  BY <1>0 DEF EvalShapes
<1>2. \A r \in EvalSessions : known'[r] = "no" <=> known[r] = "no"
  BY <1>0, <1>1
<1>3. EvalShapes' /\ EvalCallInv'
  BY <1>0, <1>1, <1>2 DEF EvalShapes, EvalCallInv
<1>4. RequestsInv'
  <2>0. \A i \in DOMAIN stdin : stdin[i] \in EvalRequest
    BY <1>0 DEF EvalShapes
  <2>1. \A i \in DOMAIN stdin : stdin[i].session \in EvalSessions
    BY <2>0 DEF EvalRequest
  <2>2. DOMAIN evalCall.requests = {}
    <3>1. evalCall = NoEval /\ DOMAIN <<>> = {}
      BY DEF IdlesOut
    <3>. QED BY <3>1 DEF NoEval
  <2>. QED BY <1>0, <1>2, <2>1, <2>2 DEF RequestsInv
<1>5. ContextsInv'
  BY <1>0, <1>2 DEF ContextsInv, Doomed
<1>6. SessionsRemembered'
  BY <1>0, <1>2 DEF SessionsRemembered
<1>7. LivesInv'
  BY <1>0, <1>2 DEF LivesInv, LifeInv
<1>8. IsFiniteSet(Expired')
  <2>1. Expired' = Expired \cup {s}
    BY <1>0, <1>1 DEF Expired
  <2>. QED BY <1>0, <2>1, FS_AddElement
<1>. QED BY <1>3, <1>4, <1>5, <1>6, <1>7, <1>8 DEF EvalInv

LEMMA EvalStep == ASSUME EvalInv, [EvalNext]_evalVars PROVE EvalInv'
<1>1. CASE UNCHANGED evalVars
  BY <1>1, EvalSame DEF evalVars
<1>2. CASE EvalStalls
  BY <1>2, EvalSame DEF EvalStalls
<1>3. CASE EvalNext
  BY <1>2, <1>3, EvalExecPreserves, EvalWritePreserves, PrintsPreserves, IdlesOutPreserves, RuntimeReadsPreserves,
     FinishesPreserves, RuntimeDiesPreserves, EvalReadPreserves, EvalKillPreserves
  DEF EvalNext
<1>. QED BY <1>1, <1>3

LEMMA EvalHolds == MCSpec => []EvalInv
<1>1. MCInit => EvalInv
  BY EvalInitInv DEF MCInit
<1>2. EvalInv /\ [MCNext]_<<engine, mcpVars, dapVars, lspVars, evalVars, browserVars>> => EvalInv'
  BY EngineSteps, EvalStep
<1>. QED BY <1>1, <1>2, PTL DEF MCSpec

\* A session the engine remembers still has the context its earlier calls left, for
\* any number of sessions, lives and lines (eval_session.rs: exec, the reap of idle
\* sessions, the kill on a deadline or a runtime that is gone).
THEOREM ContextsKept == MCSpec => []SessionsRemembered
BY EvalHolds, PTL DEF EvalInv

(* What a session prints. *)

\* The lines of a life among the frames: in order, each with the number it was
\* printed with, and none missing but where a buffer was cut.
Numbered(q, s, l, p) == \A i \in DOMAIN q : IsLineOf(q[i], s, l) => q[i].n \in 1 .. p
CutAt(q, c, s, l, n) ==
  q[c] = Cut /\ \A j \in DOMAIN q : IsLineOf(q[j], s, l) => IF j < c THEN q[j].n < n ELSE q[j].n > n
Told(q, s, l, p) == InOrder(q, s, l) /\ MissingOnlyAtCut(q, s, l, p) /\ Numbered(q, s, l, p)

LEMMA CutIsNoLine == \A s, l : ~IsLineOf(Cut, s, l)
BY DEF Cut, IsLineOf

LEMMA FrameIsNoCut == ASSUME NEW f \in EvalFrame PROVE f # Cut /\ f \in EvalBuffer
BY DEF EvalFrame, EvalBuffer, Cut

LEMMA FramesBuffered == ASSUME NEW q \in Seq(EvalFrame) PROVE q \in Seq(EvalBuffer)
<1>1. Len(q) \in Nat /\ q \in [1 .. Len(q) -> EvalFrame]
  BY LenProperties
<1>2. q \in [1 .. Len(q) -> EvalBuffer]
  BY <1>1 DEF EvalBuffer
<1>. QED BY <1>1, <1>2, SeqDef

\* One frame in the middle of others, by its place.
LEMMA Between ==
  ASSUME NEW X \in Seq(EvalBuffer), NEW Y \in Seq(EvalBuffer), NEW f \in EvalBuffer, NEW q, q = X \o <<f>> \o Y,
         NEW m, m = Len(X), NEW k, k = Len(Y)
  PROVE  /\ m \in Nat /\ k \in Nat /\ DOMAIN q = 1 .. m + 1 + k /\ q[m + 1] = f
         /\ \A i \in 1 .. m : q[i] = X[i]
         /\ \A i \in 1 .. k : q[m + 1 + i] = Y[i]
<1>1. <<f>> \in Seq(EvalBuffer) /\ Len(<<f>>) = 1 /\ <<f>>[1] = f /\ m \in Nat /\ k \in Nat
  BY LenProperties
<1>2. /\ X \o <<f>> \in Seq(EvalBuffer) /\ Len(X \o <<f>>) = m + 1
      /\ \A i \in 1 .. m + 1 : (X \o <<f>>)[i] = IF i <= m THEN X[i] ELSE f
  BY <1>1, ConcatProperties
<1>3. /\ DOMAIN q = 1 .. m + 1 + k
      /\ \A i \in 1 .. m + 1 + k : q[i] = IF i <= m + 1 THEN (X \o <<f>>)[i] ELSE Y[i - (m + 1)]
  BY <1>1, <1>2, ConcatProperties
<1>4. \A i \in 1 .. m : q[i] = X[i]
  <2>. SUFFICES ASSUME NEW i \in 1 .. m PROVE q[i] = X[i]
    OBVIOUS
  <2>1. i \in 1 .. m + 1 + k /\ i <= m + 1 /\ i \in 1 .. m + 1 /\ i <= m
    BY <1>1
  <2>. QED BY <1>2, <1>3, <2>1
<1>5. q[m + 1] = f
  <2>1. m + 1 \in 1 .. m + 1 + k /\ m + 1 <= m + 1 /\ m + 1 \in 1 .. m + 1 /\ ~(m + 1 <= m)
    BY <1>1
  <2>. QED BY <1>2, <1>3, <2>1
<1>6. \A i \in 1 .. k : q[m + 1 + i] = Y[i]
  <2>. SUFFICES ASSUME NEW i \in 1 .. k PROVE q[m + 1 + i] = Y[i]
    OBVIOUS
  <2>1. m + 1 + i \in 1 .. m + 1 + k /\ ~(m + 1 + i <= m + 1) /\ (m + 1 + i) - (m + 1) = i
    BY <1>1
  <2>. QED BY <1>3, <2>1
<1>. QED BY <1>1, <1>3, <1>4, <1>5, <1>6

LEMMA Beside ==
  ASSUME NEW X \in Seq(EvalBuffer), NEW Y \in Seq(EvalBuffer), NEW r, r = X \o Y,
         NEW m, m = Len(X), NEW k, k = Len(Y)
  PROVE  /\ m \in Nat /\ k \in Nat /\ DOMAIN r = 1 .. m + k
         /\ \A i \in 1 .. m : r[i] = X[i]
         /\ \A i \in 1 .. k : r[m + i] = Y[i]
<1>1. m \in Nat /\ k \in Nat
  BY LenProperties
<1>2. DOMAIN r = 1 .. m + k /\ \A i \in 1 .. m + k : r[i] = IF i <= m THEN X[i] ELSE Y[i - m]
  BY <1>1, ConcatProperties
<1>3. \A i \in 1 .. m : r[i] = X[i]
  <2>. SUFFICES ASSUME NEW i \in 1 .. m PROVE r[i] = X[i]
    OBVIOUS
  <2>1. i \in 1 .. m + k /\ i <= m
    BY <1>1
  <2>. QED BY <1>2, <2>1
<1>4. \A i \in 1 .. k : r[m + i] = Y[i]
  <2>. SUFFICES ASSUME NEW i \in 1 .. k PROVE r[m + i] = Y[i]
    OBVIOUS
  <2>1. m + i \in 1 .. m + k /\ ~(m + i <= m) /\ (m + i) - m = i
    BY <1>1
  <2>. QED BY <1>2, <2>1
<1>. QED BY <1>1, <1>2, <1>3, <1>4

\* The frame at m + 1 of q is gone from r: those behind it have moved.
Without(q, r, m) ==
  /\ m \in Nat /\ DOMAIN q \subseteq Nat /\ DOMAIN r \subseteq Nat
  /\ \A i \in DOMAIN r : \/ i <= m /\ i \in DOMAIN q /\ q[i] = r[i]
                         \/ i > m /\ i + 1 \in DOMAIN q /\ q[i + 1] = r[i]
  /\ \A j \in DOMAIN q : \/ j = m + 1
                         \/ j <= m /\ j \in DOMAIN r /\ r[j] = q[j]
                         \/ j > m + 1 /\ j - 1 \in DOMAIN r /\ r[j - 1] = q[j]

LEMMA Gone ==
  ASSUME NEW X \in Seq(EvalBuffer), NEW Y \in Seq(EvalBuffer), NEW f \in EvalBuffer
  PROVE  /\ Without(X \o <<f>> \o Y, X \o Y, Len(X))
         /\ Len(X) + 1 \in DOMAIN (X \o <<f>> \o Y) /\ (X \o <<f>> \o Y)[Len(X) + 1] = f
         /\ \A i \in 1 .. Len(X) : i \in DOMAIN (X \o Y) /\ (X \o Y)[i] = X[i]
<1>. DEFINE k == Len(Y)
<1>a. PICK q : q = X \o <<f>> \o Y
  OBVIOUS
<1>b. PICK r : r = X \o Y
  OBVIOUS
<1>c. PICK m : m = Len(X)
  OBVIOUS
<1>1. /\ m \in Nat /\ k \in Nat /\ DOMAIN q = 1 .. m + 1 + k /\ q[m + 1] = f
      /\ \A i \in 1 .. m : q[i] = X[i]
      /\ \A i \in 1 .. k : q[m + 1 + i] = Y[i]
  BY <1>a, <1>c, Between
<1>2. /\ DOMAIN r = 1 .. m + k
      /\ \A i \in 1 .. m : r[i] = X[i]
      /\ \A i \in 1 .. k : r[m + i] = Y[i]
  BY <1>b, <1>c, Beside
<1>. HIDE DEF k
<1>3. ASSUME NEW i \in DOMAIN r
      PROVE  \/ i <= m /\ i \in DOMAIN q /\ q[i] = r[i]
             \/ i > m /\ i + 1 \in DOMAIN q /\ q[i + 1] = r[i]
  <2>1. CASE i <= m
    <3>1. i \in 1 .. m /\ i \in 1 .. m + 1 + k
      BY <1>1, <1>2, <2>1
    <3>. QED BY <1>1, <1>2, <2>1, <3>1
  <2>2. CASE ~(i <= m)
    <3>1. i - m \in 1 .. k /\ m + 1 + (i - m) = i + 1 /\ m + (i - m) = i /\ i > m /\ i + 1 \in 1 .. m + 1 + k
      BY <1>1, <1>2, <2>2
    <3>2. q[m + 1 + (i - m)] = Y[i - m] /\ r[m + (i - m)] = Y[i - m]
      BY <1>1, <1>2, <3>1
    <3>. QED BY <1>1, <3>1, <3>2
  <2>. QED BY <2>1, <2>2
<1>4. ASSUME NEW j \in DOMAIN q
      PROVE  \/ j = m + 1
             \/ j <= m /\ j \in DOMAIN r /\ r[j] = q[j]
             \/ j > m + 1 /\ j - 1 \in DOMAIN r /\ r[j - 1] = q[j]
  <2>1. CASE j <= m
    <3>1. j \in 1 .. m /\ j \in 1 .. m + k
      BY <1>1, <2>1
    <3>. QED BY <1>1, <1>2, <2>1, <3>1
  <2>2. CASE j > m + 1
    <3>1. /\ j - (m + 1) \in 1 .. k /\ m + 1 + (j - (m + 1)) = j /\ m + (j - (m + 1)) = j - 1
          /\ j - 1 \in 1 .. m + k
      <4>1. j \in 1 .. m + 1 + k /\ j > m + 1 /\ m \in Nat /\ k \in Nat
        BY <1>1, <2>2
      <4>2. j - (m + 1) \in 1 .. k /\ j - 1 \in 1 .. m + k
        BY <4>1
      <4>3. m + 1 + (j - (m + 1)) = j /\ m + (j - (m + 1)) = j - 1
        BY <4>1
      <4>. QED BY <4>2, <4>3
    <3>2. q[m + 1 + (j - (m + 1))] = Y[j - (m + 1)] /\ r[m + (j - (m + 1))] = Y[j - (m + 1)]
      BY <1>1, <1>2, <3>1
    <3>. QED BY <1>2, <2>2, <3>1, <3>2
  <2>3. j \in Nat /\ m \in Nat
    BY <1>1
  <2>4. j <= m \/ j = m + 1 \/ j > m + 1
    BY <2>3
  <2>. QED BY <2>1, <2>2, <2>4
<1>5. \A i \in 1 .. m : i \in DOMAIN r
  BY <1>1, <1>2
<1>6. m + 1 \in 1 .. m + 1 + k
  BY <1>1
<1>7. DOMAIN q \subseteq Nat /\ DOMAIN r \subseteq Nat
  BY <1>1, <1>2
<1>8. Without(q, r, m)
  BY <1>1, <1>3, <1>4, <1>7 DEF Without
<1>. QED BY <1>1, <1>2, <1>5, <1>6, <1>8, <1>a, <1>b, <1>c, Zenon

\* Without that frame the others are in order as they were.
LEMMA GoneOrdered ==
  ASSUME NEW q, NEW r, NEW m, Without(q, r, m), NEW s, NEW l, NEW p, Told(q, s, l, p)
  PROVE  InOrder(r, s, l) /\ Numbered(r, s, l, p)
<1>. DEFINE old(i) == IF i <= m THEN i ELSE i + 1
<1>1. \A i \in DOMAIN r : old(i) \in DOMAIN q /\ q[old(i)] = r[i]
  BY DEF Without
<1>2. \A i, j \in DOMAIN r : i < j => old(i) < old(j)
  BY DEF Without
<1>. HIDE DEF old
<1>3. InOrder(r, s, l)
  BY <1>1, <1>2 DEF InOrder, Told
<1>4. Numbered(r, s, l, p)
  BY <1>1 DEF Numbered, Told
<1>. QED BY <1>3, <1>4

\* A mark at another place stands for what it stood for.
LEMMA CutMoves ==
  ASSUME NEW q, NEW r, NEW m, Without(q, r, m), NEW s, NEW l, NEW n,
         NEW c \in DOMAIN q, c # m + 1, CutAt(q, c, s, l, n)
  PROVE  \E i \in DOMAIN r : CutAt(r, i, s, l, n)
<1>0. m \in Nat /\ c \in Nat /\ \A j \in DOMAIN r : j \in Nat
  BY DEF Without
<1>1. CASE c <= m /\ c \in DOMAIN r /\ r[c] = q[c]
  <2>1. ASSUME NEW j \in DOMAIN r, IsLineOf(r[j], s, l) PROVE IF j < c THEN r[j].n < n ELSE r[j].n > n
    <3>1. CASE j <= m /\ j \in DOMAIN q /\ q[j] = r[j]
      BY <2>1, <3>1 DEF CutAt
    <3>2. CASE j > m /\ j + 1 \in DOMAIN q /\ q[j + 1] = r[j]
      <4>1. ~(j < c) /\ ~(j + 1 < c)
        BY <1>0, <1>1, <3>2
      <4>. QED BY <2>1, <3>2, <4>1 DEF CutAt
    <3>. QED BY <3>1, <3>2 DEF Without
  <2>. QED BY <1>1, <2>1 DEF CutAt
<1>2. CASE c > m + 1 /\ c - 1 \in DOMAIN r /\ r[c - 1] = q[c]
  <2>1. ASSUME NEW j \in DOMAIN r, IsLineOf(r[j], s, l) PROVE IF j < c - 1 THEN r[j].n < n ELSE r[j].n > n
    <3>1. CASE j <= m /\ j \in DOMAIN q /\ q[j] = r[j]
      <4>1. j < c - 1 /\ j < c
        BY <1>0, <1>2, <3>1
      <4>. QED BY <2>1, <3>1, <4>1 DEF CutAt
    <3>2. CASE j > m /\ j + 1 \in DOMAIN q /\ q[j + 1] = r[j]
      <4>1. j < c - 1 <=> j + 1 < c
        BY <1>0, <1>2, <3>2
      <4>. QED BY <2>1, <3>2, <4>1 DEF CutAt
    <3>. QED BY <3>1, <3>2 DEF Without
  <2>. QED BY <1>2, <2>1 DEF CutAt
<1>. QED BY <1>1, <1>2 DEF Without

LEMMA MissingAgain ==
  ASSUME NEW q, NEW s, NEW l, NEW p
  PROVE  MissingOnlyAtCut(q, s, l, p) <=>
           \A n \in 1 .. p : \/ \E i \in DOMAIN q : IsLineOf(q[i], s, l) /\ q[i].n = n
                            \/ \E i \in DOMAIN q : CutAt(q, i, s, l, n)
BY DEF MissingOnlyAtCut, CutAt

\* A frame that is no line of the life can be taken out of the frames.
LEMMA ForeignGone ==
  ASSUME NEW X \in Seq(EvalBuffer), NEW Y \in Seq(EvalBuffer), NEW f \in EvalFrame, NEW s, NEW l, NEW p,
         ~IsLineOf(f, s, l), Told(X \o <<f>> \o Y, s, l, p)
  PROVE  Told(X \o Y, s, l, p)
<1>0. f # Cut /\ f \in EvalBuffer
  BY FrameIsNoCut
<1>1. PICK q : q = X \o <<f>> \o Y
  OBVIOUS
<1>2. PICK r : r = X \o Y
  OBVIOUS
<1>a. PICK m : m = Len(X)
  OBVIOUS
<1>3. Without(q, r, m) /\ q[m + 1] = f
  <2>1. PICK g \in EvalBuffer : g = f
    BY <1>0
  <2>2. q = X \o <<g>> \o Y
    BY <1>1, <2>1
  <2>3. Without(q, r, m) /\ q[m + 1] = g
    BY <1>2, <1>a, <2>2, Gone, Zenon
  <2>. QED BY <2>1, <2>3
<1>b. Told(q, s, l, p)
  BY <1>1
<1>4. InOrder(r, s, l) /\ Numbered(r, s, l, p)
  BY <1>3, <1>b, GoneOrdered
<1>5. ASSUME NEW n \in 1 .. p
      PROVE  \/ \E i \in DOMAIN r : IsLineOf(r[i], s, l) /\ r[i].n = n
             \/ \E i \in DOMAIN r : CutAt(r, i, s, l, n)
  <2>1. CASE \E i \in DOMAIN q : IsLineOf(q[i], s, l) /\ q[i].n = n
    BY <1>3, <2>1 DEF Without
  <2>2. ASSUME NEW c \in DOMAIN q, CutAt(q, c, s, l, n) PROVE \E i \in DOMAIN r : CutAt(r, i, s, l, n)
    <3>1. c # m + 1
      BY <1>0, <1>3, <2>2 DEF CutAt
    <3>. QED BY <1>3, <2>2, <3>1, CutMoves
  <2>3. MissingOnlyAtCut(q, s, l, p)
    BY <1>b DEF Told
  <2>4. \/ \E i \in DOMAIN q : IsLineOf(q[i], s, l) /\ q[i].n = n
        \/ \E i \in DOMAIN q : CutAt(q, i, s, l, n)
    BY <2>3, MissingAgain
  <2>. QED BY <2>1, <2>2, <2>4
<1>6. MissingOnlyAtCut(r, s, l, p)
  BY <1>5, MissingAgain
<1>. QED BY <1>2, <1>4, <1>6 DEF Told

\* So can any frame directly behind a mark, which then stands for it too.
LEMMA BehindCutGone ==
  ASSUME NEW X \in Seq(EvalBuffer), NEW Y \in Seq(EvalBuffer), NEW f \in EvalFrame, NEW s, NEW l, NEW p,
         X # <<>>, X[Len(X)] = Cut, Told(X \o <<f>> \o Y, s, l, p)
  PROVE  Told(X \o Y, s, l, p)
<1>0. f # Cut /\ f \in EvalBuffer
  BY FrameIsNoCut
<1>1. PICK q : q = X \o <<f>> \o Y
  OBVIOUS
<1>2. PICK r : r = X \o Y
  OBVIOUS
<1>a. PICK m : m = Len(X)
  OBVIOUS
<1>3. Without(q, r, m) /\ q[m + 1] = f /\ m + 1 \in DOMAIN q /\ \A i \in 1 .. m : i \in DOMAIN r /\ r[i] = X[i]
  <2>1. PICK g \in EvalBuffer : g = f
    BY <1>0
  <2>2. q = X \o <<g>> \o Y
    BY <1>1, <2>1
  <2>3. Without(q, r, m) /\ q[m + 1] = g /\ m + 1 \in DOMAIN q /\ \A i \in 1 .. m : i \in DOMAIN r /\ r[i] = X[i]
    BY <1>2, <1>a, <2>2, Gone, Zenon
  <2>. QED BY <2>1, <2>3
<1>b. Told(q, s, l, p)
  BY <1>1
<1>4. InOrder(r, s, l) /\ Numbered(r, s, l, p)
  BY <1>3, <1>b, GoneOrdered
<1>5. m \in Nat \ {0} /\ m \in DOMAIN r /\ r[m] = Cut
  <2>1. m \in Nat \ {0}
    BY <1>a, EmptySeq, LenProperties
  <2>2. m \in 1 .. m
    BY <2>1
  <2>. QED BY <1>3, <1>a, <2>1, <2>2
\* The mark stands for the frame behind it.
<1>6. ASSUME IsLineOf(f, s, l), NEW n \in 1 .. p, f.n = n PROVE CutAt(r, m, s, l, n)
  <2>1. ASSUME NEW j \in DOMAIN r, IsLineOf(r[j], s, l) PROVE IF j < m THEN r[j].n < n ELSE r[j].n > n
    <3>0. j # m /\ j \in Nat /\ InOrder(q, s, l) /\ r[j].n \in Nat /\ n \in Nat
      <4>1. j # m
        BY <1>5, <2>1, CutIsNoLine
      <4>2. r[j].n \in 1 .. p
        BY <1>4, <2>1 DEF Numbered
      <4>3. j \in Nat /\ InOrder(q, s, l)
        BY <1>3, <1>b DEF Without, Told
      <4>. QED BY <4>1, <4>2, <4>3
    <3>1. CASE j <= m /\ j \in DOMAIN q /\ q[j] = r[j]
      <4>1. j < m /\ j < m + 1
        BY <1>5, <3>0, <3>1
      <4>2. q[j].n < q[m + 1].n
        BY <1>3, <1>6, <2>1, <3>0, <3>1, <4>1 DEF InOrder
      <4>. QED BY <1>3, <1>6, <3>1, <4>1, <4>2
    <3>2. CASE j > m /\ j + 1 \in DOMAIN q /\ q[j + 1] = r[j]
      <4>1. ~(j < m) /\ m + 1 < j + 1
        BY <1>5, <3>0, <3>2
      <4>2. q[m + 1].n < q[j + 1].n
        BY <1>3, <1>6, <2>1, <3>0, <3>2, <4>1 DEF InOrder
      <4>3. n < r[j].n
        BY <1>3, <1>6, <3>2, <4>2
      <4>. QED BY <3>0, <4>1, <4>3
    <3>. QED BY <1>3, <3>1, <3>2 DEF Without
  <2>. QED BY <1>5, <2>1 DEF CutAt
<1>7. ASSUME NEW n \in 1 .. p
      PROVE  \/ \E i \in DOMAIN r : IsLineOf(r[i], s, l) /\ r[i].n = n
             \/ \E i \in DOMAIN r : CutAt(r, i, s, l, n)
  <2>1. ASSUME NEW i \in DOMAIN q, IsLineOf(q[i], s, l), q[i].n = n
        PROVE  \/ \E j \in DOMAIN r : IsLineOf(r[j], s, l) /\ r[j].n = n
               \/ \E j \in DOMAIN r : CutAt(r, j, s, l, n)
    <3>1. CASE i = m + 1
      BY <1>3, <1>5, <1>6, <2>1, <3>1
    <3>2. CASE i # m + 1
      BY <1>3, <2>1, <3>2 DEF Without
    <3>. QED BY <3>1, <3>2
  <2>2. ASSUME NEW c \in DOMAIN q, CutAt(q, c, s, l, n) PROVE \E i \in DOMAIN r : CutAt(r, i, s, l, n)
    <3>1. c # m + 1
      BY <1>0, <1>3, <2>2 DEF CutAt
    <3>. QED BY <1>3, <2>2, <3>1, CutMoves
  <2>3. MissingOnlyAtCut(q, s, l, p)
    BY <1>b DEF Told
  <2>4. \/ \E i \in DOMAIN q : IsLineOf(q[i], s, l) /\ q[i].n = n
        \/ \E i \in DOMAIN q : CutAt(q, i, s, l, n)
    BY <2>3, MissingAgain
  <2>. QED BY <2>1, <2>2, <2>4
<1>8. MissingOnlyAtCut(r, s, l, p)
  BY <1>7, MissingAgain
<1>. QED BY <1>2, <1>4, <1>8 DEF Told

\* A mark in the place of a frame stands for it.
LEMMA FrameCut ==
  ASSUME NEW X \in Seq(EvalBuffer), NEW Y \in Seq(EvalBuffer), NEW f \in EvalFrame, NEW s, NEW l, NEW p,
         Told(X \o <<f>> \o Y, s, l, p)
  PROVE  Told(X \o <<Cut>> \o Y, s, l, p)
<1>0. f # Cut /\ f \in EvalBuffer /\ Cut \in EvalBuffer
  BY FrameIsNoCut DEF EvalBuffer
<1>1. PICK q : q = X \o <<f>> \o Y
  OBVIOUS
<1>2. PICK r : r = X \o <<Cut>> \o Y
  OBVIOUS
<1>3. PICK m, k : m = Len(X) /\ k = Len(Y)
  OBVIOUS
<1>4. /\ m \in Nat /\ k \in Nat /\ DOMAIN q = 1 .. m + 1 + k /\ q[m + 1] = f
      /\ \A i \in 1 .. m : q[i] = X[i]
      /\ \A i \in 1 .. k : q[m + 1 + i] = Y[i]
  BY <1>0, <1>1, <1>3, Between
<1>5. /\ DOMAIN r = 1 .. m + 1 + k /\ r[m + 1] = Cut
      /\ \A i \in 1 .. m : r[i] = X[i]
      /\ \A i \in 1 .. k : r[m + 1 + i] = Y[i]
  BY <1>0, <1>2, <1>3, Between
<1>6. /\ DOMAIN r = DOMAIN q /\ m + 1 \in DOMAIN q /\ DOMAIN q \subseteq Nat
      /\ \A i \in DOMAIN q : i # m + 1 => r[i] = q[i]
  <2>1. ASSUME NEW i \in DOMAIN q, i # m + 1 PROVE r[i] = q[i]
    <3>1. CASE i <= m
      <4>1. i \in 1 .. m
        BY <1>4, <3>1
      <4>. QED BY <1>4, <1>5, <4>1
    <3>2. CASE ~(i <= m)
      <4>1. i - (m + 1) \in 1 .. k /\ m + 1 + (i - (m + 1)) = i
        BY <1>4, <2>1, <3>2
      <4>2. q[m + 1 + (i - (m + 1))] = Y[i - (m + 1)] /\ r[m + 1 + (i - (m + 1))] = Y[i - (m + 1)]
        BY <1>4, <1>5, <4>1
      <4>. QED BY <4>1, <4>2
    <3>. QED BY <3>1, <3>2
  <2>2. m + 1 \in 1 .. m + 1 + k /\ 1 .. m + 1 + k \subseteq Nat
    BY <1>4
  <2>. QED BY <1>4, <1>5, <2>1, <2>2
<1>7. InOrder(q, s, l) /\ MissingOnlyAtCut(q, s, l, p) /\ Numbered(q, s, l, p)
  BY <1>1 DEF Told
<1>8. \A i \in DOMAIN r : IsLineOf(r[i], s, l) => i # m + 1 /\ i \in DOMAIN q /\ r[i] = q[i]
  BY <1>5, <1>6, CutIsNoLine
<1>9. InOrder(r, s, l)
  BY <1>7, <1>8 DEF InOrder
<1>10. Numbered(r, s, l, p)
  BY <1>7, <1>8 DEF Numbered
<1>11. ASSUME NEW n \in 1 .. p
       PROVE  \/ \E i \in DOMAIN r : IsLineOf(r[i], s, l) /\ r[i].n = n
              \/ \E i \in DOMAIN r : CutAt(r, i, s, l, n)
  <2>1. ASSUME NEW i \in DOMAIN q, IsLineOf(q[i], s, l), q[i].n = n
        PROVE  \/ \E j \in DOMAIN r : IsLineOf(r[j], s, l) /\ r[j].n = n
               \/ \E j \in DOMAIN r : CutAt(r, j, s, l, n)
    <3>1. CASE i = m + 1
      <4>1. ASSUME NEW j \in DOMAIN r, IsLineOf(r[j], s, l) PROVE IF j < m + 1 THEN r[j].n < n ELSE r[j].n > n
        <5>1. j # m + 1 /\ j \in DOMAIN q /\ r[j] = q[j] /\ IsLineOf(q[j], s, l)
          BY <1>8, <4>1
        <5>2. j \in Nat /\ q[j].n \in 1 .. p /\ m \in Nat
          BY <1>4, <1>6, <1>7, <5>1 DEF Numbered
        <5>3. j < m + 1 => q[j].n < n
          BY <1>6, <1>7, <2>1, <3>1, <5>1 DEF InOrder
        <5>4. m + 1 < j => n < q[j].n
          BY <1>6, <1>7, <2>1, <3>1, <5>1 DEF InOrder
        <5>. QED BY <5>1, <5>2, <5>3, <5>4
      <4>. QED BY <1>5, <1>6, <4>1 DEF CutAt
    <3>2. CASE i # m + 1
      BY <1>6, <2>1, <3>2
    <3>. QED BY <3>1, <3>2
  <2>2. ASSUME NEW c \in DOMAIN q, CutAt(q, c, s, l, n) PROVE \E i \in DOMAIN r : CutAt(r, i, s, l, n)
    <3>1. r[c] = Cut /\ c \in DOMAIN r
      BY <1>5, <1>6, <2>2 DEF CutAt
    <3>. QED BY <1>8, <2>2, <3>1 DEF CutAt
  <2>3. \/ \E i \in DOMAIN q : IsLineOf(q[i], s, l) /\ q[i].n = n
        \/ \E i \in DOMAIN q : CutAt(q, i, s, l, n)
    BY <1>7, MissingAgain
  <2>. QED BY <2>1, <2>2, <2>3
<1>12. MissingOnlyAtCut(r, s, l, p)
  BY <1>11, MissingAgain
<1>. QED BY <1>2, <1>9, <1>10, <1>12 DEF Told

\* The next line of the life can only come behind all others.
LEMMA FrameAdded ==
  ASSUME NEW q \in Seq(EvalBuffer), NEW f \in EvalFrame, NEW s, NEW l, NEW p \in Nat, Told(q, s, l, p)
  PROVE  /\ ~IsLineOf(f, s, l) => Told(Append(q, f), s, l, p)
         /\ f = Line(s, l, p + 1) => Told(Append(q, f), s, l, p + 1)
<1>. DEFINE m == Len(q)
<1>0. f # Cut /\ f \in EvalBuffer
  BY FrameIsNoCut
<1>a. PICK r : r = Append(q, f)
  OBVIOUS
<1>1. /\ DOMAIN r = DOMAIN q \cup {m + 1} /\ r[m + 1] = f /\ \A i \in DOMAIN q : r[i] = q[i] /\ i # m + 1
      /\ m \in Nat /\ DOMAIN q = 1 .. m
  BY <1>0, <1>a, AppendElements, LenProperties
<1>. HIDE DEF m
<1>2. InOrder(q, s, l) /\ MissingOnlyAtCut(q, s, l, p) /\ Numbered(q, s, l, p)
  BY DEF Told
<1>b. \A i \in DOMAIN q : i \in Nat /\ i < m + 1
  BY <1>1
\* What the marks stood for they stand for, whatever comes behind of a later line.
<1>3. ASSUME NEW n \in 1 .. p, IsLineOf(f, s, l) => f.n = p + 1
      PROVE  \/ \E i \in DOMAIN r : IsLineOf(r[i], s, l) /\ r[i].n = n
             \/ \E i \in DOMAIN r : CutAt(r, i, s, l, n)
  <2>1. CASE \E i \in DOMAIN q : IsLineOf(q[i], s, l) /\ q[i].n = n
    BY <1>1, <2>1
  <2>2. ASSUME NEW c \in DOMAIN q, CutAt(q, c, s, l, n) PROVE \E i \in DOMAIN r : CutAt(r, i, s, l, n)
    <3>1. ASSUME NEW j \in DOMAIN r, IsLineOf(r[j], s, l) PROVE IF j < c THEN r[j].n < n ELSE r[j].n > n
      <4>1. CASE j \in DOMAIN q
        BY <1>1, <2>2, <3>1, <4>1 DEF CutAt
      <4>2. CASE j = m + 1
        <5>1. r[j].n = p + 1 /\ p + 1 > n
          BY <1>1, <1>3, <3>1, <4>2
        <5>2. ~(j < c)
          BY <1>1, <1>b, <4>2
        <5>. QED BY <5>1, <5>2
      <4>. QED BY <1>1, <4>1, <4>2
    <3>. QED BY <1>1, <2>2, <3>1 DEF CutAt
  <2>3. \/ \E i \in DOMAIN q : IsLineOf(q[i], s, l) /\ q[i].n = n
        \/ \E i \in DOMAIN q : CutAt(q, i, s, l, n)
    BY <1>2, MissingAgain
  <2>. QED BY <2>1, <2>2, <2>3
<1>4. CASE ~IsLineOf(f, s, l)
  <2>1. \A i \in DOMAIN r : IsLineOf(r[i], s, l) => i \in DOMAIN q /\ r[i] = q[i]
    BY <1>1, <1>4
  <2>2. InOrder(r, s, l)
    BY <1>2, <2>1 DEF InOrder
  <2>3. Numbered(r, s, l, p)
    BY <1>2, <2>1 DEF Numbered
  <2>4. MissingOnlyAtCut(r, s, l, p)
    BY <1>3, <1>4, MissingAgain
  <2>5. f # Line(s, l, p + 1)
    BY <1>4 DEF IsLineOf, Line
  <2>. QED BY <1>a, <2>2, <2>3, <2>4, <2>5 DEF Told
<1>5. CASE f = Line(s, l, p + 1)
  <2>1. IsLineOf(f, s, l) /\ f.n = p + 1
    BY <1>5 DEF IsLineOf, Line
  <2>2. ASSUME NEW i \in DOMAIN r, NEW j \in DOMAIN r, i < j, IsLineOf(r[i], s, l), IsLineOf(r[j], s, l)
        PROVE  r[i].n < r[j].n
    <3>1. i \in DOMAIN q
      <4>1. i # m + 1
        BY <1>1, <1>b, <2>2
      <4>. QED BY <1>1, <4>1
    <3>2. CASE j \in DOMAIN q
      BY <1>1, <1>2, <2>2, <3>1, <3>2 DEF InOrder
    <3>3. CASE j = m + 1
      <4>1. q[i].n \in 1 .. p
        BY <1>1, <1>2, <2>2, <3>1 DEF Numbered
      <4>. QED BY <1>1, <2>1, <3>1, <3>3, <4>1
    <3>. QED BY <1>1, <3>2, <3>3
  <2>3. InOrder(r, s, l)
    BY <2>2 DEF InOrder
  <2>4. Numbered(r, s, l, p + 1)
    <3>1. 1 .. p \subseteq 1 .. p + 1 /\ p + 1 \in 1 .. p + 1
      OBVIOUS
    <3>. QED BY <1>1, <1>2, <2>1, <3>1 DEF Numbered
  <2>5. MissingOnlyAtCut(r, s, l, p + 1)
    <3>1. ASSUME NEW n \in 1 .. p + 1
          PROVE  \/ \E i \in DOMAIN r : IsLineOf(r[i], s, l) /\ r[i].n = n
                 \/ \E i \in DOMAIN r : CutAt(r, i, s, l, n)
      <4>1. CASE n = p + 1
        BY <1>1, <2>1, <4>1
      <4>2. CASE n # p + 1
        <5>1. n \in 1 .. p
          BY <4>2
        <5>. QED BY <1>3, <2>1, <5>1
      <4>. QED BY <4>1, <4>2
    <3>. QED BY <3>1, MissingAgain
  <2>. QED BY <1>a, <2>1, <2>3, <2>4, <2>5 DEF Told
<1>6. f = Line(s, l, p + 1) => IsLineOf(f, s, l)
  BY DEF IsLineOf, Line
<1>. QED BY <1>4, <1>5, <1>6

LEMMA NoLines ==
  ASSUME NEW q, NEW s, NEW l, \A i \in DOMAIN q : ~IsLineOf(q[i], s, l)
  PROVE  Told(q, s, l, 0)
<1>1. 1 .. 0 = {}
  OBVIOUS
<1>. QED BY <1>1 DEF Told, InOrder, MissingOnlyAtCut, Numbered

\* No line of a life in which nothing was printed is anywhere.
LEMMA NothingPrinted ==
  ASSUME NEW q, NEW s, NEW l, Told(q, s, l, 0)
  PROVE  \A i \in DOMAIN q : ~IsLineOf(q[i], s, l)
<1>1. 1 .. 0 = {}
  OBVIOUS
<1>. QED BY <1>1 DEF Told, Numbered

\* What append_capped makes of b, which follows a: c has the frame more, or a mark in
\* its place, or nothing behind a mark.
Takes(a, b, c, f) ==
  /\ \/ a \o c = a \o b \o <<f>>
     \/ a \o c = a \o b \o <<Cut>>
     \/ a \o c = a \o b /\ a \o b # <<>> /\ (a \o b)[Len(a \o b)] = Cut
  /\ \A i \in DOMAIN c : c[i] = f \/ c[i] = Cut \/ (i \in DOMAIN b /\ c[i] = b[i])

LEMMA Capped ==
  ASSUME NEW a \in Seq(EvalBuffer), NEW b \in Seq(EvalBuffer), NEW f \in EvalFrame, NEW c, c = AppendCapped(b, f)
  PROVE  Takes(a, b, c, f)
<1>0. f \in EvalBuffer /\ Cut \in EvalBuffer
  BY FrameIsNoCut DEF EvalBuffer
<1>1. ASSUME NEW g \in EvalBuffer, c = Append(b, g), g = f \/ g = Cut
      PROVE  /\ a \o c = a \o b \o <<g>>
             /\ \A i \in DOMAIN c : c[i] = f \/ c[i] = Cut \/ (i \in DOMAIN b /\ c[i] = b[i])
  <2>1. DOMAIN c = DOMAIN b \cup {Len(b) + 1} /\ c[Len(b) + 1] = g /\ \A j \in DOMAIN b : c[j] = b[j]
    BY <1>1, AppendElements
  <2>2. c = b \o <<g>> /\ <<g>> \in Seq(EvalBuffer)
    BY <1>1, AppendIsConcat
  <2>3. (a \o b) \o <<g>> = a \o (b \o <<g>>)
    BY <2>2, ConcatAssociative
  <2>. QED BY <1>1, <2>1, <2>2, <2>3
<1>2. CASE Len(b) < MaxCaptured
  BY <1>0, <1>1, <1>2 DEF AppendCapped, Takes
<1>3. CASE ~(Len(b) < MaxCaptured) /\ b[Len(b)] # Cut
  BY <1>0, <1>1, <1>3 DEF AppendCapped, Takes
<1>4. CASE ~(Len(b) < MaxCaptured) /\ b[Len(b)] = Cut
  <2>1. c = b
    BY <1>4 DEF AppendCapped
  <2>2. Len(b) \in Nat \ {0} /\ Len(a) \in Nat
    BY <1>4, EvalAssumption, LenProperties
  <2>3. PICK t : t = a \o b
    OBVIOUS
  <2>4. /\ Len(t) = Len(a) + Len(b) /\ t \in Seq(EvalBuffer)
        /\ \A i \in 1 .. Len(a) + Len(b) : t[i] = IF i <= Len(a) THEN a[i] ELSE b[i - Len(a)]
    BY <2>3, ConcatProperties
  <2>5. /\ Len(a) + Len(b) \in 1 .. Len(a) + Len(b) /\ ~(Len(a) + Len(b) <= Len(a))
        /\ (Len(a) + Len(b)) - Len(a) = Len(b)
    BY <2>2
  <2>6. t[Len(t)] = Cut
    BY <1>4, <2>4, <2>5
  <2>7. t # <<>>
    BY <2>2, <2>4, EmptySeq
  <2>. QED BY <2>1, <2>3, <2>6, <2>7 DEF Takes
<1>. QED BY <1>2, <1>3, <1>4

\* The engine holds lines for the session they are of, and none for the session of
\* the call, which gathers them itself.
OfSession(f, s) == f = Cut \/ f.session = s
HeldInv ==
  /\ delivered \in [EvalSessions -> Seq(EvalBuffer)]
  /\ \A s \in EvalSessions : \A i \in DOMAIN pendingOut[s] : OfSession(pendingOut[s][i], s)
  /\ \A i \in DOMAIN evalCall.out : OfSession(evalCall.out[i], evalCall.session)
  /\ \A s \in EvalSessions : evalCall.stage = "reading" /\ evalCall.session = s => pendingOut[s] = <<>>

\* No line is of a life to come.
PipeInv == \A i \in DOMAIN stdout : stdout[i].type = "line" => stdout[i].in <= life[stdout[i].session]

\* A session the engine neither knows nor calls has no code that could print, and
\* has printed nothing in this life.
QuietInv ==
  \A s \in EvalSessions : known[s] = "no" /\ ~(evalCall.stage = "reading" /\ evalCall.session = s)
                            => printed[s] = 0 /\ contexts[s] # life[s]

\* Every session's console is whole, and its calls were given nobody else's.
WholeInv ==
  \A s \in EvalSessions : /\ Told(Console(s), s, life[s], printed[s])
                          /\ \A i \in DOMAIN delivered[s] : OfSession(delivered[s][i], s)

ConsoleInv == HeldInv /\ PipeInv /\ QuietInv /\ WholeInv

\* What the engine has of a session's console.
Received(s) == delivered[s] \o Gathered(s) \o pendingOut[s]

LEMMA ConsoleParts ==
  ASSUME EvalShapes, HeldInv, NEW s \in EvalSessions
  PROVE  /\ delivered[s] \in Seq(EvalBuffer) /\ Gathered(s) \in Seq(EvalBuffer) /\ pendingOut[s] \in Seq(EvalBuffer)
         /\ stdout \in Seq(EvalFrame) /\ stdout \in Seq(EvalBuffer) /\ Received(s) \in Seq(EvalBuffer)
         /\ Console(s) = Received(s) \o stdout /\ Console(s) \in Seq(EvalBuffer)
<1>0. evalCall \in EvalCalls
  BY DEF EvalShapes
<1>1. evalCall.out \in Seq(EvalBuffer)
  BY <1>0 DEF EvalCalls
<1>2. /\ delivered[s] \in Seq(EvalBuffer) /\ Gathered(s) \in Seq(EvalBuffer) /\ pendingOut[s] \in Seq(EvalBuffer)
      /\ stdout \in Seq(EvalFrame) /\ stdout \in Seq(EvalBuffer)
  <2>1. stdout \in Seq(EvalFrame)
    BY DEF EvalShapes
  <2>2. stdout \in Seq(EvalBuffer)
    BY <2>1, FramesBuffered
  <2>3. delivered[s] \in Seq(EvalBuffer) /\ Gathered(s) \in Seq(EvalBuffer) /\ pendingOut[s] \in Seq(EvalBuffer)
    BY <1>1, EmptySeq DEF EvalShapes, HeldInv, Gathered
  <2>. QED BY <2>1, <2>2, <2>3
<1>3. Received(s) \in Seq(EvalBuffer)
  <2>1. delivered[s] \o Gathered(s) \in Seq(EvalBuffer)
    BY <1>2, ConcatProperties
  <2>. QED BY <1>2, <2>1, ConcatProperties DEF Received
<1>4. Console(s) = Received(s) \o stdout
  BY DEF Console, Received
<1>. QED BY <1>2, <1>3, <1>4, ConcatProperties

LEMMA ConsoleSame ==
  ASSUME UNCHANGED <<delivered, evalCall, pendingOut>>
  PROVE  \A s \in EvalSessions : Gathered(s)' = Gathered(s) /\ Received(s)' = Received(s)
BY DEF Gathered, Received

\* A frame written goes behind everything of every session.
LEMMA ConsoleGrows ==
  ASSUME EvalShapes, HeldInv, NEW f \in EvalFrame, stdout' = Append(stdout, f),
         UNCHANGED <<delivered, evalCall, pendingOut>>, NEW s \in EvalSessions
  PROVE  Console(s)' = Append(Console(s), f) /\ Console(s) \in Seq(EvalBuffer)
<1>1. /\ stdout \in Seq(EvalBuffer) /\ Received(s) \in Seq(EvalBuffer) /\ Console(s) \in Seq(EvalBuffer)
      /\ Console(s) = Received(s) \o stdout /\ f \in EvalBuffer /\ <<f>> \in Seq(EvalBuffer)
  BY ConsoleParts, FrameIsNoCut
<1>2. Console(s)' = Received(s) \o Append(stdout, f)
  BY DEF Console, Received, Gathered
<1>3. Append(stdout, f) = stdout \o <<f>> /\ Append(Console(s), f) = Console(s) \o <<f>>
  BY <1>1, AppendIsConcat
<1>4. (Received(s) \o stdout) \o <<f>> = Received(s) \o (stdout \o <<f>>)
  BY <1>1, ConcatAssociative
<1>. QED BY <1>1, <1>2, <1>3, <1>4

LEMMA ConsoleInitInv == EvalInit => ConsoleInv
<1>. SUFFICES ASSUME EvalInit PROVE ConsoleInv
  OBVIOUS
<1>0. EvalShapes
  BY EvalInitInv DEF EvalInv
<1>1. <<>> \in Seq(EvalBuffer) /\ DOMAIN <<>> = {}
  OBVIOUS
<1>a. NoEval.stage = "idle" /\ NoEval.out = <<>>
  BY DEF NoEval
<1>b. /\ stdout = <<>> /\ evalCall = NoEval
      /\ \A s \in EvalSessions : contexts[s] = 0 /\ life[s] = 1 /\ printed[s] = 0
  BY DEF EvalInit
<1>c. \A s \in EvalSessions : pendingOut[s] = <<>> /\ delivered[s] = <<>>
  BY DEF EvalInit, Nothing
<1>2. /\ stdout = <<>> /\ evalCall = NoEval /\ NoEval.stage = "idle" /\ NoEval.out = <<>>
      /\ \A s \in EvalSessions : /\ contexts[s] = 0 /\ life[s] = 1 /\ printed[s] = 0
                                 /\ pendingOut[s] = <<>> /\ delivered[s] = <<>>
  BY <1>a, <1>b, <1>c
<1>3. HeldInv
  BY <1>1, <1>2 DEF HeldInv, EvalInit, Nothing
<1>4. PipeInv /\ QuietInv
  BY <1>1, <1>2 DEF PipeInv, QuietInv
<1>5. ASSUME NEW s \in EvalSessions PROVE Told(Console(s), s, life[s], printed[s])
  <2>1. Gathered(s) = <<>>
    BY <1>2 DEF Gathered
  <2>2. Console(s) = <<>> \o <<>> \o <<>> \o <<>>
    BY <1>2, <2>1 DEF Console
  <2>3. Console(s) = <<>>
    BY <1>1, <2>2, ConcatEmptySeq
  <2>. QED BY <1>1, <1>2, <2>3, NoLines
<1>6. WholeInv
  BY <1>1, <1>2, <1>5 DEF WholeInv
<1>. QED BY <1>3, <1>4, <1>6 DEF ConsoleInv

\* A frame that is no line of a session's life leaves its console as it was.
LEMMA FrameWritten ==
  ASSUME EvalInv, ConsoleInv, NEW f \in EvalFrame, stdout' = Append(stdout, f),
         UNCHANGED <<known, delivered, evalCall, pendingOut, life, printed>>, f.type # "line",
         \A s \in EvalSessions : contexts'[s] \in {0, contexts[s]}
  PROVE  ConsoleInv'
<1>0. EvalShapes /\ HeldInv /\ PipeInv /\ QuietInv /\ WholeInv
  BY DEF EvalInv, ConsoleInv
<1>1. HeldInv'
  BY <1>0 DEF HeldInv
<1>2. PipeInv'
  <2>1. /\ DOMAIN stdout' = DOMAIN stdout \cup {Len(stdout) + 1}
        /\ stdout'[Len(stdout) + 1] = f /\ \A j \in DOMAIN stdout : stdout'[j] = stdout[j]
    <3>1. stdout \in Seq(EvalFrame)
      BY <1>0 DEF EvalShapes
    <3>. QED BY <3>1, AppendElements
  <2>. QED BY <1>0, <2>1 DEF PipeInv
<1>3. QuietInv'
  <2>1. \A s \in EvalSessions : life[s] # 0
    BY <1>0 DEF EvalShapes
  <2>. QED BY <1>0, <2>1 DEF QuietInv
<1>4. ASSUME NEW s \in EvalSessions PROVE Told(Console(s)', s, life[s], printed[s])
  <2>1. /\ Console(s)' = Append(Console(s), f) /\ Console(s) \in Seq(EvalBuffer) /\ printed[s] \in Nat
        /\ ~IsLineOf(f, s, life[s]) /\ Told(Console(s), s, life[s], printed[s])
    BY <1>0, ConsoleGrows DEF IsLineOf, EvalShapes, WholeInv
  <2>. QED BY <2>1, FrameAdded
<1>5. WholeInv'
  BY <1>0, <1>4 DEF WholeInv
<1>. QED BY <1>1, <1>2, <1>3, <1>5 DEF ConsoleInv

\* Nor does a step that leaves frames and lives alone.
LEMMA NothingWritten ==
  ASSUME EvalInv, ConsoleInv, UNCHANGED <<stdout, delivered, evalCall, pendingOut, life, printed>>,
         \A s \in EvalSessions : known'[s] = "no" <=> known[s] = "no", QuietInv'
  PROVE  ConsoleInv'
<1>0. HeldInv /\ PipeInv /\ WholeInv
  BY DEF ConsoleInv
<1>1. HeldInv' /\ PipeInv'
  BY <1>0 DEF HeldInv, PipeInv
<1>2. WholeInv'
  BY <1>0 DEF WholeInv, Console, Gathered
<1>. QED BY <1>1, <1>2 DEF ConsoleInv

LEMMA ReadsConsole == ASSUME EvalInv, ConsoleInv, RuntimeReads PROVE ConsoleInv'
<1>. DEFINE r == Head(stdin)
<1>0. /\ EvalShapes /\ RequestsInv /\ QuietInv /\ stdin # <<>> /\ stdin \in Seq(EvalRequest)
      /\ UNCHANGED <<known, pendingOut, evalCall, life, printed, delivered>>
      /\ contexts \in [EvalSessions -> Nat] /\ \A s \in EvalSessions : life[s] # 0
  BY DEF EvalInv, EvalShapes, ConsoleInv, RuntimeReads
<1>1. r \in EvalRequest /\ 1 \in DOMAIN stdin /\ r = stdin[1] /\ Len(stdin) \in DOMAIN stdin
  <2>1. 1 \in DOMAIN stdin /\ r = stdin[1] /\ stdin[1] \in EvalRequest
    BY <1>0, TailElements
  <2>. QED BY <1>0, <2>1, LenProperties
<1>2. r.session \in EvalSessions
  BY <1>1 DEF EvalRequest
<1>3. CASE /\ r.op = "destroy" /\ contexts' = [contexts EXCEPT ![r.session] = 0]
           /\ stdout' = Append(stdout, [type |-> "freed", session |-> r.session])
  <2>1. [type |-> "freed", session |-> r.session] \in EvalFrame
    BY <1>2 DEF EvalFrame
  <2>2. \A s \in EvalSessions : contexts'[s] \in {0, contexts[s]}
    BY <1>0, <1>2, <1>3
  <2>. QED BY <1>0, <1>3, <2>1, <2>2, FrameWritten
<1>4. CASE /\ r.op = "exec" /\ UNCHANGED stdout
           /\ contexts' = [contexts EXCEPT ![r.session] = IF contexts[r.session] = 0 THEN life[r.session]
                                                          ELSE contexts[r.session]]
  <2>1. r.session = evalCall.session /\ evalCall.stage = "reading"
    <3>1. stdin[1].op = "exec" <=> evalCall.stage = "reading" /\ 1 = Len(stdin)
      BY <1>0, <1>1 DEF RequestsInv
    <3>2. evalCall.stage = "reading" /\ 1 = Len(stdin)
      BY <1>1, <1>4, <3>1
    <3>3. stdin # <<>> /\ evalCall.stage = "reading" => stdin[Len(stdin)].session = evalCall.session
      BY <1>0 DEF RequestsInv
    <3>. QED BY <1>0, <1>1, <3>2, <3>3
  <2>2. \A s \in EvalSessions : s # evalCall.session => contexts'[s] = contexts[s]
    BY <1>0, <1>4, <2>1
  <2>3. QuietInv'
    BY <1>0, <2>1, <2>2 DEF QuietInv
  <2>. QED BY <1>0, <1>4, <2>3, NothingWritten
<1>. QED BY <1>3, <1>4 DEF RuntimeReads

\* The line a session prints is the next one of its life; a reaped session's old
\* code prints none.
LEMMA PrintsConsole == ASSUME EvalInv, ConsoleInv, NEW s \in EvalSessions, Prints(s) PROVE ConsoleInv'
<1>0. /\ EvalShapes /\ HeldInv /\ PipeInv /\ QuietInv /\ WholeInv
      /\ UNCHANGED <<contexts, known, pendingOut, evalCall, life, delivered>>
      /\ stdout \in Seq(EvalFrame) /\ life[s] \in Nat \ {0} /\ printed[s] \in Nat
      /\ printed \in [EvalSessions -> Nat] /\ \A r \in EvalSessions : life[r] \in Nat \ {0}
  BY DEF EvalInv, EvalShapes, ConsoleInv, Prints
<1>1. HeldInv'
  BY <1>0 DEF HeldInv
<1>2. ASSUME NEW f \in EvalFrame, stdout' = Append(stdout, f), f.session = s, f.in <= life[s] PROVE PipeInv'
  <2>1. /\ DOMAIN stdout' = DOMAIN stdout \cup {Len(stdout) + 1}
        /\ stdout'[Len(stdout) + 1] = f /\ \A j \in DOMAIN stdout : stdout'[j] = stdout[j]
    BY <1>0, <1>2, AppendElements
  <2>. QED BY <1>0, <1>2, <2>1 DEF PipeInv
<1>3. CASE /\ contexts[s] = life[s] /\ printed' = [printed EXCEPT ![s] = printed[s] + 1]
           /\ stdout' = Append(stdout, Line(s, life[s], printed[s] + 1))
  <2>. DEFINE f == Line(s, life[s], printed[s] + 1)
  <2>1. f \in EvalFrame /\ f.session = s /\ f.in = life[s]
    BY <1>0 DEF Line, EvalFrame
  <2>2. PipeInv'
    BY <1>0, <1>2, <1>3, <2>1
  <2>3. QuietInv'
    BY <1>0, <1>3 DEF QuietInv
  <2>4. ASSUME NEW r \in EvalSessions PROVE Told(Console(r)', r, life[r], printed'[r])
    <3>1. /\ Console(r)' = Append(Console(r), f) /\ Console(r) \in Seq(EvalBuffer) /\ printed[r] \in Nat
          /\ Told(Console(r), r, life[r], printed[r])
      BY <1>0, <1>3, <2>1, ConsoleGrows DEF WholeInv
    <3>2. CASE r = s
      BY <1>0, <1>3, <2>1, <3>1, <3>2, FrameAdded
    <3>3. CASE r # s
      <4>1. ~IsLineOf(f, r, life[r]) /\ printed'[r] = printed[r]
        BY <1>0, <1>3, <2>1, <3>3 DEF IsLineOf
      <4>. QED BY <2>1, <3>1, <4>1, FrameAdded
    <3>. QED BY <3>2, <3>3
  <2>5. WholeInv'
    BY <1>0, <2>4 DEF WholeInv
  <2>. QED BY <1>1, <2>2, <2>3, <2>5 DEF ConsoleInv
<1>4. CASE stdout' = Append(stdout, Line(s, 0, 0)) /\ UNCHANGED printed
  <2>. DEFINE f == Line(s, 0, 0)
  <2>1. f \in EvalFrame /\ f.session = s /\ f.in = 0
    BY <1>0 DEF Line, EvalFrame
  <2>2. PipeInv'
    BY <1>0, <1>2, <1>4, <2>1
  <2>3. QuietInv'
    BY <1>0, <1>4 DEF QuietInv
  <2>4. ASSUME NEW r \in EvalSessions PROVE Told(Console(r)', r, life[r], printed'[r])
    <3>1. /\ Console(r)' = Append(Console(r), f) /\ Console(r) \in Seq(EvalBuffer) /\ printed[r] \in Nat
          /\ Told(Console(r), r, life[r], printed[r]) /\ ~IsLineOf(f, r, life[r])
      BY <1>0, <1>4, <2>1, ConsoleGrows DEF WholeInv, IsLineOf
    <3>. QED BY <1>4, <2>1, <3>1, FrameAdded
  <2>5. WholeInv'
    BY <1>0, <2>4 DEF WholeInv
  <2>. QED BY <1>1, <2>2, <2>3, <2>5 DEF ConsoleInv
<1>. QED BY <1>3, <1>4 DEF Prints

LEMMA FinishesConsole == ASSUME EvalInv, ConsoleInv, Finishes PROVE ConsoleInv'
<1>1. /\ evalCall.session \in EvalSessions
      /\ UNCHANGED <<contexts, known, pendingOut, evalCall, life, printed, delivered>>
      /\ stdout' = Append(stdout, [type |-> "end", session |-> evalCall.session])
  BY DEF EvalInv, EvalCallInv, Finishes
<1>2. [type |-> "end", session |-> evalCall.session] \in EvalFrame
  BY <1>1 DEF EvalFrame
<1>. QED BY <1>1, <1>2, FrameWritten

LEMMA DiesConsole == ASSUME EvalInv, ConsoleInv, RuntimeDies PROVE ConsoleInv'
<1>1. /\ \A s \in EvalSessions : contexts'[s] = 0 /\ life[s] # 0
      /\ UNCHANGED <<stdout, known, pendingOut, evalCall, life, printed, delivered>>
  BY DEF EvalInv, EvalShapes, RuntimeDies
<1>2. QuietInv'
  BY <1>1 DEF ConsoleInv, QuietInv
<1>. QED BY <1>1, <1>2, NothingWritten

LEMMA IdlesConsole == ASSUME EvalInv, ConsoleInv, NEW s \in EvalSessions, IdlesOut(s) PROVE ConsoleInv'
<1>1. /\ \A r \in EvalSessions : known'[r] = "no" <=> known[r] = "no"
      /\ UNCHANGED <<contexts, stdout, pendingOut, evalCall, life, printed, delivered>>
  BY DEF EvalInv, EvalShapes, IdlesOut
<1>2. QuietInv'
  BY <1>1 DEF ConsoleInv, QuietInv
<1>. QED BY <1>1, <1>2, NothingWritten

LEMMA HeadThenTail ==
  ASSUME NEW q \in Seq(EvalBuffer), q # <<>>
  PROVE  q = <<Head(q)>> \o Tail(q)
<1>. DEFINE t == <<Head(q)>> \o Tail(q)
<1>1. /\ Len(q) \in Nat \ {0} /\ Head(q) = q[1] /\ <<Head(q)>> \in Seq(EvalBuffer) /\ Len(<<Head(q)>>) = 1
      /\ <<Head(q)>>[1] = Head(q)
  BY EmptySeq, HeadTailProperties
<1>2. /\ Tail(q) \in Seq(EvalBuffer) /\ Len(Tail(q)) = Len(q) - 1
      /\ \A i \in 1 .. Len(Tail(q)) : Tail(q)[i] = q[i + 1]
  BY HeadTailProperties
<1>3. /\ t \in Seq(EvalBuffer) /\ Len(t) = Len(q)
      /\ \A i \in 1 .. Len(q) : t[i] = IF i <= 1 THEN <<Head(q)>>[i] ELSE Tail(q)[i - 1]
  BY <1>1, <1>2, ConcatProperties
<1>4. ASSUME NEW i \in 1 .. Len(q) PROVE q[i] = t[i]
  <2>1. CASE i = 1
    BY <1>1, <1>3, <2>1
  <2>2. CASE i # 1
    <3>1. ~(i <= 1) /\ i - 1 \in 1 .. Len(Tail(q)) /\ (i - 1) + 1 = i
      BY <1>1, <1>2, <2>2
    <3>. QED BY <1>2, <1>3, <3>1
  <2>. QED BY <2>1, <2>2
<1>. HIDE DEF t
<1>5. q = t
  BY <1>3, <1>4, SeqEqual
<1>. QED BY <1>5 DEF t

\* One frame leaves the pipe: the engine takes it for the session it is of, or a mark
\* for it, or has such a mark last, or what leaves is no line of the session.
LEMMA FrameTaken ==
  ASSUME EvalShapes, HeldInv, stdout # <<>>, stdout' = Tail(stdout), NEW s \in EvalSessions, UNCHANGED <<life, printed>>,
         Told(Console(s), s, life[s], printed[s]),
         \/ Received(s)' = Received(s) \o <<Head(stdout)>>
         \/ Received(s)' = Received(s) \o <<Cut>>
         \/ Received(s)' = Received(s) /\ Received(s) # <<>> /\ Received(s)[Len(Received(s))] = Cut
         \/ Received(s)' = Received(s) /\ ~IsLineOf(Head(stdout), s, life[s])
  PROVE  Told(Console(s)', s, life'[s], printed'[s])
<1>1. /\ Received(s) \in Seq(EvalBuffer) /\ stdout \in Seq(EvalBuffer) /\ Console(s) = Received(s) \o stdout
      /\ stdout \in Seq(EvalFrame)
  BY ConsoleParts
<1>2. PICK f \in EvalFrame : f = Head(stdout)
  BY <1>1, HeadTailProperties
<1>3. PICK rest \in Seq(EvalBuffer) : rest = Tail(stdout)
  BY <1>1, HeadTailProperties
<1>4. PICK X \in Seq(EvalBuffer) : X = Received(s)
  BY <1>1
<1>5. stdout = <<f>> \o rest
  BY <1>1, <1>2, <1>3, HeadThenTail
<1>6. Told(X \o <<f>> \o rest, s, life[s], printed[s])
  <2>1. f \in EvalBuffer /\ <<f>> \in Seq(EvalBuffer)
    BY FrameIsNoCut
  <2>2. (X \o <<f>>) \o rest = X \o (<<f>> \o rest)
    BY <2>1, ConcatAssociative
  <2>3. Console(s) = X \o <<f>> \o rest
    BY <1>1, <1>4, <1>5, <2>2
  <2>. QED BY <2>3
<1>7. Console(s)' = Received(s)' \o rest /\ life'[s] = life[s] /\ printed'[s] = printed[s]
  BY <1>3 DEF Console, Received
<1>8. CASE Received(s)' = X \o <<f>>
  BY <1>6, <1>7, <1>8
<1>9. CASE Received(s)' = X \o <<Cut>>
  <2>1. Told(X \o <<Cut>> \o rest, s, life[s], printed[s])
    BY <1>6, FrameCut
  <2>. QED BY <1>7, <1>9, <2>1
<1>10. CASE Received(s)' = X /\ X # <<>> /\ X[Len(X)] = Cut
  <2>1. Told(X \o rest, s, life[s], printed[s])
    BY <1>6, <1>10, BehindCutGone
  <2>. QED BY <1>7, <1>10, <2>1
<1>11. CASE Received(s)' = X /\ ~IsLineOf(f, s, life[s])
  <2>1. Told(X \o rest, s, life[s], printed[s])
    BY <1>6, <1>11, ForeignGone
  <2>. QED BY <1>7, <1>11, <2>1
<1>. QED BY <1>2, <1>4, <1>8, <1>9, <1>10, <1>11

LEMMA ConcatElement ==
  ASSUME NEW S, NEW a \in Seq(S), NEW b \in Seq(S), NEW t, t = a \o b, NEW i \in DOMAIN t
  PROVE  (i \in DOMAIN a /\ t[i] = a[i]) \/ \E j \in DOMAIN b : t[i] = b[j]
<1>1. /\ Len(a) \in Nat /\ Len(b) \in Nat /\ DOMAIN a = 1 .. Len(a) /\ DOMAIN b = 1 .. Len(b)
      /\ t \in Seq(S) /\ Len(t) = Len(a) + Len(b)
      /\ \A j \in 1 .. Len(a) + Len(b) : t[j] = IF j <= Len(a) THEN a[j] ELSE b[j - Len(a)]
  BY LenProperties, ConcatProperties
<1>2. i \in 1 .. Len(a) + Len(b)
  BY <1>1, LenProperties
<1>3. i \in 1 .. Len(a) \/ (~(i <= Len(a)) /\ i - Len(a) \in 1 .. Len(b))
  BY <1>1, <1>2
<1>. QED BY <1>1, <1>2, <1>3

LEMMA ReadConsole == ASSUME EvalInv, ConsoleInv, EvalRead PROVE ConsoleInv'
<1>. DEFINE f == Head(stdout)
<1>s. PICK s \in EvalSessions : s = evalCall.session
  BY DEF EvalInv, EvalCallInv, EvalRead
<1>0. /\ EvalShapes /\ EvalShapes' /\ HeldInv /\ PipeInv /\ QuietInv /\ WholeInv
      /\ evalCall.stage = "reading" /\ s = evalCall.session /\ stdout # <<>> /\ stdout' = Tail(stdout)
      /\ UNCHANGED <<contexts, life, printed>> /\ stdout \in Seq(EvalFrame)
      /\ evalCall \in EvalCalls /\ evalCall.out \in Seq(EvalBuffer)
      /\ pendingOut \in [EvalSessions -> Seq(EvalBuffer)] /\ delivered \in [EvalSessions -> Seq(EvalBuffer)]
  <2>1. EvalShapes /\ EvalShapes' /\ HeldInv /\ PipeInv /\ QuietInv /\ WholeInv
    BY EvalReadPreserves DEF EvalInv, ConsoleInv
  <2>2. /\ evalCall.stage = "reading" /\ stdout # <<>> /\ stdout' = Tail(stdout)
        /\ UNCHANGED <<contexts, life, printed>>
    BY DEF EvalRead, EvalInv
  <2>3. /\ stdout \in Seq(EvalFrame) /\ evalCall \in EvalCalls
        /\ pendingOut \in [EvalSessions -> Seq(EvalBuffer)] /\ delivered \in [EvalSessions -> Seq(EvalBuffer)]
    BY <2>1 DEF EvalShapes, HeldInv
  <2>4. evalCall.out \in Seq(EvalBuffer)
    BY <2>3 DEF EvalCalls
  <2>. QED BY <1>s, <2>1, <2>2, <2>3, <2>4
<1>1. /\ f \in EvalFrame /\ Gathered(s) = evalCall.out /\ pendingOut[s] = <<>>
      /\ f.type = "line" => f.session \in EvalSessions
  BY <1>0, HeadTailProperties DEF Gathered, HeldInv, EvalFrame
<1>f. f \in EvalBuffer /\ f # Cut /\ <<f>> \in Seq(EvalBuffer)
  BY <1>1, FrameIsNoCut
<1>2. PipeInv'
  <2>1. \A j \in DOMAIN stdout' : j + 1 \in DOMAIN stdout /\ stdout'[j] = stdout[j + 1]
    BY <1>0, TailElements
  <2>. QED BY <1>0, <2>1 DEF PipeInv
<1>3. \A r \in EvalSessions : /\ Received(r) \in Seq(EvalBuffer) /\ Console(r) \in Seq(EvalBuffer)
                              /\ Told(Console(r), r, life[r], printed[r])
  BY <1>0, ConsoleParts DEF WholeInv
<1>4. ASSUME HeldInv', QuietInv',
             \A r \in EvalSessions :
               \/ Received(r)' = Received(r) \o <<f>>
               \/ Received(r)' = Received(r) \o <<Cut>>
               \/ Received(r)' = Received(r) /\ Received(r) # <<>> /\ Received(r)[Len(Received(r))] = Cut
               \/ Received(r)' = Received(r) /\ ~IsLineOf(f, r, life[r]),
             \A r \in EvalSessions : \A i \in DOMAIN delivered'[r] : OfSession(delivered'[r][i], r)
      PROVE  ConsoleInv'
  <2>1. ASSUME NEW r \in EvalSessions PROVE Told(Console(r)', r, life'[r], printed'[r])
    BY <1>0, <1>3, <1>4, FrameTaken
  <2>2. WholeInv'
    BY <1>4, <2>1 DEF WholeInv
  <2>. QED BY <1>2, <1>4, <2>2 DEF ConsoleInv
<1>5. ASSUME UNCHANGED <<known, delivered>>, evalCall'.stage = "reading", evalCall'.session = s PROVE QuietInv'
  BY <1>0, <1>5 DEF QuietInv
<1>6. \A r \in EvalSessions : \A i \in DOMAIN delivered[r] : OfSession(delivered[r][i], r)
  BY <1>0 DEF WholeInv
<1>7. CASE f.type = "line" /\ f.session = s
  <2>1. PICK b \in Seq(EvalBuffer) : b = evalCall.out
    BY <1>0
  <2>2. PICK c : c = AppendCapped(b, f)
    OBVIOUS
  <2>3. /\ evalCall' = [evalCall EXCEPT !.out = c]
        /\ UNCHANGED <<pendingOut, known, delivered>>
    BY <1>0, <1>7, <2>1, <2>2 DEF EvalRead
  <2>4. /\ evalCall'.stage = "reading" /\ evalCall'.session = s /\ evalCall'.out = c
    <3>1. PICK d \in EvalCalls : d = evalCall
      BY <1>0
    <3>2. PICK e : e = [d EXCEPT !.out = c]
      OBVIOUS
    <3>3. e.stage = d.stage /\ e.session = d.session /\ e.out = c
      BY <3>2 DEF EvalCalls
    <3>. QED BY <1>0, <2>3, <3>1, <3>2, <3>3
  <2>5. PICK a \in Seq(EvalBuffer) : a = delivered[s]
    BY <1>0
  <2>6. /\ \/ a \o c = a \o b \o <<f>>
           \/ a \o c = a \o b \o <<Cut>>
           \/ a \o c = a \o b /\ a \o b # <<>> /\ (a \o b)[Len(a \o b)] = Cut
        /\ \A i \in DOMAIN c : c[i] = f \/ c[i] = Cut \/ (i \in DOMAIN b /\ c[i] = b[i])
    <3>1. PICK g \in EvalFrame : g = f
      BY <1>1
    <3>2. c = AppendCapped(b, g)
      BY <2>2, <3>1
    <3>3. Takes(a, b, c, g)
      BY <2>1, <2>5, <3>1, <3>2, Capped
    <3>. QED BY <3>1, <3>3 DEF Takes
  <2>7. \A i \in DOMAIN c : OfSession(c[i], s)
    <3>1. \A i \in DOMAIN b : OfSession(b[i], s)
      BY <1>0, <2>1 DEF HeldInv
    <3>. QED BY <1>7, <2>6, <3>1 DEF OfSession
  <2>8. HeldInv'
    BY <1>0, <2>3, <2>4, <2>7 DEF HeldInv
  <2>9. Received(s)' = a \o c /\ Received(s) = a \o b
    <3>1. Received(s)' = a \o c \o <<>> /\ Received(s) = a \o b \o <<>>
      BY <1>1, <2>1, <2>3, <2>4, <2>5 DEF Received, Gathered
    <3>2. c \in Seq(EvalBuffer)
      BY <1>1, <2>2, CappedType
    <3>3. a \o b \in Seq(EvalBuffer) /\ a \o c \in Seq(EvalBuffer)
      BY <3>2, ConcatProperties
    <3>. QED BY <3>1, <3>3, ConcatEmptySeq
  <2>10. \A r \in EvalSessions : r # s => Received(r)' = Received(r) /\ ~IsLineOf(f, r, life[r])
    BY <1>0, <1>7, <2>3, <2>4 DEF Received, Gathered, IsLineOf
  <2>11. \/ Received(s)' = Received(s) \o <<f>>
         \/ Received(s)' = Received(s) \o <<Cut>>
         \/ Received(s)' = Received(s) /\ Received(s) # <<>> /\ Received(s)[Len(Received(s))] = Cut
    BY <2>6, <2>9
  <2>. QED BY <1>4, <1>5, <1>6, <2>3, <2>4, <2>8, <2>10, <2>11
<1>8. CASE f.type = "line" /\ f.session # s /\ known[f.session] # "no"
  <2>0. PICK w \in EvalSessions : w = f.session
    BY <1>1, <1>8
  <2>1. PICK b \in Seq(EvalBuffer) : b = pendingOut[w]
    BY <1>0
  <2>2. PICK c \in Seq(EvalBuffer) : c = AppendCapped(b, f)
    BY <1>1, CappedType
  <2>3. pendingOut' = [pendingOut EXCEPT ![w] = c] /\ UNCHANGED <<evalCall, known, delivered>>
    BY <1>0, <1>8, <2>0, <2>1, <2>2 DEF EvalRead
  <2>4. pendingOut'[w] = c /\ \A r \in EvalSessions : r # w => pendingOut'[r] = pendingOut[r]
    BY <1>0, <2>3
  <2>5. PICK a \in Seq(EvalBuffer) : a = delivered[w] \o Gathered(w)
    <3>1. delivered[w] \in Seq(EvalBuffer) /\ Gathered(w) \in Seq(EvalBuffer)
      BY <1>0, ConsoleParts
    <3>. QED BY <3>1, ConcatProperties
  <2>6. /\ \/ a \o c = a \o b \o <<f>>
           \/ a \o c = a \o b \o <<Cut>>
           \/ a \o c = a \o b /\ a \o b # <<>> /\ (a \o b)[Len(a \o b)] = Cut
        /\ \A i \in DOMAIN c : c[i] = f \/ c[i] = Cut \/ (i \in DOMAIN b /\ c[i] = b[i])
    <3>1. PICK g \in EvalFrame : g = f
      BY <1>1
    <3>2. c = AppendCapped(b, g)
      BY <2>2, <3>1
    <3>3. Takes(a, b, c, g)
      BY <2>1, <2>5, <3>1, <3>2, Capped
    <3>. QED BY <3>1, <3>3 DEF Takes
  <2>7. \A r \in EvalSessions : \A i \in DOMAIN pendingOut'[r] : OfSession(pendingOut'[r][i], r)
    <3>1. \A r \in EvalSessions : \A i \in DOMAIN pendingOut[r] : OfSession(pendingOut[r][i], r)
      BY <1>0 DEF HeldInv
    <3>2. \A i \in DOMAIN c : OfSession(c[i], w)
      <4>1. OfSession(f, w) /\ OfSession(Cut, w)
        BY <2>0 DEF OfSession
      <4>. QED BY <2>1, <2>6, <3>1, <4>1
    <3>. QED BY <2>4, <3>1, <3>2
  <2>8. HeldInv'
    <3>1. pendingOut'[s] = <<>> /\ evalCall.session = s
      BY <1>0, <1>1, <1>8, <2>0, <2>4
    <3>. QED BY <1>0, <2>3, <2>7, <3>1 DEF HeldInv
  <2>9. Received(w)' = a \o c /\ Received(w) = a \o b
    BY <2>1, <2>3, <2>4, <2>5 DEF Received, Gathered
  <2>10. \A r \in EvalSessions : r # w => Received(r)' = Received(r) /\ ~IsLineOf(f, r, life[r])
    BY <2>0, <2>3, <2>4 DEF Received, Gathered, IsLineOf
  <2>11. \/ Received(w)' = Received(w) \o <<f>>
         \/ Received(w)' = Received(w) \o <<Cut>>
         \/ Received(w)' = Received(w) /\ Received(w) # <<>> /\ Received(w)[Len(Received(w))] = Cut
    BY <2>6, <2>9
  <2>. QED BY <1>0, <1>4, <1>5, <1>6, <2>3, <2>8, <2>10, <2>11
<1>9. CASE /\ f.type = "line" /\ f.session # s /\ known[f.session] = "no"
  <2>1. UNCHANGED <<pendingOut, evalCall, known, delivered>>
    BY <1>0, <1>9 DEF EvalRead
  <2>2. HeldInv' /\ QuietInv'
    BY <1>0, <1>5, <2>1 DEF HeldInv
  <2>3. \A r \in EvalSessions : Received(r)' = Received(r)
    BY <2>1, ConsoleSame
  <2>4. ASSUME NEW r \in EvalSessions PROVE ~IsLineOf(f, r, life[r])
    <3>1. CASE r # f.session
      BY <3>1 DEF IsLineOf
    <3>2. CASE r = f.session
      <4>1. printed[r] = 0
        BY <1>0, <1>9, <3>2 DEF QuietInv
      <4>2. \A i \in DOMAIN Console(r) : ~IsLineOf(Console(r)[i], r, life[r])
        BY <1>3, <4>1, NothingPrinted
      <4>3. \E i \in DOMAIN Console(r) : Console(r)[i] = f
        <5>1. /\ Len(Received(r)) \in Nat /\ Len(stdout) \in Nat \ {0} /\ f = stdout[1]
          BY <1>0, <1>3, LenProperties, EmptySeq, HeadTailProperties
        <5>2. /\ Len(Received(r)) + 1 \in 1 .. Len(Received(r)) + Len(stdout)
              /\ ~(Len(Received(r)) + 1 <= Len(Received(r))) /\ (Len(Received(r)) + 1) - Len(Received(r)) = 1
          BY <5>1
        <5>3. Console(r) = Received(r) \o stdout
          BY <1>0, ConsoleParts
        <5>4. /\ Len(Console(r)) = Len(Received(r)) + Len(stdout) /\ DOMAIN Console(r) = 1 .. Len(Console(r))
              /\ Console(r)[Len(Received(r)) + 1] = stdout[1]
          BY <1>0, <1>3, <5>2, <5>3, ConcatProperties, LenProperties
        <5>. QED BY <5>1, <5>2, <5>4
      <4>. QED BY <4>2, <4>3
    <3>. QED BY <3>1, <3>2
  <2>. QED BY <1>4, <1>6, <2>1, <2>2, <2>3, <2>4
<1>10. CASE f.type = "freed"
  <2>1. UNCHANGED <<known, pendingOut, evalCall, delivered>>
    BY <1>10 DEF EvalRead
  <2>2. HeldInv' /\ QuietInv'
    BY <1>0, <1>5, <2>1 DEF HeldInv
  <2>3. \A r \in EvalSessions : Received(r)' = Received(r) /\ ~IsLineOf(f, r, life[r])
    BY <1>10, <2>1, ConsoleSame DEF IsLineOf
  <2>. QED BY <1>4, <1>6, <2>1, <2>2, <2>3
<1>11. CASE f.type = "end"
  <2>1. /\ evalCall' = NoEval /\ UNCHANGED pendingOut /\ known' = [known EXCEPT ![s] = "fresh"]
        /\ delivered' = [delivered EXCEPT ![s] = delivered[s] \o evalCall.out]
    BY <1>0, <1>11 DEF EvalRead
  <2>2. NoEval.stage = "idle" /\ NoEval.out = <<>> /\ DOMAIN <<>> = {}
    BY DEF NoEval
  <2>3. delivered[s] \o evalCall.out \in Seq(EvalBuffer) /\ delivered[s] \in Seq(EvalBuffer)
    BY <1>0, ConcatProperties
  <2>4. /\ delivered' \in [EvalSessions -> Seq(EvalBuffer)] /\ delivered'[s] = delivered[s] \o evalCall.out
        /\ \A r \in EvalSessions : r # s => delivered'[r] = delivered[r]
    BY <1>0, <2>1, <2>3
  <2>5. HeldInv'
    BY <1>0, <2>1, <2>2, <2>4 DEF HeldInv
  <2>6. QuietInv'
    <3>1. \A r \in EvalSessions : known'[r] = IF r = s THEN "fresh" ELSE known[r]
      BY <1>0, <2>1 DEF EvalShapes
    <3>. QED BY <1>0, <3>1 DEF QuietInv
  <2>7. \A r \in EvalSessions : \A i \in DOMAIN delivered'[r] : OfSession(delivered'[r][i], r)
    <3>1. ASSUME NEW i \in DOMAIN delivered'[s] PROVE OfSession(delivered'[s][i], s)
      <4>1. \/ i \in DOMAIN delivered[s] /\ delivered'[s][i] = delivered[s][i]
            \/ \E j \in DOMAIN evalCall.out : delivered'[s][i] = evalCall.out[j]
        <5>1. delivered[s] \in Seq(EvalBuffer) /\ evalCall.out \in Seq(EvalBuffer) /\ delivered'[s] = delivered[s] \o evalCall.out
          BY <1>0, <2>4
        <5>2. PICK a \in Seq(EvalBuffer) : a = delivered[s]
          BY <5>1
        <5>3. PICK b \in Seq(EvalBuffer) : b = evalCall.out
          BY <5>1
        <5>4. PICK t : t = delivered'[s]
          OBVIOUS
        <5>5. t = a \o b /\ i \in DOMAIN t
          BY <5>1, <5>2, <5>3, <5>4
        <5>6. (i \in DOMAIN a /\ t[i] = a[i]) \/ \E j \in DOMAIN b : t[i] = b[j]
          BY <5>5, ConcatElement
        <5>. QED BY <5>2, <5>3, <5>4, <5>6
      <4>2. /\ \A j \in DOMAIN evalCall.out : OfSession(evalCall.out[j], s)
            /\ \A j \in DOMAIN delivered[s] : OfSession(delivered[s][j], s)
        BY <1>0, <1>6 DEF HeldInv
      <4>. QED BY <4>1, <4>2
    <3>. QED BY <1>6, <2>4, <3>1
  <2>8. ASSUME NEW r \in EvalSessions PROVE Received(r)' = Received(r)
    <3>1. Gathered(r)' = <<>>
      BY <2>1, <2>2 DEF Gathered
    <3>2. Received(r)' = delivered'[r] \o <<>> \o pendingOut[r]
      BY <2>1, <3>1 DEF Received
    <3>3. delivered'[r] \in Seq(EvalBuffer)
      BY <2>4
    <3>4. Received(r)' = delivered'[r] \o pendingOut[r]
      BY <3>2, <3>3, ConcatEmptySeq
    <3>5. CASE r = s
      BY <1>1, <2>4, <3>4, <3>5 DEF Received
    <3>6. CASE r # s
      <4>1. Gathered(r) = <<>>
        BY <1>0, <3>6 DEF Gathered
      <4>2. Received(r) = delivered[r] \o <<>> \o pendingOut[r]
        BY <4>1 DEF Received
      <4>. QED BY <2>4, <3>2, <3>6, <4>2
    <3>. QED BY <3>5, <3>6
  <2>9. \A r \in EvalSessions : ~IsLineOf(f, r, life[r])
    BY <1>11 DEF IsLineOf
  <2>. QED BY <1>4, <2>5, <2>6, <2>7, <2>8, <2>9
<1>. QED BY <1>1, <1>7, <1>8, <1>9, <1>10, <1>11 DEF EvalFrame

\* Lives end for sessions of which no line is of the new life; a session whose life
\* goes on keeps what the engine has of it.
LEMMA LivesEndConsole ==
  ASSUME EvalInv, ConsoleInv, NEW S \in SUBSET EvalSessions, EndLives(S), UNCHANGED stdout,
         EvalShapes', HeldInv',
         \A r \in S : Received(r)' = <<>>,
         \A r \in EvalSessions \ S : Received(r)' = Received(r)
  PROVE  PipeInv' /\ WholeInv'
<1>0. /\ EvalShapes /\ HeldInv /\ PipeInv /\ WholeInv /\ stdout \in Seq(EvalBuffer)
      /\ \A r \in EvalSessions : life[r] \in Nat \ {0}
  BY FramesBuffered DEF EvalInv, EvalShapes, ConsoleInv
<1>1. /\ \A r \in EvalSessions : IF r \in S THEN life'[r] = life[r] + 1 /\ printed'[r] = 0
                                 ELSE life'[r] = life[r] /\ printed'[r] = printed[r]
  BY <1>0, LivesEnd
<1>2. \A r \in EvalSessions : life[r] <= life'[r]
  BY <1>0, <1>1
<1>3. \A i \in DOMAIN stdout : stdout[i].type = "line" => stdout[i].session \in EvalSessions /\ stdout[i].in \in Nat
  <2>0. stdout \in Seq(EvalFrame)
    BY <1>0 DEF EvalShapes
  <2>1. \A i \in DOMAIN stdout : stdout[i] \in EvalFrame
    BY <2>0, LenProperties, ElementOfSeq
  <2>. QED BY <2>1 DEF EvalFrame
<1>4. PipeInv'
  <2>. SUFFICES ASSUME NEW i \in DOMAIN stdout, stdout[i].type = "line"
                PROVE  stdout[i].in <= life'[stdout[i].session]
    BY DEF PipeInv
  <2>1. stdout[i].session \in EvalSessions /\ stdout[i].in \in Nat /\ stdout[i].in <= life[stdout[i].session]
    BY <1>0, <1>3 DEF PipeInv
  <2>2. PICK r \in EvalSessions : r = stdout[i].session
    BY <2>1
  <2>3. life'[r] \in Nat
    BY <1>0, <1>1
  <2>. QED BY <1>0, <1>2, <2>1, <2>2, <2>3
<1>5. ASSUME NEW r \in EvalSessions PROVE Told(Console(r)', r, life'[r], printed'[r])
  <2>1. Console(r)' = Received(r)' \o stdout
    BY DEF Console, Received
  <2>2. CASE r \in S
    <3>1. Console(r)' = stdout
      BY <1>0, <2>1, <2>2, ConcatEmptySeq
    <3>2. ASSUME NEW i \in DOMAIN stdout PROVE ~IsLineOf(stdout[i], r, life'[r])
      <4>1. stdout[i].type = "line" /\ stdout[i].session = r => stdout[i].in \in Nat /\ stdout[i].in <= life[r]
        BY <1>0, <1>3 DEF PipeInv
      <4>2. life[r] \in Nat /\ life'[r] = life[r] + 1
        BY <1>0, <1>1, <2>2
      <4>3. stdout[i].type = "line" /\ stdout[i].session = r => stdout[i].in # life'[r]
        BY <4>1, <4>2
      <4>. QED BY <4>3 DEF IsLineOf
    <3>3. Told(stdout, r, life'[r], 0)
      BY <3>2, NoLines
    <3>4. printed'[r] = 0
      BY <1>1, <2>2
    <3>. QED BY <3>1, <3>3, <3>4
  <2>3. CASE r \notin S
    <3>1. Console(r)' = Console(r)
      BY <2>1, <2>3 DEF Console, Received
    <3>2. Told(Console(r), r, life[r], printed[r]) /\ life'[r] = life[r] /\ printed'[r] = printed[r]
      BY <1>0, <1>1, <2>3 DEF WholeInv
    <3>. QED BY <3>1, <3>2
  <2>. QED BY <2>2, <2>3
<1>6. \A r \in EvalSessions : \A i \in DOMAIN delivered'[r] : OfSession(delivered'[r][i], r)
  <2>1. \A r \in EvalSessions : delivered'[r] = IF r \in S THEN <<>> ELSE delivered[r]
    BY DEF EndLives
  <2>2. DOMAIN <<>> = {}
    OBVIOUS
  <2>. QED BY <1>0, <2>1, <2>2 DEF WholeInv
<1>7. WholeInv'
  BY <1>5, <1>6 DEF WholeInv
<1>. QED BY <1>4, <1>7

LEMMA ExecConsole == ASSUME EvalInv, ConsoleInv, NEW s \in EvalSessions, EvalExec(s) PROVE ConsoleInv'
<1>0. /\ EvalShapes /\ EvalShapes' /\ HeldInv /\ QuietInv /\ WholeInv /\ LivesInv
      /\ evalCall = NoEval /\ EndLives(Expired) /\ UNCHANGED <<contexts, stdout>> /\ Expired \in SUBSET EvalSessions
      /\ known' = [r \in EvalSessions |-> IF r \in Expired THEN "no" ELSE known[r]]
      /\ pendingOut \in [EvalSessions -> Seq(EvalBuffer)] /\ delivered \in [EvalSessions -> Seq(EvalBuffer)]
      /\ \A r \in EvalSessions : life[r] \in Nat \ {0} /\ contexts[r] \in Nat /\ contexts[r] <= life[r]
  BY EvalExecPreserves DEF EvalInv, EvalShapes, LivesInv, LifeInv, HeldInv, ConsoleInv, EvalExec, Expired
<1>1. NoEval.stage = "idle" /\ NoEval.out = <<>> /\ DOMAIN <<>> = {} /\ <<>> \in Seq(EvalBuffer)
  BY DEF NoEval
<1>2. /\ \A r \in EvalSessions : IF r \in Expired THEN life'[r] = life[r] + 1 /\ printed'[r] = 0
                                 ELSE life'[r] = life[r] /\ printed'[r] = printed[r]
  BY <1>0, LivesEnd
<1>3. /\ delivered' \in [EvalSessions -> Seq(EvalBuffer)]
      /\ \A r \in EvalSessions : delivered'[r] = IF r \in Expired THEN <<>> ELSE delivered[r]
  BY <1>0, <1>1 DEF EndLives
<1>4. \A r \in EvalSessions : Kept[r] = IF r \in Expired THEN <<>> ELSE pendingOut[r]
  BY DEF Kept
<1>5. \A r \in EvalSessions : \A i \in DOMAIN Kept[r] : OfSession(Kept[r][i], r)
  BY <1>0, <1>1, <1>4 DEF HeldInv
<1>6. \A r \in EvalSessions : known'[r] = "no" => r \in Expired \/ known[r] = "no"
  BY <1>0
<1>7. ASSUME NEW r \in EvalSessions, known'[r] = "no" PROVE printed'[r] = 0 /\ contexts'[r] # life'[r]
  <2>1. CASE r \in Expired
    <3>1. life[r] \in Nat /\ contexts[r] \in Nat /\ contexts[r] <= life[r] /\ life'[r] = life[r] + 1 /\ contexts'[r] = contexts[r]
      BY <1>0, <1>2, <2>1
    <3>. QED BY <1>2, <2>1, <3>1
  <2>2. CASE r \notin Expired
    <3>1. known[r] = "no"
      BY <1>6, <1>7, <2>2
    <3>2. printed[r] = 0 /\ contexts[r] # life[r]
      BY <1>0, <1>1, <3>1 DEF QuietInv
    <3>. QED BY <1>0, <1>2, <2>2, <3>2
  <2>. QED BY <2>1, <2>2
<1>8. QuietInv'
  BY <1>7 DEF QuietInv
<1>9. \A r \in EvalSessions : Gathered(r) = <<>>
  BY <1>0, <1>1 DEF Gathered
<1>10. <<>> \o <<>> \o <<>> = <<>>
  BY <1>1, ConcatEmptySeq
<1>11. pendingOut' = Kept /\ evalCall'.stage = "writing" /\ evalCall'.out = <<>>
  BY DEF EvalExec, NoEval
<1>12. HeldInv'
  BY <1>0, <1>1, <1>3, <1>5, <1>11 DEF HeldInv
<1>13. ASSUME NEW r \in EvalSessions PROVE Received(r)' = IF r \in Expired THEN <<>> ELSE Received(r)
  <2>1. Gathered(r)' = <<>>
    BY <1>11 DEF Gathered
  <2>2. Received(r)' = delivered'[r] \o <<>> \o Kept[r]
    BY <1>11, <2>1 DEF Received
  <2>3. Received(r) = delivered[r] \o <<>> \o pendingOut[r]
    BY <1>9 DEF Received
  <2>. QED BY <1>3, <1>4, <1>10, <2>2, <2>3
<1>14. PipeInv' /\ WholeInv'
  BY <1>0, <1>12, <1>13, LivesEndConsole
<1>. QED BY <1>8, <1>12, <1>14 DEF ConsoleInv

\* The call that has written its last request takes over what was held for it.
LEMMA WriteConsole == ASSUME EvalInv, ConsoleInv, EvalWrite PROVE ConsoleInv'
<1>s. PICK s \in EvalSessions : s = evalCall.session
  BY DEF EvalInv, EvalCallInv, EvalWrite
<1>0. /\ EvalShapes /\ EvalShapes' /\ HeldInv /\ PipeInv /\ QuietInv /\ WholeInv
      /\ evalCall.stage = "writing" /\ evalCall.out = <<>> /\ evalCall.session = s
      /\ UNCHANGED <<contexts, stdout, known, life, printed, delivered>>
  <2>1. EvalShapes /\ EvalShapes' /\ EvalCallInv /\ HeldInv /\ PipeInv /\ QuietInv /\ WholeInv
    BY EvalWritePreserves DEF EvalInv, ConsoleInv
  <2>2. evalCall.stage = "writing" /\ UNCHANGED <<contexts, stdout, known, life, printed, delivered>>
    BY DEF EvalWrite
  <2>. QED BY <1>s, <2>1, <2>2 DEF EvalCallInv
<1>1. PipeInv'
  BY <1>0 DEF PipeInv
<1>2. QuietInv'
  BY <1>0 DEF QuietInv
<1>3. ASSUME HeldInv', \A r \in EvalSessions : Received(r)' = Received(r) PROVE ConsoleInv'
  <2>1. \A r \in EvalSessions : Console(r)' = Console(r)
    <3>1. \A r \in EvalSessions : Console(r)' = Received(r)' \o stdout /\ Console(r) = Received(r) \o stdout
      BY <1>0 DEF Console, Received
    <3>. QED BY <1>3, <3>1
  <2>2. WholeInv'
    BY <1>0, <2>1 DEF WholeInv
  <2>. QED BY <1>1, <1>2, <1>3, <2>2 DEF ConsoleInv
<1>4. CASE evalCall'.out = <<>> /\ evalCall'.stage # "reading" /\ UNCHANGED pendingOut
  <2>1. HeldInv'
    BY <1>0, <1>4 DEF HeldInv
  <2>2. \A r \in EvalSessions : Received(r)' = Received(r)
    BY <1>0, <1>4 DEF Received, Gathered
  <2>. QED BY <1>3, <2>1, <2>2
<1>5. CASE /\ evalCall'.out = pendingOut[s] /\ evalCall'.session = s
           /\ pendingOut' = [pendingOut EXCEPT ![s] = <<>>]
  <2>1. /\ pendingOut \in [EvalSessions -> Seq(EvalBuffer)] /\ delivered \in [EvalSessions -> Seq(EvalBuffer)]
    BY <1>0 DEF EvalShapes, HeldInv
  <2>2. \A r \in EvalSessions : pendingOut'[r] = IF r = s THEN <<>> ELSE pendingOut[r]
    BY <1>5, <2>1
  <2>3. HeldInv'
    <3>1. DOMAIN <<>> = {}
      OBVIOUS
    <3>. QED BY <1>0, <1>5, <2>2, <3>1 DEF HeldInv
  <2>4. \A r \in EvalSessions : r # s => Received(r)' = Received(r)
    BY <1>0, <1>5, <2>2 DEF Received, Gathered
  <2>5. Received(s)' = Received(s)
    <3>1. PICK a \in Seq(EvalBuffer) : a = delivered[s]
      BY <2>1
    <3>2. PICK b \in Seq(EvalBuffer) : b = pendingOut[s]
      BY <2>1
    <3>3. Received(s) = a \o <<>> \o b /\ Received(s)' = a \o b \o <<>>
      BY <1>0, <1>5, <2>2, <3>1, <3>2 DEF Received, Gathered
    <3>4. a \o <<>> = a /\ a \o b \in Seq(EvalBuffer)
      BY ConcatEmptySeq, ConcatProperties
    <3>5. (a \o b) \o <<>> = a \o b
      BY <3>4, ConcatEmptySeq
    <3>. QED BY <3>3, <3>4, <3>5
  <2>. QED BY <1>3, <2>3, <2>4, <2>5
<1>6. \/ evalCall'.out = <<>> /\ evalCall'.stage # "reading" /\ UNCHANGED pendingOut
      \/ /\ evalCall'.out = pendingOut[s] /\ evalCall'.session = s
         /\ pendingOut' = [pendingOut EXCEPT ![s] = <<>>]
  <2>1. PICK d \in EvalCalls : d = evalCall
    BY <1>0 DEF EvalShapes
  <2>2. PICK todo : todo = Tail(d.requests)
    OBVIOUS
  <2>3. PICK e : e = [d EXCEPT !.requests = todo]
    OBVIOUS
  <2>4. e.stage = d.stage /\ e.session = d.session /\ e.out = d.out /\ e = [e EXCEPT !.out = e.out]
    BY <2>3 DEF EvalCalls
  <2>5. PICK g : g = [e EXCEPT !.stage = "reading", !.out = pendingOut[s]]
    OBVIOUS
  <2>6. g.session = d.session /\ g.out = pendingOut[s]
    BY <2>3, <2>5 DEF EvalCalls
  <2>7. NoEval.out = <<>> /\ NoEval.stage = "idle"
    BY DEF NoEval
  <2>8. \/ evalCall' = e /\ UNCHANGED pendingOut
        \/ evalCall' = NoEval /\ UNCHANGED pendingOut
        \/ evalCall' = g /\ pendingOut' = [pendingOut EXCEPT ![s] = <<>>]
    BY <1>s, <2>1, <2>2, <2>3, <2>5 DEF EvalWrite
  <2>. QED BY <1>0, <2>1, <2>4, <2>6, <2>7, <2>8
<1>. QED BY <1>4, <1>5, <1>6

\* A killed runtime takes along what it printed, and with it the lives of its
\* sessions; of the others nothing was printed.
LEMMA KillConsole == ASSUME EvalInv, ConsoleInv, EvalKill PROVE ConsoleInv'
<1>. DEFINE S == {s \in EvalSessions : known[s] # "no" \/ contexts[s] # 0 \/ printed[s] > 0}
<1>0. /\ EvalShapes /\ HeldInv /\ WholeInv /\ S \in SUBSET EvalSessions
      /\ stdout' = <<>> /\ evalCall' = NoEval /\ EndLives(S) /\ pendingOut' = Nothing
      /\ contexts' = [s \in EvalSessions |-> 0] /\ delivered \in [EvalSessions -> Seq(EvalBuffer)]
      /\ stdout \in Seq(EvalBuffer) /\ pendingOut \in [EvalSessions -> Seq(EvalBuffer)]
      /\ \A r \in EvalSessions : life[r] \in Nat \ {0} /\ printed[r] \in Nat
  BY FramesBuffered DEF EvalInv, EvalShapes, HeldInv, ConsoleInv, EvalKill, Emptied, Forgotten
<1>1. NoEval.stage = "idle" /\ NoEval.out = <<>> /\ DOMAIN <<>> = {} /\ <<>> \in Seq(EvalBuffer)
  BY DEF NoEval
<1>2. /\ life' \in [EvalSessions -> Nat \ {0}]
      /\ \A r \in EvalSessions : IF r \in S THEN life'[r] = life[r] + 1 /\ printed'[r] = 0
                                 ELSE life'[r] = life[r] /\ printed'[r] = printed[r]
  BY <1>0, LivesEnd
<1>3. /\ delivered' \in [EvalSessions -> Seq(EvalBuffer)]
      /\ \A r \in EvalSessions : delivered'[r] = IF r \in S THEN <<>> ELSE delivered[r]
  BY <1>0, <1>1 DEF EndLives
<1>4. ASSUME NEW r \in EvalSessions PROVE printed'[r] = 0
  <2>1. CASE r \in S
    BY <1>2, <2>1
  <2>2. CASE r \notin S
    <3>1. printed[r] = 0
      BY <1>0, <2>2
    <3>. QED BY <1>2, <2>2, <3>1
  <2>. QED BY <2>1, <2>2
<1>5. HeldInv'
  BY <1>0, <1>1, <1>3 DEF HeldInv, Nothing
<1>6. PipeInv'
  BY <1>0, <1>1 DEF PipeInv
<1>7. QuietInv'
  BY <1>0, <1>2, <1>4 DEF QuietInv
<1>8. ASSUME NEW r \in EvalSessions PROVE Told(Console(r)', r, life'[r], printed'[r])
  <2>1. Console(r)' = delivered'[r]
    <3>1. Gathered(r)' = <<>>
      BY <1>0, <1>1 DEF Gathered
    <3>2. Console(r)' = delivered'[r] \o <<>> \o <<>> \o <<>>
      BY <1>0, <3>1 DEF Console, Nothing
    <3>3. PICK a \in Seq(EvalBuffer) : a = delivered'[r]
      BY <1>3
    <3>4. a \o <<>> \o <<>> \o <<>> = a
      BY ConcatEmptySeq
    <3>. QED BY <3>2, <3>3, <3>4
  <2>2. ASSUME NEW i \in DOMAIN delivered'[r] PROVE ~IsLineOf(delivered'[r][i], r, life'[r])
    <3>1. r \notin S /\ delivered'[r] = delivered[r] /\ life'[r] = life[r] /\ printed[r] = 0
      BY <1>0, <1>1, <1>2, <1>3, <2>2
    <3>2. PICK a \in Seq(EvalBuffer) : a = delivered[r]
      BY <1>0
    <3>3. PICK b \in Seq(EvalBuffer) : b = Gathered(r)
      BY <1>0, ConsoleParts
    <3>4. PICK c \in Seq(EvalBuffer) : c = pendingOut[r]
      BY <1>0
    <3>5. PICK d \in Seq(EvalBuffer) : d = stdout
      BY <1>0
    <3>6. Console(r) = a \o b \o c \o d
      BY <3>2, <3>3, <3>4, <3>5 DEF Console
    <3>7. i \in DOMAIN (a \o b \o c \o d) /\ (a \o b \o c \o d)[i] = a[i]
      <4>1. ASSUME NEW x \in Seq(EvalBuffer), NEW y \in Seq(EvalBuffer), i \in DOMAIN x
            PROVE  x \o y \in Seq(EvalBuffer) /\ i \in DOMAIN (x \o y) /\ (x \o y)[i] = x[i]
        <5>1. /\ x \o y \in Seq(EvalBuffer) /\ Len(x \o y) = Len(x) + Len(y) /\ Len(x) \in Nat /\ Len(y) \in Nat
              /\ DOMAIN (x \o y) = 1 .. Len(x \o y) /\ DOMAIN x = 1 .. Len(x)
              /\ \A j \in 1 .. Len(x) + Len(y) : (x \o y)[j] = IF j <= Len(x) THEN x[j] ELSE y[j - Len(x)]
          BY LenProperties, ConcatProperties
        <5>2. i \in 1 .. Len(x) + Len(y) /\ i <= Len(x)
          BY <4>1, <5>1
        <5>. QED BY <5>1, <5>2
      <4>2. i \in DOMAIN a
        BY <2>2, <3>1, <3>2
      <4>3. a \o b \in Seq(EvalBuffer) /\ i \in DOMAIN (a \o b) /\ (a \o b)[i] = a[i]
        BY <4>1, <4>2
      <4>4. a \o b \o c \in Seq(EvalBuffer) /\ i \in DOMAIN (a \o b \o c) /\ (a \o b \o c)[i] = a[i]
        BY <4>1, <4>3
      <4>. QED BY <4>1, <4>4
    <3>8. \A j \in DOMAIN Console(r) : ~IsLineOf(Console(r)[j], r, life[r])
      <4>1. Told(Console(r), r, life[r], 0)
        BY <1>0, <3>1 DEF WholeInv
      <4>. QED BY <4>1, NothingPrinted
    <3>. QED BY <3>1, <3>2, <3>6, <3>7, <3>8
  <2>3. Told(delivered'[r], r, life'[r], 0)
    BY <2>2, NoLines
  <2>. QED BY <1>4, <2>1, <2>3
<1>9. WholeInv'
  BY <1>0, <1>1, <1>3, <1>8 DEF WholeInv
<1>. QED BY <1>5, <1>6, <1>7, <1>9 DEF ConsoleInv

LEMMA ConsoleStep == ASSUME EvalInv, ConsoleInv, [EvalNext]_evalVars PROVE ConsoleInv'
<1>1. ASSUME UNCHANGED <<contexts, stdout, known, pendingOut, evalCall, life, printed, delivered>> PROVE ConsoleInv'
  <2>1. QuietInv'
    BY <1>1 DEF ConsoleInv, QuietInv
  <2>. QED BY <1>1, <2>1, NothingWritten
<1>2. CASE UNCHANGED evalVars
  BY <1>1, <1>2 DEF evalVars
<1>3. CASE EvalStalls
  BY <1>1, <1>3 DEF EvalStalls
<1>4. CASE EvalNext
  BY <1>3, <1>4, ExecConsole, WriteConsole, PrintsConsole, IdlesConsole, ReadsConsole, FinishesConsole, DiesConsole,
     ReadConsole, KillConsole
  DEF EvalNext
<1>. QED BY <1>2, <1>4

\* Whatever a session prints reaches its own calls, once and in order, or is missing
\* where a mark says that a buffer was cut, for any number of sessions, lines and lives
\* and any capture limit, through code that prints between calls, calls of other
\* sessions, reaped sessions and kills (eval_session.rs: exec, append_capped).
THEOREM ConsoleWhole == MCSpec => []ConsoleComplete
<1>1. MCInit => ConsoleInv
  BY ConsoleInitInv DEF MCInit
<1>2. EvalInv /\ ConsoleInv /\ [MCNext]_<<engine, mcpVars, dapVars, lspVars, evalVars, browserVars>> => ConsoleInv'
  BY EngineSteps, ConsoleStep
<1>3. ConsoleInv => ConsoleComplete
  BY DEF ConsoleInv, WholeInv, Told, OfSession, ConsoleComplete
<1>. QED BY <1>1, <1>2, <1>3, EvalHolds, PTL DEF MCSpec

----------------------------------------------------------------------------
(* Debug adapters. *)

DapCommands ==
  {"initialize", "launch", "setBreakpoints", "configurationDone", "stackTrace", "scopes", "variables",
   "continue", "next", "read", "disconnect"}
Disconnect == <<"disconnect">>
\* What is left of an operation's plan.
DapPlans ==
  {<<"initialize", "launch">>, <<"launch">>, <<"setBreakpoints", "configurationDone">>, <<"configurationDone">>,
   <<"stackTrace">>, <<"scopes", "variables", "variables">>, <<"variables", "variables">>, <<"variables">>,
   <<"continue">>, <<"next">>, <<"read">>}

\* Of a start.
StartPlans == {<<"initialize", "launch">>, <<"launch">>}

DapAnswer == [kind : {"answer"}, id : Nat, num : Nat, ok : BOOLEAN]
DapEvent == [kind : {"event"}, stop : Nat]
DapRequest == [id : Nat, num : Nat, command : DapCommands]
AdapterRecord ==
  [alive : BOOLEAN, reading : BOOLEAN, next : Nat \ {0}, pending : SUBSET Nat, todo : SUBSET DapRequest,
   wire : Seq(DapAnswer \cup DapEvent), ring : Seq(Nat), running : BOOLEAN, made : Nat, frame : Nat]

SessionOps == {"breakpoints", "stack", "variables", "run", "step", "read"}
DapOps ==
  [op : {"none", "start", "stop"} \cup SessionOps, name : DapNames \cup {""},
   stage : {"idle", "spawn", "ask", "wait", "kill", "stopped"}, at : Nat,
   plan : DapPlans \cup {<<>>, Disconnect}, id : Nat, num : Nat, reply : Seq(DapAnswer), then : {"end", "spawn"}]

DapShapes ==
  /\ adapter \in Seq(AdapterRecord) /\ left \subseteq DOMAIN adapter /\ sent \in 0 .. DapAsks
  /\ dapSession \in [DapNames -> 0 .. Len(adapter)]
  /\ dapOp \in DapOps

\* An id is below the counter it was taken from, which no request has passed; the
\* ring keeps its size, and a frame is of a stop that happened.
AdapterOK(a, n) ==
  /\ a.next <= n + 1 /\ a.pending \subseteq 1 .. a.next - 1
  /\ \A r \in a.todo : r.id < a.next
  /\ \A i \in DOMAIN a.wire : a.wire[i].kind = "answer" => a.wire[i].id < a.next
  /\ Len(a.ring) <= EventRing /\ a.frame <= a.made

\* What still comes under an id was made for the request that has it.
DapMadeFor(a, id, num) ==
  /\ \A r \in a.todo : r.id = id => r.num = num
  /\ \A i \in DOMAIN a.wire : a.wire[i].kind = "answer" /\ a.wire[i].id = id => a.wire[i].num = num

\* Where an operation is: most work on a session of the map, and send no
\* disconnect; a stop tears down what it took out of the map; a start holds no
\* session under its name, and tears down its predecessor before it spawns, its
\* own adapter when a request fails.
OpInv ==
  /\ dapOp.op = "none" => dapOp = NoOp
  /\ dapOp.op \in SessionOps => /\ dapOp.stage \in {"ask", "wait", "stopped"} /\ dapOp.then = "end"
                                /\ dapOp.name \in DapNames /\ dapSession[dapOp.name] = dapOp.at
                                /\ dapOp.plan \in DapPlans
  /\ dapOp.op = "stop" => dapOp.stage \in {"ask", "wait", "kill"} /\ dapOp.then = "end" /\ dapOp.plan = Disconnect
  /\ dapOp.op = "start" => /\ dapOp.stage # "idle" /\ dapOp.name \in DapNames /\ dapSession[dapOp.name] = 0
                           /\ dapOp.plan \in DapPlans => dapOp.then = "end" /\ dapOp.plan \in StartPlans
  /\ dapOp.stage \in {"ask", "wait"} => dapOp.plan # <<>>
  /\ dapOp.stage = "spawn" /\ dapOp.at # 0 => ~adapter[dapOp.at].alive
  /\ dapOp.op # "none" => dapOp.at \in DOMAIN adapter \/ (dapOp.stage = "spawn" /\ dapOp.at = 0)

\* The requests an operation may still send.
PlanLeft(o) == IF o.stage = "ask" THEN Len(o.plan) ELSE IF o.stage = "wait" THEN Len(o.plan) - 1 ELSE 0
SpawnLeft(o) == IF o.stage = "spawn" \/ o.then = "spawn" THEN 3 ELSE 0
CloseLeft(o) == IF o.op = "start" /\ o.stage \in {"ask", "wait"} /\ o.plan # Disconnect THEN 1 ELSE 0
ToSend(o) == PlanLeft(o) + SpawnLeft(o) + CloseLeft(o)

DapInv ==
  /\ DapShapes /\ OpInv /\ sent + ToSend(dapOp) <= DapAsks /\ DapOwnAnswer /\ DapNoOrphan
  /\ \A k \in DOMAIN adapter : AdapterOK(adapter[k], sent)
  /\ dapOp.stage = "wait" => DapMadeFor(adapter[dapOp.at], dapOp.id, dapOp.num)

LEMMA PlanParts ==
  ASSUME NEW p \in DapPlans
  PROVE  /\ Len(p) \in 1 .. 3 /\ p # <<>> /\ p # Disconnect /\ Head(p) \in DapCommands /\ Head(p) # "disconnect"
         /\ Tail(p) \in DapPlans \cup {<<>>} /\ Len(Tail(p)) = Len(p) - 1
<1>1. p \in Seq(DapCommands)
  <2>1. \A c \in DapCommands : <<c>> \in Seq(DapCommands)
    OBVIOUS
  <2>2. \A c, d \in DapCommands : <<c, d>> \in Seq(DapCommands)
    OBVIOUS
  <2>3. \A c, d, e \in DapCommands : <<c, d, e>> \in Seq(DapCommands)
    OBVIOUS
  <2>4. \/ \E c \in DapCommands : p = <<c>>
        \/ \E c, d \in DapCommands : p = <<c, d>>
        \/ \E c, d, e \in DapCommands : p = <<c, d, e>>
    <3>1. {"initialize", "launch", "setBreakpoints", "configurationDone", "stackTrace", "scopes", "variables",
           "continue", "next", "read"} \subseteq DapCommands
      BY DEF DapCommands
    <3>. QED BY <3>1 DEF DapPlans
  <2>. QED BY <2>1, <2>2, <2>3, <2>4
<1>2. Len(p) \in 1 .. 3 /\ Head(p) \in DapCommands /\ Head(p) # "disconnect"
  BY DEF DapPlans, DapCommands
<1>3. p # <<>>
  <2>1. Len(p) # 0
    BY <1>2
  <2>2. Len(<<>>) = 0
    OBVIOUS
  <2>. QED BY <2>1, <2>2, Zenon
<1>4. p # Disconnect
  <2>1. Head(Disconnect) = "disconnect"
    BY DEF Disconnect
  <2>. QED BY <1>2, <2>1, Zenon
<1>5. Tail(p) \in DapPlans \cup {<<>>}
  <2>1. CASE p \in {<<"launch">>, <<"configurationDone">>, <<"stackTrace">>, <<"variables">>, <<"continue">>,
                    <<"next">>, <<"read">>}
    <3>1. ASSUME NEW c PROVE Tail(<<c>>) = <<>>
      OBVIOUS
    <3>2. \E c : p = <<c>>
      BY <2>1
    <3>. QED BY <3>1, <3>2
  <2>2. CASE p = <<"initialize", "launch">>
    <3>1. Tail(p) = <<"launch">>
      BY <2>2
    <3>. QED BY <3>1 DEF DapPlans
  <2>3. CASE p = <<"setBreakpoints", "configurationDone">>
    <3>1. Tail(p) = <<"configurationDone">>
      BY <2>3
    <3>. QED BY <3>1 DEF DapPlans
  <2>4. CASE p = <<"scopes", "variables", "variables">>
    <3>1. Tail(p) = <<"variables", "variables">>
      BY <2>4
    <3>. QED BY <3>1 DEF DapPlans
  <2>5. CASE p = <<"variables", "variables">>
    <3>1. Tail(p) = <<"variables">>
      BY <2>5
    <3>. QED BY <3>1 DEF DapPlans
  <2>. QED BY <2>1, <2>2, <2>3, <2>4, <2>5 DEF DapPlans
<1>6. Len(Tail(p)) = Len(p) - 1
  BY <1>1, <1>3, TailElements
<1>. QED BY <1>2, <1>3, <1>4, <1>5, <1>6

LEMMA DisconnectParts ==
  Len(Disconnect) = 1 /\ Disconnect # <<>> /\ Head(Disconnect) = "disconnect" /\ Plan.stop = Disconnect
    /\ Disconnect \notin DapPlans
<1>1. Len(Disconnect) = 1 /\ Head(Disconnect) = "disconnect" /\ Plan.stop = Disconnect /\ Disconnect # <<>>
  BY DEF Disconnect, Plan
<1>2. Disconnect \notin DapPlans
  BY PlanParts
<1>. QED BY <1>1, <1>2

LEMMA StartPlanParts ==
  ASSUME NEW p \in StartPlans
  PROVE  p \in DapPlans /\ Head(p) # "configurationDone" /\ Tail(p) \in StartPlans \cup {<<>>}
<1>1. p \in DapPlans /\ Head(p) # "configurationDone"
  BY DEF StartPlans, DapPlans
<1>2. CASE p = <<"initialize", "launch">>
  <2>1. Tail(p) = <<"launch">>
    BY <1>2
  <2>. QED BY <1>1, <2>1 DEF StartPlans
<1>3. CASE p = <<"launch">>
  <2>1. Tail(p) = <<>>
    BY <1>3
  <2>. QED BY <1>1, <2>1
<1>. QED BY <1>2, <1>3 DEF StartPlans

LEMMA PlansAreDap ==
  /\ Plan.start \in DapPlans /\ Plan.start \in StartPlans /\ Len(Plan.start) = 2
  /\ \A op \in SessionOps : Plan[op] \in DapPlans
<1>1. Plan.start = <<"initialize", "launch">>
  BY DEF Plan
<1>2. \A op \in SessionOps : Plan[op] \in {<<"setBreakpoints", "configurationDone">>, <<"stackTrace">>,
        <<"scopes", "variables", "variables">>, <<"continue">>, <<"next">>, <<"read">>}
  BY DEF Plan, SessionOps
<1>. QED BY <1>1, <1>2 DEF DapPlans, StartPlans

LEMMA NoOpIsOp == NoOp \in DapOps /\ NoOp.op = "none" /\ NoOp.stage = "idle" /\ NoOp.reply = <<>> /\ ToSend(NoOp) = 0
<1>1. <<>> \in Seq(DapAnswer)
  OBVIOUS
<1>2. PlanLeft(NoOp) = 0 /\ SpawnLeft(NoOp) = 0 /\ CloseLeft(NoOp) = 0
  BY DEF NoOp, PlanLeft, SpawnLeft, CloseLeft
<1>3. ToSend(NoOp) = 0
  BY <1>2 DEF ToSend
<1>. QED BY <1>1, <1>3 DEF NoOp, DapOps

LEMMA LeftParts ==
  ASSUME NEW o, Len(o.plan) \in 1 .. 3
  PROVE  ToSend(o) \in Nat /\ (o.stage = "ask" => ToSend(o) >= 1)
<1>1. /\ PlanLeft(o) \in Nat /\ (o.stage = "ask" => PlanLeft(o) >= 1)
  <2>1. PICK n \in 1 .. 3 : n = Len(o.plan)
    OBVIOUS
  <2>2. PlanLeft(o) = IF o.stage = "ask" THEN n ELSE IF o.stage = "wait" THEN n - 1 ELSE 0
    BY <2>1 DEF PlanLeft
  <2>3. n \in Nat /\ n >= 1 /\ n - 1 \in Nat
    OBVIOUS
  <2>. QED BY <2>2, <2>3
<1>2. SpawnLeft(o) \in {0, 3} /\ CloseLeft(o) \in {0, 1}
  BY DEF SpawnLeft, CloseLeft
<1>. QED BY <1>1, <1>2 DEF ToSend

LEMMA DapInitInv == DapInit => DapInv
<1>. SUFFICES ASSUME DapInit PROVE DapInv
  OBVIOUS
<1>1. <<>> \in Seq(AdapterRecord) /\ DOMAIN <<>> = {} /\ Len(<<>>) = 0
  OBVIOUS
<1>2. adapter = <<>> /\ dapOp = NoOp /\ sent = 0 /\ left = {} /\ dapSession = [n \in DapNames |-> 0]
  BY DEF DapInit
<1>3. DapShapes
  BY <1>1, <1>2, NoOpIsOp, DapAssumption DEF DapShapes
<1>4. OpInv
  BY <1>2, NoOpIsOp DEF OpInv, SessionOps
<1>5. sent + ToSend(dapOp) <= DapAsks /\ DapOwnAnswer
  BY <1>2, NoOpIsOp, DapAssumption DEF DapOwnAnswer
<1>. QED BY <1>1, <1>2, <1>3, <1>4, <1>5, NoOpIsOp DEF DapInv, DapNoOrphan

LEMMA DapElement ==
  ASSUME DapInv, NEW k \in DOMAIN adapter
  PROVE  /\ adapter[k] \in AdapterRecord /\ AdapterOK(adapter[k], sent) /\ k \in Nat
<1>1. adapter \in Seq(AdapterRecord)
  BY DEF DapInv, DapShapes
<1>. QED BY <1>1 DEF DapInv

LEMMA AdapterParts ==
  ASSUME NEW a \in AdapterRecord, NEW n, AdapterOK(a, n)
  PROVE  /\ a.next \in Nat \ {0} /\ a.next <= n + 1 /\ a.pending \subseteq 1 .. a.next - 1
         /\ a.alive \in BOOLEAN /\ a.reading \in BOOLEAN /\ a.running \in BOOLEAN
         /\ a.pending \subseteq Nat /\ a.todo \subseteq DapRequest
         /\ \A r \in a.todo : r.id < a.next
         /\ a.wire \in Seq(DapAnswer \cup DapEvent)
         /\ \A i \in DOMAIN a.wire : a.wire[i].kind = "answer" => a.wire[i].id < a.next
         /\ a.ring \in Seq(Nat) /\ Len(a.ring) <= EventRing /\ a.made \in Nat /\ a.frame \in Nat /\ a.frame <= a.made
BY DEF AdapterRecord, AdapterOK

LEMMA OKGrows ==
  ASSUME NEW a \in AdapterRecord, NEW m \in Nat, NEW n \in Nat, m <= n, AdapterOK(a, m)
  PROVE  AdapterOK(a, n)
<1>1. a.next <= n + 1
  BY DEF AdapterOK, AdapterRecord
<1>. QED BY <1>1 DEF AdapterOK

\* A step of one adapter.
LEMMA AdapterMoves ==
  ASSUME DapInv, NEW k \in DOMAIN adapter, NEW a \in AdapterRecord, adapter' = [adapter EXCEPT ![k] = a],
         sent <= sent', sent' \in Nat, a.alive => adapter[k].alive, AdapterOK(a, sent')
  PROVE  /\ adapter' \in Seq(AdapterRecord) /\ Len(adapter') = Len(adapter) /\ DOMAIN adapter' = DOMAIN adapter
         /\ adapter'[k] = a /\ \A j \in DOMAIN adapter : j # k => adapter'[j] = adapter[j]
         /\ \A j \in DOMAIN adapter' : AdapterOK(adapter'[j], sent')
         /\ \A j \in DOMAIN adapter : adapter'[j].alive => adapter[j].alive
<1>1. adapter \in Seq(AdapterRecord) /\ sent \in Nat
  BY DEF DapInv, DapShapes
<1>2. /\ adapter' \in Seq(AdapterRecord) /\ Len(adapter') = Len(adapter) /\ DOMAIN adapter' = DOMAIN adapter
      /\ adapter'[k] = a /\ \A j \in DOMAIN adapter : j # k => adapter'[j] = adapter[j]
  BY <1>1, ReplaceProperties, SMTT(30)
<1>3. ASSUME NEW j \in DOMAIN adapter PROVE AdapterOK(adapter'[j], sent')
  <2>1. AdapterOK(adapter[j], sent) /\ adapter[j] \in AdapterRecord
    BY DapElement
  <2>2. AdapterOK(adapter[j], sent')
    BY <1>1, <2>1, OKGrows
  <2>. QED BY <1>2, <2>2
<1>. QED BY <1>2, <1>3

\* A step beside the operation, which is at most given its answer: nothing is put
\* under an id in use.
LEMMA DapBeside ==
  ASSUME DapInv, UNCHANGED <<dapSession, sent, left>>, NEW k \in DOMAIN adapter, NEW a \in AdapterRecord,
         adapter' = [adapter EXCEPT ![k] = a], a.alive => adapter[k].alive, AdapterOK(a, sent),
         \A id, num \in Nat : DapMadeFor(adapter[k], id, num) => DapMadeFor(a, id, num),
         dapOp' = dapOp \/ (dapOp.stage = "wait" /\ \E r \in Seq(DapAnswer) : dapOp' = [dapOp EXCEPT !.reply = r]),
         DapOwnAnswer'
  PROVE  DapInv'
<1>0. sent \in Nat /\ adapter \in Seq(AdapterRecord) /\ dapOp \in DapOps /\ left \subseteq DOMAIN adapter
      /\ sent \in 0 .. DapAsks /\ dapSession \in [DapNames -> 0 .. Len(adapter)]
  BY DEF DapInv, DapShapes
<1>1. /\ adapter' \in Seq(AdapterRecord) /\ Len(adapter') = Len(adapter) /\ DOMAIN adapter' = DOMAIN adapter
      /\ adapter'[k] = a /\ \A j \in DOMAIN adapter : j # k => adapter'[j] = adapter[j]
      /\ \A j \in DOMAIN adapter' : AdapterOK(adapter'[j], sent')
      /\ \A j \in DOMAIN adapter : adapter'[j].alive => adapter[j].alive
  <2>1. sent' = sent /\ sent <= sent' /\ AdapterOK(a, sent')
    BY <1>0
  <2>. QED BY <1>0, <2>1, AdapterMoves
<1>2. /\ dapOp' \in DapOps /\ dapOp'.op = dapOp.op /\ dapOp'.name = dapOp.name /\ dapOp'.stage = dapOp.stage
      /\ dapOp'.at = dapOp.at /\ dapOp'.plan = dapOp.plan /\ dapOp'.id = dapOp.id /\ dapOp'.num = dapOp.num
      /\ dapOp'.then = dapOp.then /\ (dapOp.op = "none" => dapOp' = dapOp)
  <2>1. CASE dapOp' = dapOp
    BY <1>0, <2>1
  <2>2. CASE dapOp.stage = "wait" /\ \E r \in Seq(DapAnswer) : dapOp' = [dapOp EXCEPT !.reply = r]
    <3>1. dapOp.op # "none"
      BY <2>2, NoOpIsOp DEF DapInv, OpInv
    <3>2. PICK r \in Seq(DapAnswer) : dapOp' = [dapOp EXCEPT !.reply = r]
      BY <2>2
    <3>. QED BY <1>0, <3>1, <3>2 DEF DapOps
  <2>. QED BY <2>1, <2>2
<1>3. DapShapes'
  BY <1>0, <1>1, <1>2 DEF DapShapes
<1>4. OpInv'
  <2>1. dapOp.stage = "spawn" /\ dapOp.at # 0 => ~adapter'[dapOp.at].alive
    <3>. SUFFICES ASSUME dapOp.stage = "spawn", dapOp.at # 0 PROVE ~adapter'[dapOp.at].alive
      OBVIOUS
    <3>1. dapOp.at \in DOMAIN adapter /\ ~adapter[dapOp.at].alive
      BY NoOpIsOp DEF DapInv, OpInv
    <3>. QED BY <1>1, <3>1
  <2>. QED BY <1>1, <1>2, <2>1 DEF DapInv, OpInv
<1>5. sent' + ToSend(dapOp') <= DapAsks
  <2>1. ToSend(dapOp') = ToSend(dapOp)
    BY <1>2 DEF ToSend, PlanLeft, SpawnLeft, CloseLeft
  <2>. QED BY <2>1 DEF DapInv
<1>6. DapNoOrphan'
  BY <1>1, <1>2 DEF DapInv, DapNoOrphan
<1>7. ASSUME dapOp'.stage = "wait" PROVE DapMadeFor(adapter'[dapOp'.at], dapOp'.id, dapOp'.num)
  <2>1. dapOp.at \in DOMAIN adapter /\ DapMadeFor(adapter[dapOp.at], dapOp.id, dapOp.num)
    BY <1>2, <1>7, NoOpIsOp DEF DapInv, OpInv
  <2>2. dapOp.id \in Nat /\ dapOp.num \in Nat
    BY <1>0 DEF DapOps
  <2>3. DapMadeFor(adapter'[dapOp.at], dapOp.id, dapOp.num)
    BY <1>1, <2>1, <2>2
  <2>. QED BY <1>2, <2>3
<1>. QED BY <1>1, <1>3, <1>4, <1>5, <1>6, <1>7 DEF DapInv

\* The operation ends; what is still alive is held.
LEMMA DapEnds ==
  ASSUME dapOp' = NoOp, sent' \in 0 .. DapAsks, adapter' \in Seq(AdapterRecord), left' \subseteq DOMAIN adapter',
         dapSession' \in [DapNames -> 0 .. Len(adapter')],
         \A k \in DOMAIN adapter' : AdapterOK(adapter'[k], sent'),
         \A k \in DOMAIN adapter' : adapter'[k].alive => k \in left' \/ \E n \in DapNames : dapSession'[n] = k
  PROVE  DapInv'
<1>1. DapShapes'
  BY NoOpIsOp DEF DapShapes
<1>2. OpInv'
  BY NoOpIsOp DEF OpInv, SessionOps
<1>3. sent' + ToSend(dapOp') <= DapAsks
  <2>1. ToSend(dapOp') = 0
    BY NoOpIsOp
  <2>2. ASSUME NEW n \in 0 .. DapAsks PROVE n + 0 <= DapAsks
    BY DapAssumption
  <2>3. sent' + 0 <= DapAsks
    BY <2>2
  <2>. QED BY <2>1, <2>3, Zenon
<1>4. DapOwnAnswer' /\ DapNoOrphan'
  BY NoOpIsOp DEF DapOwnAnswer, DapNoOrphan
<1>. QED BY <1>1, <1>2, <1>3, <1>4, NoOpIsOp DEF DapInv

\* The operation goes on with the adapter it is at.
LEMMA DapGoesOn ==
  ASSUME DapInv, UNCHANGED <<dapSession, left>>, sent' \in 0 .. DapAsks,
         adapter' \in Seq(AdapterRecord), Len(adapter') = Len(adapter), DOMAIN adapter' = DOMAIN adapter,
         \A j \in DOMAIN adapter' : AdapterOK(adapter'[j], sent'),
         \A j \in DOMAIN adapter : adapter'[j].alive => adapter[j].alive,
         dapOp' \in DapOps, dapOp'.at = dapOp.at, DapOwnAnswer', OpInv', sent' + ToSend(dapOp') <= DapAsks,
         dapOp'.stage = "wait" => DapMadeFor(adapter'[dapOp'.at], dapOp'.id, dapOp'.num)
  PROVE  DapInv'
<1>1. DapShapes'
  BY DEF DapInv, DapShapes
<1>2. DapNoOrphan'
  BY DEF DapInv, DapNoOrphan
<1>. QED BY <1>1, <1>2 DEF DapInv

\* The operation ends, its session in the map.
LEMMA DapFinishes ==
  ASSUME DapInv, dapOp.op \in SessionOps, dapOp' = NoOp, UNCHANGED <<dapSession, left>>, sent' \in 0 .. DapAsks,
         adapter' \in Seq(AdapterRecord), Len(adapter') = Len(adapter), DOMAIN adapter' = DOMAIN adapter,
         \A j \in DOMAIN adapter' : AdapterOK(adapter'[j], sent'),
         \A j \in DOMAIN adapter : adapter'[j].alive => adapter[j].alive
  PROVE  DapInv'
<1>1. /\ dapSession \in [DapNames -> 0 .. Len(adapter)] /\ left \subseteq DOMAIN adapter
      /\ dapOp.name \in DapNames /\ dapSession[dapOp.name] = dapOp.at
  BY DEF DapInv, DapShapes, OpInv
<1>2. \A k \in DOMAIN adapter' : adapter'[k].alive => k \in left' \/ \E n \in DapNames : dapSession'[n] = k
  BY <1>1 DEF DapInv, DapNoOrphan
<1>. QED BY <1>1, <1>2, DapEnds

\* What a failed request leaves: the operation ends with its session in the map,
\* or goes on to tear down.
LEMMA FailedParts ==
  ASSUME DapInv, dapOp.stage \in {"ask", "wait"}
  PROVE  \/ dapOp.op \in SessionOps /\ Failed = NoOp
         \/ /\ Failed \in DapOps /\ Failed.op = dapOp.op /\ Failed.name = dapOp.name /\ Failed.at = dapOp.at
            /\ Failed.then = dapOp.then /\ Failed.reply = <<>> /\ dapOp.op \in {"start", "stop"}
            /\ \/ dapOp.plan = Disconnect /\ Failed.plan = Disconnect /\ Failed.stage = "kill"
               \/ /\ dapOp.plan \in DapPlans /\ dapOp.op = "start" /\ Failed.plan = Disconnect
                  /\ Failed.stage = "ask" /\ Failed.then = "end"
<1>0. dapOp \in DapOps /\ OpInv /\ <<>> \in Seq(DapAnswer)
  BY DEF DapInv, DapShapes
<1>1. /\ dapOp.op \in {"start", "stop"} \cup SessionOps /\ dapOp.plan \in DapPlans \cup {Disconnect}
      /\ dapOp.op \in SessionOps => dapOp.plan \in DapPlans
      /\ dapOp.op = "stop" => dapOp.plan = Disconnect
      /\ dapOp.op = "start" /\ dapOp.plan \in DapPlans => dapOp.then = "end"
  BY <1>0, NoOpIsOp DEF DapOps, OpInv
<1>2. CASE dapOp.plan = Disconnect
  <2>1. Failed = [dapOp EXCEPT !.stage = "kill", !.reply = <<>>]
    BY <1>2, DisconnectParts DEF Failed
  <2>2. dapOp.op \in {"start", "stop"}
    BY <1>1, <1>2, DisconnectParts
  <2>. QED BY <1>0, <1>2, <2>1, <2>2 DEF DapOps
<1>3. CASE dapOp.plan \in DapPlans /\ dapOp.op = "start"
  <2>1. Head(dapOp.plan) # "disconnect"
    BY <1>3, PlanParts
  <2>2. Failed = [dapOp EXCEPT !.stage = "ask", !.plan = Disconnect, !.reply = <<>>]
    BY <1>3, <2>1, DisconnectParts DEF Failed
  <2>. QED BY <1>0, <1>1, <1>3, <2>2 DEF DapOps
<1>4. CASE dapOp.plan \in DapPlans /\ dapOp.op \in SessionOps
  <2>1. Head(dapOp.plan) # "disconnect" /\ dapOp.op # "start"
    BY <1>4, PlanParts DEF SessionOps
  <2>. QED BY <1>4, <2>1 DEF Failed
<1>5. dapOp.op = "stop" => dapOp.plan = Disconnect
  BY <1>1
<1>. QED BY <1>1, <1>2, <1>3, <1>4, <1>5

LEMMA OneToThree == ASSUME NEW n \in 1 .. 3 PROVE n \in Nat /\ n >= 1 /\ n - 1 \in Nat
OBVIOUS

LEMMA DapFails ==
  ASSUME DapInv, dapOp.stage \in {"ask", "wait"}, dapOp' = Failed, UNCHANGED <<dapSession, left>>,
         sent' = IF dapOp.stage = "ask" THEN sent + 1 ELSE sent,
         adapter' \in Seq(AdapterRecord), Len(adapter') = Len(adapter), DOMAIN adapter' = DOMAIN adapter,
         \A j \in DOMAIN adapter' : AdapterOK(adapter'[j], sent'),
         \A j \in DOMAIN adapter : adapter'[j].alive => adapter[j].alive
  PROVE  DapInv'
<1>0. /\ dapOp \in DapOps /\ OpInv /\ DapNoOrphan /\ sent \in Nat /\ sent + ToSend(dapOp) <= DapAsks
      /\ dapSession \in [DapNames -> 0 .. Len(adapter)] /\ left \subseteq DOMAIN adapter /\ dapOp.op # "none"
  BY NoOpIsOp DEF DapInv, DapShapes, OpInv
<1>1. Len(dapOp.plan) \in 1 .. 3 /\ (dapOp.plan = Disconnect => Len(dapOp.plan) = 1)
  <2>1. dapOp.plan \in DapPlans \cup {Disconnect}
    BY <1>0 DEF OpInv, DapOps
  <2>2. CASE dapOp.plan = Disconnect
    BY <2>2, DisconnectParts
  <2>3. CASE dapOp.plan \in DapPlans
    BY <2>3, PlanParts
  <2>. QED BY <2>1, <2>2, <2>3
<1>2. CASE dapOp.op \in SessionOps /\ Failed = NoOp
  <2>1. sent' \in 0 .. DapAsks
    <3>1. ToSend(dapOp) \in Nat /\ (dapOp.stage = "ask" => ToSend(dapOp) >= 1)
      BY <1>1, LeftParts
    <3>2. sent' \in Nat /\ sent' <= sent + ToSend(dapOp)
      BY <1>0, <3>1
    <3>. QED BY <1>0, <3>1, <3>2, DapAssumption
  <2>. QED BY <1>2, <2>1, DapFinishes
<1>3. CASE /\ Failed \in DapOps /\ Failed.op = dapOp.op /\ Failed.name = dapOp.name /\ Failed.at = dapOp.at
           /\ Failed.then = dapOp.then /\ Failed.reply = <<>> /\ dapOp.op \in {"start", "stop"}
           /\ \/ dapOp.plan = Disconnect /\ Failed.plan = Disconnect /\ Failed.stage = "kill"
              \/ /\ dapOp.plan \in DapPlans /\ dapOp.op = "start" /\ Failed.plan = Disconnect
                 /\ Failed.stage = "ask" /\ Failed.then = "end"
  <2>1. PICK o \in DapOps : o = Failed
    BY <1>3
  <2>2. /\ o.op = dapOp.op /\ o.name = dapOp.name /\ o.at = dapOp.at /\ o.then = dapOp.then /\ o.reply = <<>>
        /\ o.op \in {"start", "stop"} /\ o.plan = Disconnect
        /\ \/ dapOp.plan = Disconnect /\ o.stage = "kill"
           \/ dapOp.plan \in DapPlans /\ o.op = "start" /\ o.stage = "ask" /\ o.then = "end"
    BY <1>3, <2>1
  <2>3. sent' + ToSend(o) <= DapAsks /\ sent' \in 0 .. DapAsks
    <3>. PICK n \in 1 .. 3 : n = Len(dapOp.plan)
      BY <1>1
    <3>0. n \in Nat /\ n >= 1 /\ n - 1 \in Nat
      BY OneToThree
    <3>1. /\ PlanLeft(dapOp) = IF dapOp.stage = "ask" THEN n ELSE n - 1
          /\ SpawnLeft(dapOp) \in {0, 3} /\ CloseLeft(dapOp) \in {0, 1}
          /\ ToSend(dapOp) = PlanLeft(dapOp) + SpawnLeft(dapOp) + CloseLeft(dapOp)
      BY DEF ToSend, PlanLeft, SpawnLeft, CloseLeft
    <3>2. CASE dapOp.plan = Disconnect /\ o.stage = "kill"
      <4>1. PlanLeft(o) = 0 /\ CloseLeft(o) = 0 /\ SpawnLeft(o) = SpawnLeft(dapOp)
        BY <2>2, <3>2 DEF PlanLeft, SpawnLeft, CloseLeft
      <4>2. ToSend(o) = SpawnLeft(dapOp)
        BY <3>1, <4>1 DEF ToSend
      <4>3. PlanLeft(dapOp) = IF dapOp.stage = "ask" THEN 1 ELSE 0
        <5>1. n = 1
          BY <1>1, <3>2
        <5>. QED BY <3>1, <5>1
      <4>4. PICK m \in Nat, p \in {0, 3}, c \in {0, 1} :
              m = sent /\ p = SpawnLeft(dapOp) /\ c = CloseLeft(dapOp)
        BY <1>0, <3>1
      <4>5. CASE dapOp.stage = "ask"
        <5>1. sent' = m + 1 /\ m + (1 + p + c) <= DapAsks
          BY <1>0, <3>1, <4>3, <4>4, <4>5
        <5>2. m + 1 + p <= DapAsks /\ m + 1 \in 0 .. DapAsks
          BY <5>1, DapAssumption
        <5>. QED BY <4>2, <4>4, <5>1, <5>2
      <4>6. CASE dapOp.stage # "ask"
        <5>1. sent' = m /\ m + (0 + p + c) <= DapAsks
          BY <1>0, <3>1, <4>3, <4>4, <4>6
        <5>2. m + p <= DapAsks /\ m \in 0 .. DapAsks
          BY <5>1, DapAssumption
        <5>. QED BY <4>2, <4>4, <5>1, <5>2
      <4>. QED BY <4>5, <4>6
    <3>3. CASE dapOp.plan \in DapPlans /\ o.op = "start" /\ o.stage = "ask" /\ o.then = "end"
      <4>1. PlanLeft(o) = 1 /\ SpawnLeft(o) = 0 /\ CloseLeft(o) = 0
        BY <2>2, <3>3, DisconnectParts DEF PlanLeft, SpawnLeft, CloseLeft
      <4>2. ToSend(o) = 1
        BY <4>1 DEF ToSend
      <4>3. CloseLeft(dapOp) = 1
        BY <2>2, <3>3, DisconnectParts DEF CloseLeft
      <4>4. PICK m \in Nat, p \in {0, 3} : m = sent /\ p = SpawnLeft(dapOp)
        BY <1>0, <3>1
      <4>5. CASE dapOp.stage = "ask"
        <5>1. sent' = m + 1 /\ m + (n + p + 1) <= DapAsks
          BY <1>0, <3>1, <4>3, <4>4, <4>5
        <5>2. m + 1 + 1 <= DapAsks /\ m + 1 \in 0 .. DapAsks
          BY <3>0, <5>1, DapAssumption
        <5>. QED BY <4>2, <5>1, <5>2
      <4>6. CASE dapOp.stage # "ask"
        <5>1. sent' = m /\ m + (n - 1 + p + 1) <= DapAsks
          BY <1>0, <3>1, <4>3, <4>4, <4>6
        <5>2. m + 1 <= DapAsks /\ m \in 0 .. DapAsks
          BY <3>0, <5>1, DapAssumption
        <5>. QED BY <4>2, <5>1, <5>2
      <4>. QED BY <4>5, <4>6
    <3>. QED BY <2>2, <3>2, <3>3
  <2>4. OpInv'
    <3>1. dapOp.at \in DOMAIN adapter /\ (dapOp.op = "start" => dapOp.name \in DapNames /\ dapSession[dapOp.name] = 0)
          /\ (dapOp.op = "stop" => dapOp.then = "end" /\ dapOp.plan = Disconnect)
      BY <1>0 DEF OpInv
    <3>2. dapOp' = o
      BY <2>1
    <3>3. o.op \notin SessionOps /\ o.op # "none" /\ Disconnect \notin DapPlans /\ Disconnect # <<>>
      BY <2>2, DisconnectParts DEF SessionOps
    <3>. QED BY <2>2, <3>1, <3>2, <3>3, DisconnectParts DEF OpInv
  <2>5. dapOp'.at = dapOp.at /\ dapOp' \in DapOps /\ DapOwnAnswer' /\ dapOp'.stage # "wait" /\ dapOp' = o
    BY <2>1, <2>2 DEF DapOwnAnswer
  <2>. QED BY <2>3, <2>4, <2>5, DapGoesOn
<1>. QED BY <1>2, <1>3, FailedParts

LEMMA AdapterDiesPreserves == ASSUME DapInv, NEW k \in DOMAIN adapter, AdapterDies(k) PROVE DapInv'
<1>0. adapter[k] \in AdapterRecord /\ AdapterOK(adapter[k], sent) /\ DapOwnAnswer
      /\ UNCHANGED <<dapSession, dapOp, sent, left>>
  BY DapElement DEF DapInv, AdapterDies
<1>1. PICK a : a = [adapter[k] EXCEPT !.alive = FALSE, !.todo = {}]
  OBVIOUS
<1>2. /\ a \in AdapterRecord /\ ~a.alive /\ a.todo = {} /\ a.next = adapter[k].next /\ a.pending = adapter[k].pending
      /\ a.wire = adapter[k].wire /\ a.ring = adapter[k].ring /\ a.made = adapter[k].made /\ a.frame = adapter[k].frame
  BY <1>0, <1>1 DEF AdapterRecord
<1>3. adapter' = [adapter EXCEPT ![k] = a]
  BY <1>1 DEF AdapterDies
<1>4. AdapterOK(a, sent)
  BY <1>0, <1>2 DEF AdapterOK
<1>5. \A id, num \in Nat : DapMadeFor(adapter[k], id, num) => DapMadeFor(a, id, num)
  BY <1>2 DEF DapMadeFor
<1>6. dapOp' = dapOp /\ DapOwnAnswer'
  BY <1>0 DEF DapOwnAnswer
<1>. QED BY <1>0, <1>2, <1>3, <1>4, <1>5, <1>6, DapBeside

LEMMA DebuggeeEventPreserves ==
  ASSUME DapInv, NEW k \in DOMAIN adapter, NEW stops \in BOOLEAN, DebuggeeEvent(k, stops)
  PROVE  DapInv'
<1>0. adapter[k] \in AdapterRecord /\ AdapterOK(adapter[k], sent) /\ DapOwnAnswer
      /\ UNCHANGED <<dapSession, dapOp, sent, left>>
  BY DapElement DEF DapInv, DebuggeeEvent
<1>1. /\ adapter[k].made \in Nat /\ adapter[k].frame \in Nat /\ adapter[k].frame <= adapter[k].made
      /\ adapter[k].wire \in Seq(DapAnswer \cup DapEvent)
  BY <1>0, AdapterParts
<1>2. PICK e : e = [kind |-> "event", stop |-> IF stops THEN adapter[k].made + 1 ELSE 0]
  OBVIOUS
<1>3. e \in DapEvent /\ e.kind = "event"
  <2>1. (IF stops THEN adapter[k].made + 1 ELSE 0) \in Nat
    BY <1>1
  <2>. QED BY <1>2, <2>1 DEF DapEvent
<1>4. PICK w : w = Append(adapter[k].wire, e)
  OBVIOUS
<1>5. /\ w \in Seq(DapAnswer \cup DapEvent) /\ DOMAIN w = DOMAIN adapter[k].wire \cup {Len(adapter[k].wire) + 1}
      /\ w[Len(adapter[k].wire) + 1] = e /\ \A j \in DOMAIN adapter[k].wire : w[j] = adapter[k].wire[j]
  BY <1>1, <1>3, <1>4, AppendElements
<1>6. PICK m \in Nat : m = adapter[k].made + 1
  BY <1>1
<1>7. PICK b \in BOOLEAN : b = ~stops
  OBVIOUS
<1>8. PICK a : a = [adapter[k] EXCEPT !.made = m, !.running = b, !.wire = w]
  OBVIOUS
<1>9. /\ a \in AdapterRecord /\ a.alive = adapter[k].alive /\ a.todo = adapter[k].todo /\ a.next = adapter[k].next
      /\ a.pending = adapter[k].pending /\ a.wire = w /\ a.ring = adapter[k].ring /\ a.made = m
      /\ a.frame = adapter[k].frame
  BY <1>0, <1>5, <1>8 DEF AdapterRecord
<1>10. adapter' = [adapter EXCEPT ![k] = a]
  BY <1>2, <1>4, <1>6, <1>7, <1>8 DEF DebuggeeEvent
<1>11. AdapterOK(a, sent)
  <2>1. a.frame <= a.made
    BY <1>1, <1>6, <1>9
  <2>2. \A i \in DOMAIN a.wire : a.wire[i].kind = "answer" => a.wire[i].id < a.next
    BY <1>0, <1>3, <1>5, <1>9 DEF AdapterOK
  <2>. QED BY <1>0, <1>9, <2>1, <2>2 DEF AdapterOK
<1>12. \A id, num \in Nat : DapMadeFor(adapter[k], id, num) => DapMadeFor(a, id, num)
  BY <1>3, <1>5, <1>9 DEF DapMadeFor
<1>13. dapOp' = dapOp /\ DapOwnAnswer'
  BY <1>0 DEF DapOwnAnswer
<1>. QED BY <1>0, <1>9, <1>10, <1>11, <1>12, <1>13, DapBeside

LEMMA AdapterAnswersPreserves ==
  ASSUME DapInv, NEW k \in DOMAIN adapter, NEW r \in adapter[k].todo, NEW ok \in BOOLEAN, AdapterAnswers(k, r, ok)
  PROVE  DapInv'
<1>0. adapter[k] \in AdapterRecord /\ AdapterOK(adapter[k], sent) /\ DapOwnAnswer
      /\ UNCHANGED <<dapSession, dapOp, sent, left>>
  BY DapElement DEF DapInv, AdapterAnswers
<1>1. /\ adapter[k].next \in Nat /\ r \in DapRequest /\ r.id < adapter[k].next /\ adapter[k].running \in BOOLEAN
      /\ adapter[k].wire \in Seq(DapAnswer \cup DapEvent) /\ adapter[k].todo \subseteq DapRequest
  BY <1>0, AdapterParts
<1>2. PICK e : e = [kind |-> "answer", id |-> r.id, num |-> r.num, ok |-> ok]
  OBVIOUS
<1>3. e \in DapAnswer /\ e.id = r.id /\ e.num = r.num
  BY <1>1, <1>2 DEF DapAnswer, DapRequest
<1>4. PICK w : w = Append(adapter[k].wire, e)
  OBVIOUS
<1>5. /\ w \in Seq(DapAnswer \cup DapEvent) /\ DOMAIN w = DOMAIN adapter[k].wire \cup {Len(adapter[k].wire) + 1}
      /\ w[Len(adapter[k].wire) + 1] = e /\ \A j \in DOMAIN adapter[k].wire : w[j] = adapter[k].wire[j]
  BY <1>1, <1>3, <1>4, AppendElements
<1>6. PICK T \in SUBSET DapRequest : T = adapter[k].todo \ {r}
  BY <1>1
<1>7. PICK b \in BOOLEAN : b = (adapter[k].running \/ (ok /\ r.command \in {"launch", "continue", "next"}))
  OBVIOUS
<1>8. PICK a : a = [adapter[k] EXCEPT !.todo = T, !.running = b, !.wire = w]
  OBVIOUS
<1>9. /\ a \in AdapterRecord /\ a.alive = adapter[k].alive /\ a.todo = T /\ a.next = adapter[k].next
      /\ a.pending = adapter[k].pending /\ a.wire = w /\ a.ring = adapter[k].ring /\ a.made = adapter[k].made
      /\ a.frame = adapter[k].frame
  BY <1>0, <1>5, <1>8 DEF AdapterRecord
<1>10. adapter' = [adapter EXCEPT ![k] = a]
  BY <1>2, <1>4, <1>6, <1>7, <1>8 DEF AdapterAnswers
<1>11. AdapterOK(a, sent)
  <2>1. \A i \in DOMAIN a.wire : a.wire[i].kind = "answer" => a.wire[i].id < a.next
    BY <1>0, <1>1, <1>3, <1>5, <1>9 DEF AdapterOK
  <2>2. \A q \in a.todo : q.id < a.next
    BY <1>0, <1>6, <1>9 DEF AdapterOK
  <2>. QED BY <1>0, <1>9, <2>1, <2>2 DEF AdapterOK
<1>12. \A id, num \in Nat : DapMadeFor(adapter[k], id, num) => DapMadeFor(a, id, num)
  BY <1>3, <1>5, <1>6, <1>9 DEF DapMadeFor
<1>13. dapOp' = dapOp /\ DapOwnAnswer'
  BY <1>0 DEF DapOwnAnswer
<1>. QED BY <1>0, <1>9, <1>10, <1>11, <1>12, <1>13, DapBeside

\* What the reader has not read is as it was, one message shorter.
LEMMA WireShorter ==
  ASSUME NEW a \in AdapterRecord, NEW n, AdapterOK(a, n), a.wire # <<>>, NEW w, w = Tail(a.wire)
  PROVE  /\ w \in Seq(DapAnswer \cup DapEvent) /\ 1 \in DOMAIN a.wire /\ Head(a.wire) = a.wire[1]
         /\ Head(a.wire) \in DapAnswer \cup DapEvent
         /\ \A i \in DOMAIN w : w[i].kind = "answer" => w[i].id < a.next
         /\ \A id, num \in Nat : DapMadeFor(a, id, num) =>
              \A i \in DOMAIN w : w[i].kind = "answer" /\ w[i].id = id => w[i].num = num
<1>1. a.wire \in Seq(DapAnswer \cup DapEvent)
  BY DEF AdapterRecord
<1>2. /\ w \in Seq(DapAnswer \cup DapEvent) /\ 1 \in DOMAIN a.wire /\ Head(a.wire) = a.wire[1]
      /\ a.wire[1] \in DapAnswer \cup DapEvent
      /\ \A j \in DOMAIN w : j + 1 \in DOMAIN a.wire /\ w[j] = a.wire[j + 1]
  BY <1>1, TailElements
<1>3. \A i \in DOMAIN w : w[i].kind = "answer" => w[i].id < a.next
  BY <1>2 DEF AdapterOK
<1>4. \A id, num \in Nat : DapMadeFor(a, id, num) =>
        \A i \in DOMAIN w : w[i].kind = "answer" /\ w[i].id = id => w[i].num = num
  BY <1>2 DEF DapMadeFor
<1>. QED BY <1>2, <1>3, <1>4

\* The ring takes an event, and keeps its size.
LEMMA RingKeepsSize ==
  ASSUME NEW ring \in Seq(Nat), Len(ring) <= EventRing, NEW x \in Nat,
         NEW r, r = Append(IF Len(ring) >= EventRing THEN Tail(ring) ELSE ring, x)
  PROVE  r \in Seq(Nat) /\ Len(r) <= EventRing
<1>1. CASE Len(ring) >= EventRing
  <2>1. Len(ring) # 0
    BY <1>1, DapAssumption
  <2>2. ring # <<>>
    <3>1. Len(<<>>) = 0
      OBVIOUS
    <3>. QED BY <2>1, <3>1, Zenon
  <2>3. PICK t : t = Tail(ring)
    OBVIOUS
  <2>4. t \in Seq(Nat) /\ Len(t) = Len(ring) - 1
    BY <2>2, <2>3, TailElements
  <2>5. r = Append(t, x)
    BY <1>1, <2>3
  <2>6. r \in Seq(Nat) /\ Len(r) = Len(t) + 1
    BY <2>4, <2>5, AppendElements
  <2>7. Len(ring) \in Nat
    OBVIOUS
  <2>8. Len(r) = Len(ring)
    BY <2>4, <2>6, <2>7
  <2>. QED BY <2>6, <2>8
<1>2. CASE ~(Len(ring) >= EventRing)
  <2>1. r = Append(ring, x)
    BY <1>2
  <2>2. r \in Seq(Nat) /\ Len(r) = Len(ring) + 1
    BY <2>1, AppendElements
  <2>3. Len(ring) \in Nat
    OBVIOUS
  <2>. QED BY <1>2, <2>2, <2>3, DapAssumption
<1>. QED BY <1>1, <1>2

LEMMA RouteMessagePreserves == ASSUME DapInv, NEW k \in DOMAIN adapter, RouteMessage(k) PROVE DapInv'
<1>. DEFINE m == Head(adapter[k].wire)
<1>0. /\ adapter[k] \in AdapterRecord /\ AdapterOK(adapter[k], sent) /\ DapOwnAnswer
      /\ UNCHANGED <<dapSession, sent, left>> /\ adapter[k].wire # <<>> /\ dapOp \in DapOps
  BY DapElement DEF DapInv, DapShapes, RouteMessage
<1>1. PICK w : w = Tail(adapter[k].wire)
  OBVIOUS
<1>2. /\ w \in Seq(DapAnswer \cup DapEvent) /\ 1 \in DOMAIN adapter[k].wire /\ m = adapter[k].wire[1]
      /\ m \in DapAnswer \cup DapEvent
      /\ \A i \in DOMAIN w : w[i].kind = "answer" => w[i].id < adapter[k].next
      /\ \A id, num \in Nat : DapMadeFor(adapter[k], id, num) =>
           \A i \in DOMAIN w : w[i].kind = "answer" /\ w[i].id = id => w[i].num = num
  <2>1. PICK b \in AdapterRecord : b = adapter[k]
    BY <1>0
  <2>2. AdapterOK(b, sent) /\ b.wire # <<>> /\ w = Tail(b.wire)
    BY <1>0, <1>1, <2>1
  <2>3. /\ w \in Seq(DapAnswer \cup DapEvent) /\ 1 \in DOMAIN b.wire /\ Head(b.wire) = b.wire[1]
        /\ Head(b.wire) \in DapAnswer \cup DapEvent
        /\ \A i \in DOMAIN w : w[i].kind = "answer" => w[i].id < b.next
    BY <2>2, WireShorter
  <2>4. \A id, num \in Nat : DapMadeFor(b, id, num) =>
          \A i \in DOMAIN w : w[i].kind = "answer" /\ w[i].id = id => w[i].num = num
    BY <2>2, WireShorter
  <2>. QED BY <2>1, <2>3, <2>4
<1>3. /\ adapter[k].pending \subseteq Nat /\ adapter[k].pending \subseteq 1 .. adapter[k].next - 1
      /\ adapter[k].ring \in Seq(Nat) /\ Len(adapter[k].ring) <= EventRing
  BY <1>0, AdapterParts
<1>. HIDE DEF m
<1>4. CASE /\ m.kind = "answer"
           /\ adapter' = [[adapter EXCEPT ![k].wire = w] EXCEPT ![k].pending = @ \ {m.id}]
           /\ dapOp' = IF m.id \in adapter[k].pending /\ AwaitsId(k, m.id)
                       THEN [dapOp EXCEPT !.reply = <<m>>] ELSE dapOp
  <2>1. PICK P \in SUBSET Nat : P = adapter[k].pending \ {m.id}
    BY <1>3
  <2>2. PICK a : a = [adapter[k] EXCEPT !.wire = w, !.pending = P]
    OBVIOUS
  <2>3. /\ a \in AdapterRecord /\ a.alive = adapter[k].alive /\ a.todo = adapter[k].todo /\ a.next = adapter[k].next
        /\ a.pending = P /\ a.wire = w /\ a.ring = adapter[k].ring /\ a.made = adapter[k].made
        /\ a.frame = adapter[k].frame
    BY <1>0, <1>2, <2>2 DEF AdapterRecord
  <2>4. adapter' = [adapter EXCEPT ![k] = a]
    BY <1>4, <2>1, <2>2
  <2>5. AdapterOK(a, sent)
    BY <1>0, <1>2, <1>3, <2>1, <2>3 DEF AdapterOK
  <2>6. ASSUME NEW id \in Nat, NEW num \in Nat, DapMadeFor(adapter[k], id, num) PROVE DapMadeFor(a, id, num)
    <3>1. \A i \in DOMAIN w : w[i].kind = "answer" /\ w[i].id = id => w[i].num = num
      BY <1>2, <2>6
    <3>2. \A r \in adapter[k].todo : r.id = id => r.num = num
      BY <2>6 DEF DapMadeFor
    <3>. QED BY <2>3, <3>1, <3>2 DEF DapMadeFor
  <2>7. CASE dapOp' = dapOp
    <3>1. DapOwnAnswer'
      BY <1>0, <2>7 DEF DapOwnAnswer
    <3>. QED BY <1>0, <2>3, <2>4, <2>5, <2>6, <2>7, <3>1, DapBeside
  <2>8. CASE AwaitsId(k, m.id) /\ dapOp' = [dapOp EXCEPT !.reply = <<m>>]
    <3>1. m \in DapAnswer
      BY <1>2, <1>4 DEF DapEvent
    <3>2. <<m>> \in Seq(DapAnswer) /\ <<m>>[1] = m
      BY <3>1
    <3>3. dapOp.stage = "wait" /\ dapOp.at = k /\ dapOp.id = m.id
      BY <2>8 DEF AwaitsId
    <3>4. m.num = dapOp.num
      BY <1>2, <1>4, <3>3 DEF DapInv, DapMadeFor
    <3>5. dapOp'.reply = <<m>> /\ dapOp'.num = dapOp.num
      BY <1>0, <2>8, <3>2 DEF DapOps
    <3>6. DapOwnAnswer'
      BY <3>2, <3>4, <3>5 DEF DapOwnAnswer
    <3>. QED BY <1>0, <2>3, <2>4, <2>5, <2>6, <2>8, <3>2, <3>3, <3>6, DapBeside
  <2>. QED BY <1>4, <2>7, <2>8
<1>5. CASE /\ m.kind = "event" /\ UNCHANGED dapOp
           /\ adapter' = [[adapter EXCEPT ![k].wire = w] EXCEPT ![k].ring =
                            Append(IF Len(@) >= EventRing THEN Tail(@) ELSE @, m.stop)]
  <2>1. m.stop \in Nat
    BY <1>2, <1>5 DEF DapAnswer, DapEvent
  <2>2. PICK r : r = Append(IF Len(adapter[k].ring) >= EventRing THEN Tail(adapter[k].ring) ELSE adapter[k].ring, m.stop)
    OBVIOUS
  <2>3. r \in Seq(Nat) /\ Len(r) <= EventRing
    BY <1>3, <2>1, <2>2, RingKeepsSize
  <2>4. PICK a : a = [adapter[k] EXCEPT !.wire = w, !.ring = r]
    OBVIOUS
  <2>5. /\ a \in AdapterRecord /\ a.alive = adapter[k].alive /\ a.todo = adapter[k].todo /\ a.next = adapter[k].next
        /\ a.pending = adapter[k].pending /\ a.wire = w /\ a.ring = r /\ a.made = adapter[k].made
        /\ a.frame = adapter[k].frame
    BY <1>0, <1>2, <2>3, <2>4 DEF AdapterRecord
  <2>6. adapter' = [adapter EXCEPT ![k] = a]
    <3>1. [adapter EXCEPT ![k].wire = w][k].ring = adapter[k].ring
      BY <1>0 DEF AdapterRecord
    <3>. QED BY <1>5, <2>2, <2>4, <3>1
  <2>7. AdapterOK(a, sent)
    BY <1>0, <1>2, <2>3, <2>5 DEF AdapterOK
  <2>8. ASSUME NEW id \in Nat, NEW num \in Nat, DapMadeFor(adapter[k], id, num) PROVE DapMadeFor(a, id, num)
    <3>1. \A i \in DOMAIN w : w[i].kind = "answer" /\ w[i].id = id => w[i].num = num
      BY <1>2, <2>8
    <3>2. \A q \in adapter[k].todo : q.id = id => q.num = num
      BY <2>8 DEF DapMadeFor
    <3>. QED BY <2>5, <3>1, <3>2 DEF DapMadeFor
  <2>9. dapOp' = dapOp /\ DapOwnAnswer'
    BY <1>0, <1>5 DEF DapOwnAnswer
  <2>. QED BY <1>0, <2>5, <2>6, <2>7, <2>8, <2>9, DapBeside
<1>. QED BY <1>1, <1>4, <1>5 DEF RouteMessage, m

LEMMA ReaderEndsPreserves == ASSUME DapInv, NEW k \in DOMAIN adapter, ReaderEnds(k) PROVE DapInv'
<1>0. /\ adapter[k] \in AdapterRecord /\ AdapterOK(adapter[k], sent) /\ DapOwnAnswer
      /\ UNCHANGED <<dapSession, sent, left>> /\ dapOp \in DapOps
  BY DapElement DEF DapInv, DapShapes, ReaderEnds
<1>1. PICK a : a = [adapter[k] EXCEPT !.reading = FALSE, !.pending = {}]
  OBVIOUS
<1>2. /\ a \in AdapterRecord /\ a.alive = adapter[k].alive /\ a.todo = adapter[k].todo /\ a.next = adapter[k].next
      /\ a.pending = {} /\ a.wire = adapter[k].wire /\ a.ring = adapter[k].ring /\ a.made = adapter[k].made
      /\ a.frame = adapter[k].frame
  BY <1>0, <1>1 DEF AdapterRecord
<1>3. adapter' = [adapter EXCEPT ![k] = a]
  BY <1>1 DEF ReaderEnds
<1>4. AdapterOK(a, sent)
  BY <1>0, <1>2 DEF AdapterOK
<1>5. \A id, num \in Nat : DapMadeFor(adapter[k], id, num) => DapMadeFor(a, id, num)
  BY <1>2 DEF DapMadeFor
<1>6. CASE dapOp' = dapOp
  <2>1. DapOwnAnswer'
    BY <1>0, <1>6 DEF DapOwnAnswer
  <2>. QED BY <1>0, <1>2, <1>3, <1>4, <1>5, <1>6, <2>1, DapBeside
<1>7. CASE /\ AwaitsId(k, dapOp.id)
           /\ dapOp' = [dapOp EXCEPT !.reply = <<[kind |-> "answer", id |-> dapOp.id, num |-> dapOp.num, ok |-> FALSE]>>]
  <2>1. PICK m : m = [kind |-> "answer", id |-> dapOp.id, num |-> dapOp.num, ok |-> FALSE]
    OBVIOUS
  <2>2. m \in DapAnswer /\ m.num = dapOp.num
    BY <1>0, <2>1 DEF DapOps, DapAnswer
  <2>3. <<m>> \in Seq(DapAnswer) /\ <<m>>[1] = m
    BY <2>2
  <2>4. dapOp' = [dapOp EXCEPT !.reply = <<m>>] /\ dapOp.stage = "wait"
    BY <1>7, <2>1 DEF AwaitsId
  <2>5. dapOp'.reply = <<m>> /\ dapOp'.num = dapOp.num
    BY <1>0, <2>3, <2>4 DEF DapOps
  <2>6. DapOwnAnswer'
    BY <2>2, <2>3, <2>5 DEF DapOwnAnswer
  <2>. QED BY <1>0, <1>2, <1>3, <1>4, <1>5, <2>3, <2>4, <2>6, DapBeside
<1>. QED BY <1>6, <1>7 DEF ReaderEnds

LEMMA DapEventsPreserves == ASSUME DapInv, NEW n \in DapNames, DapEvents(n) PROVE DapInv'
<1>. DEFINE k == dapSession[n]
<1>0. /\ dapSession \in [DapNames -> 0 .. Len(adapter)] /\ k # 0 /\ adapter \in Seq(AdapterRecord)
      /\ UNCHANGED <<dapSession, dapOp, sent, left>> /\ DapOwnAnswer
  BY DEF DapInv, DapShapes, DapEvents
<1>1. k \in DOMAIN adapter
  <2>1. k \in 0 .. Len(adapter)
    BY <1>0
  <2>. QED BY <1>0, <2>1
<1>2. adapter[k] \in AdapterRecord /\ AdapterOK(adapter[k], sent)
  BY <1>1, DapElement
<1>3. PICK r \in Seq(Nat) : r = <<>> /\ Len(r) = 0
  <2>1. <<>> \in Seq(Nat) /\ Len(<<>>) = 0
    OBVIOUS
  <2>. QED BY <2>1
<1>4. PICK a : a = [adapter[k] EXCEPT !.ring = r]
  OBVIOUS
<1>5. /\ a \in AdapterRecord /\ a.alive = adapter[k].alive /\ a.todo = adapter[k].todo /\ a.next = adapter[k].next
      /\ a.pending = adapter[k].pending /\ a.wire = adapter[k].wire /\ a.ring = r /\ a.made = adapter[k].made
      /\ a.frame = adapter[k].frame
  BY <1>2, <1>4 DEF AdapterRecord
<1>6. adapter' = [adapter EXCEPT ![k] = a]
  BY <1>3, <1>4 DEF DapEvents
<1>7. Len(r) <= EventRing
  BY <1>3, DapAssumption
<1>8. AdapterOK(a, sent)
  BY <1>2, <1>5, <1>7 DEF AdapterOK
<1>9. \A id, num \in Nat : DapMadeFor(adapter[k], id, num) => DapMadeFor(a, id, num)
  BY <1>5 DEF DapMadeFor
<1>10. dapOp' = dapOp /\ DapOwnAnswer'
  BY <1>0 DEF DapOwnAnswer
<1>. QED BY <1>0, <1>1, <1>5, <1>6, <1>8, <1>9, <1>10, DapBeside

LEMMA BeginParts ==
  ASSUME NEW op \in {"start", "stop"} \cup SessionOps, NEW n \in DapNames, NEW k \in Nat,
         NEW plan \in DapPlans \cup {Disconnect}, NEW then \in {"end", "spawn"}, Begin(op, n, k, plan, then)
  PROVE  /\ dapOp' \in DapOps /\ dapOp'.op = op /\ dapOp'.name = n /\ dapOp'.stage = "ask" /\ dapOp'.at = k
         /\ dapOp'.plan = plan /\ dapOp'.then = then /\ dapOp'.reply = <<>>
<1>1. dapOp' = [NoOp EXCEPT !.op = op, !.name = n, !.stage = "ask", !.at = k, !.plan = plan, !.then = then]
  BY DEF Begin
<1>2. NoOp \in DapOps /\ NoOp.reply = <<>>
  BY NoOpIsOp
<1>. QED BY <1>1, <1>2 DEF DapOps

\* The requests of an operation that begins.
LEMMA BeginSends ==
  ASSUME NEW o, o.stage = "ask", o.plan \in DapPlans \cup {Disconnect}, o.then \in {"end", "spawn"}
  PROVE  /\ o.plan = Disconnect /\ o.then = "end" => ToSend(o) = 1
         /\ o.plan = Disconnect /\ o.then = "spawn" => ToSend(o) = 4
         /\ o.plan \in DapPlans /\ o.then = "end" => ToSend(o) \in 1 .. 4
         /\ o.plan \in DapPlans /\ o.then = "end" /\ Len(o.plan) = 2 => ToSend(o) \in 1 .. 3
<1>1. PICK n \in 1 .. 3 : n = Len(o.plan) /\ (o.plan = Disconnect => n = 1)
  <2>1. CASE o.plan = Disconnect
    BY <2>1, DisconnectParts
  <2>2. CASE o.plan \in DapPlans
    BY <2>2, PlanParts
  <2>. QED BY <2>1, <2>2
<1>2. PlanLeft(o) = n
  BY <1>1 DEF PlanLeft
<1>3. SpawnLeft(o) = IF o.then = "spawn" THEN 3 ELSE 0
  BY DEF SpawnLeft
<1>4. CloseLeft(o) \in {0, 1} /\ (o.plan = Disconnect => CloseLeft(o) = 0)
  BY DEF CloseLeft
<1>5. n \in Nat /\ 1 <= n /\ n <= 3
  OBVIOUS
<1>6. ToSend(o) = n + SpawnLeft(o) + CloseLeft(o)
  BY <1>2 DEF ToSend
<1>7. o.plan = Disconnect => n = 1 /\ CloseLeft(o) = 0
  BY <1>1, <1>4
<1>8. Len(o.plan) = 2 => n = 2
  BY <1>1
<1>9. o.then = "end" => SpawnLeft(o) = 0
  BY <1>3
<1>10. o.then = "spawn" => SpawnLeft(o) = 3
  BY <1>3
<1>11. o.then = "end" => ToSend(o) \in 1 .. 4 /\ (n = 2 => ToSend(o) \in 1 .. 3)
  BY <1>4, <1>5, <1>6, <1>9
<1>. QED BY <1>6, <1>7, <1>8, <1>9, <1>10, <1>11

\* An operation begins: what it takes out of the map, it holds.
LEMMA DapBegins ==
  ASSUME DapInv, dapOp = NoOp, sent + 4 <= DapAsks, UNCHANGED <<adapter, sent, left>>, dapOp' \in DapOps, dapOp'.reply = <<>>,
         dapOp'.stage # "wait", OpInv', ToSend(dapOp') \in 0 .. 4,
         dapSession' \in [DapNames -> 0 .. Len(adapter)],
         \A m \in DapNames : dapSession'[m] = dapSession[m] \/ dapOp'.at = dapSession[m]
  PROVE  DapInv'
<1>0. /\ adapter \in Seq(AdapterRecord) /\ left \subseteq DOMAIN adapter /\ sent \in 0 .. DapAsks
      /\ DapNoOrphan /\ \A k \in DOMAIN adapter : AdapterOK(adapter[k], sent) /\ k # 0
  <2>1. adapter \in Seq(AdapterRecord)
    BY DEF DapInv, DapShapes
  <2>2. \A k \in DOMAIN adapter : k # 0
    BY <2>1
  <2>. QED BY <2>1, <2>2 DEF DapInv, DapShapes
<1>1. DapShapes'
  BY <1>0 DEF DapShapes
<1>2. sent' + ToSend(dapOp') <= DapAsks
  <2>1. PICK x \in 0 .. 4 : x = ToSend(dapOp')
    OBVIOUS
  <2>2. sent + x <= DapAsks
    BY <1>0, <2>1, DapAssumption
  <2>. QED BY <2>1, <2>2
<1>3. DapOwnAnswer'
  BY DEF DapOwnAnswer
<1>4. DapNoOrphan'
  <2>. SUFFICES ASSUME NEW k \in DOMAIN adapter, adapter[k].alive
                PROVE  k \in left \/ dapOp'.at = k \/ \E m \in DapNames : dapSession'[m] = k
    BY <1>0 DEF DapNoOrphan
  <2>1. k # 0 /\ NoOp.at = 0
    BY <1>0 DEF NoOp
  <2>2. k \in left \/ \E m \in DapNames : dapSession[m] = k
    BY <1>0, <2>1 DEF DapNoOrphan
  <2>. QED BY <2>2
<1>. QED BY <1>0, <1>1, <1>2, <1>3, <1>4 DEF DapInv

LEMMA MappedAdapter ==
  ASSUME DapInv, NEW n \in DapNames, dapSession[n] # 0
  PROVE  dapSession[n] \in DOMAIN adapter /\ dapSession[n] \in Nat
<1>1. dapSession[n] \in 0 .. Len(adapter) /\ adapter \in Seq(AdapterRecord)
  BY DEF DapInv, DapShapes
<1>. QED BY <1>1

LEMMA SessionLeaves ==
  ASSUME DapInv, NEW n \in DapNames, dapSession' = [dapSession EXCEPT ![n] = 0]
  PROVE  /\ dapSession' \in [DapNames -> 0 .. Len(adapter)] /\ dapSession'[n] = 0
         /\ \A m \in DapNames : m # n => dapSession'[m] = dapSession[m]
<1>1. dapSession \in [DapNames -> 0 .. Len(adapter)] /\ adapter \in Seq(AdapterRecord)
  BY DEF DapInv, DapShapes
<1>2. 0 \in 0 .. Len(adapter)
  BY <1>1
<1>. QED BY <1>1, <1>2

LEMMA DapStartPreserves == ASSUME DapInv, NEW n \in DapNames, DapStart(n) PROVE DapInv'
<1>0. /\ dapOp = NoOp /\ sent + 4 <= DapAsks /\ UNCHANGED <<adapter, sent, left>>
      /\ dapSession' = [dapSession EXCEPT ![n] = 0]
  BY DEF DapStart
<1>1. /\ dapSession' \in [DapNames -> 0 .. Len(adapter)] /\ dapSession'[n] = 0
      /\ \A m \in DapNames : m # n => dapSession'[m] = dapSession[m]
  BY <1>0, SessionLeaves
<1>2. CASE dapSession[n] # 0
  <2>1. dapSession[n] \in DOMAIN adapter /\ dapSession[n] \in Nat
    BY <1>2, MappedAdapter
  <2>2. Begin("start", n, dapSession[n], Disconnect, "spawn")
    BY <1>2, DisconnectParts DEF DapStart
  <2>3. /\ dapOp' \in DapOps /\ dapOp'.op = "start" /\ dapOp'.name = n /\ dapOp'.stage = "ask"
        /\ dapOp'.at = dapSession[n] /\ dapOp'.plan = Disconnect /\ dapOp'.then = "spawn" /\ dapOp'.reply = <<>>
    BY <2>1, <2>2, BeginParts
  <2>4. ToSend(dapOp') = 4
    BY <2>3, BeginSends
  <2>5. OpInv'
    BY <1>0, <1>1, <2>1, <2>3, DisconnectParts DEF OpInv, SessionOps
  <2>6. ToSend(dapOp') \in 0 .. 4
    BY <2>4
  <2>. QED BY <1>0, <1>1, <2>3, <2>5, <2>6, DapBegins
<1>3. CASE dapSession[n] = 0
  <2>1. /\ dapOp' \in DapOps /\ dapOp'.op = "start" /\ dapOp'.name = n /\ dapOp'.stage = "spawn" /\ dapOp'.at = 0
        /\ dapOp'.plan = <<>> /\ dapOp'.then = "end" /\ dapOp'.reply = <<>>
    <3>1. dapOp' = [NoOp EXCEPT !.op = "start", !.name = n, !.stage = "spawn"]
      BY <1>3 DEF DapStart
    <3>. QED BY <3>1, NoOpIsOp DEF DapOps, NoOp
  <2>2. PlanLeft(dapOp') = 0 /\ SpawnLeft(dapOp') = 3 /\ CloseLeft(dapOp') = 0
    BY <2>1 DEF PlanLeft, SpawnLeft, CloseLeft
  <2>3. ToSend(dapOp') \in 0 .. 4
    BY <2>2 DEF ToSend
  <2>4. <<>> \notin DapPlans
    BY PlanParts
  <2>5. OpInv'
    BY <1>0, <1>1, <2>1, <2>4 DEF OpInv, SessionOps
  <2>6. \A m \in DapNames : dapSession'[m] = dapSession[m] \/ dapOp'.at = dapSession[m]
    BY <1>1, <1>3
  <2>. QED BY <1>0, <1>1, <2>1, <2>3, <2>5, <2>6, DapBegins
<1>. QED BY <1>2, <1>3

LEMMA DapStopPreserves == ASSUME DapInv, NEW n \in DapNames, DapStop(n) PROVE DapInv'
<1>0. /\ dapOp = NoOp /\ sent + 4 <= DapAsks /\ UNCHANGED <<adapter, sent, left>> /\ dapSession[n] # 0
      /\ dapSession' = [dapSession EXCEPT ![n] = 0] /\ Begin("stop", n, dapSession[n], Disconnect, "end")
  BY DisconnectParts DEF DapStop
<1>1. /\ dapSession' \in [DapNames -> 0 .. Len(adapter)] /\ dapSession'[n] = 0
      /\ \A m \in DapNames : m # n => dapSession'[m] = dapSession[m]
  BY <1>0, SessionLeaves
<1>2. dapSession[n] \in DOMAIN adapter /\ dapSession[n] \in Nat
  BY <1>0, MappedAdapter
<1>3. /\ dapOp' \in DapOps /\ dapOp'.op = "stop" /\ dapOp'.name = n /\ dapOp'.stage = "ask"
      /\ dapOp'.at = dapSession[n] /\ dapOp'.plan = Disconnect /\ dapOp'.then = "end" /\ dapOp'.reply = <<>>
  BY <1>0, <1>2, BeginParts
<1>4. ToSend(dapOp') \in 0 .. 4
  BY <1>3, BeginSends
<1>5. OpInv'
  BY <1>0, <1>2, <1>3, DisconnectParts DEF OpInv, SessionOps
<1>. QED BY <1>0, <1>1, <1>3, <1>4, <1>5, DapBegins

LEMMA DapCallPreserves ==
  ASSUME DapInv, NEW n \in DapNames, NEW op \in SessionOps, DapCall(n, op)
  PROVE  DapInv'
<1>0. /\ dapOp = NoOp /\ sent + 4 <= DapAsks /\ UNCHANGED <<adapter, sent, left, dapSession>> /\ dapSession[n] # 0
      /\ Begin(op, n, dapSession[n], Plan[op], "end") /\ dapSession \in [DapNames -> 0 .. Len(adapter)]
  BY DEF DapCall, DapInv, DapShapes
<1>1. dapSession[n] \in DOMAIN adapter /\ dapSession[n] \in Nat /\ Plan[op] \in DapPlans
  BY <1>0, MappedAdapter, PlansAreDap
<1>2. /\ dapOp' \in DapOps /\ dapOp'.op = op /\ dapOp'.name = n /\ dapOp'.stage = "ask"
      /\ dapOp'.at = dapSession[n] /\ dapOp'.plan = Plan[op] /\ dapOp'.then = "end" /\ dapOp'.reply = <<>>
  BY <1>0, <1>1, BeginParts
<1>3. ToSend(dapOp') \in 0 .. 4
  BY <1>1, <1>2, BeginSends
<1>4. Plan[op] # <<>> /\ op \notin {"none", "start", "stop"}
  BY <1>1, PlanParts DEF SessionOps
<1>5. OpInv'
  BY <1>0, <1>1, <1>2, <1>4 DEF OpInv
<1>. QED BY <1>0, <1>2, <1>3, <1>5, DapBegins

LEMMA AdapterAt ==
  ASSUME DapInv, dapOp.stage \in {"ask", "wait", "kill", "stopped"}
  PROVE  /\ dapOp.at \in DOMAIN adapter /\ dapOp.op \in {"start", "stop"} \cup SessionOps /\ dapOp \in DapOps
         /\ sent \in 0 .. DapAsks /\ sent \in Nat /\ adapter \in Seq(AdapterRecord)
         /\ dapSession \in [DapNames -> 0 .. Len(adapter)] /\ left \subseteq DOMAIN adapter
         /\ dapOp.stage = "stopped" => dapOp.op \in {"start"} \cup SessionOps
<1>1. dapOp \in DapOps /\ OpInv
  BY DEF DapInv, DapShapes
<1>2. dapOp.op # "none"
  BY <1>1, NoOpIsOp DEF OpInv
<1>3. dapOp.at \in DOMAIN adapter /\ (dapOp.stage = "stopped" => dapOp.op # "stop")
  BY <1>1, <1>2 DEF OpInv
<1>4. dapOp.op \in {"none", "start", "stop"} \cup SessionOps
  BY <1>1 DEF DapOps
<1>5. sent \in Nat
  BY DapAssumption DEF DapInv, DapShapes
<1>. QED BY <1>1, <1>2, <1>3, <1>4, <1>5 DEF DapInv, DapShapes

LEMMA SpawnAdapterPreserves == ASSUME DapInv, SpawnAdapter PROVE DapInv'
<1>0. /\ dapOp.stage = "spawn" /\ UNCHANGED <<dapSession, sent, left>> /\ dapOp \in DapOps /\ OpInv /\ DapNoOrphan
      /\ adapter \in Seq(AdapterRecord) /\ left \subseteq DOMAIN adapter /\ sent \in 0 .. DapAsks
      /\ dapSession \in [DapNames -> 0 .. Len(adapter)] /\ sent + ToSend(dapOp) <= DapAsks
      /\ \A k \in DOMAIN adapter : AdapterOK(adapter[k], sent)
  BY DEF SpawnAdapter, DapInv, DapShapes
<1>1. /\ dapOp.op = "start" /\ dapOp.name \in DapNames /\ dapSession[dapOp.name] = 0
      /\ dapOp.at = 0 \/ ~adapter[dapOp.at].alive
  <2>1. dapOp.op \in {"none", "start", "stop"} \cup SessionOps /\ NoOp.stage # "spawn"
    BY <1>0, NoOpIsOp DEF DapOps
  <2>. QED BY <1>0, <2>1 DEF OpInv
<1>2. Len(adapter) \in Nat /\ DOMAIN adapter = 1 .. Len(adapter)
  BY <1>0
<1>3. \A k \in DOMAIN adapter : adapter[k].alive => k \in left \/ \E n \in DapNames : dapSession[n] = k
  <2>1. 0 \notin DOMAIN adapter
    BY <1>2
  <2>. QED BY <1>0, <1>1, <2>1 DEF DapNoOrphan
<1>4. CASE adapter' = adapter /\ dapOp' = NoOp
  BY <1>0, <1>3, <1>4, DapEnds
<1>5. CASE adapter' = Append(adapter, NewAdapter) /\ Begin("start", dapOp.name, Len(adapter) + 1, Plan.start, "end")
  <2>1. NewAdapter \in AdapterRecord
    <3>1. <<>> \in Seq(DapAnswer \cup DapEvent) /\ <<>> \in Seq(Nat)
      OBVIOUS
    <3>. QED BY <3>1 DEF NewAdapter, AdapterRecord
  <2>2. /\ adapter' \in Seq(AdapterRecord) /\ Len(adapter') = Len(adapter) + 1
        /\ DOMAIN adapter' = DOMAIN adapter \cup {Len(adapter) + 1} /\ adapter'[Len(adapter) + 1] = NewAdapter
        /\ \A j \in DOMAIN adapter : j # Len(adapter) + 1 /\ adapter'[j] = adapter[j]
    BY <1>0, <1>5, <2>1, AppendElements
  <2>3. Plan.start \in DapPlans /\ Plan.start \in StartPlans /\ Len(Plan.start) = 2 /\ Plan.start # <<>>
    BY PlansAreDap, PlanParts
  <2>4. /\ dapOp' \in DapOps /\ dapOp'.op = "start" /\ dapOp'.name = dapOp.name /\ dapOp'.stage = "ask"
        /\ dapOp'.at = Len(adapter) + 1 /\ dapOp'.plan = Plan.start /\ dapOp'.then = "end" /\ dapOp'.reply = <<>>
    <3>1. Len(adapter) + 1 \in Nat
      BY <1>2
    <3>. QED BY <1>1, <1>5, <2>3, <3>1, BeginParts
  <2>5. DapShapes'
    <3>1. dapSession' \in [DapNames -> 0 .. Len(adapter')]
      BY <1>0, <1>2, <2>2
    <3>. QED BY <1>0, <2>2, <2>4, <3>1 DEF DapShapes
  <2>6. OpInv'
    BY <1>0, <1>1, <2>2, <2>3, <2>4 DEF OpInv, SessionOps
  <2>7. sent' + ToSend(dapOp') <= DapAsks
    <3>1. ToSend(dapOp') \in 1 .. 3
      BY <2>3, <2>4, BeginSends
    <3>2. PlanLeft(dapOp) = 0 /\ SpawnLeft(dapOp) = 3 /\ CloseLeft(dapOp) = 0
      BY <1>0 DEF PlanLeft, SpawnLeft, CloseLeft
    <3>3. sent + 3 <= DapAsks
      BY <1>0, <3>2 DEF ToSend
    <3>4. PICK x \in 1 .. 3 : x = ToSend(dapOp')
      BY <3>1
    <3>5. sent + x <= DapAsks
      BY <1>0, <3>3, DapAssumption
    <3>. QED BY <1>0, <3>4, <3>5
  <2>8. DapOwnAnswer'
    BY <2>4 DEF DapOwnAnswer
  <2>9. DapNoOrphan'
    BY <1>0, <1>3, <2>2, <2>4 DEF DapNoOrphan
  <2>10. \A k \in DOMAIN adapter' : AdapterOK(adapter'[k], sent')
    <3>1. AdapterOK(NewAdapter, sent)
      <4>1. sent \in Nat /\ DOMAIN <<>> = {} /\ Len(<<>>) = 0
        BY <1>0, DapAssumption
      <4>. QED BY <4>1, DapAssumption DEF AdapterOK, NewAdapter
    <3>. QED BY <1>0, <2>2, <3>1
  <2>. QED BY <2>4, <2>5, <2>6, <2>7, <2>8, <2>9, <2>10 DEF DapInv
<1>. QED BY <1>4, <1>5 DEF SpawnAdapter

\* A request is registered, under an id of its own, and may be on its way.
LEMMA RegisteredOK ==
  ASSUME NEW a \in AdapterRecord, NEW n \in Nat, AdapterOK(a, n), NEW c \in DapCommands, NEW e \in AdapterRecord,
         e.todo \subseteq a.todo \cup {[id |-> a.next, num |-> n + 1, command |-> c]},
         e.next = a.next + 1, e.pending = a.pending \cup {a.next}, e.wire = a.wire, e.ring = a.ring,
         e.made = a.made, e.frame = a.frame
  PROVE  AdapterOK(e, n + 1) /\ DapMadeFor(e, a.next, n + 1)
<1>1. /\ a.next \in Nat \ {0} /\ a.next <= n + 1 /\ a.pending \subseteq 1 .. a.next - 1
      /\ \A r \in a.todo : r.id < a.next
      /\ \A i \in DOMAIN a.wire : a.wire[i].kind = "answer" => a.wire[i].id < a.next
  BY AdapterParts
<1>2. e.todo \subseteq DapRequest /\ a.wire \in Seq(DapAnswer \cup DapEvent)
  BY DEF AdapterRecord
<1>3. \A r \in e.todo : r.id \in Nat /\ (r.id < a.next \/ (r.id = a.next /\ r.num = n + 1))
  BY <1>1, <1>2 DEF DapRequest
<1>4. \A i \in DOMAIN a.wire : a.wire[i].kind = "answer" => a.wire[i].id \in Nat
  <2>1. \A i \in DOMAIN a.wire : a.wire[i] \in DapAnswer \cup DapEvent
    BY <1>2
  <2>. QED BY <2>1 DEF DapAnswer, DapEvent
<1>5. e.next <= n + 1 + 1 /\ e.pending \subseteq 1 .. e.next - 1
  BY <1>1
<1>6. \A r \in e.todo : r.id < e.next
  BY <1>1, <1>3
<1>7. \A i \in DOMAIN e.wire : e.wire[i].kind = "answer" => e.wire[i].id < e.next
  BY <1>1, <1>4
<1>8. Len(e.ring) <= EventRing /\ e.frame <= e.made
  BY DEF AdapterOK
<1>9. \A r \in e.todo : r.id = a.next => r.num = n + 1
  BY <1>1, <1>3
<1>10. \A i \in DOMAIN e.wire : e.wire[i].kind = "answer" => e.wire[i].id # a.next
  BY <1>1, <1>4
<1>11. DapMadeFor(e, a.next, n + 1)
  BY <1>9, <1>10 DEF DapMadeFor
<1>. QED BY <1>5, <1>6, <1>7, <1>8, <1>11 DEF AdapterOK

\* An operation that is asking has a plan, whose first request it sends.
LEMMA AskingParts ==
  ASSUME DapInv, dapOp.stage \in {"ask", "wait"}
  PROVE  /\ dapOp.plan \in DapPlans \cup {Disconnect} /\ Head(dapOp.plan) \in DapCommands
         /\ dapOp.plan = Disconnect <=> Head(dapOp.plan) = "disconnect"
         /\ Len(dapOp.plan) \in 1 .. 3
         /\ dapOp.op \in SessionOps => dapOp.plan \in DapPlans
         /\ dapOp.op = "stop" => dapOp.plan = Disconnect
         /\ dapOp.op = "start" /\ dapOp.plan # Disconnect => dapOp.plan \in StartPlans /\ dapOp.then = "end"
<1>1. dapOp \in DapOps /\ OpInv
  BY DEF DapInv, DapShapes
<1>2. /\ dapOp.plan \in DapPlans \cup {Disconnect} /\ (dapOp.op \in SessionOps => dapOp.plan \in DapPlans)
      /\ dapOp.op = "stop" => dapOp.plan = Disconnect
      /\ dapOp.op = "start" /\ dapOp.plan \in DapPlans => dapOp.plan \in StartPlans /\ dapOp.then = "end"
  BY <1>1 DEF DapOps, OpInv
<1>3. CASE dapOp.plan = Disconnect
  <2>1. "disconnect" \in DapCommands
    BY DEF DapCommands
  <2>. QED BY <1>2, <1>3, <2>1, DisconnectParts
<1>4. CASE dapOp.plan \in DapPlans
  BY <1>2, <1>4, PlanParts
<1>. QED BY <1>2, <1>3, <1>4

LEMMA DapSendPreserves == ASSUME DapInv, DapSend PROVE DapInv'
<1>. DEFINE k == dapOp.at
            id == adapter[k].next
            entered == [adapter EXCEPT ![k].next = id + 1, ![k].pending = @ \cup {id}]
            request == [id |-> id, num |-> sent', command |-> Head(dapOp.plan)]
<1>0. /\ dapOp.stage = "ask" /\ UNCHANGED <<dapSession, left>> /\ sent' = sent + 1
      /\ k \in DOMAIN adapter /\ dapOp \in DapOps /\ sent \in Nat /\ adapter \in Seq(AdapterRecord)
      /\ adapter[k] \in AdapterRecord /\ AdapterOK(adapter[k], sent) /\ Head(dapOp.plan) \in DapCommands
  BY AdapterAt, AskingParts, DapElement DEF DapSend
<1>1. /\ id \in Nat \ {0} /\ id + 1 \in Nat \ {0} /\ adapter[k].pending \subseteq Nat /\ adapter[k].todo \subseteq DapRequest
  BY <1>0, AdapterParts
<1>2. PICK x \in Nat \ {0} : x = id + 1
  BY <1>1
<1>3. PICK P \in SUBSET Nat : P = adapter[k].pending \cup {id}
  BY <1>1
<1>4. request \in DapRequest
  BY <1>0, <1>1 DEF DapRequest
<1>5. ASSUME NEW T \in SUBSET DapRequest, T \subseteq adapter[k].todo \cup {request},
             NEW a, a = [adapter[k] EXCEPT !.next = x, !.pending = P, !.todo = T], adapter' = [adapter EXCEPT ![k] = a]
      PROVE  /\ adapter' \in Seq(AdapterRecord) /\ Len(adapter') = Len(adapter) /\ DOMAIN adapter' = DOMAIN adapter
             /\ \A j \in DOMAIN adapter' : AdapterOK(adapter'[j], sent')
             /\ \A j \in DOMAIN adapter : adapter'[j].alive => adapter[j].alive
             /\ DapMadeFor(adapter'[k], id, sent')
  <2>1. /\ a \in AdapterRecord /\ a.alive = adapter[k].alive /\ a.todo = T /\ a.next = id + 1
        /\ a.pending = adapter[k].pending \cup {id} /\ a.wire = adapter[k].wire /\ a.ring = adapter[k].ring
        /\ a.made = adapter[k].made /\ a.frame = adapter[k].frame
    BY <1>0, <1>2, <1>3, <1>5 DEF AdapterRecord
  <2>2. PICK s \in AdapterRecord : s = adapter[k]
    BY <1>0
  <2>3. AdapterOK(a, sent + 1) /\ DapMadeFor(a, s.next, sent + 1)
    <3>1. AdapterOK(s, sent) /\ a.todo \subseteq s.todo \cup {[id |-> s.next, num |-> sent + 1, command |-> Head(dapOp.plan)]}
      BY <1>0, <1>5, <2>1, <2>2
    <3>2. /\ a.next = s.next + 1 /\ a.pending = s.pending \cup {s.next} /\ a.wire = s.wire /\ a.ring = s.ring
          /\ a.made = s.made /\ a.frame = s.frame
      BY <2>1, <2>2
    <3>. QED BY <1>0, <2>1, <3>1, <3>2, RegisteredOK
  <2>4. sent <= sent' /\ sent' \in Nat
    BY <1>0
  <2>5. AdapterOK(a, sent') /\ DapMadeFor(a, id, sent')
    BY <1>0, <2>2, <2>3
  <2>6. adapter'[k] = a
    BY <1>0, <1>5
  <2>. QED BY <1>0, <1>5, <2>1, <2>4, <2>5, <2>6, AdapterMoves
<1>6. CASE /\ adapter' = [entered EXCEPT ![k].todo = IF adapter[k].alive THEN @ \cup {request} ELSE @]
           /\ dapOp' = [dapOp EXCEPT !.stage = "wait", !.id = id, !.num = sent', !.reply = <<>>]
  <2>1. PICK T \in SUBSET DapRequest : T = IF adapter[k].alive THEN adapter[k].todo \cup {request} ELSE adapter[k].todo
    BY <1>1, <1>4
  <2>2. PICK a : a = [adapter[k] EXCEPT !.next = x, !.pending = P, !.todo = T]
    OBVIOUS
  <2>3. adapter' = [adapter EXCEPT ![k] = a]
    <3>1. entered = [adapter EXCEPT ![k] = [adapter[k] EXCEPT !.next = x, !.pending = P]]
      BY <1>2, <1>3
    <3>2. entered[k].todo = adapter[k].todo /\ entered[k] = [adapter[k] EXCEPT !.next = x, !.pending = P]
      BY <1>0, <3>1 DEF AdapterRecord
    <3>3. adapter' = [entered EXCEPT ![k] = [entered[k] EXCEPT !.todo = T]]
      BY <1>6, <2>1, <3>2
    <3>. HIDE DEF entered
    <3>4. [entered[k] EXCEPT !.todo = T] = a
      BY <1>0, <2>2, <3>2 DEF AdapterRecord
    <3>5. adapter' = [entered EXCEPT ![k] = a]
      BY <3>3, <3>4
    <3>. QED BY <1>0, <3>1, <3>5
  <2>4. T \subseteq adapter[k].todo \cup {request}
    BY <2>1
  <2>5. /\ adapter' \in Seq(AdapterRecord) /\ Len(adapter') = Len(adapter) /\ DOMAIN adapter' = DOMAIN adapter
        /\ \A j \in DOMAIN adapter' : AdapterOK(adapter'[j], sent')
        /\ \A j \in DOMAIN adapter : adapter'[j].alive => adapter[j].alive
        /\ DapMadeFor(adapter'[k], id, sent')
    BY <1>5, <2>2, <2>3, <2>4
  <2>6. /\ dapOp' \in DapOps /\ dapOp'.op = dapOp.op /\ dapOp'.name = dapOp.name /\ dapOp'.stage = "wait"
        /\ dapOp'.at = k /\ dapOp'.plan = dapOp.plan /\ dapOp'.then = dapOp.then /\ dapOp'.reply = <<>>
        /\ dapOp'.id = id /\ dapOp'.num = sent'
    <3>1. <<>> \in Seq(DapAnswer) /\ sent' \in Nat
      BY <1>0
    <3>. QED BY <1>0, <1>1, <1>6, <3>1 DEF DapOps
  <2>7. OpInv'
    BY <1>0, <2>5, <2>6, NoOpIsOp DEF DapInv, OpInv
  <2>8. DapOwnAnswer'
    BY <2>6 DEF DapOwnAnswer
  <2>9. sent' + ToSend(dapOp') <= DapAsks /\ sent' \in 0 .. DapAsks
    <3>1. PICK n \in 1 .. 3 : n = Len(dapOp.plan)
      BY <1>0, AskingParts
    <3>2. PlanLeft(dapOp) = n /\ PlanLeft(dapOp') = n - 1
      BY <1>0, <2>6, <3>1 DEF PlanLeft
    <3>3. /\ SpawnLeft(dapOp') = SpawnLeft(dapOp) /\ CloseLeft(dapOp') = CloseLeft(dapOp)
          /\ SpawnLeft(dapOp) \in {0, 3} /\ CloseLeft(dapOp) \in {0, 1}
      BY <1>0, <2>6 DEF SpawnLeft, CloseLeft
    <3>4. /\ ToSend(dapOp) = n + SpawnLeft(dapOp) + CloseLeft(dapOp)
          /\ ToSend(dapOp') = n - 1 + SpawnLeft(dapOp) + CloseLeft(dapOp)
      BY <3>2, <3>3 DEF ToSend
    <3>5. sent + ToSend(dapOp) <= DapAsks
      BY DEF DapInv
    <3>6. n \in Nat /\ n >= 1 /\ SpawnLeft(dapOp) \in Nat /\ CloseLeft(dapOp) \in Nat
      BY <3>3
    <3>7. ToSend(dapOp') \in Nat /\ sent' + ToSend(dapOp') = sent + ToSend(dapOp)
      BY <1>0, <3>4, <3>6
    <3>8. sent' + ToSend(dapOp') <= DapAsks
      BY <3>5, <3>7
    <3>. QED BY <1>0, <3>7, <3>8, DapAssumption
  <2>. QED BY <1>0, <2>5, <2>6, <2>7, <2>8, <2>9, DapGoesOn
<1>7. CASE adapter' = entered /\ dapOp' = Failed
  <2>1. PICK T \in SUBSET DapRequest : T = adapter[k].todo
    BY <1>1
  <2>2. PICK a : a = [adapter[k] EXCEPT !.next = x, !.pending = P, !.todo = T]
    OBVIOUS
  <2>3. adapter' = [adapter EXCEPT ![k] = a]
    <3>1. entered = [adapter EXCEPT ![k] = [adapter[k] EXCEPT !.next = x, !.pending = P]]
      BY <1>2, <1>3
    <3>2. a = [adapter[k] EXCEPT !.next = x, !.pending = P]
      BY <1>0, <2>1, <2>2 DEF AdapterRecord
    <3>. QED BY <1>7, <3>1, <3>2
  <2>4. T \subseteq adapter[k].todo \cup {request}
    BY <2>1
  <2>5. /\ adapter' \in Seq(AdapterRecord) /\ Len(adapter') = Len(adapter) /\ DOMAIN adapter' = DOMAIN adapter
        /\ \A j \in DOMAIN adapter' : AdapterOK(adapter'[j], sent')
        /\ \A j \in DOMAIN adapter : adapter'[j].alive => adapter[j].alive
    BY <1>5, <2>2, <2>3, <2>4
  <2>. QED BY <1>0, <1>7, <2>5, DapFails
<1>. QED BY <1>6, <1>7 DEF DapSend

LEMMA OneLessCounts == \A n \in 1 .. 3 : n - 1 \in Nat
OBVIOUS

\* The operation goes on after an answer: with the rest of its plan, or to wait for
\* a stop.
LEMMA DapProceeds ==
  ASSUME DapInv, dapOp.stage = "wait", dapOp.plan # Disconnect, UNCHANGED <<dapSession, sent, left>>,
         adapter' \in Seq(AdapterRecord), Len(adapter') = Len(adapter), DOMAIN adapter' = DOMAIN adapter,
         \A j \in DOMAIN adapter' : AdapterOK(adapter'[j], sent'),
         \A j \in DOMAIN adapter : adapter'[j].alive => adapter[j].alive,
         \/ Tail(dapOp.plan) # <<>> /\ dapOp' = [dapOp EXCEPT !.stage = "ask", !.plan = Tail(dapOp.plan), !.reply = <<>>]
         \/ dapOp.op \in {"start"} \cup SessionOps /\ dapOp' = [dapOp EXCEPT !.stage = "stopped", !.reply = <<>>]
  PROVE  DapInv'
<1>0. /\ dapOp \in DapOps /\ OpInv /\ dapOp.at \in DOMAIN adapter /\ sent \in 0 .. DapAsks /\ sent \in Nat
      /\ dapOp.plan \in DapPlans /\ dapOp.op \in {"start"} \cup SessionOps /\ sent + ToSend(dapOp) <= DapAsks
      /\ (dapOp.op = "start" => dapOp.plan \in StartPlans /\ dapOp.then = "end" /\ dapOp.name \in DapNames
                                  /\ dapSession[dapOp.name] = 0)
  BY AdapterAt, AskingParts DEF DapInv, OpInv
<1>1. /\ Tail(dapOp.plan) \in DapPlans \cup {<<>>} /\ Len(Tail(dapOp.plan)) = Len(dapOp.plan) - 1
      /\ Len(dapOp.plan) \in 1 .. 3 /\ (dapOp.op = "start" => Tail(dapOp.plan) \in StartPlans \cup {<<>>})
  BY <1>0, PlanParts, StartPlanParts
<1>2. PICK n \in 1 .. 3 : n = Len(dapOp.plan)
  BY <1>1
<1>3. /\ PlanLeft(dapOp) = n - 1 /\ SpawnLeft(dapOp) \in {0, 3} /\ CloseLeft(dapOp) \in {0, 1}
      /\ ToSend(dapOp) = PlanLeft(dapOp) + SpawnLeft(dapOp) + CloseLeft(dapOp)
  <2>1. PlanLeft(dapOp) = n - 1
    BY <1>2 DEF PlanLeft
  <2>2. SpawnLeft(dapOp) \in {0, 3}
    BY DEF SpawnLeft
  <2>3. CloseLeft(dapOp) \in {0, 1}
    BY DEF CloseLeft
  <2>4. ToSend(dapOp) = PlanLeft(dapOp) + SpawnLeft(dapOp) + CloseLeft(dapOp)
    BY DEF ToSend
  <2>. QED BY <2>1, <2>2, <2>3, <2>4
<1>4. n - 1 \in Nat /\ ToSend(dapOp) = n - 1 + SpawnLeft(dapOp) + CloseLeft(dapOp)
  <2>1. ToSend(dapOp) = n - 1 + SpawnLeft(dapOp) + CloseLeft(dapOp)
    BY <1>3
  <2>2. n - 1 \in Nat
    BY OneLessCounts
  <2>. QED BY <2>1, <2>2
<1>5. CASE Tail(dapOp.plan) # <<>> /\ dapOp' = [dapOp EXCEPT !.stage = "ask", !.plan = Tail(dapOp.plan), !.reply = <<>>]
  <2>1. PICK p \in DapPlans : p = Tail(dapOp.plan)
    BY <1>1, <1>5
  <2>2. /\ dapOp' \in DapOps /\ dapOp'.op = dapOp.op /\ dapOp'.name = dapOp.name /\ dapOp'.stage = "ask"
        /\ dapOp'.at = dapOp.at /\ dapOp'.plan = p /\ dapOp'.then = dapOp.then /\ dapOp'.reply = <<>>
    <3>1. <<>> \in Seq(DapAnswer)
      OBVIOUS
    <3>. QED BY <1>0, <1>5, <2>1, <3>1 DEF DapOps
  <2>3. p # <<>> /\ p # Disconnect /\ (dapOp.op = "start" => p \in StartPlans)
    BY <1>1, <1>5, <2>1, PlanParts
  <2>4. OpInv'
    <3>1. dapOp.op \in SessionOps => /\ dapOp.then = "end" /\ dapOp.name \in DapNames
                                     /\ dapSession[dapOp.name] = dapOp.at
      BY <1>0 DEF OpInv
    <3>2. dapOp.op \notin {"none", "stop"} /\ (dapOp.op = "start" => dapOp.op \notin SessionOps)
      BY <1>0 DEF SessionOps
    <3>. QED BY <1>0, <2>2, <2>3, <3>1, <3>2 DEF OpInv
  <2>5. DapOwnAnswer'
    BY <2>2 DEF DapOwnAnswer
  <2>6. sent' + ToSend(dapOp') <= DapAsks
    <3>1. PlanLeft(dapOp') = n - 1
      BY <1>1, <1>2, <2>1, <2>2 DEF PlanLeft
    <3>2. SpawnLeft(dapOp') = SpawnLeft(dapOp) /\ CloseLeft(dapOp') = CloseLeft(dapOp)
      BY <2>2, <2>3 DEF SpawnLeft, CloseLeft
    <3>3. ToSend(dapOp') = ToSend(dapOp)
      BY <1>4, <3>1, <3>2 DEF ToSend
    <3>. QED BY <1>0, <3>3
  <2>. QED BY <1>0, <2>2, <2>4, <2>5, <2>6, DapGoesOn
<1>6. CASE dapOp' = [dapOp EXCEPT !.stage = "stopped", !.reply = <<>>]
  <2>1. /\ dapOp' \in DapOps /\ dapOp'.op = dapOp.op /\ dapOp'.name = dapOp.name /\ dapOp'.stage = "stopped"
        /\ dapOp'.at = dapOp.at /\ dapOp'.plan = dapOp.plan /\ dapOp'.then = dapOp.then /\ dapOp'.reply = <<>>
    <3>1. <<>> \in Seq(DapAnswer)
      OBVIOUS
    <3>. QED BY <1>0, <1>6, <3>1 DEF DapOps
  <2>2. OpInv'
    <3>1. dapOp.op \in SessionOps => /\ dapOp.then = "end" /\ dapOp.name \in DapNames
                                     /\ dapSession[dapOp.name] = dapOp.at
      BY <1>0 DEF OpInv
    <3>2. dapOp.op \notin {"none", "stop"} /\ (dapOp.op = "start" => dapOp.op \notin SessionOps)
      BY <1>0 DEF SessionOps
    <3>. QED BY <1>0, <2>1, <3>1, <3>2 DEF OpInv
  <2>3. DapOwnAnswer'
    BY <2>1 DEF DapOwnAnswer
  <2>4. sent' + ToSend(dapOp') <= DapAsks
    <3>1. PlanLeft(dapOp') = 0 /\ SpawnLeft(dapOp') = SpawnLeft(dapOp) /\ CloseLeft(dapOp') = 0
      BY <1>0, <2>1 DEF PlanLeft, SpawnLeft, CloseLeft
    <3>2. ToSend(dapOp') = SpawnLeft(dapOp)
      BY <1>3, <3>1 DEF ToSend
    <3>3. sent + SpawnLeft(dapOp) <= DapAsks
      <4>1. PICK m \in Nat, p \in Nat, c \in Nat, l \in Nat :
              m = sent /\ p = SpawnLeft(dapOp) /\ c = CloseLeft(dapOp) /\ l = n - 1
        BY <1>0, <1>3, <1>4
      <4>2. m + (l + p + c) <= DapAsks
        BY <1>0, <1>4, <4>1
      <4>3. m + p <= DapAsks
        <5>1. m \in Nat /\ p \in Nat /\ c \in Nat /\ l \in Nat
          BY <4>1
        <5>2. DapAsks \in Nat
          BY DapAssumption
        <5>. QED BY ONLY <4>2, <5>1, <5>2
      <4>. QED BY <4>1, <4>3
    <3>. QED BY <1>0, <3>2, <3>3
  <2>. QED BY <1>0, <2>1, <2>2, <2>3, <2>4, DapGoesOn
<1>. QED BY <1>5, <1>6

LEMMA DapReplyPreserves == ASSUME DapInv, DapReply PROVE DapInv'
<1>. DEFINE k == dapOp.at
            ok == dapOp.reply[1].ok \/ Head(dapOp.plan) = "configurationDone"
            rest == Tail(dapOp.plan)
<1>0. /\ dapOp.stage = "wait" /\ UNCHANGED <<dapSession, sent, left>> /\ k \in DOMAIN adapter /\ dapOp \in DapOps
      /\ sent \in Nat /\ sent \in 0 .. DapAsks /\ adapter \in Seq(AdapterRecord)
      /\ dapOp.op \in {"start", "stop"} \cup SessionOps
      /\ adapter[k] \in AdapterRecord /\ AdapterOK(adapter[k], sent)
  BY AdapterAt, DapElement DEF DapReply
<1>1. /\ adapter' \in Seq(AdapterRecord) /\ Len(adapter') = Len(adapter) /\ DOMAIN adapter' = DOMAIN adapter
      /\ \A j \in DOMAIN adapter' : AdapterOK(adapter'[j], sent')
      /\ \A j \in DOMAIN adapter : adapter'[j].alive => adapter[j].alive
  <2>1. CASE adapter' = [adapter EXCEPT ![k].frame = adapter[k].made]
    <3>1. PICK x \in Nat : x = adapter[k].made
      BY <1>0, AdapterParts
    <3>2. PICK a : a = [adapter[k] EXCEPT !.frame = x]
      OBVIOUS
    <3>3. /\ a \in AdapterRecord /\ a.alive = adapter[k].alive /\ a.todo = adapter[k].todo /\ a.next = adapter[k].next
          /\ a.pending = adapter[k].pending /\ a.wire = adapter[k].wire /\ a.ring = adapter[k].ring
          /\ a.made = adapter[k].made /\ a.frame = x
      BY <1>0, <3>2 DEF AdapterRecord
    <3>4. adapter' = [adapter EXCEPT ![k] = a]
      BY <2>1, <3>1, <3>2
    <3>5. a.frame <= a.made
      BY <3>1, <3>3
    <3>6. AdapterOK(a, sent')
      BY <1>0, <3>3, <3>5 DEF AdapterOK
    <3>7. sent <= sent' /\ sent' \in Nat
      BY <1>0
    <3>. QED BY <1>0, <3>3, <3>4, <3>6, <3>7, AdapterMoves
  <2>2. CASE adapter' = adapter
    BY <1>0, <2>2 DEF DapInv
  <2>. QED BY <2>1, <2>2 DEF DapReply
<1>2. \/ dapOp' = Failed
      \/ /\ dapOp.plan # Disconnect
         /\ \/ rest # <<>> /\ dapOp' = [dapOp EXCEPT !.stage = "ask", !.plan = rest, !.reply = <<>>]
            \/ dapOp.op \in {"start", "step"} /\ dapOp' = [dapOp EXCEPT !.stage = "stopped", !.reply = <<>>]
            \/ dapOp.op \notin {"start", "stop"} /\ dapOp' = NoOp
  <2>1. /\ dapOp.plan = Disconnect <=> Head(dapOp.plan) = "disconnect"
        /\ dapOp.op = "stop" => dapOp.plan = Disconnect
    BY <1>0, AskingParts
  <2>2. dapOp' \in IF ~ok \/ Head(dapOp.plan) = "disconnect" THEN {Failed}
                   ELSE IF rest # <<>>
                   THEN {[dapOp EXCEPT !.stage = "ask", !.plan = rest, !.reply = <<>>]}
                        \cup (IF dapOp.op = "variables" THEN {NoOp} ELSE {})
                   ELSE IF dapOp.op \in {"start", "step"} THEN {[dapOp EXCEPT !.stage = "stopped", !.reply = <<>>]}
                   ELSE {NoOp}
    BY DEF DapReply
  <2>. HIDE DEF rest, ok
  <2>. QED BY <2>1, <2>2
<1>3. CASE dapOp' = Failed
  BY <1>0, <1>1, <1>3, DapFails
<1>4. CASE dapOp.plan # Disconnect /\ rest # <<>> /\ dapOp' = [dapOp EXCEPT !.stage = "ask", !.plan = rest, !.reply = <<>>]
  BY <1>0, <1>1, <1>4, DapProceeds
<1>5. CASE /\ dapOp.plan # Disconnect /\ dapOp.op \in {"start", "step"}
           /\ dapOp' = [dapOp EXCEPT !.stage = "stopped", !.reply = <<>>]
  <2>1. dapOp.op \in {"start"} \cup SessionOps
    BY <1>5 DEF SessionOps
  <2>. QED BY <1>0, <1>1, <1>5, <2>1, DapProceeds
<1>6. CASE dapOp.op \notin {"start", "stop"} /\ dapOp' = NoOp
  BY <1>0, <1>1, <1>6, DapFinishes
<1>. QED BY <1>2, <1>3, <1>4, <1>5, <1>6

LEMMA DapTimeoutPreserves == ASSUME DapInv, DapTimeout PROVE DapInv'
<1>. DEFINE k == dapOp.at
<1>0. /\ dapOp.stage = "wait" /\ UNCHANGED <<dapSession, sent, left>> /\ k \in DOMAIN adapter /\ dapOp \in DapOps
      /\ sent \in Nat /\ sent \in 0 .. DapAsks /\ adapter \in Seq(AdapterRecord)
      /\ dapOp.op \in {"start", "stop"} \cup SessionOps
      /\ adapter[k] \in AdapterRecord /\ AdapterOK(adapter[k], sent)
  BY AdapterAt, DapElement DEF DapTimeout
<1>1. adapter[k].pending \subseteq Nat /\ adapter[k].pending \subseteq 1 .. adapter[k].next - 1
  BY <1>0, AdapterParts
<1>2. PICK P \in SUBSET Nat : P = adapter[k].pending \ {dapOp.id}
  BY <1>1
<1>3. PICK a : a = [adapter[k] EXCEPT !.pending = P]
  OBVIOUS
<1>4. /\ a \in AdapterRecord /\ a.alive = adapter[k].alive /\ a.todo = adapter[k].todo /\ a.next = adapter[k].next
      /\ a.pending = P /\ a.wire = adapter[k].wire /\ a.ring = adapter[k].ring
      /\ a.made = adapter[k].made /\ a.frame = adapter[k].frame
  BY <1>0, <1>3 DEF AdapterRecord
<1>5. adapter' = [adapter EXCEPT ![k] = a]
  BY <1>2, <1>3 DEF DapTimeout
<1>6. AdapterOK(a, sent')
  BY <1>0, <1>1, <1>2, <1>4 DEF AdapterOK
<1>7. /\ adapter' \in Seq(AdapterRecord) /\ Len(adapter') = Len(adapter) /\ DOMAIN adapter' = DOMAIN adapter
      /\ \A j \in DOMAIN adapter' : AdapterOK(adapter'[j], sent')
      /\ \A j \in DOMAIN adapter : adapter'[j].alive => adapter[j].alive
  <2>1. sent <= sent' /\ sent' \in Nat
    BY <1>0
  <2>. QED BY <1>0, <1>4, <1>5, <1>6, <2>1, AdapterMoves
<1>8. CASE Head(dapOp.plan) = "configurationDone" /\ dapOp' = NoOp
  <2>1. dapOp.op \in SessionOps
    <3>1. dapOp.plan # Disconnect
      BY <1>8, DisconnectParts
    <3>2. dapOp.op # "stop" /\ (dapOp.op = "start" => dapOp.plan \in StartPlans)
      BY <1>0, <3>1, AskingParts
    <3>. QED BY <1>0, <1>8, <3>2, StartPlanParts
  <2>. QED BY <1>0, <1>7, <1>8, <2>1, DapFinishes
<1>9. CASE dapOp' = Failed
  BY <1>0, <1>7, <1>9, DapFails
<1>. QED BY <1>8, <1>9 DEF DapTimeout

\* An adapter that is unheld has no requests and nothing to read.
LEMMA UnheldOK ==
  ASSUME NEW s \in AdapterRecord, NEW n \in Nat
  PROVE  /\ Unheld(s) \in AdapterRecord /\ AdapterOK(Unheld(s), n) /\ Unheld(s).alive = s.alive
         /\ [Unheld(s) EXCEPT !.alive = FALSE] \in AdapterRecord
         /\ AdapterOK([Unheld(s) EXCEPT !.alive = FALSE], n) /\ ~[Unheld(s) EXCEPT !.alive = FALSE].alive
<1>1. <<>> \in Seq(DapAnswer \cup DapEvent) /\ <<>> \in Seq(Nat) /\ DOMAIN <<>> = {} /\ Len(<<>>) = 0
  OBVIOUS
<1>2. NewAdapter \in AdapterRecord
  BY <1>1 DEF NewAdapter, AdapterRecord
<1>3. s.alive \in BOOLEAN
  BY DEF AdapterRecord
<1>4. ASSUME NEW e \in AdapterRecord, e.next = 1, e.pending = {}, e.todo = {}, e.wire = <<>>, e.ring = <<>>,
             e.made = 0, e.frame = 0
      PROVE  AdapterOK(e, n)
  <2>1. e.next <= n + 1 /\ Len(e.ring) <= EventRing /\ e.frame <= e.made
    BY <1>1, <1>4, DapAssumption
  <2>. QED BY <1>1, <1>4, <2>1 DEF AdapterOK
<1>5. PICK u : u = Unheld(s)
  OBVIOUS
<1>6. /\ u \in AdapterRecord /\ u.next = 1 /\ u.pending = {} /\ u.todo = {} /\ u.wire = <<>> /\ u.ring = <<>>
      /\ u.made = 0 /\ u.frame = 0 /\ u.alive = s.alive
  BY <1>2, <1>3, <1>5 DEF Unheld, NewAdapter, AdapterRecord
<1>7. PICK d : d = [u EXCEPT !.alive = FALSE]
  OBVIOUS
<1>8. /\ d \in AdapterRecord /\ d.next = 1 /\ d.pending = {} /\ d.todo = {} /\ d.wire = <<>> /\ d.ring = <<>>
      /\ d.made = 0 /\ d.frame = 0 /\ ~d.alive
  BY <1>6, <1>7 DEF AdapterRecord
<1>9. AdapterOK(u, n) /\ AdapterOK(d, n)
  BY <1>4, <1>6, <1>8
<1>. QED BY <1>5, <1>6, <1>7, <1>8, <1>9

LEMMA KillAdapterPreserves == ASSUME DapInv, KillAdapter PROVE DapInv'
<1>. DEFINE k == dapOp.at
<1>0. /\ dapOp.stage = "kill" /\ UNCHANGED <<dapSession, sent, left>> /\ k \in DOMAIN adapter /\ dapOp \in DapOps
      /\ sent \in Nat /\ sent \in 0 .. DapAsks /\ adapter \in Seq(AdapterRecord) /\ left \subseteq DOMAIN adapter
      /\ dapSession \in [DapNames -> 0 .. Len(adapter)] /\ adapter[k] \in AdapterRecord /\ OpInv /\ DapNoOrphan
      /\ dapOp.op \in {"start", "stop"} \cup SessionOps
  BY AdapterAt, DapElement DEF KillAdapter, DapInv
<1>1. PICK a : a = [Unheld(adapter[k]) EXCEPT !.alive = FALSE]
  OBVIOUS
<1>2. a \in AdapterRecord /\ AdapterOK(a, sent) /\ ~a.alive
  BY <1>0, <1>1, UnheldOK
<1>3. adapter' = [adapter EXCEPT ![k] = a]
  BY <1>1 DEF KillAdapter
<1>4. /\ adapter' \in Seq(AdapterRecord) /\ Len(adapter') = Len(adapter) /\ DOMAIN adapter' = DOMAIN adapter
      /\ adapter'[k] = a /\ \A j \in DOMAIN adapter' : AdapterOK(adapter'[j], sent')
      /\ \A j \in DOMAIN adapter : adapter'[j].alive => adapter[j].alive
  <2>1. sent <= sent' /\ sent' \in Nat /\ AdapterOK(a, sent')
    BY <1>0, <1>2
  <2>. QED BY <1>0, <1>2, <1>3, <2>1, AdapterMoves
<1>5. CASE dapOp.then # "spawn" /\ dapOp' = NoOp
  <2>1. \A j \in DOMAIN adapter' : adapter'[j].alive => j \in left' \/ \E n \in DapNames : dapSession'[n] = j
    BY <1>0, <1>2, <1>4 DEF DapNoOrphan
  <2>. QED BY <1>0, <1>4, <1>5, <2>1, DapEnds
<1>6. CASE dapOp.then = "spawn" /\ dapOp' = [dapOp EXCEPT !.stage = "spawn"]
  <2>1. /\ dapOp' \in DapOps /\ dapOp'.op = dapOp.op /\ dapOp'.name = dapOp.name /\ dapOp'.stage = "spawn"
        /\ dapOp'.at = k /\ dapOp'.plan = dapOp.plan /\ dapOp'.then = "spawn" /\ dapOp'.reply = dapOp.reply
        /\ dapOp'.num = dapOp.num
    BY <1>0, <1>6 DEF DapOps
  <2>2. /\ dapOp.op = "start" /\ dapOp.name \in DapNames /\ dapSession[dapOp.name] = 0 /\ dapOp.plan \notin DapPlans
    BY <1>0, <1>6 DEF OpInv
  <2>3. OpInv'
    BY <1>0, <1>2, <1>4, <2>1, <2>2 DEF OpInv, SessionOps
  <2>4. DapOwnAnswer'
    BY <2>1 DEF DapInv, DapOwnAnswer
  <2>5. sent' + ToSend(dapOp') <= DapAsks
    <3>1. /\ PlanLeft(dapOp') = PlanLeft(dapOp) /\ SpawnLeft(dapOp') = SpawnLeft(dapOp)
          /\ CloseLeft(dapOp') = CloseLeft(dapOp)
      BY <1>0, <1>6, <2>1 DEF PlanLeft, SpawnLeft, CloseLeft
    <3>2. ToSend(dapOp') = ToSend(dapOp)
      BY <3>1 DEF ToSend
    <3>. QED BY <1>0, <3>2 DEF DapInv
  <2>. QED BY <1>0, <1>4, <2>1, <2>3, <2>4, <2>5, DapGoesOn
<1>. QED BY <1>5, <1>6 DEF KillAdapter

LEMMA StopSeenPreserves == ASSUME DapInv, StopSeen PROVE DapInv'
<1>0. /\ dapOp.stage = "stopped" /\ UNCHANGED <<adapter, sent, left>> /\ dapOp' = NoOp /\ dapOp.at \in DOMAIN adapter
      /\ dapOp \in DapOps /\ dapOp.op \in {"start"} \cup SessionOps
      /\ sent \in 0 .. DapAsks /\ adapter \in Seq(AdapterRecord) /\ left \subseteq DOMAIN adapter
      /\ dapSession \in [DapNames -> 0 .. Len(adapter)] /\ OpInv /\ DapNoOrphan
      /\ \A j \in DOMAIN adapter : AdapterOK(adapter[j], sent)
      /\ dapSession' = IF dapOp.op = "start" THEN [dapSession EXCEPT ![dapOp.name] = dapOp.at] ELSE dapSession
  BY AdapterAt DEF StopSeen, DapInv
<1>1. CASE dapOp.op = "start"
  <2>1. dapOp.name \in DapNames /\ dapSession[dapOp.name] = 0
    BY <1>0, <1>1 DEF OpInv
  <2>2. dapOp.at \in 0 .. Len(adapter) /\ 0 \notin DOMAIN adapter
    BY <1>0
  <2>3. /\ dapSession' \in [DapNames -> 0 .. Len(adapter)] /\ dapSession'[dapOp.name] = dapOp.at
        /\ \A m \in DapNames : m # dapOp.name => dapSession'[m] = dapSession[m]
    BY <1>0, <1>1, <2>1, <2>2
  <2>4. \A j \in DOMAIN adapter' : adapter'[j].alive => j \in left' \/ \E n \in DapNames : dapSession'[n] = j
    <3>. SUFFICES ASSUME NEW j \in DOMAIN adapter, adapter[j].alive
                  PROVE  j \in left \/ \E n \in DapNames : dapSession'[n] = j
      BY <1>0
    <3>1. j \in left \/ j = dapOp.at \/ \E n \in DapNames : dapSession[n] = j
      BY <1>0 DEF DapNoOrphan
    <3>2. ASSUME NEW n \in DapNames, dapSession[n] = j PROVE dapSession'[n] = j
      BY <2>1, <2>2, <2>3, <3>2
    <3>. QED BY <2>1, <2>3, <3>1, <3>2
  <2>. QED BY <1>0, <2>3, <2>4, DapEnds
<1>2. CASE dapOp.op \in SessionOps
  <2>1. dapOp.op # "start"
    BY <1>2 DEF SessionOps
  <2>. QED BY <1>0, <1>2, <2>1, DapFinishes
<1>. QED BY <1>0, <1>1, <1>2

LEMMA DapDroppedPreserves == ASSUME DapInv, DapDropped PROVE DapInv'
<1>0. /\ left' = {k \in DOMAIN adapter : adapter[k].alive} /\ adapter' = [k \in DOMAIN adapter |-> Unheld(adapter[k])]
      /\ dapSession' = [n \in DapNames |-> 0] /\ dapOp' = NoOp /\ UNCHANGED sent
      /\ adapter \in Seq(AdapterRecord) /\ sent \in 0 .. DapAsks /\ sent \in Nat
  <2>1. sent \in Nat
    BY DapAssumption DEF DapInv, DapShapes
  <2>. QED BY <2>1 DEF DapDropped, DapInv, DapShapes
<1>1. DOMAIN adapter = 1 .. Len(adapter) /\ Len(adapter) \in Nat
  BY <1>0
<1>2. ASSUME NEW k \in DOMAIN adapter
      PROVE  Unheld(adapter[k]) \in AdapterRecord /\ AdapterOK(Unheld(adapter[k]), sent)
               /\ Unheld(adapter[k]).alive = adapter[k].alive
  <2>1. PICK s \in AdapterRecord : s = adapter[k]
    BY <1>0
  <2>2. AdapterOK(s, sent)
    BY <2>1, DapElement
  <2>3. /\ Unheld(s) \in AdapterRecord /\ AdapterOK(Unheld(s), sent)
        /\ Unheld(s).alive = s.alive
    BY <1>0, <2>2, UnheldOK
  <2>. QED BY <2>1, <2>3
<1>3. /\ DOMAIN adapter' = DOMAIN adapter
      /\ \A k \in DOMAIN adapter : /\ adapter'[k] \in AdapterRecord /\ AdapterOK(adapter'[k], sent')
                                   /\ adapter'[k].alive = adapter[k].alive
  <2>1. DOMAIN adapter' = DOMAIN adapter /\ \A k \in DOMAIN adapter : adapter'[k] = Unheld(adapter[k])
    BY <1>0
  <2>. QED BY <1>0, <1>2, <2>1
<1>4. adapter' \in Seq(AdapterRecord) /\ Len(adapter') = Len(adapter)
  <2>1. adapter' \in [1 .. Len(adapter) -> AdapterRecord]
    BY <1>0, <1>1, <1>3
  <2>. QED BY <1>1, <2>1
<1>5. dapSession' \in [DapNames -> 0 .. Len(adapter')]
  <2>1. 0 \in 0 .. Len(adapter)
    BY <1>1
  <2>. QED BY <1>0, <1>4, <2>1
<1>6. left' \subseteq DOMAIN adapter' /\ \A k \in DOMAIN adapter' : adapter'[k].alive => k \in left'
  BY <1>0, <1>3
<1>. QED BY <1>0, <1>3, <1>4, <1>5, <1>6, DapEnds

LEMMA DapSame == ASSUME DapInv, UNCHANGED <<adapter, dapSession, dapOp, sent, left>> PROVE DapInv'
<1>1. DapShapes' /\ DapOwnAnswer' /\ DapNoOrphan'
  BY DEF DapInv, DapShapes, DapOwnAnswer, DapNoOrphan
<1>2. OpInv'
  BY DEF DapInv, OpInv
<1>. QED BY <1>1, <1>2 DEF DapInv

LEMMA DapStep == ASSUME DapInv, [DapNext]_dapVars PROVE DapInv'
<1>1. CASE UNCHANGED dapVars
  BY <1>1, DapSame DEF dapVars
<1>2. CASE \E n \in DapNames :
             DapStart(n) \/ DapStop(n) \/ DapEvents(n)
               \/ \E op \in {"breakpoints", "stack", "variables", "run", "step", "read"} : DapCall(n, op)
  BY <1>2, DapStartPreserves, DapStopPreserves, DapEventsPreserves, DapCallPreserves DEF SessionOps
<1>3. CASE DapCaller
  BY <1>3, SpawnAdapterPreserves, DapSendPreserves, DapReplyPreserves, DapTimeoutPreserves, KillAdapterPreserves,
     StopSeenPreserves
  DEF DapCaller
<1>4. CASE DapAdapter
  BY <1>4, RouteMessagePreserves, ReaderEndsPreserves, AdapterDiesPreserves, DebuggeeEventPreserves,
     AdapterAnswersPreserves
  DEF DapAdapter
<1>5. CASE DapDropped
  BY <1>5, DapDroppedPreserves
<1>6. CASE DapStalls
  <2>1. UNCHANGED <<adapter, dapSession, dapOp, sent, left>>
    BY <1>6 DEF DapStalls
  <2>. QED BY <2>1, DapSame
<1>. QED BY <1>1, <1>2, <1>3, <1>4, <1>5, <1>6 DEF DapNext

LEMMA DapHolds == MCSpec => []DapInv
<1>1. MCInit => DapInv
  BY DapInitInv DEF MCInit
<1>2. DapInv /\ [MCNext]_<<engine, mcpVars, dapVars, lspVars, evalVars, browserVars>> => DapInv'
  BY EngineSteps, DapStep
<1>. QED BY <1>1, <1>2, PTL DEF MCSpec

----------------------------------------------------------------------------
(* The engines together. *)

\* A request to a server or an adapter is only ever given the answer made for it,
\* although answers to requests that timed out still arrive (mcp_ops.rs: route_line,
\* dap_ops.rs: route_message), for any number of peers and requests.
THEOREM AnswersAreOwn == MCSpec => []OwnAnswer
<1>1. McpInv /\ DapInv => OwnAnswer
  BY DEF McpInv, DapInv, OwnAnswer
<1>. QED BY <1>1, McpHolds, DapHolds, PTL

\* Whatever fails, times out or is dropped on the way, a server or adapter that runs
\* is one somebody can stop, or one its engine was dropped over (mcp_ops.rs: connect,
\* dap_ops.rs: start, teardown).
THEOREM NobodyOrphaned == MCSpec => []NoOrphanPeer
<1>1. McpInv /\ DapInv => NoOrphanPeer
  BY DEF McpInv, DapInv, NoOrphanPeer
<1>. QED BY <1>1, McpHolds, DapHolds, PTL

\* Whether a peer has stopped reading says nothing of the rest.
DapPipeOK == dapFull \in BOOLEAN

LEMMA DapPipe == MCSpec => []DapPipeOK
<1>1. MCInit => DapPipeOK
  BY DEF MCInit, DapInit, DapPipeOK
<1>2. dapFull \in BOOLEAN /\ [DapNext]_dapVars => dapFull' \in BOOLEAN
  <2>. SUFFICES ASSUME dapFull \in BOOLEAN, [DapNext]_dapVars PROVE dapFull' \in BOOLEAN
    OBVIOUS
  <2>1. CASE \E n \in DapNames :
               DapStart(n) \/ DapStop(n) \/ DapEvents(n)
                 \/ \E op \in {"breakpoints", "stack", "variables", "run", "step", "read"} : DapCall(n, op)
    BY <2>1, Zenon DEF DapStart, DapStop, DapEvents, DapCall
  <2>2. CASE DapCaller
    <3>1. DapSend => dapFull' = FALSE
      BY Zenon DEF DapSend
    <3>2. SpawnAdapter \/ DapReply \/ DapTimeout \/ KillAdapter \/ StopSeen => dapFull' = dapFull
      BY Zenon DEF SpawnAdapter, DapReply, DapTimeout, KillAdapter, StopSeen
    <3>. QED BY <2>2, <3>1, <3>2, Zenon DEF DapCaller
  <2>3. CASE DapAdapter
    BY <2>3, Zenon DEF DapAdapter, RouteMessage, ReaderEnds, AdapterDies, DebuggeeEvent, AdapterAnswers
  <2>4. CASE DapStalls \/ DapDropped \/ UNCHANGED dapVars
    BY <2>4, Zenon DEF DapStalls, DapDropped, dapVars
  <2>. QED BY <2>1, <2>2, <2>3, <2>4, Zenon DEF DapNext
<1>3. DapPipeOK /\ [MCNext]_<<engine, mcpVars, dapVars, lspVars, evalVars, browserVars>> => DapPipeOK'
  BY <1>2, EngineSteps DEF DapPipeOK
<1>. QED BY <1>1, <1>3, PTL DEF MCSpec

EvalPipeOK == evalFull \in BOOLEAN

LEMMA EvalPipeHolds == MCSpec => []EvalPipeOK
<1>1. MCInit => EvalPipeOK
  BY DEF MCInit, EvalInit, EvalPipeOK
<1>2. evalFull \in BOOLEAN /\ [EvalNext]_evalVars => evalFull' \in BOOLEAN
  <2>. SUFFICES ASSUME evalFull \in BOOLEAN, [EvalNext]_evalVars PROVE evalFull' \in BOOLEAN
    OBVIOUS
  <2>1. CASE \E s \in EvalSessions : EvalExec(s) \/ Prints(s) \/ IdlesOut(s)
    BY <2>1, Zenon DEF EvalExec, Prints, IdlesOut
  <2>2. EvalWrite \/ EvalKill => evalFull' = FALSE
    BY Zenon DEF EvalWrite, EvalKill, Emptied
  <2>3. EvalStalls => evalFull' = TRUE
    BY Zenon DEF EvalStalls
  <2>4. RuntimeReads \/ Finishes \/ RuntimeDies \/ EvalRead => evalFull' = evalFull
    BY Zenon DEF RuntimeReads, Finishes, RuntimeDies, EvalRead
  <2>5. CASE UNCHANGED evalVars
    BY <2>5, Zenon DEF evalVars
  <2>. QED BY <2>1, <2>2, <2>3, <2>4, <2>5, Zenon DEF EvalNext
<1>3. EvalPipeOK /\ [MCNext]_<<engine, mcpVars, dapVars, lspVars, evalVars, browserVars>> => EvalPipeOK'
  BY <1>2, EngineSteps DEF EvalPipeOK
<1>. QED BY <1>1, <1>3, PTL DEF MCSpec

LEMMA McpTypesFollow == McpInv /\ McpPipeOK => McpTypeOK
<1>. SUFFICES ASSUME McpInv, McpPipeOK PROVE McpTypeOK
  OBVIOUS
<1>0. McpShapes
  BY DEF McpInv
<1>1. asked \in 0 .. McpAsks /\ asked \in Nat /\ McpAsks \in Nat
  BY <1>0, McpAssumption DEF McpShapes
<1>2. ASSUME NEW k \in DOMAIN inst
      PROVE  inst[k].alive \in BOOLEAN /\ inst[k].reading \in BOOLEAN /\ inst[k].pending \subseteq 1 .. McpAsks
  <2>1. PICK s \in McpInstance : s = inst[k]
    BY <1>0 DEF McpShapes
  <2>2. s.next <= asked + 1 /\ s.pending \subseteq 1 .. s.next - 1
    BY <2>1 DEF McpInv, McpIdsBelow
  <2>3. s.next \in Nat /\ s.alive \in BOOLEAN /\ s.reading \in BOOLEAN
    BY DEF McpInstance
  <2>4. \A i \in 1 .. s.next - 1 : i \in 1 .. McpAsks
    BY <1>1, <2>2, <2>3
  <2>. QED BY <2>1, <2>2, <2>3, <2>4
<1>3. call.stage \in {"idle", "hello", "handshake", "ask", "wait"}
  BY <1>0 DEF McpShapes, McpCalls
<1>. QED BY <1>0, <1>2, <1>3 DEF McpShapes, McpPipeOK, McpTypeOK

LEMMA DapTypesFollow == DapInv /\ DapPipeOK => DapTypeOK
<1>. SUFFICES ASSUME DapInv, DapPipeOK PROVE DapTypeOK
  OBVIOUS
<1>0. DapShapes
  BY DEF DapInv
<1>1. sent \in 0 .. DapAsks /\ sent \in Nat /\ DapAsks \in Nat
  BY <1>0, DapAssumption DEF DapShapes
<1>2. ASSUME NEW k \in DOMAIN adapter
      PROVE  /\ adapter[k].alive \in BOOLEAN /\ adapter[k].reading \in BOOLEAN
             /\ adapter[k].pending \subseteq 1 .. DapAsks
             /\ Len(adapter[k].ring) <= EventRing /\ adapter[k].frame \in 0 .. adapter[k].made
  <2>1. PICK a \in AdapterRecord : a = adapter[k]
    BY <1>0 DEF DapShapes
  <2>2. AdapterOK(a, sent)
    BY <2>1, DapElement
  <2>3. /\ a.next \in Nat /\ a.next <= sent + 1 /\ a.pending \subseteq 1 .. a.next - 1
        /\ a.alive \in BOOLEAN /\ a.reading \in BOOLEAN /\ Len(a.ring) <= EventRing
        /\ a.made \in Nat /\ a.frame \in Nat /\ a.frame <= a.made
    BY <2>2, AdapterParts
  <2>4. \A i \in 1 .. a.next - 1 : i \in 1 .. DapAsks
    BY <1>1, <2>3
  <2>5. a.pending \subseteq 1 .. DapAsks
    BY <2>3, <2>4
  <2>6. a.frame \in 0 .. a.made
    BY <2>3
  <2>. QED BY <2>1, <2>3, <2>5, <2>6
<1>3. dapOp.stage \in {"idle", "spawn", "ask", "wait", "kill", "stopped"}
  BY <1>0 DEF DapShapes, DapOps
<1>. QED BY <1>0, <1>2, <1>3 DEF DapShapes, DapPipeOK, DapTypeOK

LEMMA LspTypesFollow == LspInv /\ LspPipeOK => LspTypeOK
<1>. SUFFICES ASSUME LspInv, LspPipeOK PROVE LspTypeOK
  OBVIOUS
<1>1. /\ server.state \in {"none", "up", "dead"} /\ server.next \in Nat
      /\ server.opened \subseteq Granted
  BY DEF LspInv, LspServerRecord
<1>2. lspOp.stage \in {"idle", "hello", "handshake", "ask", "publish", "wait", "apply"}
  BY DEF LspInv, LspOps
<1>3. /\ server.announced \subseteq server.opened /\ server.pending \subseteq 1 .. server.next - 1
      /\ server.next <= LspAsks + 1 /\ LspAsks \in Nat /\ written \in [LspFiles -> SUBSET {1, 2}]
  BY LspAssumption DEF LspInv, LspServerInv
<1>4. \A i \in 1 .. server.next - 1 : i \in 1 .. LspAsks
  BY <1>1, <1>3
<1>5. server.pending \subseteq 1 .. LspAsks
  BY <1>3, <1>4
<1>. QED BY <1>1, <1>2, <1>3, <1>5 DEF LspPipeOK, LspTypeOK

LEMMA EvalTypesFollow == EvalInv /\ EvalPipeOK => EvalTypeOK
<1>. SUFFICES ASSUME EvalInv, EvalPipeOK PROVE EvalTypeOK
  OBVIOUS
<1>1. EvalShapes /\ EvalCallInv /\ LivesInv
  BY DEF EvalInv
<1>2. EvalLives \in Nat
  BY EvalAssumption
<1>3. ASSUME NEW s \in EvalSessions
      PROVE  life[s] \in 1 .. EvalLives + 2 /\ contexts[s] \in 0 .. EvalLives + 2
  <2>1. /\ life[s] \in Nat \ {0} /\ contexts[s] \in Nat
    BY <1>1 DEF EvalShapes
  <2>2. life[s] <= EvalLives + 2 /\ contexts[s] <= life[s]
    BY <1>1 DEF LivesInv, LifeInv
  <2>. QED BY <1>2, <2>1, <2>2
<1>4. life \in [EvalSessions -> 1 .. EvalLives + 2] /\ contexts \in [EvalSessions -> 0 .. EvalLives + 2]
  BY <1>1, <1>3 DEF EvalShapes
<1>5. evalCall.stage \in {"idle", "writing", "reading"}
  BY <1>1 DEF EvalShapes, EvalCalls
<1>. QED BY <1>1, <1>4, <1>5 DEF EvalShapes, EvalCallInv, EvalPipeOK, EvalTypeOK

LEMMA BrowserTypesFollow == BrowserInv => BrowserTypeOK
<1>. SUFFICES ASSUME BrowserInv PROVE BrowserTypeOK
  OBVIOUS
<1>0. BrowserShapes
  BY DEF BrowserInv
<1>1. ASSUME NEW b \in DOMAIN chrome PROVE chrome[b].task \in {"running", "killed"}
  <2>1. chrome[b] \in ChromeRecord
    BY <1>0 DEF BrowserShapes
  <2>. QED BY <2>1 DEF ChromeRecord
<1>2. ASSUME NEW p \in DOMAIN pages PROVE pages[p].of \in DOMAIN chrome /\ pages[p].pinned \in {"no", "yes", "left"}
  <2>1. pages[p] \in PageRecord /\ pages[p].of \in DOMAIN chrome
    BY <1>0 DEF BrowserShapes
  <2>. QED BY <2>1 DEF PageRecord
<1>3. DOMAIN pages = 1 .. Len(pages) /\ Len(pages) \in Nat
  BY <1>0 DEF BrowserShapes
<1>4. session.page \in 0 .. Len(pages)
  <2>1. CASE Open
    <3>1. session.page \in DOMAIN pages
      BY <2>1 DEF BrowserInv, WholeSession
    <3>. QED BY <1>3, <3>1
  <2>2. CASE ~Open
    <3>1. session.page = 0
      BY <2>2, StartRecords DEF Open
    <3>. QED BY <1>3, <3>1
  <2>. QED BY <2>1, <2>2
<1>5. DOMAIN session.tabs \subseteq TabNames
  <2>1. session.tabs \in TabMaps
    BY <1>0 DEF BrowserShapes, SessionRecord
  <2>2. PICK D \in SUBSET TabNames : session.tabs \in [D -> Nat]
    BY <2>1 DEF TabMaps
  <2>. QED BY <2>2
<1>6. verb.stage \in {"idle", "starting", "do", "snap", "pin", "capture"}
  BY <1>0 DEF BrowserShapes, VerbRecord
<1>. QED BY <1>0, <1>1, <1>2, <1>4, <1>5, <1>6 DEF BrowserShapes, BrowserTypeOK

\* The engines' state keeps to its types and bounds: no id outlives the counter it
\* was taken from, the event ring keeps its size, and what one record names in
\* another exists (mcp_ops.rs, dap_ops.rs, lsp_ops.rs, eval_ops.rs, browser_ops.rs),
\* for any number of names, requests and lives.
THEOREM TypesHold == MCSpec => []TypesOK
<1>1. ASSUME McpInv, DapInv, LspInv, EvalInv, BrowserInv, McpPipeOK, DapPipeOK, LspPipeOK, EvalPipeOK
      PROVE  TypesOK
  BY <1>1, McpTypesFollow, DapTypesFollow, LspTypesFollow, EvalTypesFollow, BrowserTypesFollow DEF TypesOK
<1>. QED BY <1>1, McpHolds, DapHolds, LspHolds, EvalHolds, BrowserHolds, McpPipe, DapPipe, LspPipe, EvalPipeHolds,
            PTL
=============================================================================
