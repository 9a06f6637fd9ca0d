------------------------ MODULE ConsentBridgeProofs ------------------------
(***************************************************************************)
(* Invariance proofs for the action pipeline, for every set of actions,    *)
(* arms, grants and timeouts.                                              *)
(***************************************************************************)
EXTENDS ConsentBridge, FiniteSetTheorems, SequenceTheorems, TLAPS

USE ConstantsAssumption

(***************************************************************************)
(* Types.                                                                  *)
(***************************************************************************)

\* A function on an initial segment of the naturals is a sequence.
LEMMA FunctionIsSeq ==
  ASSUME NEW S, NEW n \in Nat, NEW f \in [1..n -> S]
  PROVE  f \in Seq(S)
BY SeqDef

\* What broker.answer queues are decisions ...
LEMMA WakeTypes ==
  ASSUME NEW S \in SUBSET Id, NEW order \in Orders(S), NEW ans \in Answer
  PROVE  Wake(order, ans) \in Seq(Decision)
<1>1. Cardinality(S) \in Nat
  BY FS_Subset, FS_CardinalityType
<1>2. order \in [1..Cardinality(S) -> Id]
  BY DEF Orders
<1>3. Wake(order, ans) \in [1..Cardinality(S) -> Decision]
  BY <1>2 DEF Wake, Decision
<1>. QED
  BY <1>1, <1>3, FunctionIsSeq

\* ... appended to the channel.
LEMMA AnswerTypes ==
  ASSUME NEW S \in SUBSET Id, NEW ans \in Answer, TypeOK, answer(S, ans)
  PROVE  /\ prompts' \subseteq Id
         /\ queue' \in Seq(Decision)
<1>1. PICK order \in Orders(S \cap prompts) : queue' = queue \o Wake(order, ans)
  BY DEF answer
<1>2. Wake(order, ans) \in Seq(Decision)
  BY WakeTypes
<1>. QED
  BY <1>1, <1>2 DEF answer, TypeOK

\* Ages start, and start over, inside their range.
LEMMA TimeoutIsBound == 0 \in 0..(Timeout + 1)
OBVIOUS

LEMMA InitTypes == Init => TypeOK
<1>. SUFFICES ASSUME Init PROVE TypeOK
  OBVIOUS
<1>1. gate \in Gate
  BY DEF Init, NoGrant, Gate
<1>2. queue \in Seq(Decision)
  BY DEF Init
<1>3. age \in [Id -> 0..(Timeout + 1)] /\ sends \in [Id -> 0..MaxSend]
  BY DEF Init
<1>. QED
  BY <1>1, <1>2, <1>3 DEF Init, TypeOK

LEMMA HandleTypes ==
  ASSUME TypeOK, NEW i \in Id, NEW d \in Answer \cup {"none"},
         HandleRefuse(i, d) \/ HandleRun(i, d)
  PROVE  /\ loop' \in {"idle", "running"}
         /\ act' = (IF loop' = "running" THEN i ELSE NoAct)
         /\ gate' \in Gate /\ relayed' \subseteq Id
         /\ task' \in [Id -> {"none", "Running", "Finished"}]
         /\ results' \in [Id -> Nat] /\ spent' \in [Id -> Nat]
<1>1. CASE HandleRefuse(i, d)
  BY <1>1 DEF HandleRefuse, Reply, TypeOK
<1>2. CASE HandleRun(i, d)
  <2>1. Remember(gate, i, d) \in Gate
    <3>1. gate.paths \cup {PathOf[i]} \in SUBSET Path
      BY ConstantsAssumption DEF TypeOK, Gate
    <3>. QED
      BY <3>1 DEF Remember, TypeOK, Gate
  <2>2. gate' \in Gate
    BY <1>2, <2>1 DEF HandleRun, TypeOK
  <2>. QED
    BY <1>2, <2>2 DEF HandleRun, TypeOK
<1>. QED
  BY <1>1, <1>2

USE DEF loopVars, brokerVars, history

LEMMA StepTypes == TypeOK /\ [Next]_vars => TypeOK'
<1>. SUFFICES ASSUME TypeOK, [Next]_vars PROVE TypeOK'
  OBVIOUS
<1>1. ASSUME NEW i \in Id, RecvRequest(i) PROVE TypeOK'
  <2>. USE <1>1 DEF RecvRequest
  <2>1. sends' \in [Id -> 0..MaxSend]
    BY DEF TypeOK
  <2>2. CASE HandleRefuse(i, "none") \/ HandleRun(i, "none")
    <3>1. /\ loop' \in {"idle", "running"}
          /\ act' = (IF loop' = "running" THEN i ELSE NoAct)
          /\ gate' \in Gate /\ relayed' \subseteq Id
          /\ task' \in [Id -> {"none", "Running", "Finished"}]
          /\ results' \in [Id -> Nat] /\ spent' \in [Id -> Nat]
      BY <2>2, HandleTypes
    <3>2. UNCHANGED prompts
      BY <2>2 DEF HandleRefuse, HandleRun, HandleAsk
    <3>. QED
      BY <2>1, <3>1, <3>2 DEF TypeOK
  <2>3. CASE HandleAsk(i) /\ prompts' = prompts \cup {i}
    BY <2>1, <2>3 DEF HandleAsk, TypeOK
  <2>. QED
    BY <2>2, <2>3
<1>2. ASSUME NEW i \in Id, Park(i) PROVE TypeOK'
  BY <1>2 DEF Park, TypeOK
<1>3. ASSUME NEW i \in Id, DeleteUnparked(i) PROVE TypeOK'
  BY <1>3 DEF DeleteUnparked, Reply, TypeOK
<1>4. ASSUME NEW i \in Id, Complete(i) PROVE TypeOK'
  BY <1>4 DEF Complete, Reply, TypeOK
<1>5. ASSUME NEW i \in Id, StreamFailed(i) PROVE TypeOK'
  BY <1>5 DEF StreamFailed, TypeOK
<1>6. ASSUME NEW i \in Id, NEW ans \in Answer, WebAnswer(i, ans) PROVE TypeOK'
  <2>1. prompts' \subseteq Id /\ queue' \in Seq(Decision)
    BY <1>6, AnswerTypes DEF WebAnswer
  <2>. QED
    BY <1>6, <2>1, SMTT(30) DEF WebAnswer, OwnerSays, TypeOK
<1>7. ASSUME NEW i \in Id, NEW ans \in Answer, UiAnswer(i, ans) PROVE TypeOK'
  BY <1>7 DEF UiAnswer, OwnerSays, Decision, TypeOK
<1>8. CASE UiNotify
  BY <1>8 DEF UiNotify, TypeOK
<1>9. CASE Resume
  <2>. DEFINE i == Head(queue).id
              d == Head(queue).answer
  <2>1. Head(queue) \in Decision /\ queue' \in Seq(Decision)
    BY <1>9 DEF Resume, TypeOK
  <2>2. i \in Id /\ d \in Answer \cup {"none"}
    BY <2>1 DEF Decision
  <2>3. age' \in [Id -> 0..(Timeout + 1)]
    <3>1. age' = [age EXCEPT ![i] = 0]
      BY <1>9 DEF Resume
    <3>. HIDE DEF i
    <3>. QED
      BY <3>1, TimeoutIsBound DEF TypeOK
  <2>4. CASE HandleRefuse(i, d) \/ HandleRun(i, d)
    <3>. HIDE DEF i, d
    <3>1. /\ loop' \in {"idle", "running"}
          /\ act' = (IF loop' = "running" THEN i ELSE NoAct)
          /\ gate' \in Gate /\ relayed' \subseteq Id
          /\ task' \in [Id -> {"none", "Running", "Finished"}]
          /\ results' \in [Id -> Nat] /\ spent' \in [Id -> Nat]
      BY <2>2, <2>4, HandleTypes
    <3>. QED
      BY <1>9, <2>1, <2>2, <2>3, <3>1 DEF Resume, TypeOK
  <2>5. CASE UNCHANGED <<loop, act, gate, relayed, task, results, spent>>
    BY <1>9, <2>1, <2>3, <2>5 DEF Resume, TypeOK
  <2>. QED
    BY <1>9, <2>4, <2>5 DEF Resume
<1>10. CASE HeartbeatTick
  <2>1. Expired \in SUBSET Id
    BY DEF Expired, TypeOK
  <2>2. prompts' \subseteq Id /\ queue' \in Seq(Decision)
    BY <1>10, <2>1, AnswerTypes DEF HeartbeatTick, Answer
  <2>3. age' \in [Id -> 0..(Timeout + 1)]
    BY <1>10, TimeoutIsBound DEF HeartbeatTick, TypeOK
  <2>4. parked' \subseteq Id
    BY <1>10 DEF HeartbeatTick, TypeOK
  <2>. QED
    BY <1>10, <2>2, <2>3, <2>4 DEF HeartbeatTick, TypeOK
<1>11. CASE Connect
  BY <1>11 DEF Connect, TypeOK
<1>12. CASE Disconnect
  BY <1>12 DEF Disconnect, TypeOK
<1>13. CASE ScopeUpdate
  BY <1>13 DEF ScopeUpdate, TypeOK
<1>14. CASE Clock
  BY <1>14 DEF Clock, TypeOK
<1>15. CASE LinkLost
  BY <1>15 DEF LinkLost, TypeOK
<1>16. CASE Revoke \/ Repair
  <2>1. gate' \in Gate
    BY <1>16 DEF Revoke, Repair, DropClient, NoGrant, Gate
  <2>2. queue' \in Seq(Decision)
    <3>1. queue' = <<>>
      BY <1>16 DEF Revoke, Repair, DropClient
    <3>. QED
      BY <3>1
  <2>3. age' \in [Id -> 0..(Timeout + 1)]
    BY <1>16, TimeoutIsBound DEF Revoke, Repair, DropClient
  <2>. QED
    BY <1>16, <2>1, <2>2, <2>3 DEF Revoke, Repair, DropClient, TypeOK
<1>17. CASE UNCHANGED vars
  BY <1>17 DEF vars, TypeOK
<1>. QED
  BY <1>1, <1>2, <1>3, <1>4, <1>5, <1>6, <1>7, <1>8, <1>9, <1>10, <1>11, <1>12,
     <1>13, <1>14, <1>15, <1>16, <1>17
     DEF Next, ClientStep, LoopStep, UiStep

\* The state of the pipeline always has its declared shape: in particular the
\* loop holds an action exactly while it asks or runs, and never a second one.
THEOREM TypeCorrect == Spec => []TypeOK
BY InitTypes, StepTypes, PTL DEF Spec

(***************************************************************************)
(* Answers.                                                                *)
(***************************************************************************)

LEMMA InitAnswered == Init => AnsweredAtMostOnce
BY DEF Init, AnsweredAtMostOnce

\* A handler gives the action it serves one result or makes it the loop's own.
LEMMA HandleAnswers ==
  ASSUME TypeOK, NEW i \in Id, NEW d, HandleRefuse(i, d) \/ HandleRun(i, d)
  PROVE  /\ \A j \in Id : j # i => results'[j] = results[j] /\ act' # j
         /\ results'[i] + (IF act' = i THEN 1 ELSE 0) <= results[i] + 1
<1>1. CASE HandleRefuse(i, d)
  BY <1>1 DEF HandleRefuse, Reply, TypeOK
<1>2. CASE HandleRun(i, d)
  BY <1>2 DEF HandleRun, TypeOK
<1>. QED
  BY <1>1, <1>2

\* A reply to the action in hand trades the hand for a result.
LEMMA ReplyAnswers ==
  ASSUME TypeOK, NEW i \in Id, act = i, act' = NoAct, Reply(i)
  PROVE  \A j \in Id : results'[j] <= results[j] + (IF act = j THEN 1 ELSE 0)
BY DEF Reply, TypeOK

\* What an action has been given or still holds.
Claims(i) ==
  results[i] + (IF i \in parked THEN 1 ELSE 0) + (IF act = i THEN 1 ELSE 0)

LEMMA StepAnswered ==
  TypeOK /\ AnsweredAtMostOnce /\ [Next]_vars => AnsweredAtMostOnce'
<1>. SUFFICES ASSUME TypeOK, AnsweredAtMostOnce, [Next]_vars, NEW j \in Id
              PROVE  Claims(j)' <= sends'[j]
  BY DEF AnsweredAtMostOnce, Claims
<1>0. /\ results[j] \in Nat /\ sends[j] \in Nat
      /\ Claims(j) <= sends[j]
  BY DEF TypeOK, AnsweredAtMostOnce, Claims
<1>t. results'[j] \in Nat /\ sends'[j] \in Nat
  <2>1. TypeOK'
    BY StepTypes
  <2>. QED
    BY <2>1 DEF TypeOK
<1>. USE <1>0, <1>t
<1>1. ASSUME NEW i \in Id, RecvRequest(i) PROVE Claims(j)' <= sends'[j]
  <2>1. act = NoAct /\ parked' = parked
    BY <1>1 DEF RecvRequest, TypeOK
  <2>2. sends'[j] = sends[j] + (IF i = j THEN 1 ELSE 0)
    BY <1>1 DEF RecvRequest, TypeOK
  <2>3. CASE HandleRefuse(i, "none") \/ HandleRun(i, "none")
    BY <2>1, <2>2, <2>3, HandleAnswers DEF Claims
  <2>4. CASE HandleAsk(i)
    BY <2>1, <2>2, <2>4 DEF HandleAsk, Claims
  <2>. QED
    BY <1>1, <2>3, <2>4 DEF RecvRequest
<1>2. ASSUME NEW i \in Id, Park(i) PROVE Claims(j)' <= sends'[j]
  BY <1>2 DEF Park, Claims
<1>3. ASSUME NEW i \in Id, DeleteUnparked(i) \/ Complete(i)
      PROVE Claims(j)' <= sends'[j]
  <2>1. results'[j] <= results[j] + (IF act = j THEN 1 ELSE 0) /\ act' = NoAct
    BY <1>3, ReplyAnswers DEF DeleteUnparked, Complete
  <2>2. parked' = parked /\ sends' = sends
    BY <1>3 DEF DeleteUnparked, Complete
  <2>. QED
    BY <2>1, <2>2 DEF Claims
<1>4. ASSUME NEW i \in Id, StreamFailed(i) PROVE Claims(j)' <= sends'[j]
  BY <1>4 DEF StreamFailed, Claims
<1>5. CASE Resume
  <2>. DEFINE i == Head(queue).id
              d == Head(queue).answer
  <2>1. i \in Id
    <3>1. Head(queue) \in Decision
      BY <1>5 DEF Resume, TypeOK
    <3>. QED
      BY <3>1 DEF Decision
  <2>2. act = NoAct /\ parked' = parked \ {i} /\ sends' = sends
    BY <1>5 DEF Resume, TypeOK
  <2>3. \/ i \in parked /\ (HandleRefuse(i, d) \/ HandleRun(i, d))
        \/ UNCHANGED <<act, results>>
    BY <1>5 DEF Resume
  <2>. HIDE DEF i, d
  <2>4. CASE i \in parked /\ (HandleRefuse(i, d) \/ HandleRun(i, d))
    <3>1. /\ j # i => results'[j] = results[j] /\ act' # j
          /\ results'[i] + (IF act' = i THEN 1 ELSE 0) <= results[i] + 1
      BY <2>1, <2>4, HandleAnswers
    <3>. QED
      BY <2>1, <2>2, <2>4, <3>1 DEF Claims
  <2>5. CASE UNCHANGED <<act, results>>
    BY <2>2, <2>5 DEF Claims
  <2>. QED
    BY <2>3, <2>4, <2>5
<1>6. CASE HeartbeatTick
  BY <1>6 DEF HeartbeatTick, Claims
<1>7. CASE Revoke \/ Repair
  BY <1>7 DEF Revoke, Repair, DropClient, Claims
<1>8. CASE UNCHANGED <<act, parked, results, sends>>
  BY <1>8 DEF Claims
<1>. QED
  BY <1>1, <1>2, <1>3, <1>4, <1>5, <1>6, <1>7, <1>8
     DEF Next, ClientStep, LoopStep, UiStep, WebAnswer, UiAnswer, UiNotify,
         OwnerSays, Connect, Disconnect, ScopeUpdate, Clock, LinkLost, vars

\* However often ids are repeated, prompts are swept or clients are replaced,
\* the daemon never answers an action_request twice, and what it has answered
\* and still holds for an id never exceeds what it received.
THEOREM AnswersNeverExceedRequests == Spec => []AnsweredAtMostOnce
<1>1. TypeOK /\ AnsweredAtMostOnce /\ [Next]_vars => (TypeOK /\ AnsweredAtMostOnce)'
  BY StepTypes, StepAnswered
<1>. QED
  BY InitTypes, InitAnswered, <1>1, PTL DEF Spec

(***************************************************************************)
(* A parked action can always still be decided.                            *)
(***************************************************************************)

\* The answer to prompt i is on the screen, in the UI's hand or in the channel.
Reachable(i) == i \in prompts \/ InHand(i) \/ Queued(i)

\* The strengthening: the same holds of the action about to be parked, the UI
\* thread holds one answer at a time, and a client that has stopped holds no
\* parked action (its channel is gone).
AnswerInReach ==
  /\ \A i \in Id : i \in parked \/ (loop = "asking" /\ act = i) => Reachable(i)
  /\ \A g, h \in hand : g = h
  /\ loop = "stopped" => parked = {}

LEMMA InitReach == Init => AnswerInReach
BY DEF Init, AnswerInReach

\* What is queued stays queued when answers are added behind it.
LEMMA QueueGrows ==
  ASSUME NEW s \in Seq(Decision), NEW t \in Seq(Decision), NEW k \in DOMAIN s
  PROVE  k \in DOMAIN (s \o t) /\ (s \o t)[k] = s[k]
OBVIOUS

\* An answer that does not concern i leaves i as reachable as it was.
LEMMA AnswerKeepsReach ==
  ASSUME TypeOK, NEW S \in SUBSET Id, NEW ans \in Answer, answer(S, ans),
         UNCHANGED hand, NEW i \in Id, i \notin S, Reachable(i)
  PROVE  Reachable(i)'
<1>1. PICK order \in Orders(S \cap prompts) : queue' = queue \o Wake(order, ans)
  BY DEF answer
<1>2. Wake(order, ans) \in Seq(Decision)
  BY WakeTypes, <1>1
<1>3. Queued(i) => Queued(i)'
  BY <1>1, <1>2, QueueGrows DEF Queued, TypeOK
<1>. QED
  BY <1>3 DEF answer, Reachable, InHand

LEMMA StepReach == TypeOK /\ AnswerInReach /\ [Next]_vars => AnswerInReach'
<1>. SUFFICES ASSUME TypeOK, AnswerInReach, [Next]_vars
              PROVE  AnswerInReach'
  OBVIOUS
<1>1. ASSUME NEW i \in Id, RecvRequest(i) PROVE AnswerInReach'
  BY <1>1 DEF RecvRequest, HandleRefuse, HandleRun, HandleAsk, AnswerInReach,
              Reachable, InHand, Queued
<1>2. ASSUME NEW i \in Id, Park(i) PROVE AnswerInReach'
  BY <1>2 DEF Park, AnswerInReach, Reachable, InHand, Queued
<1>3. ASSUME NEW i \in Id, DeleteUnparked(i) \/ Complete(i) \/ StreamFailed(i)
      PROVE AnswerInReach'
  BY <1>3 DEF DeleteUnparked, Complete, StreamFailed, AnswerInReach, Reachable,
              InHand, Queued
<1>4. ASSUME NEW i \in Id, NEW ans \in Answer, WebAnswer(i, ans) PROVE AnswerInReach'
  <2>1. Queued(i)'
    <3>1. PICK order \in Orders({i} \cap prompts) : queue' = queue \o Wake(order, ans)
      BY <1>4 DEF WebAnswer, answer
    <3>2. {i} \cap prompts = {i} /\ Cardinality({i}) = 1
      BY <1>4, FS_Singleton DEF WebAnswer
    <3>3. order \in [1..1 -> {i}]
      BY <3>1, <3>2 DEF Orders
    <3>4. Wake(order, ans) = <<[id |-> i, answer |-> ans]>>
      BY <3>3 DEF Wake
    <3>5. queue' = Append(queue, [id |-> i, answer |-> ans])
      BY <3>1, <3>4 DEF TypeOK
    <3>6. Len(queue) + 1 \in DOMAIN queue' /\ queue'[Len(queue) + 1].id = i
      BY <3>5 DEF TypeOK
    <3>. QED
      BY <3>6 DEF Queued
  <2>2. \A j \in Id : j # i /\ Reachable(j) => Reachable(j)'
    <3>1. {i} \in SUBSET Id /\ answer({i}, ans) /\ UNCHANGED hand
      BY <1>4 DEF WebAnswer
    <3>. QED
      BY <3>1, AnswerKeepsReach
  <2>. QED
    BY <1>4, <2>1, <2>2 DEF WebAnswer, AnswerInReach, Reachable
<1>5. ASSUME NEW i \in Id, NEW ans \in Answer, UiAnswer(i, ans) PROVE AnswerInReach'
  BY <1>5 DEF UiAnswer, AnswerInReach, Reachable, InHand, Queued
<1>6. CASE UiNotify
  <2>1. CASE loop = "stopped"
    BY <1>6, <2>1 DEF UiNotify, AnswerInReach, TypeOK
  <2>2. CASE loop # "stopped"
    <3>1. PICK h \in hand : queue' = Append(queue, h)
      BY <1>6, <2>2 DEF UiNotify
    <3>2. h \in Decision /\ queue \in Seq(Decision)
      BY DEF TypeOK
    <3>3. Len(queue) + 1 \in DOMAIN queue' /\ queue'[Len(queue) + 1] = h
      BY <3>1, <3>2
    <3>4. \A k \in DOMAIN queue : k \in DOMAIN queue' /\ queue'[k] = queue[k]
      BY <3>1, <3>2
    <3>5. \A j \in Id : Reachable(j) => Reachable(j)'
      <4>1. \A j \in Id : InHand(j) => Queued(j)'
        BY <3>3 DEF InHand, Queued, AnswerInReach
      <4>2. \A j \in Id : Queued(j) => Queued(j)'
        BY <3>4 DEF Queued
      <4>. QED
        BY <1>6, <4>1, <4>2 DEF UiNotify, Reachable
    <3>. QED
      BY <1>6, <3>5 DEF UiNotify, AnswerInReach
  <2>. QED
    BY <2>1, <2>2
<1>7. CASE Resume
  <2>1. queue \in Seq(Decision) /\ queue # <<>> /\ queue' = Tail(queue)
    BY <1>7 DEF Resume, TypeOK
  <2>2. \A k \in DOMAIN queue : k # 1 => k - 1 \in DOMAIN queue' /\ queue'[k - 1] = queue[k]
    BY <2>1
  <2>3. \A j \in Id : j # Head(queue).id /\ Queued(j) => Queued(j)'
    <3>1. Head(queue) = queue[1]
      BY <2>1
    <3>. QED
      BY <2>2, <3>1 DEF Queued
  <2>4. /\ parked' = parked \ {Head(queue).id}
        /\ UNCHANGED <<prompts, hand>>
        /\ loop' \in {"idle", "running"}
    BY <1>7 DEF Resume, HandleRefuse, HandleRun
  <2>. QED
    BY <2>3, <2>4 DEF AnswerInReach, Reachable, InHand
<1>8. CASE HeartbeatTick
  <2>1. Expired \in SUBSET Id /\ "deny" \in Answer
    BY DEF Expired, Answer, TypeOK
  <2>2. \A j \in Id : j \notin Expired /\ Reachable(j) => Reachable(j)'
    BY <1>8, <2>1, AnswerKeepsReach DEF HeartbeatTick
  <2>. QED
    BY <1>8, <2>2 DEF HeartbeatTick, AnswerInReach
<1>9. CASE Connect \/ Disconnect
  BY <1>9 DEF Connect, Disconnect, AnswerInReach, Reachable, InHand, Queued
<1>10. CASE Revoke \/ Repair
  BY <1>10 DEF Revoke, Repair, DropClient, AnswerInReach
<1>11. CASE UNCHANGED <<loop, act, parked, prompts, hand, queue>>
  BY <1>11 DEF AnswerInReach, Reachable, InHand, Queued
<1>. QED
  BY <1>1, <1>2, <1>3, <1>4, <1>5, <1>6, <1>7, <1>8, <1>9, <1>10, <1>11
     DEF Next, ClientStep, LoopStep, UiStep, ScopeUpdate, Clock, LinkLost, vars

\* A parked action never loses its only way out: while it waits, its prompt is
\* up or the answer to it is on its way, whichever surface took it, through
\* reconnections, sweeps and re-sent ids.
THEOREM ParkedStaysAnswerable == Spec => []ParkedIsAnswerable
<1>1. TypeOK /\ AnswerInReach /\ [Next]_vars => (TypeOK /\ AnswerInReach)'
  BY StepTypes, StepReach
<1>2. TypeOK /\ AnswerInReach => ParkedIsAnswerable
  BY DEF TypeOK, AnswerInReach, Reachable, ParkedIsAnswerable
<1>. QED
  BY InitTypes, InitReach, <1>1, <1>2, PTL DEF Spec

(***************************************************************************)
(* An approval is spent once.                                              *)
(***************************************************************************)

\* The approvals of action i in a channel q, by position.
Yes(x, i) == x.id = i /\ x.answer \in Approval
YesIn(q, i) == {k \in DOMAIN q : Yes(q[k], i)}
One(b) == IF b THEN 1 ELSE 0

LEMMA YesFinite ==
  ASSUME NEW q \in Seq(Decision), NEW i
  PROVE  IsFiniteSet(YesIn(q, i)) /\ Cardinality(YesIn(q, i)) \in Nat
<1>1. IsFiniteSet(1 .. Len(q)) /\ YesIn(q, i) \in SUBSET (1 .. Len(q))
  BY FS_Interval DEF YesIn
<1>2. IsFiniteSet(YesIn(q, i))
  BY <1>1, FS_Subset
<1>. QED BY <1>2, FS_CardinalityType

\* A decision pushed counts itself; others keep their places.
LEMMA YesPushed ==
  ASSUME NEW q \in Seq(Decision), NEW x \in Decision, NEW i
  PROVE  Cardinality(YesIn(Append(q, x), i)) = Cardinality(YesIn(q, i)) + One(Yes(x, i))
<1>1. IsFiniteSet(YesIn(q, i)) /\ Len(q) + 1 \notin YesIn(q, i)
  <2>1. Len(q) + 1 \notin YesIn(q, i)
    BY DEF YesIn
  <2>. QED BY <2>1, YesFinite
<1>2. YesIn(Append(q, x), i) = IF Yes(x, i) THEN YesIn(q, i) \cup {Len(q) + 1} ELSE YesIn(q, i)
  <2>1. /\ DOMAIN Append(q, x) = DOMAIN q \cup {Len(q) + 1} /\ Append(q, x)[Len(q) + 1] = x
        /\ \A k \in DOMAIN q : Append(q, x)[k] = q[k]
    OBVIOUS
  <2>. DEFINE p == Append(q, x)
  <2>. HIDE DEF p
  <2>2. YesIn(p, i) = {k \in DOMAIN q \cup {Len(q) + 1} : Yes(p[k], i)}
    BY <2>1 DEF YesIn, p
  <2>3. p[Len(q) + 1] = x /\ \A k \in DOMAIN q : p[k] = q[k]
    BY <2>1 DEF p
  <2>4. YesIn(p, i) = YesIn(q, i) \cup {k \in {Len(q) + 1} : Yes(x, i)}
    BY <2>2, <2>3 DEF YesIn
  <2>. QED BY <2>4 DEF p
<1>3. Cardinality(YesIn(q, i) \cup {Len(q) + 1}) = Cardinality(YesIn(q, i)) + 1
  BY <1>1, FS_AddElement
<1>. QED BY <1>2, <1>3, YesFinite DEF One

\* A decision taken takes its count with it; the others move up by one.
LEMMA YesTaken ==
  ASSUME NEW q \in Seq(Decision), q # <<>>, NEW i
  PROVE  Cardinality(YesIn(q, i)) = Cardinality(YesIn(Tail(q), i)) + One(Yes(Head(q), i))
<1>. DEFINE A == YesIn(q, i)
            B == YesIn(Tail(q), i)
            f == [k \in A \ {1} |-> k - 1]
<1>1. /\ A \subseteq 1 .. Len(q) /\ B \subseteq 1 .. Len(q) - 1 /\ Len(q) \in Nat \ {0}
      /\ Head(q) = q[1] /\ 1 \in DOMAIN q
  BY DEF YesIn
<1>2. \A k \in 1 .. Len(q) - 1 : Tail(q)[k] = q[k + 1]
  OBVIOUS
<1>3. \A k \in A \ {1} : k - 1 \in B
  <2>1. ASSUME NEW k \in A \ {1} PROVE k - 1 \in B
    <3>1. k \in 1 .. Len(q) /\ k # 1 /\ Yes(q[k], i)
      BY <1>1 DEF YesIn
    <3>2. k - 1 \in 1 .. Len(q) - 1 /\ Tail(q)[k - 1] = q[k]
      BY <1>1, <1>2, <3>1
    <3>3. k - 1 \in DOMAIN Tail(q)
      BY <3>2
    <3>. QED BY <3>1, <3>2, <3>3 DEF YesIn
  <2>. QED BY <2>1
<1>4. \A k \in B : k + 1 \in A \ {1}
  BY <1>1, <1>2 DEF YesIn
<1>. HIDE DEF A, B
<1>5. f \in Bijection(A \ {1}, B)
  <2>1. f \in [A \ {1} -> B]
    BY <1>3
  <2>2. \A j, k \in A \ {1} : f[j] = f[k] => j = k
    BY <1>1
  <2>3. \A b \in B : \E k \in A \ {1} : f[k] = b
    BY <1>1, <1>4
  <2>. QED BY <2>1, <2>2, <2>3 DEF Bijection, Injection, Surjection, IsInjective
<1>6. IsFiniteSet(A) /\ Cardinality(A) \in Nat
  BY YesFinite DEF A
<1>7. /\ IsFiniteSet(A \ {1})
      /\ Cardinality(A \ {1}) = IF 1 \in A THEN Cardinality(A) - 1 ELSE Cardinality(A)
  BY <1>6, FS_RemoveElement
<1>8. Cardinality(B) = Cardinality(A \ {1})
  BY <1>5, <1>7, FS_Bijection DEF ExistsBijection
<1>9. 1 \in A <=> Yes(Head(q), i)
  BY <1>1 DEF A, YesIn
<1>. QED BY <1>6, <1>7, <1>8, <1>9 DEF A, B, One

\* The invariant, by channel; the UI's hand holds at most one decision.
Given(q, h, i) == Cardinality(YesIn(q, i)) + Cardinality({x \in h : Yes(x, i)})
NotMultiplied == \A i \in Id : spent[i] + Given(queue, hand, i) <= approvals[i]
OneInHand == \A g, h \in hand : g = h

LEMMA HandCounts ==
  ASSUME NEW x, NEW i
  PROVE  /\ Cardinality({y \in {x} : Yes(y, i)}) = One(Yes(x, i))
         /\ Cardinality({y \in {} : Yes(y, i)}) = 0
<1>1. {y \in {x} : Yes(y, i)} = IF Yes(x, i) THEN {x} ELSE {}
  OBVIOUS
<1>2. Cardinality({x}) = 1 /\ Cardinality({}) = 0 /\ {y \in {} : Yes(y, i)} = {}
  BY FS_Singleton, FS_EmptySet
<1>. QED BY <1>1, <1>2 DEF One

LEMMA HandFinite ==
  ASSUME OneInHand, NEW i
  PROVE  Cardinality({x \in hand : Yes(x, i)}) \in Nat
<1>1. CASE hand = {}
  <2>1. {x \in hand : Yes(x, i)} = {}
    BY <1>1
  <2>. QED BY <2>1, FS_EmptySet
<1>2. ASSUME NEW y \in hand PROVE Cardinality({x \in hand : Yes(x, i)}) \in Nat
  <2>1. hand = {y}
    BY DEF OneInHand
  <2>2. One(Yes(y, i)) \in Nat
    BY DEF One
  <2>. QED BY <2>1, <2>2, HandCounts
<1>. QED BY <1>1, <1>2

LEMMA ApprovalsAre ==
  ASSUME TypeOK, OneInHand
  PROVE  NotMultiplied <=> ApprovalsNotMultiplied
<1>1. \A i : ApprovalsQueued(i) = YesIn(queue, i) /\ ApprovalsInHand(i) = {x \in hand : Yes(x, i)}
  BY DEF YesIn, Yes, ApprovalsQueued, ApprovalsInHand
<1>2. \A i \in Id : spent[i] \in Nat
  BY DEF TypeOK
<1>3. \A i \in Id : Cardinality(YesIn(queue, i)) \in Nat /\ Cardinality({x \in hand : Yes(x, i)}) \in Nat
  BY YesFinite, HandFinite DEF TypeOK
<1>4. ASSUME NEW i \in Id
      PROVE  spent[i] + Given(queue, hand, i)
               = spent[i] + Cardinality(ApprovalsQueued(i)) + Cardinality(ApprovalsInHand(i))
  <2>1. \A k, m, n \in Nat : k + (m + n) = k + m + n
    OBVIOUS
  <2>2. /\ ApprovalsQueued(i) = YesIn(queue, i)
        /\ ApprovalsInHand(i) = {x \in hand : Yes(x, i)}
    BY <1>1
  <2>3. Cardinality(ApprovalsQueued(i)) \in Nat /\ Cardinality(ApprovalsInHand(i)) \in Nat
    BY <1>3, <2>2
  <2>4. Given(queue, hand, i) = Cardinality(ApprovalsQueued(i)) + Cardinality(ApprovalsInHand(i))
    BY <2>2 DEF Given
  <2>. QED BY <1>2, <2>1, <2>3, <2>4
<1>. QED BY <1>4 DEF NotMultiplied, ApprovalsNotMultiplied

\* Steps that neither give nor take a decision leave the count alone.
LEMMA CountKept ==
  ASSUME NotMultiplied, UNCHANGED <<spent, queue, hand, approvals>>
  PROVE  NotMultiplied'
BY DEF NotMultiplied, Given

LEMMA StepMultiplied ==
  ASSUME TypeOK, OneInHand, NotMultiplied, [Next]_vars
  PROVE  OneInHand' /\ NotMultiplied'
<1>q. queue \in Seq(Decision) /\ hand \subseteq Decision
      /\ \A i \in Id : spent[i] \in Nat /\ approvals[i] \in Nat
  BY DEF TypeOK
<1>c. \A i \in Id : Cardinality(YesIn(queue, i)) \in Nat /\ Cardinality({x \in hand : Yes(x, i)}) \in Nat
  BY <1>q, YesFinite, HandFinite
<1>1. ASSUME NEW i \in Id, RecvRequest(i) PROVE OneInHand' /\ NotMultiplied'
  <2>1. UNCHANGED <<spent, queue, hand, approvals>>
    BY <1>1 DEF RecvRequest, HandleRefuse, HandleRun, HandleAsk, Approval
  <2>. QED BY <2>1, CountKept DEF OneInHand
<1>2. ASSUME NEW i \in Id, NEW ans \in Answer, WebAnswer(i, ans) PROVE OneInHand' /\ NotMultiplied'
  <2>. DEFINE x == [id |-> i, answer |-> ans]
  <2>1. queue' = Append(queue, x)
    <3>1. PICK order \in Orders({i} \cap prompts) : queue' = queue \o Wake(order, ans)
      BY <1>2 DEF WebAnswer, answer
    <3>4. Cardinality({i}) = 1
      BY FS_Singleton
    <3>5. {i} \cap prompts = {i}
      BY <1>2 DEF WebAnswer
    <3>2. {i} \cap prompts = {i} /\ Cardinality({i}) = 1
      BY <3>4, <3>5
    <3>3. order \in [1..1 -> {i}]
      BY <3>1, <3>2 DEF Orders
    <3>6. Wake(order, ans) = <<x>>
      BY <3>3 DEF Wake
    <3>. QED BY <1>q, <3>1, <3>6
  <2>2. /\ x \in Decision /\ UNCHANGED <<hand, spent>>
        /\ \A j \in Id : approvals'[j] = approvals[j] + One(Yes(x, j))
    BY <1>2, <1>q DEF WebAnswer, OwnerSays, Decision, Yes, One, TypeOK
  <2>. HIDE DEF x
  <2>3. \A j \in Id : Cardinality(YesIn(queue', j)) = Cardinality(YesIn(queue, j)) + One(Yes(x, j))
    BY <1>q, <2>1, <2>2, YesPushed
  <2>. QED BY <1>q, <1>c, <2>2, <2>3, SMTT(30) DEF NotMultiplied, Given, OneInHand, One
<1>3. ASSUME NEW i \in Id, NEW ans \in Answer, UiAnswer(i, ans) PROVE OneInHand' /\ NotMultiplied'
  <2>. DEFINE x == [id |-> i, answer |-> ans]
  <2>1. /\ hand = {} /\ hand' = {x} /\ UNCHANGED <<queue, spent>>
        /\ \A j \in Id : approvals'[j] = approvals[j] + One(Yes(x, j))
    BY <1>3, <1>q DEF UiAnswer, OwnerSays, Yes, One, TypeOK
  <2>. HIDE DEF x
  <2>2. \A j \in Id : /\ Cardinality({y \in hand : Yes(y, j)}) = 0
                      /\ Cardinality({y \in hand' : Yes(y, j)}) = One(Yes(x, j))
    BY <2>1, HandCounts
  <2>. QED BY <1>q, <1>c, <2>1, <2>2, SMTT(30) DEF NotMultiplied, Given, OneInHand, One
<1>4. CASE UiNotify
  <2>1. PICK h \in hand : queue' = queue \/ queue' = Append(queue, h)
    BY <1>4 DEF UiNotify
  <2>2. hand = {h} /\ h \in Decision /\ hand' = {} /\ UNCHANGED <<spent, approvals>>
    BY <1>4, <1>q, <2>1 DEF UiNotify, OneInHand
  <2>3. \A j \in Id : /\ Cardinality({y \in hand : Yes(y, j)}) = One(Yes(h, j))
                      /\ Cardinality({y \in hand' : Yes(y, j)}) = 0
    BY <2>2, HandCounts
  <2>4. \A j \in Id : Cardinality(YesIn(queue', j)) \in
                        {Cardinality(YesIn(queue, j)), Cardinality(YesIn(queue, j)) + One(Yes(h, j))}
    BY <1>q, <2>1, <2>2, YesPushed
  <2>5. \A j \in Id : Given(queue, hand, j)' <= Given(queue, hand, j)
    <3>1. \A j \in Id : One(Yes(h, j)) \in {0, 1}
      BY DEF One
    <3>. QED BY <1>c, <2>3, <2>4, <3>1 DEF Given
  <2>6. \A j \in Id : Given(queue, hand, j) \in Nat /\ Given(queue, hand, j)' \in Nat
    <3>1. \A j \in Id : One(Yes(h, j)) \in {0, 1}
      BY DEF One
    <3>. QED BY <1>c, <2>3, <2>4, <3>1 DEF Given
  <2>7. ASSUME NEW j \in Id PROVE spent'[j] + Given(queue, hand, j)' <= approvals'[j]
    <3>1. spent[j] + Given(queue, hand, j) <= approvals[j]
      BY DEF NotMultiplied
    <3>2. /\ spent'[j] = spent[j] /\ approvals'[j] = approvals[j]
          /\ spent[j] \in Nat /\ approvals[j] \in Nat
      BY <1>q, <2>2
    <3>3. \A k, l, m, n \in Nat : k + l <= m /\ n <= l => k + n <= m
      OBVIOUS
    <3>. QED BY <2>5, <2>6, <3>1, <3>2, <3>3
  <2>. QED BY <2>2, <2>7 DEF NotMultiplied, OneInHand
<1>5. CASE Resume
  <2>. DEFINE h == Head(queue)
  <2>1. /\ queue # <<>> /\ queue' = Tail(queue) /\ UNCHANGED <<hand, approvals>>
        /\ \/ HandleRefuse(h.id, h.answer) \/ HandleRun(h.id, h.answer) \/ UNCHANGED spent
    BY <1>5 DEF Resume
  <2>2. h \in Decision
    BY <1>q, <2>1
  <2>3. \A j \in Id : spent'[j] <= spent[j] + One(Yes(h, j)) /\ spent'[j] \in Nat
    <3>1. h.id \in Id
      BY <2>2 DEF Decision
    <3>2. spent' = spent \/ (spent' = [spent EXCEPT ![h.id] = @ + 1] /\ h.answer \in Approval)
      BY <2>1 DEF HandleRefuse, HandleRun
    <3>3. spent \in [Id -> Nat]
      BY <1>q DEF TypeOK
    <3>. HIDE DEF h
    <3>4. CASE spent' = spent
      BY <3>3, <3>4 DEF One
    <3>5. CASE spent' = [spent EXCEPT ![h.id] = @ + 1] /\ h.answer \in Approval
      <4>1. ASSUME NEW j \in Id PROVE spent'[j] = spent[j] + (IF j = h.id THEN 1 ELSE 0)
        BY <3>1, <3>3, <3>5
      <4>2. \A j \in Id : One(Yes(h, j)) = IF j = h.id THEN 1 ELSE 0
        BY <3>5 DEF Yes, One
      <4>. QED BY <3>3, <4>1, <4>2
    <3>. QED BY <3>2, <3>4, <3>5
  <2>4. \A j \in Id : Cardinality(YesIn(queue, j)) = Cardinality(YesIn(queue', j)) + One(Yes(h, j))
    BY <1>q, <2>1, YesTaken
  <2>5. \A j \in Id : Cardinality(YesIn(queue', j)) \in Nat
    <3>1. queue' \in Seq(Decision)
      BY <1>q, <2>1
    <3>. QED BY <3>1, YesFinite
  <2>. HIDE DEF h
  <2>6. ASSUME NEW j \in Id PROVE spent'[j] + Given(queue, hand, j)' <= approvals'[j]
    <3>1. One(Yes(h, j)) \in {0, 1} /\ spent[j] + Given(queue, hand, j) <= approvals[j]
      BY DEF One, NotMultiplied
    <3>2. Given(queue, hand, j) = Given(queue, hand, j)' + One(Yes(h, j)) /\ Given(queue, hand, j)' \in Nat
      BY <1>c, <2>1, <2>4, <2>5, <3>1 DEF Given
    <3>. QED BY <1>q, <2>1, <2>3, <3>1, <3>2
  <2>. QED BY <2>1, <2>6 DEF NotMultiplied, OneInHand
<1>6. CASE HeartbeatTick
  <2>1. /\ Expired \in SUBSET Id /\ "deny" \in Answer /\ "deny" \notin Approval
        /\ UNCHANGED <<hand, approvals, spent>>
    BY <1>6 DEF HeartbeatTick, Expired, Answer, Approval, TypeOK
  <2>2. PICK order \in Orders(Expired \cap prompts) : queue' = queue \o Wake(order, "deny")
    BY <1>6 DEF HeartbeatTick, answer
  <2>. DEFINE w == Wake(order, "deny")
  <2>3. w \in Seq(Decision) /\ \A k \in DOMAIN w : w[k].answer = "deny"
    BY <2>1, <2>2, WakeTypes DEF Wake
  <2>. HIDE DEF w
  <2>4. /\ \A k \in DOMAIN queue : k \in DOMAIN (queue \o w) /\ (queue \o w)[k] = queue[k]
        /\ \A k \in DOMAIN (queue \o w) : k \in DOMAIN queue \/ \E l \in DOMAIN w : (queue \o w)[k] = w[l]
    <3>1. ASSUME NEW k \in DOMAIN (queue \o w), k > Len(queue)
          PROVE  k - Len(queue) \in DOMAIN w /\ (queue \o w)[k] = w[k - Len(queue)]
      BY <1>q, <2>3, <3>1
    <3>. QED BY <1>q, <2>3, <3>1
  <2>5. queue' = queue \o w
    BY <2>2 DEF w
  <2>6. \A j \in Id : YesIn(queue', j) = YesIn(queue, j)
    BY <2>1, <2>3, <2>4, <2>5 DEF YesIn, Yes
  <2>. QED BY <2>1, <2>6 DEF NotMultiplied, Given, OneInHand
<1>7. CASE Revoke \/ Repair
  <2>1. queue' = <<>> /\ UNCHANGED <<hand, approvals, spent>>
    BY <1>7 DEF Revoke, Repair, DropClient
  <2>2. \A j \in Id : YesIn(queue', j) = {}
    BY <2>1 DEF YesIn
  <2>3. \A j \in Id : Cardinality(YesIn(queue', j)) = 0
    BY <2>2, FS_EmptySet
  <2>. QED BY <1>q, <1>c, <2>1, <2>3 DEF NotMultiplied, Given, OneInHand
<1>8. CASE UNCHANGED <<spent, queue, hand, approvals>>
  BY <1>8, CountKept DEF OneInHand
<1>. QED
  BY <1>1, <1>2, <1>3, <1>4, <1>5, <1>6, <1>7, <1>8
     DEF Next, ClientStep, LoopStep, UiStep, Park, DeleteUnparked, Complete, StreamFailed,
         Connect, Disconnect, ScopeUpdate, Clock, LinkLost, vars

\* The owner's yes is never used twice: what ran on an approval and what still
\* travels in the channel or the dialog's hand never exceeds what was given,
\* whichever surface answered and however often an id is sent.
THEOREM ApprovalsSpentOnce == Spec => []ApprovalsNotMultiplied
<1>1. Init => OneInHand /\ NotMultiplied
  <2>. SUFFICES ASSUME Init PROVE OneInHand /\ NotMultiplied
    OBVIOUS
  <2>1. \A i \in Id : YesIn(queue, i) = {} /\ {x \in hand : Yes(x, i)} = {}
    BY DEF Init, YesIn
  <2>2. \A i \in Id : Given(queue, hand, i) = 0
    BY <2>1, FS_EmptySet DEF Given
  <2>3. \A i \in Id : spent[i] = 0 /\ approvals[i] = 0
    BY DEF Init
  <2>4. NotMultiplied
    BY <2>2, <2>3 DEF NotMultiplied
  <2>. QED BY <2>4 DEF Init, OneInHand
<1>2. TypeOK /\ OneInHand /\ NotMultiplied /\ [Next]_vars => (TypeOK /\ OneInHand /\ NotMultiplied)'
  BY StepTypes, StepMultiplied
<1>3. TypeOK /\ OneInHand /\ NotMultiplied => ApprovalsNotMultiplied
  BY ApprovalsAre
<1>. QED BY InitTypes, <1>1, <1>2, <1>3, PTL DEF Spec
=============================================================================
