-------------------------- MODULE RefinementProofs --------------------------
(***************************************************************************)
(* When the server sends each id at most once, the action pipeline         *)
(* implements the owner's contract, for any actions, arms, grants and      *)
(* timeouts; and when every arm parks, each prompt belongs to an action.   *)
(***************************************************************************)
EXTENDS ConsentRefinement, ConsentBridgeProofs

USE ConstantsAssumption
USE DEF loopVars, brokerVars, history

----------------------------------------------------------------------------
(* The inductive invariant. *)

\* The pipeline holds something of action i.
Carried(i) == i \in parked \/ act = i \/ i \in prompts \/ Queued(i) \/ InHand(i)

\* Nothing is held of an id before it was sent, and the action in hand is not
\* parked as well.
OnceSent ==
  /\ \A i \in Id : sends[i] = 0 => ~Carried(i)
  /\ act \notin parked

\* A decision that says yes comes from an owner who did.
ApprovalsReal ==
  /\ \A k \in DOMAIN queue : queue[k].answer \in Approval => approvals[queue[k].id] > 0
  /\ \A h \in hand : h.answer \in Approval => approvals[h.id] > 0

RefInv == TypeOK /\ OnceSent /\ ApprovalsReal

LEMMA InitRef == Init => RefInv
<1>. SUFFICES ASSUME Init PROVE RefInv
  OBVIOUS
<1>1. OnceSent
  BY DEF Init, OnceSent, Carried, Queued, InHand
<1>2. ApprovalsReal
  BY DEF Init, ApprovalsReal
<1>. QED BY <1>1, <1>2, InitTypes DEF RefInv

\* What an answer adds to the channel: decisions of that kind about the prompts
\* it drained.
LEMMA AnswerAdds ==
  ASSUME TypeOK, NEW S \in SUBSET Id, NEW ans \in Answer, answer(S, ans)
  PROVE  \A k \in DOMAIN queue' :
           \/ k \in DOMAIN queue /\ queue'[k] = queue[k]
           \/ queue'[k].answer = ans /\ queue'[k].id \in S \cap prompts
<1>1. PICK order \in Orders(S \cap prompts) : queue' = queue \o Wake(order, ans)
  BY DEF answer
<1>2. Cardinality(S \cap prompts) \in Nat
  BY FS_Subset, FS_CardinalityType
<1>3. /\ order \in [1..Cardinality(S \cap prompts) -> S \cap prompts]
      /\ Wake(order, ans) \in Seq(Decision)
  BY <1>1, WakeTypes DEF Orders
<1>4. \A k \in DOMAIN Wake(order, ans) :
        Wake(order, ans)[k].answer = ans /\ Wake(order, ans)[k].id \in S \cap prompts
  BY <1>3 DEF Wake
<1>5. queue \in Seq(Decision)
  BY DEF TypeOK
<1>. DEFINE w == Wake(order, ans)
<1>. HIDE DEF w
<1>6. \A k \in DOMAIN (queue \o w) :
        \/ k \in DOMAIN queue /\ (queue \o w)[k] = queue[k]
        \/ \E j \in DOMAIN w : (queue \o w)[k] = w[j]
  <2>1. w \in Seq(Decision)
    BY <1>3 DEF w
  <2>2. ASSUME NEW k \in DOMAIN (queue \o w), k > Len(queue)
        PROVE  k - Len(queue) \in DOMAIN w /\ (queue \o w)[k] = w[k - Len(queue)]
    BY <1>5, <2>1, <2>2
  <2>. QED BY <1>5, <2>1, <2>2
<1>7. queue' = queue \o w /\ \A j \in DOMAIN w : w[j].answer = ans /\ w[j].id \in S \cap prompts
  BY <1>1, <1>4 DEF w
<1>. QED BY <1>6, <1>7

\* What a decision taken leaves in the channel was there before.
LEMMA TailKeeps ==
  ASSUME TypeOK, queue # <<>>, queue' = Tail(queue)
  PROVE  /\ \A k \in DOMAIN queue' : \E j \in DOMAIN queue : queue'[k] = queue[j]
         /\ 1 \in DOMAIN queue /\ Head(queue) = queue[1] /\ Head(queue) \in Decision
<1>1. queue \in Seq(Decision)
  BY DEF TypeOK
<1>2. \A k \in DOMAIN queue' : k + 1 \in DOMAIN queue /\ queue'[k] = queue[k + 1]
  BY <1>1
<1>. QED BY <1>1, <1>2

\* A step that adds nothing to what is held of any action but i, which was sent.
LEMMA CarriedBy ==
  ASSUME OnceSent, NEW i \in Id, sends'[i] # 0,
         \A j \in Id : j # i => sends'[j] = sends[j] /\ (Carried(j)' => Carried(j)),
         act' \notin parked'
  PROVE  OnceSent'
BY DEF OnceSent

LEMMA CarriedLess ==
  ASSUME OnceSent, UNCHANGED sends, \A j \in Id : Carried(j)' => Carried(j), act' \notin parked'
  PROVE  OnceSent'
BY DEF OnceSent

LEMMA StepOnce == ASSUME MaxSend <= 1, RefInv, [Next]_vars PROVE OnceSent'
<1>. USE DEF RefInv
<1>t. TypeOK'
  BY StepTypes
<1>n. NoAct \notin Id /\ NoAct \notin parked /\ NoAct \notin parked'
  BY <1>t DEF TypeOK
<1>1. ASSUME NEW i \in Id, RecvRequest(i) PROVE OnceSent'
  <2>1. sends[i] = 0 /\ sends'[i] = 1 /\ \A j \in Id : j # i => sends'[j] = sends[j]
    BY <1>1 DEF RecvRequest, TypeOK
  <2>2. /\ UNCHANGED <<parked, hand, queue>> /\ prompts' \subseteq prompts \cup {i}
        /\ act' \in {i, NoAct}
    BY <1>1 DEF RecvRequest, HandleRefuse, HandleRun, HandleAsk
  <2>3. \A j \in Id : j # i => (Carried(j)' => Carried(j))
    BY <1>n, <2>2 DEF Carried, Queued, InHand
  <2>4. act' \notin parked'
    BY <1>n, <2>1, <2>2 DEF OnceSent, Carried
  <2>. QED BY <2>1, <2>3, <2>4, CarriedBy
<1>2. ASSUME NEW i \in Id, Park(i) PROVE OnceSent'
  <2>1. act = i /\ act' = NoAct /\ parked' = parked \cup {i} /\ UNCHANGED <<sends, prompts, hand, queue>>
    BY <1>2 DEF Park
  <2>2. \A j \in Id : Carried(j)' => Carried(j)
    BY <1>n, <2>1 DEF Carried, Queued, InHand
  <2>. QED BY <1>n, <2>1, <2>2, CarriedLess
<1>3. ASSUME NEW i \in Id, DeleteUnparked(i) \/ Complete(i) \/ StreamFailed(i) PROVE OnceSent'
  <2>1. act' = NoAct /\ UNCHANGED <<parked, sends, prompts, hand, queue>>
    BY <1>3 DEF DeleteUnparked, Complete, StreamFailed
  <2>2. \A j \in Id : Carried(j)' => Carried(j)
    BY <1>n, <2>1 DEF Carried, Queued, InHand
  <2>. QED BY <1>n, <2>1, <2>2, CarriedLess
<1>4. ASSUME NEW i \in Id, NEW ans \in Answer, WebAnswer(i, ans) PROVE OnceSent'
  <2>1. /\ {i} \in SUBSET Id /\ i \in prompts /\ answer({i}, ans) /\ prompts' = prompts \ {i}
        /\ UNCHANGED <<act, parked, sends, hand>>
    BY <1>4 DEF WebAnswer, answer
  <2>2. \A j \in Id : Queued(j)' => Queued(j) \/ j \in prompts
    BY <2>1, AnswerAdds DEF Queued
  <2>3. \A j \in Id : Carried(j)' => Carried(j)
    BY <2>1, <2>2 DEF Carried, InHand
  <2>. QED BY <2>1, <2>3, CarriedLess DEF OnceSent
<1>5. ASSUME NEW i \in Id, NEW ans \in Answer, UiAnswer(i, ans) PROVE OnceSent'
  <2>1. /\ i \in prompts /\ prompts' = prompts \ {i} /\ hand' = {[id |-> i, answer |-> ans]}
        /\ UNCHANGED <<act, parked, sends, queue>>
    BY <1>5 DEF UiAnswer
  <2>2. \A j \in Id : Carried(j)' => Carried(j)
    BY <2>1 DEF Carried, Queued, InHand
  <2>. QED BY <2>1, <2>2, CarriedLess DEF OnceSent
<1>6. CASE UiNotify
  <2>1. PICK h \in hand : queue' = queue \/ queue' = Append(queue, h)
    BY <1>6 DEF UiNotify
  <2>2. hand' = {} /\ UNCHANGED <<act, parked, sends, prompts>> /\ queue \in Seq(Decision) /\ h \in Decision
    BY <1>6 DEF UiNotify, TypeOK
  <2>3. \A j \in Id : Queued(j)' => Queued(j) \/ InHand(j)
    <3>1. \A k \in DOMAIN Append(queue, h) :
            \/ k \in DOMAIN queue /\ Append(queue, h)[k] = queue[k]
            \/ Append(queue, h)[k] = h
      BY <2>2
    <3>. QED BY <2>1, <3>1 DEF Queued, InHand
  <2>4. \A j \in Id : Carried(j)' => Carried(j)
    BY <2>2, <2>3 DEF Carried, InHand
  <2>. QED BY <2>2, <2>4, CarriedLess DEF OnceSent
<1>7. CASE Resume
  <2>. DEFINE i == Head(queue).id
  <2>1. /\ queue # <<>> /\ queue' = Tail(queue) /\ parked' = parked \ {i}
        /\ act = NoAct /\ act' \in {i, NoAct} /\ UNCHANGED <<sends, prompts, hand>>
    BY <1>7 DEF Resume, HandleRefuse, HandleRun, TypeOK
  <2>2. i \in Id /\ Queued(i) /\ \A j \in Id : Queued(j)' => Queued(j)
    BY <2>1, TailKeeps DEF Queued, Decision
  <2>. HIDE DEF i
  <2>3. \A j \in Id : Carried(j)' => Carried(j)
    BY <1>n, <2>1, <2>2 DEF Carried, InHand
  <2>. QED BY <1>n, <2>1, <2>3, CarriedLess
<1>8. CASE HeartbeatTick
  <2>1. /\ Expired \in SUBSET Id /\ "deny" \in Answer /\ answer(Expired, "deny")
        /\ prompts' \subseteq prompts /\ parked' \subseteq parked /\ UNCHANGED <<act, sends, hand>>
    BY <1>8 DEF HeartbeatTick, answer, Expired, Answer, TypeOK
  <2>2. \A j \in Id : Queued(j)' => Queued(j) \/ j \in prompts
    BY <2>1, AnswerAdds DEF Queued
  <2>3. \A j \in Id : Carried(j)' => Carried(j)
    BY <2>1, <2>2 DEF Carried, InHand
  <2>. QED BY <2>1, <2>3, CarriedLess DEF OnceSent
<1>9. CASE Revoke \/ Repair
  <2>1. act' = NoAct /\ parked' = {} /\ queue' = <<>> /\ UNCHANGED <<prompts, hand, sends>>
    BY <1>9 DEF Revoke, Repair, DropClient
  <2>2. \A j \in Id : Carried(j)' => Carried(j)
    BY <1>n, <2>1 DEF Carried, Queued, InHand
  <2>. QED BY <1>n, <2>1, <2>2, CarriedLess
<1>10. CASE UNCHANGED <<act, parked, prompts, hand, queue, sends>>
  BY <1>10 DEF OnceSent, Carried, Queued, InHand
<1>. QED
  BY <1>1, <1>2, <1>3, <1>4, <1>5, <1>6, <1>7, <1>8, <1>9, <1>10
     DEF Next, ClientStep, LoopStep, UiStep, Connect, Disconnect, ScopeUpdate, Clock, LinkLost, vars

\* An approval is counted for its action, and none is ever taken back.
LEMMA SaysCounts ==
  ASSUME TypeOK, NEW i \in Id, NEW ans \in Answer, OwnerSays(i, ans)
  PROVE  /\ \A j \in Id : approvals[j] > 0 => approvals'[j] > 0
         /\ ans \in Approval => approvals'[i] > 0
<1>1. \A j \in Id : approvals[j] \in Nat
  BY DEF TypeOK
<1>2. CASE ans \in Approval
  <2>1. approvals' = [approvals EXCEPT ![i] = approvals[i] + 1] /\ DOMAIN approvals = Id
    BY <1>2 DEF OwnerSays, TypeOK
  <2>2. \A j \in Id : approvals'[j] = IF j = i THEN approvals[i] + 1 ELSE approvals[j]
    BY <2>1
  <2>. QED BY <1>1, <2>2
<1>3. CASE ans \notin Approval
  BY <1>3 DEF OwnerSays
<1>. QED BY <1>2, <1>3

LEMMA DecisionIds ==
  ASSUME TypeOK
  PROVE  /\ \A k \in DOMAIN queue : queue[k].id \in Id
         /\ \A h \in hand : h.id \in Id
<1>1. \A x \in Decision : x.id \in Id
  BY DEF Decision
<1>2. queue \in Seq(Decision) /\ hand \subseteq Decision
  BY DEF TypeOK
<1>3. \A k \in DOMAIN queue : queue[k] \in Decision
  BY <1>2
<1>. QED BY <1>1, <1>2, <1>3

LEMMA StepReal == ASSUME RefInv, [Next]_vars PROVE ApprovalsReal'
<1>. USE DEF RefInv
<1>1. ASSUME NEW i \in Id, NEW ans \in Answer, WebAnswer(i, ans) PROVE ApprovalsReal'
  <2>1. {i} \in SUBSET Id /\ answer({i}, ans) /\ OwnerSays(i, ans) /\ UNCHANGED hand
    BY <1>1 DEF WebAnswer
  <2>2. /\ \A j \in Id : approvals[j] > 0 => approvals'[j] > 0
        /\ ans \in Approval => approvals'[i] > 0
    BY <2>1, SaysCounts
  <2>4. /\ \A k \in DOMAIN queue : queue[k].id \in Id
        /\ \A h \in hand : h.id \in Id
    BY DecisionIds
  <2>5. ASSUME NEW k \in DOMAIN queue', queue'[k].answer \in Approval
        PROVE  approvals'[queue'[k].id] > 0
    <3>1. \/ k \in DOMAIN queue /\ queue'[k] = queue[k]
          \/ queue'[k].answer = ans /\ queue'[k].id \in {i} \cap prompts
      BY <2>1, AnswerAdds
    <3>2. CASE k \in DOMAIN queue /\ queue'[k] = queue[k]
      <4>1. queue[k].id \in Id /\ approvals[queue[k].id] > 0
        BY <2>4, <2>5, <3>2 DEF ApprovalsReal
      <4>. QED BY <2>2, <3>2, <4>1
    <3>3. CASE queue'[k].answer = ans /\ queue'[k].id = i
      BY <2>2, <2>5, <3>3
    <3>. QED BY <3>1, <3>2, <3>3
  <2>. QED BY <2>1, <2>2, <2>4, <2>5 DEF ApprovalsReal
<1>2. ASSUME NEW i \in Id, NEW ans \in Answer, UiAnswer(i, ans) PROVE ApprovalsReal'
  <2>1. hand' = {[id |-> i, answer |-> ans]} /\ OwnerSays(i, ans) /\ UNCHANGED queue
    BY <1>2 DEF UiAnswer
  <2>2. /\ \A j \in Id : approvals[j] > 0 => approvals'[j] > 0
        /\ ans \in Approval => approvals'[i] > 0
    BY <2>1, SaysCounts
  <2>4. \A k \in DOMAIN queue : queue[k].id \in Id
    BY DecisionIds
  <2>. QED BY <2>1, <2>2, <2>4 DEF ApprovalsReal
<1>3. CASE UiNotify
  <2>1. PICK h \in hand : queue' = queue \/ queue' = Append(queue, h)
    BY <1>3 DEF UiNotify
  <2>2. \A k \in DOMAIN Append(queue, h) :
          \/ k \in DOMAIN queue /\ Append(queue, h)[k] = queue[k]
          \/ Append(queue, h)[k] = h
    BY DEF TypeOK
  <2>. QED BY <1>3, <2>1, <2>2 DEF UiNotify, ApprovalsReal
<1>4. CASE Resume
  <2>1. queue # <<>> /\ queue' = Tail(queue) /\ UNCHANGED <<hand, approvals>>
    BY <1>4 DEF Resume
  <2>. QED BY <2>1, TailKeeps DEF ApprovalsReal
<1>5. CASE HeartbeatTick
  <2>1. /\ Expired \in SUBSET Id /\ "deny" \in Answer \ Approval /\ answer(Expired, "deny")
        /\ UNCHANGED <<hand, approvals>>
    BY <1>5 DEF HeartbeatTick, Expired, Answer, Approval, TypeOK
  <2>. QED BY <2>1, AnswerAdds DEF ApprovalsReal
<1>6. CASE Revoke \/ Repair
  BY <1>6 DEF Revoke, Repair, DropClient, ApprovalsReal
<1>7. CASE UNCHANGED <<hand, queue, approvals>>
  BY <1>7 DEF ApprovalsReal
<1>. QED
  BY <1>1, <1>2, <1>3, <1>4, <1>5, <1>6, <1>7
     DEF Next, ClientStep, LoopStep, UiStep, RecvRequest, HandleRefuse, HandleRun, HandleAsk, Park,
         DeleteUnparked, Complete, StreamFailed, Connect, Disconnect, ScopeUpdate, Clock, LinkLost, vars


----------------------------------------------------------------------------
(* The contract's steps, in the terms of the pipeline. *)

LEMMA ContractStutter ==
  ASSUME \A j \in Id : PhaseOf(j)' = PhaseOf(j), UNCHANGED <<approvals, gate>>
  PROVE  UNCHANGED Contract!vars
BY DEF Contract!vars, Allowed, Trusted

LEMMA ContractClose ==
  ASSUME NEW S \in SUBSET Id, \A j \in Id : PhaseOf(j)' = IF j \in S THEN "closed" ELSE PhaseOf(j),
         UNCHANGED <<approvals, gate>>
  PROVE  Contract!Next
<1>1. Contract!Close(S)
  BY DEF Contract!Close
<1>2. UNCHANGED <<{i \in Id : Allowed(gate, i)}, {i \in Id : Allowed(gate, i) /\ Trusted(gate, i)}>>
  BY DEF Allowed, Trusted
<1>. QED BY <1>1, <1>2 DEF Contract!Next

LEMMA ContractAsk ==
  ASSUME NEW i \in Id, PhaseOf(i) = "idle", Allowed(gate, i), ~Trusted(gate, i),
         \A j \in Id : PhaseOf(j)' = IF j = i THEN "waiting" ELSE PhaseOf(j),
         UNCHANGED <<approvals, gate>>
  PROVE  Contract!Next
<1>1. Contract!Ask(i)
  BY DEF Contract!Ask, Allowed, Trusted
<1>. QED BY <1>1 DEF Contract!Next

LEMMA ContractApprove ==
  ASSUME NEW i \in Id, PhaseOf(i) # "idle", \A j \in Id : PhaseOf(j)' = PhaseOf(j),
         {j \in Id : approvals'[j] > 0} = {j \in Id : approvals[j] > 0} \cup {i}, UNCHANGED gate
  PROVE  Contract!Next
<1>1. Contract!Approve(i)
  BY DEF Contract!Approve, Allowed, Trusted
<1>. QED BY <1>1 DEF Contract!Next

LEMMA ContractStart ==
  ASSUME NEW i \in Id, \A j \in Id : PhaseOf(j) # "running", Allowed(gate, i),
         \/ PhaseOf(i) \in {"idle", "waiting"} /\ Trusted(gate, i)
         \/ PhaseOf(i) = "waiting" /\ approvals[i] > 0,
         \A j \in Id : PhaseOf(j)' = IF j = i THEN "running" ELSE PhaseOf(j),
         \A j \in Id : /\ Allowed(gate, j)' <=> Allowed(gate, j)
                       /\ Trusted(gate, j) => Trusted(gate, j)',
         UNCHANGED approvals
  PROVE  Contract!Next
<1>1. Contract!Start(i)
  BY DEF Contract!Start
<1>. QED BY <1>1 DEF Contract!Next

LEMMA ContractRegrant ==
  ASSUME \A j \in Id : PhaseOf(j)' = PhaseOf(j), UNCHANGED approvals
  PROVE  Contract!Next
<1>1. Contract!Regrant
  BY DEF Contract!Regrant
<1>. QED BY <1>1 DEF Contract!Next

LEMMA ContractLeave ==
  ASSUME \A j \in Id : PhaseOf(j)' = IF PhaseOf(j) \in {"waiting", "running"} THEN "closed" ELSE PhaseOf(j),
         UNCHANGED approvals
  PROVE  Contract!Next
<1>1. Contract!Close({j \in Id : [i \in Id |-> PhaseOf(i)][j] \in {"waiting", "running"}})
  BY DEF Contract!Close
<1>. QED BY <1>1 DEF Contract!Next

LEMMA ContractInit == Init => Contract!Init
<1>. SUFFICES ASSUME Init PROVE Contract!Init
  OBVIOUS
<1>1. \A i \in Id : PhaseOf(i) = "idle" /\ ~(approvals[i] > 0)
  BY DEF Init, PhaseOf
<1>. QED BY <1>1 DEF Contract!Init

----------------------------------------------------------------------------
(* Every step of the pipeline is a step of the contract or changes nothing. *)

\* Ids that a step does not concern keep their phase.
LEMMA PhaseKept ==
  ASSUME NEW j \in Id, sends'[j] = sends[j], j \in parked' <=> j \in parked,
         act' = j <=> act = j, act = j => loop' = loop
  PROVE  PhaseOf(j)' = PhaseOf(j)
BY DEF PhaseOf

LEMMA Simulates ==
  ASSUME MaxSend <= 1, RefInv, [Next]_vars
  PROVE  Contract!Next \/ UNCHANGED Contract!vars
<1>. USE DEF RefInv
<1>t. TypeOK' /\ NoAct \notin Id
  BY StepTypes
<1>1. ASSUME NEW i \in Id, RecvRequest(i) PROVE Contract!Next \/ UNCHANGED Contract!vars
  <2>1. /\ sends[i] = 0 /\ sends'[i] = 1 /\ i \notin parked
        /\ \A j \in Id : j # i => sends'[j] = sends[j]
        /\ act = NoAct /\ UNCHANGED <<parked, approvals>>
    BY <1>1 DEF RecvRequest, TypeOK, OnceSent, Carried
  <2>2. act' \in {i, NoAct}
    BY <1>1 DEF RecvRequest, HandleRefuse, HandleRun, HandleAsk
  <2>3. /\ \A j \in Id : j # i => PhaseOf(j)' = PhaseOf(j)
        /\ PhaseOf(i) = "idle" /\ \A j \in Id : PhaseOf(j) # "running"
    BY <1>t, <2>1, <2>2 DEF PhaseOf
  <2>4. CASE HandleRefuse(i, "none")
    <3>1. PhaseOf(i)' = "closed"
      BY <1>t, <2>1, <2>4 DEF HandleRefuse, PhaseOf
    <3>2. {i} \in SUBSET Id /\ UNCHANGED gate
      BY <2>4 DEF HandleRefuse
    <3>. QED BY <2>1, <2>3, <3>1, <3>2, ContractClose
  <2>5. CASE HandleRun(i, "none")
    <3>1. Allowed(gate, i) /\ Trusted(gate, i) /\ UNCHANGED gate
      BY <2>5 DEF HandleRun, Approval
    <3>2. PhaseOf(i)' = "running"
      BY <2>1, <2>5 DEF HandleRun, PhaseOf
    <3>3. \A j \in Id : (Allowed(gate, j)' <=> Allowed(gate, j)) /\ (Trusted(gate, j) => Trusted(gate, j)')
      BY <3>1 DEF Allowed, Trusted
    <3>. QED BY <2>1, <2>3, <3>1, <3>2, <3>3, ContractStart
  <2>6. CASE HandleAsk(i)
    <3>1. PhaseOf(i)' = "waiting" /\ Allowed(gate, i) /\ ~Trusted(gate, i) /\ UNCHANGED gate
      BY <2>1, <2>6 DEF HandleAsk, PhaseOf
    <3>. QED BY <2>1, <2>3, <3>1, ContractAsk
  <2>. QED BY <1>1, <2>4, <2>5, <2>6 DEF RecvRequest
<1>2. ASSUME NEW i \in Id, Park(i) PROVE Contract!Next \/ UNCHANGED Contract!vars
  <2>1. /\ act = i /\ act' = NoAct /\ loop = "asking" /\ parked' = parked \cup {i}
        /\ UNCHANGED <<sends, approvals, gate>>
    BY <1>2 DEF Park
  <2>2. \A j \in Id : PhaseOf(j)' = PhaseOf(j)
    BY <1>t, <2>1 DEF PhaseOf
  <2>. QED BY <2>1, <2>2, ContractStutter
<1>3. ASSUME NEW i \in Id, DeleteUnparked(i) \/ Complete(i) \/ StreamFailed(i)
      PROVE  Contract!Next \/ UNCHANGED Contract!vars
  <2>1. act = i /\ act' = NoAct /\ UNCHANGED <<parked, sends, approvals, gate>>
    BY <1>3 DEF DeleteUnparked, Complete, StreamFailed
  <2>2. sends[i] # 0 /\ i \notin parked
    BY <2>1 DEF OnceSent, Carried
  <2>3. \A j \in Id : PhaseOf(j)' = IF j \in {i} THEN "closed" ELSE PhaseOf(j)
    BY <1>t, <2>1, <2>2 DEF PhaseOf
  <2>. QED BY <2>1, <2>3, ContractClose
<1>4. ASSUME NEW i \in Id, NEW ans \in Answer, WebAnswer(i, ans) \/ UiAnswer(i, ans)
      PROVE  Contract!Next \/ UNCHANGED Contract!vars
  <2>1. i \in prompts /\ OwnerSays(i, ans) /\ UNCHANGED <<loop, act, parked, sends, gate>>
    BY <1>4 DEF WebAnswer, UiAnswer
  <2>2. \A j \in Id : PhaseOf(j)' = PhaseOf(j)
    BY <2>1 DEF PhaseOf
  <2>3. CASE ans \in Approval
    <3>1. PhaseOf(i) # "idle"
      BY <2>1 DEF PhaseOf, OnceSent, Carried
    <3>2. \A j \in Id : approvals[j] \in Nat
      BY DEF TypeOK
    <3>3. \A j \in Id : approvals'[j] = IF j = i THEN approvals[i] + 1 ELSE approvals[j]
      BY <2>1, <2>3 DEF OwnerSays, TypeOK
    <3>4. {j \in Id : approvals'[j] > 0} = {j \in Id : approvals[j] > 0} \cup {i}
      BY <3>2, <3>3
    <3>. QED BY <2>1, <2>2, <3>1, <3>4, ContractApprove
  <2>4. CASE ans \notin Approval
    BY <2>1, <2>2, <2>4, ContractStutter DEF OwnerSays
  <2>. QED BY <2>3, <2>4
<1>5. CASE Resume
  <2>. DEFINE i == Head(queue).id
              d == Head(queue).answer
  <2>1. /\ act = NoAct /\ parked' = parked \ {i} /\ UNCHANGED <<sends, approvals>>
        /\ \/ i \in parked /\ HandleRefuse(i, d)
           \/ i \in parked /\ HandleRun(i, d)
           \/ i \notin parked /\ UNCHANGED <<loop, act, gate>>
    BY <1>5 DEF Resume, TypeOK
  <2>2. i \in Id /\ (d \in Approval => approvals[i] > 0)
    <3>1. queue # <<>> /\ queue' = Tail(queue)
      BY <1>5 DEF Resume
    <3>. QED BY <3>1, TailKeeps, DecisionIds DEF ApprovalsReal
  <2>. HIDE DEF i, d
  <2>3. \A j \in Id : PhaseOf(j) # "running"
    BY <1>t, <2>1 DEF PhaseOf
  <2>4. i \in parked => PhaseOf(i) = "waiting" /\ sends[i] # 0
    BY <1>t, <2>1, <2>2 DEF PhaseOf, OnceSent, Carried
  <2>5. CASE i \in parked /\ HandleRefuse(i, d)
    <3>1. act' = NoAct /\ UNCHANGED gate
      BY <2>5 DEF HandleRefuse
    <3>2. \A j \in Id : PhaseOf(j)' = IF j \in {i} THEN "closed" ELSE PhaseOf(j)
      BY <1>t, <2>1, <2>4, <2>5, <3>1 DEF PhaseOf
    <3>. QED BY <2>1, <2>2, <3>1, <3>2, ContractClose
  <2>6. CASE i \in parked /\ HandleRun(i, d)
    <3>1. act' = i /\ loop' = "running"
      BY <2>6 DEF HandleRun
    <3>2. \A j \in Id : PhaseOf(j)' = IF j = i THEN "running" ELSE PhaseOf(j)
      BY <1>t, <2>1, <2>2, <2>4, <2>6, <3>1 DEF PhaseOf
    <3>3. Allowed(gate, i) /\ (Trusted(gate, i) \/ approvals[i] > 0)
      BY <2>2, <2>6 DEF HandleRun
    <3>4. gate' \in {gate, [gate EXCEPT !.paths = gate.paths \cup {PathOf[i]}]} /\ gate \in Gate
      BY <2>6 DEF HandleRun, Remember, TypeOK
    <3>5. gate'.scopes = gate.scopes /\ gate.paths \subseteq gate'.paths
      BY <3>4 DEF Gate
    <3>6. \A j \in Id : (Allowed(gate, j)' <=> Allowed(gate, j)) /\ (Trusted(gate, j) => Trusted(gate, j)')
      BY <3>5 DEF Allowed, Trusted
    <3>. QED BY <2>1, <2>2, <2>3, <2>4, <2>6, <3>2, <3>3, <3>6, ContractStart
  <2>7. CASE i \notin parked /\ UNCHANGED <<loop, act, gate>>
    <3>1. \A j \in Id : PhaseOf(j)' = PhaseOf(j)
      BY <2>1, <2>7 DEF PhaseOf
    <3>. QED BY <2>1, <2>7, <3>1, ContractStutter
  <2>. QED BY <2>1, <2>5, <2>6, <2>7
<1>6. CASE HeartbeatTick
  <2>1. /\ act = NoAct /\ Expired \in SUBSET Id /\ Expired \subseteq parked /\ parked' = parked \ Expired
        /\ UNCHANGED <<loop, act, sends, approvals, gate>>
    BY <1>6 DEF HeartbeatTick, Expired, TypeOK
  <2>2. \A j \in parked : sends[j] # 0
    BY DEF TypeOK, OnceSent, Carried
  <2>3. \A j \in Id : PhaseOf(j)' = IF j \in Expired THEN "closed" ELSE PhaseOf(j)
    BY <1>t, <2>1, <2>2 DEF PhaseOf
  <2>. QED BY <2>1, <2>3, ContractClose
<1>7. CASE Connect \/ ScopeUpdate
  <2>1. act = NoAct /\ UNCHANGED <<act, parked, sends, approvals>>
    BY <1>7 DEF Connect, ScopeUpdate, TypeOK
  <2>2. \A j \in Id : PhaseOf(j)' = PhaseOf(j)
    BY <1>t, <2>1 DEF PhaseOf
  <2>. QED BY <2>1, <2>2, ContractRegrant
<1>8. CASE Revoke \/ Repair
  <2>1. act' = NoAct /\ parked' = {} /\ UNCHANGED <<sends, approvals>>
    BY <1>8 DEF Revoke, Repair, DropClient
  <2>2. \A j \in Id : PhaseOf(j)' = IF PhaseOf(j) \in {"waiting", "running"} THEN "closed" ELSE PhaseOf(j)
    BY <1>t, <2>1 DEF PhaseOf
  <2>. QED BY <2>1, <2>2, ContractLeave
<1>9. CASE Disconnect
  <2>1. act = NoAct /\ UNCHANGED <<act, parked, sends, approvals, gate>>
    BY <1>9 DEF Disconnect, TypeOK
  <2>2. \A j \in Id : PhaseOf(j)' = PhaseOf(j)
    BY <1>t, <2>1 DEF PhaseOf
  <2>. QED BY <2>1, <2>2, ContractStutter
<1>10. CASE UNCHANGED <<loop, act, parked, sends, approvals, gate>>
  <2>1. \A j \in Id : PhaseOf(j)' = PhaseOf(j)
    BY <1>10 DEF PhaseOf
  <2>. QED BY <1>10, <2>1, ContractStutter
<1>. QED
  BY <1>1, <1>2, <1>3, <1>4, <1>5, <1>6, <1>7, <1>8, <1>9, <1>10
     DEF Next, ClientStep, LoopStep, UiStep, UiNotify, Clock, LinkLost, vars

\* The pipeline keeps the owner's contract: however requests, answers on both
\* surfaces, sweeps, reconnections and new clients interleave, an action runs
\* at most once, one at a time, and only with its capability granted and either
\* an open target or an approval given while it waited.
THEOREM ContractImplemented == ASSUME MaxSend <= 1 PROVE Spec => ImplementsContract
<1>1. RefInv /\ [Next]_vars => RefInv'
  BY StepTypes, StepOnce, StepReal DEF RefInv
<1>2. RefInv /\ [Next]_vars => [Contract!Next]_(Contract!vars)
  BY Simulates
<1>. QED BY InitRef, ContractInit, <1>1, <1>2, PTL DEF Spec, ImplementsContract, Contract!Spec

----------------------------------------------------------------------------
(* No surface shows a prompt whose answer reaches nothing. *)

\* The strengthening: while a prompt is up no answer to it is on its way.
OneAnswer == \A i \in prompts : ~Queued(i) /\ ~InHand(i)

LEMMA StepPrompts ==
  ASSUME MaxSend <= 1, \A i \in Id : ArmOf[i] # "delete",
         RefInv, OneAnswer, NoOrphanPrompt, [ClientStep]_vars
  PROVE  OneAnswer' /\ NoOrphanPrompt'
<1>. USE DEF RefInv
<1>t. prompts \subseteq Id /\ NoAct \notin Id
  BY DEF TypeOK
<1>1. ASSUME NEW i \in Id, RecvRequest(i) PROVE OneAnswer' /\ NoOrphanPrompt'
  <2>1. sends[i] = 0 /\ ~Queued(i) /\ ~InHand(i) /\ loop = "idle" /\ UNCHANGED <<parked, hand, queue>>
    BY <1>1 DEF RecvRequest, TypeOK, OnceSent, Carried
  <2>2. \/ UNCHANGED prompts
        \/ prompts' = prompts \cup {i} /\ loop' = "asking" /\ act' = i
    BY <1>1 DEF RecvRequest, HandleAsk
  <2>3. OneAnswer'
    BY <2>1, <2>2 DEF OneAnswer, Queued, InHand
  <2>. QED BY <2>1, <2>2, <2>3 DEF NoOrphanPrompt
<1>2. ASSUME NEW i \in Id, Park(i) \/ Complete(i) \/ StreamFailed(i) PROVE OneAnswer' /\ NoOrphanPrompt'
  <2>1. OneAnswer'
    BY <1>2 DEF Park, Complete, StreamFailed, OneAnswer, Queued, InHand
  <2>2. NoOrphanPrompt'
    BY <1>2 DEF Park, Complete, StreamFailed, NoOrphanPrompt
  <2>. QED BY <2>1, <2>2
<1>3. ASSUME NEW i \in Id, NEW ans \in Answer, WebAnswer(i, ans) PROVE OneAnswer' /\ NoOrphanPrompt'
  <2>1. /\ {i} \in SUBSET Id /\ answer({i}, ans) /\ prompts' = prompts \ {i}
        /\ UNCHANGED <<loop, act, parked, hand>>
    BY <1>3 DEF WebAnswer, answer
  <2>2. \A j \in Id : j # i /\ Queued(j)' => Queued(j)
    BY <2>1, AnswerAdds DEF Queued
  <2>3. OneAnswer'
    BY <1>t, <2>1, <2>2 DEF OneAnswer, InHand
  <2>. QED BY <2>1, <2>3 DEF NoOrphanPrompt
<1>4. ASSUME NEW i \in Id, NEW ans \in Answer, UiAnswer(i, ans) PROVE OneAnswer' /\ NoOrphanPrompt'
  <2>1. /\ hand' = {[id |-> i, answer |-> ans]} /\ prompts' = prompts \ {i}
        /\ UNCHANGED <<loop, act, parked, queue>>
    BY <1>4 DEF UiAnswer
  <2>2. OneAnswer'
    BY <2>1 DEF OneAnswer, Queued, InHand
  <2>. QED BY <2>1, <2>2 DEF NoOrphanPrompt
<1>5. CASE UiNotify
  <2>1. PICK h \in hand : queue' = queue \/ queue' = Append(queue, h)
    BY <1>5 DEF UiNotify
  <2>2. \A k \in DOMAIN Append(queue, h) :
          \/ k \in DOMAIN queue /\ Append(queue, h)[k] = queue[k]
          \/ Append(queue, h)[k] = h
    BY DEF TypeOK
  <2>3. hand' = {} /\ UNCHANGED <<loop, act, parked, prompts>>
    BY <1>5 DEF UiNotify
  <2>4. OneAnswer'
    BY <2>1, <2>2, <2>3 DEF OneAnswer, Queued, InHand
  <2>. QED BY <2>3, <2>4 DEF NoOrphanPrompt
<1>6. CASE Resume
  <2>. DEFINE i == Head(queue).id
  <2>1. queue # <<>> /\ queue' = Tail(queue) /\ parked' = parked \ {i} /\ loop = "idle" /\ UNCHANGED <<prompts, hand>>
    BY <1>6 DEF Resume
  <2>2. Queued(i) /\ \A j \in Id : Queued(j)' => Queued(j)
    BY <2>1, TailKeeps DEF Queued
  <2>. HIDE DEF i
  <2>3. OneAnswer'
    BY <1>t, <2>1, <2>2 DEF OneAnswer, InHand
  <2>4. i \notin prompts
    BY <2>2 DEF OneAnswer
  <2>. QED BY <2>1, <2>3, <2>4 DEF NoOrphanPrompt
<1>7. CASE HeartbeatTick
  <2>1. /\ Expired \in SUBSET Id /\ "deny" \in Answer /\ answer(Expired, "deny")
        /\ prompts' = prompts \ Expired /\ parked' = parked \ Expired
        /\ UNCHANGED <<loop, act, hand>>
    BY <1>7 DEF HeartbeatTick, answer, Expired, Answer, TypeOK
  <2>2. \A j \in Id : j \notin Expired /\ Queued(j)' => Queued(j)
    BY <2>1, AnswerAdds DEF Queued
  <2>3. OneAnswer'
    BY <1>t, <2>1, <2>2 DEF OneAnswer, InHand
  <2>. QED BY <2>1, <2>3 DEF NoOrphanPrompt
<1>8. CASE Connect \/ Disconnect
  <2>1. loop # "asking" /\ UNCHANGED <<parked, prompts, hand, queue>>
    BY <1>8 DEF Connect, Disconnect
  <2>. QED BY <2>1 DEF NoOrphanPrompt, OneAnswer, Queued, InHand
<1>9. CASE UNCHANGED <<loop, act, parked, prompts, hand, queue>>
  BY <1>9 DEF NoOrphanPrompt, OneAnswer, Queued, InHand
<1>. QED
  BY <1>1, <1>2, <1>3, <1>4, <1>5, <1>6, <1>7, <1>8, <1>9
     DEF ClientStep, LoopStep, UiStep, DeleteUnparked, ScopeUpdate, Clock, LinkLost, vars

\* While one client lives, ids are sent once and every arm parks, each prompt on
\* a screen belongs to an action that waits for it: the sweep, the two surfaces
\* and reconnections take prompt and action down together.
THEOREM PromptsHaveActions ==
  ASSUME MaxSend <= 1, \A i \in Id : ArmOf[i] # "delete"
  PROVE  ClientSpec => []NoOrphanPrompt
<1>1. Init => RefInv /\ OneAnswer /\ NoOrphanPrompt
  BY InitRef DEF Init, OneAnswer, NoOrphanPrompt
<1>2. RefInv /\ OneAnswer /\ NoOrphanPrompt /\ [ClientStep]_vars
        => (RefInv /\ OneAnswer /\ NoOrphanPrompt)'
  <2>1. [ClientStep]_vars => [Next]_vars
    BY DEF Next
  <2>. QED BY <2>1, StepTypes, StepOnce, StepReal, StepPrompts DEF RefInv
<1>. QED BY <1>1, <1>2, PTL DEF ClientSpec
=============================================================================
