---------------------------- MODULE ServerProofs ----------------------------
(***************************************************************************)
(* The MCP servers, the language servers and the browser, for every value  *)
(* of their constants: a request is given the answer made for it, no       *)
(* failure leaves a server that nobody can stop, a file of a workspace is  *)
(* announced only once it counts as opened, a ref means the element its    *)
(* caller saw, and a browser session is of one piece.                      *)
(***************************************************************************)
EXTENDS MCPeers, SequenceTheorems, FiniteSetTheorems, TLAPS

USE McpAssumption, DapAssumption, LspAssumption, EvalAssumption, BrowserAssumption

(* Sequences that change in one place, grow or shrink by one element. *)

LEMMA ReplaceProperties ==
  ASSUME NEW S, NEW s \in Seq(S), NEW k \in DOMAIN s, NEW e \in S, NEW t, t = [s EXCEPT ![k] = e]
  PROVE  /\ t \in Seq(S) /\ Len(t) = Len(s) /\ DOMAIN t = DOMAIN s /\ t[k] = e
         /\ \A j \in DOMAIN s : j # k => t[j] = s[j]
<1>1. DOMAIN s = 1 .. Len(s) /\ Len(s) \in Nat /\ s \in [1 .. Len(s) -> S]
  OBVIOUS
<1>2. t \in [1 .. Len(s) -> S]
  BY <1>1
<1>3. t \in Seq(S) /\ Len(t) = Len(s)
  BY <1>1, <1>2
<1>. QED BY <1>1, <1>3

LEMMA AppendElements ==
  ASSUME NEW S, NEW s \in Seq(S), NEW e \in S, NEW t, t = Append(s, e)
  PROVE  /\ t \in Seq(S) /\ Len(t) = Len(s) + 1 /\ DOMAIN t = DOMAIN s \cup {Len(s) + 1}
         /\ t[Len(s) + 1] = e /\ \A j \in DOMAIN s : j # Len(s) + 1 /\ t[j] = s[j]
BY AppendProperties

LEMMA TailElements ==
  ASSUME NEW S, NEW s \in Seq(S), s # <<>>, NEW t, t = Tail(s)
  PROVE  /\ t \in Seq(S) /\ Len(t) = Len(s) - 1 /\ 1 \in DOMAIN s /\ Head(s) = s[1] /\ s[1] \in S
         /\ \A j \in DOMAIN t : j + 1 \in DOMAIN s /\ t[j] = s[j + 1]
<1>1. Len(s) \in Nat \ {0} /\ Head(s) = s[1] /\ DOMAIN s = 1 .. Len(s)
  BY EmptySeq
<1>2. t \in Seq(S) /\ Len(t) = Len(s) - 1 /\ \A j \in 1 .. Len(t) : t[j] = s[j + 1]
  BY HeadTailProperties
<1>3. DOMAIN t = 1 .. Len(t)
  BY <1>2
<1>. QED BY <1>1, <1>2, <1>3

----------------------------------------------------------------------------
(* MCP servers. *)

McpAnswer == [id : Nat, num : Nat, ok : BOOLEAN]
McpInstance ==
  [alive : BOOLEAN, reading : BOOLEAN, next : Nat \ {0}, pending : SUBSET Nat,
   todo : SUBSET [id : Nat, num : Nat], wire : Seq(McpAnswer)]

McpCalls ==
  [stage : {"idle", "hello", "handshake", "ask", "wait"}, name : McpNames \cup {""},
   op : {"", "call", "list"}, at : Nat, id : Nat, num : Nat, page : Nat, reply : Seq(McpAnswer)]

McpShapes ==
  /\ inst \in Seq(McpInstance) /\ Len(inst) <= McpSlots /\ asked \in 0 .. McpAsks
  /\ servers \in [McpNames -> 0 .. Len(inst)]
  /\ call \in McpCalls
  /\ call.stage # "idle" => call.at \in DOMAIN inst /\ call.name \in McpNames
  /\ outlived \subseteq DOMAIN inst

\* An id is below the counter it was taken from, which no request has passed.
McpIdsBelow(s, n) ==
  /\ s.next <= n + 1 /\ s.pending \subseteq 1 .. s.next - 1
  /\ \A r \in s.todo : r.id < s.next
  /\ \A i \in DOMAIN s.wire : s.wire[i].id < s.next

\* What still comes under an id was made for the request that has it.
MadeFor(s, id, num) ==
  /\ \A r \in s.todo : r.id = id => r.num = num
  /\ \A i \in DOMAIN s.wire : s.wire[i].id = id => s.wire[i].num = num

\* The requests a call may still make.
McpBudget ==
  /\ call.stage = "hello" => asked + MaxPages + 1 <= McpAsks /\ call.page = 1
  /\ call.stage = "handshake" => asked + MaxPages <= McpAsks /\ call.page = 1
  /\ call.stage = "ask" => asked + MaxPages + 1 <= McpAsks + call.page /\ call.page \in 1 .. MaxPages
  /\ call.stage = "wait" => asked + MaxPages <= McpAsks + call.page /\ call.page \in 1 .. MaxPages

McpInv ==
  /\ McpShapes /\ McpBudget /\ McpOwnAnswer /\ McpNoOrphan
  /\ \A k \in DOMAIN inst : McpIdsBelow(inst[k], asked)
  /\ call.stage \in {"handshake", "wait"} => MadeFor(inst[call.at], call.id, call.num)

LEMMA KilledProperties ==
  ASSUME inst \in Seq(McpInstance), NEW k
  PROVE  /\ Killed(k) \in Seq(McpInstance) /\ Len(Killed(k)) = Len(inst) /\ DOMAIN Killed(k) = DOMAIN inst
         /\ \A j \in DOMAIN inst :
              /\ j # k => Killed(k)[j] = inst[j]
              /\ j = k => Killed(k)[j] = [inst[j] EXCEPT !.alive = FALSE, !.todo = {}]
<1>1. DOMAIN inst = 1 .. Len(inst) /\ Len(inst) \in Nat /\ \A j \in DOMAIN inst : inst[j] \in McpInstance
  OBVIOUS
<1>2. \A i \in McpInstance : [i EXCEPT !.alive = FALSE, !.todo = {}] \in McpInstance
  BY DEF McpInstance
<1>3. Killed(k) \in [1 .. Len(inst) -> McpInstance]
  BY <1>1, <1>2 DEF Killed
<1>4. Killed(k) \in Seq(McpInstance) /\ Len(Killed(k)) = Len(inst)
  BY <1>1, <1>3
<1>. QED BY <1>1, <1>4 DEF Killed

\* Killing an instance keeps its ids.
LEMMA KilledKeeps ==
  ASSUME McpInv, NEW k, inst' = Killed(k), UNCHANGED asked
  PROVE  /\ inst' \in Seq(McpInstance) /\ Len(inst') = Len(inst) /\ DOMAIN inst' = DOMAIN inst
         /\ \A j \in DOMAIN inst' : McpIdsBelow(inst'[j], asked')
         /\ \A j \in DOMAIN inst : inst'[j].alive => inst[j].alive /\ j # k
         /\ \A j \in DOMAIN inst, id \in Nat, num \in Nat : MadeFor(inst[j], id, num) => MadeFor(inst'[j], id, num)
<1>1. /\ inst' \in Seq(McpInstance) /\ Len(inst') = Len(inst) /\ DOMAIN inst' = DOMAIN inst
      /\ \A j \in DOMAIN inst :
           /\ j # k => inst'[j] = inst[j]
           /\ j = k => inst'[j] = [inst[j] EXCEPT !.alive = FALSE, !.todo = {}]
  BY KilledProperties DEF McpInv, McpShapes
<1>2. ASSUME NEW j \in DOMAIN inst
      PROVE  /\ inst[j] \in McpInstance /\ inst'[j].next = inst[j].next /\ inst'[j].pending = inst[j].pending
             /\ inst'[j].wire = inst[j].wire /\ inst'[j].todo \subseteq inst[j].todo
             /\ inst'[j].alive => inst[j].alive /\ j # k
  <2>1. inst[j] \in McpInstance
    <3>1. inst \in Seq(McpInstance)
      BY DEF McpInv, McpShapes
    <3>. QED BY <3>1
  <2>2. CASE j = k
    <3>1. inst'[j] = [inst[j] EXCEPT !.alive = FALSE, !.todo = {}]
      BY <1>1, <2>2
    <3>. QED BY <2>1, <2>2, <3>1 DEF McpInstance
  <2>. QED BY <1>1, <2>1, <2>2
<1>3. \A j \in DOMAIN inst : McpIdsBelow(inst'[j], asked')
  BY <1>2 DEF McpInv, McpIdsBelow
<1>4. \A j \in DOMAIN inst, id \in Nat, num \in Nat : MadeFor(inst[j], id, num) => MadeFor(inst'[j], id, num)
  BY <1>2 DEF MadeFor
<1>. QED BY <1>1, <1>2, <1>3, <1>4

LEMMA McpInitInv == McpInit => McpInv
<1>1. <<>> \in Seq(McpInstance) /\ <<>> \in Seq(McpAnswer) /\ DOMAIN <<>> = {} /\ Len(<<>>) = 0
  OBVIOUS
<1>2. ASSUME McpInit PROVE McpShapes
  <2>1. call \in McpCalls
    BY <1>1, <1>2 DEF McpInit, NoCall, McpCalls
  <2>2. Len(inst) = 0 /\ inst \in Seq(McpInstance) /\ call.stage = "idle" /\ asked = 0 /\ outlived = {}
    BY <1>1, <1>2 DEF McpInit, NoCall
  <2>3. servers \in [McpNames -> 0 .. Len(inst)]
    <3>1. servers = [n \in McpNames |-> 0] /\ 0 \in 0 .. Len(inst)
      BY <1>2, <2>2 DEF McpInit
    <3>. QED BY <3>1
  <2>4. Len(inst) <= McpSlots /\ asked \in 0 .. McpAsks
    BY <2>2
  <2>. QED BY <2>1, <2>2, <2>3, <2>4 DEF McpShapes
<1>3. ASSUME McpInit
      PROVE  /\ McpBudget /\ McpOwnAnswer /\ McpNoOrphan /\ DOMAIN inst = {}
             /\ call.stage \in {"handshake", "wait"} => MadeFor(inst[call.at], call.id, call.num)
  BY <1>1, <1>3 DEF McpInit, McpBudget, McpOwnAnswer, McpNoOrphan, NoCall
<1>. QED BY <1>2, <1>3 DEF McpInv

LEMMA McpElement == ASSUME McpInv, NEW k \in DOMAIN inst PROVE inst[k] \in McpInstance
<1>1. inst \in Seq(McpInstance)
  BY DEF McpInv, McpShapes
<1>. QED BY <1>1

LEMMA NoCallIsCall == NoCall \in McpCalls
<1>1. <<>> \in Seq(McpAnswer)
  OBVIOUS
<1>. QED BY <1>1 DEF NoCall, McpCalls

LEMMA BelowGrows ==
  ASSUME NEW s \in McpInstance, NEW m \in Nat, NEW n \in Nat, m <= n, McpIdsBelow(s, m)
  PROVE  McpIdsBelow(s, n)
<1>1. s.next <= n + 1
  BY DEF McpIdsBelow, McpInstance
<1>. QED BY <1>1 DEF McpIdsBelow

LEMMA InstanceParts ==
  ASSUME NEW s \in McpInstance, NEW n, McpIdsBelow(s, n)
  PROVE  /\ s.next \in Nat \ {0} /\ s.next <= n + 1 /\ s.pending \subseteq 1 .. s.next - 1
         /\ \A r \in s.todo : r \in [id : Nat, num : Nat] /\ r.id < s.next
         /\ s.wire \in Seq(McpAnswer)
         /\ \A i \in DOMAIN s.wire : s.wire[i] \in McpAnswer /\ s.wire[i].id \in Nat /\ s.wire[i].id < s.next
<1>1. s.next \in Nat \ {0} /\ s.todo \subseteq [id : Nat, num : Nat] /\ s.wire \in Seq(McpAnswer)
  BY DEF McpInstance
<1>2. \A i \in DOMAIN s.wire : s.wire[i] \in McpAnswer
  BY <1>1
<1>3. \A i \in DOMAIN s.wire : s.wire[i].id \in Nat
  BY <1>2 DEF McpAnswer
<1>. QED BY <1>1, <1>2, <1>3 DEF McpIdsBelow

\* A request is registered, under an id of its own, and may be on its way.
LEMMA RegisteredBelow ==
  ASSUME NEW s \in McpInstance, NEW n \in Nat, McpIdsBelow(s, n), NEW e \in McpInstance,
         e.todo \subseteq s.todo \cup {[id |-> s.next, num |-> n + 1]},
         e.next = s.next + 1, e.pending = s.pending \cup {s.next}, e.wire = s.wire
  PROVE  McpIdsBelow(e, n + 1) /\ MadeFor(e, s.next, n + 1)
<1>1. /\ s.next \in Nat \ {0} /\ s.next <= n + 1 /\ s.pending \subseteq 1 .. s.next - 1
  BY InstanceParts
<1>2. \A r \in e.todo : r.id \in Nat
  BY DEF McpInstance
<1>3. \A r \in e.todo : r.id < s.next \/ (r.id = s.next /\ r.num = n + 1)
  BY InstanceParts
<1>4. \A i \in DOMAIN s.wire : s.wire[i].id \in Nat /\ s.wire[i].id < s.next
  BY InstanceParts
<1>5. e.next <= n + 1 + 1 /\ e.pending \subseteq 1 .. e.next - 1
  BY <1>1
<1>6. \A r \in e.todo : r.id < e.next
  BY <1>1, <1>2, <1>3
<1>7. \A i \in DOMAIN e.wire : e.wire[i].id < e.next
  BY <1>1, <1>4
<1>8. MadeFor(e, s.next, n + 1)
  BY <1>1, <1>2, <1>3, <1>4 DEF MadeFor
<1>. QED BY <1>5, <1>6, <1>7, <1>8 DEF McpIdsBelow

\* A step of one instance.
LEMMA InstanceMoves ==
  ASSUME McpInv, NEW k \in DOMAIN inst, NEW e \in McpInstance, inst' = [inst EXCEPT ![k] = e],
         asked <= asked', asked' \in Nat, e.alive => inst[k].alive, McpIdsBelow(e, asked')
  PROVE  /\ inst' \in Seq(McpInstance) /\ Len(inst') = Len(inst) /\ DOMAIN inst' = DOMAIN inst
         /\ inst'[k] = e /\ \A j \in DOMAIN inst : j # k => inst'[j] = inst[j]
         /\ \A j \in DOMAIN inst' : McpIdsBelow(inst'[j], asked')
         /\ \A j \in DOMAIN inst : inst'[j].alive => inst[j].alive
<1>1. inst \in Seq(McpInstance) /\ asked \in Nat
  BY DEF McpInv, McpShapes
<1>2. /\ inst' \in Seq(McpInstance) /\ Len(inst') = Len(inst) /\ DOMAIN inst' = DOMAIN inst
      /\ inst'[k] = e /\ \A j \in DOMAIN inst : j # k => inst'[j] = inst[j]
  BY <1>1, ReplaceProperties
<1>3. ASSUME NEW j \in DOMAIN inst PROVE McpIdsBelow(inst'[j], asked')
  <2>1. McpIdsBelow(inst[j], asked) /\ inst[j] \in McpInstance
    BY McpElement DEF McpInv
  <2>2. McpIdsBelow(inst[j], asked')
    BY <1>1, <2>1, BelowGrows
  <2>. QED BY <1>2, <2>2
<1>. QED BY <1>2, <1>3

LEMMA McpCallPreserves ==
  ASSUME McpInv, NEW n \in McpNames, NEW op \in {"call", "list"}, McpCall(n, op)
  PROVE  McpInv'
<1>0. inst \in Seq(McpInstance)
  BY DEF McpInv, McpShapes
<1>1. /\ Len(inst) \in Nat /\ DOMAIN inst = 1 .. Len(inst)
      /\ asked \in Nat /\ servers \in [McpNames -> 0 .. Len(inst)] /\ <<>> \in Seq(McpAnswer)
      /\ call = NoCall /\ asked + MaxPages + 1 <= McpAsks /\ UNCHANGED <<servers, asked, outlived>>
  <2>1. call = NoCall /\ asked + MaxPages + 1 <= McpAsks /\ UNCHANGED <<servers, asked, outlived>>
    BY DEF McpCall
  <2>2. asked \in 0 .. McpAsks /\ servers \in [McpNames -> 0 .. Len(inst)]
    BY DEF McpInv, McpShapes
  <2>3. asked \in Nat
    BY <2>2, McpAssumption
  <2>4. Len(inst) \in Nat /\ DOMAIN inst = 1 .. Len(inst) /\ <<>> \in Seq(McpAnswer)
    BY <1>0
  <2>. QED BY <2>1, <2>2, <2>3, <2>4
<1>2. CASE /\ Alive(servers[n])
           /\ call' = [NoCall EXCEPT !.stage = "ask", !.name = n, !.op = op, !.at = servers[n], !.page = 1]
           /\ UNCHANGED inst
  <2>1. servers[n] \in DOMAIN inst
    BY <1>1, <1>2 DEF Alive
  <2>2. /\ call' \in McpCalls /\ call'.stage = "ask" /\ call'.at = servers[n] /\ call'.name = n
        /\ call'.page = 1 /\ call'.reply = <<>>
    <3>1. servers[n] \in Nat
      BY <1>1
    <3>2. call' \in McpCalls
      BY <1>2, <3>1, NoCallIsCall DEF McpCalls
    <3>. QED BY <1>2, <3>2 DEF NoCall
  <2>3. McpShapes'
    BY <1>0, <1>1, <1>2, <2>1, <2>2 DEF McpInv, McpShapes
  <2>4. McpBudget' /\ McpOwnAnswer'
    BY <1>1, <2>2 DEF McpBudget, McpOwnAnswer
  <2>5. McpNoOrphan'
    BY <1>1, <1>2, <2>2 DEF McpInv, McpNoOrphan, NoCall
  <2>6. \A k \in DOMAIN inst' : McpIdsBelow(inst'[k], asked')
    BY <1>1, <1>2 DEF McpInv, McpIdsBelow
  <2>. QED BY <2>2, <2>3, <2>4, <2>5, <2>6 DEF McpInv
<1>3. CASE /\ Len(inst) < McpSlots /\ inst' = Append(inst, Newborn)
           /\ call' = [NoCall EXCEPT !.stage = "hello", !.name = n, !.op = op, !.at = Len(inst) + 1, !.page = 1]
  <2>1. Newborn \in McpInstance
    BY <1>1 DEF Newborn, McpInstance
  <2>2. /\ inst' \in Seq(McpInstance) /\ Len(inst') = Len(inst) + 1 /\ DOMAIN inst' = DOMAIN inst \cup {Len(inst) + 1}
        /\ inst'[Len(inst) + 1] = Newborn /\ \A j \in DOMAIN inst : j # Len(inst) + 1 /\ inst'[j] = inst[j]
    <3>1. inst \in Seq(McpInstance) /\ inst' = Append(inst, Newborn)
      BY <1>0, <1>3
    <3>. QED BY <2>1, <3>1, AppendElements
  <2>3. /\ call' \in McpCalls /\ call'.stage = "hello" /\ call'.at = Len(inst) + 1 /\ call'.name = n
        /\ call'.page = 1 /\ call'.reply = <<>>
    <3>1. Len(inst) + 1 \in Nat
      BY <1>1
    <3>2. call' \in McpCalls
      BY <1>3, <3>1, NoCallIsCall DEF McpCalls
    <3>. QED BY <1>3, <3>2 DEF NoCall
  <2>4. McpShapes'
    <3>1. servers' \in [McpNames -> 0 .. Len(inst')]
      BY <1>1, <2>2
    <3>2. asked' \in 0 .. McpAsks
      BY <1>1 DEF McpInv, McpShapes
    <3>3. Len(inst') <= McpSlots
      <4>1. Len(inst) < McpSlots /\ Len(inst) \in Nat /\ McpSlots \in Nat /\ Len(inst') = Len(inst) + 1
        BY <1>1, <1>3, <2>2, McpAssumption
      <4>. QED BY <4>1
    <3>4. call'.at \in DOMAIN inst' /\ call'.name \in McpNames
      BY <2>2, <2>3
    <3>5. outlived' \subseteq DOMAIN inst'
      BY <1>1, <2>2 DEF McpInv, McpShapes
    <3>. QED BY <2>2, <2>3, <3>1, <3>2, <3>3, <3>4, <3>5 DEF McpShapes
  <2>5. McpBudget' /\ McpOwnAnswer'
    BY <1>1, <2>3 DEF McpBudget, McpOwnAnswer
  <2>6. McpNoOrphan'
    BY <1>1, <2>2, <2>3 DEF McpInv, McpNoOrphan, NoCall
  <2>7. \A k \in DOMAIN inst' : McpIdsBelow(inst'[k], asked')
    <3>1. McpIdsBelow(Newborn, asked')
      BY <1>1 DEF McpIdsBelow, Newborn
    <3>. QED BY <1>1, <2>2, <3>1 DEF McpInv, McpIdsBelow
  <2>. QED BY <2>3, <2>4, <2>5, <2>6, <2>7 DEF McpInv
<1>. QED BY <1>2, <1>3 DEF McpCall

LEMMA AskPreserves == ASSUME McpInv, Ask PROVE McpInv'
<1>. DEFINE k == call.at
            id == inst[k].next
<1>0. k \in DOMAIN inst /\ inst[k] \in McpInstance
  BY McpElement DEF Ask, McpInv, McpShapes
<1>1. /\ call \in McpCalls /\ call.stage \in {"hello", "ask"} /\ asked' = asked + 1 /\ UNCHANGED <<servers, outlived>>
      /\ asked \in Nat /\ asked' \in 0 .. McpAsks /\ <<>> \in Seq(McpAnswer)
  <2>1. call.stage \in {"hello", "ask"} /\ asked' = asked + 1 /\ UNCHANGED <<servers, outlived>>
    BY DEF Ask
  <2>2. call \in McpCalls /\ asked \in Nat /\ McpBudget
    BY DEF McpInv, McpShapes
  <2>3. asked + 1 <= McpAsks
    BY <2>1, <2>2 DEF McpBudget
  <2>. QED BY <2>1, <2>2, <2>3
<1>2. id \in Nat \ {0} /\ inst[k].todo \subseteq [id : Nat, num : Nat] /\ McpIdsBelow(inst[k], asked)
  BY <1>0 DEF McpInv, McpInstance
<1>3. PICK T \in SUBSET [id : Nat, num : Nat] :
        /\ T = IF inst[k].alive THEN inst[k].todo \cup {[id |-> id, num |-> asked']} ELSE inst[k].todo
        /\ T \subseteq inst[k].todo \cup {[id |-> id, num |-> asked + 1]}
  <2>1. [id |-> id, num |-> asked'] \in [id : Nat, num : Nat]
    BY <1>1, <1>2
  <2>. QED BY <1>1, <1>2, <2>1
<1>4. PICK P \in SUBSET Nat : P = inst[k].pending \cup {id}
  BY <1>0, <1>2 DEF McpInstance
<1>9. PICK m \in Nat \ {0} : m = id + 1
  BY <1>2
<1>5. PICK e : e = [inst[k] EXCEPT !.next = m, !.pending = P, !.todo = T]
  OBVIOUS
<1>6. PICK d : d = [inst[k] EXCEPT !.next = m, !.pending = P, !.todo = inst[k].todo]
  OBVIOUS
<1>10. e \in McpInstance /\ e.alive = inst[k].alive /\ McpIdsBelow(e, asked') /\ MadeFor(e, id, asked')
  <2>1. /\ e \in McpInstance /\ e.next = m /\ e.pending = P /\ e.todo = T /\ e.wire = inst[k].wire
        /\ e.alive = inst[k].alive
    BY <1>0, <1>5 DEF McpInstance
  <2>. QED BY <1>0, <1>1, <1>2, <1>3, <1>4, <1>9, <2>1, RegisteredBelow
<1>11. d \in McpInstance /\ d.alive = inst[k].alive /\ McpIdsBelow(d, asked')
  <2>1. /\ d \in McpInstance /\ d.next = m /\ d.pending = P /\ d.todo = inst[k].todo
        /\ d.wire = inst[k].wire /\ d.alive = inst[k].alive
    BY <1>0, <1>2, <1>6 DEF McpInstance
  <2>. QED BY <1>0, <1>1, <1>2, <1>4, <1>9, <2>1, RegisteredBelow
<1>. HIDE DEF id
<1>7. ASSUME NEW x \in {d, e}, inst' = [inst EXCEPT ![k] = x]
      PROVE  /\ inst' \in Seq(McpInstance) /\ Len(inst') = Len(inst) /\ DOMAIN inst' = DOMAIN inst
             /\ inst'[k] = x /\ \A j \in DOMAIN inst : j # k => inst'[j] = inst[j]
             /\ \A j \in DOMAIN inst' : McpIdsBelow(inst'[j], asked')
             /\ \A j \in DOMAIN inst : inst'[j].alive => inst[j].alive
  <2>1. /\ x \in McpInstance /\ x.alive = inst[k].alive /\ McpIdsBelow(x, asked')
        /\ asked' \in Nat /\ asked <= asked'
    BY <1>1, <1>10, <1>11
  <2>. QED BY <1>0, <1>7, <2>1, InstanceMoves
<1>8. CASE /\ inst' = [inst EXCEPT ![k] = e]
           /\ call' = [call EXCEPT !.stage = IF @ = "hello" THEN "handshake" ELSE "wait",
                                   !.id = id, !.num = asked', !.reply = <<>>]
  <2>1. /\ call' \in McpCalls /\ call'.stage = (IF call.stage = "hello" THEN "handshake" ELSE "wait") /\ call'.at = k
        /\ call'.name = call.name /\ call'.id = id /\ call'.num = asked' /\ call'.reply = <<>> /\ call'.page = call.page
    <3>1. id \in Nat /\ asked' \in Nat
      BY <1>1, <1>2
    <3>2. PICK i \in Nat, num \in Nat : i = id /\ num = asked'
      BY <3>1
    <3>3. PICK st \in {"handshake", "wait"} : st = IF call.stage = "hello" THEN "handshake" ELSE "wait"
      OBVIOUS
    <3>4. call' = [call EXCEPT !.stage = st, !.id = i, !.num = num, !.reply = <<>>]
      BY <1>8, <3>2, <3>3
    <3>. QED BY <1>1, <3>2, <3>3, <3>4 DEF McpCalls
  <2>2. McpShapes'
    BY <1>0, <1>1, <1>7, <1>8, <2>1 DEF McpInv, McpShapes
  <2>3. McpBudget' /\ McpOwnAnswer'
    <3>1. call.page \in Nat
      BY <1>1 DEF McpCalls
    <3>. QED BY <1>1, <2>1, <3>1 DEF McpInv, McpBudget, McpOwnAnswer
  <2>4. McpNoOrphan'
    BY <1>0, <1>1, <1>7, <1>8, <2>1 DEF McpInv, McpNoOrphan
  <2>6. MadeFor(inst'[call'.at], call'.id, call'.num)
    BY <1>0, <1>7, <1>8, <1>10, <2>1
  <2>. QED BY <1>7, <1>8, <2>2, <2>3, <2>4, <2>6 DEF McpInv, MadeFor
<1>13. CASE inst' = [inst EXCEPT ![k] = d] /\ ~inst[k].alive /\ call' = NoCall
  <2>1. call' \in McpCalls /\ call'.stage = "idle" /\ call'.reply = <<>>
    BY <1>1, <1>13 DEF McpCalls, NoCall
  <2>2. McpShapes'
    BY <1>0, <1>1, <1>7, <1>13, <2>1 DEF McpInv, McpShapes
  <2>3. McpBudget' /\ McpOwnAnswer'
    BY <2>1 DEF McpBudget, McpOwnAnswer
  <2>4. McpNoOrphan'
    BY <1>0, <1>1, <1>7, <1>13, <2>1 DEF McpInv, McpNoOrphan
  <2>. QED BY <1>7, <1>13, <2>1, <2>2, <2>3, <2>4 DEF McpInv
<1>12. \/ /\ inst' = [inst EXCEPT ![k] = e]
          /\ call' = [call EXCEPT !.stage = IF @ = "hello" THEN "handshake" ELSE "wait",
                                  !.id = id, !.num = asked', !.reply = <<>>]
       \/ inst' = [inst EXCEPT ![k] = d] /\ ~inst[k].alive /\ call' = NoCall
  <2>1. inst \in Seq(McpInstance)
    BY DEF McpInv, McpShapes
  <2>2. Registered(k, id) = [inst EXCEPT ![k] = d]
    BY <1>0, <1>4, <1>6, <1>9, <2>1 DEF Registered, McpInstance
  <2>3. [Registered(k, id) EXCEPT ![k].todo = IF inst[k].alive THEN @ \cup {[id |-> id, num |-> asked']} ELSE @]
          = [inst EXCEPT ![k] = e]
    <3>1. Registered(k, id)[k].todo = inst[k].todo
      BY <1>0, <2>1 DEF Registered, McpInstance
    <3>2. [Registered(k, id) EXCEPT ![k].todo = T] = [inst EXCEPT ![k] = e]
      BY <1>0, <1>4, <1>5, <1>9, <2>1 DEF Registered, McpInstance
    <3>. QED BY <1>3, <3>1, <3>2
  <2>. QED BY <2>2, <2>3 DEF Ask, id
<1>. QED BY <1>8, <1>12, <1>13

\* A step in which instances move, nothing is put under an id in use, and the
\* call is at most given its answer.
LEMMA ReplyStepPreserves ==
  ASSUME McpInv, UNCHANGED <<servers, asked, outlived>>,
         inst' \in Seq(McpInstance), Len(inst') = Len(inst), DOMAIN inst' = DOMAIN inst,
         \A j \in DOMAIN inst' : McpIdsBelow(inst'[j], asked'),
         \A j \in DOMAIN inst : inst'[j].alive => inst[j].alive,
         \A j \in DOMAIN inst, id \in Nat, num \in Nat : MadeFor(inst[j], id, num) => MadeFor(inst'[j], id, num),
         call' \in McpCalls, call'.stage = call.stage, call'.at = call.at, call'.name = call.name,
         call'.id = call.id, call'.num = call.num, call'.page = call.page, McpOwnAnswer'
  PROVE  McpInv'
<1>1. McpShapes'
  BY DEF McpInv, McpShapes
<1>2. McpBudget'
  BY DEF McpInv, McpBudget
<1>3. McpNoOrphan'
  BY DEF McpInv, McpNoOrphan
<1>4. ASSUME call'.stage \in {"handshake", "wait"} PROVE MadeFor(inst'[call'.at], call'.id, call'.num)
  <2>1. call.at \in DOMAIN inst /\ call \in McpCalls /\ MadeFor(inst[call.at], call.id, call.num)
    BY <1>4 DEF McpInv, McpShapes
  <2>2. call.id \in Nat /\ call.num \in Nat
    BY <2>1 DEF McpCalls
  <2>. QED BY <2>1, <2>2
<1>. QED BY <1>1, <1>2, <1>3, <1>4 DEF McpInv

LEMMA WireStepPreserves ==
  ASSUME McpInv, UNCHANGED <<servers, call, asked, outlived>>,
         inst' \in Seq(McpInstance), Len(inst') = Len(inst), DOMAIN inst' = DOMAIN inst,
         \A j \in DOMAIN inst' : McpIdsBelow(inst'[j], asked'),
         \A j \in DOMAIN inst : inst'[j].alive => inst[j].alive,
         \A j \in DOMAIN inst, id \in Nat, num \in Nat : MadeFor(inst[j], id, num) => MadeFor(inst'[j], id, num)
  PROVE  McpInv'
<1>1. call' \in McpCalls /\ McpOwnAnswer'
  BY DEF McpInv, McpShapes, McpOwnAnswer
<1>. QED BY <1>1, ReplyStepPreserves

LEMMA AnswerPreserves ==
  ASSUME McpInv, NEW k \in DOMAIN inst, NEW r \in inst[k].todo, NEW ok \in BOOLEAN, Answer(k, r, ok)
  PROVE  McpInv'
<1>0. inst[k] \in McpInstance /\ asked \in Nat /\ inst \in Seq(McpInstance)
  BY McpElement DEF McpInv, McpShapes
<1>1. /\ McpIdsBelow(inst[k], asked) /\ r \in [id : Nat, num : Nat] /\ inst[k].wire \in Seq(McpAnswer)
      /\ r.id \in Nat /\ r.num \in Nat /\ UNCHANGED <<servers, call, asked, outlived>>
  <2>1. inst[k].todo \subseteq [id : Nat, num : Nat] /\ inst[k].wire \in Seq(McpAnswer)
    BY <1>0 DEF McpInstance
  <2>. QED BY <2>1 DEF McpInv, Answer
<1>2. PICK a \in McpAnswer : a = [id |-> r.id, num |-> r.num, ok |-> ok]
  BY <1>1 DEF McpAnswer
<1>3. PICK w : w = Append(inst[k].wire, a)
  OBVIOUS
<1>4. /\ w \in Seq(McpAnswer) /\ Len(w) = Len(inst[k].wire) + 1 /\ DOMAIN w = DOMAIN inst[k].wire \cup {Len(inst[k].wire) + 1}
      /\ w[Len(inst[k].wire) + 1] = a /\ \A j \in DOMAIN inst[k].wire : w[j] = inst[k].wire[j]
  BY <1>1, <1>3, AppendElements
<1>5. PICK T \in SUBSET [id : Nat, num : Nat] : T = inst[k].todo \ {r}
  BY <1>0 DEF McpInstance
<1>6. PICK e : e = [inst[k] EXCEPT !.todo = T, !.wire = w]
  OBVIOUS
<1>7. /\ e \in McpInstance /\ e.todo = T /\ e.wire = w /\ e.alive = inst[k].alive /\ e.next = inst[k].next
      /\ e.pending = inst[k].pending
  BY <1>0, <1>4, <1>6 DEF McpInstance
<1>8. inst' = [inst EXCEPT ![k] = e]
  BY <1>0, <1>2, <1>3, <1>5, <1>6 DEF Answer, McpInstance
<1>9. McpIdsBelow(e, asked)
  <2>1. r.id < inst[k].next
    BY <1>1 DEF McpIdsBelow
  <2>2. \A i \in DOMAIN w : w[i].id < e.next
    BY <1>1, <1>2, <1>4, <1>7, <2>1 DEF McpIdsBelow
  <2>. QED BY <1>1, <1>5, <1>7, <2>2 DEF McpIdsBelow
<1>10. ASSUME NEW id \in Nat, NEW num \in Nat, MadeFor(inst[k], id, num) PROVE MadeFor(e, id, num)
  BY <1>2, <1>4, <1>5, <1>7, <1>10 DEF MadeFor
<1>11. /\ inst' \in Seq(McpInstance) /\ Len(inst') = Len(inst) /\ DOMAIN inst' = DOMAIN inst
       /\ inst'[k] = e /\ \A j \in DOMAIN inst : j # k => inst'[j] = inst[j]
       /\ \A j \in DOMAIN inst' : McpIdsBelow(inst'[j], asked')
       /\ \A j \in DOMAIN inst : inst'[j].alive => inst[j].alive
  <2>1. asked <= asked' /\ asked' \in Nat /\ McpIdsBelow(e, asked') /\ (e.alive => inst[k].alive)
    BY <1>0, <1>1, <1>7, <1>9
  <2>. QED BY <1>7, <1>8, <2>1, InstanceMoves
<1>. QED BY <1>1, <1>10, <1>11, WireStepPreserves

LEMMA McpDiesPreserves == ASSUME McpInv, NEW k \in DOMAIN inst, McpDies(k) PROVE McpInv'
<1>1. inst' = Killed(k) /\ UNCHANGED <<servers, call, asked, outlived>>
  BY DEF McpDies
<1>2. /\ inst' \in Seq(McpInstance) /\ Len(inst') = Len(inst) /\ DOMAIN inst' = DOMAIN inst
      /\ \A j \in DOMAIN inst' : McpIdsBelow(inst'[j], asked')
      /\ \A j \in DOMAIN inst : inst'[j].alive => inst[j].alive
      /\ \A j \in DOMAIN inst, id \in Nat, num \in Nat : MadeFor(inst[j], id, num) => MadeFor(inst'[j], id, num)
  BY <1>1, KilledKeeps
<1>. QED BY <1>1, <1>2, WireStepPreserves

LEMMA RouteLinePreserves == ASSUME McpInv, NEW k \in DOMAIN inst, RouteLine(k) PROVE McpInv'
<1>0. inst[k] \in McpInstance /\ asked \in Nat /\ inst \in Seq(McpInstance) /\ call \in McpCalls
  BY McpElement DEF McpInv, McpShapes
<1>1. /\ McpIdsBelow(inst[k], asked) /\ inst[k].wire \in Seq(McpAnswer) /\ inst[k].wire # <<>>
      /\ UNCHANGED <<servers, asked, outlived>>
  BY <1>0 DEF McpInv, RouteLine, McpInstance
<1>2. PICK w : w = Tail(inst[k].wire)
  OBVIOUS
<1>3. /\ w \in Seq(McpAnswer) /\ 1 \in DOMAIN inst[k].wire
      /\ Head(inst[k].wire) = inst[k].wire[1] /\ inst[k].wire[1] \in McpAnswer
      /\ \A j \in DOMAIN w : j + 1 \in DOMAIN inst[k].wire /\ w[j] = inst[k].wire[j + 1]
  BY <1>1, <1>2, TailElements
<1>4. PICK a \in McpAnswer : a = Head(inst[k].wire)
  BY <1>3
<1>5. PICK P \in SUBSET Nat : P = inst[k].pending \ {a.id}
  BY <1>0 DEF McpInstance
<1>6. PICK e : e = [inst[k] EXCEPT !.wire = w, !.pending = P]
  OBVIOUS
<1>7. /\ e \in McpInstance /\ e.todo = inst[k].todo /\ e.wire = w /\ e.alive = inst[k].alive
      /\ e.next = inst[k].next /\ e.pending = P
  BY <1>0, <1>3, <1>6 DEF McpInstance
<1>8. inst' = [inst EXCEPT ![k] = e]
  BY <1>0, <1>2, <1>4, <1>5, <1>6 DEF RouteLine, McpInstance
<1>9. McpIdsBelow(e, asked)
  <2>1. \A i \in DOMAIN w : w[i].id < e.next
    BY <1>1, <1>3, <1>7 DEF McpIdsBelow
  <2>. QED BY <1>1, <1>5, <1>7, <2>1 DEF McpIdsBelow
<1>10. ASSUME NEW id \in Nat, NEW num \in Nat, MadeFor(inst[k], id, num) PROVE MadeFor(e, id, num)
  BY <1>3, <1>7, <1>10 DEF MadeFor
<1>11. /\ inst' \in Seq(McpInstance) /\ Len(inst') = Len(inst) /\ DOMAIN inst' = DOMAIN inst
       /\ inst'[k] = e /\ \A j \in DOMAIN inst : j # k => inst'[j] = inst[j]
       /\ \A j \in DOMAIN inst' : McpIdsBelow(inst'[j], asked')
       /\ \A j \in DOMAIN inst : inst'[j].alive => inst[j].alive
  <2>1. asked <= asked' /\ asked' \in Nat /\ McpIdsBelow(e, asked') /\ (e.alive => inst[k].alive)
    BY <1>0, <1>1, <1>7, <1>9
  <2>. QED BY <1>7, <1>8, <2>1, InstanceMoves
<1>12. CASE call' = call
  <2>1. UNCHANGED <<servers, call, asked, outlived>>
    BY <1>1, <1>12
  <2>. QED BY <2>1, <1>10, <1>11, WireStepPreserves
<1>13. CASE Waits(k, a.id) /\ call' = [call EXCEPT !.reply = <<a>>]
  <2>1. <<a>> \in Seq(McpAnswer) /\ <<a>>[1] = a /\ <<a>> # <<>>
    OBVIOUS
  <2>2. PICK x \in Seq(McpAnswer) : x = <<a>>
    BY <2>1
  <2>3. /\ call' \in McpCalls /\ call'.stage = call.stage /\ call'.at = call.at /\ call'.name = call.name
        /\ call'.id = call.id /\ call'.num = call.num /\ call'.page = call.page /\ call'.reply = x
    BY <1>0, <1>13, <2>2 DEF McpCalls
  <2>4. a.num = call.num
    BY <1>3, <1>4, <1>13 DEF McpInv, Waits, MadeFor
  <2>5. McpOwnAnswer'
    BY <2>1, <2>2, <2>3, <2>4 DEF McpOwnAnswer
  <2>. QED BY <1>1, <1>10, <1>11, <2>3, <2>5, ReplyStepPreserves
<1>. QED BY <1>4, <1>12, <1>13 DEF RouteLine

LEMMA DrainPendingPreserves == ASSUME McpInv, NEW k \in DOMAIN inst, DrainPending(k) PROVE McpInv'
<1>0. inst[k] \in McpInstance /\ asked \in Nat /\ inst \in Seq(McpInstance) /\ call \in McpCalls
  BY McpElement DEF McpInv, McpShapes
<1>1. McpIdsBelow(inst[k], asked) /\ UNCHANGED <<servers, asked, outlived>>
  BY DEF McpInv, DrainPending
<1>6. PICK e : e = [inst[k] EXCEPT !.reading = FALSE, !.pending = {}]
  OBVIOUS
<1>7. /\ e \in McpInstance /\ e.todo = inst[k].todo /\ e.wire = inst[k].wire /\ e.alive = inst[k].alive
      /\ e.next = inst[k].next /\ e.pending = {}
  BY <1>0, <1>6 DEF McpInstance
<1>8. inst' = [inst EXCEPT ![k] = e]
  BY <1>0, <1>6 DEF DrainPending, McpInstance
<1>9. McpIdsBelow(e, asked)
  BY <1>1, <1>7 DEF McpIdsBelow
<1>10. ASSUME NEW id \in Nat, NEW num \in Nat, MadeFor(inst[k], id, num) PROVE MadeFor(e, id, num)
  BY <1>7, <1>10 DEF MadeFor
<1>11. /\ inst' \in Seq(McpInstance) /\ Len(inst') = Len(inst) /\ DOMAIN inst' = DOMAIN inst
       /\ inst'[k] = e /\ \A j \in DOMAIN inst : j # k => inst'[j] = inst[j]
       /\ \A j \in DOMAIN inst' : McpIdsBelow(inst'[j], asked')
       /\ \A j \in DOMAIN inst : inst'[j].alive => inst[j].alive
  <2>1. asked <= asked' /\ asked' \in Nat /\ McpIdsBelow(e, asked') /\ (e.alive => inst[k].alive)
    BY <1>0, <1>1, <1>7, <1>9
  <2>. QED BY <1>7, <1>8, <2>1, InstanceMoves
<1>12. CASE call' = call
  <2>1. UNCHANGED <<servers, call, asked, outlived>>
    BY <1>1, <1>12
  <2>. QED BY <2>1, <1>10, <1>11, WireStepPreserves
<1>13. CASE call' = [call EXCEPT !.reply = <<[id |-> call.id, num |-> call.num, ok |-> FALSE]>>]
  <2>1. PICK a \in McpAnswer : a = [id |-> call.id, num |-> call.num, ok |-> FALSE]
    BY <1>0 DEF McpCalls, McpAnswer
  <2>2. <<a>> \in Seq(McpAnswer) /\ <<a>>[1] = a /\ <<a>> # <<>>
    OBVIOUS
  <2>3. PICK x \in Seq(McpAnswer) : x = <<a>>
    BY <2>2
  <2>4. /\ call' \in McpCalls /\ call'.stage = call.stage /\ call'.at = call.at /\ call'.name = call.name
        /\ call'.id = call.id /\ call'.num = call.num /\ call'.page = call.page /\ call'.reply = x
    BY <1>0, <1>13, <2>1, <2>3 DEF McpCalls
  <2>5. McpOwnAnswer'
    BY <2>1, <2>2, <2>3, <2>4 DEF McpOwnAnswer
  <2>. QED BY <1>1, <1>10, <1>11, <2>4, <2>5, ReplyStepPreserves
<1>. QED BY <1>12, <1>13 DEF DrainPending

\* The call is over, and what it was starting is not left running.
LEMMA EndPreserves ==
  ASSUME McpInv, call' = NoCall, asked' = asked,
         inst' \in Seq(McpInstance), Len(inst') = Len(inst), DOMAIN inst' = DOMAIN inst,
         servers' \in [McpNames -> 0 .. Len(inst)], outlived' \subseteq DOMAIN inst,
         \A j \in DOMAIN inst' : McpIdsBelow(inst'[j], asked'),
         \A j \in DOMAIN inst : inst'[j].alive => j \in outlived' \/ \E n \in McpNames : servers'[n] = j
  PROVE  McpInv'
<1>1. call' \in McpCalls /\ call'.stage = "idle" /\ call'.reply = <<>>
  BY NoCallIsCall DEF NoCall
<1>2. McpShapes'
  BY <1>1 DEF McpInv, McpShapes
<1>3. McpBudget' /\ McpOwnAnswer'
  BY <1>1 DEF McpBudget, McpOwnAnswer
<1>4. McpNoOrphan'
  BY DEF McpNoOrphan
<1>. QED BY <1>1, <1>2, <1>3, <1>4 DEF McpInv

LEMMA HandshakePreserves == ASSUME McpInv, Handshake PROVE McpInv'
<1>0. /\ call \in McpCalls /\ call.stage = "handshake" /\ call.at \in DOMAIN inst /\ call.name \in McpNames
      /\ servers \in [McpNames -> 0 .. Len(inst)] /\ asked \in Nat /\ asked' = asked
      /\ inst \in Seq(McpInstance) /\ DOMAIN inst = 1 .. Len(inst) /\ Len(inst) \in Nat
      /\ outlived' = outlived /\ outlived \subseteq DOMAIN inst
  <2>1. inst \in Seq(McpInstance)
    BY DEF McpInv, McpShapes
  <2>. QED BY <2>1 DEF Handshake, McpInv, McpShapes
<1>1. CASE /\ servers' = [servers EXCEPT ![call.name] = call.at]
           /\ inst' = Killed(servers[call.name]) /\ call' = [call EXCEPT !.stage = "ask"]
  <2>1. /\ inst' \in Seq(McpInstance) /\ Len(inst') = Len(inst) /\ DOMAIN inst' = DOMAIN inst
        /\ \A j \in DOMAIN inst' : McpIdsBelow(inst'[j], asked')
        /\ \A j \in DOMAIN inst : inst'[j].alive => inst[j].alive /\ j # servers[call.name]
    BY <1>0, <1>1, KilledKeeps
  <2>2. /\ call' \in McpCalls /\ call'.stage = "ask" /\ call'.at = call.at /\ call'.name = call.name
        /\ call'.num = call.num /\ call'.page = call.page /\ call'.reply = call.reply
    BY <1>0, <1>1 DEF McpCalls
  <2>3. /\ servers' \in [McpNames -> 0 .. Len(inst)] /\ servers'[call.name] = call.at
        /\ \A n \in McpNames : n # call.name => servers'[n] = servers[n]
    <3>1. call.at \in 0 .. Len(inst)
      BY <1>0
    <3>. QED BY <1>0, <1>1, <3>1
  <2>4. McpShapes'
    BY <1>0, <2>1, <2>2, <2>3 DEF McpInv, McpShapes
  <2>5. McpBudget' /\ McpOwnAnswer'
    BY <1>0, <2>2 DEF McpInv, McpBudget, McpOwnAnswer
  <2>6. McpNoOrphan'
    BY <1>0, <2>1, <2>3 DEF McpInv, McpNoOrphan
  <2>. QED BY <2>1, <2>2, <2>4, <2>5, <2>6 DEF McpInv
<1>2. CASE inst' = Killed(call.at) /\ call' = NoCall /\ UNCHANGED servers
  <2>1. /\ inst' \in Seq(McpInstance) /\ Len(inst') = Len(inst) /\ DOMAIN inst' = DOMAIN inst
        /\ \A j \in DOMAIN inst' : McpIdsBelow(inst'[j], asked')
        /\ \A j \in DOMAIN inst : inst'[j].alive => inst[j].alive /\ j # call.at
    BY <1>0, <1>2, KilledKeeps
  <2>2. \A j \in DOMAIN inst : inst'[j].alive => j \in outlived' \/ \E n \in McpNames : servers'[n] = j
    BY <1>0, <1>2, <2>1 DEF McpInv, McpNoOrphan
  <2>. QED BY <1>0, <1>2, <2>1, <2>2, EndPreserves
<1>. QED BY <1>1, <1>2 DEF Handshake

LEMMA PageOrResultPreserves == ASSUME McpInv, PageOrResult PROVE McpInv'
<1>0. /\ call \in McpCalls /\ call.stage = "wait" /\ call.at \in DOMAIN inst /\ call.name \in McpNames
      /\ inst \in Seq(McpInstance) /\ servers \in [McpNames -> 0 .. Len(inst)]
      /\ asked \in Nat /\ UNCHANGED <<inst, servers, asked, outlived>> /\ outlived \subseteq DOMAIN inst
  BY DEF PageOrResult, McpInv, McpShapes
<1>1. CASE call' = NoCall
  <2>1. \A j \in DOMAIN inst : inst'[j].alive => j \in outlived' \/ \E n \in McpNames : servers'[n] = j
    BY <1>0 DEF McpInv, McpNoOrphan
  <2>2. \A j \in DOMAIN inst' : McpIdsBelow(inst'[j], asked')
    BY <1>0 DEF McpInv
  <2>. QED BY <1>0, <1>1, <2>1, <2>2, EndPreserves
<1>2. CASE call.page < MaxPages /\ call' = [call EXCEPT !.stage = "ask", !.page = @ + 1, !.reply = <<>>]
  <2>1. <<>> \in Seq(McpAnswer)
    OBVIOUS
  <2>9. call.page \in Nat
    BY <1>0 DEF McpCalls
  <2>2. PICK m \in Nat : m = call.page + 1
    BY <2>9
  <2>3. call' = [call EXCEPT !.stage = "ask", !.page = m, !.reply = <<>>]
    BY <1>0, <1>2, <2>2 DEF McpCalls
  <2>4. /\ call' \in McpCalls /\ call'.stage = "ask" /\ call'.at = call.at /\ call'.name = call.name
        /\ call'.page = m /\ call'.reply = <<>>
    BY <1>0, <2>1, <2>3 DEF McpCalls
  <2>5. McpShapes'
    BY <1>0, <2>4 DEF McpInv, McpShapes
  <2>6. McpBudget' /\ McpOwnAnswer'
    <3>1. asked + MaxPages <= McpAsks + call.page /\ call.page \in 1 .. MaxPages
      BY <1>0 DEF McpInv, McpBudget
    <3>2. asked \in Nat /\ asked' = asked /\ call.page \in Nat /\ call.page < MaxPages /\ call'.page = call.page + 1
      BY <1>0, <1>2, <2>2, <2>4, <2>9
    <3>3. asked' + MaxPages + 1 <= McpAsks + call'.page /\ call'.page \in 1 .. MaxPages
      BY <3>1, <3>2
    <3>. QED BY <2>4, <3>3 DEF McpBudget, McpOwnAnswer
  <2>7. McpNoOrphan'
    BY <1>0, <2>4 DEF McpInv, McpNoOrphan
  <2>8. \A j \in DOMAIN inst' : McpIdsBelow(inst'[j], asked')
    BY <1>0 DEF McpInv
  <2>. QED BY <2>4, <2>5, <2>6, <2>7, <2>8 DEF McpInv
<1>. QED BY <1>1, <1>2 DEF PageOrResult

LEMMA CallTimeoutPreserves == ASSUME McpInv, CallTimeout PROVE McpInv'
<1>0. /\ call.stage \in {"handshake", "wait"} /\ call' = NoCall /\ asked' = asked /\ servers' = servers
      /\ inst \in Seq(McpInstance) /\ servers \in [McpNames -> 0 .. Len(inst)]
      /\ inst' = IF call.stage = "handshake" THEN Killed(call.at) ELSE inst
      /\ outlived' = outlived /\ outlived \subseteq DOMAIN inst
  BY DEF CallTimeout, McpInv, McpShapes
<1>1. CASE call.stage = "handshake"
  <2>1. /\ inst' \in Seq(McpInstance) /\ Len(inst') = Len(inst) /\ DOMAIN inst' = DOMAIN inst
        /\ \A j \in DOMAIN inst' : McpIdsBelow(inst'[j], asked')
        /\ \A j \in DOMAIN inst : inst'[j].alive => inst[j].alive /\ j # call.at
    BY <1>0, <1>1, KilledKeeps
  <2>2. \A j \in DOMAIN inst : inst'[j].alive => j \in outlived' \/ \E n \in McpNames : servers'[n] = j
    BY <1>0, <2>1 DEF McpInv, McpNoOrphan
  <2>. QED BY <1>0, <2>1, <2>2, EndPreserves
<1>2. CASE call.stage # "handshake"
  <2>1. inst' = inst
    BY <1>0, <1>2
  <2>2. \A j \in DOMAIN inst : inst'[j].alive => j \in outlived' \/ \E n \in McpNames : servers'[n] = j
    BY <1>0, <1>2, <2>1 DEF McpInv, McpNoOrphan
  <2>3. \A j \in DOMAIN inst' : McpIdsBelow(inst'[j], asked')
    BY <1>0, <2>1 DEF McpInv
  <2>. QED BY <1>0, <2>1, <2>2, <2>3, EndPreserves
<1>. QED BY <1>1, <1>2

LEMMA StopServerPreserves == ASSUME McpInv, NEW n \in McpNames, StopServer(n) PROVE McpInv'
<1>0. /\ call = NoCall /\ call' = NoCall /\ asked' = asked /\ servers' = [servers EXCEPT ![n] = 0]
      /\ inst' = Killed(servers[n]) /\ servers \in [McpNames -> 0 .. Len(inst)]
      /\ inst \in Seq(McpInstance) /\ outlived' = outlived /\ outlived \subseteq DOMAIN inst
  BY DEF StopServer, McpInv, McpShapes
<1>1. /\ inst' \in Seq(McpInstance) /\ Len(inst') = Len(inst) /\ DOMAIN inst' = DOMAIN inst
      /\ \A j \in DOMAIN inst' : McpIdsBelow(inst'[j], asked')
      /\ \A j \in DOMAIN inst : inst'[j].alive => inst[j].alive /\ j # servers[n]
  BY <1>0, KilledKeeps
<1>2. /\ servers' \in [McpNames -> 0 .. Len(inst)]
      /\ \A m \in McpNames : m # n => servers'[m] = servers[m]
  <2>1. 0 \in 0 .. Len(inst)
    BY <1>0
  <2>. QED BY <1>0, <2>1
<1>3. \A j \in DOMAIN inst : inst'[j].alive => j \in outlived' \/ \E m \in McpNames : servers'[m] = j
  <2>. SUFFICES ASSUME NEW j \in DOMAIN inst, inst'[j].alive, j \notin outlived
                PROVE  \E m \in McpNames : servers'[m] = j
    BY <1>0
  <2>1. inst[j].alive /\ j # servers[n]
    BY <1>1
  <2>2. call.stage = "idle"
    BY <1>0 DEF NoCall
  <2>3. \E m \in McpNames : servers[m] = j
    BY <2>1, <2>2 DEF McpInv, McpNoOrphan
  <2>. QED BY <1>2, <2>1, <2>3
<1>. QED BY <1>0, <1>1, <1>2, <1>3, EndPreserves

\* The client or the daemon goes: of its instances no more is known than whether
\* they live on, which none does but those of an exit.
LEMMA HostGonePreserves ==
  ASSUME McpInv, servers' = [n \in McpNames |-> 0], call' = NoCall, asked' = asked,
         DOMAIN inst' = DOMAIN inst, outlived' \subseteq DOMAIN inst,
         \A k \in DOMAIN inst : inst'[k] \in McpInstance /\ McpIdsBelow(inst'[k], asked'),
         \A k \in DOMAIN inst : inst'[k].alive => k \in outlived',
         inst' = [k \in DOMAIN inst |-> inst'[k]]
  PROVE  McpInv'
<1>0. inst \in Seq(McpInstance) /\ DOMAIN inst = 1 .. Len(inst) /\ Len(inst) \in Nat
  <2>1. inst \in Seq(McpInstance)
    BY DEF McpInv, McpShapes
  <2>. QED BY <2>1
<1>2. inst' \in Seq(McpInstance) /\ Len(inst') = Len(inst)
  <2>2. inst' \in [1 .. Len(inst) -> McpInstance]
    BY <1>0
  <2>. QED BY <1>0, <2>2
<1>3. servers' \in [McpNames -> 0 .. Len(inst)]
  <2>1. 0 \in 0 .. Len(inst)
    BY <1>0
  <2>. QED BY <1>0, <2>1
<1>. QED BY <1>0, <1>2, <1>3, EndPreserves

LEMMA HostDroppedPreserves == ASSUME McpInv, HostDropped PROVE McpInv'
<1>0. /\ inst' = [k \in DOMAIN inst |-> [inst[k] EXCEPT !.alive = @ /\ k \in outlived]]
      /\ servers' = [n \in McpNames |-> 0] /\ call' = NoCall /\ asked' = asked /\ outlived' = outlived
      /\ outlived \subseteq DOMAIN inst
  BY DEF HostDropped, McpInv, McpShapes
<1>1. ASSUME NEW k \in DOMAIN inst
      PROVE  /\ inst'[k] \in McpInstance /\ McpIdsBelow(inst'[k], asked')
             /\ inst'[k].alive => k \in outlived'
  <2>1. inst[k] \in McpInstance /\ McpIdsBelow(inst[k], asked)
    BY McpElement DEF McpInv
  <2>2. PICK still \in BOOLEAN : still = (inst[k].alive /\ k \in outlived)
    OBVIOUS
  <2>3. inst'[k] = [inst[k] EXCEPT !.alive = still]
    BY <1>0, <2>2
  <2>4. /\ inst'[k] \in McpInstance /\ inst'[k].alive = still /\ inst'[k].next = inst[k].next
        /\ inst'[k].pending = inst[k].pending /\ inst'[k].todo = inst[k].todo /\ inst'[k].wire = inst[k].wire
    BY <2>1, <2>3 DEF McpInstance
  <2>. QED BY <1>0, <2>1, <2>2, <2>4 DEF McpIdsBelow
<1>. QED BY <1>0, <1>1, HostGonePreserves

LEMMA DaemonExitsPreserves == ASSUME McpInv, DaemonExits PROVE McpInv'
<1>0. /\ inst' = [k \in DOMAIN inst |-> [Newborn EXCEPT !.alive = inst[k].alive, !.reading = FALSE]]
      /\ servers' = [n \in McpNames |-> 0] /\ call' = NoCall /\ asked' = asked
      /\ outlived' = {k \in DOMAIN inst : inst[k].alive}
  BY DEF DaemonExits
<1>3. asked \in Nat /\ asked' = asked
  <2>1. asked \in 0 .. McpAsks
    BY DEF McpInv, McpShapes
  <2>2. asked' = asked
    BY DEF DaemonExits
  <2>3. asked \in Nat
    BY <2>1, McpAssumption
  <2>. QED BY <2>2, <2>3
<1>1. ASSUME NEW k \in DOMAIN inst
      PROVE  /\ inst'[k] \in McpInstance /\ McpIdsBelow(inst'[k], asked')
             /\ inst'[k].alive => k \in outlived'
  <2>1. inst[k] \in McpInstance /\ inst[k].alive \in BOOLEAN
    BY McpElement DEF McpInstance
  <2>2. PICK still \in BOOLEAN : still = inst[k].alive
    BY <2>1
  <2>3. inst'[k] = [alive |-> still, reading |-> FALSE, next |-> 1, pending |-> {}, todo |-> {}, wire |-> <<>>]
    BY <1>0, <2>2 DEF Newborn
  <2>4. <<>> \in Seq(McpAnswer) /\ DOMAIN <<>> = {}
    OBVIOUS
  <2>5. /\ inst'[k] \in McpInstance /\ inst'[k].alive = still /\ inst'[k].next = 1
        /\ inst'[k].pending = {} /\ inst'[k].todo = {} /\ inst'[k].wire = <<>>
    BY <2>3, <2>4 DEF McpInstance
  <2>6. McpIdsBelow(inst'[k], asked')
    BY <1>3, <2>4, <2>5 DEF McpIdsBelow
  <2>. QED BY <1>0, <2>2, <2>5, <2>6
<1>2. DOMAIN inst' = DOMAIN inst /\ outlived' \subseteq DOMAIN inst /\ inst' = [k \in DOMAIN inst |-> inst'[k]]
  BY <1>0
<1>. QED BY <1>0, <1>1, <1>2, HostGonePreserves

LEMMA McpStep == ASSUME McpInv, [McpNext]_mcpVars PROVE McpInv'
<1>2. CASE UNCHANGED <<inst, servers, call, asked, outlived>>
  <2>2. McpShapes' /\ McpBudget' /\ McpOwnAnswer' /\ McpNoOrphan'
    BY <1>2 DEF McpInv, McpShapes, McpBudget, McpOwnAnswer, McpNoOrphan
  <2>. QED BY <1>2, <2>2 DEF McpInv
<1>3. UNCHANGED mcpVars \/ McpStalls => UNCHANGED <<inst, servers, call, asked, outlived>>
  BY DEF mcpVars, McpStalls
<1>4. CASE McpNext
  BY <1>2, <1>3, <1>4, StopServerPreserves, McpCallPreserves, McpDiesPreserves, AnswerPreserves,
     RouteLinePreserves, DrainPendingPreserves, AskPreserves, HandshakePreserves, PageOrResultPreserves,
     CallTimeoutPreserves, HostDroppedPreserves, DaemonExitsPreserves
     DEF McpNext, McpReader, McpCaller
<1>. QED BY <1>2, <1>3, <1>4

\* A step of the composition is a step of an engine or leaves it alone.
LEMMA EngineSteps ==
  ASSUME [MCNext]_<<engine, mcpVars, dapVars, lspVars, evalVars, browserVars>>
  PROVE  /\ [McpNext]_mcpVars /\ [DapNext]_dapVars /\ [LspNext]_lspVars /\ [EvalNext]_evalVars
         /\ [BrowserNext]_browserVars
BY DEF MCNext

LEMMA McpHolds == MCSpec => []McpInv
<1>1. MCInit => McpInv
  BY McpInitInv DEF MCInit
<1>2. McpInv /\ [MCNext]_<<engine, mcpVars, dapVars, lspVars, evalVars, browserVars>> => McpInv'
  BY McpStep, EngineSteps
<1>. QED BY <1>1, <1>2, PTL DEF MCSpec

McpPipeOK == mcpFull \in BOOLEAN

LEMMA McpPipe == MCSpec => []McpPipeOK
<1>1. MCInit => McpPipeOK
  BY DEF MCInit, McpInit, McpPipeOK
<1>2. mcpFull \in BOOLEAN /\ [McpNext]_mcpVars => mcpFull' \in BOOLEAN
  <2>. SUFFICES ASSUME mcpFull \in BOOLEAN, [McpNext]_mcpVars PROVE mcpFull' \in BOOLEAN
    OBVIOUS
  <2>1. CASE \E n \in McpNames : StopServer(n) \/ \E op \in {"call", "list"} : McpCall(n, op)
    BY <2>1, Zenon DEF StopServer, McpCall
  <2>2. CASE \E k \in DOMAIN inst : McpDies(k) \/ \E r \in inst[k].todo, ok \in BOOLEAN : Answer(k, r, ok)
    BY <2>2, Zenon DEF McpDies, Answer
  <2>3. CASE McpReader
    BY <2>3, Zenon DEF McpReader, RouteLine, DrainPending
  <2>4. CASE McpCaller
    <3>1. Ask => mcpFull' = FALSE
      BY Zenon DEF Ask
    <3>2. Handshake \/ PageOrResult \/ CallTimeout => mcpFull' = mcpFull
      BY Zenon DEF Handshake, PageOrResult, CallTimeout
    <3>. QED BY <2>4, <3>1, <3>2, Zenon DEF McpCaller
  <2>5. CASE McpStalls
    BY <2>5, Zenon DEF McpStalls
  <2>6. CASE HostDropped \/ DaemonExits
    BY <2>6, Zenon DEF HostDropped, DaemonExits
  <2>7. CASE UNCHANGED mcpVars
    BY <2>7, Zenon DEF mcpVars
  <2>. QED BY <2>1, <2>2, <2>3, <2>4, <2>5, <2>6, <2>7, Zenon DEF McpNext
<1>3. McpPipeOK /\ [MCNext]_<<engine, mcpVars, dapVars, lspVars, evalVars, browserVars>> => McpPipeOK'
  BY <1>2, EngineSteps DEF McpPipeOK
<1>. QED BY <1>1, <1>3, PTL DEF MCSpec

----------------------------------------------------------------------------
(* Language servers. *)

LspOpNames == {"none", "diagnostics", "hover", "definition", "rename"}
LspMessage == [kind : {"error", "result", "request", "edit", "publish"}, id : Nat]
LspServerRecord ==
  [state : {"none", "up", "dead"}, reading : BOOLEAN, next : Nat \ {0}, pending : SUBSET Nat,
   todo : SUBSET [id : Nat, method : LspOpNames \cup {"initialize"}], wire : Seq(LspMessage),
   opened : SUBSET Granted, announced : SUBSET Granted]
LspOps ==
  [op : LspOpNames, file : LspFiles \cup {""},
   stage : {"idle", "hello", "handshake", "ask", "publish", "wait", "apply"}, id : Nat,
   reply : Seq(LspMessage), edit : Seq(Edits), at : Nat \ {0}]

\* What is true of the pooled server whatever the operation in progress: its ids
\* stay below the counter, and only files that count as opened are announced.
LspServerInv ==
  /\ server.announced \subseteq server.opened /\ server.pending \subseteq 1 .. server.next - 1
  /\ server.next <= LspAsks + 1
\* The targets of an edit before the given one are in their files, the last where a
\* file has several of them.
Applied(e, at) ==
  \A i \in 1 .. 2 :
    i < at /\ (\A j \in 1 .. 2 : j < at /\ e.files[j] = e.files[i] => j <= i) =>
      written[e.files[i]] = {e.changes[i]}
\* The ids the operation in progress may still take, and the edit it applies.
LspOpInv ==
  /\ lspOp.stage # "idle" => lspOp.file \in server.opened
  /\ lspOp.stage = "hello" => server.next + 1 <= LspAsks
  /\ lspOp.stage \in {"handshake", "ask"} => server.next <= LspAsks
  /\ lspOp.stage = "apply" => lspOp.edit[1] \in Edits /\ Applied(lspOp.edit[1], lspOp.at)
  /\ lspOp.stage # "apply" => lspOp.at = 1

LspInv ==
  server \in LspServerRecord /\ lspOp \in LspOps /\ written \in [LspFiles -> SUBSET {1, 2}] /\ LspServerInv /\ LspOpInv

LEMMA LspStartShapes == NoServer \in LspServerRecord /\ IdleLsp \in LspOps
<1>1. <<>> \in Seq(LspMessage) /\ <<>> \in Seq(Edits)
  OBVIOUS
<1>. QED BY <1>1 DEF NoServer, IdleLsp, LspServerRecord, LspOps, LspOpNames

LEMMA LspInitInv == LspInit => LspInv
<1>1. ASSUME LspInit PROVE server \in LspServerRecord /\ lspOp \in LspOps
  BY <1>1, LspStartShapes DEF LspInit
<1>2. ASSUME LspInit PROVE written \in [LspFiles -> SUBSET {1, 2}] /\ LspServerInv /\ LspOpInv
  <2>1. /\ server.announced = {} /\ server.pending = {} /\ server.next = 1 /\ lspOp.stage = "idle" /\ lspOp.at = 1
    BY <1>2 DEF LspInit, NoServer, IdleLsp
  <2>2. written \in [LspFiles -> SUBSET {1, 2}]
    BY <1>2 DEF LspInit, Unchanged
  <2>. QED BY <2>1, <2>2 DEF LspServerInv, LspOpInv
<1>. QED BY <1>1, <1>2 DEF LspInv

LEMMA LspServerParts ==
  ASSUME LspInv
  PROVE  /\ server.next \in Nat \ {0} /\ server.pending \in SUBSET Nat
         /\ server.todo \in SUBSET [id : Nat, method : LspOpNames \cup {"initialize"}]
         /\ server.wire \in Seq(LspMessage) /\ server.opened \in SUBSET Granted
         /\ server.announced \in SUBSET Granted
BY DEF LspInv, LspServerRecord

\* An operation that ends leaves nothing to keep but the server's own facts.
LEMMA LspEnds ==
  ASSUME lspOp' = IdleLsp, server' \in LspServerRecord, written' \in [LspFiles -> SUBSET {1, 2}], LspServerInv'
  PROVE  LspInv'
<1>1. lspOp' \in LspOps
  BY LspStartShapes
<1>2. LspOpInv'
  BY DEF LspOpInv, IdleLsp
<1>. QED BY <1>1, <1>2 DEF LspInv

LEMMA LspCallPreserves ==
  ASSUME LspInv, NEW f \in LspFiles, NEW op \in {"diagnostics", "hover", "definition", "rename"}, LspCall(f, op)
  PROVE  LspInv'
<1>1. /\ lspOp = IdleLsp /\ f \in Granted /\ written' \in [LspFiles -> SUBSET {1, 2}]
      /\ server.next + (IF f \in server.opened THEN 0 ELSE 1) <= LspAsks
  BY DEF LspCall, LspInv
<1>2. PICK s : s = IF server.state = "none" THEN [NoServer EXCEPT !.state = "up", !.reading = TRUE] ELSE server
  OBVIOUS
<1>3. [NoServer EXCEPT !.state = "up", !.reading = TRUE] \in LspServerRecord
  BY LspStartShapes DEF LspServerRecord
<1>4. s \in LspServerRecord
  BY <1>2, <1>3 DEF LspInv
<1>5. PICK O \in SUBSET Granted : O = s.opened \cup {f}
  BY <1>1, <1>4 DEF LspServerRecord
<1>6. server' = [s EXCEPT !.opened = O]
  BY <1>2, <1>5 DEF LspCall
<1>7. /\ server' \in LspServerRecord /\ server'.opened = O /\ server'.announced = s.announced
      /\ server'.pending = s.pending /\ server'.next = s.next
  BY <1>4, <1>6 DEF LspServerRecord
<1>8. /\ s.announced \subseteq s.opened /\ s.pending \subseteq 1 .. s.next - 1 /\ s.next <= LspAsks + 1
      /\ s.next = 1 \/ s.next = server.next
  BY <1>2 DEF LspInv, LspServerInv, NoServer
<1>9. LspServerInv'
  BY <1>5, <1>7, <1>8 DEF LspServerInv
<1>10. PICK st \in {"hello", "publish", "ask"} :
         st = IF f \notin server.opened THEN "hello" ELSE IF op = "diagnostics" THEN "publish" ELSE "ask"
  OBVIOUS
<1>11. lspOp' = [IdleLsp EXCEPT !.op = op, !.file = f, !.stage = st]
  BY <1>10 DEF LspCall
<1>12. lspOp' \in LspOps /\ lspOp'.stage = st /\ lspOp'.file = f /\ lspOp'.at = 1
  BY <1>11, LspStartShapes DEF LspOps, LspOpNames, IdleLsp
<1>13. server.next \in Nat \ {0} /\ (f \notin server.opened => server.next + 1 <= LspAsks) /\ server.next <= LspAsks
  <2>1. server.next \in Nat \ {0}
    BY LspServerParts
  <2>. QED BY <1>1, <2>1
<1>14. LspOpInv'
  <2>1. st = "hello" => s.next + 1 <= LspAsks
    BY <1>8, <1>10, <1>13
  <2>2. s.next <= LspAsks
    BY <1>8, <1>13
  <2>. QED BY <1>5, <1>7, <1>10, <1>12, <2>1, <2>2 DEF LspOpInv
<1>. QED BY <1>1, <1>7, <1>9, <1>12, <1>14 DEF LspInv

LEMMA LspSendPreserves == ASSUME LspInv, LspSend PROVE LspInv'
<1>1. /\ lspOp \in LspOps /\ server \in LspServerRecord /\ lspOp.stage \in {"hello", "ask"} /\ written' \in [LspFiles -> SUBSET {1, 2}]
      /\ server.next \in Nat \ {0} /\ server.announced \subseteq server.opened
      /\ server.pending \subseteq 1 .. server.next - 1
      /\ lspOp.stage = "hello" => server.next + 1 <= LspAsks
      /\ server.next <= LspAsks /\ lspOp.file \in server.opened /\ lspOp.at = 1
  <2>1. server.next \in Nat \ {0}
    BY LspServerParts
  <2>. QED BY <2>1 DEF LspInv, LspSend, LspServerInv, LspOpInv
<1>2. PICK n \in Nat \ {0} : n = server.next + 1
  BY <1>1
<1>3. PICK P \in SUBSET Nat : P = server.pending \cup {server.next}
  BY <1>1, LspServerParts
<1>4. PICK T \in SUBSET [id : Nat, method : LspOpNames \cup {"initialize"}] :
        T = IF Up THEN server.todo \cup {[id |-> server.next, method |-> IF lspOp.stage = "hello" THEN "initialize" ELSE lspOp.op]}
            ELSE server.todo
  <2>1. lspOp.op \in LspOpNames
    BY <1>1 DEF LspOps
  <2>2. PICK m \in LspOpNames \cup {"initialize"} : m = IF lspOp.stage = "hello" THEN "initialize" ELSE lspOp.op
    BY <2>1
  <2>3. [id |-> server.next, method |-> m] \in [id : Nat, method : LspOpNames \cup {"initialize"}]
    BY <1>1, <2>2
  <2>. QED BY <2>2, <2>3, LspServerParts
<1>5. CASE /\ server' = [server EXCEPT !.next = n, !.pending = P, !.todo = T]
           /\ lspOp' = [lspOp EXCEPT !.stage = IF @ = "hello" THEN "handshake" ELSE "wait", !.id = server.next]
  <2>1. /\ server' \in LspServerRecord /\ server'.next = n /\ server'.pending = P
        /\ server'.announced = server.announced /\ server'.opened = server.opened
    BY <1>1, <1>5 DEF LspServerRecord
  <2>2. PICK st \in {"handshake", "wait"}, i \in Nat :
          st = (IF lspOp.stage = "hello" THEN "handshake" ELSE "wait") /\ i = server.next
    BY <1>1
  <2>3. lspOp' = [lspOp EXCEPT !.stage = st, !.id = i]
    BY <1>5, <2>2
  <2>4. lspOp' \in LspOps /\ lspOp'.stage = st /\ lspOp'.file = lspOp.file /\ lspOp'.at = 1
    BY <1>1, <2>3 DEF LspOps
  <2>5. LspServerInv'
    BY <1>1, <1>2, <1>3, <2>1 DEF LspServerInv
  <2>6. st = "handshake" => server'.next <= LspAsks
    BY <1>1, <1>2, <2>1, <2>2
  <2>7. LspOpInv'
    BY <1>1, <2>1, <2>2, <2>4, <2>6 DEF LspOpInv
  <2>. QED BY <1>1, <2>1, <2>4, <2>5, <2>7 DEF LspInv
<1>6. CASE /\ lspOp' = IdleLsp
           /\ server' = [server EXCEPT !.next = n, !.pending = IF lspOp.stage = "hello" THEN P ELSE server.pending]
  <2>1. PICK Q \in SUBSET Nat : Q = IF lspOp.stage = "hello" THEN P ELSE server.pending
    BY <1>3, LspServerParts
  <2>2. /\ server' \in LspServerRecord /\ server'.next = n /\ server'.pending = Q
        /\ server'.announced = server.announced /\ server'.opened = server.opened
    BY <1>1, <1>6, <2>1 DEF LspServerRecord
  <2>3. LspServerInv'
    BY <1>1, <1>2, <1>3, <2>1, <2>2 DEF LspServerInv
  <2>. QED BY <1>1, <1>6, <2>2, <2>3, LspEnds
<1>. QED BY <1>2, <1>3, <1>4, <1>5, <1>6 DEF LspSend

LEMMA LspHelloPreserves == ASSUME LspInv, LspHello PROVE LspInv'
<1>1. /\ lspOp \in LspOps /\ server \in LspServerRecord /\ lspOp.stage = "handshake" /\ written' \in [LspFiles -> SUBSET {1, 2}]
      /\ LspServerInv /\ lspOp.file \in server.opened /\ server.next <= LspAsks /\ lspOp.at = 1
  BY DEF LspInv, LspHello, LspOpInv
<1>2. CASE /\ server' = [server EXCEPT !.announced = @ \cup {lspOp.file}]
           /\ lspOp' = [lspOp EXCEPT !.stage = IF lspOp.op = "diagnostics" THEN "publish" ELSE "ask",
                                     !.reply = <<>>]
  <2>1. PICK A \in SUBSET Granted : A = server.announced \cup {lspOp.file}
    BY <1>1, LspServerParts
  <2>2. /\ server' \in LspServerRecord /\ server'.next = server.next /\ server'.pending = server.pending
        /\ server'.announced = A /\ server'.opened = server.opened
    BY <1>1, <1>2, <2>1 DEF LspServerRecord
  <2>3. PICK st \in {"publish", "ask"} : st = IF lspOp.op = "diagnostics" THEN "publish" ELSE "ask"
    OBVIOUS
  <2>4. <<>> \in Seq(LspMessage)
    OBVIOUS
  <2>5. lspOp' = [lspOp EXCEPT !.stage = st, !.reply = <<>>]
    BY <1>1, <1>2, <2>3
  <2>6. lspOp' \in LspOps /\ lspOp'.stage = st /\ lspOp'.file = lspOp.file /\ lspOp'.at = 1
    BY <1>1, <2>4, <2>5 DEF LspOps
  <2>7. LspServerInv'
    BY <1>1, <2>1, <2>2 DEF LspServerInv
  <2>8. LspOpInv'
    BY <1>1, <2>2, <2>6 DEF LspOpInv
  <2>. QED BY <1>1, <2>2, <2>6, <2>7, <2>8 DEF LspInv
<1>3. CASE lspOp' = IdleLsp /\ UNCHANGED server
  BY <1>1, <1>3, LspEnds DEF LspServerInv
<1>. QED BY <1>1, <1>2, <1>3 DEF LspHello

\* The pooled server moves, and the operation is at most given its answer.
LEMMA LspBeside ==
  ASSUME LspInv, UNCHANGED written, server' \in LspServerRecord, server'.next = server.next,
         server'.pending \subseteq server.pending, server'.announced = server.announced,
         server'.opened = server.opened, lspOp' \in LspOps, lspOp'.stage = lspOp.stage,
         lspOp'.file = lspOp.file, lspOp'.edit = lspOp.edit, lspOp'.at = lspOp.at
  PROVE  LspInv'
<1>1. LspServerInv'
  BY DEF LspInv, LspServerInv
<1>2. LspOpInv'
  BY DEF LspInv, LspOpInv, Applied
<1>. QED BY <1>1, <1>2 DEF LspInv

LEMMA LspReplyPreserves == ASSUME LspInv, LspReply PROVE LspInv'
<1>1. /\ lspOp \in LspOps /\ lspOp.stage = "wait" /\ lspOp.at \in Nat \ {0}
      /\ UNCHANGED <<server, written>> /\ LspServerInv /\ written \in [LspFiles -> SUBSET {1, 2}]
      /\ server \in LspServerRecord /\ lspOp.file \in server.opened
  BY DEF LspInv, LspReply, LspOps, LspOpInv
<1>2. LspServerInv'
  BY <1>1 DEF LspServerInv
<1>3. ASSUME NEW edit \in Edits, lspOp.at = 1,
             lspOp' = [lspOp EXCEPT !.stage = "apply", !.edit = <<edit>>, !.reply = <<>>]
      PROVE  LspInv'
  <2>1. <<edit>> \in Seq(Edits) /\ <<>> \in Seq(LspMessage) /\ <<edit>>[1] = edit
    OBVIOUS
  <2>2. PICK x \in Seq(Edits) : x = <<edit>>
    BY <2>1
  <2>3. /\ lspOp' \in LspOps /\ lspOp'.stage = "apply" /\ lspOp'.edit = x /\ lspOp'.file = lspOp.file
        /\ lspOp'.at = 1
    BY <1>1, <1>3, <2>1, <2>2 DEF LspOps
  <2>4. lspOp'.edit[1] \in Edits
    BY <2>1, <2>2, <2>3
  <2>5. Applied(lspOp.edit[1], lspOp.at)'
    BY <2>3 DEF Applied
  <2>6. LspOpInv'
    BY <1>1, <2>3, <2>4, <2>5 DEF LspOpInv
  <2>. QED BY <1>1, <1>2, <2>3, <2>6 DEF LspInv
<1>4. CASE lspOp' = IdleLsp
  BY <1>1, <1>2, <1>4, LspEnds
<1>5. lspOp.at = 1
  BY <1>1 DEF LspInv, LspOpInv
<1>. QED BY <1>3, <1>4, <1>5 DEF LspReply

LEMMA ApplyEditPreserves == ASSUME LspInv, ApplyEdit PROVE LspInv'
<1>1. /\ lspOp \in LspOps /\ lspOp.stage = "apply" /\ UNCHANGED server /\ LspServerInv
      /\ written \in [LspFiles -> SUBSET {1, 2}] /\ server \in LspServerRecord /\ lspOp.file \in server.opened
      /\ lspOp.edit[1] \in Edits /\ Applied(lspOp.edit[1], lspOp.at)
  BY DEF LspInv, ApplyEdit, LspOpInv
<1>2. CASE lspOp' = IdleLsp /\ written' = Unchanged
  <2>1. written' \in [LspFiles -> SUBSET {1, 2}]
    BY <1>2 DEF Unchanged
  <2>. QED BY <1>1, <1>2, <2>1, LspEnds DEF LspServerInv
<1>3. CASE /\ lspOp.at \in DOMAIN lspOp.edit[1].files
           /\ written' = [written EXCEPT ![lspOp.edit[1].files[lspOp.at]] = {lspOp.edit[1].changes[lspOp.at]}]
           /\ lspOp' = [lspOp EXCEPT !.at = @ + 1]
  <2>1. lspOp.at \in Nat \ {0}
    BY <1>1 DEF LspOps
  <2>2. PICK m \in Nat \ {0} : m = lspOp.at + 1
    BY <2>1
  <2>3. /\ lspOp' \in LspOps /\ lspOp'.stage = "apply" /\ lspOp'.edit = lspOp.edit /\ lspOp'.file = lspOp.file
        /\ lspOp'.at = m
    BY <1>1, <1>3, <2>2 DEF LspOps
  <2>4. PICK e \in Edits : e = lspOp.edit[1]
    BY <1>1
  <2>5. e.files \in LspFiles \X LspFiles /\ e.changes \in {1} \X {1, 2}
    BY DEF Edits
  <2>6. PICK a \in 1 .. 2 : a = lspOp.at
    BY <1>3, <2>4, <2>5
  <2>7. \A i \in 1 .. 2 : e.files[i] \in LspFiles /\ e.changes[i] \in {1, 2}
    BY <2>5
  <2>8. written' \in [LspFiles -> SUBSET {1, 2}]
    BY <1>1, <1>3, <2>4, <2>6, <2>7
  <2>9. ASSUME NEW i \in 1 .. 2, i < m, \A j \in 1 .. 2 : j < m /\ e.files[j] = e.files[i] => j <= i
        PROVE  written'[e.files[i]] = {e.changes[i]}
    <3>1. written' = [written EXCEPT ![e.files[a]] = {e.changes[a]}]
      BY <1>3, <2>4, <2>6
    <3>2. CASE i = a
      BY <1>1, <2>7, <3>1, <3>2
    <3>3. CASE i < a
      <4>1. e.files[a] # e.files[i]
        BY <2>2, <2>6, <2>9, <3>3
      <4>2. \A j \in 1 .. 2 : j < a /\ e.files[j] = e.files[i] => j <= i
        BY <2>2, <2>6, <2>9
      <4>3. written[e.files[i]] = {e.changes[i]}
        BY <1>1, <2>4, <2>6, <3>3, <4>2 DEF Applied
      <4>. QED BY <1>1, <2>7, <3>1, <4>1, <4>3
    <3>. QED BY <2>2, <2>6, <2>9, <3>2, <3>3
  <2>10. Applied(lspOp.edit[1], lspOp.at)'
    BY <2>3, <2>4, <2>9 DEF Applied
  <2>11. LspOpInv'
    BY <1>1, <2>3, <2>10 DEF LspOpInv
  <2>12. LspServerInv'
    BY <1>1 DEF LspServerInv
  <2>. QED BY <1>1, <2>3, <2>8, <2>11, <2>12 DEF LspInv
<1>. QED BY <1>2, <1>3 DEF ApplyEdit

LEMMA LspTimeoutPreserves == ASSUME LspInv, LspTimeout PROVE LspInv'
<1>1. /\ server \in LspServerRecord /\ lspOp' = IdleLsp /\ written' \in [LspFiles -> SUBSET {1, 2}] /\ LspServerInv
      /\ server' = IF lspOp.stage = "wait" THEN [server EXCEPT !.pending = @ \ {lspOp.id}] ELSE server
  BY DEF LspInv, LspTimeout
<1>2. PICK P \in SUBSET Nat : P = IF lspOp.stage = "wait" THEN server.pending \ {lspOp.id} ELSE server.pending
  BY LspServerParts
<1>3. /\ server' \in LspServerRecord /\ server'.next = server.next /\ server'.pending = P
      /\ server'.announced = server.announced /\ server'.opened = server.opened
  <2>1. CASE lspOp.stage = "wait"
    BY <1>1, <1>2, <2>1 DEF LspServerRecord
  <2>2. CASE lspOp.stage # "wait"
    BY <1>1, <1>2, <2>2
  <2>. QED BY <2>1, <2>2
<1>4. LspServerInv'
  BY <1>1, <1>2, <1>3 DEF LspServerInv
<1>. QED BY <1>1, <1>3, <1>4, LspEnds

LEMMA LspSaysPreserves == ASSUME LspInv, NEW m \in LspMessage, LspSays(m) PROVE LspInv'
<1>1. server \in LspServerRecord /\ lspOp \in LspOps /\ UNCHANGED <<lspOp, written>>
  BY DEF LspInv, LspSays
<1>2. PICK w \in Seq(LspMessage) : w = Append(server.wire, m)
  BY LspServerParts, AppendElements
<1>3. PICK T \in SUBSET [id : Nat, method : LspOpNames \cup {"initialize"}] :
        T = {r \in server.todo : r.id # m.id \/ m.kind = "request"}
  BY LspServerParts
<1>4. server' = [server EXCEPT !.wire = w, !.todo = T]
  BY <1>2, <1>3 DEF LspSays
<1>5. /\ server' \in LspServerRecord /\ server'.next = server.next /\ server'.pending = server.pending
      /\ server'.announced = server.announced /\ server'.opened = server.opened
  BY <1>1, <1>4 DEF LspServerRecord
<1>. QED BY <1>1, <1>5, LspBeside

LEMMA LspServerPreserves == ASSUME LspInv, LspServer PROVE LspInv'
<1>1. ASSUME NEW r \in server.todo, LspAnswers(r) PROVE LspInv'
  <2>1. r.id \in Nat
    BY LspServerParts
  <2>2. PICK i \in Nat : i = r.id
    BY <2>1
  <2>3. /\ [kind |-> "error", id |-> i] \in LspMessage /\ [kind |-> "result", id |-> i] \in LspMessage
        /\ [kind |-> "edit", id |-> i] \in LspMessage
    BY DEF LspMessage
  <2>. QED BY <1>1, <2>2, <2>3, LspSaysPreserves DEF LspAnswers
<1>2. ASSUME LspPublishes PROVE LspInv'
  <2>1. [kind |-> "publish", id |-> 0] \in LspMessage
    BY DEF LspMessage
  <2>. QED BY <1>2, <2>1, LspSaysPreserves DEF LspPublishes
<1>3. ASSUME NEW id \in 1 .. 2, LspRequests(id) PROVE LspInv'
  <2>1. [kind |-> "request", id |-> id] \in LspMessage
    BY DEF LspMessage
  <2>. QED BY <1>3, <2>1, LspSaysPreserves DEF LspRequests
<1>4. ASSUME LspDies PROVE LspInv'
  <2>1. server \in LspServerRecord /\ lspOp \in LspOps /\ UNCHANGED <<lspOp, written>>
        /\ server' = [server EXCEPT !.state = "dead", !.todo = {}]
    BY <1>4 DEF LspInv, LspDies
  <2>2. /\ server' \in LspServerRecord /\ server'.next = server.next /\ server'.pending = server.pending
        /\ server'.announced = server.announced /\ server'.opened = server.opened
    BY <2>1 DEF LspServerRecord
  <2>. QED BY <2>1, <2>2, LspBeside
<1>5. CASE LspStalls
  <2>1. UNCHANGED <<server, lspOp, written>>
    BY <1>5 DEF LspStalls
  <2>2. server' \in LspServerRecord /\ lspOp' \in LspOps
    BY <2>1 DEF LspInv
  <2>. QED BY <2>1, <2>2, LspBeside DEF LspInv
<1>. QED BY <1>1, <1>2, <1>3, <1>4, <1>5 DEF LspServer

LEMMA LspReadPreserves == ASSUME LspInv, LspRead PROVE LspInv'
<1>1. server \in LspServerRecord /\ lspOp \in LspOps /\ UNCHANGED written /\ server.wire \in Seq(LspMessage)
  BY LspServerParts DEF LspInv, LspRead
<1>2. CASE server' = [server EXCEPT !.reading = FALSE] /\ UNCHANGED lspOp
  <2>1. /\ server' \in LspServerRecord /\ server'.next = server.next /\ server'.pending = server.pending
        /\ server'.announced = server.announced /\ server'.opened = server.opened
    BY <1>1, <1>2 DEF LspServerRecord
  <2>. QED BY <1>1, <1>2, <2>1, LspBeside
<1>3. CASE /\ server.wire # <<>>
           /\ LET m == Head(server.wire)
                  mine == m.id \in server.pending /\ lspOp.stage \in {"handshake", "wait"} /\ lspOp.id = m.id
              IN /\ server' = [server EXCEPT !.wire = Tail(@), !.pending = @ \ {m.id}]
                 /\ lspOp' = IF mine THEN [lspOp EXCEPT !.reply = <<m>>] ELSE lspOp
  <2>1. PICK m \in LspMessage, w \in Seq(LspMessage) : m = Head(server.wire) /\ w = Tail(server.wire)
    BY <1>1, <1>3, TailElements
  <2>2. PICK P \in SUBSET Nat : P = server.pending \ {m.id}
    BY LspServerParts
  <2>5. server' = [server EXCEPT !.wire = w, !.pending = P]
    BY <1>3, <2>1, <2>2
  <2>6. /\ server' \in LspServerRecord /\ server'.next = server.next /\ server'.pending = P
        /\ server'.announced = server.announced /\ server'.opened = server.opened
    BY <1>1, <2>5 DEF LspServerRecord
  <2>7. <<m>> \in Seq(LspMessage)
    OBVIOUS
  <2>8. PICK x \in Seq(LspMessage) : x = <<m>>
    BY <2>7
  <2>9. lspOp' = lspOp \/ lspOp' = [lspOp EXCEPT !.reply = x]
    BY <1>3, <2>1, <2>8
  <2>10. lspOp' \in LspOps /\ lspOp'.stage = lspOp.stage /\ lspOp'.file = lspOp.file /\ lspOp'.edit = lspOp.edit
         /\ lspOp'.at = lspOp.at
    BY <1>1, <2>9 DEF LspOps
  <2>11. server'.pending \subseteq server.pending
    BY <2>2, <2>6
  <2>. QED BY <1>1, <2>6, <2>10, <2>11, LspBeside
<1>. QED BY <1>2, <1>3 DEF LspRead

LEMMA LspStep == ASSUME LspInv, [LspNext]_lspVars PROVE LspInv'
<1>1. CASE UNCHANGED lspVars
  <2>1. UNCHANGED <<server, lspOp, written>>
    BY <1>1 DEF lspVars
  <2>2. server' \in LspServerRecord /\ lspOp' \in LspOps
    BY <2>1 DEF LspInv
  <2>. QED BY <2>1, <2>2, LspBeside DEF LspInv
<1>2. CASE Diagnostics
  <2>1. lspOp' = IdleLsp /\ server' \in LspServerRecord /\ written' \in [LspFiles -> SUBSET {1, 2}] /\ LspServerInv'
    BY <1>2 DEF Diagnostics, LspInv, LspServerInv
  <2>. QED BY <2>1, LspEnds
<1>3. CASE LspDropped
  <2>1. lspOp' = IdleLsp /\ written' \in [LspFiles -> SUBSET {1, 2}] /\ server' = NoServer
    BY <1>3 DEF LspDropped, Unchanged
  <2>2. server' \in LspServerRecord
    BY <2>1, LspStartShapes
  <2>3. LspServerInv'
    <3>1. server'.announced = {} /\ server'.pending = {} /\ server'.next = 1
      BY <2>1 DEF NoServer
    <3>. QED BY <3>1 DEF LspServerInv
  <2>. QED BY <2>1, <2>2, <2>3, LspEnds
<1>4. CASE LspNext /\ ~LspDropped /\ ~Diagnostics
  BY <1>4, LspCallPreserves, LspSendPreserves, LspHelloPreserves, LspReplyPreserves, ApplyEditPreserves,
     LspTimeoutPreserves, LspServerPreserves, LspReadPreserves
     DEF LspNext, LspCaller
<1>. QED BY <1>1, <1>2, <1>3, <1>4

LEMMA LspHolds == MCSpec => []LspInv
<1>1. MCInit => LspInv
  BY LspInitInv DEF MCInit
<1>2. LspInv /\ [MCNext]_<<engine, mcpVars, dapVars, lspVars, evalVars, browserVars>> => LspInv'
  BY LspStep, EngineSteps
<1>. QED BY <1>1, <1>2, PTL DEF MCSpec

\* A rename that is through has given every file the last changes named for it
\* (lsp_ops.rs: rename, apply_workspace_edit).
THEOREM RenameReachesFiles == MCSpec => []RenameWhole
<1>1. LspInv => RenameWhole
  <2>. SUFFICES ASSUME LspInv, lspOp.stage = "apply", lspOp.at \notin DOMAIN lspOp.edit[1].files,
                       NEW i \in DOMAIN lspOp.edit[1].files,
                       \A j \in DOMAIN lspOp.edit[1].files :
                         lspOp.edit[1].files[j] = lspOp.edit[1].files[i] => j <= i
                PROVE  written[lspOp.edit[1].files[i]] = {lspOp.edit[1].changes[i]}
    BY DEF RenameWhole
  <2>1. lspOp.edit[1] \in Edits /\ Applied(lspOp.edit[1], lspOp.at) /\ lspOp.at \in Nat \ {0}
    BY DEF LspInv, LspOpInv, LspOps
  <2>2. PICK e \in Edits : e = lspOp.edit[1]
    BY <2>1
  <2>3. DOMAIN e.files = 1 .. 2
    BY DEF Edits
  <2>4. \A k \in 1 .. 2 : k < lspOp.at
    BY <2>1, <2>2, <2>3
  <2>. QED BY <2>1, <2>2, <2>3, <2>4 DEF Applied
<1>. QED BY <1>1, LspHolds, PTL

LspPipeOK == lspFull \in BOOLEAN

LEMMA LspPipe == MCSpec => []LspPipeOK
<1>1. MCInit => LspPipeOK
  BY DEF MCInit, LspInit, LspPipeOK
<1>2. lspFull \in BOOLEAN /\ [LspNext]_lspVars => lspFull' \in BOOLEAN
  <2>. SUFFICES ASSUME lspFull \in BOOLEAN, [LspNext]_lspVars PROVE lspFull' \in BOOLEAN
    OBVIOUS
  <2>1. CASE \E f \in LspFiles, op \in {"diagnostics", "hover", "definition", "rename"} : LspCall(f, op)
    BY <2>1, Zenon DEF LspCall
  <2>2. CASE LspCaller
    <3>1. LspSend \/ LspHello => lspFull' = FALSE
      BY Zenon DEF LspSend, LspHello
    <3>2. Diagnostics \/ LspReply \/ ApplyEdit \/ LspTimeout => lspFull' = lspFull
      BY Zenon DEF Diagnostics, LspReply, ApplyEdit, LspTimeout
    <3>. QED BY <2>2, <3>1, <3>2, Zenon DEF LspCaller
  <2>3. CASE LspServer
    <3>1. \A m : LspSays(m) => lspFull' = lspFull
      BY Zenon DEF LspSays
    <3>2. LspStalls => lspFull' = TRUE \/ lspFull' = FALSE
      BY Zenon DEF LspStalls
    <3>3. LspDies => lspFull' = lspFull
      BY Zenon DEF LspDies
    <3>4. LspServer => lspFull' = lspFull \/ lspFull' = TRUE \/ lspFull' = FALSE
      BY <3>1, <3>2, <3>3, Zenon DEF LspServer, LspAnswers, LspPublishes, LspRequests
    <3>. QED BY <2>3, <3>4
  <2>4. CASE LspRead \/ LspDropped \/ UNCHANGED lspVars
    BY <2>4, Zenon DEF LspRead, LspDropped, lspVars
  <2>. QED BY <2>1, <2>2, <2>3, <2>4, Zenon DEF LspNext
<1>3. LspPipeOK /\ [MCNext]_<<engine, mcpVars, dapVars, lspVars, evalVars, browserVars>> => LspPipeOK'
  BY <1>2, EngineSteps DEF LspPipeOK
<1>. QED BY <1>1, <1>3, PTL DEF MCSpec

----------------------------------------------------------------------------
(* The browser. *)

TabMaps == UNION {[D -> Nat] : D \in SUBSET TabNames}
RefRecord == [page : Nat, snap : Nat]
SessionRecord ==
  [of : Nat, tabs : TabMaps, active : TabNames, page : Nat, refs : RefRecord, armed : BOOLEAN]
Commands ==
  {"press", "release", "insert", "set", "pick", "move", "keydown", "keyup", "wheel", "reload", "history",
   "goto", "poll"}
VerbRecord ==
  [op : {"none", "launch", "act", "navigate", "wait", "snapshot", "shot"},
   stage : {"idle", "starting", "do", "snap", "pin", "capture"}, plan : Seq(Commands), shot : BOOLEAN,
   fresh : SessionRecord]
ChromeRecord == [alive : BOOLEAN, task : {"running", "killed"}]
PageRecord == [of : Nat, listens : Nat, pinned : {"no", "yes", "left"}]

BrowserShapes ==
  /\ chrome \in Seq(ChromeRecord) /\ pages \in Seq(PageRecord) /\ session \in SessionRecord
  /\ verb \in VerbRecord /\ taken \in 0 .. Snapshots /\ shown \in 0 .. taken /\ errored \in BOOLEAN
  /\ unarmed \subseteq DOMAIN pages /\ \A p \in DOMAIN pages : pages[p].of \in DOMAIN chrome

\* A session's tabs are pages of its Chrome, the active one the page its verbs act
\* on; armed tabs are listened to once.
WholeSession(s) ==
  /\ s.of \in DOMAIN chrome /\ s.active \in DOMAIN s.tabs /\ s.page = s.tabs[s.active]
  /\ \A t \in DOMAIN s.tabs :
       /\ s.tabs[t] \in DOMAIN pages /\ pages[s.tabs[t]].of = s.of
       /\ pages[s.tabs[t]].listens = IF s.armed /\ s.tabs[t] \notin unarmed THEN 1 ELSE 0
       /\ ~s.armed => s.tabs[t] \notin unarmed

\* What the call in progress works on: a launch its own session, which is in no
\* map yet, any other call the session of the map.
VerbInv ==
  /\ verb.stage = "do" => verb.plan # <<>>
  /\ verb.stage = "starting" => verb.op = "launch" /\ verb.fresh = NoTabs
  /\ verb.op # "launch" => verb.fresh = NoTabs
  /\ verb.op = "launch" => session = NoTabs /\ ~verb.shot /\ verb.stage \in {"starting", "do", "snap"}
  /\ verb.op = "launch" /\ verb.stage # "starting" => WholeSession(verb.fresh) /\ verb.fresh.refs = NoRefs
  /\ verb.stage # "idle" /\ verb.op # "launch" => Open
  /\ verb.shot => verb.op = "act"
  /\ verb.op = "act" /\ verb.stage \in {"pin", "capture"} => session.refs.snap = taken

\* The metrics of a page are pinned only while it is captured, or once its Chrome is
\* gone, but for those a failed command left pinned.
PinnedInv ==
  \A p \in DOMAIN pages : pages[p].pinned = "yes" =>
    ~chrome[pages[p].of].alive \/ (verb.stage = "capture" /\ p = session.page)
TasksInv ==
  \A b \in DOMAIN chrome : chrome[b].task = "running" => b \in {session.of, verb.fresh.of} \cup stray

BrowserInv ==
  BrowserShapes /\ (Open => WholeSession(session)) /\ VerbInv /\ RefsAsShown /\ PinnedInv /\ TasksInv

LEMMA StartRecords ==
  /\ NoTabs \in SessionRecord /\ NoTabs.of = 0 /\ NoTabs.refs = NoRefs /\ DOMAIN NoTabs.tabs = {}
  /\ NoTabs.page = 0
  /\ NoVerb \in VerbRecord /\ NoVerb.stage = "idle" /\ NoVerb.op = "none" /\ NoVerb.fresh = NoTabs /\ ~NoVerb.shot
<1>1. <<>> \in TabMaps /\ DOMAIN <<>> = {}
  <2>1. <<>> \in [{} -> Nat] /\ {} \in SUBSET TabNames
    OBVIOUS
  <2>. QED BY <2>1 DEF TabMaps
<1>2. NoRefs \in RefRecord
  BY DEF NoRefs, RefRecord
<1>3. /\ NoTabs \in SessionRecord /\ NoTabs.of = 0 /\ NoTabs.refs = NoRefs /\ DOMAIN NoTabs.tabs = {} /\ NoTabs.page = 0
  BY <1>1, <1>2 DEF NoTabs, SessionRecord
<1>4. <<>> \in Seq(Commands)
  OBVIOUS
<1>5. /\ NoVerb \in VerbRecord /\ NoVerb.stage = "idle" /\ NoVerb.op = "none" /\ NoVerb.fresh = NoTabs /\ ~NoVerb.shot
  BY <1>3, <1>4 DEF NoVerb, VerbRecord
<1>. QED BY <1>3, <1>5

LEMMA BrowserInitInv == BrowserInit => BrowserInv
<1>1. ASSUME BrowserInit PROVE BrowserShapes
  <2>1. <<>> \in Seq(ChromeRecord) /\ <<>> \in Seq(PageRecord) /\ DOMAIN <<>> = {}
    OBVIOUS
  <2>2. chrome = <<>> /\ pages = <<>> /\ session = NoTabs /\ verb = NoVerb /\ errored = FALSE /\ unarmed = {}
    BY <1>1 DEF BrowserInit
  <2>3. taken \in 0 .. Snapshots /\ shown \in 0 .. taken
    BY <1>1 DEF BrowserInit
  <2>. QED BY <2>1, <2>2, <2>3, StartRecords DEF BrowserShapes
<1>2. ASSUME BrowserInit PROVE (Open => WholeSession(session)) /\ VerbInv /\ RefsAsShown
  BY <1>2, StartRecords DEF BrowserInit, Open, VerbInv, RefsAsShown
<1>3. ASSUME BrowserInit PROVE PinnedInv /\ TasksInv
  <2>1. DOMAIN chrome = {} /\ DOMAIN pages = {}
    BY <1>3 DEF BrowserInit
  <2>. QED BY <2>1 DEF PinnedInv, TasksInv
<1>. QED BY <1>1, <1>2, <1>3 DEF BrowserInv

\* A session stays whole while its Chrome is known and its pages are left alone.
LEMMA WholeStays ==
  ASSUME NEW s, WholeSession(s), DOMAIN chrome \subseteq DOMAIN chrome',
         \A p \in DOMAIN pages : /\ p \in DOMAIN pages' /\ pages'[p].of = pages[p].of
                                 /\ pages'[p].listens = pages[p].listens
                                 /\ p \in unarmed' <=> p \in unarmed
  PROVE  WholeSession(s)'
BY DEF WholeSession

LEMMA PlansAreCommands ==
  ASSUME NEW plan \in ElementPlans \cup PagePlans
  PROVE  plan \in Seq(Commands) /\ plan # <<>>
<1>1. /\ Click \in Seq(Commands) /\ Click # <<>> /\ SetValue \in Seq(Commands) /\ SetValue # <<>>
      /\ SelectOption \in Seq(Commands) /\ SelectOption # <<>> /\ Hover \in Seq(Commands) /\ Hover # <<>>
  BY DEF Click, SetValue, SelectOption, Hover, Commands
<1>2. /\ PressKey \in Seq(Commands) /\ PressKey # <<>> /\ Scroll \in Seq(Commands) /\ Scroll # <<>>
      /\ ReloadPage \in Seq(Commands) /\ ReloadPage # <<>> /\ History \in Seq(Commands) /\ History # <<>>
  BY DEF PressKey, Scroll, ReloadPage, History, Commands
<1>3. DoubleClick \in Seq(Commands) /\ DoubleClick # <<>> /\ TypeText \in Seq(Commands) /\ TypeText # <<>>
  <2>1. <<"insert">> \in Seq(Commands)
    BY DEF Commands
  <2>2. DoubleClick \in Seq(Commands) /\ TypeText \in Seq(Commands)
    BY <1>1, <2>1 DEF DoubleClick, TypeText
  <2>3. Len(Click) = 2 /\ Len(DoubleClick) = 4 /\ Len(TypeText) = 3
    BY DEF Click, DoubleClick, TypeText
  <2>4. ASSUME NEW s, Len(s) \in {3, 4} PROVE s # <<>>
    <3>1. Len(<<>>) = 0
      BY EmptySeq
    <3>2. 0 \notin {3, 4}
      OBVIOUS
    <3>. QED BY <2>4, <3>1, <3>2, Zenon
  <2>. QED BY <2>2, <2>3, <2>4
<1>. QED BY <1>1, <1>2, <1>3 DEF ElementPlans, PagePlans

\* The call moves on and touches nothing else.
LEMMA VerbMoves ==
  ASSUME BrowserInv, UNCHANGED <<chrome, pages, session, seen, stray, unarmed>>, verb' \in VerbRecord, VerbInv',
         verb'.fresh = verb.fresh, verb.shot => verb'.shot, verb.stage = "capture" => verb'.stage = "capture"
  PROVE  BrowserInv'
<1>. USE DEF seen
<1>1. BrowserShapes'
  BY DEF BrowserInv, BrowserShapes
<1>2. Open' => WholeSession(session)'
  BY DEF BrowserInv, Open, WholeSession
<1>3. RefsAsShown' /\ PinnedInv' /\ TasksInv'
  BY DEF BrowserInv, RefsAsShown, PinnedInv, TasksInv
<1>. QED BY <1>1, <1>2, <1>3 DEF BrowserInv

\* A call other than a launch begins.
LEMMA VerbBegins ==
  ASSUME BrowserInv, Free, Open, UNCHANGED <<chrome, pages, session, seen, stray, unarmed>>,
         verb' \in VerbRecord, verb'.fresh = NoTabs, verb'.op # "launch", verb'.stage \in {"do", "snap", "pin"},
         verb'.stage = "do" => verb'.plan # <<>>, verb'.shot => verb'.op = "act",
         verb'.op = "act" => verb'.stage = "do"
  PROVE  BrowserInv'
<1>1. VerbInv'
  BY DEF VerbInv, Open
<1>2. verb.fresh = NoTabs /\ ~verb.shot /\ verb.stage = "idle"
  BY StartRecords DEF Free
<1>. QED BY <1>1, <1>2, VerbMoves

LEMMA BeginsPreserve ==
  ASSUME BrowserInv,
         \/ \E plan \in ElementPlans \cup PagePlans, shot \in BOOLEAN : Act(plan, shot)
         \/ Navigate \/ WaitFor \/ TakeSnapshot \/ Screenshot
  PROVE  BrowserInv'
<1>0. <<"goto">> \in Seq(Commands) /\ <<"poll">> \in Seq(Commands) /\ <<"goto">> # <<>> /\ <<"poll">> # <<>>
  BY DEF Commands
<1>1. ASSUME NEW plan \in ElementPlans \cup PagePlans, NEW shot \in BOOLEAN, Act(plan, shot) PROVE BrowserInv'
  <2>1. plan \in Seq(Commands) /\ plan # <<>>
    BY PlansAreCommands
  <2>2. /\ verb' \in VerbRecord /\ verb'.fresh = NoTabs /\ verb'.op = "act" /\ verb'.stage = "do"
        /\ verb'.plan = plan /\ verb'.shot = shot
    BY <1>1, <2>1, StartRecords DEF Act, VerbRecord
  <2>. QED BY <1>1, <2>1, <2>2, VerbBegins DEF Act
<1>2. ASSUME NEW op \in {"navigate", "wait"}, NEW plan \in Seq(Commands), plan # <<>>, Free, Open,
             verb' = [NoVerb EXCEPT !.op = op, !.stage = "do", !.plan = plan],
             UNCHANGED <<chrome, pages, session, seen, stray, unarmed>>
      PROVE  BrowserInv'
  <2>1. /\ verb' \in VerbRecord /\ verb'.fresh = NoTabs /\ verb'.op = op /\ verb'.stage = "do"
        /\ verb'.plan = plan /\ ~verb'.shot
    BY <1>2, StartRecords DEF VerbRecord
  <2>. QED BY <1>2, <2>1, VerbBegins
<1>3. ASSUME NEW op \in {"snapshot", "shot"}, NEW stage \in {"snap", "pin"}, Free, Open,
             verb' = [NoVerb EXCEPT !.op = op, !.stage = stage],
             UNCHANGED <<chrome, pages, session, seen, stray, unarmed>>
      PROVE  BrowserInv'
  <2>1. verb' \in VerbRecord /\ verb'.fresh = NoTabs /\ verb'.op = op /\ verb'.stage = stage /\ ~verb'.shot
    BY <1>3, StartRecords DEF VerbRecord
  <2>. QED BY <1>3, <2>1, VerbBegins
<1>4. ASSUME Navigate PROVE BrowserInv'
  BY <1>0, <1>2, <1>4 DEF Navigate
<1>5. ASSUME WaitFor PROVE BrowserInv'
  BY <1>0, <1>2, <1>5 DEF WaitFor
<1>6. ASSUME TakeSnapshot \/ Screenshot PROVE BrowserInv'
  BY <1>3, <1>6 DEF TakeSnapshot, Screenshot
<1>. QED BY <1>1, <1>4, <1>5, <1>6

LEMMA LaunchFailsPreserves == ASSUME BrowserInv, LaunchFails PROVE BrowserInv'
<1>1. /\ UNCHANGED <<chrome, pages, session, seen, stray, unarmed>> /\ verb.stage = "starting" /\ verb' = NoVerb
      /\ verb.fresh = NoTabs /\ ~verb.shot
  BY DEF LaunchFails, BrowserInv, VerbInv
<1>2. VerbInv'
  BY <1>1, StartRecords DEF VerbInv
<1>. QED BY <1>1, <1>2, StartRecords, VerbMoves

LEMMA CommandPreserves == ASSUME BrowserInv, Command PROVE BrowserInv'
<1>1. /\ UNCHANGED <<chrome, pages, session, seen, stray, unarmed>> /\ verb.stage = "do" /\ verb \in VerbRecord
      /\ verb.plan # <<>> /\ VerbInv
  BY DEF Command, BrowserInv, BrowserShapes, VerbInv
<1>2. verb.plan \in Seq(Commands)
  BY <1>1 DEF VerbRecord
<1>3. PICK w \in Seq(Commands) : w = Tail(verb.plan) /\ Len(w) = Len(verb.plan) - 1
  BY <1>1, <1>2, TailElements
<1>4. PICK st \in {"snap", "do"} : st = IF Len(verb.plan) = 1 THEN "snap" ELSE "do"
  OBVIOUS
<1>5. verb' = [verb EXCEPT !.plan = w, !.stage = st]
  BY <1>3, <1>4 DEF Command
<1>6. /\ verb' \in VerbRecord /\ verb'.op = verb.op /\ verb'.stage = st /\ verb'.plan = w
      /\ verb'.shot = verb.shot /\ verb'.fresh = verb.fresh
  BY <1>1, <1>5 DEF VerbRecord
<1>7. st = "do" => w # <<>>
  <2>1. Len(verb.plan) \in Nat \ {0}
    BY <1>1, <1>2, EmptySeq
  <2>2. w = <<>> => Len(w) = 0
    BY EmptySeq
  <2>3. Len(w) = 0 => st = "snap"
    BY <1>3, <1>4, <2>1
  <2>. QED BY <2>2, <2>3
<1>8. VerbInv'
  <2>1. WholeSession(verb.fresh) => WholeSession(verb.fresh)'
    <3>1. PICK s : s = verb.fresh
      OBVIOUS
    <3>2. verb'.fresh = s
      BY <1>6, <3>1
    <3>3. WholeSession(s) => WholeSession(s)'
      BY <1>1 DEF WholeSession
    <3>. QED BY <3>1, <3>2, <3>3
  <2>. QED BY <1>1, <1>6, <1>7, <2>1 DEF VerbInv, Open
<1>. QED BY <1>1, <1>6, <1>8, VerbMoves

LEMMA ClosedProperties ==
  ASSUME chrome \in Seq(ChromeRecord), NEW b
  PROVE  /\ Closed(b) \in Seq(ChromeRecord) /\ DOMAIN Closed(b) = DOMAIN chrome
         /\ \A k \in DOMAIN chrome :
              /\ Closed(b)[k].alive => chrome[k].alive
              /\ Closed(b)[k].task = "running" => chrome[k].task = "running" /\ k # b
<1>1. DOMAIN chrome = 1 .. Len(chrome) /\ Len(chrome) \in Nat /\ \A k \in DOMAIN chrome : chrome[k] \in ChromeRecord
  OBVIOUS
<1>2. [alive |-> FALSE, task |-> "killed"] \in ChromeRecord
  BY DEF ChromeRecord
<1>3. Closed(b) \in [1 .. Len(chrome) -> ChromeRecord]
  BY <1>1, <1>2 DEF Closed
<1>4. Closed(b) \in Seq(ChromeRecord)
  BY <1>1, <1>3
<1>. QED BY <1>1, <1>4 DEF Closed

\* The session is closed, and a launch may take its place.
LEMMA SessionCloses ==
  ASSUME BrowserInv, chrome' = Closed(session.of), session' = NoTabs, verb.fresh = NoTabs, verb.stage = "idle",
         UNCHANGED <<pages, seen, stray, unarmed>>, verb' \in VerbRecord, VerbInv', verb'.fresh = NoTabs
  PROVE  BrowserInv'
<1>1. /\ chrome' \in Seq(ChromeRecord) /\ DOMAIN chrome' = DOMAIN chrome
      /\ \A k \in DOMAIN chrome : /\ chrome'[k].alive => chrome[k].alive
                                  /\ chrome'[k].task = "running" => chrome[k].task = "running" /\ k # session.of
  BY ClosedProperties DEF BrowserInv, BrowserShapes
<1>2. BrowserShapes'
  BY <1>1, StartRecords DEF BrowserInv, BrowserShapes, seen
<1>3. ~Open' /\ RefsAsShown'
  BY StartRecords DEF Open, RefsAsShown
<1>4. PinnedInv'
  BY <1>1 DEF BrowserInv, BrowserShapes, PinnedInv
<1>5. TasksInv'
  BY <1>1 DEF BrowserInv, TasksInv
<1>. QED BY <1>2, <1>3, <1>4, <1>5 DEF BrowserInv

LEMMA ClosesPreserve ==
  ASSUME BrowserInv, CloseBrowser \/ (\E t \in TabNames : TabCloseLast(t)) \/ (\E url \in BOOLEAN : BrowserLaunch(url))
  PROVE  BrowserInv'
<1>1. CASE CloseBrowser \/ \E t \in TabNames : TabCloseLast(t)
  <2>1. /\ chrome' = Closed(session.of) /\ session' = NoTabs /\ verb = NoVerb /\ verb' = NoVerb
        /\ UNCHANGED <<pages, seen, stray, unarmed>>
    BY <1>1 DEF CloseBrowser, TabCloseLast, Free
  <2>2. VerbInv'
    BY <2>1, StartRecords DEF VerbInv
  <2>. QED BY <2>1, <2>2, StartRecords, SessionCloses
<1>2. CASE \E url \in BOOLEAN : BrowserLaunch(url)
  <2>1. /\ chrome' = Closed(session.of) /\ session' = NoTabs /\ verb = NoVerb
        /\ UNCHANGED <<pages, seen, stray, unarmed>>
    BY <1>2 DEF BrowserLaunch, Free
  <2>2. PICK plan \in Seq(Commands) : verb' = [NoVerb EXCEPT !.op = "launch", !.stage = "starting", !.plan = plan]
    <3>1. <<"goto">> \in Seq(Commands) /\ <<>> \in Seq(Commands)
      BY DEF Commands
    <3>. QED BY <1>2, <3>1 DEF BrowserLaunch
  <2>3. /\ verb' \in VerbRecord /\ verb'.op = "launch" /\ verb'.stage = "starting" /\ verb'.fresh = NoTabs /\ ~verb'.shot
    BY <2>2, StartRecords DEF VerbRecord
  <2>4. VerbInv'
    BY <2>1, <2>3 DEF VerbInv
  <2>. QED BY <2>1, <2>3, <2>4, StartRecords, SessionCloses
<1>. QED BY <1>1, <1>2

LEMMA TabMapParts ==
  ASSUME NEW f \in TabMaps
  PROVE  DOMAIN f \subseteq TabNames /\ \A t \in DOMAIN f : f[t] \in Nat
BY DEF TabMaps

LEMMA TabMapOf ==
  ASSUME NEW D \in SUBSET TabNames, NEW f \in [D -> Nat]
  PROVE  f \in TabMaps /\ DOMAIN f = D
BY DEF TabMaps

LEMMA BrowserParts ==
  ASSUME BrowserInv
  PROVE  /\ session.of \in Nat /\ session.tabs \in TabMaps /\ session.active \in TabNames /\ session.page \in Nat
         /\ session.refs \in RefRecord /\ session.armed \in BOOLEAN /\ session \in SessionRecord
         /\ chrome \in Seq(ChromeRecord) /\ pages \in Seq(PageRecord) /\ unarmed \subseteq DOMAIN pages
         /\ DOMAIN pages = 1 .. Len(pages) /\ Len(pages) \in Nat
         /\ verb \in VerbRecord /\ verb.fresh \in SessionRecord
<1>1. session \in SessionRecord /\ verb \in VerbRecord /\ chrome \in Seq(ChromeRecord) /\ pages \in Seq(PageRecord)
      /\ unarmed \subseteq DOMAIN pages
  BY DEF BrowserInv, BrowserShapes
<1>2. DOMAIN pages = 1 .. Len(pages) /\ Len(pages) \in Nat
  BY <1>1
<1>3. /\ session.of \in Nat /\ session.tabs \in TabMaps /\ session.active \in TabNames /\ session.page \in Nat
      /\ session.refs \in RefRecord /\ session.armed \in BOOLEAN
  BY <1>1 DEF SessionRecord
<1>4. verb.fresh \in SessionRecord
  BY <1>1 DEF VerbRecord
<1>. QED BY <1>1, <1>2, <1>3, <1>4

\* Between calls the session's tabs change, and pages are opened or listened to.
LEMMA SessionMoves ==
  ASSUME BrowserInv, Free, Open, UNCHANGED <<chrome, verb, seen, stray>>, session' \in SessionRecord,
         session'.of = session.of, WholeSession(session)', RefsAsShown', pages' \in Seq(PageRecord),
         DOMAIN pages \subseteq DOMAIN pages', unarmed' \subseteq DOMAIN pages',
         \A p \in DOMAIN pages' :
           \/ p \in DOMAIN pages /\ pages'[p].of = pages[p].of /\ pages'[p].pinned = pages[p].pinned
           \/ pages'[p].of = session.of /\ pages'[p].pinned = "no"
  PROVE  BrowserInv'
<1>1. verb = NoVerb /\ verb.stage = "idle" /\ session.of \in DOMAIN chrome
  BY StartRecords DEF Free, BrowserInv, WholeSession
<1>2. BrowserShapes'
  BY <1>1 DEF BrowserInv, BrowserShapes, seen
<1>3. VerbInv'
  BY <1>1, StartRecords DEF VerbInv
<1>4. PinnedInv'
  BY <1>1 DEF BrowserInv, PinnedInv
<1>5. TasksInv'
  BY DEF BrowserInv, TasksInv
<1>. QED BY <1>2, <1>3, <1>4, <1>5 DEF BrowserInv

LEMMA TabSelectPreserves == ASSUME BrowserInv, NEW t \in TabNames, TabSelect(t) PROVE BrowserInv'
<1>1. /\ Free /\ Open /\ t \in DOMAIN session.tabs /\ UNCHANGED <<chrome, pages, verb, seen, stray, unarmed>>
      /\ WholeSession(session)
  BY DEF TabSelect, BrowserInv
<1>2. NoRefs \in RefRecord
  BY DEF NoRefs, RefRecord
<1>3. PICK p \in Nat : p = session.tabs[t]
  BY <1>1, BrowserParts, TabMapParts
<1>4. session' = [session EXCEPT !.active = t, !.page = p, !.refs = NoRefs]
  BY <1>3 DEF TabSelect
<1>5. /\ session' \in SessionRecord /\ session'.of = session.of /\ session'.tabs = session.tabs
      /\ session'.active = t /\ session'.page = p /\ session'.refs = NoRefs /\ session'.armed = session.armed
  BY <1>2, <1>4, BrowserParts DEF SessionRecord
<1>6. WholeSession(session)' /\ RefsAsShown'
  BY <1>1, <1>3, <1>5 DEF WholeSession, RefsAsShown
<1>. QED BY <1>1, <1>5, <1>6, BrowserParts, SessionMoves

LEMMA TabClosePreserves == ASSUME BrowserInv, NEW t \in TabNames, TabClose(t) PROVE BrowserInv'
<1>1. /\ Free /\ Open /\ t \in DOMAIN session.tabs /\ UNCHANGED <<chrome, pages, verb, seen, stray, unarmed>>
      /\ WholeSession(session) /\ RefsAsShown
  BY DEF TabClose, BrowserInv
<1>2. NoRefs \in RefRecord
  BY DEF NoRefs, RefRecord
<1>3. PICK W \in TabMaps : /\ W = OtherTabs(t) /\ DOMAIN W = DOMAIN session.tabs \ {t}
                           /\ \A u \in DOMAIN W : W[u] = session.tabs[u] /\ u \in TabNames /\ W[u] \in Nat
  <2>1. DOMAIN session.tabs \subseteq TabNames /\ \A u \in DOMAIN session.tabs : session.tabs[u] \in Nat
    BY BrowserParts, TabMapParts
  <2>2. OtherTabs(t) \in [DOMAIN session.tabs \ {t} -> Nat] /\ DOMAIN session.tabs \ {t} \in SUBSET TabNames
    BY <2>1 DEF OtherTabs
  <2>3. OtherTabs(t) \in TabMaps /\ DOMAIN OtherTabs(t) = DOMAIN session.tabs \ {t}
    BY <2>2, TabMapOf
  <2>. QED BY <2>1, <2>3 DEF OtherTabs
<1>4. CASE session.active = t
  <2>1. PICK u \in DOMAIN session.tabs \ {t} :
          session' = [session EXCEPT !.tabs = OtherTabs(t), !.active = u, !.page = session.tabs[u], !.refs = NoRefs]
    BY <1>4 DEF TabClose
  <2>2. PICK p \in Nat : p = session.tabs[u]
    BY <1>3
  <2>3. u \in TabNames /\ u \in DOMAIN W
    BY <1>3
  <2>4. session' = [session EXCEPT !.tabs = W, !.active = u, !.page = p, !.refs = NoRefs]
    BY <1>3, <2>1, <2>2
  <2>5. /\ session' \in SessionRecord /\ session'.of = session.of /\ session'.tabs = W
        /\ session'.active = u /\ session'.page = p /\ session'.refs = NoRefs /\ session'.armed = session.armed
    BY <1>2, <2>3, <2>4, BrowserParts DEF SessionRecord
  <2>6. WholeSession(session)' /\ RefsAsShown'
    BY <1>1, <1>3, <2>2, <2>3, <2>5 DEF WholeSession, RefsAsShown
  <2>. QED BY <1>1, <2>5, <2>6, BrowserParts, SessionMoves
<1>5. CASE session.active # t
  <2>1. session' = [session EXCEPT !.tabs = W]
    BY <1>3, <1>5 DEF TabClose
  <2>2. /\ session' \in SessionRecord /\ session'.of = session.of /\ session'.tabs = W
        /\ session'.active = session.active /\ session'.page = session.page /\ session'.refs = session.refs
        /\ session'.armed = session.armed
    BY <2>1, BrowserParts DEF SessionRecord
  <2>3. WholeSession(session)'
    BY <1>1, <1>3, <1>5, <2>2 DEF WholeSession
  <2>4. RefsAsShown'
    BY <1>1, <2>2 DEF RefsAsShown, seen
  <2>. QED BY <1>1, <2>2, <2>3, <2>4, BrowserParts, SessionMoves
<1>. QED BY <1>4, <1>5

LEMMA TabOpenPreserves == ASSUME BrowserInv, NEW t \in TabNames, TabOpen(t) PROVE BrowserInv'
<1>. DEFINE p == Len(pages) + 1
<1>1. /\ Free /\ Open /\ UNCHANGED <<chrome, verb, seen, stray>> /\ WholeSession(session)
  BY DEF TabOpen, BrowserInv
<1>2. NoRefs \in RefRecord /\ p \in Nat
  BY BrowserParts DEF NoRefs, RefRecord
<1>3. PICK T \in TabMaps :
        /\ T = [u \in DOMAIN session.tabs \cup {t} |-> IF u = t THEN p ELSE session.tabs[u]]
        /\ DOMAIN T = DOMAIN session.tabs \cup {t} /\ T[t] = p
        /\ \A u \in DOMAIN session.tabs : u # t => T[u] = session.tabs[u]
  <2>. DEFINE F == [u \in DOMAIN session.tabs \cup {t} |-> IF u = t THEN p ELSE session.tabs[u]]
  <2>1. DOMAIN session.tabs \subseteq TabNames /\ \A u \in DOMAIN session.tabs : session.tabs[u] \in Nat
    BY BrowserParts, TabMapParts
  <2>2. F \in [DOMAIN session.tabs \cup {t} -> Nat] /\ DOMAIN session.tabs \cup {t} \in SUBSET TabNames
    BY <1>2, <2>1
  <2>3. F \in TabMaps /\ DOMAIN F = DOMAIN session.tabs \cup {t}
    BY <2>2, TabMapOf
  <2>. QED BY <2>3
<1>4. session' = [session EXCEPT !.tabs = T, !.active = t, !.page = p, !.refs = NoRefs]
  BY <1>3 DEF TabOpen
<1>5. /\ session' \in SessionRecord /\ session'.of = session.of /\ session'.tabs = T
      /\ session'.active = t /\ session'.page = p /\ session'.refs = NoRefs /\ session'.armed = session.armed
  BY <1>2, <1>4, BrowserParts DEF SessionRecord
<1>6. PICK q \in PageRecord :
        /\ pages' = Append(pages, q) /\ q.of = session.of /\ q.pinned = "no"
        /\ \/ q.listens = (IF session.armed THEN 1 ELSE 0) /\ unarmed' = unarmed
           \/ session.armed /\ q.listens = 0 /\ unarmed' = unarmed \cup {p}
  <2>1. PICK n \in Nat : n = IF session.armed THEN 1 ELSE 0
    OBVIOUS
  <2>2. PICK b \in Nat : b = session.of
    BY BrowserParts
  <2>3. NewPage(b) \in PageRecord /\ NewPage(b).of = b /\ NewPage(b).listens = 0 /\ NewPage(b).pinned = "no"
    BY DEF NewPage, PageRecord
  <2>4. PICK x : x = [NewPage(b) EXCEPT !.listens = n]
    OBVIOUS
  <2>5. x \in PageRecord /\ x.of = b /\ x.listens = n /\ x.pinned = "no"
    BY <2>3, <2>4 DEF PageRecord
  <2>6. CASE pages' = Append(pages, x) /\ UNCHANGED unarmed
    BY <2>1, <2>2, <2>5, <2>6
  <2>7. CASE session.armed /\ unarmed' = unarmed \cup {p} /\ pages' = Append(pages, NewPage(b))
    BY <2>2, <2>3, <2>7
  <2>. QED BY <2>1, <2>2, <2>4, <2>6, <2>7 DEF TabOpen
<1>7. /\ pages' \in Seq(PageRecord) /\ Len(pages') = Len(pages) + 1 /\ DOMAIN pages' = DOMAIN pages \cup {p}
      /\ pages'[p] = q /\ \A j \in DOMAIN pages : j # p /\ pages'[j] = pages[j]
  BY <1>6, BrowserParts, AppendElements
<1>8. p \notin unarmed /\ p \notin DOMAIN pages /\ unarmed' \subseteq DOMAIN pages'
  BY <1>6, <1>7, BrowserParts
<1>. HIDE DEF p
<1>9. RefsAsShown'
  BY <1>5 DEF RefsAsShown
<1>10. WholeSession(session)'
  <2>1. /\ session'.of \in DOMAIN chrome' /\ session'.active \in DOMAIN session'.tabs
        /\ session'.page = session'.tabs[session'.active]
    BY <1>1, <1>3, <1>5 DEF WholeSession
  <2>2. ASSUME NEW u \in DOMAIN session'.tabs
        PROVE  /\ session'.tabs[u] \in DOMAIN pages' /\ pages'[session'.tabs[u]].of = session'.of
               /\ pages'[session'.tabs[u]].listens = IF session'.armed /\ session'.tabs[u] \notin unarmed' THEN 1 ELSE 0
               /\ ~session'.armed => session'.tabs[u] \notin unarmed'
    <3>1. CASE u = t
      <4>1. session'.tabs[u] = p
        BY <1>3, <1>5, <3>1
      <4>. QED BY <1>5, <1>6, <1>7, <1>8, <4>1
    <3>2. CASE u # t
      <4>1. /\ u \in DOMAIN session.tabs /\ session'.tabs[u] = session.tabs[u]
        BY <1>3, <1>5, <2>2, <3>2
      <4>2. /\ session.tabs[u] \in DOMAIN pages /\ pages[session.tabs[u]].of = session.of
            /\ pages[session.tabs[u]].listens = IF session.armed /\ session.tabs[u] \notin unarmed THEN 1 ELSE 0
            /\ ~session.armed => session.tabs[u] \notin unarmed
        BY <1>1, <4>1 DEF WholeSession
      <4>3. session.tabs[u] \in unarmed' <=> session.tabs[u] \in unarmed
        BY <1>6, <1>8, <4>2
      <4>. QED BY <1>5, <1>7, <4>1, <4>2, <4>3
    <3>. QED BY <3>1, <3>2
  <2>. QED BY <2>1, <2>2 DEF WholeSession
<1>11. \A j \in DOMAIN pages' :
           \/ j \in DOMAIN pages /\ pages'[j].of = pages[j].of /\ pages'[j].pinned = pages[j].pinned
           \/ pages'[j].of = session.of /\ pages'[j].pinned = "no"
  BY <1>6, <1>7
<1>. QED BY <1>1, <1>5, <1>7, <1>8, <1>9, <1>10, <1>11, SessionMoves

LEMMA MockSetPreserves == ASSUME BrowserInv, MockSet PROVE BrowserInv'
<1>1. /\ Free /\ Open /\ ~session.armed /\ UNCHANGED <<chrome, verb, seen, stray>> /\ WholeSession(session) /\ RefsAsShown
  BY DEF MockSet, BrowserInv
<1>10. PICK ok \in SUBSET TabPagesOf(session), heard \in SUBSET TabPagesOf(session) :
        /\ heard \subseteq ok
        /\ session' = [session EXCEPT !.armed = ok # {}]
        /\ pages' = Arming(heard)
        /\ unarmed' = IF ok = {} THEN unarmed ELSE unarmed \cup (TabPagesOf(session) \ heard)
  BY DEF MockSet
<1>11. PICK some \in BOOLEAN : some = (ok # {})
  OBVIOUS
<1>3. /\ session' \in SessionRecord /\ session'.of = session.of /\ session'.tabs = session.tabs
      /\ session'.active = session.active /\ session'.page = session.page /\ session'.refs = session.refs
      /\ session'.armed = some
  <2>1. session' = [session EXCEPT !.armed = some]
    BY <1>10, <1>11
  <2>. QED BY <2>1, BrowserParts DEF SessionRecord
<1>4. ASSUME NEW p \in DOMAIN pages
      PROVE  /\ pages'[p] \in PageRecord /\ pages'[p].of = pages[p].of /\ pages'[p].pinned = pages[p].pinned
             /\ pages'[p].listens = IF p \in heard THEN pages[p].listens + 1 ELSE pages[p].listens
  <2>1. pages[p] \in PageRecord /\ pages[p].listens \in Nat
    <3>1. pages[p] \in PageRecord
      BY BrowserParts
    <3>. QED BY <3>1 DEF PageRecord
  <2>2. PICK n \in Nat : n = IF p \in heard THEN pages[p].listens + 1 ELSE pages[p].listens
    BY <2>1
  <2>3. pages'[p] = [pages[p] EXCEPT !.listens = n]
    BY <1>10, <2>1, <2>2 DEF Arming, PageRecord
  <2>. QED BY <2>1, <2>2, <2>3 DEF PageRecord
<1>5. DOMAIN pages' = DOMAIN pages /\ pages' \in Seq(PageRecord)
  <2>1. DOMAIN pages' = DOMAIN pages
    BY <1>10 DEF Arming
  <2>2. DOMAIN pages = 1 .. Len(pages) /\ Len(pages) \in Nat
    BY BrowserParts
  <2>4. pages' = [p \in DOMAIN pages |-> pages'[p]]
    BY <1>10 DEF Arming
  <2>3. pages' \in [1 .. Len(pages) -> PageRecord]
    BY <1>4, <2>2, <2>4
  <2>. QED BY <2>1, <2>2, <2>3
<1>6. TabPagesOf(session) \subseteq DOMAIN pages
  BY <1>1 DEF TabPagesOf, WholeSession
<1>7. unarmed' \subseteq DOMAIN pages'
  BY <1>5, <1>6, <1>10, BrowserParts
<1>8. WholeSession(session)'
  <2>1. ASSUME NEW t \in DOMAIN session.tabs
        PROVE  /\ session.tabs[t] \in DOMAIN pages /\ pages'[session.tabs[t]].of = session.of
               /\ pages'[session.tabs[t]].listens = IF some /\ session.tabs[t] \notin unarmed' THEN 1 ELSE 0
               /\ ~some => session.tabs[t] \notin unarmed'
    <3>1. /\ session.tabs[t] \in DOMAIN pages /\ pages[session.tabs[t]].of = session.of
          /\ pages[session.tabs[t]].listens = 0 /\ session.tabs[t] \notin unarmed
      BY <1>1 DEF WholeSession
    <3>2. /\ some => (session.tabs[t] \in unarmed' <=> session.tabs[t] \notin heard)
          /\ ~some => session.tabs[t] \notin unarmed' /\ session.tabs[t] \notin heard
      BY <1>10, <1>11, <3>1 DEF TabPagesOf
    <3>3. pages'[session.tabs[t]].listens = IF session.tabs[t] \in heard THEN 1 ELSE 0
      BY <1>4, <3>1
    <3>. QED BY <1>4, <3>1, <3>2, <3>3
  <2>. QED BY <1>1, <1>3, <1>5, <2>1 DEF WholeSession
<1>9. RefsAsShown'
  BY <1>1, <1>3 DEF RefsAsShown, seen
<1>. QED BY <1>1, <1>3, <1>4, <1>5, <1>7, <1>8, <1>9, SessionMoves

LEMMA LaunchReadyPreserves == ASSUME BrowserInv, LaunchReady PROVE BrowserInv'
<1>. DEFINE b == Len(chrome) + 1
            p == Len(pages) + 1
<1>0. /\ verb.stage = "starting" /\ verb.op = "launch" /\ verb.fresh = NoTabs /\ ~verb.shot /\ session = NoTabs
      /\ UNCHANGED <<seen, stray, unarmed>> /\ verb \in VerbRecord /\ TasksInv /\ PinnedInv /\ RefsAsShown
      /\ BrowserShapes
  BY DEF LaunchReady, BrowserInv, VerbInv, BrowserShapes
<1>1. PICK c \in ChromeRecord : c = [alive |-> TRUE, task |-> "running"]
  BY DEF ChromeRecord
<1>2. Len(chrome) \in Nat /\ DOMAIN chrome = 1 .. Len(chrome) /\ chrome \in Seq(ChromeRecord) /\ b \in Nat /\ p \in Nat
  <2>1. chrome \in Seq(ChromeRecord) /\ Len(pages) \in Nat
    BY BrowserParts
  <2>. QED BY <2>1
<1>3. /\ chrome' \in Seq(ChromeRecord) /\ Len(chrome') = Len(chrome) + 1 /\ DOMAIN chrome' = DOMAIN chrome \cup {b}
      /\ chrome'[b] = c /\ \A j \in DOMAIN chrome : j # b /\ chrome'[j] = chrome[j]
  <2>1. chrome' = Append(chrome, c)
    BY <1>1 DEF LaunchReady
  <2>. QED BY <1>2, <2>1, AppendElements
<1>4. PICK q \in PageRecord : q = NewPage(b) /\ q.of = b /\ q.listens = 0 /\ q.pinned = "no"
  <2>1. PICK i \in Nat : i = b
    BY <1>2
  <2>2. NewPage(i) \in PageRecord /\ NewPage(i).of = i /\ NewPage(i).listens = 0 /\ NewPage(i).pinned = "no"
    BY DEF NewPage, PageRecord
  <2>. QED BY <2>1, <2>2
<1>5. /\ pages' \in Seq(PageRecord) /\ Len(pages') = Len(pages) + 1 /\ DOMAIN pages' = DOMAIN pages \cup {p}
      /\ pages'[p] = q /\ \A j \in DOMAIN pages : j # p /\ pages'[j] = pages[j]
  <2>1. pages' = Append(pages, q)
    BY <1>4 DEF LaunchReady
  <2>. QED BY <2>1, BrowserParts, AppendElements
<1>6. PICK T \in TabMaps : T = [t \in {MainTab} |-> p] /\ DOMAIN T = {MainTab} /\ T[MainTab] = p
  <2>1. PICK i \in Nat : i = p
    BY <1>2
  <2>2. MainTab \in TabNames
    OBVIOUS
  <2>3. [t \in {MainTab} |-> i] \in [{MainTab} -> Nat] /\ {MainTab} \in SUBSET TabNames
    BY <2>2
  <2>4. [t \in {MainTab} |-> i] \in TabMaps
    BY <2>3, TabMapOf
  <2>. QED BY <2>1, <2>4
<1>7. PICK fresh : fresh = [NoTabs EXCEPT !.of = b, !.page = p, !.tabs = T]
  OBVIOUS
<1>8. /\ fresh \in SessionRecord /\ fresh.of = b /\ fresh.page = p /\ fresh.tabs = T /\ fresh.active = MainTab
      /\ fresh.refs = NoRefs /\ ~fresh.armed
  <2>1. NoTabs.active = MainTab /\ ~NoTabs.armed /\ NoTabs.refs = NoRefs
    BY DEF NoTabs
  <2>. QED BY <1>2, <1>7, <2>1, StartRecords DEF SessionRecord
<1>9. \/ session' = fresh /\ verb' = NoVerb
      \/ verb.plan # <<>> /\ session' = session /\ verb' = [verb EXCEPT !.stage = "do", !.fresh = fresh]
  BY <1>6, <1>7 DEF LaunchReady
<1>10. p \notin unarmed /\ unarmed' \subseteq DOMAIN pages'
  BY <1>0, <1>5, BrowserParts
<1>. HIDE DEF b, p
<1>11. WholeSession(fresh)'
  BY <1>0, <1>3, <1>4, <1>5, <1>6, <1>8, <1>10 DEF WholeSession
<1>12. \A j \in DOMAIN pages' :
         /\ pages'[j].of \in DOMAIN chrome'
         /\ pages'[j].pinned = "yes" => ~chrome'[pages'[j].of].alive
  BY <1>0, <1>3, <1>4, <1>5 DEF BrowserShapes, PinnedInv
<1>13. \A j \in DOMAIN chrome' : chrome'[j].task = "running" => j = b \/ j \in stray \/ j = 0
  BY <1>0, <1>3, StartRecords DEF TasksInv
<1>14. 0 \notin DOMAIN chrome'
  <2>1. chrome' \in Seq(ChromeRecord)
    BY <1>3
  <2>. QED BY <2>1
<1>15. CASE session' = fresh /\ verb' = NoVerb
  <2>1. BrowserShapes'
    BY <1>0, <1>3, <1>5, <1>8, <1>10, <1>12, <1>15, StartRecords DEF BrowserShapes, seen
  <2>2. VerbInv' /\ RefsAsShown'
    BY <1>8, <1>15, StartRecords DEF VerbInv, RefsAsShown
  <2>3. PinnedInv' /\ TasksInv'
    BY <1>0, <1>8, <1>12, <1>13, <1>14, <1>15 DEF PinnedInv, TasksInv
  <2>4. WholeSession(session)'
    BY <1>11, <1>15 DEF WholeSession
  <2>. QED BY <2>1, <2>2, <2>3, <2>4 DEF BrowserInv
<1>16. CASE verb.plan # <<>> /\ session' = session /\ verb' = [verb EXCEPT !.stage = "do", !.fresh = fresh]
  <2>1. /\ verb' \in VerbRecord /\ verb'.stage = "do" /\ verb'.op = "launch" /\ verb'.plan = verb.plan /\ ~verb'.shot
        /\ verb'.fresh = fresh
    BY <1>0, <1>8, <1>16 DEF VerbRecord
  <2>2. BrowserShapes'
    BY <1>0, <1>3, <1>5, <1>10, <1>12, <1>16, <2>1 DEF BrowserShapes, seen
  <2>4. VerbInv'
    BY <1>0, <1>8, <1>11, <1>16, <2>1 DEF VerbInv, WholeSession
  <2>5. PinnedInv' /\ TasksInv' /\ RefsAsShown' /\ ~Open'
    BY <1>0, <1>8, <1>12, <1>13, <1>14, <1>16, <2>1, StartRecords DEF PinnedInv, TasksInv, RefsAsShown, Open
  <2>. QED BY <2>2, <2>4, <2>5 DEF BrowserInv
<1>. QED BY <1>9, <1>15, <1>16

\* Browsers lose their process, nothing more.
Died(b) == [chrome EXCEPT ![b].alive = FALSE]

LEMMA DiesProperties ==
  ASSUME chrome \in Seq(ChromeRecord), NEW b
  PROVE  /\ Died(b) \in Seq(ChromeRecord) /\ DOMAIN Died(b) = DOMAIN chrome
         /\ \A k \in DOMAIN chrome : (Died(b)[k].alive => chrome[k].alive) /\ Died(b)[k].task = chrome[k].task
         /\ b \in DOMAIN chrome => ~Died(b)[b].alive
<1>0. PICK c : c = Died(b) /\ c = [chrome EXCEPT ![b].alive = FALSE]
  BY DEF Died
<1>1. DOMAIN chrome = 1 .. Len(chrome) /\ Len(chrome) \in Nat /\ \A k \in DOMAIN chrome : chrome[k] \in ChromeRecord
  OBVIOUS
<1>2. ASSUME NEW k \in DOMAIN chrome
      PROVE  /\ c[k] \in ChromeRecord /\ (c[k].alive => chrome[k].alive) /\ c[k].task = chrome[k].task
             /\ k = b => ~c[k].alive
  <2>1. chrome[k] \in ChromeRecord /\ c[k] = IF k = b THEN [chrome[k] EXCEPT !.alive = FALSE] ELSE chrome[k]
    BY <1>0, <1>1
  <2>. QED BY <2>1 DEF ChromeRecord
<1>3. DOMAIN c = DOMAIN chrome
  BY <1>0
<1>4. c \in Seq(ChromeRecord)
  <2>1. c \in [1 .. Len(chrome) -> ChromeRecord]
    BY <1>1, <1>2, <1>3, <1>0
  <2>. QED BY <1>1, <2>1
<1>. QED BY <1>0, <1>2, <1>3, <1>4

LEMMA ChromeDiesPreserves == ASSUME BrowserInv, NEW b \in DOMAIN chrome, ChromeDies(b) PROVE BrowserInv'
<1>1. UNCHANGED <<pages, session, verb, seen, stray, unarmed>> /\ chrome' = [chrome EXCEPT ![b].alive = FALSE]
  BY DEF ChromeDies
<1>2. /\ chrome' \in Seq(ChromeRecord) /\ DOMAIN chrome' = DOMAIN chrome
      /\ \A k \in DOMAIN chrome : (chrome'[k].alive => chrome[k].alive) /\ chrome'[k].task = chrome[k].task
  <2>1. chrome' = Died(b)
    BY <1>1 DEF Died
  <2>. QED BY <2>1, BrowserParts, DiesProperties
<1>3. BrowserShapes'
  BY <1>1, <1>2 DEF BrowserInv, BrowserShapes, seen
<1>4. (Open' => WholeSession(session)') /\ VerbInv'
  BY <1>1, <1>2 DEF BrowserInv, Open, WholeSession, VerbInv, seen
<1>5. RefsAsShown'
  BY <1>1 DEF BrowserInv, RefsAsShown, seen
<1>6. PinnedInv'
  BY <1>1, <1>2 DEF BrowserInv, BrowserShapes, PinnedInv
<1>7. TasksInv'
  BY <1>1, <1>2 DEF BrowserInv, TasksInv
<1>. QED BY <1>3, <1>4, <1>5, <1>6, <1>7 DEF BrowserInv

LEMMA FailsPreserves == ASSUME BrowserInv, Fails PROVE BrowserInv'
<1>1. /\ verb.stage \in {"do", "snap"} /\ verb' = NoVerb /\ errored' = TRUE
      /\ UNCHANGED <<pages, session, taken, shown, unarmed>>
      /\ verb.op = "launch" =>
           chrome' = [chrome EXCEPT ![verb.fresh.of].alive = FALSE] /\ stray' = stray \cup {verb.fresh.of}
      /\ verb.op # "launch" => UNCHANGED <<chrome, stray>> /\ verb.fresh = NoTabs
  BY DEF Fails, BrowserInv, VerbInv
<1>2. /\ chrome' \in Seq(ChromeRecord) /\ DOMAIN chrome' = DOMAIN chrome
      /\ \A k \in DOMAIN chrome : (chrome'[k].alive => chrome[k].alive) /\ chrome'[k].task = chrome[k].task
  <2>1. CASE verb.op = "launch"
    <3>1. chrome \in Seq(ChromeRecord)
      BY BrowserParts
    <3>2. chrome' = Died(verb.fresh.of)
      BY <1>1, <2>1 DEF Died
    <3>. QED BY <3>1, <3>2, DiesProperties
  <2>2. CASE verb.op # "launch"
    BY <1>1, <2>2, BrowserParts
  <2>. QED BY <2>1, <2>2
<1>3. BrowserShapes'
  BY <1>1, <1>2, StartRecords DEF BrowserInv, BrowserShapes
<1>4. Open' => WholeSession(session)'
  BY <1>1, <1>2 DEF BrowserInv, Open, WholeSession
<1>5. VerbInv' /\ RefsAsShown'
  BY <1>1, StartRecords DEF BrowserInv, VerbInv, RefsAsShown
<1>6. PinnedInv'
  BY <1>1, <1>2 DEF BrowserInv, BrowserShapes, PinnedInv
<1>7. TasksInv'
  BY <1>1, <1>2, StartRecords DEF BrowserInv, TasksInv
<1>. QED BY <1>3, <1>4, <1>5, <1>6, <1>7 DEF BrowserInv

LEMMA SnapshotPreserves == ASSUME BrowserInv, Snapshot PROVE BrowserInv'
<1>0. /\ verb.stage = "snap" /\ taken < Snapshots /\ taken' = taken + 1 /\ UNCHANGED <<chrome, pages, stray, unarmed>>
      /\ BrowserShapes /\ VerbInv /\ PinnedInv /\ TasksInv /\ taken \in Nat /\ Snapshots \in Nat
  BY DEF Snapshot, BrowserInv, BrowserShapes
<1>1. PICK s \in SessionRecord : s = Here
  BY BrowserParts DEF Here
<1>2. WholeSession(s) /\ (verb.op = "launch" => s = verb.fresh /\ session = NoTabs /\ ~verb.shot)
      /\ (verb.op # "launch" => s = session /\ verb.fresh = NoTabs /\ Open)
  BY <1>0, <1>1 DEF Here, VerbInv, BrowserInv
<1>3. PICK r \in RefRecord : r = [page |-> s.page, snap |-> taken'] /\ r.page = s.page /\ r.snap = taken + 1
  <2>1. PICK i \in Nat, j \in Nat : i = s.page /\ j = taken + 1
    BY <1>0, <1>1 DEF SessionRecord
  <2>2. [page |-> i, snap |-> j] \in RefRecord
    BY DEF RefRecord
  <2>. QED BY <1>0, <2>1, <2>2
<1>4. session' = [s EXCEPT !.refs = r]
  BY <1>1, <1>3 DEF Snapshot
<1>5. /\ session' \in SessionRecord /\ session'.of = s.of /\ session'.tabs = s.tabs /\ session'.active = s.active
      /\ session'.page = s.page /\ session'.refs = r /\ session'.armed = s.armed
  BY <1>4 DEF SessionRecord
<1>6. WholeSession(session)'
  BY <1>0, <1>2, <1>5 DEF WholeSession
<1>7. Open'
  <2>1. r # NoRefs
    BY <1>0, <1>3 DEF NoRefs
  <2>. QED BY <1>5, <2>1, StartRecords DEF Open
<1>8. taken' \in 0 .. Snapshots
  BY <1>0
<1>9. \A p \in DOMAIN pages : pages[p].pinned = "yes" => ~chrome[pages[p].of].alive
  BY <1>0 DEF PinnedInv
<1>10. \A b \in DOMAIN chrome : chrome[b].task = "running" => b \in {s.of} \cup stray
  <2>1. 0 \notin DOMAIN chrome
    BY BrowserParts
  <2>. QED BY <1>0, <1>2, <2>1, StartRecords DEF TasksInv
<1>11. CASE verb.shot /\ verb' = [verb EXCEPT !.stage = "pin"] /\ UNCHANGED <<shown, errored>>
  <2>1. /\ verb' \in VerbRecord /\ verb'.stage = "pin" /\ verb'.op = verb.op /\ verb'.shot /\ verb'.fresh = verb.fresh
        /\ verb.op = "act"
    BY <1>0, <1>11 DEF BrowserShapes, VerbRecord, VerbInv
  <2>2. shown' \in 0 .. taken'
    <3>1. shown \in 0 .. taken /\ taken \in Nat /\ shown' = shown /\ taken' = taken + 1
      BY <1>0, <1>11 DEF BrowserShapes
    <3>. QED BY <3>1
  <2>3. BrowserShapes'
    BY <1>0, <1>5, <1>8, <1>11, <2>1, <2>2 DEF BrowserShapes
  <2>4. VerbInv'
    BY <1>0, <1>2, <1>3, <1>5, <1>7, <2>1 DEF VerbInv
  <2>5. RefsAsShown'
    BY <1>3, <1>5, <2>1 DEF RefsAsShown
  <2>6. PinnedInv' /\ TasksInv'
    BY <1>0, <1>5, <1>9, <1>10 DEF PinnedInv, TasksInv
  <2>. QED BY <1>6, <2>3, <2>4, <2>5, <2>6 DEF BrowserInv
<1>12. CASE verb' = NoVerb /\ shown' = taken' /\ errored' = FALSE
  <2>6. taken' \in Nat /\ shown' = taken'
    BY <1>0, <1>12
  <2>7. shown' \in 0 .. taken'
    BY <2>6
  <2>5. shown' \in 0 .. taken' /\ errored' \in BOOLEAN /\ verb' \in VerbRecord
    BY <1>12, <2>7, StartRecords
  <2>1. BrowserShapes'
    BY <1>0, <1>5, <1>8, <2>5 DEF BrowserShapes
  <2>2. VerbInv'
    BY <1>12, StartRecords DEF VerbInv
  <2>3. RefsAsShown'
    BY <1>0, <1>3, <1>5, <1>12 DEF RefsAsShown
  <2>4. PinnedInv' /\ TasksInv'
    BY <1>0, <1>5, <1>9, <1>10 DEF PinnedInv, TasksInv
  <2>. QED BY <1>6, <2>1, <2>2, <2>3, <2>4 DEF BrowserInv
<1>. QED BY <1>11, <1>12 DEF Snapshot, Reply

\* The page the verbs act on is pinned or released, or left as it is: the others
\* stay as they were.
LEMMA PageMoves ==
  ASSUME BrowserInv, verb.stage \in {"pin", "capture"}, UNCHANGED <<chrome, session, unarmed>>,
         (\E b \in {"no", "yes", "left"} : PageIs(b)) \/ UNCHANGED pages
  PROVE  /\ pages' \in Seq(PageRecord) /\ DOMAIN pages' = DOMAIN pages
         /\ \A p \in DOMAIN pages :
              /\ pages'[p].of = pages[p].of /\ pages'[p].listens = pages[p].listens
              /\ p # session.page => pages'[p].pinned = pages[p].pinned
              /\ \A b \in {"no", "yes", "left"} : p = session.page /\ PageIs(b) => pages'[p].pinned = b
         /\ Open /\ WholeSession(session)'
<1>1. Open /\ WholeSession(session) /\ session.page \in DOMAIN pages /\ pages[session.page] \in PageRecord
  <2>1. Open
    BY DEF BrowserInv, VerbInv
  <2>2. WholeSession(session) /\ session.page \in DOMAIN pages
    BY <2>1 DEF BrowserInv, WholeSession
  <2>. QED BY <2>1, <2>2, BrowserParts
<1>2. ASSUME NEW b \in {"no", "yes", "left"}, PageIs(b)
      PROVE  /\ pages' \in Seq(PageRecord) /\ DOMAIN pages' = DOMAIN pages
             /\ \A p \in DOMAIN pages :
                  /\ pages'[p].of = pages[p].of /\ pages'[p].listens = pages[p].listens
                  /\ p # session.page => pages'[p].pinned = pages[p].pinned
                  /\ p = session.page => pages'[p].pinned = b
  <2>1. PICK e : e = [pages[session.page] EXCEPT !.pinned = b]
    OBVIOUS
  <2>2. e \in PageRecord /\ e.of = pages[session.page].of /\ e.listens = pages[session.page].listens /\ e.pinned = b
    BY <1>1, <2>1 DEF PageRecord
  <2>3. pages' = [pages EXCEPT ![session.page] = e]
    BY <1>2, <2>1 DEF PageIs
  <2>4. /\ pages' \in Seq(PageRecord) /\ DOMAIN pages' = DOMAIN pages /\ pages'[session.page] = e
        /\ \A j \in DOMAIN pages : j # session.page => pages'[j] = pages[j]
    BY <1>1, <2>2, <2>3, BrowserParts, ReplaceProperties
  <2>. QED BY <1>1, <2>2, <2>4
<1>3. /\ pages' \in Seq(PageRecord) /\ DOMAIN pages' = DOMAIN pages
      /\ \A p \in DOMAIN pages :
           /\ pages'[p].of = pages[p].of /\ pages'[p].listens = pages[p].listens
           /\ p # session.page => pages'[p].pinned = pages[p].pinned
  BY <1>2, BrowserParts
<1>4. \A p \in DOMAIN pages, b \in {"no", "yes", "left"} :
        p = session.page /\ PageIs(b) => pages'[p].pinned = b
  BY <1>2
<1>5. WholeSession(session)'
  BY <1>1, <1>3 DEF WholeSession
<1>. QED BY <1>1, <1>3, <1>4, <1>5

\* A capture goes on, or the call ends with what its caller was given last and its
\* page not pinned any more, unless it was left so.
LEMMA CaptureMoves ==
  ASSUME BrowserInv, verb.stage \in {"pin", "capture"}, UNCHANGED <<chrome, session, taken, stray, unarmed>>,
         (\E b \in {"no", "yes", "left"} : PageIs(b)) \/ UNCHANGED pages,
         verb' = NoVerb =>
           \/ PageIs("no") \/ PageIs("left")
           \/ UNCHANGED pages /\ (verb.stage = "pin" \/ pages[session.page].pinned # "yes"),
         shown' \in 0 .. taken, errored' \in BOOLEAN,
         \/ verb' = NoVerb
         \/ verb' = [verb EXCEPT !.stage = "capture"] /\ UNCHANGED <<shown, errored>>,
         \/ errored' = TRUE /\ UNCHANGED shown
         \/ verb.op = "act" /\ shown' = taken
         \/ (verb.op # "act" \/ verb' # NoVerb) /\ UNCHANGED <<shown, errored>>
  PROVE  BrowserInv'
<1>0. VerbInv /\ BrowserShapes /\ RefsAsShown /\ PinnedInv /\ TasksInv /\ verb \in VerbRecord
  BY DEF BrowserInv, BrowserShapes
<1>1. verb.fresh = NoTabs /\ (verb.shot => verb.op = "act") /\ (verb.op = "act" => session.refs.snap = taken)
  BY <1>0 DEF VerbInv
<1>2. /\ pages' \in Seq(PageRecord) /\ DOMAIN pages' = DOMAIN pages
      /\ \A p \in DOMAIN pages :
           /\ pages'[p].of = pages[p].of /\ pages'[p].listens = pages[p].listens
           /\ p # session.page => pages'[p].pinned = pages[p].pinned
           /\ \A b \in {"no", "yes", "left"} : p = session.page /\ PageIs(b) => pages'[p].pinned = b
      /\ Open /\ WholeSession(session)'
  BY PageMoves
<1>3. CASE verb' = NoVerb
  <2>1. BrowserShapes'
    BY <1>0, <1>2, <1>3, StartRecords DEF BrowserShapes
  <2>2. VerbInv'
    BY <1>3, StartRecords DEF VerbInv
  <2>3. RefsAsShown'
    BY <1>0, <1>1, <1>3 DEF RefsAsShown
  <2>4. TasksInv'
    BY <1>0, <1>1, <1>3, StartRecords DEF TasksInv
  <2>5. PinnedInv'
    <3>1. ASSUME NEW p \in DOMAIN pages, pages'[p].pinned = "yes" PROVE ~chrome[pages[p].of].alive
      <4>1. CASE p # session.page
        BY <1>0, <1>2, <3>1, <4>1 DEF PinnedInv
      <4>2. CASE p = session.page
        <5>1. ~PageIs("no") /\ ~PageIs("left")
          BY <1>2, <3>1, <4>2
        <5>2. pages[p].pinned = "yes" /\ verb.stage = "pin"
          BY <1>3, <3>1, <4>2, <5>1
        <5>. QED BY <1>0, <5>2 DEF PinnedInv
      <4>. QED BY <4>1, <4>2
    <3>. QED BY <1>2, <3>1 DEF PinnedInv
  <2>. QED BY <1>2, <2>1, <2>2, <2>3, <2>4, <2>5 DEF BrowserInv
<1>4. CASE verb' = [verb EXCEPT !.stage = "capture"] /\ UNCHANGED <<shown, errored>>
  <2>0. /\ verb' \in VerbRecord /\ verb'.stage = "capture" /\ verb'.op = verb.op /\ verb'.shot = verb.shot
        /\ verb'.fresh = verb.fresh
    BY <1>0, <1>4 DEF VerbRecord
  <2>1. BrowserShapes'
    BY <1>0, <1>2, <1>4, <2>0 DEF BrowserShapes
  <2>2. VerbInv'
    BY <1>0, <1>1, <1>2, <2>0 DEF VerbInv, Open
  <2>3. RefsAsShown'
    BY <1>0, <1>4, <2>0 DEF RefsAsShown
  <2>4. PinnedInv'
    BY <1>0, <1>2, <2>0 DEF PinnedInv
  <2>5. TasksInv'
    BY <1>0, <2>0 DEF TasksInv
  <2>. QED BY <1>2, <2>1, <2>2, <2>3, <2>4, <2>5 DEF BrowserInv
<1>. QED BY <1>3, <1>4

LEMMA ShownParts ==
  ASSUME BrowserInv
  PROVE  taken \in Nat /\ shown \in 0 .. taken /\ taken \in 0 .. taken /\ errored \in BOOLEAN
<1>1. taken \in 0 .. Snapshots /\ shown \in 0 .. taken /\ errored \in BOOLEAN
  BY DEF BrowserInv, BrowserShapes
<1>2. taken \in Nat
  BY <1>1, BrowserAssumption
<1>. QED BY <1>1, <1>2

LEMMA PinPreserves == ASSUME BrowserInv, Pin PROVE BrowserInv'
<1>1. /\ verb.stage = "pin" /\ UNCHANGED <<chrome, session, taken, shown, stray, unarmed>>
      /\ \/ verb' = NoVerb /\ errored' = TRUE /\ (PageIs("left") \/ UNCHANGED pages)
         \/ verb' = [verb EXCEPT !.stage = "capture"] /\ UNCHANGED errored /\ (PageIs("yes") \/ UNCHANGED pages)
  BY Zenon DEF Pin
<1>2. verb' = [verb EXCEPT !.stage = "capture"] => verb' # NoVerb
  <2>1. verb \in VerbRecord
    BY BrowserParts
  <2>2. verb' = [verb EXCEPT !.stage = "capture"] => verb'.stage = "capture"
    BY <2>1 DEF VerbRecord
  <2>. QED BY <2>2, StartRecords
<1>3. CASE verb' = NoVerb /\ errored' = TRUE /\ (PageIs("left") \/ UNCHANGED pages)
  BY <1>1, <1>3, ShownParts, CaptureMoves
<1>4. CASE verb' = [verb EXCEPT !.stage = "capture"] /\ UNCHANGED errored /\ (PageIs("yes") \/ UNCHANGED pages)
  BY <1>1, <1>2, <1>4, ShownParts, CaptureMoves
<1>. QED BY <1>1, <1>3, <1>4

LEMMA CapturePreserves == ASSUME BrowserInv, Capture PROVE BrowserInv'
<1>1. /\ verb.stage = "capture" /\ UNCHANGED <<chrome, session, taken, stray, unarmed>> /\ verb' = NoVerb
      /\ \/ PageIs("no") \/ PageIs("left")
         \/ UNCHANGED pages /\ pages[session.page].pinned # "yes"
      /\ \/ errored' = TRUE /\ UNCHANGED shown
         \/ verb.op = "act" /\ shown' = taken /\ errored' = FALSE
         \/ verb.op # "act" /\ UNCHANGED <<shown, errored>>
  BY Zenon DEF Capture, Reply
<1>. QED BY <1>1, ShownParts, CaptureMoves

LEMMA BrowserDroppedPreserves == ASSUME BrowserInv, BrowserDropped PROVE BrowserInv'
<1>0. /\ chrome' = [b \in DOMAIN chrome |-> [chrome[b] EXCEPT !.alive = FALSE]]
      /\ stray' = stray \cup ({session.of, verb.fresh.of} \cap DOMAIN chrome)
      /\ session' = NoTabs /\ verb' = NoVerb /\ UNCHANGED <<pages, seen, unarmed>>
  BY DEF BrowserDropped
<1>1. ASSUME NEW b \in DOMAIN chrome
      PROVE  chrome'[b] \in ChromeRecord /\ ~chrome'[b].alive /\ chrome'[b].task = chrome[b].task
  <2>1. chrome[b] \in ChromeRecord /\ chrome'[b] = [chrome[b] EXCEPT !.alive = FALSE]
    BY <1>0, BrowserParts
  <2>. QED BY <2>1 DEF ChromeRecord
<1>2. DOMAIN chrome' = DOMAIN chrome /\ chrome' \in Seq(ChromeRecord)
  <2>1. DOMAIN chrome' = DOMAIN chrome
    BY <1>0
  <2>2. DOMAIN chrome = 1 .. Len(chrome) /\ Len(chrome) \in Nat
    <3>1. chrome \in Seq(ChromeRecord)
      BY BrowserParts
    <3>. QED BY <3>1
  <2>3. chrome' \in [1 .. Len(chrome) -> ChromeRecord]
    BY <1>0, <1>1, <2>2
  <2>. QED BY <2>1, <2>2, <2>3
<1>3. BrowserShapes'
  BY <1>0, <1>2, StartRecords DEF BrowserInv, BrowserShapes, seen
<1>4. ~Open' /\ VerbInv' /\ RefsAsShown'
  BY <1>0, StartRecords DEF Open, VerbInv, RefsAsShown
<1>5. PinnedInv'
  BY <1>0, <1>1 DEF BrowserInv, BrowserShapes, PinnedInv
<1>6. TasksInv'
  BY <1>0, <1>1, <1>2 DEF BrowserInv, TasksInv
<1>. QED BY <1>3, <1>4, <1>5, <1>6 DEF BrowserInv

LEMMA BrowserStep == ASSUME BrowserInv, [BrowserNext]_browserVars PROVE BrowserInv'
<1>1. CASE UNCHANGED browserVars
  <2>1. UNCHANGED <<chrome, pages, session, verb, seen, stray, unarmed>>
    BY <1>1 DEF browserVars, seen
  <2>2. VerbInv' /\ verb' \in VerbRecord
    BY <2>1 DEF BrowserInv, BrowserShapes, VerbInv, WholeSession, Open, seen
  <2>. QED BY <2>1, <2>2, VerbMoves
<1>2. CASE BrowserNext
  BY <1>2, BeginsPreserve, ClosesPreserve, TabOpenPreserves, TabSelectPreserves, TabClosePreserves,
     MockSetPreserves, LaunchFailsPreserves, LaunchReadyPreserves, CommandPreserves, FailsPreserves,
     SnapshotPreserves, PinPreserves, CapturePreserves, BrowserDroppedPreserves, ChromeDiesPreserves
     DEF BrowserNext, BrowserCaller
<1>. QED BY <1>1, <1>2

LEMMA BrowserHolds == MCSpec => []BrowserInv
<1>1. MCInit => BrowserInv
  BY BrowserInitInv DEF MCInit
<1>2. BrowserInv /\ [MCNext]_<<engine, mcpVars, dapVars, lspVars, evalVars, browserVars>> => BrowserInv'
  BY BrowserStep, EngineSteps
<1>. QED BY <1>1, <1>2, PTL DEF MCSpec

\* A ref means the element its caller saw under it: it belongs to the page the
\* verbs act on and to the snapshot given last (browser_ops.rs: snapshot_inner,
\* tab_close, act).
THEOREM RefsStayTrue == MCSpec => []RefsAsShown
BY BrowserHolds, PTL DEF BrowserInv

\* Whatever sequence of launches, tabs, mocks, captures and failures, a session is
\* of one piece: its active page is one of its tabs, each listened to once while it
\* is armed, no capture leaves its page pinned unless a command to pin or restore it
\* failed, and no task runs beside it (browser_ops.rs: tab_close, mock_set,
\* screenshot_inner, close).
THEOREM SessionStaysWhole == MCSpec => []SessionWhole
<1>1. ASSUME BrowserInv PROVE SessionWhole
  <2>1. Open => session.active \in DOMAIN session.tabs /\ session.page = session.tabs[session.active]
    BY <1>1 DEF BrowserInv, WholeSession
  <2>2. \A p \in TabPagesOf(session) : pages[p].listens = IF session.armed /\ p \notin unarmed THEN 1 ELSE 0
    <3>1. CASE Open
      BY <1>1, <3>1 DEF BrowserInv, WholeSession, TabPagesOf
    <3>2. CASE ~Open
      <4>1. TabPagesOf(session) = {}
        BY <3>2, StartRecords DEF Open, TabPagesOf
      <4>. QED BY <4>1
    <3>. QED BY <3>1, <3>2
  <2>. QED BY <1>1, <2>1, <2>2 DEF BrowserInv, PinnedInv, TasksInv, SessionWhole
<1>. QED BY <1>1, BrowserHolds, PTL
=============================================================================
