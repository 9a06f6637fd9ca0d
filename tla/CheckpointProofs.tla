-------------------------- MODULE CheckpointProofs --------------------------
(***************************************************************************)
(* The undo store keeps what it captured, for every set of files and every *)
(* limit.                                                                  *)
(***************************************************************************)
EXTENDS CheckpointStore, FiniteSetTheorems, FunctionTheorems, SequenceTheorems, WellFoundedInduction, TLAPS

USE StoreAssumption
USE DEF store

(***************************************************************************)
(* Types.                                                                  *)
(***************************************************************************)

LEMMA InitTypes == Init => TypeOK
BY DEF Init, TypeOK

LEMMA CaptureTypes ==
  ASSUME TypeOK, NEW p \in Path, NEW g \in Goal, Capture(p, g)
  PROVE  TypeOK'
<1>1. clock' \in Stamp /\ clock' = clock + 1
  BY DEF Capture, Stamp, TypeOK
<1>2. files[p] \in Content
  BY DEF TypeOK
<1>3. cur' \in Entry
  BY <1>1, <1>2 DEF Capture, Entry
<1>4. blobs' \in [Stamp -> Kept \cup {Absent}]
  BY <1>1 DEF Capture, TypeOK
<1>5. clock' \in 0..MaxStamp
  BY <1>1 DEF Stamp
<1>. QED
  BY <1>3, <1>4, <1>5 DEF Capture, TypeOK

LEMMA StepTypes == TypeOK /\ [Next]_vars => TypeOK'
<1>. SUFFICES ASSUME TypeOK, [Next]_vars PROVE TypeOK'
  OBVIOUS
<1>1. ASSUME NEW p \in Path, NEW data \in Content, Mutate(p, data) PROVE TypeOK'
  <2>1. [kind |-> "put", data |-> data] \in Goal
    BY DEF Goal
  <2>. QED
    BY <1>1, <2>1, CaptureTypes DEF Mutate
<1>2. ASSUME NEW p \in Path, NEW data \in Content, OwnerEdits(p, data) PROVE TypeOK'
  BY <1>2 DEF OwnerEdits, TypeOK
<1>3. ASSUME NEW e \in index, Restore(e) PROVE TypeOK'
  <2>1. e \in Entry
    BY DEF TypeOK
  <2>2. e.path \in Path /\ [kind |-> "undo", entry |-> e] \in Goal
    BY <2>1 DEF Entry, Goal
  <2>. QED
    BY <1>3, <2>2, CaptureTypes DEF Restore
<1>4. CASE AppendEntry
  BY <1>4 DEF AppendEntry, TypeOK
<1>5. CASE EvictOldest
  <2>1. PICK v \in kept : blobs' = [blobs EXCEPT ![v.ts] = Absent] /\ kept' = kept \ {v}
    BY <1>5 DEF EvictOldest
  <2>2. blobs' \in [Stamp -> Kept \cup {Absent}]
    BY <2>1 DEF TypeOK
  <2>. QED
    BY <1>5, <2>1, <2>2 DEF EvictOldest, TypeOK
<1>6. CASE WriteIndex
  BY <1>6 DEF WriteIndex, TypeOK
<1>7. CASE ApplyMutation \/ ApplyRestore \/ TornRestore
  <2>1. files' \in [Path -> Content]
    <3>1. CASE ApplyMutation
      <4>1. goal.data \in Content
        BY <3>1 DEF ApplyMutation, Goal, TypeOK
      <4>. QED
        BY <3>1, <4>1 DEF ApplyMutation, TypeOK
    <3>2. CASE ApplyRestore
      <4>1. goal.entry.pre \in Content
        BY <3>2 DEF ApplyRestore, Goal, Entry, TypeOK
      <4>. QED
        BY <3>2, <4>1 DEF ApplyRestore, TypeOK
    <3>3. CASE TornRestore
      BY <3>3 DEF TornRestore, TypeOK
    <3>. QED
      BY <1>7, <3>1, <3>2, <3>3
  <2>. QED
    BY <1>7, <2>1 DEF ApplyMutation, ApplyRestore, TornRestore, Finish, TypeOK
<1>8. CASE Abort
  BY <1>8 DEF Abort, Finish, TypeOK
<1>9. CASE UNCHANGED vars
  BY <1>9 DEF vars, TypeOK
<1>. QED
  BY <1>1, <1>2, <1>3, <1>4, <1>5, <1>6, <1>7, <1>8, <1>9 DEF Next

\* The store's index, blobs and the operation in progress keep their shape.
THEOREM StoreTypes == Spec => []TypeOK
BY InitTypes, StepTypes, PTL DEF Spec

(***************************************************************************)
(* The capture precedes the change.                                        *)
(***************************************************************************)

\* The inductive invariant follows the capture through its steps: stamps are
\* never reused, so an eviction that spares the operation's own entry spares
\* its blob, and the entry is in the list the index is rewritten from.
CaptureHolds ==
  /\ \A e \in index \cup kept : e.ts <= clock
  /\ pc = "blob"  => /\ cur.ts = clock /\ Intact(cur)
                     /\ \A e \in index : e.ts < clock
  /\ pc = "evict" => /\ cur \in kept /\ Intact(cur)
                     /\ \A e \in kept : e.ts = cur.ts => e = cur
  /\ pc = "ready" => cur \in index /\ Intact(cur)

LEMMA InitHolds == Init => CaptureHolds
BY DEF Init, CaptureHolds

LEMMA StepHolds == TypeOK /\ CaptureHolds /\ [Next]_vars => CaptureHolds'
<1>. SUFFICES ASSUME TypeOK, CaptureHolds, [Next]_vars PROVE CaptureHolds'
  OBVIOUS
<1>t. /\ clock \in Nat /\ \A e \in index \cup kept : e.ts \in Nat
      /\ pc # "idle" => cur \in Entry
  BY DEF TypeOK, Entry, Stamp
<1>1. ASSUME NEW p, NEW g, Capture(p, g) PROVE CaptureHolds'
  <2>1. /\ pc' = "blob" /\ clock' = clock + 1 /\ clock + 1 \in Stamp
        /\ UNCHANGED <<index, kept>>
    BY <1>1 DEF Capture, Stamp, TypeOK
  <2>2. cur' = [ts |-> clock + 1, path |-> p, pre |-> files[p]]
    BY <1>1 DEF Capture
  <2>3. Intact(cur)'
    BY <1>1, <2>1, <2>2 DEF Capture, Intact, TypeOK
  <2>. QED
    BY <1>t, <2>1, <2>2, <2>3 DEF CaptureHolds
<1>2. CASE AppendEntry
  BY <1>2, <1>t DEF AppendEntry, CaptureHolds, Intact
<1>3. CASE EvictOldest
  <2>1. PICK v \in kept \ {cur} : blobs' = [blobs EXCEPT ![v.ts] = Absent] /\ kept' = kept \ {v}
    BY <1>3 DEF EvictOldest
  <2>2. pc = "evict" /\ UNCHANGED <<index, clock, pc, cur>>
    BY <1>3 DEF EvictOldest
  <2>3. v.ts # cur.ts
    BY <2>1, <2>2 DEF CaptureHolds
  <2>4. Intact(cur)'
    BY <1>t, <2>1, <2>2, <2>3 DEF CaptureHolds, Intact, Entry, TypeOK
  <2>. QED
    BY <2>1, <2>2, <2>4 DEF CaptureHolds
<1>4. CASE WriteIndex
  BY <1>4 DEF WriteIndex, CaptureHolds, Intact
<1>5. CASE ApplyMutation \/ ApplyRestore \/ TornRestore \/ Abort
  BY <1>5 DEF ApplyMutation, ApplyRestore, TornRestore, Abort, Finish, CaptureHolds
<1>6. CASE UNCHANGED <<store, clock, pc, cur, kept>>
  BY <1>6 DEF CaptureHolds, Intact
<1>. QED
  BY <1>1, <1>2, <1>3, <1>4, <1>5, <1>6
     DEF Next, Mutate, Restore, OwnerEdits, vars

\* Undo has something to go back to: the operation changes the file only when
\* the index durably holds what the capture saw, with its bytes, whatever the
\* eviction removed on the way and however the change itself ends.
THEOREM NoChangeBeforeCapture == Spec => CapturedBeforeChange
<1>1. TypeOK /\ CaptureHolds /\ [Next]_vars => (TypeOK /\ CaptureHolds)'
  BY StepTypes, StepHolds
<1>2. CaptureHolds /\ [Next]_vars
        => [pc = "ready" /\ files' # files /\ pc' = "idle"
              => cur \in index /\ Intact(cur)]_vars
  BY DEF CaptureHolds
<1>. QED
  BY InitTypes, InitHolds, <1>1, <1>2, PTL DEF Spec, CapturedBeforeChange

(***************************************************************************)
(* Damage is confined to the oldest entries.                               *)
(***************************************************************************)

\* Stamps tell the entries of a set apart.
Distinct(S) == \A e, f \in S : e.ts = f.ts => e = f

\* While an eviction runs, what it has taken out of its list is older than what
\* is left and has lost its content; the operation's own entry is the newest.
EvictionInOrder ==
  /\ kept \subseteq index
  /\ \A e \in index : e.ts <= cur.ts
  /\ \A e \in index \ kept : ~(e.pre \in Kept /\ Intact(e))
  /\ \A e \in index \ kept, f \in kept : e.ts < f.ts

OldestLost ==
  /\ Distinct(index)
  /\ DamageIsOldest
  /\ pc = "evict" => EvictionInOrder

LEMMA InitLost == Init => OldestLost
BY DEF Init, OldestLost, Distinct, DamageIsOldest

LEMMA StepLost ==
  TypeOK /\ CaptureHolds /\ OldestLost /\ [Next]_vars => OldestLost'
<1>. SUFFICES ASSUME TypeOK, CaptureHolds, OldestLost, [Next]_vars
              PROVE  OldestLost'
  OBVIOUS
<1>t. /\ clock \in Nat /\ \A e \in index \cup kept : e.ts \in Nat /\ e.ts \in Stamp
      /\ pc # "idle" => cur \in Entry
  BY DEF TypeOK, Entry, Stamp
<1>1. ASSUME NEW p, NEW g, Capture(p, g) PROVE OldestLost'
  <2>1. \A e \in index : blobs'[e.ts] = blobs[e.ts]
    <3>1. clock + 1 \in Stamp /\ \A e \in index : e.ts # clock + 1
      BY <1>1, <1>t DEF Capture, CaptureHolds, Stamp, TypeOK
    <3>. QED
      BY <1>1, <1>t, <3>1 DEF Capture, TypeOK
  <2>2. index' = index /\ pc' = "blob"
    BY <1>1 DEF Capture
  <2>. QED
    BY <2>1, <2>2 DEF OldestLost, Distinct, DamageIsOldest, Intact
<1>2. CASE AppendEntry
  <2>1. /\ index' = index \cup {cur} /\ kept' = index' /\ UNCHANGED <<blobs, cur>>
        /\ Intact(cur) /\ \A e \in index : e.ts < cur.ts
    BY <1>2 DEF AppendEntry, CaptureHolds
  <2>2. cur.ts \in Nat
    BY <1>2, <1>t DEF AppendEntry, Entry, Stamp
  <2>3. Distinct(index)'
    BY <1>t, <2>1, <2>2 DEF OldestLost, Distinct
  <2>4. DamageIsOldest'
    BY <1>t, <2>1, <2>2 DEF OldestLost, DamageIsOldest, Intact
  <2>5. EvictionInOrder'
    BY <1>t, <2>1, <2>2 DEF EvictionInOrder
  <2>. QED
    BY <2>3, <2>4, <2>5 DEF OldestLost
<1>3. CASE EvictOldest
  <2>1. PICK v \in kept \ {cur} :
          IsOldest(v, kept \ {cur}) /\ blobs' = [blobs EXCEPT ![v.ts] = Absent]
          /\ kept' = kept \ {v}
    BY <1>3 DEF EvictOldest
  <2>2. pc = "evict" /\ UNCHANGED <<index, cur>>
    BY <1>3 DEF EvictOldest
  <2>3. EvictionInOrder /\ v \in index /\ cur \in index /\ Distinct(index)
    BY <2>1, <2>2 DEF OldestLost, EvictionInOrder, CaptureHolds
  <2>4. \A f \in kept \ {v} : v.ts < f.ts
    <3>1. \A f \in kept : v.ts <= f.ts
      BY <2>1, <2>3 DEF IsOldest, EvictionInOrder
    <3>2. \A f \in kept \ {v} : f.ts # v.ts
      BY <2>1, <2>3 DEF Distinct, EvictionInOrder
    <3>. QED
      BY <1>t, <2>1, <3>1, <3>2
  <2>5. /\ v.pre \in Kept => ~Intact(v)'
        /\ \A e \in index \ {v} : blobs'[e.ts] = blobs[e.ts]
    <3>1. Absent \notin Kept /\ blobs'[v.ts] = Absent
      BY <1>t, <2>1 DEF Kept, TypeOK
    <3>2. \A e \in index \ {v} : e.ts # v.ts
      BY <2>3 DEF Distinct
    <3>. QED
      BY <1>t, <2>1, <3>1, <3>2 DEF Intact, TypeOK
  <2>6. \A e \in index \ {v} : Intact(e)' <=> Intact(e)
    BY <2>5 DEF Intact
  <2>7. EvictionInOrder'
    <3>1. \A e \in index \ kept' : ~(e.pre \in Kept /\ Intact(e)')
      BY <2>1, <2>3, <2>5, <2>6 DEF EvictionInOrder
    <3>2. \A e \in index \ kept', f \in kept' : e.ts < f.ts
      BY <2>1, <2>3, <2>4 DEF EvictionInOrder
    <3>. QED
      BY <2>1, <2>2, <2>3, <3>1, <3>2 DEF EvictionInOrder, Intact
  <2>8. DamageIsOldest'
    <3>. SUFFICES ASSUME NEW e \in index, NEW f \in index,
                         ~Intact(e)', f.pre \in Kept, Intact(f)'
                  PROVE  e.ts < f.ts
      BY <2>2 DEF DamageIsOldest, Intact
    <3>1. f # v /\ Intact(f)
      BY <2>5, <2>6
    <3>2. f \in kept \ {v}
      BY <2>3, <3>1 DEF EvictionInOrder
    <3>3. CASE e = v
      BY <2>4, <3>2, <3>3
    <3>4. CASE e # v
      BY <2>6, <3>1, <3>4 DEF OldestLost, DamageIsOldest
    <3>. QED
      BY <3>3, <3>4
  <2>. QED
    BY <2>2, <2>3, <2>7, <2>8 DEF OldestLost, Distinct
<1>4. CASE WriteIndex
  BY <1>4 DEF WriteIndex, OldestLost, EvictionInOrder, Distinct, DamageIsOldest, Intact
<1>5. CASE ApplyMutation \/ ApplyRestore \/ TornRestore \/ Abort
  BY <1>5 DEF ApplyMutation, ApplyRestore, TornRestore, Abort, Finish, OldestLost,
              Distinct, DamageIsOldest, Intact
<1>6. CASE UNCHANGED <<store, pc, cur, kept>>
  BY <1>6 DEF OldestLost, EvictionInOrder, Distinct, DamageIsOldest, Intact
<1>. QED
  BY <1>1, <1>2, <1>3, <1>4, <1>5, <1>6
     DEF Next, Mutate, Restore, OwnerEdits, vars

\* Wherever an eviction is interrupted, an entry that lost its content is older
\* than every entry that still has it: the newest changes stay undoable.
THEOREM OnlyOldestDamaged == Spec => []DamageIsOldest
<1>1. TypeOK /\ CaptureHolds /\ OldestLost /\ [Next]_vars
        => (TypeOK /\ CaptureHolds /\ OldestLost)'
  BY StepTypes, StepHolds, StepLost
<1>2. OldestLost => DamageIsOldest
  BY DEF OldestLost
<1>. QED
  BY InitTypes, InitHolds, InitLost, <1>1, <1>2, PTL DEF Spec

(***************************************************************************)
(* The undo log: what can be restored, oldest first.                       *)
(***************************************************************************)

\* A set that has an order, and a sequence that lists it in that order.
Stamped(S) == IsFiniteSet(S) /\ S \subseteq Entry /\ Distinct(S)
Ordered(q, S) ==
  /\ q \in [1 .. Cardinality(S) -> S]
  /\ \A i, j \in DOMAIN q : i < j => q[i].ts < q[j].ts

\* An entry's place is the number of entries that are not newer.
NotNewer(e, S) == {f \in S : f.ts <= e.ts}
Place(e, S) == Cardinality(NotNewer(e, S))

LEMMA StampedFacts ==
  ASSUME NEW S, Stamped(S)
  PROVE  Cardinality(S) \in Nat /\ \A e \in S : e.ts \in Nat /\ e \in Entry
BY FS_CardinalityType DEF Stamped, Entry, Stamp

LEMMA PlaceInSet ==
  ASSUME NEW S, Stamped(S), NEW e \in S
  PROVE  Place(e, S) \in 1 .. Cardinality(S)
<1>1. NotNewer(e, S) \in SUBSET S /\ e \in NotNewer(e, S)
  BY StampedFacts DEF NotNewer
<1>2. IsFiniteSet(S)
  BY DEF Stamped
<1>3. IsFiniteSet(NotNewer(e, S)) /\ Place(e, S) <= Cardinality(S)
  BY <1>1, <1>2, FS_Subset DEF Place
<1>4. Place(e, S) \in Nat /\ Place(e, S) # 0
  BY <1>1, <1>3, FS_CardinalityType, FS_EmptySet DEF Place
<1>. QED BY <1>3, <1>4, StampedFacts

LEMMA PlaceGrows ==
  ASSUME NEW S, Stamped(S), NEW e \in S, NEW f \in S, e.ts < f.ts
  PROVE  Place(e, S) < Place(f, S)
<1>1. e.ts \in Nat /\ f.ts \in Nat /\ \A d \in S : d.ts \in Nat
  BY StampedFacts
<1>2. NotNewer(e, S) \in SUBSET NotNewer(f, S) /\ f \in NotNewer(f, S) /\ f \notin NotNewer(e, S)
  BY <1>1 DEF NotNewer
<1>3. IsFiniteSet(NotNewer(f, S))
  BY FS_Subset DEF Stamped, NotNewer
<1>4. Place(e, S) <= Place(f, S) /\ Place(e, S) # Place(f, S)
  BY <1>2, <1>3, FS_Subset DEF Place
<1>5. Place(e, S) \in Nat /\ Place(f, S) \in Nat
  BY PlaceInSet, StampedFacts
<1>. QED BY <1>4, <1>5

\* A listing in order leaves nothing out.
LEMMA OrderedOnto ==
  ASSUME NEW S, Stamped(S), NEW q, Ordered(q, S)
  PROVE  \A e \in S : \E i \in 1 .. Cardinality(S) : q[i] = e
<1>. DEFINE n == Cardinality(S)
<1>1. n \in Nat /\ q \in [1 .. n -> S]
  BY StampedFacts DEF Ordered
<1>2. ASSUME NEW i \in 1 .. n, NEW j \in 1 .. n, i # j PROVE q[i] # q[j]
  <2>1. q[i].ts < q[j].ts \/ q[j].ts < q[i].ts
    BY <1>1, <1>2 DEF Ordered
  <2>2. q[i].ts \in Nat /\ q[j].ts \in Nat
    BY <1>1, StampedFacts
  <2>. QED BY <2>1, <2>2
<1>3. q \in Injection(1 .. n, S)
  BY <1>1, <1>2 DEF Injection, IsInjective
<1>4. IsFiniteSet(1 .. n) /\ Cardinality(1 .. n) = n
  BY <1>1, FS_Interval
<1>5. q \in Surjection(1 .. n, S)
  BY <1>3, <1>4, FS_Injection DEF Stamped
<1>. QED BY <1>5 DEF Surjection

LEMMA OrderedPlaces ==
  ASSUME NEW S, Stamped(S), NEW q, Ordered(q, S), NEW i \in 1 .. Cardinality(S)
  PROVE  q[i] \in S /\ Place(q[i], S) = i
<1>. DEFINE n == Cardinality(S)
            r == [j \in 1 .. i |-> q[j]]
            T == NotNewer(q[i], S)
<1>1. n \in Nat /\ q \in [1 .. n -> S] /\ i \in Nat
  BY StampedFacts DEF Ordered
<1>2. \A j \in 1 .. n : q[j] \in S /\ q[j].ts \in Nat
  BY <1>1, StampedFacts
<1>3. \A j, k \in 1 .. n : j < k => q[j].ts < q[k].ts
  BY <1>1 DEF Ordered
<1>4. ASSUME NEW j \in 1 .. i PROVE j \in 1 .. n /\ q[j] \in T
  <2>1. j \in 1 .. n /\ (j < i \/ j = i)
    BY <1>1
  <2>2. q[j].ts <= q[i].ts
    BY <1>2, <1>3, <2>1
  <2>. QED BY <1>2, <2>1, <2>2 DEF NotNewer
<1>5. r \in [1 .. i -> T]
  BY <1>4
<1>6. ASSUME NEW e \in T PROVE \E j \in 1 .. i : r[j] = e
  <2>1. e \in S /\ e.ts <= q[i].ts
    BY DEF NotNewer
  <2>2. PICK k \in 1 .. n : q[k] = e
    BY <2>1, OrderedOnto
  <2>3. ~(i < k)
    BY <1>2, <1>3, <2>1, <2>2
  <2>4. k \in 1 .. i
    BY <1>1, <2>3
  <2>. QED BY <2>2, <2>4
<1>7. ASSUME NEW j \in 1 .. i, NEW k \in 1 .. i, r[j] = r[k] PROVE j = k
  <2>1. j \in 1 .. n /\ k \in 1 .. n /\ q[j] = q[k]
    BY <1>4, <1>7
  <2>2. ~(j < k) /\ ~(k < j)
    BY <1>2, <1>3, <2>1
  <2>. QED BY <1>1, <2>2
<1>8. r \in Bijection(1 .. i, T)
  BY <1>5, <1>6, <1>7, Fun_IsBij
<1>9. ExistsBijection(1 .. i, T)
  BY <1>8 DEF ExistsBijection
<1>. QED BY <1>1, <1>2, <1>9, FS_CountingElements DEF Place

LEMMA OrderedUnique ==
  ASSUME NEW S, Stamped(S), NEW p, Ordered(p, S), NEW q, Ordered(q, S)
  PROVE  p = q
<1>1. ASSUME NEW i \in 1 .. Cardinality(S) PROVE p[i] = q[i]
  <2>1. p[i] \in S /\ q[i] \in S /\ Place(p[i], S) = i /\ Place(q[i], S) = i
    BY OrderedPlaces
  <2>2. ~(p[i].ts < q[i].ts) /\ ~(q[i].ts < p[i].ts)
    BY <2>1, PlaceGrows
  <2>3. p[i].ts = q[i].ts
    BY <2>1, <2>2, StampedFacts
  <2>. QED BY <2>1, <2>3 DEF Stamped, Distinct
<1>2. p \in [1 .. Cardinality(S) -> S] /\ q \in [1 .. Cardinality(S) -> S]
  BY DEF Ordered
<1>3. p = [i \in 1 .. Cardinality(S) |-> p[i]] /\ q = [i \in 1 .. Cardinality(S) |-> q[i]]
  BY <1>2
<1>. QED BY <1>1, <1>3, Zenon

LEMMA OrderedExists ==
  ASSUME NEW S, Stamped(S)
  PROVE  \E q : Ordered(q, S)
<1>. DEFINE n == Cardinality(S)
            r == [e \in S |-> Place(e, S)]
<1>1. n \in Nat /\ IsFiniteSet(1 .. n) /\ Cardinality(1 .. n) = n
  BY StampedFacts, FS_Interval
<1>2. r \in [S -> 1 .. n]
  BY PlaceInSet
<1>3. ASSUME NEW e \in S, NEW f \in S, r[e] = r[f] PROVE e = f
  <2>1. Place(e, S) \in Nat /\ Place(f, S) \in Nat /\ Place(e, S) = Place(f, S)
    BY <1>1, <1>3, PlaceInSet
  <2>2. ~(e.ts < f.ts) /\ ~(f.ts < e.ts)
    BY <2>1, PlaceGrows
  <2>3. e.ts = f.ts
    BY <2>2, StampedFacts
  <2>. QED BY <2>3 DEF Stamped, Distinct
<1>4. r \in Injection(S, 1 .. n)
  BY <1>2, <1>3, Fun_IsInj
<1>5. r \in Surjection(S, 1 .. n)
  BY <1>1, <1>4, FS_Injection
<1>6. \A i \in 1 .. n : \E e \in S : Place(e, S) = i
  BY <1>2, <1>5 DEF Surjection
<1>. DEFINE q == [i \in 1 .. n |-> CHOOSE e \in S : Place(e, S) = i]
<1>7. \A i \in 1 .. n : q[i] \in S /\ Place(q[i], S) = i
  BY <1>6
<1>8. q \in [1 .. n -> S]
  BY <1>7
<1>. HIDE DEF q
<1>9. ASSUME NEW i \in 1 .. n, NEW j \in 1 .. n, i < j PROVE q[i].ts < q[j].ts
  <2>1. q[i] \in S /\ q[j] \in S /\ Place(q[i], S) = i /\ Place(q[j], S) = j
    BY <1>7
  <2>2. q[i].ts \in Nat /\ q[j].ts \in Nat
    BY <2>1, StampedFacts
  <2>3. ~(q[j].ts < q[i].ts)
    BY <1>1, <1>9, <2>1, PlaceGrows
  <2>4. q[i].ts # q[j].ts
    BY <1>1, <1>9, <2>1 DEF Stamped, Distinct
  <2>. QED BY <2>2, <2>3, <2>4
<1>10. Ordered(q, S)
  BY <1>8, <1>9 DEF Ordered
<1>. QED BY <1>10

\* OldestFirst is that listing.
LEMMA OldestFirstIs ==
  ASSUME NEW S, Stamped(S)
  PROVE  /\ Ordered(OldestFirst(S), S)
         /\ \A q : Ordered(q, S) => OldestFirst(S) = q
<1>1. \E q \in [1 .. Cardinality(S) -> S] : \A i, j \in DOMAIN q : i < j => q[i].ts < q[j].ts
  BY OrderedExists DEF Ordered
<1>2. Ordered(OldestFirst(S), S)
  BY <1>1 DEF OldestFirst, Ordered
<1>. QED BY <1>2, OrderedUnique

LEMMA OldestFirstSeq ==
  ASSUME NEW S, Stamped(S)
  PROVE  /\ OldestFirst(S) \in Seq(Entry) /\ Len(OldestFirst(S)) = Cardinality(S) /\ Cardinality(S) \in Nat
         /\ \A i \in 1 .. Cardinality(S) : OldestFirst(S)[i] \in S
<1>. DEFINE q == OldestFirst(S)
            n == Cardinality(S)
<1>1. n \in Nat /\ q \in [1 .. n -> S]
  BY OldestFirstIs, StampedFacts DEF Ordered
<1>. HIDE DEF q, n
<1>2. q \in [1 .. n -> Entry]
  BY <1>1 DEF Stamped
<1>3. q \in Seq(Entry)
  BY <1>1, <1>2, SeqDef
<1>4. Len(q) = n
  BY <1>1, <1>2, <1>3, LenProperties
<1>. QED BY <1>1, <1>3, <1>4 DEF q, n

\* A newest entry is recorded at the end of the log.
LEMMA NewestRecorded ==
  ASSUME NEW S, Stamped(S), NEW x \in Entry, \A e \in S : e.ts < x.ts
  PROVE  OldestFirst(S \cup {x}) = Append(OldestFirst(S), x)
<1>. DEFINE q == OldestFirst(S)
            n == Cardinality(S)
            a == Append(q, x)
<1>1. q \in Seq(Entry) /\ Len(q) = n /\ n \in Nat /\ \A i \in 1 .. n : q[i] \in S
  BY OldestFirstSeq
<1>2. \A i, j \in 1 .. n : i < j => q[i].ts < q[j].ts
  BY <1>1, OldestFirstIs DEF Ordered
<1>3. x \notin S /\ x.ts \in Nat
  BY DEF Entry, Stamp
<1>4. Stamped(S \cup {x}) /\ Cardinality(S \cup {x}) = n + 1
  <2>1. IsFiniteSet(S \cup {x}) /\ Cardinality(S \cup {x}) = n + 1
    BY <1>3, FS_AddElement DEF Stamped
  <2>2. Distinct(S \cup {x})
    BY StampedFacts, <1>3 DEF Stamped, Distinct
  <2>. QED BY <2>1, <2>2 DEF Stamped
<1>. HIDE DEF q, n
<1>5. /\ a \in Seq(Entry) /\ Len(a) = n + 1 /\ a[n + 1] = x
      /\ \A i \in 1 .. n : a[i] = q[i]
  BY <1>1, AppendProperties
<1>. HIDE DEF a
<1>6. DOMAIN a = 1 .. n + 1
  BY <1>5, LenProperties
<1>7. ASSUME NEW i \in 1 .. n + 1 PROVE a[i] \in S \cup {x} /\ (i \in 1 .. n => a[i] = q[i] /\ q[i] \in S)
  <2>1. i \in 1 .. n \/ i = n + 1
    BY <1>1
  <2>. QED BY <1>1, <1>5, <2>1
<1>8. a \in [1 .. n + 1 -> S \cup {x}]
  BY <1>5, <1>6, <1>7, LenProperties
<1>9. ASSUME NEW i \in 1 .. n + 1, NEW j \in 1 .. n + 1, i < j PROVE a[i].ts < a[j].ts
  <2>1. i \in 1 .. n /\ (j \in 1 .. n \/ j = n + 1)
    BY <1>1, <1>9
  <2>2. CASE j \in 1 .. n
    BY <1>2, <1>7, <1>9, <2>1, <2>2
  <2>3. CASE j = n + 1
    BY <1>5, <1>7, <2>1, <2>3
  <2>. QED BY <2>1, <2>2, <2>3
<1>10. Ordered(a, S \cup {x})
  BY <1>4, <1>6, <1>8, <1>9 DEF Ordered
<1>. QED BY <1>4, <1>10, OldestFirstIs DEF a, q

\* Giving up the oldest entry takes the first one off the log.
LEMMA OldestForgotten ==
  ASSUME NEW S, Stamped(S), NEW v \in S, \A e \in S \ {v} : v.ts < e.ts
  PROVE  /\ 1 \in 1 .. Len(OldestFirst(S))
         /\ OldestFirst(S \ {v}) = SubSeq(OldestFirst(S), 1 + 1, Len(OldestFirst(S)))
<1>. DEFINE T == S \ {v}
            q == OldestFirst(S)
            n == Cardinality(S)
            b == SubSeq(q, 2, n)
<1>1. q \in Seq(Entry) /\ Len(q) = n /\ n \in Nat /\ (\A i \in 1 .. n : q[i] \in S) /\ DOMAIN q = 1 .. n
  BY OldestFirstSeq, LenProperties
<1>2. \A i, j \in 1 .. n : i < j => q[i].ts < q[j].ts
  BY <1>1, OldestFirstIs DEF Ordered
<1>3. Stamped(T) /\ Cardinality(T) = n - 1 /\ n # 0
  <2>1. IsFiniteSet(S) /\ S # {}
    BY DEF Stamped
  <2>2. IsFiniteSet(T) /\ Cardinality(T) = n - 1 /\ n # 0
    BY <2>1, FS_RemoveElement, FS_EmptySet
  <2>. QED BY <2>2 DEF Stamped, Distinct
<1>4. \A e \in S : e.ts \in Nat
  BY StampedFacts
<1>5. PICK k \in 1 .. n : q[k] = v
  BY OrderedOnto, OldestFirstIs
<1>6. k = 1
  <2>1. ASSUME 1 < k PROVE FALSE
    <3>1. 1 \in 1 .. n /\ q[1].ts < v.ts /\ q[1] \in S
      BY <1>1, <1>2, <1>5, <2>1
    <3>. QED BY <1>4, <3>1
  <2>. QED BY <1>1, <2>1
<1>. HIDE DEF q, n
<1>7. ASSUME NEW i \in 2 .. n PROVE i \in 1 .. n /\ q[i] \in T /\ q[i] \in Entry
  <2>1. i \in 1 .. n /\ 1 \in 1 .. n /\ 1 < i
    BY <1>1
  <2>2. q[1].ts < q[i].ts /\ q[1] = v /\ v.ts \in Nat
    BY <1>2, <1>4, <1>5, <1>6, <2>1
  <2>3. q[i] # v
    BY <2>2
  <2>. QED BY <1>1, <2>1, <2>3 DEF Stamped
<1>8. /\ b \in Seq(Entry) /\ Len(b) = n - 1
      /\ \A i \in 1 .. n - 1 : b[i] = q[i + 1]
  <2>1. /\ b \in Seq(Entry) /\ Len(b) = (IF 2 <= n THEN n - 2 + 1 ELSE 0)
        /\ \A i \in 1 .. n - 2 + 1 : b[i] = q[2 + i - 1]
    BY <1>1, <1>7, SubSeqProperties
  <2>. QED BY <1>1, <1>3, <2>1
<1>. HIDE DEF b, T
<1>9. DOMAIN b = 1 .. n - 1
  BY <1>8, LenProperties
<1>10. \A i \in 1 .. n - 1 : b[i] \in T /\ b[i] = q[i + 1] /\ i + 1 \in 1 .. n
  BY <1>1, <1>7, <1>8
<1>11. b \in [1 .. n - 1 -> T]
  BY <1>8, <1>9, <1>10, LenProperties
<1>12. ASSUME NEW i \in 1 .. n - 1, NEW j \in 1 .. n - 1, i < j PROVE b[i].ts < b[j].ts
  <2>1. i + 1 < j + 1
    BY <1>1, <1>12
  <2>. QED BY <1>2, <1>10, <2>1
<1>13. Ordered(b, T)
  BY <1>3, <1>9, <1>11, <1>12 DEF Ordered
<1>14. OldestFirst(T) = b /\ 1 \in 1 .. n /\ 1 + 1 = 2
  BY <1>1, <1>3, <1>13, OldestFirstIs
<1>. QED BY <1>1, <1>14 DEF b, T, q, n

LEMMA NothingFirst == OldestFirst({}) = <<>>
<1>1. Stamped({})
  BY FS_EmptySet DEF Stamped, Distinct
<1>2. Ordered(<<>>, {})
  BY FS_EmptySet DEF Ordered
<1>. QED BY <1>1, <1>2, OldestFirstIs

\* Index and list are finite, since they grow by one entry at a time.
FiniteStore == IsFiniteSet(index) /\ IsFiniteSet(kept)

LEMMA StepFinite == FiniteStore /\ [Next]_vars => FiniteStore'
<1>. SUFFICES ASSUME FiniteStore, [Next]_vars PROVE FiniteStore'
  OBVIOUS
<1>1. IsFiniteSet({}) /\ IsFiniteSet(index \cup {cur}) /\ \A v : IsFiniteSet(kept \ {v})
  BY FS_EmptySet, FS_AddElement, FS_RemoveElement DEF FiniteStore
<1>2. CASE AppendEntry \/ EvictOldest \/ WriteIndex
  BY <1>1, <1>2 DEF AppendEntry, EvictOldest, WriteIndex, FiniteStore
<1>3. CASE ApplyMutation \/ ApplyRestore \/ TornRestore \/ Abort
  BY <1>1, <1>3 DEF ApplyMutation, ApplyRestore, TornRestore, Abort, Finish, FiniteStore
<1>4. CASE UNCHANGED <<index, kept>>
  BY <1>4 DEF FiniteStore
<1>. QED
  BY <1>2, <1>3, <1>4 DEF Next, Mutate, Restore, Capture, OwnerEdits, vars

LEMMA RestorablesStamped ==
  ASSUME TypeOK, OldestLost, FiniteStore
  PROVE  Stamped(Restorables)
<1>1. Restorables \in SUBSET index
  BY DEF Restorables
<1>2. IsFiniteSet(Restorables)
  BY <1>1, FS_Subset DEF FiniteStore
<1>. QED BY <1>1, <1>2 DEF Stamped, Distinct, OldestLost, TypeOK

\* What a step does to the entries that can be restored: nothing, unless it
\* records the newest or evicts the oldest.
LEMMA RestorablesStep ==
  ASSUME TypeOK, CaptureHolds, OldestLost, [Next]_vars
  PROVE  \/ Restorables' = Restorables
         \/ \E x \in Entry : Restorables' = Restorables \cup {x} /\ \A e \in Restorables : e.ts < x.ts
         \/ \E v \in Restorables : Restorables' = Restorables \ {v} /\ \A e \in Restorables \ {v} : v.ts < e.ts
<1>t. /\ clock \in Nat /\ \A e \in index \cup kept : e.ts \in Nat /\ e.ts \in Stamp
      /\ pc # "idle" => cur \in Entry
  BY DEF TypeOK, Entry, Stamp
<1>1. ASSUME NEW p, NEW g, Capture(p, g) PROVE Restorables' = Restorables
  <2>1. \A e \in index : blobs'[e.ts] = blobs[e.ts]
    <3>1. clock + 1 \in Stamp /\ \A e \in index : e.ts # clock + 1
      BY <1>1, <1>t DEF Capture, CaptureHolds, Stamp, TypeOK
    <3>. QED BY <1>1, <1>t, <3>1 DEF Capture, TypeOK
  <2>2. index' = index
    BY <1>1 DEF Capture
  <2>. QED BY <2>1, <2>2 DEF Restorables
<1>2. CASE AppendEntry
  <2>1. /\ index' = index \cup {cur} /\ blobs' = blobs /\ cur \in Entry
        /\ Intact(cur) /\ \A e \in index : e.ts < cur.ts
    BY <1>2, <1>t DEF AppendEntry, CaptureHolds
  <2>2. CASE cur.pre \in Kept
    <3>1. Restorables' = Restorables \cup {cur}
      BY <2>1, <2>2 DEF Restorables, Intact
    <3>2. \A e \in Restorables : e.ts < cur.ts
      BY <2>1 DEF Restorables
    <3>. QED BY <2>1, <3>1, <3>2
  <2>3. CASE cur.pre \notin Kept
    BY <2>1, <2>3 DEF Restorables
  <2>. QED BY <2>2, <2>3
<1>3. CASE EvictOldest
  <2>1. PICK v \in kept \ {cur} :
          IsOldest(v, kept \ {cur}) /\ blobs' = [blobs EXCEPT ![v.ts] = Absent]
    BY <1>3 DEF EvictOldest
  <2>2. pc = "evict" /\ index' = index
    BY <1>3 DEF EvictOldest
  <2>3. EvictionInOrder /\ v \in index /\ cur \in index /\ Distinct(index)
    BY <2>1, <2>2 DEF OldestLost, EvictionInOrder, CaptureHolds
  <2>4. \A f \in kept \ {v} : v.ts < f.ts
    <3>1. \A f \in kept : v.ts <= f.ts
      BY <2>1, <2>3 DEF IsOldest, EvictionInOrder
    <3>2. \A f \in kept \ {v} : f.ts # v.ts
      BY <2>1, <2>3 DEF Distinct, EvictionInOrder
    <3>. QED BY <1>t, <2>1, <3>1, <3>2
  <2>5. /\ v.pre \in Kept => blobs'[v.ts] # v.pre
        /\ \A e \in index \ {v} : blobs'[e.ts] = blobs[e.ts]
    <3>1. Absent \notin Kept /\ blobs'[v.ts] = Absent
      BY <1>t, <2>1 DEF Kept, TypeOK
    <3>2. \A e \in index \ {v} : e.ts # v.ts
      BY <2>3 DEF Distinct
    <3>. QED BY <1>t, <2>1, <3>1, <3>2 DEF TypeOK
  <2>6. Restorables' = Restorables \ {v}
    BY <2>2, <2>5 DEF Restorables
  <2>7. \A e \in Restorables \ {v} : v.ts < e.ts
    <3>1. Restorables \subseteq kept
      BY <2>3 DEF Restorables, EvictionInOrder, Intact
    <3>. QED BY <2>4, <3>1
  <2>. QED BY <2>6, <2>7
<1>4. CASE WriteIndex
  <2>1. index' = kept /\ blobs' = blobs /\ EvictionInOrder
    BY <1>4 DEF WriteIndex, OldestLost
  <2>2. \A e \in index \ kept : ~(e.pre \in Kept /\ blobs[e.ts] = e.pre)
    BY <2>1 DEF EvictionInOrder, Intact
  <2>3. kept \subseteq index
    BY <2>1 DEF EvictionInOrder
  <2>. QED BY <2>1, <2>2, <2>3 DEF Restorables
<1>5. CASE UNCHANGED store
  BY <1>5 DEF Restorables
<1>. QED
  BY <1>1, <1>2, <1>3, <1>4, <1>5
     DEF Next, Mutate, Restore, OwnerEdits, ApplyMutation, ApplyRestore, TornRestore, Abort, vars

\* The store implements a first-in first-out log: whatever is written, undone,
\* evicted or cut short by a crash or an error, a step records one pre-image as
\* the newest, gives up the oldest, or leaves what can be restored as it is.
THEOREM UndoLogImplemented == Spec => ImplementsUndoLog
<1>. DEFINE log == OldestFirst(Restorables)
            Inv == TypeOK /\ CaptureHolds /\ OldestLost /\ FiniteStore
<1>1. Init => UndoLog!Init
  <2>1. Init => Restorables = {}
    BY DEF Init, Restorables
  <2>. QED BY <2>1, NothingFirst DEF UndoLog!Init
<1>2. Init => Inv
  BY InitTypes, InitHolds, InitLost, FS_EmptySet DEF Init, FiniteStore
<1>3. Inv /\ [Next]_vars => Inv'
  BY StepTypes, StepHolds, StepLost, StepFinite
<1>4. Inv /\ [Next]_vars => [UndoLog!Record \/ UndoLog!Forget]_log
  <2>. SUFFICES ASSUME Inv, [Next]_vars PROVE UndoLog!Record \/ UndoLog!Forget \/ log' = log
    OBVIOUS
  <2>1. Stamped(Restorables)
    BY RestorablesStamped
  <2>2. CASE Restorables' = Restorables
    BY <2>2 DEF OldestFirst
  <2>3. ASSUME NEW x \in Entry, Restorables' = Restorables \cup {x}, \A e \in Restorables : e.ts < x.ts
        PROVE  UndoLog!Record
    <3>1. OldestFirst(Restorables') = Append(log, x)
      BY <2>1, <2>3, NewestRecorded
    <3>. QED BY <3>1 DEF UndoLog!Record, OldestFirst
  <2>4. ASSUME NEW v \in Restorables, Restorables' = Restorables \ {v}, \A e \in Restorables \ {v} : v.ts < e.ts
        PROVE  UndoLog!Forget
    <3>1. 1 \in 1 .. Len(log) /\ OldestFirst(Restorables') = SubSeq(log, 1 + 1, Len(log))
      BY <2>1, <2>4, OldestForgotten
    <3>. QED BY <3>1 DEF UndoLog!Forget, OldestFirst
  <2>. QED BY <2>2, <2>3, <2>4, RestorablesStep
<1>. QED
  BY <1>1, <1>2, <1>3, <1>4, PTL DEF Spec, ImplementsUndoLog, UndoLog!Spec

(***************************************************************************)
(* The limits.                                                             *)
(***************************************************************************)

\* TotalSize by its recursion: one entry after the other, in some order.
First(s) == CHOOSE x \in s : TRUE
Sums(f, S) ==
  f = [s \in SUBSET S |-> IF s = {} THEN 0 ELSE SizeOf[First(s).pre] + f[s \ {First(s)}]]

LEMMA TotalSizeIs == ASSUME NEW S PROVE TotalSize(S) = (CHOOSE f : Sums(f, S))[S]
BY DEF TotalSize, MapThenSumSet, MapThenFoldSet, Sums, First

\* Among the finite sets that fail something one is smallest.
LEMMA SmallestBad ==
  ASSUME NEW S, IsFiniteSet(S), NEW Bad \in SUBSET (SUBSET S), Bad # {}
  PROVE  \E U \in Bad : \A V \in SUBSET U : V # U => V \notin Bad
<1>1. IsWellFoundedOn(StrictSubsetOrdering(S), SUBSET S)
  <2>1. FiniteSubsetsOf(S) = SUBSET S
    BY FS_FiniteSubsetsOfFinite
  <2>2. IsWellFoundedOn(StrictSubsetOrdering(S), FiniteSubsetsOf(S))
    BY FS_StrictSubsetOrderingWellFounded
  <2>. QED BY <2>1, <2>2
<1>2. PICK U \in Bad : \A V \in Bad : ~(<<V, U>> \in StrictSubsetOrdering(S))
  BY <1>1, WFMin
<1>3. ASSUME NEW V \in SUBSET U, V # U, V \in Bad PROVE FALSE
  <2>1. <<V, U>> \in StrictSubsetOrdering(S)
    BY <1>3 DEF StrictSubsetOrdering
  <2>. QED BY <1>2, <1>3, <2>1
<1>. QED BY <1>3

LEMMA FirstIn == ASSUME NEW s, s # {} PROVE First(s) \in s
BY DEF First

LEMMA SumsAt ==
  ASSUME NEW f, NEW S, Sums(f, S), NEW s \in SUBSET S
  PROVE  f[s] = IF s = {} THEN 0 ELSE SizeOf[First(s).pre] + f[s \ {First(s)}]
BY DEF Sums

\* The recursion has one result, whatever set it started from.
LEMMA SumsAgree ==
  ASSUME NEW A, IsFiniteSet(A), NEW B, NEW f, Sums(f, A), NEW g, Sums(g, B),
         NEW s \in SUBSET A, s \in SUBSET B
  PROVE  f[s] = g[s]
<1>. DEFINE Bad == {U \in SUBSET A : U \in SUBSET B /\ f[U] # g[U]}
<1>. SUFFICES ASSUME Bad # {} PROVE FALSE
  OBVIOUS
<1>0. Bad \in SUBSET (SUBSET A) /\ \A U : U \in Bad <=> U \in SUBSET A /\ U \in SUBSET B /\ f[U] # g[U]
  OBVIOUS
<1>. HIDE DEF Bad
<1>1. PICK U \in Bad : \A V \in SUBSET U : V # U => V \notin Bad
  BY <1>0, SmallestBad
<1>2. U \in SUBSET A /\ U \in SUBSET B /\ f[U] # g[U]
  BY <1>0
<1>3. U # {}
  BY <1>2, SumsAt
<1>4. First(U) \in U
  BY <1>3, FirstIn
<1>. DEFINE V == U \ {First(U)}
<1>5. V \in SUBSET U /\ V # U /\ V \in SUBSET A /\ V \in SUBSET B
  BY <1>2, <1>4
<1>6. f[V] = g[V]
  BY <1>0, <1>1, <1>5
<1>7. f[U] = SizeOf[First(U).pre] + f[V] /\ g[U] = SizeOf[First(U).pre] + g[V]
  BY <1>2, <1>3, SumsAt
<1>. QED BY <1>2, <1>6, <1>7

LEMMA SumsExist ==
  ASSUME NEW S, IsFiniteSet(S)
  PROVE  \E f : Sums(f, S)
<1>. DEFINE Bad == {U \in SUBSET S : ~ \E f : Sums(f, U)}
<1>. SUFFICES ASSUME Bad # {} PROVE FALSE
  OBVIOUS
<1>0. Bad \in SUBSET (SUBSET S) /\ \A U : U \in Bad <=> U \in SUBSET S /\ ~ \E f : Sums(f, U)
  OBVIOUS
<1>. HIDE DEF Bad
<1>1. PICK U \in Bad : \A V \in SUBSET U : V # U => V \notin Bad
  BY <1>0, SmallestBad
<1>2. U \in SUBSET S /\ ~ \E f : Sums(f, U)
  BY <1>0
<1>. DEFINE F(s) == CHOOSE f : Sums(f, s)
            f == [s \in SUBSET U |-> IF s = {} THEN 0
                                     ELSE SizeOf[First(s).pre] + F(s \ {First(s)})[s \ {First(s)}]]
<1>3. ASSUME NEW s \in SUBSET U, s # U PROVE Sums(F(s), s) /\ IsFiniteSet(s)
  <2>1. s \in SUBSET S /\ s \notin Bad
    BY <1>1, <1>2, <1>3
  <2>2. \E h : Sums(h, s)
    BY <1>0, <2>1
  <2>3. Sums(F(s), s)
    BY <2>2
  <2>. QED BY <2>1, <2>3, FS_Subset
<1>. HIDE DEF F
<1>4. ASSUME NEW V \in SUBSET U, V # U PROVE f[V] = F(V)[V]
  <2>1. Sums(F(V), V) /\ IsFiniteSet(V)
    BY <1>3, <1>4
  <2>2. CASE V = {}
    <3>1. F(V)[V] = 0
      BY <2>1, <2>2, SumsAt
    <3>. QED BY <2>2, <3>1
  <2>3. CASE V # {}
    <3>. DEFINE W == V \ {First(V)}
    <3>1. First(V) \in V
      BY <2>3, FirstIn
    <3>2. W \in SUBSET V /\ W \in SUBSET U /\ W # U /\ V \in SUBSET V /\ W \in SUBSET W
      BY <1>4, <3>1
    <3>3. Sums(F(W), W)
      BY <1>3, <3>2
    <3>4. F(V)[V] = SizeOf[First(V).pre] + F(V)[W]
      BY <2>1, <2>3, <3>2, SumsAt
    <3>5. f[V] = SizeOf[First(V).pre] + F(W)[W]
      BY <2>3
    <3>. HIDE DEF W, f
    <3>6. F(V)[W] = F(W)[W]
      BY <2>1, <3>2, <3>3, SumsAgree
    <3>. QED BY <3>4, <3>5, <3>6
  <2>. QED BY <2>2, <2>3
<1>5. ASSUME NEW s \in SUBSET U
      PROVE  f[s] = IF s = {} THEN 0 ELSE SizeOf[First(s).pre] + f[s \ {First(s)}]
  <2>1. CASE s # {}
    <3>1. First(s) \in s
      BY <2>1, FirstIn
    <3>2. s \ {First(s)} \in SUBSET U /\ s \ {First(s)} # U
      BY <3>1
    <3>3. f[s \ {First(s)}] = F(s \ {First(s)})[s \ {First(s)}]
      BY <1>4, <3>2
    <3>4. f[s] = SizeOf[First(s).pre] + F(s \ {First(s)})[s \ {First(s)}]
      BY <2>1
    <3>. QED BY <2>1, <3>3, <3>4
  <2>2. CASE s = {}
    BY <2>2
  <2>. QED BY <2>1, <2>2
<1>6. f = [s \in SUBSET U |-> f[s]]
  OBVIOUS
<1>. HIDE DEF f
<1>7. Sums(f, U)
  BY <1>5, <1>6 DEF Sums
<1>. QED BY <1>2, <1>7

LEMMA TotalSteps ==
  ASSUME NEW S, IsFiniteSet(S)
  PROVE  TotalSize(S) = IF S = {} THEN 0 ELSE SizeOf[First(S).pre] + TotalSize(S \ {First(S)})
<1>. DEFINE F(s) == CHOOSE f : Sums(f, s)
            T == S \ {First(S)}
<1>1. IsFiniteSet(T) /\ T \in SUBSET S /\ T \in SUBSET T /\ S \in SUBSET S
  BY FS_Subset
<1>2. Sums(F(S), S) /\ Sums(F(T), T)
  BY <1>1, SumsExist
<1>3. TotalSize(S) = F(S)[S] /\ TotalSize(T) = F(T)[T]
  BY TotalSizeIs
<1>. HIDE DEF F, T
<1>4. F(S)[T] = F(T)[T]
  BY <1>1, <1>2, SumsAgree
<1>5. F(S)[S] = IF S = {} THEN 0 ELSE SizeOf[First(S).pre] + F(S)[T]
  BY <1>1, <1>2, SumsAt DEF T
<1>. QED BY <1>3, <1>4, <1>5 DEF T

LEMMA EntrySize == ASSUME NEW e \in Entry PROVE SizeOf[e.pre] \in Nat
BY DEF Entry

LEMMA TotalNat ==
  ASSUME NEW S, IsFiniteSet(S), S \subseteq Entry
  PROVE  TotalSize(S) \in Nat
<1>. DEFINE Bad == {U \in SUBSET S : TotalSize(U) \notin Nat}
<1>. SUFFICES ASSUME Bad # {} PROVE FALSE
  OBVIOUS
<1>1. Bad \in SUBSET (SUBSET S) /\ \A U : U \in Bad <=> U \in SUBSET S /\ TotalSize(U) \notin Nat
  OBVIOUS
<1>. HIDE DEF Bad
<1>2. PICK U \in Bad : \A V \in SUBSET U : V # U => V \notin Bad
  BY <1>1, SmallestBad
<1>3. U \in SUBSET S /\ TotalSize(U) \notin Nat /\ IsFiniteSet(U)
  BY <1>1, FS_Subset
<1>4. U # {}
  BY <1>3, TotalSteps
<1>5. First(U) \in U /\ SizeOf[First(U).pre] \in Nat
  BY <1>3, <1>4, FirstIn, EntrySize
<1>6. TotalSize(U \ {First(U)}) \in Nat
  BY <1>1, <1>2, <1>3, <1>5
<1>. QED BY <1>3, <1>4, <1>5, <1>6, TotalSteps

\* The sum may be taken from any entry on.
LEMMA TotalTakes ==
  ASSUME NEW S, IsFiniteSet(S), S \subseteq Entry, NEW x \in S
  PROVE  TotalSize(S) = SizeOf[x.pre] + TotalSize(S \ {x})
<1>. DEFINE Takes(U, y) == TotalSize(U) = SizeOf[y.pre] + TotalSize(U \ {y})
            Bad == {U \in SUBSET S : \E y \in U : ~Takes(U, y)}
<1>. SUFFICES ASSUME Bad # {} PROVE FALSE
  OBVIOUS
<1>1. Bad \in SUBSET (SUBSET S) /\ \A U : U \in Bad <=> U \in SUBSET S /\ \E y \in U : ~Takes(U, y)
  OBVIOUS
<1>. HIDE DEF Bad
<1>2. PICK U \in Bad : \A V \in SUBSET U : V # U => V \notin Bad
  BY <1>1, SmallestBad
<1>3. PICK y \in U : ~Takes(U, y)
  BY <1>1, <1>2
<1>. DEFINE c == First(U)
            V == U \ {c}
            W == U \ {y}
            N == V \ {y}
<1>4. /\ U \in SUBSET S /\ IsFiniteSet(U) /\ c \in U
      /\ V \in SUBSET U /\ W \in SUBSET U /\ N \in SUBSET U /\ V # U /\ W # U
  BY <1>1, <1>3, FS_Subset, FirstIn
<1>5. TotalSize(U) = SizeOf[c.pre] + TotalSize(V)
  BY <1>3, <1>4, TotalSteps
<1>6. c # y
  BY <1>3, <1>5
<1>7. y \in V /\ c \in W /\ N = W \ {c}
  BY <1>4, <1>6
<1>. HIDE DEF Takes
<1>8. ASSUME NEW T \in SUBSET U, T # U, NEW z \in T PROVE Takes(T, z)
  BY <1>1, <1>2, <1>4, <1>8
<1>9. Takes(V, y) /\ Takes(W, c)
  BY <1>4, <1>7, <1>8
<1>10. SizeOf[c.pre] \in Nat /\ SizeOf[y.pre] \in Nat
  BY <1>3, <1>4, EntrySize
<1>11. TotalSize(N) \in Nat
  <2>1. N \in SUBSET S /\ IsFiniteSet(N)
    BY <1>4, FS_Subset
  <2>. QED BY <2>1, TotalNat
<1>. HIDE DEF N
<1>12. TotalSize(V) = SizeOf[y.pre] + TotalSize(N) /\ TotalSize(W) = SizeOf[c.pre] + TotalSize(N)
  BY <1>7, <1>9 DEF Takes, N
<1>13. TotalSize(U) # SizeOf[y.pre] + TotalSize(W)
  BY <1>3 DEF Takes
<1>. QED BY <1>5, <1>10, <1>11, <1>12, <1>13

LEMMA TotalGrows ==
  ASSUME NEW S, IsFiniteSet(S), S \subseteq Entry, NEW A \in SUBSET S
  PROVE  TotalSize(A) <= TotalSize(S)
<1>. DEFINE Bad == {U \in SUBSET S : A \subseteq U /\ ~(TotalSize(A) <= TotalSize(U))}
<1>. SUFFICES ASSUME Bad # {} PROVE FALSE
  OBVIOUS
<1>1. /\ Bad \in SUBSET (SUBSET S)
      /\ \A U : U \in Bad <=> U \in SUBSET S /\ A \subseteq U /\ ~(TotalSize(A) <= TotalSize(U))
  OBVIOUS
<1>. HIDE DEF Bad
<1>2. PICK U \in Bad : \A V \in SUBSET U : V # U => V \notin Bad
  BY <1>1, SmallestBad
<1>3. /\ U \in SUBSET S /\ IsFiniteSet(U) /\ U \subseteq Entry /\ A \subseteq U
      /\ TotalSize(A) \in Nat /\ TotalSize(U) \in Nat /\ TotalSize(A) > TotalSize(U)
  <2>1. U \in SUBSET S /\ A \subseteq U /\ ~(TotalSize(A) <= TotalSize(U))
    BY <1>1
  <2>2. IsFiniteSet(U) /\ IsFiniteSet(A) /\ U \subseteq Entry /\ A \subseteq Entry
    BY <2>1, FS_Subset
  <2>3. TotalSize(A) \in Nat /\ TotalSize(U) \in Nat
    BY <2>2, TotalNat
  <2>. QED BY <2>1, <2>2, <2>3
<1>4. U # A
  BY <1>3
<1>5. PICK x \in U : x \notin A
  BY <1>3, <1>4
<1>. DEFINE V == U \ {x}
<1>6. V \in SUBSET U /\ V # U /\ V \in SUBSET S /\ A \subseteq V /\ IsFiniteSet(V)
  BY <1>3, <1>5, FS_Subset
<1>7. TotalSize(A) <= TotalSize(V) /\ TotalSize(V) \in Nat
  BY <1>1, <1>2, <1>6, TotalNat
<1>8. TotalSize(U) = SizeOf[x.pre] + TotalSize(V) /\ SizeOf[x.pre] \in Nat
  BY <1>3, <1>5, TotalTakes, EntrySize
<1>. QED BY <1>3, <1>7, <1>8

\* The index is rewritten with what the loop left, which is within the limits
\* by the sizes of all its entries.
Bounded == pc = "ready" => index = {cur} \/ ~OverLimit(index)

LEMMA StepBounded == Bounded /\ [Next]_vars => Bounded'
<1>. SUFFICES ASSUME Bounded, [Next]_vars PROVE Bounded'
  OBVIOUS
<1>1. CASE pc' # "ready"
  BY <1>1 DEF Bounded
<1>2. CASE WriteIndex
  BY <1>2 DEF WriteIndex, Bounded, OverLimit, TotalSize, MapThenSumSet, MapThenFoldSet
<1>3. CASE UNCHANGED <<index, pc, cur>>
  BY <1>3 DEF Bounded, OverLimit, TotalSize, MapThenSumSet, MapThenFoldSet
<1>. QED
  BY <1>1, <1>2, <1>3
  DEF Next, Mutate, Restore, Capture, AppendEntry, EvictOldest, ApplyMutation, ApplyRestore, TornRestore, Abort,
      Finish, OwnerEdits, vars

\* Once the limits were enforced they hold, for every limit and every size: the
\* store keeps no more checkpoints and no more bytes than it declares, unless
\* the operation's own checkpoint is all it has.
THEOREM LimitsAreEnforced == Spec => []LimitsEnforced
<1>1. Init => Bounded /\ TypeOK /\ FiniteStore
  BY InitTypes, FS_EmptySet DEF Init, Bounded, FiniteStore
<1>2. Bounded /\ TypeOK /\ FiniteStore => LimitsEnforced
  <2>. SUFFICES ASSUME Bounded, TypeOK, FiniteStore, pc = "ready", index # {cur}
                PROVE  /\ Cardinality(index) <= MaxCheckpoints
                       /\ TotalSize({e \in index : e.pre \in Kept}) <= MaxTotalBytes
    BY DEF LimitsEnforced
  <2>. DEFINE held == {e \in index : e.pre \in Kept}
  <2>1. ~(Cardinality(index) > MaxCheckpoints) /\ ~(TotalSize(index) > MaxTotalBytes)
    BY DEF Bounded, OverLimit
  <2>2. IsFiniteSet(index) /\ index \subseteq Entry /\ held \in SUBSET index
    BY DEF FiniteStore, TypeOK
  <2>. HIDE DEF held
  <2>3. IsFiniteSet(held) /\ held \subseteq Entry
    BY <2>2, FS_Subset
  <2>4. Cardinality(index) \in Nat /\ TotalSize(index) \in Nat /\ TotalSize(held) \in Nat
    BY <2>2, <2>3, FS_CardinalityType, TotalNat
  <2>5. TotalSize(held) <= TotalSize(index)
    BY <2>2, TotalGrows
  <2>. QED BY <2>1, <2>4, <2>5 DEF held
<1>. QED
  BY <1>1, <1>2, StepTypes, StepFinite, StepBounded, PTL DEF Spec
=============================================================================
