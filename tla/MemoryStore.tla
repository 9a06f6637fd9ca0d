----------------------------- MODULE MemoryStore -----------------------------
(***************************************************************************)
(* The agent's memory (memory_store.rs): facts per project in one SQLite   *)
(* table with a full-text index that triggers keep, deduplicated by        *)
(* content, recalled by importance and age, and forgotten by id.  What kind *)
(* a memory is, and its tags, are only counted and shown.                  *)
(***************************************************************************)
EXTENDS Integers, Sequences, FiniteSets

CONSTANTS Projects, Contents,
          Terms,      \* [Contents -> SUBSET words]: what a query finds a content by
          Day,        \* a day on the clock, which moves by ten: a step of importance
          MemoryTime, \* bound: the clock
          MemoryIds,  \* bound: memories ever written
          MaxHits     \* bound: how often one memory is counted

ASSUME MemoryAssumption ==
  Day \in Nat \ {0} /\ MemoryTime \in Nat /\ MemoryIds \in Nat /\ MaxHits \in Nat

VARIABLES memories, \* the rows, by id
          indexed,  \* the full-text index: <<id, content>>
          written,  \* AUTOINCREMENT: ids given to rows so far
          told,     \* what each project was told to remember and not to forget:
                    \* [project, id, content], the id as it was answered
          today     \* the time

memoryVars == <<memories, indexed, written, told, today>>

MemoryInit == memories = [i \in {} |-> 0] /\ indexed = {} /\ written = 0 /\ told = {} /\ today = 0

Importance == 1 .. 5
Clamped(n) == IF n < 1 THEN 1 ELSE IF n > 5 THEN 5 ELSE n

InProject(p) == {i \in DOMAIN memories : memories[i].project = p}
Duplicates(p, c) == {i \in InProject(p) : memories[i].content = c}
Counted(i) == IF memories[i].hits < MaxHits THEN memories[i].hits + 1 ELSE MaxHits

Told(p, i, c) == told' = told \cup {[project |-> p, id |-> i, content |-> c]}

----------------------------------------------------------------------------
\* Ids are never given out twice (AUTOINCREMENT), and the insert trigger indexes.
Insert(p, c, n) ==
  LET i == written + 1
      row == [project |-> p, content |-> c, importance |-> Clamped(n), at |-> today, hits |-> 0]
  IN /\ i <= MemoryIds
     /\ memories' = [j \in DOMAIN memories \cup {i} |-> IF j = i THEN row ELSE memories[j]]
     /\ indexed' = indexed \cup {<<i, c>>}
     /\ written' = i /\ Told(p, i, c)

\* Told again, a memory gains importance and is recent; its kind and tags stay.
Bump(p, i, c) ==
  /\ memories' = [memories EXCEPT ![i].importance = Clamped(@ + 1), ![i].at = today, ![i].hits = Counted(i)]
  /\ Told(p, i, c)
  /\ UNCHANGED <<indexed, written>>

\* Mutant: the duplicate is looked for in every project.
RememberAcross(p, c, n) ==
  /\ IF \E q \in Projects : Duplicates(q, c) # {}
     THEN \E q \in Projects : \E i \in Duplicates(q, c) : Bump(p, i, c)
     ELSE Insert(p, c, n)
  /\ UNCHANGED today

Remember(p, c, n) ==
  /\ IF Duplicates(p, c) # {}
     THEN \E i \in Duplicates(p, c) : Bump(p, i, c)
     ELSE Insert(p, c, n)
  /\ UNCHANGED today

\* A reflection is a memory of importance 4.
Reflect(p, c) == Remember(p, c, 4)

----------------------------------------------------------------------------
\* Recall ranks by importance and day, then by time, then by id.
Rank(i) == memories[i].importance * 10 + memories[i].at \div Day
Before(i, j) ==
  \/ Rank(i) > Rank(j)
  \/ Rank(i) = Rank(j) /\ memories[i].at > memories[j].at
  \/ Rank(i) = Rank(j) /\ memories[i].at = memories[j].at /\ i > j

\* Without a query all of a project's rows match, else those the index finds.
Found(p, query) ==
  IF query = {} THEN InProject(p)
  ELSE {i \in InProject(p) : \E c \in Contents : <<i, c>> \in indexed /\ query \subseteq Terms[c]}

AtMost(n, lo, hi) == IF n < lo THEN lo ELSE IF n > hi THEN hi ELSE n

\* The first of what was found, at most as many as asked for, are each counted.
Recalled(p, query, limit) ==
  LET found == Found(p, query)
  IN {i \in found : Cardinality({j \in found : Before(j, i)}) < AtMost(limit, 1, 100)}

Recall(p, query, limit) ==
  /\ memories' = [i \in DOMAIN memories |->
                    IF i \in Recalled(p, query, limit) THEN [memories[i] EXCEPT !.hits = Counted(i)] ELSE memories[i]]
  /\ UNCHANGED <<indexed, written, told, today>>

----------------------------------------------------------------------------
\* The rows go, and the delete trigger takes them from the index.
Drop(rows) ==
  /\ memories' = [i \in DOMAIN memories \ rows |-> memories[i]]
  /\ indexed' = {e \in indexed : e[1] \notin rows}
  /\ UNCHANGED <<written, today>>

Untold(p, ids) == told' = {t \in told : t.project = p => t.id \notin ids}

\* An id that the project does not have, or has no longer, deletes nothing.
Forget(p, i) == Drop({i} \cap InProject(p)) /\ Untold(p, {i})
\* `all' wins over an id.
ForgetAll(p) == Drop(InProject(p)) /\ Untold(p, 1 .. written)

Pass(d) == today + d <= MemoryTime /\ today' = today + d /\ UNCHANGED <<memories, indexed, written, told>>

MemoryNext ==
  \/ \E p \in Projects, c \in Contents :
       Reflect(p, c) \/ \E n \in {0, 9} : Remember(p, c, n)
  \/ \E p \in Projects, query \in {{}} \cup {Terms[c] \cap Terms[d] : c, d \in Contents}, limit \in {0, 2} :
       Recall(p, query, limit)
  \/ \E p \in Projects, i \in 1 .. MemoryIds : Forget(p, i)
  \/ \E p \in Projects : ForgetAll(p)
  \/ Pass(10 * Day)

MemorySpec == MemoryInit /\ [][MemoryNext]_memoryVars

----------------------------------------------------------------------------
\* Type correctness of the rows.
MemoryTypeOK ==
  /\ \A i \in DOMAIN memories :
       memories[i].importance \in Importance /\ memories[i].at <= today /\ memories[i].hits <= MaxHits
  /\ DOMAIN memories \subseteq 1 .. written /\ written <= MemoryIds

\* What a project was told is remembered until that project is told to forget it:
\* once, under the id the caller was given, which never comes to mean something
\* else, and search finds exactly that (memory_store.rs: remember, forget,
\* migrate).
MemoryAsTold ==
  /\ MemoryTypeOK
  /\ told = {[project |-> memories[i].project, id |-> i, content |-> memories[i].content] : i \in DOMAIN memories}
  /\ \A t, u \in told : t.project = u.project /\ t.content = u.content => t = u
  /\ indexed = {<<t.id, t.content>> : t \in told}
==============================================================================
