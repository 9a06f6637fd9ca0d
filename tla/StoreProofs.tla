----------------------------- MODULE StoreProofs -----------------------------
(***************************************************************************)
(* The two databases: the chat archive holds the newest snapshot it was    *)
(* told of every conversation, and the memory holds what it was told, for  *)
(* any numbers of conversations, messages, projects, contents and ids.     *)
(***************************************************************************)
EXTENDS ChatStore, MemoryStore, SequenceTheorems, TLAPS

USE ChatAssumption, MemoryAssumption

(* The chat archive. *)

Statements == AllTables \cup {"version1", "version2"}

\* The migration only adds tables and sets the version.
Schema ==
  /\ version \in 0 .. 2 /\ tables \subseteq AllTables /\ opened \in BOOLEAN
  /\ opening \in Seq(Statements)

\* Rows and messages are of known ids and values.
ConvRows ==
  /\ convs = [c \in DOMAIN convs |-> convs[c]]
  /\ DOMAIN convs \subseteq Chats /\ \A c \in DOMAIN convs : convs[c] \in 1 .. LastTime
MsgRows ==
  /\ msgs = [n \in DOMAIN msgs |-> msgs[n]]
  /\ DOMAIN msgs \subseteq Notes /\ \A n \in DOMAIN msgs : msgs[n] \in Texts

Heard ==
  /\ heard = [c \in DOMAIN heard |-> heard[c]] /\ DOMAIN heard = DOMAIN convs
  /\ \A c \in DOMAIN convs : heard[c].at = convs[c] /\ heard[c].says \in Listings(c)

NoneOrphaned == \A n \in DOMAIN msgs : ChatOf[n] \in DOMAIN convs

\* The messages of a conversation are those of its newest snapshot.
SaysAsHeard(c) ==
  DOMAIN heard[c].says # {} =>
    /\ DOMAIN msgs \cap NotesOf(c) = DOMAIN heard[c].says
    /\ \A n \in DOMAIN heard[c].says : msgs[n] = heard[c].says[n]

ChatInv ==
  /\ Schema /\ ConvRows /\ MsgRows /\ Heard /\ NoneOrphaned
  /\ \A c \in DOMAIN convs : SaysAsHeard(c)

\* What a snapshot lists is a function from notes of its conversation to texts.
LEMMA Listing ==
  ASSUME NEW c
  PROVE  /\ \A says \in Listings(c) : /\ says = [n \in DOMAIN says |-> says[n]]
                                      /\ DOMAIN says \subseteq NotesOf(c)
                                      /\ \A n \in DOMAIN says : says[n] \in Texts
         /\ \A f : f = [n \in DOMAIN f |-> f[n]] /\ DOMAIN f \subseteq NotesOf(c)
                   /\ (\A n \in DOMAIN f : f[n] \in Texts) => f \in Listings(c)
BY DEF Listings

LEMMA ChatInitInv == ChatInit => ChatInv
<1>. SUFFICES ASSUME ChatInit PROVE ChatInv
  OBVIOUS
<1>1. Schema
  <2>1. version \in 0 .. 2
    <3>1. version = 0 \/ version = 1
      BY Zenon DEF ChatInit
    <3>. QED BY <3>1
  <2>2. tables \subseteq AllTables
    BY DEF ChatInit, AllTables
  <2>3. opening \in Seq(Statements) /\ opened \in BOOLEAN
    BY EmptySeq DEF ChatInit
  <2>. QED BY <2>1, <2>2, <2>3 DEF Schema
<1>2. CASE version = 0 /\ convs = Empty /\ msgs = Empty /\ heard = Empty
  BY <1>1, <1>2 DEF ChatInv, ConvRows, MsgRows, Heard, NoneOrphaned, Empty
<1>3. ASSUME NEW c \in Chats, NEW n \in Notes, NEW x \in Texts, ChatOf[n] = c,
             convs = [d \in {c} |-> 1], msgs = [m \in {n} |-> x],
             heard = [d \in {c} |-> [at |-> 1, says |-> msgs]]
      PROVE  ChatInv
  <2>1. DOMAIN msgs = {n} /\ msgs[n] = x /\ n \in NotesOf(c)
    BY <1>3 DEF NotesOf
  <2>2. msgs \in Listings(c)
    BY <1>3, <2>1, Listing
  <2>3. ConvRows /\ MsgRows /\ Heard /\ NoneOrphaned
    BY <1>3, <2>1, <2>2 DEF ConvRows, MsgRows, Heard, NoneOrphaned
  <2>4. SaysAsHeard(c)
    BY <1>3, <2>1 DEF SaysAsHeard
  <2>. QED BY <1>1, <1>3, <2>3, <2>4 DEF ChatInv
<1>. QED BY <1>2, <1>3 DEF ChatInit

\* Steps of the schema leave the rows alone.
LEMMA SchemaStep ==
  ASSUME ChatInv, Schema', UNCHANGED <<convs, msgs, heard>>
  PROVE  ChatInv'
BY DEF ChatInv, ConvRows, MsgRows, Heard, NoneOrphaned, SaysAsHeard, NotesOf, Listings

LEMMA MigrationIn == \A v \in 0 .. 2 : Migration(v) \in Seq(Statements)
<1>1. V1 \in Seq(Statements)
  BY DEF V1, Statements, AllTables
<1>2. V2 \in Seq(Statements)
  BY DEF V2, Statements, AllTables
<1>3. <<Meta>> \in Seq(Statements)
  BY DEF Meta, Statements, AllTables
<1>. QED BY <1>1, <1>2, <1>3, EmptySeq, ConcatProperties DEF Migration

LEMMA MigratePreserves ==
  ASSUME ChatInv, OpenChats \/ Migrate \/ ChatsClosed
  PROVE  ChatInv'
<1>1. CASE OpenChats
  BY <1>1, MigrationIn, SchemaStep DEF OpenChats, ChatInv, Schema
<1>2. CASE ChatsClosed
  BY <1>2, EmptySeq, SchemaStep DEF ChatsClosed, ChatInv, Schema
<1>3. CASE Migrate
  <2>1. Tail(opening) \in Seq(Statements)
    BY <1>3, HeadTailProperties DEF Migrate, ChatInv, Schema
  <2>2. version' \in 0 .. 2
    BY <1>3 DEF Migrate, ChatInv, Schema
  <2>3. Schema'
    BY <1>3, <2>1, <2>2 DEF Migrate, ChatInv, Schema
  <2>. QED BY <1>3, <2>3, SchemaStep DEF Migrate
<1>. QED BY <1>1, <1>2, <1>3

LEMMA UpsertPreserves ==
  ASSUME ChatInv, NEW c \in Chats, NEW at \in 1 .. LastTime, NEW says \in Listings(c), Upsert(c, at, says)
  PROVE  ChatInv'
<1>1. Schema' /\ (Newer(c, at) <=> Current(convs, c, at))
  BY DEF Upsert, chatSchema, Newer, Current, ChatInv, Schema, Heard
<1>2. CASE ~Current(convs, c, at)
  BY <1>1, <1>2, SchemaStep DEF Upsert, Hears
<1>3. CASE Current(convs, c, at)
  <2>1. /\ convs' = Stored(convs, c, at) /\ msgs' = Merged(c, says)
        /\ heard' = [d \in DOMAIN heard \cup {c} |->
                       IF d = c THEN [at |-> at, says |-> says] ELSE heard[d]]
    BY <1>1, <1>3 DEF Upsert, Hears
  <2>2. /\ DOMAIN convs' = DOMAIN convs \cup {c} /\ convs'[c] = at
        /\ \A d \in DOMAIN convs \ {c} : convs'[d] = convs[d]
        /\ convs' = [d \in DOMAIN convs' |-> convs'[d]]
    BY <2>1 DEF Stored
  <2>3. /\ DOMAIN heard' = DOMAIN heard \cup {c} /\ heard'[c].at = at /\ heard'[c].says = says
        /\ \A d \in DOMAIN heard \ {c} : heard'[d] = heard[d]
        /\ heard' = [d \in DOMAIN heard' |-> heard'[d]]
    BY <2>1
  <2>4. /\ says = [n \in DOMAIN says |-> says[n]] /\ DOMAIN says \subseteq NotesOf(c)
        /\ \A n \in DOMAIN says : says[n] \in Texts
    BY Listing
  <2>5. /\ DOMAIN msgs' = IF DOMAIN says = {} THEN DOMAIN msgs ELSE (DOMAIN msgs \ NotesOf(c)) \cup DOMAIN says
        /\ \A n \in DOMAIN msgs' : msgs'[n] = IF n \in DOMAIN says THEN says[n] ELSE msgs[n]
        /\ msgs' = [n \in DOMAIN msgs' |-> msgs'[n]]
    BY <2>1 DEF Merged
  <2>6. ConvRows' /\ Heard'
    BY <2>2, <2>3 DEF ChatInv, ConvRows, Heard, Listings, NotesOf
  <2>7. MsgRows'
    BY <2>4, <2>5 DEF ChatInv, MsgRows, NotesOf
  <2>8. NoneOrphaned'
    BY <2>2, <2>4, <2>5 DEF ChatInv, NoneOrphaned, NotesOf
  <2>9. ASSUME NEW d \in DOMAIN convs' PROVE SaysAsHeard(d)'
    <3>1. CASE d = c
      BY <2>3, <2>4, <2>5, <3>1 DEF SaysAsHeard, NotesOf
    <3>2. CASE d # c
      <4>1. d \in DOMAIN convs /\ d \in DOMAIN heard /\ heard'[d] = heard[d] /\ SaysAsHeard(d)
        BY <2>2, <2>3, <3>2 DEF ChatInv, Heard
      <4>2. /\ DOMAIN msgs' \cap NotesOf(d) = DOMAIN msgs \cap NotesOf(d)
            /\ \A n \in DOMAIN msgs \cap NotesOf(d) : msgs'[n] = msgs[n]
        BY <2>4, <2>5, <3>2 DEF NotesOf
      <4>. QED BY <4>1, <4>2 DEF SaysAsHeard, NotesOf
    <3>. QED BY <3>1, <3>2
  <2>. QED BY <1>1, <2>6, <2>7, <2>8, <2>9 DEF ChatInv
<1>. QED BY <1>2, <1>3

LEMMA DeletePreserves ==
  ASSUME ChatInv, NEW c \in Chats, DeleteChat(c)
  PROVE  ChatInv'
<1>1. /\ DOMAIN convs' = DOMAIN convs \ {c} /\ \A d \in DOMAIN convs' : convs'[d] = convs[d]
      /\ convs' = [d \in DOMAIN convs' |-> convs'[d]]
  BY DEF DeleteChat
<1>2. /\ DOMAIN msgs' = DOMAIN msgs \ NotesOf(c) /\ \A n \in DOMAIN msgs' : msgs'[n] = msgs[n]
      /\ msgs' = [n \in DOMAIN msgs' |-> msgs'[n]]
  BY DEF DeleteChat
<1>3. /\ DOMAIN heard' = DOMAIN heard \ {c} /\ \A d \in DOMAIN heard' : heard'[d] = heard[d]
      /\ heard' = [d \in DOMAIN heard' |-> heard'[d]]
  BY DEF DeleteChat
<1>4. Schema'
  BY DEF DeleteChat, chatSchema, ChatInv, Schema
<1>5. ConvRows' /\ MsgRows'
  BY <1>1, <1>2 DEF ChatInv, ConvRows, MsgRows
<1>6. Heard'
  BY <1>1, <1>3 DEF ChatInv, Heard, Listings, NotesOf
<1>7. NoneOrphaned'
  BY <1>1, <1>2 DEF ChatInv, NoneOrphaned, MsgRows, NotesOf
<1>8. ASSUME NEW d \in DOMAIN convs' PROVE SaysAsHeard(d)'
  <2>1. d # c /\ d \in DOMAIN heard' /\ heard'[d] = heard[d] /\ SaysAsHeard(d)
    BY <1>1, <1>3 DEF ChatInv, Heard
  <2>2. /\ DOMAIN msgs' \cap NotesOf(d) = DOMAIN msgs \cap NotesOf(d)
        /\ \A n \in DOMAIN msgs \cap NotesOf(d) : msgs'[n] = msgs[n]
    BY <1>2, <2>1 DEF NotesOf
  <2>. QED BY <2>1, <2>2 DEF SaysAsHeard, NotesOf
<1>. QED BY <1>4, <1>5, <1>6, <1>7, <1>8 DEF ChatInv

LEMMA ChatStepInv == ChatInv /\ [ChatNext]_chatVars => ChatInv'
<1>. SUFFICES ASSUME ChatInv, [ChatNext]_chatVars PROVE ChatInv'
  OBVIOUS
<1>1. CASE OpenChats \/ Migrate \/ ChatsClosed
  BY <1>1, MigratePreserves
<1>2. ASSUME NEW c \in Chats, ChatPush(c) PROVE ChatInv'
  BY <1>2, UpsertPreserves DEF ChatPush
<1>3. ASSUME NEW c \in Chats, DeleteChat(c) PROVE ChatInv'
  BY <1>3, DeletePreserves
<1>4. CASE UNCHANGED <<chatSchema, convs, msgs, heard>>
  BY <1>4, SchemaStep DEF chatSchema, ChatInv, Schema
<1>5. CASE \E d \in Docs, at \in 0 .. LastTime : UpsertDoc(d, at)
  BY <1>4, <1>5 DEF UpsertDoc
<1>6. CASE UNCHANGED chatVars
  BY <1>4, <1>6 DEF chatVars, chatSchema
<1>. QED BY <1>1, <1>2, <1>3, <1>5, <1>6 DEF ChatNext

\* However snapshots arrive and however often the daemon dies while it migrates,
\* each conversation is as its newest snapshot told it (chat_store.rs:
\* upsert_conversation, delete_conversation, migrate).
THEOREM NewestSnapshotHeld == ChatSpec => []ChatAsNewestTold
<1>1. ASSUME ChatInv PROVE ChatAsNewestTold
  <2>1. convs \in [DOMAIN convs -> 1 .. LastTime] /\ DOMAIN convs \in SUBSET Chats
    BY <1>1 DEF ChatInv, ConvRows
  <2>2. msgs \in [DOMAIN msgs -> Texts] /\ DOMAIN msgs \in SUBSET Notes
    BY <1>1 DEF ChatInv, MsgRows
  <2>3. ChatTypeOK
    BY <1>1, <2>1, <2>2 DEF ChatInv, Schema, NoneOrphaned, ChatTypeOK
  <2>4. ASSUME NEW c \in DOMAIN convs, DOMAIN heard[c].says # {}
        PROVE  [n \in DOMAIN msgs \cap NotesOf(c) |-> msgs[n]] = heard[c].says
    <3>1. heard[c].says \in Listings(c) /\ SaysAsHeard(c)
      BY <1>1 DEF ChatInv, Heard
    <3>2. heard[c].says = [n \in DOMAIN heard[c].says |-> heard[c].says[n]]
      BY <3>1, Listing
    <3>. QED BY <2>4, <3>1, <3>2 DEF SaysAsHeard
  <2>. QED BY <1>1, <2>3, <2>4 DEF ChatInv, Heard, ChatAsNewestTold
<1>. QED
  BY ChatInitInv, ChatStepInv, <1>1, PTL DEF ChatSpec

----------------------------------------------------------------------------
(* The memory. *)

Row == [project : Projects, content : Contents, importance : Importance, at : Nat, hits : 0 .. MaxHits]

\* The inductive invariant.  A project and a content have one row at most.
Rows ==
  /\ memories = [i \in DOMAIN memories |-> memories[i]] /\ DOMAIN memories \subseteq 1 .. written
  /\ \A i \in DOMAIN memories : memories[i] \in Row /\ memories[i].at <= today
  /\ written \in 0 .. MemoryIds /\ today \in Nat

OneEach ==
  \A i, j \in DOMAIN memories :
    memories[i].project = memories[j].project /\ memories[i].content = memories[j].content => i = j

AsTold == told = {[project |-> memories[i].project, id |-> i, content |-> memories[i].content] : i \in DOMAIN memories}
Indexed == indexed = {<<i, memories[i].content>> : i \in DOMAIN memories}

MemoryInv == Rows /\ OneEach /\ AsTold /\ Indexed

LEMMA MemoryInitInv == MemoryInit => MemoryInv
BY DEF MemoryInit, MemoryInv, Rows, OneEach, AsTold, Indexed

\* Steps that change neither which rows there are nor what they say.
LEMMA RowsKept ==
  ASSUME MemoryInv, Rows', DOMAIN memories' = DOMAIN memories,
         \A i \in DOMAIN memories : /\ memories'[i].project = memories[i].project
                                    /\ memories'[i].content = memories[i].content,
         UNCHANGED <<indexed, told>>
  PROVE  MemoryInv'
<1>1. OneEach'
  BY DEF MemoryInv, OneEach
<1>2. AsTold'
  BY DEF MemoryInv, AsTold
<1>3. Indexed'
  BY DEF MemoryInv, Indexed
<1>. QED BY <1>1, <1>2, <1>3 DEF MemoryInv

LEMMA ClampedIn == \A n \in Int : Clamped(n) \in Importance
BY DEF Clamped, Importance

LEMMA CountedIn == ASSUME Rows, NEW i \in DOMAIN memories PROVE Counted(i) \in 0 .. MaxHits
BY DEF Rows, Row, Counted

LEMMA BumpPreserves ==
  ASSUME MemoryInv, NEW p \in Projects, NEW c \in Contents, NEW i \in Duplicates(p, c), Bump(p, i, c), UNCHANGED today
  PROVE  MemoryInv'
<1>1. i \in DOMAIN memories /\ memories[i].project = p /\ memories[i].content = c /\ memories[i] \in Row
  BY DEF Duplicates, InProject, MemoryInv, Rows
<1>. DEFINE r == [memories[i] EXCEPT !.importance = Clamped(memories[i].importance + 1),
                                     !.at = today, !.hits = Counted(i)]
<1>2. r \in Row /\ r.project = p /\ r.content = c /\ r.at <= today
  <2>1. memories[i].importance + 1 \in Int /\ today \in Nat
    BY <1>1 DEF Row, Importance, MemoryInv, Rows
  <2>2. Clamped(memories[i].importance + 1) \in Importance /\ Counted(i) \in 0 .. MaxHits
    BY <1>1, <2>1, ClampedIn, CountedIn DEF MemoryInv
  <2>3. r \in Row
    BY <1>1, <2>1, <2>2 DEF Row
  <2>4. r.project = p /\ r.content = c /\ r.at = today
    BY <1>1 DEF Row
  <2>. QED BY <2>1, <2>3, <2>4
<1>3. memories' = [memories EXCEPT ![i] = r]
  BY <1>1 DEF Bump, MemoryInv, Rows
<1>. HIDE DEF r
<1>4. /\ DOMAIN memories' = DOMAIN memories /\ memories'[i] = r
      /\ \A j \in DOMAIN memories \ {i} : memories'[j] = memories[j]
      /\ memories' = [j \in DOMAIN memories' |-> memories'[j]]
  BY <1>1, <1>3 DEF MemoryInv, Rows
<1>5. Rows'
  BY <1>1, <1>2, <1>4 DEF Bump, MemoryInv, Rows
<1>6. UNCHANGED <<indexed, told>>
  BY <1>1 DEF Bump, Told, MemoryInv, AsTold
<1>. QED BY <1>1, <1>2, <1>4, <1>5, <1>6, RowsKept

LEMMA InsertPreserves ==
  ASSUME MemoryInv, NEW p \in Projects, NEW c \in Contents, NEW n \in Int, Duplicates(p, c) = {},
         Insert(p, c, n), UNCHANGED today
  PROVE  MemoryInv'
<1>. DEFINE i == written + 1
            r == [project |-> p, content |-> c, importance |-> Clamped(n), at |-> today, hits |-> 0]
<1>1. /\ i \in 1 .. MemoryIds /\ i \notin DOMAIN memories
      /\ memories' = [j \in DOMAIN memories \cup {i} |-> IF j = i THEN r ELSE memories[j]]
      /\ indexed' = indexed \cup {<<i, c>>} /\ written' = i
      /\ told' = told \cup {[project |-> p, id |-> i, content |-> c]}
  BY DEF Insert, Told, MemoryInv, Rows
<1>2. r \in Row /\ r.project = p /\ r.content = c /\ r.at = today
  BY ClampedIn DEF Row, MemoryInv, Rows
<1>. HIDE DEF r
<1>3. /\ DOMAIN memories' = DOMAIN memories \cup {i} /\ memories'[i] = r
      /\ \A j \in DOMAIN memories : memories'[j] = memories[j]
      /\ memories' = [j \in DOMAIN memories' |-> memories'[j]]
  BY <1>1
<1>4. Rows'
  BY <1>1, <1>2, <1>3 DEF MemoryInv, Rows
<1>5. OneEach'
  BY <1>1, <1>2, <1>3 DEF MemoryInv, OneEach, Duplicates, InProject
<1>6. AsTold'
  <2>. DEFINE Said(m, j) == [project |-> m[j].project, id |-> j, content |-> m[j].content]
  <2>1. Said(memories', i) = [project |-> p, id |-> i, content |-> c]
    BY <1>2, <1>3
  <2>2. \A j \in DOMAIN memories : Said(memories', j) = Said(memories, j)
    BY <1>3
  <2>3. {Said(memories', j) : j \in DOMAIN memories'} = {Said(memories, j) : j \in DOMAIN memories} \cup {Said(memories', i)}
    BY <1>3, <2>2
  <2>. QED BY <1>1, <2>1, <2>3 DEF MemoryInv, AsTold
<1>7. Indexed'
  BY <1>1, <1>2, <1>3 DEF MemoryInv, Indexed
<1>. QED BY <1>4, <1>5, <1>6, <1>7 DEF MemoryInv

LEMMA RecallPreserves ==
  ASSUME MemoryInv, NEW p \in Projects, NEW query, NEW limit \in Int, Recall(p, query, limit)
  PROVE  MemoryInv'
<1>1. /\ DOMAIN memories' = DOMAIN memories /\ UNCHANGED <<indexed, written, told, today>>
      /\ memories' = [j \in DOMAIN memories' |-> memories'[j]]
  BY DEF Recall
<1>2. ASSUME NEW i \in DOMAIN memories
      PROVE  /\ memories'[i] \in Row /\ memories'[i].at = memories[i].at
             /\ memories'[i].project = memories[i].project /\ memories'[i].content = memories[i].content
  <2>1. memories[i] \in Row /\ Counted(i) \in 0 .. MaxHits
    BY CountedIn DEF MemoryInv, Rows
  <2>2. memories'[i] = memories[i] \/ memories'[i] = [memories[i] EXCEPT !.hits = Counted(i)]
    BY DEF Recall
  <2>. QED BY <2>1, <2>2 DEF Row
<1>3. Rows'
  BY <1>1, <1>2 DEF MemoryInv, Rows
<1>. QED BY <1>1, <1>2, <1>3, RowsKept

LEMMA DropPreserves ==
  ASSUME MemoryInv, NEW p \in Projects, NEW ids, Drop(ids \cap InProject(p)), Untold(p, ids)
  PROVE  MemoryInv'
<1>. DEFINE gone == ids \cap InProject(p)
<1>1. /\ DOMAIN memories' = DOMAIN memories \ gone /\ UNCHANGED <<written, today>>
      /\ \A i \in DOMAIN memories' : memories'[i] = memories[i]
      /\ memories' = [j \in DOMAIN memories' |-> memories'[j]]
      /\ indexed' = {e \in indexed : e[1] \notin gone}
      /\ told' = {t \in told : t.project = p => t.id \notin ids}
  BY DEF Drop, Untold
<1>2. gone \subseteq DOMAIN memories /\ \A i \in DOMAIN memories : i \in gone <=> memories[i].project = p /\ i \in ids
  BY DEF InProject
<1>. HIDE DEF gone
<1>3. Rows' /\ OneEach'
  BY <1>1 DEF MemoryInv, Rows, OneEach
<1>4. AsTold'
  BY <1>1, <1>2 DEF MemoryInv, AsTold
<1>5. Indexed'
  BY <1>1 DEF MemoryInv, Indexed
<1>. QED BY <1>3, <1>4, <1>5 DEF MemoryInv

LEMMA MemoryStepInv == MemoryInv /\ [MemoryNext]_memoryVars => MemoryInv'
<1>. SUFFICES ASSUME MemoryInv, [MemoryNext]_memoryVars PROVE MemoryInv'
  OBVIOUS
<1>1. ASSUME NEW p \in Projects, NEW c \in Contents, NEW n \in Int, Remember(p, c, n) PROVE MemoryInv'
  BY <1>1, BumpPreserves, InsertPreserves DEF Remember
<1>2. ASSUME NEW p \in Projects, NEW c \in Contents, Reflect(p, c) PROVE MemoryInv'
  BY <1>1, <1>2 DEF Reflect
<1>3. ASSUME NEW p \in Projects, NEW query, NEW limit \in Int, Recall(p, query, limit) PROVE MemoryInv'
  BY <1>3, RecallPreserves
<1>4. ASSUME NEW p \in Projects, NEW i \in 1 .. MemoryIds, Forget(p, i) PROVE MemoryInv'
  BY <1>4, DropPreserves DEF Forget
<1>5. ASSUME NEW p \in Projects, ForgetAll(p) PROVE MemoryInv'
  <2>1. (1 .. written) \cap InProject(p) = InProject(p)
    BY DEF InProject, MemoryInv, Rows
  <2>. QED BY <1>5, <2>1, DropPreserves DEF ForgetAll
<1>6. CASE UNCHANGED memoryVars \/ Pass(10 * Day)
  <2>1. UNCHANGED <<memories, indexed, written, told>> /\ today' \in Nat /\ today <= today'
    BY <1>6 DEF Pass, memoryVars, MemoryInv, Rows
  <2>2. Rows'
    BY <2>1 DEF MemoryInv, Rows, Row
  <2>. QED BY <2>1, <2>2, RowsKept
<1>. QED
  BY <1>1, <1>2, <1>3, <1>4, <1>5, <1>6 DEF MemoryNext

\* What a project was told stays, under its id and once, until that project is
\* told to forget it, and the index the triggers keep finds exactly that
\* (memory_store.rs: remember, recall, forget, migrate).
THEOREM ToldIsRemembered == MemorySpec => []MemoryAsTold
<1>1. MemoryInv => MemoryAsTold
  <2>1. MemoryInv => MemoryTypeOK
    BY DEF MemoryInv, Rows, Row, MemoryTypeOK
  <2>2. MemoryInv => \A t, u \in told : t.project = u.project /\ t.content = u.content => t = u
    BY DEF MemoryInv, AsTold, OneEach
  <2>3. MemoryInv => indexed = {<<t.id, t.content>> : t \in told}
    <3>. SUFFICES ASSUME MemoryInv PROVE indexed = {<<t.id, t.content>> : t \in told}
      OBVIOUS
    <3>1. \A t \in told : t.id \in DOMAIN memories /\ t.content = memories[t.id].content
      BY DEF MemoryInv, AsTold
    <3>2. \A i \in DOMAIN memories : \E t \in told : t.id = i /\ t.content = memories[i].content
      <4>. TAKE i \in DOMAIN memories
      <4>. DEFINE t == [project |-> memories[i].project, id |-> i, content |-> memories[i].content]
      <4>1. t \in told
        BY DEF MemoryInv, AsTold
      <4>. QED BY <4>1
    <3>. QED BY <3>1, <3>2 DEF MemoryInv, Indexed
  <2>. QED BY <2>1, <2>2, <2>3 DEF MemoryInv, AsTold, MemoryAsTold
<1>. QED
  BY MemoryInitInv, MemoryStepInv, <1>1, PTL DEF MemorySpec
==============================================================================
