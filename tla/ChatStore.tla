------------------------------ MODULE ChatStore ------------------------------
(***************************************************************************)
(* The local chat archive (chat_store.rs): one SQLite file that snapshots  *)
(* of conversations are pushed into, last write wins.  Opening migrates    *)
(* the schema statement by statement, each of them durable on its own; an  *)
(* upsert is one transaction.  The daemon may die at any point.            *)
(*                                                                         *)
(* A snapshot is a time and the texts of the messages it lists.            *)
(***************************************************************************)
EXTENDS Integers, Sequences, FiniteSets

CONSTANTS Chats,    \* conversation ids
          Notes,    \* message ids
          ChatOf,   \* [Notes -> Chats]: message ids are unique to a conversation
          Texts,    \* message contents
          Docs,     \* ids of artifacts and projects
          LastTime  \* bound: times are 1 .. LastTime

ASSUME ChatAssumption ==
  ChatOf \in [Notes -> Chats] /\ LastTime \in Nat \ {0}

VARIABLES version,  \* schema_meta.schema_version, 0 when there is none
          tables,   \* the tables the file has
          opening,  \* the statements the migration still has to run
          opened,   \* the store is in use
          convs,    \* local_conversations: id to updated_at
          msgs,     \* local_messages: id to text
          docs,     \* local_artifacts and local_projects: id to updated_at
          heard     \* the newest snapshot pushed of each conversation since it was
                    \* last deleted; of those of one time, the last to arrive

chatVars == <<version, tables, opening, opened, convs, msgs, docs, heard>>
chatSchema == <<version, tables, opening, opened>>

Empty == [x \in {} |-> 0]
Meta == "schema_meta"
AllTables == {Meta, "local_artifacts", "local_projects", "local_conversations", "local_messages"}

\* A fresh file, or one of a version 1 that holds a conversation.
ChatInit ==
  /\ opening = <<>> /\ opened = FALSE /\ docs = Empty
  /\ \/ version = 0 /\ tables = {} /\ convs = Empty /\ msgs = Empty /\ heard = Empty
     \/ \E c \in Chats, n \in Notes, x \in Texts :
          /\ ChatOf[n] = c
          /\ version = 1 /\ tables = {Meta, "local_conversations", "local_messages"}
          /\ convs = [d \in {c} |-> 1] /\ msgs = [m \in {n} |-> x]
          /\ heard = [d \in {c} |-> [at |-> 1, says |-> msgs]]

----------------------------------------------------------------------------
(* open and migrate. *)

V1 == <<"local_conversations", "local_messages", "version1">>
V2 == <<"local_artifacts", "local_projects", "version2">>

\* Both batches are chosen by the version read before either runs, the second
\* version's first.
Migration(current) ==
  <<Meta>> \o (IF current < 2 THEN V2 ELSE <<>>) \o (IF current < 1 THEN V1 ELSE <<>>)

OpenChats ==
  /\ ~opened /\ opening = <<>> /\ opening' = Migration(version)
  /\ UNCHANGED <<version, tables, opened, convs, msgs, docs, heard>>

\* One statement of a batch; the last one opens the store.
Migrate ==
  /\ opening # <<>> /\ opening' = Tail(opening) /\ opened' = (Tail(opening) = <<>>)
  /\ LET s == Head(opening)
     IN /\ version' = CASE s = "version1" -> 1
                        [] s = "version2" -> IF version > 2 THEN version ELSE 2
                        [] OTHER -> version
        /\ tables' = tables \cup ({s} \cap AllTables)
  /\ UNCHANGED <<convs, msgs, docs, heard>>

\* The daemon dies or is stopped.
ChatsClosed ==
  /\ opened \/ opening # <<>>
  /\ opened' = FALSE /\ opening' = <<>>
  /\ UNCHANGED <<version, tables, convs, msgs, docs, heard>>

----------------------------------------------------------------------------
(* Snapshots. *)

NotesOf(c) == {n \in Notes : ChatOf[n] = c}
\* What a snapshot of c may list.
Listings(c) == UNION {[S -> Texts] : S \in SUBSET NotesOf(c)}

Newer(c, at) == c \in DOMAIN heard => heard[c].at <= at
Hears(c, at, says) ==
  heard' = IF Newer(c, at)
           THEN [d \in DOMAIN heard \cup {c} |-> IF d = c THEN [at |-> at, says |-> says] ELSE heard[d]]
           ELSE heard

\* Listed messages are written over, ones of c that are not listed are pruned; a
\* snapshot that lists none prunes none.
Merged(c, says) ==
  LET keep == IF DOMAIN says = {} THEN DOMAIN msgs
              ELSE (DOMAIN msgs \ NotesOf(c)) \cup DOMAIN says
  IN [n \in keep |-> IF n \in DOMAIN says THEN says[n] ELSE msgs[n]]

Current(rows, x, at) == x \in DOMAIN rows => rows[x] <= at
Stored(rows, x, at) == [y \in DOMAIN rows \cup {x} |-> IF y = x THEN at ELSE rows[y]]

\* Mutant: a stale snapshot keeps the row but still brings its messages.
UpsertMergesStale(c, at, says) ==
  /\ opened /\ {"local_conversations", "local_messages"} \subseteq tables
  /\ convs' = IF Current(convs, c, at) THEN Stored(convs, c, at) ELSE convs
  /\ msgs' = Merged(c, says)
  /\ Hears(c, at, says)
  /\ UNCHANGED <<chatSchema, docs>>

\* A snapshot older than the row is dropped whole.  Without its tables the store
\* only answers with errors.
Upsert(c, at, says) ==
  /\ opened /\ {"local_conversations", "local_messages"} \subseteq tables
  /\ IF Current(convs, c, at)
     THEN convs' = Stored(convs, c, at) /\ msgs' = Merged(c, says)
     ELSE UNCHANGED <<convs, msgs>>
  /\ Hears(c, at, says)
  /\ UNCHANGED <<chatSchema, docs>>

\* The owner deletes a conversation in the window; its messages go with it.
DeleteChat(c) ==
  /\ opened /\ c \in DOMAIN convs
  /\ convs' = [d \in DOMAIN convs \ {c} |-> convs[d]]
  /\ msgs' = [n \in DOMAIN msgs \ NotesOf(c) |-> msgs[n]]
  /\ heard' = [d \in DOMAIN heard \ {c} |-> heard[d]]
  /\ UNCHANGED <<chatSchema, docs>>

\* Artifacts and projects: the newest wins, and one without a time is the oldest.
UpsertDoc(d, at) ==
  /\ opened /\ {"local_artifacts", "local_projects"} \subseteq tables
  /\ docs' = IF Current(docs, d, at) THEN Stored(docs, d, at) ELSE docs
  /\ UNCHANGED <<chatSchema, convs, msgs, heard>>

\* A snapshot without a time is given this machine's, which may be any.
ChatPush(c) == \E at \in 1 .. LastTime, says \in Listings(c) : Upsert(c, at, says)

ChatNext ==
  \/ OpenChats \/ Migrate \/ ChatsClosed
  \/ \E c \in Chats : ChatPush(c) \/ DeleteChat(c)
  \/ \E d \in Docs, at \in 0 .. LastTime : UpsertDoc(d, at)

ChatSpec == ChatInit /\ [][ChatNext]_chatVars

----------------------------------------------------------------------------
\* Rows and messages are of known ids, and every message has its conversation.
ChatTypeOK ==
  /\ version \in 0 .. 2 /\ tables \subseteq AllTables /\ opened \in BOOLEAN
  /\ convs \in UNION {[S -> 1 .. LastTime] : S \in SUBSET Chats}
  /\ msgs \in UNION {[S -> Texts] : S \in SUBSET Notes}
  /\ \A n \in DOMAIN msgs : ChatOf[n] \in DOMAIN convs

\* However late, doubled or out of order snapshots arrive, and however often the
\* daemon dies while it migrates an old file, each conversation is there as its
\* newest snapshot told it, message for message: none of them comes back, is lost
\* or is half applied.  A newest snapshot without messages is the exception, since
\* it leaves those of older ones (chat_store.rs: upsert_conversation, migrate).
ChatAsNewestTold ==
  /\ ChatTypeOK
  /\ DOMAIN convs = DOMAIN heard
  /\ \A c \in DOMAIN convs :
       /\ convs[c] = heard[c].at
       /\ DOMAIN heard[c].says # {} =>
            [n \in DOMAIN msgs \cap NotesOf(c) |-> msgs[n]] = heard[c].says
==============================================================================
