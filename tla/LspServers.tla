---------------------------- MODULE LspServers ----------------------------
(***************************************************************************)
(* The language server bridge (lsp_ops.rs).  A server is pooled under its  *)
(* language and root and never replaced; keys do not interact, so one of   *)
(* them is modelled.  A file is announced to the server by the first       *)
(* operation that names it, which also runs the handshake.  Operations     *)
(* come one at a time from the client's loop, beside the reader task and   *)
(* the server, which may also publish diagnostics and send requests of its *)
(* own under ids that clash with ours.                                     *)
(*                                                                         *)
(* An answer to a rename is an edit: its two targets (the same file twice  *)
(* at times, with the same changes or others), and whether it is sound:    *)
(* every range valid, and the changes of each target free of overlaps.     *)
(* Nothing is checked between two targets.  What an edit says is chosen    *)
(* when it is looked at.                                                   *)
(*                                                                         *)
(* A write to the server waits, outside every timeout, until there is room *)
(* in the pipe: a pipe that is full for a time only delays it, a server    *)
(* that has stopped reading for good holds it.                             *)
(***************************************************************************)
EXTENDS Integers, Sequences, FiniteSets

CONSTANTS LspFiles,   \* the files of the workspace
          Granted,    \* the files the gate opens
          LspAsks     \* bound: ids ever allocated

ASSUME LspAssumption == Granted \subseteq LspFiles /\ LspAsks \in Nat

VARIABLES server,   \* the pooled server
          lspOp,    \* the operation in progress
          written,  \* the changes each file carries by the rename in progress
          lspFull   \* the server has stopped reading, its pipe full
lspVars == <<server, lspOp, written, lspFull>>

NoServer == [state |-> "none", reading |-> FALSE, next |-> 1, pending |-> {}, todo |-> {}, wire |-> <<>>,
             opened |-> {}, announced |-> {}]
IdleLsp == [op |-> "none", file |-> "", stage |-> "idle", id |-> 0, reply |-> <<>>, edit |-> <<>>, at |-> 1]
Edits == [files : LspFiles \X LspFiles, changes : {1} \X {1, 2}, sound : BOOLEAN]
Unchanged == [f \in LspFiles |-> {}]

LspInit == server = NoServer /\ lspOp = IdleLsp /\ written = Unchanged /\ lspFull = FALSE

Up == server.state = "up"
\* A write goes through, or fails since nobody is at the other end.
Writable == ~lspFull \/ ~Up

\* prepare: the gate, the pool, and the handshake for a file named first, which
\* counts as opened from here on.
LspCall(f, op) ==
  /\ lspOp = IdleLsp /\ f \in Granted
  /\ server.next + (IF f \in server.opened THEN 0 ELSE 1) <= LspAsks
  /\ server' = [(IF server.state = "none" THEN [NoServer EXCEPT !.state = "up", !.reading = TRUE] ELSE server)
                  EXCEPT !.opened = @ \cup {f}]
  /\ lspOp' = [IdleLsp EXCEPT !.op = op, !.file = f,
                 !.stage = IF f \notin server.opened THEN "hello" ELSE IF op = "diagnostics" THEN "publish" ELSE "ask"]
  /\ UNCHANGED <<written, lspFull>>

\* A request is registered and written.  The write to a dead server may fail:
\* do_request takes the entry back, initialize leaves it.
LspSend ==
  /\ lspOp.stage \in {"hello", "ask"} /\ Writable
  /\ LET id == server.next
         method == IF lspOp.stage = "hello" THEN "initialize" ELSE lspOp.op
     IN \/ /\ server' = [server EXCEPT !.next = @ + 1, !.pending = @ \cup {id},
                           !.todo = IF Up THEN @ \cup {[id |-> id, method |-> method]} ELSE @]
           /\ lspOp' = [lspOp EXCEPT !.stage = IF @ = "hello" THEN "handshake" ELSE "wait", !.id = id]
        \/ /\ ~Up /\ lspOp' = IdleLsp
           /\ server' = [server EXCEPT !.next = @ + 1,
                           !.pending = IF lspOp.stage = "hello" THEN @ \cup {id} ELSE @]
  /\ lspFull' = FALSE /\ UNCHANGED written

\* initialize is answered: initialized and didOpen are written, then the request
\* itself.  An error, or a write that fails, ends the operation with the file
\* still counted as opened.
LspHello ==
  /\ lspOp.stage = "handshake" /\ lspOp.reply # <<>>
  /\ \/ /\ lspOp.reply[1].kind # "error" /\ Writable
        /\ server' = [server EXCEPT !.announced = @ \cup {lspOp.file}]
        /\ lspOp' = [lspOp EXCEPT !.stage = IF lspOp.op = "diagnostics" THEN "publish" ELSE "ask", !.reply = <<>>]
     \/ (lspOp.reply[1].kind = "error" \/ ~Up) /\ lspOp' = IdleLsp /\ UNCHANGED server
  /\ lspFull' = FALSE /\ UNCHANGED written

\* diagnostics: a list published for the file, or none by the deadline.
Diagnostics == lspOp.stage = "publish" /\ lspOp' = IdleLsp /\ UNCHANGED <<server, written, lspFull>>

\* An answer ends hover and definition; a rename needs an edit whose files are all
\* open to writing, with valid ranges, disjoint within each target, before the
\* first of them is touched.
Applicable(edit) == edit.sound /\ \A i \in DOMAIN edit.files : edit.files[i] \in Granted

LspReply ==
  /\ lspOp.stage = "wait" /\ lspOp.reply # <<>>
  /\ \E edit \in Edits :
       lspOp' = IF lspOp.op = "rename" /\ lspOp.reply[1].kind = "edit" /\ Applicable(edit)
                THEN [lspOp EXCEPT !.stage = "apply", !.edit = <<edit>>, !.reply = <<>>]
                ELSE IdleLsp
  /\ UNCHANGED <<server, written, lspFull>>

\* Mutant: a target in a file already rewritten is taken for done.
ApplySkipsRepeated ==
  /\ lspOp.stage = "apply"
  /\ LET e == lspOp.edit[1]
     IN \/ /\ lspOp.at \in DOMAIN e.files
           /\ written' = IF written[e.files[lspOp.at]] = {}
                         THEN [written EXCEPT ![e.files[lspOp.at]] = {e.changes[lspOp.at]}] ELSE written
           /\ lspOp' = [lspOp EXCEPT !.at = @ + 1]
        \/ lspOp' = IdleLsp /\ written' = Unchanged
  /\ UNCHANGED <<server, lspFull>>

\* The next target, as it was read before the first write and with its own changes,
\* is written through a temporary file, renamed over it and read back; the
\* operation ends after the last one, or at a step that fails and leaves the files
\* before it rewritten.
ApplyEdit ==
  /\ lspOp.stage = "apply"
  /\ LET e == lspOp.edit[1]
     IN \/ /\ lspOp.at \in DOMAIN e.files
           /\ written' = [written EXCEPT ![e.files[lspOp.at]] = {e.changes[lspOp.at]}]
           /\ lspOp' = [lspOp EXCEPT !.at = @ + 1]
        \/ lspOp' = IdleLsp /\ written' = Unchanged
  /\ UNCHANGED <<server, lspFull>>

\* A timeout: do_request takes its entry back, initialize leaves it.
LspTimeout ==
  /\ lspOp.stage \in {"handshake", "wait"} /\ lspOp.reply = <<>>
  /\ server' = IF lspOp.stage = "wait" THEN [server EXCEPT !.pending = @ \ {lspOp.id}] ELSE server
  /\ lspOp' = IdleLsp /\ UNCHANGED <<written, lspFull>>

\* The server answers, publishes, asks something itself, or dies.
LspSays(m) ==
  /\ Up /\ Len(server.wire) < 2
  /\ server' = [server EXCEPT !.wire = Append(@, m), !.todo = {r \in @ : r.id # m.id \/ m.kind = "request"}]
  /\ UNCHANGED <<lspOp, written, lspFull>>
LspAnswers(r) ==
  \/ LspSays([kind |-> "error", id |-> r.id])
  \/ r.method # "rename" /\ LspSays([kind |-> "result", id |-> r.id])
  \/ r.method = "rename" /\ LspSays([kind |-> "edit", id |-> r.id])
LspPublishes == LspSays([kind |-> "publish", id |-> 0])
LspRequests(id) == LspSays([kind |-> "request", id |-> id])
LspDies ==
  Up /\ server' = [server EXCEPT !.state = "dead", !.todo = {}] /\ UNCHANGED <<lspOp, written, lspFull>>

\* The server has stopped reading when something is written to it.  (What is written
\* first always fits into the pipe.)
LspStalls ==
  /\ Up /\ ~lspFull /\ lspFull' = TRUE /\ server.next > 1
  /\ lspOp.stage \in {"hello", "ask"} \/ (lspOp.stage = "handshake" /\ lspOp.reply # <<>>)
  /\ UNCHANGED <<server, lspOp, written>>

\* The reader takes anything with an id for an answer.  What is published is kept for
\* diagnostics to look up; nothing else depends on it.  At the end of the stream
\* it stops, and the requests still pending are not told.
LspRead ==
  /\ server.reading
  /\ \/ /\ server.wire # <<>>
        /\ LET m == Head(server.wire)
               mine == m.id \in server.pending /\ lspOp.stage \in {"handshake", "wait"} /\ lspOp.id = m.id
           IN /\ server' = [server EXCEPT !.wire = Tail(@), !.pending = @ \ {m.id}]
              /\ lspOp' = IF mine THEN [lspOp EXCEPT !.reply = <<m>>] ELSE lspOp
     \/ /\ server.wire = <<>> /\ ~Up
        /\ server' = [server EXCEPT !.reading = FALSE] /\ UNCHANGED lspOp
  /\ UNCHANGED <<written, lspFull>>

\* The client is dropped with its engine: the server is killed with it, and a
\* rename in progress stops where it is.
LspDropped ==
  /\ server.state # "none" /\ server' = NoServer /\ lspOp' = IdleLsp /\ lspFull' = FALSE
  /\ written' = Unchanged

LspCaller == LspSend \/ LspHello \/ Diagnostics \/ LspReply \/ ApplyEdit \/ LspTimeout
LspServer ==
  \/ \E r \in server.todo : LspAnswers(r)
  \/ LspPublishes
  \/ \E id \in 1 .. 2 : LspRequests(id)
  \/ LspDies \/ LspStalls
LspNext ==
  \/ \E f \in LspFiles, op \in {"diagnostics", "hover", "definition", "rename"} : LspCall(f, op)
  \/ LspCaller \/ LspServer \/ LspRead \/ LspDropped

LspFairness == WF_lspVars(LspCaller)
LspSpec == LspInit /\ [][LspNext]_lspVars /\ LspFairness
----------------------------------------------------------------------------
\* Type correctness; a file is announced only once it counts as opened.
LspTypeOK ==
  /\ server.state \in {"none", "up", "dead"} /\ server.pending \subseteq 1 .. LspAsks
  /\ server.announced \subseteq server.opened
  /\ server.opened \subseteq Granted /\ written \in [LspFiles -> SUBSET {1, 2}] /\ lspFull \in BOOLEAN
  /\ lspOp.stage \in {"idle", "hello", "handshake", "ask", "publish", "wait", "apply"}

\* A rename that is through has given every file the changes the server named for
\* it (lsp_ops.rs:666-668, "Apply the server-computed WorkspaceEdit"), the last of
\* them where it named the file twice: overlaps are looked for within one target
\* only (:709-719), and each target starts from the text as it was.
RenameWhole ==
  lspOp.stage = "apply" /\ lspOp.at \notin DOMAIN lspOp.edit[1].files =>
    LET e == lspOp.edit[1]
    IN \A i \in DOMAIN e.files :
         (\A j \in DOMAIN e.files : e.files[j] = e.files[i] => j <= i) =>
           written[e.files[i]] = {e.changes[i]}
============================================================================
