# TLA+ models of the desktop daemon

The repository is a bridge between a web cockpit and the owner's devices. Its
core is the desktop daemon (`src/apps/desktop-daemon/crates`): it keeps a
WebSocket to the server, receives *action requests* (read, write, delete, undo,
shell, browser, ...), decides whether the owner allows them, executes them and
sends results back. These modules model the parts of it whose correctness
depends on order, time and failure. Paths below are relative to
`src/apps/desktop-daemon/crates/daemon-core/src` unless they say otherwise.

## The system

| Component | State | Operations | Hard parts |
|---|---|---|---|
| Action pipeline (`ws_client.rs`, `capability.rs`) | the gate, the `parked` map, the socket | `connect_once` (select! over frames, decisions, ticks), `handle_action`, `path_gate`, `sweep_expired_parked` | one loop does everything; the owner decides minutes later, over two surfaces |
| Consent broker (`consent.rs`, `daemon-cli/src/ui.rs`) | pending prompts, notifier | `ask`, `answer`, `set_notifier`, the egui dialog | lock released between drain and wake-up; it outlives the client |
| Heartbeat watchdog and `run` (`ws_client.rs`) | `expected_heartbeat`, `consecutive_misses`, back-off | ticks, acks, reconnect | catch-up ticks, long handlers, half-dead sockets |
| Checkpoint store (`checkpoint.rs`) and file operations (`fs_ops.rs`) | `index.jsonl`, blobs, the owner's files | `capture`, `enforce_limits`, `restore`, write/patch/delete | crash between durable steps, two budgets |
| Daemon lifecycle (`daemon-cli/src/{server,main}.rs`, `pairing.rs`, `keyring.rs`, `health.rs`) | paired device, file, token, nonce, client task and its handle | pair, unpair, shutdown, deep links, restart, abort and respawn | several callers race for one task handle; a page that goes away takes its request with it; the client reads the pairing again after it was spawned |
| Task registry, managed processes (`task_registry.rs`, `proc_ops.rs`) | global task list, tokens, process table, log rings | start, monitor, signal, logs, wait, kill, refresh | a monitor publishes in three places, with `try_lock`; the list is capped |
| Shell (`shell.rs`) | two output buffers, a bounded channel, the process group | run, pump, flush, forward, terminate, drain | descendants keep the pipes open |
| Terminals (`pty_ops.rs`) | session map, one ring per session | create, run, read, exit | eviction at the limit during a handshake |
| MCP host (`mcp_ops.rs`) | server table, pending map per server | list, call, stop | answers after timeouts, dead servers, servers that stop reading, the daemon's exit |
| Debug adapters (`dap_ops.rs`) | sessions, pending maps, event ring | start, breakpoints, continue, inspect, stop | a session that dies half way through its start |
| Language servers (`lsp_ops.rs`) | server pool, opened files, pending maps | definition, rename, diagnostics | colliding ids; an edit of several files |
| JavaScript runtime (`eval_session.rs`) | one runtime, contexts per session, undelivered output | exec, idle reap, kill | output arrives in another session's call; buffers are capped |
| Browser (`browser_ops.rs`) | one Chrome, tabs, the active page, element refs | launch, act, snapshot, capture, tabs, mocks, close | every command may fail between two others, carried out or not; stale refs |
| Chat store (`chat_store.rs`) | SQLite tables and schema version | open, migrate, snapshot, delete | late and doubled snapshots, a crash in a migration |
| Memory store (`memory_store.rs`) | one table and its text index | remember, reflect, recall, forget | deduplication against index and ids |
| Adapters (`os_ax.rs`, `git_ops.rs`, `ast_ops.rs`, `system_ops.rs`, `autoupdate.rs`, `audit.rs`) | little | one call each | mostly I/O |
| Mobile apps, bridge node, scripts | - | - | separate programs |

The read loop calls the engines and the stores synchronously. The UI thread
shares the broker, the task registry and the health counters with it. The HTTP
server and the UI's command loop own the client task's handle. The gate is
shared by the loop and the engines.

What makes the parts correct: an action runs only as the gate in force and the
owner allow, once, and nothing the owner sees or the server waits for hangs for
ever; a dead connection is noticed and a live one kept; a file never changes
before its pre-image is safe; the device that is paired is the one whose client
runs; nothing is reported ended while it lives, and what lives can be stopped; a
request to an engine gets its own answer or an error, and no peer runs that nobody
can stop; an element ref means the element it was shown for; a snapshot never
brings back old messages, and what the agent was told to remember stays.

## Modules

### ConsentBridge, ConsentContract, ConsentRefinement, MCConsent

`ConsentBridge` is the action pipeline. `loop` is the program counter of
`connect_once` and `act` the request `handle_action` works on. An action kind is
reduced to its *arm*: `fs` (path-gated arms that pass `AwaitingConsent` on),
`delete`, `restore`, `shell` and `direct` (scope only). The gate is a set of
scopes and a set of paths; `Trusted` is what it says without a human.

| Model | Code |
|---|---|
| `RecvRequest`, `HandleRefuse`, `HandleRun`, `HandleAsk` | `handle_frame`, `handle_action`, `path_gate` on first dispatch |
| `Park`, `DeleteUnparked` | the end of `handle_action`; the `desktop.fs.delete` arm |
| `Complete`, `StreamFailed` | `send_action_result`; the `?` in the shell arm's stream |
| `Resume` | the `consent_rx` branch, then `handle_action` with the decision |
| `WebAnswer`, `UiAnswer`, `UiNotify` | `consent_response`; the dialog's `answer()`, which removes the prompt under its lock and pushes to the notifier after it |
| `HeartbeatTick` | `sweep_expired_parked` |
| `Connect`, `Disconnect`, `ScopeUpdate`, `LinkLost` | `hello_ack`, the return of `connect_once`, `scope_update`, the network |
| `Revoke`, `Repair` | `run` returning after a revoke or a refused hello; pairing again, which aborts the client (its map, gate and channel go, the broker and the task registry stay) |

Abstracted: paths are compared by equality (the canonicalization and prefix
rules of `capability.rs` are not modelled), one operation is one `running`
phase, and the audit log, the wording of frames and `skip_consent_prompt` (which
is honoured only where the gate already allows) are left out. `results`,
`approvals`, `spent` and `timely` are history.

`ConsentContract` is the abstract specification: phases idle, waiting, running,
closed; an action starts once, alone, while permitted, and either open or
approved while waiting. `ConsentRefinement` gives the mapping, for ids sent
once; `ImplementsContract` is checked as a property.

### Watchdog

`run`, hello and the heartbeat as a failure detector in discrete time. `inbox`
is the ordered socket: acks queue behind requests. The tick deadlines advance by
`Interval` from the first one (tokio's `Burst` catch-up), so late ticks come
bunched. The environment's latencies are constants: how late an ack comes
(`AckDelay`), how long an action keeps the loop (`Handling`), how late an idle
loop serves a tick (`Lag`), how many actions the server has in flight
(`Outstanding`). `Clock` stops where one of them would be exceeded, so time is
exact about what the environment promises and says nothing about the rest.

### CheckpointStore, UndoLog, CheckpointHistory, MCCheckpoint, MCCheckpointHistory

`CheckpointStore` splits `capture` at every durable step: `Capture` (blob),
`AppendEntry` (index), `EvictOldest` (one blob removed), `WriteIndex`; then
`ApplyMutation` (write, patch, AST edit, delete: temporary file and rename, or
removal) or `ApplyRestore`. `Abort` is an I/O error or a crash at any of these
points, `TornRestore` a crash inside the in-place write of `restore`,
`OwnerEdits` the owner's own programs. An entry's `existed`, `size`, `truncated`
and `hash` are functions of `pre`, the content the capture saw. `UndoLog` is the
promise: a first-in first-out log of restorable pre-images. `CheckpointHistory`
adds the history `ReversibleWithinLimits` needs.

Assumed: captures get distinct growing stamps (see the hazards), a blob is
written whole or not at all, `remove_file` on a blob succeeds, and an edit by
the owner between the capture and the mutation is nobody's to keep.

### TaskRegistry, ManagedProcess

`TaskRegistry` is the global list (`Record`, `Update`, the drain of the oldest),
the map of cancellation tokens, and the window's two loops: one drops stale
records, one kills (cancel, then mark: two locks, two steps). `ManagedProcess`
extends it with the executors. A start is the code's order: `StartSpawn` (the
monitor runs from here), `StartRecord`, `StartRegister`, `StartInsert`. A
`MonitorStep` waits for the child or the token and then writes the table (with
`try_lock`, so not while the read loop holds it), the list and the token map.
Shell actions appear as a second kind of executor on the same list. `outcome` is
history: what really became of the child.

### LogRing

The ring of a process's last lines, and a caller that polls it with the number
of the next line it wants, which it takes from the lines it got or from the total
it was told. Pushes and reads exclude each other by the ring's lock. `seen` is
history: one past the newest line a poll returned.

### ShellCommand

One `ShellRunner::run`: the child (`leader`) and a descendant (`rest`) that holds
the pipes and may have left the process group, a pump per stream (accumulate to
the cap, batch, flush at `FlushBytes` and at the end, mark a truncation), the
bounded channel, the read loop that forwards, and `await_result`: exit, timeout
or cancellation, then TERM to the group, the grace, KILL, and the drain. Output
is counted in bytes; a character takes up to `Width`.

### TerminalSessions

The session map at `MAX_SESSIONS`, `get_or_create` with its handshake outside
the map, eviction, the ring with its incomplete last line, `run` (which may
settle at any moment), `read`, `exit`, and the engine's drop with its client.
`given` is history: how far a session's lines were handed out.

### McpServers, DapSessions, LspServers, EvalRuntime, BrowserTabs

Each is one engine: the caller (a program counter `stage` inside `call`,
`dapOp`, `lspOp`, `evalCall`, `verb`), the reader that routes by id, and a peer
that answers late, in any order, with an error, or dies. Answers carry
the number of the request they were made for; the code only sees the id.

Every engine writes to its peer's stdin outside the timeout of the request. A pipe
that is full for a time only delays the write, which the models show as a step
that may come at any later time; a peer that lives on and reads no more holds it
for ever (`mcpFull`, `dapFull`, `lspFull`, `evalFull`, set by `McpStalls` and its
siblings while something is to be written). The write goes through, or fails,
when the pipe has room or nobody is at its other end (`McpWritable`,
`DapWritable`, `Writable`). What goes first to a new peer is small and always
fits.

* *McpServers*: declared servers are spawned on demand, shake hands, and are
  replaced by the call that finds them dead; listings are paged; a reader that
  meets the end of the pipe fails what is pending (`DrainPending`). `HostDropped`
  is the engine's end with its client, where `kill_on_drop` works; `DaemonExits` is
  the end of the process, where no destructor runs.
* *DapSessions*: an operation is a plan of requests; a start enters the map only
  once the debuggee runs, and anything before that kills the adapter. Stops and
  output arrive as events; `events` drains a ring that drops its oldest. Adapters
  are spawned without `kill_on_drop`: those alive when their client goes are `left`.
* *LspServers*: one pool entry (keys do not interact). The first call that names
  a file shakes hands and announces it; what a server publishes is taken from the
  wire and kept, and nothing else depends on it. A rename's edit, any of `Edits`, is
  two targets, which may be one file, their changes, and whether every range is valid
  and free of overlaps within its target; it is chosen when it is looked at.
  `LspReply` checks it, then `ApplyEdit` rewrites one target per step, from its text
  as it was read before. `written` holds the changes each file got from the rename in
  progress.
* *EvalRuntime*: one process, a context per session, one call at a time: it writes
  its requests (a destroy for each session that idled out, then its own) and then
  reads frames. Code left running prints into whichever call is being read, and is
  kept for its own session. A buffer takes `MaxCaptured` lines and then one mark for
  whatever comes (`AppendCapped`; the code counts characters). A timeout kills the
  runtime and every session with it; one that has died before the write keeps its
  slot.
* *BrowserTabs*: a verb is the list of commands it sends, any of which may fail
  (`Fails`). A snapshot numbers refs anew. A capture pins the page's metrics: a pin
  that fails may have been applied, and whether the restore succeeds nobody looks
  at. Arming the mocks enables Fetch on each page and then subscribes a listener:
  any page may end with both, with neither, or with Fetch alone. `taken`, `shown` and
  `errored` are history of what the web was told; `stray` and `unarmed` of the tasks
  nobody holds and the pages without a listener.

### ChatStore, MemoryStore

`ChatStore` opens its file by `Migrate`, one durable statement per step, under
crashes, from a fresh file or one of an earlier version; then `Upsert` of a
snapshot (last write wins by time, then prune), `DeleteChat`, `UpsertDoc`. A
message is its text and time. `heard` is history: the newest snapshot of each
conversation. `MemoryStore` is `Remember` with deduplication per project,
`Reflect`, `Recall` (rank, limit, hit counts), `Forget` by id and whole, and the
index the triggers keep in step; `told` is history.

### Lifecycle

The state every caller shares: the paired device in memory, in the file and in
the keyring, the nonce, the handle of the client task. A `request` is a caller's
program counter through `/pair`, `/unpair`, `/shutdown`, a deep link or the
window's unpair: its reads and writes of the shared state are steps of their
own, because each takes a lock of its own. The HTTP server drops a handler at an
await when the page closes its connection: `PageLeaves` ends a request at any of
its waits, also between the change of the pairing and the client, which `cut`
remembers until the next swap or stop. The command line changes the file of a
daemon that runs. A `task` is a spawned client: it reads device and token when
it first runs, dials, is up, and is aborted at its next await. `connected` is
the health record.

### MCProcesses, MCLocal, MCPeers, MCDaemon

Parts that share no state are checked side by side in one run: a variable
(`part`, `engine`, `disk`, `about`) chooses one of them at the start, and the
others stay as they were built. `MCLocal` composes `MCProcesses` with the three
stores. Nothing is lost by it: the parts have no
variable in common and no part's action reads another's state, so a behaviour
of all of them together is an interleaving of behaviours of each.

## Runs

| Run | Specification | Result |
|---|---|---|
| `consent_session` | `FairClientSpec`: a write, an undo, a shell command, each sent once | pass |
| `consent_resend` | `Spec`: a write and a delete, each sent up to twice, revoke and re-pairing | pass |
| `consent_delete` | `FairClientSpec`: one delete | violation of `PromptComesDown` |
| `consent_timely` | `PunctualSpec`: two writes | violation of `TimelyApprovalHonoured` |
| `consent_denial` | `PunctualSpec`: two writes on one path | violation of `DenialRespected` |
| `watchdog` | `MCDaemon!MCSpec`: 18 time units of heartbeat; two callers over one pairing | pass |
| `connected` | `LifecycleSpec`: one device, one caller | violation of `ConnectedIsReal` |
| `local` | `MCLocal!LocalSpec`: undo store, chat archive, memory, processes, log ring, shell command, terminals | pass |
| `checkpoint_reversible` | `HistorySpec`: two files, four captures | violation of `ReversibleWithinLimits` |
| `logs_wrap` | `RingSpec`: a ring of three lines, seven printed | violation of `PollsFromStart` |
| `shell_stopped` | `ShellSpec`: a shell command alone | violation of `StoppedCommandReports` |
| `peers` | `MCPeers!MCSpec`: MCP, DAP, LSP, eval, browser | pass |

*consent_session* checks that the pipeline implements the contract, that no
prompt is without its action (`NoOrphanPrompt`), and that parked actions and
prompts are resolved (`ParkedIsResolved`, `PromptComesDown`). The three arms
reach each of `handle_action`'s authorization paths: path and owner, scope or
owner, scope only.

*consent_resend* checks that a parked action can be decided, that approvals are
not multiplied and that results never exceed requests. Two copies of an id are the least that lets a stale
decision meet a fresh request; two ids let one answer widen the gate for the
other.

*watchdog* uses Interval 3, actions of up to 7 units (longer than two
intervals) and 18 units of time, enough for a connection, a long action, a
burst and two misses. `Detection` (five intervals plus the lag) is tight: four
fail. The comment at `ws_client.rs:430` expects 60-70 s at the 30 s cadence;
without jitter it takes up to three intervals, and a beat stamped later than
its tick makes the next tick count as a burst, which costs one more interval
for each of the two misses. The other part has two callers, two devices, two
client tasks, two nonces and two starts: two requests are enough for any overlap
of one's reads with the other's writes, two tasks for one client to be aborted
while its successor dials, and the second start for a daemon that comes up from
the file. `ClientServesPaired` says that at most one client is alive, that the
handle can abort it, and that it serves the paired device once no request is half
way and unless a page left at exactly that point, between the change of the pairing
and that of the client; without that exception it fails (see the differences below).
Devices, callers and tasks are only compared, so the run uses
their symmetry (it checks no liveness). Both parts stop when their time, nonces
and starts are used up, so deadlock is not checked.

*local*: the undo store has two entries and two bytes as limits and three
captures, so both limits are exceeded and an eviction has a choice of victims;
the huge content (5) is above both file limits. The chat archive has two
conversations, one with two messages and one with one, two texts, two times and
one artifact: late, doubled and newer snapshots, with messages added, dropped
and changed, need no more, since a conversation reacts only to its own. The
memory has two projects, two contents that share a word, two ids, and a clock
of ten days, the age that weighs as much as one step of importance. 
The processes: one process and two shell actions on a list that keeps two records, so
that the third is recorded over a live one; the monitor runs against the read
loop and the window's loops at every step. The ring holds three lines of seven
printed (it wraps more than twice): what `PollsInOrder` says of every ring is that
no line comes twice or out of order, and until the ring is full that none is
missing; afterwards some are, which is `logs_wrap`. The shell has a cap of two bytes, one slot
in the channel, and three lines per stream of one or two bytes: below, at and
over the cap. Three terminal ids on a limit of two force an eviction, a ring of
one line against two printed a loss. Deadlock is not checked: everything printed and
finished is the end, and so is the archive's clock used up with nothing left to
delete.

*peers*: MCP has two servers, two spawned instances, five requests and listings
of two pages: the least for a handshake, a request that outlives its timeout, its
answer in the middle of the next call, and a replacement. DAP has one name and
two adapters (a start replaces a session), seven requests and two stops, a ring of
one event. LSP has three files, two of them granted, and three requests: the
handshake, a rename whose answer comes late, and one that meets it; an edit names
one granted file twice, two, or one that is not granted. Eval has two sessions, two lines
each, two lives, buffers of one line, so that the second is cut, and a pipe of one
frame, so that output waits. The browser has
two tab names, two launches, two pages in all and two snapshots, so that a ref
may be of an older snapshot, another tab, a closed tab or a dead browser. Bounded calls are used up, so
deadlock is not checked.

Bounds: `MaxSend` (copies of an id), `Timeout` 1 (age saturates one above it),
`MaxTime`, `MaxStamp`; the history counters are bounded by them.

### Fairness

`FairClientSpec` asks for weak fairness of the clock, of dialling again, of the
UI thread finishing a call it began and of a handler ending, and strong fairness
of `Resume` and `HeartbeatTick`. The last two are what `tokio::select!` gives:
it polls its ready branches from a random start, so a branch that is ready again
and again is taken with probability one. Dialling again is `run`'s loop; that a dial eventually
succeeds is assumed of the network and the server (while they are unreachable
nobody sweeps, and the code cannot do better).
Fairness of `Complete` assumes operations end; the shell enforces it by its
timeout, and the hazards list where the code does not. Nothing else is assumed of
the owner, the server or the network, and `Revoke` and `Repair` are outside the
specification with fairness: it is about one client's lifetime. Connections must
last long enough, infinitely often, for a tick: that is what strong fairness of
`HeartbeatTick` adds for a link that keeps failing, and the first tick of a new
interval is ready at once.

The other components ask for less. `ProcFairness`: each monitor keeps going, as a
task of the runtime does when it is ready. `ShellFairness`: `await_result`'s own
deadlines (`AwaitStep`), the read loop's `Receive` and each pump. `McpFairness`,
`DapFairness`, `LspFairness`, `BrowserFairness`: the caller's future is polled
when its answer or its timer is ready; `EvalFairness`: the call writes its
requests when there is room, reads what is in the pipe, and its timeout kills. Nothing is asked of a peer, a reader, a
child, a descendant or the owner: `CallsEnd` and `ShellEnds` hold although those
may stop for ever (a descendant that never closes the pipes delays a result for
ever, so `ShellEnds` claims the result only once nothing holds them; a peer that lives
and never reads holds the write to it, so `CallsEnd` claims the end of the other
calls, `Held` says which ones).

`PunctualSpec` makes the two runs on decisions honest: the clock does not
advance while the UI thread or an idle loop has something ready, so what they
show needs no starved scheduler.

## What the violations show

* **A delete's prompt stays up** (`consent_delete`). The `desktop.fs.delete` arm
  handles `AwaitingConsent` as an ordinary error; the action is answered as
  failed, never parked, and nothing sweeps its prompt.
* **An approval in time is dropped** (`consent_timely`). The decision waits in
  the channel, the tick is chosen first, the sweep drops the parked entry and
  the decision finds nothing.
* **A denied action runs** (`consent_denial`). Two writes to one path are
  parked; the owner answers one "always" and denies the other; on resume
  `path_gate` asks the gate, which now allows the path, before it looks at the
  denial. `fs.restore` lets a grant override a denial in the same way.
* **One huge file empties the undo history** (`checkpoint_reversible`).
  `enforce_limits` counts the bytes of files whose content it did not keep.
* **A stopped command never reports** (`shell_stopped`). When the shell itself
  exits on TERM, `terminate_child` returns without the group's KILL, and
  `await_result` waits for pumps that a descendant which ignored TERM keeps
  open (`shell.rs:422`, against `shell.rs:355`, `361`, `429-430`).
* **Connected without a connection** (`connected`). Pairing and unpairing abort
  the client's task; only its own loop calls `mark_disconnected`, so `/status`
  keeps saying `connected: true` (`server.rs:372`, against `health.rs:4-6`).
* **Lines are skipped after the log ring wrapped** (`logs_wrap`). `LogRing::read`
  skips the dropped lines, which the ring does not hold any more, and then `start`
  lines more (`proc_ops.rs:152`, against `proc_ops.rs:142` and `17-18`).

Other differences noticed, without a run. Pipeline and store:

* a swept action gets neither a result nor a final task state;
* a remembered path is lost at the next `hello_ack` or `scope_update`, and is
  not sent to the server as `consent.rs:51-52` suggests; the dialog's "in this
  folder" remembers the exact path only;
* `docs/undo-checkpoint-spec.md:17` says prompts expire after 120 s, the
  constant is 180 s;
* `lsp.rename` writes files without a checkpoint;
* an undo of the oldest checkpoint at the count limit evicts that checkpoint
  before reading it, and fails;
* with two long actions queued ahead of the acks the watchdog cuts a live
  connection (set `Outstanding = 2` and `LivePeerKept` fails);
* `hello_ack` is awaited without a timeout;
* two captures in one millisecond share a stamp, and the second overwrites the
  first's blob (`checkpoint.rs:146`); a crash between blob and index leaves a
  blob that no eviction finds (`checkpoint.rs:160`).

Processes, shell and terminals:

* a kill that arrives as its task finishes leaves it Cancelling for ever; a
  process that exits before it is recorded stays Running with its token;
* a monitor whose `try_lock` fails drops the terminal state, and the table says
  Running for ever;
* the terminal's handshake is satisfied by the echo of its own command; a drain
  hands out the incomplete line again; `run` does not settle early once output
  is pending; the evicted session is an arbitrary one (`pty_ops.rs:24` says the
  oldest); `push_capped` compares bytes with characters;
* a new client gets a new process engine, so earlier processes can be stopped
  from the window only.

Engines:

* every engine writes to its peer outside the timeout, so a peer that lives and reads
  no more holds the call for ever (`mcp_ops.rs:282`, 268-276; `dap_ops.rs:181`, the
  disconnect of a teardown included; `lsp_ops.rs:281`, 531-542; `eval_session.rs:300`),
  against `mcp_ops.rs:16`, "every request has a timeout": `CallsEnd` exempts `Held`;
* the daemon leaves by `std::process::exit` (`server.rs:248`; `tray.rs:86`,
  `ui.rs:1441`), so nothing is dropped and `kill_on_drop` kills nothing, against
  `mcp_ops.rs:17-18`, "no orphaned servers when the daemon exits":
  `NoOrphanPeer` is about a daemon that lives, and exempts the adapters `left` by a
  dropped client;
* an edit may list a file twice; each target is checked for itself (`lsp_ops.rs:709-719`)
  and rewritten from the old text (721), so the second undoes the first and success is
  reported, against `lsp_ops.rs:667` and 708: `RenameWhole` claims the last target of
  each file;
* a session that prints past `MAX_CAPTURED_CHARS` while other sessions' calls are read
  loses what comes after, with one mark for all of it (`eval_session.rs:320`, against
  236-238): `ConsoleComplete` lets lines be missing where a mark stands;
* a pin that was applied but not answered returns without the restore, and nobody
  looks at a restore that fails (`browser_ops.rs:1552`, 1557, against 1285-1286):
  `SessionWhole` exempts exactly the captures whose pin or restore failed;
* Fetch is enabled on a page before its listener is subscribed, and the step between
  may fail, even with success reported (`browser_ops.rs:798-804`, against 788-790):
  requests of that page stay paused, and `SessionWhole` exempts the page as `unarmed`;
* MCP requests that timed out stay in the pending map;
* a stop of an earlier run satisfies `wait_for_stopped` (`dap_ops.rs:205`);
  adapters are spawned without `kill_on_drop`, so a dropped client leaves them to
  notice the end of their stdin;
* a language server is initialized per file, the file is marked open before the
  handshake succeeds, a dead server is never replaced, changes are never sent
  (`didChange`), requests of the server collide with answers by number, and the
  end of the pipe does not fail what is pending;
* a replacement and an insertion at one place pass a rename's overlap check, and a
  failed write is not rolled back;
* a runtime that dies between two calls keeps its slot for good: the next write
  fails, and that returns before the loop that would kill it (`eval_session.rs:161`);
* a failed launch or a dropped client leaves its browser task Running, its
  listeners detached and its profile on disk; `tab_open` with an id in use (the
  default `tab-N` after a close included) orphans the page; new tabs have no
  dialog handler, against `browser_ops.rs:1907-1909`; an empty mock set does not
  disarm; a release
  or key-up that fails leaves the button or key held; refs are replaced although
  the act that took the snapshot fails; `ax_depth` recurses for ever on a cycle
  of two, against its comment; `push_ring` drops lines during a drain.

Stores and lifecycle:

* a message id in two conversations stays in the first, with the text of the later
  snapshot, and the second lacks it (`chat_store.rs:220-226`); an empty
  snapshot prunes nothing; a late snapshot brings a deleted conversation back;
* a fresh chat file ends at version 1 and is migrated again at the next open; a
  crash between the two batches leaves version 2 without the tables of version 1
  (`chat_store.rs:96`); a push of several conversations is not one transaction,
  and an error in it leaves the connection through `?`;
* remembering again ignores the new kind, tags and importance; `forget` with
  `all` ignores the id; a file written without full-text search is not indexed;
* a page that goes away while `handle_unpair` saves the state or waits for the handle
  ends the handler before it aborts the client, which goes on serving the unpaired
  device (`server.rs:366`, against 335-337); pairing can end in the same place with the
  old client running: `ClientServesPaired` exempts what such a request left (`cut`);
* `/pair` succeeds although the client it spawned may find no pairing; an unpair
  that overlaps a pairing leaves its token in the keyring; the command line
  changes the file past a running daemon; a deep link does not ask whether the
  daemon is paired; the backend's url is captured when the client is spawned.

## Proofs

The `*Proofs` modules hold TLAPS proofs, for all values of the constants that
satisfy the modules' assumptions, each named `...Assumption` in the module that
declares the constants: limits are natural numbers, positive where the code's
are. A theorem is about a component's own specification (`LifecycleSpec`,
`PtySpec`, `ChatSpec`, `MemorySpec`), which is what the composed run takes when
its choosing variable names that component, or about the composed `MCSpec`
itself.

| Module | Proves about |
|---|---|
| `ConsentBridgeProofs`, `RefinementProofs` | the action pipeline, and that it implements the owner's contract |
| `DaemonProofs` | the watchdog and the lifecycle |
| `CheckpointProofs` | the undo store |
| `StoreProofs` | the chat archive and the memory |
| `ProcessProofs` | terminals, task list and processes, log ring, shell command |
| `ServerProofs` | MCP servers, language servers, browser |
| `PeerProofs` | JavaScript runtime, debug adapters, and all five engines together |

| Theorem | States | Argument |
|---|---|---|
| `TypeCorrect` | `Spec => []TypeOK` (pipeline) | inductive as it stands; the loop's handlers share `HandleTypes`, the broker's answers `AnswerTypes` |
| `AnswersNeverExceedRequests` | `Spec => []AnsweredAtMostOnce` | inductive with the types: parking, taking in hand and replying trade one claim for another |
| `ParkedStaysAnswerable` | `Spec => []ParkedIsAnswerable` | needs `AnswerInReach`: the same of the action about to be parked, one answer in the UI's hand, nothing parked once the client stopped (its channel loses what is pushed) |
| `NeverKilledEarly` | `Spec => KillNotEarly` | needs `BeatAfterLife`: the outstanding beat was sent after the last sign of life, one interval later per counted miss |
| `WatchdogTypesHold` | `Spec => []TypeOK` (watchdog) | needs `RequestsCounted`: what the server counts is the requests in the inbox and the one being handled (`Counts` follows the queue at both ends) |
| `ZombieNoticed` | `Lag <= Interval`, `Spec => []DetectedInTime` | `Noticing`: how far the next tick may be past the moment an idle loop was left with a dead peer, by whether a beat is out, missed once, or was too young at the last tick |
| `LiveServerKept` | `Outstanding <= 1`, `AckDelay < Interval`, `Spec => LivePeerKept` | `Answered`: the outstanding beat is in flight or an ack waits, and once the latency is over it waits first in line; needs the flight in order (`Flown`) and nothing queued behind an action (`OneRequest`) |
| `StoreTypes` | `Spec => []TypeOK` (store) | inductive |
| `NoChangeBeforeCapture` | `Spec => CapturedBeforeChange` | needs `CaptureHolds`, which follows the capture through append and eviction: stamps are not reused, so sparing the fresh entry spares its blob |
| `OnlyOldestDamaged` | `Spec => []DamageIsOldest` | needs `EvictionInOrder`: while an eviction runs, what left its list is older than what is left and has lost its content, and the operation's own entry is the newest |
| `UndoLogImplemented` | `Spec => ImplementsUndoLog` | the place of an entry in the log is the number of entries not newer than it, so a set of entries has one listing by stamp (`OrderedUnique`); a step adds the newest entry to the restorable ones, takes the oldest away or leaves them (`RestorablesStep`, from `EvictionInOrder` and `CaptureHolds`) |
| `LimitsAreEnforced` | `Spec => []LimitsEnforced` | the sum of sizes over a finite set is one number whatever the order it is added in, and grows with the set; instead of an induction, a smallest finite set for which that fails is shown not to exist (`SmallestBad`). The index an eviction writes is one its loop accepts, by the sizes of all entries (`Bounded`); those that kept their content are some of them |
| `ApprovalsSpentOnce` | `Spec => []ApprovalsNotMultiplied` | a decision is in the UI's hand at most once, and pushing or taking one moves the count of decisions on their way by exactly one (`YesTaken`) |
| `ContractImplemented` | `MaxSend <= 1`, `Spec => ImplementsContract` | `RefInv`: nothing is held of an id before it was sent, the action in hand is not parked as well, a queued approval was given; then one lemma per kind of contract step (`Simulates`). Revoke and new pairing included |
| `PromptsHaveActions` | `MaxSend <= 1`, no delete arm: `ClientSpec => []NoOrphanPrompt` | needs `OneAnswer`: while a prompt is up, no answer to it travels. `consent_delete` shows why the delete arm is excluded |
| `OnePairedClient` | `LifecycleSpec => []ClientServesPaired` | needs `RequestsFollowUp`: a request that changed the device has the swap or stop of the client before it, or its page left there, which `cut` remembers; `OneLive`, `ServesPaired` |
| `SessionsLimited` | `PtySpec => []PtyTypeOK` | the map and the session being booted never exceed the limit |
| `ShellsReachable` | `PtySpec => []NoShellLeaks` | every live shell is in the map or in its handshake |
| `DrainsUnreadTail` | `PtySpec => []BufferIsUnreadTail` | `Tailed(ring, m, g)`: the ring is the consecutive newest lines above what was handed out |
| `ReportedEndIsTrue` | `MCSpec => []TerminalIsTrue` (processes) | `ProcInv`: where the read loop is tells what it holds (`LoopInv`), and an outcome is there only once its child is dead (`OutcomeInv`); list and table (`ListTrue`, `TableTrue`) are written from it |
| `RunningStaysKillable` | `MCSpec => []RunningIsKillable` | the same invariant: whoever drops a process's token does so once its monitor is past waiting and killing |
| `LiveTaskKept` | `MCSpec => LiveTaskDroppedOnlyByCap` | every step of the list records, updates or cleans up (`ListStep`), a cleanup keeps what is not terminal, and `ListTrue` makes what is terminal dead; `KeptProperties` gives what a filtered list holds |
| `LogsInOrder` | `MCSpec => PollsInOrder` | `RingInv`: the ring holds the newest lines, consecutively, and all of them until it is full; the poller's place never passes what was printed. `SeenInv`: what was returned lies below the place where the next read starts |
| `OutputBeforeResult` | `MCSpec => []StreamedBeforeResult` | `ShellInv`: what a stream's pump has read was carried on or waits in its batch (`Accounted`; `Carried` counts it chunk by chunk through the channel), and the call is done with both pumps ended and an empty channel (`AllSent`) |
| `LimitsHold` | `MCSpec => []TypesOK` (processes) | from the three invariants and the terminals' |
| `RefsStayTrue`, `SessionStaysWhole` | `MCSpec => []RefsAsShown`, `[]SessionWhole` | `BrowserInv`: a launch works on a session of its own until it succeeds (`VerbInv`), every tab is a page of the session's Chrome, with one listener while mocks are armed unless it could not be given one (`WholeSession`); the metrics are pinned only by the capture in progress or after a pin or restore that failed (`PinnedInv`) |
| `RenameReachesFiles` | `MCSpec => []RenameWhole` | `LspInv`: while an edit is applied, each target before the current one has its changes in its file, the last of them where the edit has several for it (`Applied`) |
| `ContextsKept` | `MCSpec => []SessionsRemembered` | `EvalInv`: what the runtime has yet to read is the sessions reaped before the call and then the call's own request (`RequestsInv`), so a context that is not of its session's life is about to be freed (`ContextsInv`) |
| `ConsoleWhole` | `MCSpec => []ConsoleComplete` | frames are taken one at a time: a session's console stays the same when its own line moves from the pipe to what is held for it, a frame of another session can be taken out of the middle (`ForeignGone`), and a line that a full buffer does not take has a mark in its place (`FrameCut`) or is behind one already (`BehindCutGone`). Needs `HeldInv` (nothing is held for the session of the call, which gathers its lines itself), `PipeInv` (no line of a life to come) and `QuietInv` (a session the engine neither knows nor calls has printed nothing, so what is dropped is not its line) |
| `AnswersAreOwn` | `MCSpec => []OwnAnswer` | ids are below the counter they came from, and everything that still arrives under the id in progress was made for it (`MadeFor`, `DapMadeFor`) |
| `NobodyOrphaned` | `MCSpec => []NoOrphanPeer` | up to what a dropped client (adapters) or the daemon's exit leaves: `McpInv` and, for the adapters, `OpInv`: where an operation is, which adapter it holds, and that a start holds no session under its name |
| `TypesHold` | `MCSpec => []TypesOK` (engines) | each engine's invariant, and of the pipes (`McpPipe`, `DapPipe`, `LspPipe`, `EvalPipeHolds`) on their own, since nothing else depends on them; the ids follow from the budget of requests a call may still make (`McpBudget`, `ToSend`) |
| `NewestSnapshotHeld` | `ChatSpec => []ChatAsNewestTold` | the messages stored of a conversation are those of its newest snapshot; none belongs to a conversation that is not stored |
| `ToldIsRemembered` | `MemorySpec => []MemoryAsTold` | one row per project and content, the rows are what was told (`AsTold`), the index lists exactly the rows |

The inductive invariants of the processes and the engines (`ProcInv`, `RingInv`,
`ShellInv`, `McpInv`, `LspInv`, `BrowserInv`, `EvalInv`, `DapInv`) are needed
because the properties speak of an end result (an answer, a report, a session)
while the steps that could spoil it are taken by somebody else, earlier: a
request that timed out, a monitor between two of its writes, a launch that has
not entered the map.

Every safety property of the passing runs is stated by a theorem, some under the
bounds the table names. Only model-checked: what depends on fairness
(`ParkedIsResolved`, `PromptComesDown`, `CancelledProcessEnds`, `ShellEnds`,
`CallsEnd`), which is out of the prover's reach, as is `ENABLED`.

## Plan

What is left: the matching of `fs.patch` as an operator against a reference definition.

## Not modelled

* *Accessibility, git, AST and system adapters*: one call into another program
  each, without state between calls.
* *Updater*: one sequence (download, verify, replace) without retained state.
* *Audit log*: append-only records; nothing in the daemon reads them back.
* *Mobile apps, bridge node, scripts*: separate programs of the same protocol.
* *File operations*: the mutations are modelled where the checkpoint store guards
  them; the matching of `fs.patch` and the bounded read are not.
* *Health counters*: `connected` and the unacknowledged beats are modelled; the
  stamps and totals are only shown.
* *Window and tray*: the consent dialog, the refresh and kill loops and the
  unpair are modelled; the rest is layout.
* *Wire protocol*: frames are the models' actions; serialization is not modelled.
