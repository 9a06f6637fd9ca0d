------------------------------ MODULE Lifecycle ------------------------------
(***************************************************************************)
(* Pairing and unpairing (server.rs, main.rs, pairing.rs, keyring.rs,      *)
(* health.rs).  The web page's local requests, deep links, the window and  *)
(* the command line each change the keyring, the paired device in memory   *)
(* and on disk, and the task that runs the connection, in several steps    *)
(* and without a common lock.  The task reads the pairing when it starts.  *)
(* A page that goes away takes its request with it, at whatever the        *)
(* request waits for.                                                      *)
(***************************************************************************)
EXTENDS Integers, Sequences, FiniteSets

CONSTANTS Devices, Nobody, \* paired devices; no device
          Callers,         \* requests in progress at one time
          Nonces,          \* bound: nonces ever minted
          Tasks,           \* connection tasks that may live at one time
          Starts           \* bound: how often the daemon is started

ASSUME LifecycleAssumption ==
  /\ Nobody \notin Devices
  /\ Nonces \in Nat /\ Starts \in Nat \ {0}

VARIABLES paired,    \* DaemonState.device_id
          file,      \* the device_id that loading state.json gives
          keys,      \* devices whose token is in the keyring
          nonce,     \* the valid pairing_nonce, 0 when there is none
          minted,    \* nonces minted so far, which number them
          request,   \* [Callers -> the request in progress]
          task,      \* [Tasks -> the connection task]
          handle,    \* the tasks ws_handle holds: one or none
          connected, \* WsHealth.connected
          cut,       \* history: a page left between the pairing and the task
          starts     \* how often the daemon was started

lifeVars == <<paired, file, keys, nonce, minted, request, task, handle, connected, cut, starts>>
nonces == <<nonce, minted>>
pairing == <<paired, file, keys>>
link == <<task, handle, connected, cut>>

NoRequest == [by |-> "none", left |-> <<>>, device |-> Nobody, nonce |-> 0]

Over == [stage |-> "over", device |-> Nobody]
Spawned == [stage |-> "spawned", device |-> Nobody]
NoTasks == [k \in Tasks |-> Over]
Live(k) == task[k] # Over

\* The requests as their steps.  The last two are other processes.
PairSteps == <<"check", "spend", "key", "write", "swap">>
LinkSteps == <<"key", "write", "swap">>
UnpairSteps == <<"spend", "read", "unkey", "clear", "stop", "renew">>
WindowSteps == <<"read", "unkey", "clear", "stop">>
ShutdownSteps == <<"spend", "exit">>
CliPairSteps == <<"key", "save">>
CliUnpairSteps == <<"load", "unkey", "wipe">>

LifecycleInit ==
  /\ file \in {Nobody} \cup Devices /\ paired = file /\ keys = {file} \ {Nobody}
  /\ nonce = 0 /\ minted = 0 /\ request = [c \in Callers |-> NoRequest]
  /\ IF paired = Nobody
     THEN task = NoTasks /\ handle = {}
     ELSE \E k \in Tasks : task = [NoTasks EXCEPT ![k] = Spawned] /\ handle = {k}
  /\ connected = FALSE /\ cut = FALSE /\ starts = 1

----------------------------------------------------------------------------
(* Requests. *)

\* `by' says what serves the request: a page's connection, a task of the daemon,
\* or another process.
Begin(c, by, steps, d, n) ==
  /\ request[c] = NoRequest
  /\ request' = [request EXCEPT ![c] = [by |-> by, left |-> steps, device |-> d, nonce |-> n]]
  /\ UNCHANGED <<pairing, nonces, link, starts>>

\* A page sends the nonce it was given; one that is not valid any more is as good
\* as none.
Request(c) ==
  \/ \E d \in Devices, n \in {0, nonce} : Begin(c, "web", PairSteps, d, n)
  \/ \E n \in {0, nonce} :
       Begin(c, "web", UnpairSteps, Nobody, n) \/ Begin(c, "web", ShutdownSteps, Nobody, n)
  \/ \E d \in Devices : Begin(c, "daemon", LinkSteps, d, 0) \/ Begin(c, "cli", CliPairSteps, d, 0)
  \/ Begin(c, "daemon", WindowSteps, Nobody, 0) \/ Begin(c, "cli", CliUnpairSteps, Nobody, 0)

\* A request keeps its device and its nonce for as long as it needs them.
After(r) ==
  IF Len(r.left) = 1 THEN NoRequest
  ELSE [by |-> r.by, left |-> Tail(r.left),
        device |-> IF Head(r.left) \in {"write", "unkey"} THEN Nobody ELSE r.device,
        nonce |-> IF Head(r.left) = "spend" THEN 0 ELSE r.nonce]
Done(c) == [request EXCEPT ![c] = After(request[c])]
At(c, step) == request[c] # NoRequest /\ Head(request[c].left) = step
Refused(c) == [request EXCEPT ![c] = NoRequest]

\* The steps a page's request waits before, for a lock or for the file; the others
\* follow without an await, or in a task of their own.
Awaits == {"check", "spend", "read", "write", "swap", "clear", "stop", "renew"}

\* The page goes away and the server drops its request where it waits.
PageLeaves(c) ==
  /\ request[c].by = "web" /\ Head(request[c].left) \in Awaits
  /\ cut' = (cut \/ Head(request[c].left) \in {"swap", "stop"})
  /\ request' = Refused(c)
  /\ UNCHANGED <<pairing, nonces, task, handle, connected, starts>>

\* /status mints a nonce where there is no valid one.
Status ==
  /\ nonce = 0 /\ minted < Nonces /\ minted' = minted + 1 /\ nonce' = minted'
  /\ UNCHANGED <<pairing, request, link, starts>>

NonceExpires == nonce # 0 /\ nonce' = 0 /\ UNCHANGED <<pairing, minted, request, link, starts>>

\* /pair refuses when a device is paired already.
CheckPaired(c) ==
  /\ At(c, "check")
  /\ request' = IF paired = Nobody THEN Done(c) ELSE Refused(c)
  /\ UNCHANGED <<pairing, nonces, link, starts>>

TakeNonce(c) ==
  /\ At(c, "spend")
  /\ IF nonce # 0 /\ request[c].nonce = nonce
     THEN nonce' = 0 /\ request' = Done(c)
     ELSE UNCHANGED nonce /\ request' = Refused(c)
  /\ UNCHANGED <<pairing, minted, link, starts>>

\* The token enters the keyring, or the request fails: its backend, its code or
\* the keyring is not good.
SaveKey(c) ==
  /\ At(c, "key")
  /\ \/ keys' = keys \cup {request[c].device} /\ request' = Done(c)
     \/ UNCHANGED keys /\ request' = Refused(c)
  /\ UNCHANGED <<paired, file, nonces, link, starts>>

\* What state.json may hold after a write that nobody checks: it may have failed,
\* or left a torn file, which loads as an unpaired one.
Saved(d) == {d, file, Nobody}

WriteState(c) ==
  /\ At(c, "write")
  /\ paired' = request[c].device /\ file' \in Saved(paired') /\ request' = Done(c)
  /\ UNCHANGED <<keys, nonces, link, starts>>

Ended(ended) == [k \in Tasks |-> IF k \in ended THEN Over ELSE task[k]]

\* Under the handle's lock the task it holds is aborted and a new one spawned.
SwapClient(c) ==
  /\ At(c, "swap")
  /\ \E k \in Tasks :
       /\ Ended(handle)[k] = Over
       /\ task' = [Ended(handle) EXCEPT ![k] = Spawned] /\ handle' = {k}
  /\ request' = Done(c) /\ cut' = FALSE
  /\ UNCHANGED <<pairing, nonces, connected, starts>>

ReadDevice(c) ==
  /\ At(c, "read") /\ request' = [Done(c) EXCEPT ![c].device = paired]
  /\ UNCHANGED <<pairing, nonces, link, starts>>

DeleteKey(c) ==
  /\ At(c, "unkey")
  /\ keys' \in {keys, keys \ {request[c].device}} /\ request' = Done(c)
  /\ UNCHANGED <<paired, file, nonces, link, starts>>

ClearState(c) ==
  /\ At(c, "clear")
  /\ paired' = Nobody /\ file' \in Saved(Nobody) /\ request' = Done(c)
  /\ UNCHANGED <<keys, nonces, link, starts>>

\* Mutant: a task that has not read the pairing yet is left to find out by itself.
StopConnected(c) ==
  /\ At(c, "stop")
  /\ task' = Ended({k \in handle : task[k] # Spawned}) /\ handle' = {}
  /\ request' = Done(c) /\ cut' = FALSE
  /\ UNCHANGED <<pairing, nonces, connected, starts>>

StopClient(c) ==
  /\ At(c, "stop")
  /\ task' = Ended(handle) /\ handle' = {} /\ request' = Done(c) /\ cut' = FALSE
  /\ UNCHANGED <<pairing, nonces, connected, starts>>

\* After /unpair the page can pair at once.
RenewNonce(c) ==
  /\ At(c, "renew") /\ minted < Nonces
  /\ minted' = minted + 1 /\ nonce' = minted' /\ request' = Done(c)
  /\ UNCHANGED <<pairing, link, starts>>

\* The command line works on the file, past a running daemon.
ReadFile(c) ==
  /\ At(c, "load") /\ request' = [Done(c) EXCEPT ![c].device = file]
  /\ UNCHANGED <<pairing, nonces, link, starts>>

WriteFile(c) ==
  /\ \/ At(c, "save") /\ file' \in Saved(request[c].device)
     \/ At(c, "wipe") /\ file' \in Saved(Nobody)
  /\ request' = Done(c)
  /\ UNCHANGED <<paired, keys, nonces, link, starts>>

----------------------------------------------------------------------------
(* The connection task. *)

\* run_ws_client: without a device or its token there is no client.
ReadPairing(k) ==
  /\ task[k] = Spawned
  /\ task' = IF paired # Nobody /\ paired \in keys
             THEN [task EXCEPT ![k] = [stage |-> "dialing", device |-> paired]] ELSE Ended({k})
  /\ UNCHANGED <<pairing, nonces, request, handle, connected, cut, starts>>

\* hello_ack, and the end of a connection, which is dialled again or, when the
\* server refuses the device, given up.
HelloAcked(k) ==
  /\ task[k].stage = "dialing"
  /\ task' = [task EXCEPT ![k].stage = "up"] /\ connected' = TRUE
  /\ UNCHANGED <<pairing, nonces, request, handle, cut, starts>>

ConnectionEnds(k) ==
  /\ task[k].stage \in {"dialing", "up"}
  /\ task' \in {[task EXCEPT ![k].stage = "dialing"], Ended({k})} /\ connected' = FALSE
  /\ UNCHANGED <<pairing, nonces, request, handle, cut, starts>>

\* The process ends, by /shutdown or by itself, and is started again, which loads
\* the file.  Requests of the command line go on.
Restart ==
  /\ starts < Starts /\ starts' = starts + 1
  /\ paired' = file /\ UNCHANGED <<file, keys, minted>>
  /\ nonce' = 0 /\ connected' = FALSE /\ cut' = FALSE
  /\ request' = [c \in Callers |-> IF request[c].by = "cli" THEN request[c] ELSE NoRequest]
  /\ IF file = Nobody
     THEN task' = NoTasks /\ handle' = {}
     ELSE \E k \in Tasks : task' = [NoTasks EXCEPT ![k] = Spawned] /\ handle' = {k}

Exit(c) == At(c, "exit") /\ Restart

LifecycleNext ==
  \/ \E c \in Callers :
       \/ Request(c) \/ CheckPaired(c) \/ TakeNonce(c) \/ SaveKey(c) \/ WriteState(c) \/ SwapClient(c)
       \/ ReadDevice(c) \/ DeleteKey(c) \/ ClearState(c) \/ StopClient(c) \/ RenewNonce(c)
       \/ ReadFile(c) \/ WriteFile(c) \/ Exit(c) \/ PageLeaves(c)
  \/ \E k \in Tasks : ReadPairing(k) \/ HelloAcked(k) \/ ConnectionEnds(k)
  \/ Status \/ NonceExpires \/ Restart

LifecycleSpec == LifecycleInit /\ [][LifecycleNext]_lifeVars

----------------------------------------------------------------------------
\* A request has changed the pairing and not yet the task.
Halfway == \E c \in Callers : request[c] # NoRequest /\ Head(request[c].left) \in {"swap", "stop"}

\* However pairings and unpairings overlap, the one task alive is the one the
\* handle can abort, and once they are through it serves the device that is
\* paired (server.rs: handle_pair, handle_unpair; main.rs: UiCmd::Unpair, the deep
\* link).  A page that leaves between the two does leave a client that serves a
\* device no longer paired (server.rs:366, the client stopped at :372 only), until
\* the next pairing or unpairing reaches the task.
ClientServesPaired ==
  /\ \A k \in Tasks : Live(k) => handle = {k}
  /\ ~Halfway /\ ~cut =>
       \A k \in Tasks : task[k].stage \in {"dialing", "up"} => task[k].device = paired

\* The status says connected only while a connection is up.
ConnectedIsReal == connected => \E k \in Tasks : task[k].stage = "up"
==============================================================================
