----------------------------- MODULE BrowserTabs -----------------------------
(***************************************************************************)
(* Browser automation (browser_ops.rs): at most one session, a Chrome with *)
(* a page per tab, of which one is active.  Verbs name elements by the     *)
(* refs of the last snapshot, which are numbered anew by every snapshot.   *)
(* Calls come one at a time from the client's loop and hold the store's    *)
(* lock; any command to a page may fail, at times after Chrome has carried *)
(* it out (an answer past its deadline), and Chrome may die under them.    *)
(*                                                                         *)
(* A snapshot is its number, and refs are the page and the snapshot they   *)
(* were taken from.                                                        *)
(***************************************************************************)
EXTENDS Integers, Sequences, FiniteSets

CONSTANTS TabNames,   \* tab ids, the default names "tab-N" among them
          MainTab,    \* "main"
          Chromes,    \* bound: browsers ever launched
          TabPages,   \* bound: pages ever opened
          Snapshots   \* bound: snapshots ever taken

ASSUME BrowserAssumption ==
  MainTab \in TabNames /\ Chromes \in Nat /\ TabPages \in Nat /\ Snapshots \in Nat

VARIABLES chrome,  \* the browsers, in the order of their launch: [alive, task]
          pages,   \* the pages, in the order of their opening: [of, listens, pinned]
          session, \* BrowserStore.sessions["default"]
          verb,    \* the call in progress
          taken,   \* snapshots taken so far, which number them
          shown,   \* the snapshot the caller was given last
          errored, \* its last call on the page failed instead
          stray,   \* browsers whose task nobody finishes any more
          unarmed  \* pages no listener could be put on

browserVars == <<chrome, pages, session, verb, taken, shown, errored, stray, unarmed>>
seen == <<taken, shown, errored>>

NoRefs == [page |-> 0, snap |-> 0]
NoTabs == [of |-> 0, tabs |-> <<>>, active |-> MainTab, page |-> 0, refs |-> NoRefs, armed |-> FALSE]
NoVerb == [op |-> "none", stage |-> "idle", plan |-> <<>>, shot |-> FALSE, fresh |-> NoTabs]
NewPage(b) == [of |-> b, listens |-> 0, pinned |-> "no"]

BrowserInit ==
  /\ chrome = <<>> /\ pages = <<>> /\ session = NoTabs /\ verb = NoVerb
  /\ taken = 0 /\ shown = 0 /\ errored = FALSE /\ stray = {} /\ unarmed = {}

Free == verb = NoVerb
Open == session # NoTabs
\* A command to a page may be answered.
Answers(s) == chrome[s.of].alive

----------------------------------------------------------------------------
(* launch and close. *)

\* close: listeners aborted, Chrome closed, its task finished.
Closed(b) == [k \in DOMAIN chrome |-> IF k = b THEN [alive |-> FALSE, task |-> "killed"] ELSE chrome[k]]

CloseBrowser ==
  /\ Free /\ Open
  /\ chrome' = Closed(session.of) /\ session' = NoTabs
  /\ UNCHANGED <<pages, verb, seen, stray, unarmed>>

\* A previous session is closed first.
BrowserLaunch(url) ==
  /\ Free /\ Len(chrome) < Chromes /\ Len(pages) < TabPages
  /\ chrome' = Closed(session.of) /\ session' = NoTabs
  /\ verb' = [NoVerb EXCEPT !.op = "launch", !.stage = "starting", !.plan = IF url THEN <<"goto">> ELSE <<>>]
  /\ UNCHANGED <<pages, seen, stray, unarmed>>

\* No Chrome, or a first page without its popup guard: what was started is
\* dropped, and killed by that.
LaunchFails ==
  /\ verb.stage = "starting" /\ verb' = NoVerb
  /\ UNCHANGED <<chrome, pages, session, seen, stray, unarmed>>

\* The page is guarded and the task recorded.  The session enters the map now,
\* or after its first navigation.
LaunchReady ==
  /\ verb.stage = "starting"
  /\ chrome' = Append(chrome, [alive |-> TRUE, task |-> "running"])
  /\ pages' = Append(pages, NewPage(Len(chrome) + 1))
  /\ LET fresh == [NoTabs EXCEPT !.of = Len(chrome) + 1, !.page = Len(pages) + 1,
                     !.tabs = [t \in {MainTab} |-> Len(pages) + 1]]
     IN IF verb.plan = <<>>
        THEN session' = fresh /\ verb' = NoVerb
        ELSE session' = session /\ verb' = [verb EXCEPT !.stage = "do", !.fresh = fresh]
  /\ UNCHANGED <<seen, stray, unarmed>>

----------------------------------------------------------------------------
(* Verbs on the active page, as the commands they send. *)

Click == <<"press", "release">>
DoubleClick == Click \o Click
TypeText == Click \o <<"insert">>
SetValue == <<"set">>
SelectOption == <<"pick">>
Hover == <<"move">>
PressKey == <<"keydown", "keyup">>
Scroll == <<"wheel">>
ReloadPage == <<"reload">>
History == <<"history">>

\* These name an element: a ref the last snapshot did not list is refused.
ElementPlans == {Click, DoubleClick, TypeText, SetValue, SelectOption, Hover}
PagePlans == {PressKey, Scroll, ReloadPage, History}

\* What the call works on: a launch has its session to itself until it ends.
Here == IF verb.op = "launch" THEN verb.fresh ELSE session

Act(plan, shot) ==
  /\ Free /\ Open /\ (plan \in ElementPlans => session.refs # NoRefs)
  /\ verb' = [NoVerb EXCEPT !.op = "act", !.stage = "do", !.plan = plan, !.shot = shot]
  /\ UNCHANGED <<chrome, pages, session, seen, stray, unarmed>>

Navigate ==
  /\ Free /\ Open
  /\ verb' = [NoVerb EXCEPT !.op = "navigate", !.stage = "do", !.plan = <<"goto">>]
  /\ UNCHANGED <<chrome, pages, session, seen, stray, unarmed>>

\* wait polls without touching the refs, up to a deadline of its own.
WaitFor ==
  /\ Free /\ Open
  /\ verb' = [NoVerb EXCEPT !.op = "wait", !.stage = "do", !.plan = <<"poll">>]
  /\ UNCHANGED <<chrome, pages, session, seen, stray, unarmed>>

TakeSnapshot ==
  /\ Free /\ Open
  /\ verb' = [NoVerb EXCEPT !.op = "snapshot", !.stage = "snap"]
  /\ UNCHANGED <<chrome, pages, session, seen, stray, unarmed>>

Screenshot ==
  /\ Free /\ Open
  /\ verb' = [NoVerb EXCEPT !.op = "shot", !.stage = "pin"]
  /\ UNCHANGED <<chrome, pages, session, seen, stray, unarmed>>

\* A command is done; after the last one the page is left to settle.
Command ==
  /\ verb.stage = "do" /\ Answers(Here)
  /\ verb' = [verb EXCEPT !.plan = Tail(@), !.stage = IF Len(verb.plan) = 1 THEN "snap" ELSE "do"]
  /\ UNCHANGED <<chrome, pages, session, seen, stray, unarmed>>

\* A command fails, for whatever reason, and the call with it: a launch drops
\* its Chrome, whose task stays as it was recorded.
Fails ==
  /\ verb.stage \in {"do", "snap"}
  /\ verb' = NoVerb /\ errored' = TRUE
  /\ IF verb.op = "launch"
     THEN /\ chrome' = [chrome EXCEPT ![verb.fresh.of].alive = FALSE]
          /\ stray' = stray \cup {verb.fresh.of}
     ELSE UNCHANGED <<chrome, stray>>
  /\ UNCHANGED <<pages, session, taken, shown, unarmed>>

Reply(n) == verb' = NoVerb /\ shown' = n /\ errored' = FALSE

\* The tree is read and its refs replace the session's.
Snapshot ==
  /\ verb.stage = "snap" /\ taken < Snapshots /\ Answers(Here)
  /\ taken' = taken + 1
  /\ session' = [Here EXCEPT !.refs = [page |-> Here.page, snap |-> taken']]
  /\ IF verb.shot
     THEN verb' = [verb EXCEPT !.stage = "pin"] /\ UNCHANGED <<shown, errored>>
     ELSE Reply(taken')
  /\ UNCHANGED <<chrome, pages, stray, unarmed>>

\* A capture pins the page's metrics, unless it is of the full page.  A pin that
\* is not answered in time returns at once, and may have left the page pinned.
PageIs(pinned) == pages' = [pages EXCEPT ![session.page].pinned = pinned]
Pin ==
  /\ verb.stage = "pin"
  /\ \/ /\ verb' = [verb EXCEPT !.stage = "capture"] /\ UNCHANGED errored
        /\ (Answers(session) /\ PageIs("yes")) \/ (verb.op = "shot" /\ UNCHANGED pages)
     \/ verb' = NoVerb /\ errored' = TRUE /\ (PageIs("left") \/ UNCHANGED pages)
  /\ UNCHANGED <<chrome, session, taken, shown, stray, unarmed>>

\* Mutant: a capture that fails returns before it restores the metrics.
CaptureReturns ==
  /\ verb.stage = "capture"
  /\ \/ verb' = NoVerb /\ errored' = TRUE /\ UNCHANGED <<pages, shown>>
     \/ /\ Answers(session)
        /\ IF pages[session.page].pinned = "yes" THEN PageIs("no") \/ PageIs("left") ELSE UNCHANGED pages
        /\ IF verb.op = "act" THEN Reply(taken) ELSE verb' = NoVerb /\ UNCHANGED <<shown, errored>>
  /\ UNCHANGED <<chrome, session, taken, stray, unarmed>>

\* Metrics that were pinned are restored whether the capture succeeded or not; when
\* restoring them fails the page is left pinned, and nobody looks.
Capture ==
  /\ verb.stage = "capture"
  /\ IF pages[session.page].pinned = "yes" THEN PageIs("no") \/ PageIs("left") ELSE UNCHANGED pages
  /\ \/ verb' = NoVerb /\ errored' = TRUE /\ UNCHANGED shown
     \/ /\ Answers(session)
        /\ IF verb.op = "act" THEN Reply(taken) ELSE verb' = NoVerb /\ UNCHANGED <<shown, errored>>
  /\ UNCHANGED <<chrome, session, taken, stray, unarmed>>

----------------------------------------------------------------------------
(* Tabs and route mocks. *)

\* A listener is put on each of some pages.
Arming(heard) == [p \in DOMAIN pages |-> [pages[p] EXCEPT !.listens = IF p \in heard THEN @ + 1 ELSE @]]

\* The new page takes its name, from a page that had it too, and becomes active.
\* Interception is enabled on it when mocks are armed; a failure is logged.
TabOpen(t) ==
  /\ Free /\ Open /\ Len(pages) < TabPages /\ Answers(session)
  /\ LET p == Len(pages) + 1
     IN /\ session' = [session EXCEPT !.tabs = [u \in DOMAIN @ \cup {t} |-> IF u = t THEN p ELSE @[u]],
                         !.active = t, !.page = p, !.refs = NoRefs]
        /\ \/ pages' = Append(pages, [NewPage(session.of) EXCEPT !.listens = IF session.armed THEN 1 ELSE 0])
              /\ UNCHANGED unarmed
           \/ session.armed /\ unarmed' = unarmed \cup {p} /\ pages' = Append(pages, NewPage(session.of))
  /\ UNCHANGED <<chrome, verb, seen, stray>>

TabSelect(t) ==
  /\ Free /\ Open /\ t \in DOMAIN session.tabs
  /\ session' = [session EXCEPT !.active = t, !.page = session.tabs[t], !.refs = NoRefs]
  /\ UNCHANGED <<chrome, pages, verb, seen, stray, unarmed>>

OtherTabs(t) == [u \in DOMAIN session.tabs \ {t} |-> session.tabs[u]]

\* Mutant: the fallback tab becomes active with the refs of the closed one.
TabCloseKeepsRefs(t) ==
  /\ Free /\ Open /\ t \in DOMAIN session.tabs /\ Cardinality(DOMAIN session.tabs) > 1
  /\ IF session.active = t
     THEN \E u \in DOMAIN session.tabs \ {t} :
            session' = [session EXCEPT !.tabs = OtherTabs(t), !.active = u, !.page = session.tabs[u]]
     ELSE session' = [session EXCEPT !.tabs = OtherTabs(t)]
  /\ UNCHANGED <<chrome, pages, verb, seen, stray, unarmed>>

\* A closed active tab hands over to any other.
TabClose(t) ==
  /\ Free /\ Open /\ t \in DOMAIN session.tabs /\ Cardinality(DOMAIN session.tabs) > 1
  /\ IF session.active = t
     THEN \E u \in DOMAIN session.tabs \ {t} :
            session' = [session EXCEPT !.tabs = OtherTabs(t), !.active = u, !.page = session.tabs[u],
                          !.refs = NoRefs]
     ELSE session' = [session EXCEPT !.tabs = OtherTabs(t)]
  /\ UNCHANGED <<chrome, pages, verb, seen, stray, unarmed>>

\* The last tab takes the session with it.
TabCloseLast(t) ==
  /\ Free /\ Open /\ DOMAIN session.tabs = {t}
  /\ chrome' = Closed(session.of) /\ session' = NoTabs
  /\ UNCHANGED <<pages, verb, seen, stray, unarmed>>

TabPagesOf(s) == {s.tabs[t] : t \in DOMAIN s.tabs}

\* The first set of rules arms every tab's page: its requests are paused, then a
\* listener is subscribed.  A page may be reported armed and have no listener, its
\* requests paused for good; pages that fail stay unmocked; only when all of them
\* fail is nothing armed.  Later sets only change rules.
MockSet ==
  /\ Free /\ Open /\ ~session.armed /\ Answers(session)
  /\ \E ok \in SUBSET TabPagesOf(session) : \E heard \in SUBSET ok :
       /\ session' = [session EXCEPT !.armed = ok # {}]
       /\ pages' = Arming(heard)
       /\ unarmed' = IF ok = {} THEN unarmed ELSE unarmed \cup (TabPagesOf(session) \ heard)
  /\ UNCHANGED <<chrome, verb, seen, stray>>

----------------------------------------------------------------------------
ChromeDies(b) ==
  /\ chrome[b].alive /\ chrome' = [chrome EXCEPT ![b].alive = FALSE]
  /\ UNCHANGED <<pages, session, verb, seen, stray, unarmed>>

\* The client is dropped with its store: Chrome is killed, and the task of a
\* session or a launch stays Running.
BrowserDropped ==
  /\ chrome # <<>>
  /\ chrome' = [b \in DOMAIN chrome |-> [chrome[b] EXCEPT !.alive = FALSE]]
  /\ stray' = stray \cup ({session.of, verb.fresh.of} \cap DOMAIN chrome)
  /\ session' = NoTabs /\ verb' = NoVerb
  /\ UNCHANGED <<pages, seen, unarmed>>

BrowserCaller == LaunchFails \/ LaunchReady \/ Command \/ Fails \/ Snapshot \/ Pin \/ Capture

BrowserNext ==
  \/ \E url \in BOOLEAN : BrowserLaunch(url)
  \/ \E plan \in ElementPlans \cup PagePlans, shot \in BOOLEAN : Act(plan, shot)
  \/ Navigate \/ WaitFor \/ TakeSnapshot \/ Screenshot \/ CloseBrowser \/ MockSet
  \/ \E t \in TabNames : TabOpen(t) \/ TabSelect(t) \/ TabClose(t) \/ TabCloseLast(t)
  \/ BrowserCaller \/ BrowserDropped
  \/ \E b \in DOMAIN chrome : ChromeDies(b)

\* A call is polled to its end; commands have a timeout of their own.
BrowserFairness == WF_browserVars(BrowserCaller)
BrowserSpec == BrowserInit /\ [][BrowserNext]_browserVars /\ BrowserFairness

----------------------------------------------------------------------------
\* Type correctness of the session and its Chrome.
BrowserTypeOK ==
  /\ \A b \in DOMAIN chrome : chrome[b].task \in {"running", "killed"}
  /\ \A p \in DOMAIN pages : pages[p].of \in DOMAIN chrome /\ pages[p].pinned \in {"no", "yes", "left"}
  /\ session.page \in 0 .. Len(pages) /\ DOMAIN session.tabs \subseteq TabNames
  /\ verb.stage \in {"idle", "starting", "do", "snap", "pin", "capture"}
  /\ taken \in 0 .. Snapshots /\ shown \in 0 .. taken

\* A ref means the element the caller saw under it: refs belong to the page the
\* verbs act on, across tabs opened, renamed over, selected and closed, and to
\* the snapshot given last, unless the call that took a newer one failed
\* (browser_ops.rs: snapshot_inner, tab_close, act).
RefsAsShown ==
  session.refs # NoRefs =>
    /\ session.refs.page = session.page
    /\ session.refs.snap = shown \/ errored \/ verb.shot

\* A session has an active page which is one of its tabs; while mocks are armed
\* each tab's requests are served by exactly one listener, but for the pages that
\* could not be given one; no page stays pinned after a capture, even one that
\* failed, unless the command that pins or restores it did (browser_ops.rs:1285-1286);
\* and only the session has a running task, but for launches that failed and clients
\* that were dropped (tab_close, mock_set, screenshot_inner, close).
SessionWhole ==
  /\ Open => session.active \in DOMAIN session.tabs /\ session.page = session.tabs[session.active]
  /\ \A p \in TabPagesOf(session) : pages[p].listens = IF session.armed /\ p \notin unarmed THEN 1 ELSE 0
  /\ \A p \in DOMAIN pages : pages[p].pinned = "yes" => verb.stage = "capture" \/ ~chrome[pages[p].of].alive
  /\ \A b \in DOMAIN chrome : chrome[b].task = "running" => b \in {session.of, verb.fresh.of} \cup stray
============================================================================
