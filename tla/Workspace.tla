------------------------------ MODULE Workspace ------------------------------
(***************************************************************************)
(* One saved connection and everything that opens, watches and closes it:  *)
(* the workspace that shares one open connection (internal/app/            *)
(* workspace.go), its monitor (live.go), the query tabs that pin a         *)
(* session of its pool (internal/ui/shell/query.go), and the window's one  *)
(* goroutine, which saves settings, closes tabs and disconnects            *)
(* (shell.go, lost.go).                                                    *)
(*                                                                         *)
(* Dials are numbered, and the connection a dial opens has its number; 0   *)
(* is none.  w.mu is held for a look or an update only, so each such       *)
(* section is one step.  A pool is closed the way Postgres closes one: it  *)
(* hands out nothing more, and waits for what it has handed out.           *)
(***************************************************************************)
EXTENDS Integers

CONSTANTS
  Tabs,      \* query tabs of the connection, each with its goroutine
  MaxDials,  \* bound: how often the connection is dialled
  MaxEdits   \* bound: how often its settings are saved

ASSUME WorkspaceBounds == MaxDials \in Nat /\ MaxEdits \in Nat

Lives == 1..MaxDials

VARIABLES
  setting,    \* the saved settings, by how often they were edited
  entry,      \* w.live: the open connection
  opening,    \* w.opening: the dial the next callers wait on
  dials,      \* how many dials were started
  dial,       \* each dial: where it is
  ver,        \* the settings each dial read
  status,     \* l.status.State of each connection
  monitor,    \* where its run is
  stop,       \* l.stop is closed
  pool,       \* its source
  tab,        \* each tab: where its goroutine is and which connection it is about
  cancelled,  \* tabs removed from the window before their goroutine came back
  window,     \* the UI goroutine: ready, or inside release and what it waits for
  due,        \* a connectionStatus waits in the UI's queue
  drawn       \* whether the connection's row says it is lost

watch == <<status, monitor, stop>>
work  == <<tab, cancelled>>
dialling == <<entry, opening, dials, dial, ver>>
workspaceVars  == <<setting, dialling, watch, pool, work, window, due, drawn>>

Ready == window.at = "ready"

NoTab == [at |-> "none", live |-> 0]

\* The window has the tab's session; while a statement is at the server, until the
\* server first answers it, the session's lock is taken.
InUse == {"ready", "asking"}

\* The tab's session holds a connection of the pool.
Pinned(t) == tab[t].at \in {"landing", "closing"} \cup InUse

\* What the row says when it is drawn (view.go, lost.go).
RowNow == IF entry # 0 /\ status[entry] = "disconnected" THEN "lost" ELSE "well"

-----------------------------------------------------------------------------
WorkspaceInit ==
  /\ setting = 0
  /\ entry = 0 /\ opening = 0 /\ dials = 0
  /\ dial = [n \in Lives |-> "none"] /\ ver = [n \in Lives |-> 0]
  /\ status = [n \in Lives |-> "connected"]
  /\ monitor = [n \in Lives |-> "none"] /\ stop = [n \in Lives |-> FALSE]
  /\ pool = [n \in Lives |-> "none"]
  /\ tab = [t \in Tabs |-> NoTab] /\ cancelled = {}
  /\ window = [at |-> "ready", live |-> 0] /\ due = FALSE /\ drawn = "well"

(***************************************************************************)
(* Connect, by a tab's goroutine, and the dial it may start                *)
(***************************************************************************)
StartDial(t) ==
  /\ dials < MaxDials
  /\ dials' = dials + 1 /\ opening' = dials + 1
  /\ dial' = [dial EXCEPT ![dials + 1] = "read"]
  /\ tab' = [tab EXCEPT ![t] = [at |-> "wait", live |-> dials + 1]]

\* Mutant: a dial in flight is not looked for.
ConnectAgain(t) ==
  /\ tab[t].at = "connect"
  /\ IF entry # 0
     THEN /\ tab' = [tab EXCEPT ![t] = [at |-> "session", live |-> entry]]
          /\ UNCHANGED <<opening, dials, dial>>
     ELSE StartDial(t)
  /\ UNCHANGED <<setting, entry, ver, watch, pool, cancelled, window, due, drawn>>

Connect(t) ==
  /\ tab[t].at = "connect"
  /\ \/ /\ entry # 0
        /\ tab' = [tab EXCEPT ![t] = [at |-> "session", live |-> entry]]
        /\ UNCHANGED <<opening, dials, dial>>
     \/ /\ entry = 0 /\ opening # 0
        /\ tab' = [tab EXCEPT ![t] = [at |-> "wait", live |-> opening]]
        /\ UNCHANGED <<opening, dials, dial>>
     \/ entry = 0 /\ opening = 0 /\ StartDial(t)
  /\ UNCHANGED <<setting, entry, ver, watch, pool, cancelled, window, due, drawn>>

\* Connections.open reads the settings, and only then dials.
DialReads(n) ==
  /\ dial[n] = "read"
  /\ dial' = [dial EXCEPT ![n] = "dial"]
  /\ ver' = [ver EXCEPT ![n] = setting]
  /\ UNCHANGED <<setting, entry, opening, dials, watch, pool, work, window, due, drawn>>

\* The source is open, its monitor runs, and dial stores and subscribes to it.  The
\* monitor first checks after its interval, long after this.
DialLands(n) ==
  /\ dial[n] = "dial"
  /\ dial' = [dial EXCEPT ![n] = "opened"]
  /\ opening' = 0 /\ entry' = n
  /\ monitor' = [monitor EXCEPT ![n] = "waiting"]
  /\ pool' = [pool EXCEPT ![n] = "open"]
  /\ UNCHANGED <<setting, dials, ver, status, stop, work, window, due, drawn>>

\* Mutant: a failed dial is forgotten, and so are those who wait on it.
DialFailsQuietly(n) ==
  /\ dial[n] = "dial"
  /\ dial' = [dial EXCEPT ![n] = "none"]
  /\ opening' = 0
  /\ UNCHANGED <<setting, entry, dials, ver, watch, pool, work, window, due, drawn>>

DialFails(n) ==
  /\ dial[n] = "dial"
  /\ dial' = [dial EXCEPT ![n] = "failed"]
  /\ opening' = 0
  /\ UNCHANGED <<setting, entry, dials, ver, watch, pool, work, window, due, drawn>>

DialAnswered(t) ==
  /\ tab[t].at = "wait"
  /\ \/ dial[tab[t].live] = "opened" /\ tab' = [tab EXCEPT ![t].at = "session"]
     \/ dial[tab[t].live] = "failed" /\ tab' = [tab EXCEPT ![t].at = "refused"]
     \/ t \in cancelled /\ tab' = [tab EXCEPT ![t].at = "refused"]
  /\ UNCHANGED <<setting, dialling, watch, pool, cancelled, window, due, drawn>>

(***************************************************************************)
(* A query tab: its session is opened by its goroutine and handed to the   *)
(* window through the UI's queue.                                          *)
(***************************************************************************)
OpenTab(t) ==
  /\ Ready /\ tab[t].at = "none"
  /\ tab' = [tab EXCEPT ![t].at = "connect"]
  /\ UNCHANGED <<setting, dialling, watch, pool, cancelled, window, due, drawn>>

\* NewQuerySession: a connection of the pool, unless the pool is closed, the context
\* cancelled or the server unwilling.
OpenSession(t) ==
  /\ tab[t].at = "session"
  /\ \/ /\ pool[tab[t].live] = "open" /\ t \notin cancelled
        /\ tab' = [tab EXCEPT ![t].at = "landing"]
     \/ tab' = [tab EXCEPT ![t].at = "refused"]
  /\ UNCHANGED <<setting, dialling, watch, pool, cancelled, window, due, drawn>>

\* connectQuery's answer, on the UI goroutine: a tab that is gone gives its session up.
LandSession(t) ==
  /\ Ready /\ tab[t].at \in {"landing", "refused"}
  /\ tab' = [tab EXCEPT ![t] =
               IF Pinned(t) THEN [@ EXCEPT !.at = IF t \in cancelled THEN "closing" ELSE "ready"]
               ELSE IF t \in cancelled THEN NoTab ELSE [NoTab EXCEPT !.at = "failed"]]
  /\ cancelled' = cancelled \ {t}
  /\ UNCHANGED <<setting, dialling, watch, pool, window, due, drawn>>

\* pgSession.Query: nothing bounds how long the server takes.
Query(t) ==
  /\ Ready /\ tab[t].at = "ready"
  /\ tab' = [tab EXCEPT ![t].at = "asking"]
  /\ UNCHANGED <<setting, dialling, watch, pool, cancelled, window, due, drawn>>

QueryAnswered(t) ==
  /\ tab[t].at = "asking"
  /\ tab' = [tab EXCEPT ![t].at = "ready"]
  /\ UNCHANGED <<setting, dialling, watch, pool, cancelled, window, due, drawn>>

\* A session closed on a goroutine of its own, its tab's context cancelled before.
SessionCloses(t) ==
  /\ tab[t].at = "closing"
  /\ tab' = [tab EXCEPT ![t] = NoTab]
  /\ UNCHANGED <<setting, dialling, watch, pool, cancelled, window, due, drawn>>

Outstanding == {"connect", "wait", "session", "landing", "refused"}

\* removeTab
CloseTab(t) ==
  /\ Ready /\ t \notin cancelled
  /\ \/ /\ tab[t].at \in Outstanding
        /\ cancelled' = cancelled \cup {t} /\ UNCHANGED tab
     \/ /\ tab[t].at \in InUse \cup {"failed"}
        /\ tab' = [tab EXCEPT ![t] = IF Pinned(t) THEN [@ EXCEPT !.at = "closing"] ELSE NoTab]
        /\ UNCHANGED cancelled
  /\ UNCHANGED <<setting, dialling, watch, pool, window, due, drawn>>

(***************************************************************************)
(* The monitor of a connection (Live.run)                                  *)
(***************************************************************************)
Tick(n) ==
  /\ monitor[n] = "waiting"
  /\ monitor' = [monitor EXCEPT ![n] = "pinging"]
  /\ UNCHANGED <<setting, dialling, status, stop, pool, work, window, due, drawn>>

\* The ping comes back; a connection closed while it was in flight reports nothing.
Pinged(n) ==
  /\ monitor[n] = "pinging"
  /\ \E heard \in {"connected", "disconnected"} :
       monitor' = [monitor EXCEPT ![n] = IF stop[n] THEN "done" ELSE heard]
  /\ UNCHANGED <<setting, dialling, status, stop, pool, work, window, due, drawn>>

\* transition: every failed attempt is a change, a healthy check of a healthy
\* connection is none.
Transition(n) ==
  /\ monitor[n] \in {"connected", "disconnected"}
  /\ status' = [status EXCEPT ![n] = monitor[n]]
  /\ monitor' = [monitor EXCEPT ![n] =
       IF monitor[n] = "connected" /\ status[n] = "connected" THEN "waiting" ELSE "telling"]
  /\ UNCHANGED <<setting, dialling, stop, pool, work, window, due, drawn>>

\* forward: the subscriber only queues connectionStatus.
Forward(n) ==
  /\ monitor[n] = "telling"
  /\ monitor' = [monitor EXCEPT ![n] = "waiting"]
  /\ due' = TRUE
  /\ UNCHANGED <<setting, dialling, status, stop, pool, work, window, drawn>>

MonitorEnds(n) ==
  /\ monitor[n] = "waiting" /\ stop[n]
  /\ monitor' = [monitor EXCEPT ![n] = "done"]
  /\ UNCHANGED <<setting, dialling, status, stop, pool, work, window, due, drawn>>

\* connectionStatus, on the UI goroutine.
Redraw ==
  /\ Ready /\ due
  /\ due' = FALSE /\ drawn' = RowNow
  /\ UNCHANGED <<setting, dialling, watch, pool, work, window>>

(***************************************************************************)
(* release, on the UI goroutine: sessions, tabs, and then Workspace.       *)
(* Disconnect with Live.Close, a step for each thing it waits on.          *)
(***************************************************************************)
Release == window' = [at |-> "sessions", live |-> entry]

\* The command is offered for a connection that is open.
Disconnect ==
  /\ Ready /\ entry # 0
  /\ Release
  /\ UNCHANGED <<setting, dialling, watch, pool, work, due, drawn>>

\* Connections.Update, and connectionSaved, which disconnects what is open.
Save ==
  /\ Ready /\ setting < MaxEdits
  /\ setting' = setting + 1
  /\ IF entry # 0 THEN Release ELSE UNCHANGED window
  /\ UNCHANGED <<dialling, watch, pool, work, due, drawn>>

\* closeSessions closes a session once its lock is free; the tab is still there, with
\* its context.
CloseSession(t) ==
  /\ window.at = "sessions" /\ tab[t].at = "ready"
  /\ tab' = [tab EXCEPT ![t] = [NoTab EXCEPT !.at = "failed"]]
  /\ UNCHANGED <<setting, dialling, watch, pool, cancelled, window, due, drawn>>

\* Mutant: the pool is closed before the sessions that draw from it.
SessionsLeft == window.at = "sessions"

SessionsClosed == window.at = "sessions" /\ \A t \in Tabs : tab[t].at \notin InUse

\* closeTabsOf, and Disconnect takes the connection out of the workspace.
ReleaseTabs ==
  /\ SessionsClosed
  /\ cancelled' = cancelled \cup {t \in Tabs : tab[t].at \in Outstanding}
  /\ tab' = [t \in Tabs |-> IF tab[t].at = "failed" THEN NoTab ELSE tab[t]]
  /\ entry' = 0
  /\ window' = [window EXCEPT !.at = "stop"]
  /\ UNCHANGED <<setting, opening, dials, dial, ver, watch, pool, due, drawn>>

CloseStop ==
  /\ window.at = "stop"
  /\ stop' = [stop EXCEPT ![window.live] = TRUE]
  /\ window' = [window EXCEPT !.at = "done"]
  /\ UNCHANGED <<setting, dialling, status, monitor, pool, work, due, drawn>>

\* <-l.done, and the pool hands out nothing more.
CloseMonitor ==
  /\ window.at = "done" /\ monitor[window.live] = "done"
  /\ pool' = [pool EXCEPT ![window.live] = "closing"]
  /\ window' = [window EXCEPT !.at = "pool"]
  /\ UNCHANGED <<setting, dialling, watch, work, due, drawn>>

HeldBy(n) == {t \in Tabs : Pinned(t) /\ tab[t].live = n}

\* Mutant: what was queued is taken to be about the connection that is closed.
ClosePoolForgetting ==
  /\ window.at = "pool" /\ HeldBy(window.live) = {}
  /\ pool' = [pool EXCEPT ![window.live] = "closed"]
  /\ status' = [status EXCEPT ![window.live] = "closed"]
  /\ window' = [window EXCEPT !.at = "ready"]
  /\ due' = FALSE /\ drawn' = "well"
  /\ UNCHANGED <<setting, dialling, monitor, stop, work>>

\* The pool has everything back; subscribers hear StateClosed; the row is drawn again.
ClosePool ==
  /\ window.at = "pool" /\ HeldBy(window.live) = {}
  /\ pool' = [pool EXCEPT ![window.live] = "closed"]
  /\ status' = [status EXCEPT ![window.live] = "closed"]
  /\ window' = [window EXCEPT !.at = "ready"]
  /\ due' = TRUE /\ drawn' = RowNow
  /\ UNCHANGED <<setting, dialling, monitor, stop, work>>

TabStep(t) ==
  \/ Connect(t) \/ DialAnswered(t) \/ OpenSession(t) \/ SessionCloses(t)

DialStep(n) == DialReads(n) \/ DialLands(n) \/ DialFails(n)

MonitorStep(n) == Pinged(n) \/ Transition(n) \/ Forward(n) \/ MonitorEnds(n)

CloseStep ==
  \/ \E t \in Tabs : CloseSession(t)
  \/ ReleaseTabs \/ CloseStop \/ CloseMonitor \/ ClosePool

WorkspaceNext ==
  \/ \E t \in Tabs : OpenTab(t) \/ CloseTab(t) \/ LandSession(t) \/ TabStep(t)
  \/ \E t \in Tabs : Query(t) \/ QueryAnswered(t)
  \/ \E n \in Lives : DialStep(n) \/ Tick(n) \/ MonitorStep(n)
  \/ Redraw \/ Disconnect \/ Save \/ CloseStep

\* Goroutines run on; a dial and a ping have a timeout; the UI works through its queue.
\* Nobody has to open a tab, save or disconnect, the timer owes no tick, and a server no
\* answer to a statement.
WorkspaceFairness ==
  /\ \A t \in Tabs : WF_workspaceVars(TabStep(t)) /\ WF_workspaceVars(LandSession(t))
  /\ \A n \in Lives : WF_workspaceVars(DialStep(n)) /\ WF_workspaceVars(MonitorStep(n))
  /\ WF_workspaceVars(Redraw) /\ WF_workspaceVars(CloseStep)

WorkspaceSpec == WorkspaceInit /\ [][WorkspaceNext]_workspaceVars /\ WorkspaceFairness

-----------------------------------------------------------------------------
\* Every variable has its type; only a tab whose goroutine is out is cancelled, and the
\* row and the queue are the window's (Workspace, Live, tab).
WorkspaceTypeOK ==
  /\ setting \in 0..MaxEdits
  /\ entry \in 0..MaxDials /\ opening \in 0..MaxDials /\ dials \in 0..MaxDials
  /\ dial \in [Lives -> {"none", "read", "dial", "opened", "failed"}]
  /\ ver \in [Lives -> 0..MaxEdits]
  /\ status \in [Lives -> {"connected", "disconnected", "closed"}]
  /\ monitor \in [Lives -> {"none", "waiting", "pinging", "connected", "disconnected",
                            "telling", "done"}]
  /\ stop \in [Lives -> BOOLEAN]
  /\ pool \in [Lives -> {"none", "open", "closing", "closed"}]
  /\ tab \in [Tabs -> [at : Outstanding \cup InUse \cup {"none", "failed", "closing"},
                       live : 0..MaxDials]]
  /\ cancelled \subseteq {t \in Tabs : tab[t].at \in Outstanding}
  /\ window \in [at : {"ready", "sessions", "stop", "done", "pool"}, live : 0..MaxDials]
  /\ due \in BOOLEAN /\ drawn \in {"well", "lost"}

\* "At most one Live per saved connection": a pool that is open is the workspace's, or
\* is being closed; none is left that nobody could close.
NoneLeaked ==
  \A n \in Lives : pool[n] \in {"open", "closing"} => n = entry \/ (~Ready /\ n = window.live)

\* "Report nothing": once subscribers have heard that a connection is closed, its
\* monitor never says otherwise.
QuietOnceClosed ==
  [][\A n \in Lives : status[n] = "closed" => status'[n] = "closed"]_workspaceVars

\* Whoever connects gets an answer, whoever else gives up waiting or disconnects.
ConnectReturns == \A t \in Tabs : tab[t].at = "wait" ~> tab[t].at # "wait"

\* A session its goroutine has opened, waiting in the UI's queue behind a Close that
\* waits for it.
HeldInQueue == window.at = "pool" /\ \E t \in HeldBy(window.live) : tab[t].at = "landing"

\* A statement the server has not answered has the lock closeSessions waits for; the
\* context that would end it is cancelled after.
HeldByStatement == window.at = "sessions" /\ \E t \in Tabs : tab[t].at = "asking"

\* Disconnecting, on the UI goroutine, comes to its end, unless a statement or a session
\* in the queue holds it (see NeverOnTheNetwork and DisconnectEnds).
DisconnectEndsIfLanded == ~Ready ~> (Ready \/ HeldInQueue \/ HeldByStatement)

\* "Explicit state, never a silent failure" (FR-1.15): a connection that is lost, and
\* stays so, is said to be lost where it is used, as long as the window goes on.
LostIsDrawn ==
  \A n \in Lives :
    (entry = n /\ status[n] = "disconnected")
      ~> \/ drawn = "lost" \/ entry # n \/ status[n] # "disconnected"
         \/ HeldInQueue \/ HeldByStatement

\* Said by the comment of closeSessions in shell.go: sessions are closed first "so that
\* the pools they draw from can close after".
DisconnectEnds == ~Ready ~> (Ready \/ HeldByStatement)

\* Said by the comment in removeTab in shell.go of closing a session: it "may wait on the
\* network; never on the UI goroutine".
NeverOnTheNetwork == ~HeldByStatement

\* Said by the comment of connectionSaved in shell.go: an edited connection is not left
\* open with the settings it had.
SettingsInForce == Ready /\ entry # 0 => ver[entry] = setting
=============================================================================
