---------------------------- MODULE QuerySession ----------------------------
(***************************************************************************)
(* A query tab: the window that runs scripts in it (internal/ui/shell/     *)
(* query.go, resultedit.go, transaction.go), the session they run on       *)
(* (internal/app/query.go) and the server connection that session pins     *)
(* (internal/source/drivers/postgres/query.go, transaction.go).            *)
(*                                                                         *)
(* A connection holds one open result at a time, and one lock covers a     *)
(* statement from its sending to the server's first answer.  Each script   *)
(* runs on a goroutine, each result is read on one of its own, and         *)
(* whatever reaches the window waits until the window is free.             *)
(*                                                                         *)
(* A result is named by its run and its place in the script.  The rows it  *)
(* has are left out but for one thing: whether all of them came.           *)
(***************************************************************************)
EXTENDS Naturals, FiniteSets, Sequences

CONSTANTS
  Lengths,        \* bound: the scripts run, in turn, and how many statements each has
  MaxAsks,        \* bound: stops, commits, transactions begun and ended, together
  Again,          \* the rows read again once a result's changes are written
  Tx, None        \* runTx as a holder of the lock; nothing

ASSUME BoundsAssumption ==
  Lengths \in Seq(Nat \ {0}) /\ MaxAsks \in Nat

Runs == DOMAIN Lengths
OfScripts == {x \in Runs \X UNION {1..Lengths[r] : r \in Runs} : x[2] <= Lengths[x[1]]}
Results == OfScripts \cup {Again}
Jobs == Runs \cup {Again}      \* what runs statements

ASSUME NamesAssumption ==
  /\ Again \notin Runs /\ Again \notin OfScripts
  /\ Tx # None /\ {Tx, None} \cap (Results \cup Jobs) = {}

VARIABLES
  tab,        \* t.ctx: "open", or "closed" once cancelled
  link,       \* connectQuery: "dialing", "ready", "failed", "given"
  ui,         \* the window: "idle", or "syncing" while sync asks for the transaction
  executing,  \* q.executing
  cur,        \* the latest run, whose context q.run cancels
  shown,      \* q.sets
  committing, \* the result whose changes are being written
  job,        \* a script's goroutine, and the reread's
  queue,      \* results on their way to the window, by run
  cancelled,  \* runs whose context is cancelled
  session,    \* QuerySession: its results, and whether it is closed
  closer,     \* the goroutine closing the session
  conn,       \* the pinned session: its lock, open result, transaction, closed
  tx,         \* runTx's goroutine
  asks,
  stream,     \* a result's rowStream, or its rows in memory
  rs,         \* the ResultSet reading it
  closing,    \* ResultSets whose Close was called
  cut,        \* history: results the reread or the end of a transaction cut off
  of          \* the result that is read again

shell  == <<tab, link, executing, cur, shown, committing, of>>
window == <<shell, ui>>
app    == <<session, closer, closing>>
server == <<conn, stream, cut>>
work   == <<job, queue, cancelled, rs>>
vars   == <<window, app, server, work, tx, asks>>

NoJob == [at |-> "none", i |-> 0, err |-> FALSE, rows |-> FALSE]
Name(o) == IF o = Again THEN Again ELSE <<o, job[o].i>>
RunOf(x) == IF x = Again THEN of[1] ELSE x[1]

Init ==
  /\ tab = "open" /\ link = "dialing" /\ ui = "idle"
  /\ executing = FALSE /\ cur = 0 /\ shown = {} /\ committing = None /\ of = None
  /\ job = [o \in Jobs |-> NoJob] /\ queue = [r \in Runs |-> <<>>]
  /\ cancelled = {}
  /\ session = [results |-> {}, closed |-> FALSE] /\ closer = "none"
  /\ conn = [lock |-> None, open |-> None, tx |-> FALSE, closed |-> FALSE]
  /\ tx = "idle" /\ asks = 0
  /\ stream = [x \in Results |-> "none"] /\ rs = [x \in Results |-> "none"]
  /\ closing = {} /\ cut = {}

-----------------------------------------------------------------------------
(***************************************************************************)
(* Contexts and the connection's open result                               *)
(***************************************************************************)
\* Mutant: scripts run under the tab's context.
StoppedByTab(o) == tab = "closed"

\* The context a statement runs under is cancelled: the run's, or the tab's.
Stopped(o) == tab = "closed" \/ o \in cancelled

\* The context a result is read under.
StoppedReading(x) == tab = "closed" \/ x \in closing \/ (x # Again /\ RunOf(x) \in cancelled)

\* The open result, unless it has been closed since.
Streaming == {x \in Results : x = conn.open /\ stream[x] = "open"}

WithoutOpen == [x \in Results |-> IF x \in Streaming THEN "closed" ELSE stream[x]]

\* ResultSet.Close, of those still reading.
Close(xs) == closing' = closing \cup {x \in xs : rs[x] = "reading"}

\* A result of a session that is closed is closed at once, and so is one nobody will see.
Track(x, seen) ==
  /\ session' = IF session.closed THEN session ELSE [session EXCEPT !.results = @ \cup {x}]
  /\ closing' = IF session.closed \/ ~seen THEN closing \cup {x} ELSE closing

(***************************************************************************)
(* A statement on the pinned connection: pgSession.Query                   *)
(***************************************************************************)
\* Waits for the lock; the result that was open is superseded.
Take(o) ==
  /\ job[o].at = "waiting" /\ conn.lock = None
  /\ IF conn.closed
     THEN /\ job' = [job EXCEPT ![o].at = "handing", ![o].err = TRUE, ![o].rows = FALSE]
          /\ UNCHANGED server
     ELSE /\ job' = [job EXCEPT ![o].at = "executing"]
          /\ conn' = [conn EXCEPT !.lock = o, !.open = None]
          /\ stream' = WithoutOpen
          /\ cut' = IF o = Again THEN cut \cup Streaming ELSE cut
  /\ UNCHANGED <<window, queue, cancelled, tx, rs, app, asks>>

\* Mutant: a result is handed on as it streams though a statement comes after it.
AnswerUnbuffered(o) ==
  /\ job[o].at = "executing"
  /\ \E rows, err \in BOOLEAN :
       /\ ~(rows /\ err)
       /\ job' = [job EXCEPT ![o].err = err, ![o].rows = rows, ![o].at = "handing"]
       /\ conn' = [conn EXCEPT !.lock = None, !.open = IF rows THEN Name(o) ELSE @]
       /\ stream' = IF rows THEN [stream EXCEPT ![Name(o)] = "open"] ELSE stream
  /\ UNCHANGED <<window, queue, cancelled, tx, rs, cut, app, asks>>

\* The server answers: rows, none, or an error, as when the context was cancelled.
Answer(o) ==
  /\ job[o].at = "executing"
  /\ \E rows, err \in BOOLEAN :
       /\ ~(rows /\ err)
       /\ job' = [job EXCEPT ![o].err = err, ![o].rows = rows,
            ![o].at = IF rows /\ o # Again /\ job[o].i < Lengths[o] THEN "buffering" ELSE "handing"]
       /\ conn' = [conn EXCEPT !.lock = None, !.open = IF rows THEN Name(o) ELSE @]
       /\ stream' = IF rows THEN [stream EXCEPT ![Name(o)] = "open"] ELSE stream
  /\ UNCHANGED <<window, queue, cancelled, tx, rs, cut, app, asks>>

-----------------------------------------------------------------------------
(***************************************************************************)
(* A script: QuerySession.Run and the driver's QueryMulti                  *)
(***************************************************************************)
\* The results of the run before are closed; then the guard may refuse the script.
Start(r) ==
  /\ job[r].at = "starting"
  /\ Close(session.results)
  /\ session' = [session EXCEPT !.results = {}]
  /\ \E at \in {"next", "refused"} : job' = [job EXCEPT ![r].at = at]
  /\ UNCHANGED <<window, closer, queue, cancelled, tx, rs, server, asks>>

\* No further statement runs once the context is cancelled.
NextStatement(r) ==
  /\ job[r].at = "next"
  /\ job' = IF Stopped(r)
            THEN [job EXCEPT ![r].i = @ + 1, ![r].at = "handing", ![r].err = TRUE, ![r].rows = FALSE]
            ELSE [job EXCEPT ![r].i = @ + 1, ![r].at = "waiting"]
  /\ UNCHANGED <<window, queue, cancelled, tx, rs, app, server, asks>>

\* A result with a statement after it is read into memory, as far as it comes.
Buffer(r) ==
  LET x == Name(r) IN
  /\ job[r].at = "buffering"
  /\ \/ /\ job' = [job EXCEPT ![r].at = "handing"]
        /\ stream' = [stream EXCEPT ![x] = IF @ = "open" THEN "memory" ELSE "partial"]
     \/ /\ Stopped(r)
        /\ job' = [job EXCEPT ![r].at = "handing", ![r].err = TRUE, ![r].rows = FALSE]
        /\ stream' = [stream EXCEPT ![x] = "closed"]
  /\ UNCHANGED <<window, conn, cut, queue, cancelled, tx, rs, app, asks>>

\* The result goes to the window, or nowhere once the run is stopped; its rows are read
\* either way.
Hand(r) ==
  LET x == Name(r) IN
  /\ job[r].at = "handing"
  /\ job' = [job EXCEPT ![r] = IF @.err \/ @.i = Lengths[r] THEN [NoJob EXCEPT !.at = "done"]
                            ELSE [@ EXCEPT !.at = "next"]]
  /\ IF job[r].rows
     THEN \E seen \in {TRUE, ~Stopped(r)} :
            /\ rs' = [rs EXCEPT ![x] = "reading"] /\ Track(x, seen)
            /\ queue' = IF seen THEN [queue EXCEPT ![r] = Append(@, x)] ELSE queue
     ELSE UNCHANGED <<rs, queue, session, closing>>
  /\ UNCHANGED <<window, closer, cancelled, tx, server, asks>>

\* ResultSet.read, to its end: what was closed under it ends as though it were whole.
ReadToEnd(x) ==
  /\ rs[x] = "reading"
  /\ \/ rs' = [rs EXCEPT ![x] = IF stream[x] \in {"closed", "partial"} THEN "short" ELSE "ended"]
     \/ StoppedReading(x) /\ rs' = [rs EXCEPT ![x] = "ended"]
  /\ stream' = [stream EXCEPT ![x] = "closed"] /\ closing' = closing \ {x}
  /\ UNCHANGED <<window, session, closer, conn, cut, job, queue, cancelled, tx, asks>>

-----------------------------------------------------------------------------
(***************************************************************************)
(* The window                                                              *)
(***************************************************************************)
Idle == ui = "idle" /\ tab = "open" /\ link = "given"

\* sync asks the session for its transaction, on the window's goroutine and under the lock.
Sync == ui' = IF tab = "open" /\ conn.lock # None THEN "syncing" ELSE "idle"

Synced ==
  /\ ui = "syncing" /\ conn.lock = None
  /\ ui' = "idle"
  /\ UNCHANGED <<shell, tx, app, server, work, asks>>

Ask == asks < MaxAsks /\ asks' = asks + 1

\* Something is selected, or the palette opened.
Look ==
  /\ Idle /\ Sync
  /\ UNCHANGED <<shell, tx, app, server, work, asks>>

\* connectQuery's goroutine: the session, or an error.
Dial ==
  /\ link = "dialing"
  /\ \E got \in {"ready", "failed"} : link' = got
  /\ UNCHANGED <<tab, ui, executing, cur, shown, committing, of, tx, app, server, work, asks>>

\* Mutant: a session that comes after the tab is closed is dropped.
ConnectedAnyway ==
  /\ link = "ready" /\ ui = "idle"
  /\ link' = "given" /\ Sync
  /\ UNCHANGED <<tab, executing, cur, shown, committing, of, tx, app, server, work, asks>>

Connected ==
  /\ link = "ready" /\ ui = "idle"
  /\ link' = "given"
  /\ closer' = IF tab = "open" THEN closer ELSE "results"
  /\ Sync
  /\ UNCHANGED <<tab, executing, cur, shown, committing, of, session, closing, tx, server, work, asks>>

\* runQuery, runIn, execute: none runs beside another, or while changes are written.
Execute(r) ==
  /\ Idle /\ ~executing /\ committing = None /\ r = cur + 1
  /\ cancelled' = cancelled \cup ({cur} \ {0})
  /\ executing' = TRUE /\ cur' = r /\ shown' = {} /\ Sync
  /\ job' = [job EXCEPT ![r].at = "starting"]
  /\ UNCHANGED <<tab, link, committing, of, queue, tx, rs, app, server, asks>>

Shows(r) ==
  /\ ui = "idle" /\ queue[r] # <<>>
  /\ queue' = [queue EXCEPT ![r] = Tail(@)]
  /\ shown' = IF tab = "open" THEN shown \cup {Head(queue[r])} ELSE shown
  /\ Sync
  /\ UNCHANGED <<tab, link, executing, cur, committing, of, job, cancelled, tx, rs, app, server, asks>>

\* Mutant: the next run may begin as soon as the script has ended.
OverEarly(r) == job[r].at = "done"

\* The script's last word reaches the window after its results.
Over(r) == job[r].at = "done" /\ queue[r] = <<>>

RunOver(r) ==
  /\ ui = "idle" /\ (Over(r) \/ job[r].at = "refused")
  /\ executing' = FALSE
  /\ cancelled' = IF job[r].at = "refused" THEN cancelled \cup {r} ELSE cancelled
  /\ job' = [job EXCEPT ![r].at = "over"]
  /\ Sync
  /\ UNCHANGED <<tab, link, cur, shown, committing, of, queue, tx, rs, app, server, asks>>

\* stopQuery
Stop ==
  /\ Ask /\ Idle /\ cur # 0
  /\ cancelled' = cancelled \cup {cur}
  /\ Close(shown)
  /\ UNCHANGED <<window, session, closer, job, queue, tx, rs, server>>

\* removeTab, or the application quitting.
CloseTab ==
  /\ tab = "open" /\ ui = "idle"
  /\ tab' = "closed"
  /\ closer' = IF link = "given" THEN "results" ELSE closer
  /\ UNCHANGED <<link, ui, executing, cur, shown, committing, of, session, closing, tx, server, work, asks>>

\* QuerySession.Close: its results first, then the pinned session, which rolls back.
CloseResults ==
  /\ closer = "results"
  /\ closer' = "session" /\ Close(session.results)
  /\ session' = [results |-> {}, closed |-> TRUE]
  /\ UNCHANGED <<window, tx, server, work, asks>>

CloseSession ==
  /\ closer = "session" /\ conn.lock = None
  /\ closer' = "closed"
  /\ conn' = [conn EXCEPT !.closed = TRUE, !.tx = FALSE]
  /\ stream' = WithoutOpen
  /\ UNCHANGED <<window, session, closing, cut, tx, work, asks>>

-----------------------------------------------------------------------------
(***************************************************************************)
(* Changes to a result, written on another connection; then it is read     *)
(* again on this one (commit.go, resultedit.go)                            *)
(***************************************************************************)
Commit(x) ==
  /\ Ask /\ Idle /\ committing = None /\ of = None /\ x \in shown
  /\ committing' = x
  /\ UNCHANGED <<tab, link, ui, executing, cur, shown, of, tx, app, server, work>>

\* applied: written, or not.  The result read before is closed and the statement run again.
Applied ==
  /\ ui = "idle" /\ tab = "open" /\ committing # None
  /\ committing' = None
  /\ \/ /\ of' = committing
        /\ Close({committing})
        /\ job' = [job EXCEPT ![Again].at = "waiting"]
     \/ UNCHANGED <<of, closing, job>>
  /\ UNCHANGED <<tab, link, ui, executing, cur, shown, session, closer, queue, cancelled, tx, rs, server, asks>>

Reread ==
  /\ job[Again].at = "handing"
  /\ job' = [job EXCEPT ![Again].at = "done"]
  /\ IF job[Again].rows THEN rs' = [rs EXCEPT ![Again] = "reading"] /\ Track(Again, TRUE)
     ELSE UNCHANGED <<rs, session, closing>>
  /\ UNCHANGED <<window, closer, queue, cancelled, tx, server, asks>>

\* Nobody to show them to: the tab closed, or the script ran again.
ShowAgain ==
  /\ ui = "idle" /\ job[Again].at = "done"
  /\ job' = [job EXCEPT ![Again].at = "over"]
  /\ IF ~job[Again].rows THEN UNCHANGED <<shown, closing>>
     ELSE IF tab = "closed" \/ of \notin shown
     THEN Close({Again}) /\ UNCHANGED shown
     ELSE shown' = (shown \ {of}) \cup {Again} /\ UNCHANGED closing
  /\ UNCHANGED <<tab, link, ui, executing, cur, committing, of, session, closer, queue, cancelled, tx, rs, server, asks>>

(***************************************************************************)
(* Transactions (runTx)                                                    *)
(***************************************************************************)
AskTx ==
  /\ Idle /\ tx = "idle" /\ Ask /\ conn.lock = None
  /\ tx' = IF conn.tx THEN "ending" ELSE "beginning"
  /\ UNCHANGED <<window, app, server, work>>

\* One that begins is refused on a connection that is busy with a result.
TakeTx ==
  /\ tx \in {"beginning", "ending"} /\ conn.lock = None
  /\ IF tx = "ending" /\ conn.tx
     THEN /\ conn' = [conn EXCEPT !.lock = Tx, !.tx = FALSE, !.open = None]
          /\ stream' = WithoutOpen /\ cut' = cut \cup Streaming
          /\ tx' = "ended"
     ELSE IF tx = "beginning" /\ ~conn.tx /\ ~conn.closed
     THEN /\ conn' = [conn EXCEPT !.lock = Tx]
          /\ tx' = "begun"
          /\ UNCHANGED <<stream, cut>>
     ELSE tx' = "idle" /\ UNCHANGED server
  /\ UNCHANGED <<window, app, work, asks>>

\* Two minutes at most.
TxDone ==
  /\ tx \in {"begun", "ended"}
  /\ \E ok \in IF Streaming = {} THEN BOOLEAN ELSE {FALSE} :
       conn' = [conn EXCEPT !.lock = None, !.tx = tx = "begun" /\ ok]
  /\ tx' = "idle"
  /\ UNCHANGED <<window, stream, cut, app, work, asks>>

-----------------------------------------------------------------------------
Script(r) == Start(r) \/ NextStatement(r) \/ Buffer(r) \/ Hand(r)
Landing(r) == Shows(r) \/ RunOver(r)
Closing == CloseResults \/ CloseSession
Transact == TakeTx \/ TxDone
Asked == Look \/ Stop \/ CloseTab \/ AskTx \/ (\E r \in Runs : Execute(r)) \/ (\E x \in OfScripts : Commit(x))

Next ==
  \/ Asked \/ Synced \/ Dial \/ Connected \/ Closing \/ Transact
  \/ (\E o \in Jobs : Take(o) \/ Answer(o))
  \/ (\E r \in Runs : Script(r) \/ Landing(r))
  \/ (\E x \in Results : ReadToEnd(x))
  \/ Applied \/ Reread \/ ShowAgain

\* What goes on by itself: goroutines, the window's work, the two minutes of a
\* transaction.  A server answers in its own time, or never, unless the context of what
\* it was asked is cancelled.
Goes ==
  \/ Synced \/ Dial \/ Connected \/ Closing \/ Transact \/ Reread \/ ShowAgain
  \/ (\E o \in Jobs : Take(o) \/ (Stopped(o) /\ Answer(o)))
  \/ (\E r \in Runs : Start(r) \/ NextStatement(r) \/ Hand(r) \/ (Stopped(r) /\ Buffer(r)) \/ Landing(r))
  \/ (\E x \in Results : StoppedReading(x) /\ ReadToEnd(x))

\* None of these steps recurs for ever, so that fairness to all is fairness to each.
Fairness == WF_vars(Goes)

Spec == Init /\ [][Next]_vars
FairSpec == Spec /\ Fairness

-----------------------------------------------------------------------------
\* What is on show is of the latest run: no result of one before it, on its way to the
\* window as it was ended, and no rows read again for one (execute, reread).
ShownIsCurrent == \A x \in shown : RunOf(x) = cur

\* A result that stopped short without saying so, which counts as whole, was cut off by
\* the end of a transaction or by rows being read again, never by the script it is of or
\* by the next.
CutByOthers == tab = "open" => \A x \in shown \ {Again} : rs[x] = "short" => x \in cut

\* Does not hold (README, section 6): a short page is the end of the data.
ShortMeansEnd == \A x \in shown : rs[x] # "short"

Quiet(r) == /\ job[r].at \in {"none", "refused", "done", "over"}
            /\ \A x \in OfScripts : x[1] = r => rs[x] # "reading"

\* A run that is stopped ends, its reading too, wherever it was; but for one that waits
\* for the rows of a result to be read again, which nothing stops.
StopEnds == \A r \in Runs : r \in cancelled ~> Quiet(r) \/ conn.lock = Again

Released == /\ conn.closed /\ ~conn.tx
            /\ \A x \in Results : stream[x] # "open" /\ rs[x] # "reading"

\* A tab that is closed lets go of its connection, with no transaction open and no result
\* left to read, though it was closed while connecting, running or reading again.
ClosedIsReleased == tab = "closed" ~> link = "failed" \/ Released

\* Does not hold (README, section 6): the window comes back from asking for the state of
\* the transaction.
WindowComesBack == ui = "syncing" ~> ui = "idle"
=============================================================================
