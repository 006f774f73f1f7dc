----------------------------- MODULE ResultSet -----------------------------
(***************************************************************************)
(* A query result's rows, kept as they arrive (ResultSet in                *)
(* internal/app/query.go).  One goroutine drains the driver's stream; any  *)
(* number of others fetch pages, waiting on a channel that is closed and   *)
(* replaced when a batch of rows has come in or reading has ended.         *)
(*                                                                         *)
(* Rows are counted, not carried.  The channel is an epoch: it is closed   *)
(* when changed has moved past the one a waiter holds.                     *)
(***************************************************************************)
EXTENDS Naturals

CONSTANTS
  Readers,       \* goroutines calling Fetch: the grid's, an export's
  Limit,         \* reader -> how many rows it asks for: a grid page, or exportPage
  Offsets,       \* reader -> where its pages start
  NotifyEvery,   \* notifyEvery, 256 in the code, as many as a grid page holds
  MaxRows        \* MaxResultRows, the cap on a result

ASSUME SizesAssumption ==
  /\ NotifyEvery \in Nat \ {0} /\ MaxRows \in Nat \ {0}
  /\ Limit \in [Readers -> Nat \ {0}]
  /\ Offsets \in [Readers -> SUBSET Nat]

\* Rows are announced NotifyEvery at a time.
Mark(n) == \E k \in 0..n : n = k * NotifyEvery

VARIABLES
  rows, batch,      \* r.rows, and the rows read since the last announcement
  done, truncated, failed,   \* r.done, r.truncated, r.err # nil
  changed,          \* r.changed: its epoch
  finished,         \* how often r.finished was closed
  reader,           \* the goroutine: "next", "close", "panicking" or "ended"
  cancelled,        \* the context: Close, or the run's
  fetch,            \* reader -> "idle", "check" or "wait"
  offset, held,     \* its page, and the channel it waits on
  answer            \* what it answered last

readVars  == <<rows, batch, done, truncated, failed, changed, finished, reader, cancelled>>
fetchVars == <<fetch, offset, held, answer>>
vars == <<readVars, fetchVars>>

Failure  == [ok |-> FALSE, n |-> 0]
Found(n) == [ok |-> TRUE, n |-> n]

Init ==
  /\ rows = 0 /\ batch = 0
  /\ done = FALSE /\ truncated = FALSE /\ failed = FALSE
  /\ changed = 0 /\ finished = 0
  /\ reader = "next" /\ cancelled = FALSE
  /\ fetch = [f \in Readers |-> "idle"]
  /\ offset = [f \in Readers |-> 0]
  /\ held = [f \in Readers |-> 0]
  /\ answer = [f \in Readers |-> Found(0)]

-----------------------------------------------------------------------------
(***************************************************************************)
(* read: Next outside the lock, its outcome recorded under it              *)
(***************************************************************************)
NextRow ==
  /\ reader = "next"
  /\ rows' = rows + 1
  /\ done' = (rows' >= MaxRows)
  /\ truncated' = done'
  /\ LET n == batch + 1 IN
       /\ batch' = IF done' \/ n >= NotifyEvery THEN 0 ELSE n
       /\ changed' = IF done' \/ n >= NotifyEvery THEN changed + 1 ELSE changed
  /\ finished' = IF done' THEN finished + 1 ELSE finished
  /\ reader' = IF done' THEN "close" ELSE "next"
  /\ UNCHANGED <<failed, cancelled, fetchVars>>

\* Mutant: waiters are not woken by the end.
NextEndsQuietly ==
  /\ reader = "next"
  /\ \E err \in BOOLEAN : failed' = err
  /\ done' = TRUE
  /\ batch' = 0
  /\ finished' = finished + 1
  /\ reader' = "close"
  /\ UNCHANGED <<rows, truncated, changed, cancelled, fetchVars>>

\* The end of the stream, or an error: the server's, or the context's.
NextEnds ==
  /\ reader = "next"
  /\ \E err \in BOOLEAN : failed' = err
  /\ done' = TRUE
  /\ batch' = 0
  /\ changed' = changed + 1
  /\ finished' = finished + 1
  /\ reader' = "close"
  /\ UNCHANGED <<rows, truncated, cancelled, fetchVars>>

\* The driver panics in Next: nothing was recorded.
NextPanics ==
  /\ reader = "next"
  /\ reader' = "panicking"
  /\ UNCHANGED <<rows, batch, done, truncated, failed, changed, finished, cancelled, fetchVars>>

\* The deferred Close of the stream, which may panic itself.
CloseStream ==
  /\ reader = "close"
  /\ \E panics \in BOOLEAN : reader' = IF panics THEN "panicking" ELSE "ended"
  /\ UNCHANGED <<rows, batch, done, truncated, failed, changed, finished, cancelled, fetchVars>>

\* Mutant: a panic is caught and not recorded.
FailSilently ==
  /\ reader = "panicking"
  /\ reader' = "ended"
  /\ UNCHANGED <<rows, batch, done, truncated, failed, changed, finished, cancelled, fetchVars>>

\* fail, which the outermost defer hands a panic to.
Fail ==
  /\ reader = "panicking"
  /\ reader' = "ended"
  /\ IF done
     THEN UNCHANGED <<done, failed, changed, finished>>
     ELSE /\ failed' = TRUE /\ done' = TRUE
          /\ changed' = changed + 1
          /\ finished' = finished + 1
  /\ UNCHANGED <<rows, batch, truncated, cancelled, fetchVars>>

\* Close, or the context of the run: Next then fails, unless a row is there already.
Cancel ==
  /\ ~cancelled
  /\ cancelled' = TRUE
  /\ UNCHANGED <<rows, batch, done, truncated, failed, changed, finished, reader, fetchVars>>

(***************************************************************************)
(* Fetch                                                                   *)
(***************************************************************************)
Ask(f) ==
  /\ fetch[f] = "idle"
  /\ fetch' = [fetch EXCEPT ![f] = "check"]
  /\ \E o \in Offsets[f] : offset' = [offset EXCEPT ![f] = o]
  /\ UNCHANGED <<readVars, held, answer>>

PageEnd(f) == offset[f] + Limit[f]

Page(f) ==
  IF rows >= PageEnd(f) THEN Limit[f]
  ELSE IF rows > offset[f] THEN rows - offset[f] ELSE 0

\* Mutant: a page is answered with what is there of it.
CheckEagerly(f) ==
  /\ fetch[f] = "check"
  /\ IF rows > offset[f] \/ done
     THEN /\ answer' = [answer EXCEPT ![f] =
                IF failed /\ rows < PageEnd(f) THEN Failure ELSE Found(Page(f))]
          /\ fetch' = [fetch EXCEPT ![f] = "idle"]
          /\ UNCHANGED held
     ELSE /\ held' = [held EXCEPT ![f] = changed]
          /\ fetch' = [fetch EXCEPT ![f] = "wait"]
          /\ UNCHANGED answer
  /\ UNCHANGED <<readVars, offset>>

\* Under the lock: answer, or take the channel to wait on.
Check(f) ==
  /\ fetch[f] = "check"
  /\ IF rows >= PageEnd(f) \/ done
     THEN /\ answer' = [answer EXCEPT ![f] =
                IF failed /\ rows < PageEnd(f) THEN Failure ELSE Found(Page(f))]
          /\ fetch' = [fetch EXCEPT ![f] = "idle"]
          /\ UNCHANGED held
     ELSE /\ held' = [held EXCEPT ![f] = changed]
          /\ fetch' = [fetch EXCEPT ![f] = "wait"]
          /\ UNCHANGED answer
  /\ UNCHANGED <<readVars, offset>>

Wake(f) ==
  /\ fetch[f] = "wait"
  /\ held[f] < changed
  /\ fetch' = [fetch EXCEPT ![f] = "check"]
  /\ UNCHANGED <<readVars, offset, held, answer>>

\* The caller's context ends while it waits.
Abandon(f) ==
  /\ fetch[f] = "wait"
  /\ fetch' = [fetch EXCEPT ![f] = "idle"]
  /\ answer' = [answer EXCEPT ![f] = Failure]
  /\ UNCHANGED <<readVars, offset, held>>

Next ==
  \/ NextRow \/ NextEnds \/ NextPanics \/ CloseStream \/ Fail
  \/ Cancel
  \/ \E f \in Readers : Ask(f) \/ Check(f) \/ Wake(f) \/ Abandon(f)

\* Goroutines run.  A stream may stall for as long as the server does, but one whose
\* context has ended answers.
Fairness ==
  /\ WF_vars(CloseStream \/ Fail)
  /\ WF_vars(cancelled /\ (NextEnds \/ NextPanics))
  /\ \A f \in Readers : WF_vars(Check(f)) /\ WF_vars(Wake(f))

Spec == Init /\ [][Next]_vars /\ Fairness

-----------------------------------------------------------------------------
\* Every variable has its type; no more rows are kept than the cap, and no answer is
\* longer than the page asked for (ResultSet, Fetch).
TypeOK ==
  /\ rows \in 0..MaxRows /\ batch \in 0..(NotifyEvery - 1)
  /\ done \in BOOLEAN /\ truncated \in BOOLEAN /\ failed \in BOOLEAN
  /\ changed \in Nat /\ finished \in Nat
  /\ reader \in {"next", "close", "panicking", "ended"} /\ cancelled \in BOOLEAN
  /\ fetch \in [Readers -> {"idle", "check", "wait"}]
  /\ offset \in [Readers -> Nat]
  /\ held \in [Readers -> Nat]
  /\ answer \in [Readers -> [ok : BOOLEAN, n : Nat]]
  /\ \A f \in Readers : answer[f].n <= Limit[f]

\* finished is "closed once, when reading ends": exactly when done is set, and never
\* again by a panic that comes later.
FinishedOnce == finished = IF done THEN 1 ELSE 0

\* No lost wake-up: what waits on a channel that is still open was not all there at the
\* last announcement, however many rows have come in since it looked; and where its page
\* ends with an announcement, as the grid's do, it is not all there yet.
NothingToWakeFor ==
  \A f \in Readers :
    (fetch[f] = "wait" /\ held[f] = changed)
      => /\ ~done
         /\ rows - batch < PageEnd(f)
         /\ Mark(PageEnd(f)) => rows < PageEnd(f)

\* "changed: closed and replaced whenever rows arrive" (query.go:387), so that whoever
\* waits on it waits for rows that have not.  An export, whose pages of 5000 rows end
\* between two announcements, waits with its rows there, for as long as the server stalls.
WaitsForMissingRows ==
  \A f \in Readers : (fetch[f] = "wait" /\ held[f] = changed) => rows < PageEnd(f)

\* How many more rows may have to come before a page that is there is answered.
Lag == [f \in Readers |-> IF Mark(Limit[f]) /\ \A o \in Offsets[f] : Mark(o)
                          THEN 0 ELSE NotifyEvery - 1]

Contract == INSTANCE FetchContract
  WITH ended <- done, asking <- [f \in Readers |-> fetch[f] # "idle"]

\* The result supplies rows the way the grid and an export rely on: a short page only at
\* the end, an error where reading failed before it, and an answer as soon as there is one
\* (or, for pages that end between two announcements, at most Lag rows later).
MeetsContract == Contract!Spec

\* Stopping a result, or running the next script, ends its reading and wakes whoever
\* waits for its rows.
CloseEndsReading == cancelled ~> (reader = "ended" /\ \A f \in Readers : fetch[f] # "wait" \/ held[f] < changed)
=============================================================================
