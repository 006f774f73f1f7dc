----------------------------- MODULE StreamBar ------------------------------
(***************************************************************************)
(* The controls above the grid of a tab that shows a log                   *)
(* (internal/ui/shell/streambar.go), over the tails they make (Tail) and   *)
(* beside the reads again a sort, a filter or Start At asks for            *)
(* (rebrowse.go).                                                          *)
(*                                                                         *)
(* Handlers run on the UI goroutine one after another; the footer is       *)
(* written from what the tail answers, after the handler's other work,     *)
(* while the tail's goroutine goes on.                                     *)
(***************************************************************************)
EXTENDS Tail

CONSTANTS
  NoTail,       \* bar.tail = nil
  MaxBrowse     \* a bound: how often the object is browsed again

ASSUME NoTailAssumption == NoTail \notin Tails
ASSUME BoundAssumption == MaxBrowse \in Nat

VARIABLES
  tail,         \* bar.tail
  at,           \* bar.at
  ui,           \* the UI goroutine: "ready", in "say", or in Close of `leaving`
  leaving,      \* the tail unfollow is closing
  next,         \* what startAt does when unfollow is done
  fetcher,      \* what the grid draws: "log", or a tail
  footer,       \* what it says: a "count", what is "doing", "following", or "stopped"
  browseSeq, browsing,    \* t.browseSeq, and the requests in flight
  counting,     \* s.count: row counts in flight
  gone,         \* the tab is closed
  overtaken     \* history: the log was put in the grid since Follow, by a read again

barVars == <<tail, at, ui, leaving, next, fetcher, footer, browseSeq, browsing, counting, gone,
             overtaken>>
streamVars == <<tailVars, barVars>>

BarInit ==
  /\ TailInit
  /\ tail = NoTail /\ leaving = NoTail
  /\ at = -1 /\ ui = "ready" /\ next = "nothing"
  /\ fetcher = "log" /\ footer = "count"
  /\ browseSeq = 0 /\ browsing = {} /\ counting = 0
  /\ gone = FALSE /\ overtaken = FALSE

Ready == ui = "ready" /\ ~gone

-----------------------------------------------------------------------------
(***************************************************************************)
(* Following                                                               *)
(***************************************************************************)
\* startFollowing, once the source has agreed to be followed.
StartFollowing(t) ==
  /\ NewTail(t)
  /\ tail' = t /\ at' = -1
  /\ fetcher' = t
  /\ ui' = "say"
  /\ overtaken' = FALSE
  /\ UNCHANGED <<footer, browseSeq, browsing, counting, gone>>

Start(t) ==
  /\ Ready /\ tail = NoTail
  /\ StartFollowing(t)
  /\ UNCHANGED <<leaving, next>>

\* unfollow: the redrawing stops, and the tail is closed on the UI goroutine.
Unfollow(then) ==
  /\ close' = [close EXCEPT ![tail] = "asked"]
  /\ leaving' = tail
  /\ next' = then
  /\ ui' = "closing"
  /\ UNCHANGED <<follower, windowVars, paused, broken, closed, givenUp>>
  /\ UNCHANGED <<tail, at, fetcher, footer, browseSeq, browsing, counting, gone, overtaken>>

Stop == Ready /\ tail # NoTail /\ Unfollow("nothing")

\* startAt while following: a log that is kept is read again, one that is not
\* is followed from there.
StartAt ==
  /\ Ready /\ tail # NoTail
  /\ Unfollow("follow") \/ (browseSeq < MaxBrowse /\ Unfollow("browse"))

\* The tail is closed: the log is put back as it was read.
PutBack ==
  /\ ui = "closing" /\ next = "nothing"
  /\ close[leaving] = "released"
  /\ tail' = NoTail /\ leaving' = NoTail
  /\ fetcher' = "log"
  /\ ui' = "say"
  /\ UNCHANGED <<tailVars, at, next, footer, browseSeq, browsing, counting, gone, overtaken>>

\* startAt goes on to follow; a source that refuses leaves the log as it was.
FollowFrom ==
  /\ ui = "closing" /\ next = "follow"
  /\ close[leaving] = "released"
  /\ leaving' = NoTail /\ next' = "nothing"
  /\ \/ \E t \in Tails : StartFollowing(t)
     \/ /\ tail' = NoTail /\ fetcher' = "log" /\ ui' = "say"
        /\ UNCHANGED <<tailVars, at, footer, browseSeq, browsing, counting, gone, overtaken>>

TogglePause ==
  /\ Ready /\ tail # NoTail
  /\ Pause(tail) \/ Resume(tail)
  /\ ui' = "say"
  /\ UNCHANGED <<tail, at, leaving, next, fetcher, footer, browseSeq, browsing, counting, gone, overtaken>>

\* Mutant: the records held are compared, not those that arrived.
RedrawByCount ==
  /\ Ready /\ tail # NoTail
  /\ n[tail] # at
  /\ at' = n[tail]
  /\ ui' = "say"
  /\ UNCHANGED <<tailVars, tail, leaving, next, fetcher, footer, browseSeq, browsing, counting, gone, overtaken>>

\* redraw on a tick, where records have arrived since the last time.
Redraw ==
  /\ Ready /\ tail # NoTail
  /\ arrived[tail] # at
  /\ at' = arrived[tail]
  /\ ui' = "say"
  /\ UNCHANGED <<tailVars, tail, leaving, next, fetcher, footer, browseSeq, browsing, counting, gone, overtaken>>

\* say: the bar's own line while following, the row count otherwise.
Say ==
  /\ ui = "say"
  /\ footer' = IF tail = NoTail THEN "count" ELSE IF broken[tail] THEN "stopped" ELSE "following"
  /\ ui' = "ready"
  /\ UNCHANGED <<tailVars, tail, at, leaving, next, fetcher, browseSeq, browsing, counting, gone, overtaken>>

\* close, for a tab that is going: its context ends and a goroutine closes the tail.
CloseTab ==
  /\ Ready
  /\ gone' = TRUE
  /\ tail' = NoTail
  /\ IF tail = NoTail THEN UNCHANGED tailVars
     ELSE /\ givenUp' = [givenUp EXCEPT ![tail] = TRUE]
          /\ close' = [close EXCEPT ![tail] = "asked"]
          /\ UNCHANGED <<follower, windowVars, paused, broken, closed>>
  /\ UNCHANGED <<at, ui, leaving, next, fetcher, footer, browseSeq, browsing, counting, overtaken>>

-----------------------------------------------------------------------------
(***************************************************************************)
(* Reading again                                                           *)
(***************************************************************************)
AskBrowse ==
  /\ browseSeq < MaxBrowse
  /\ browseSeq' = browseSeq + 1
  /\ browsing' = browsing \cup {browseSeq'}
  /\ footer' = "doing"

\* A header click, the filter row, or startAt of a log that is not followed.
Rebrowse ==
  /\ Ready
  /\ AskBrowse
  /\ UNCHANGED <<tailVars, tail, at, ui, leaving, next, fetcher, counting, gone, overtaken>>

\* startAt goes on to read again, once the tail it had is closed.
BrowseFrom ==
  /\ ui = "closing" /\ next = "browse"
  /\ close[leaving] = "released"
  /\ tail' = NoTail /\ leaving' = NoTail /\ next' = "nothing"
  /\ fetcher' = "log"
  /\ ui' = "ready"
  /\ AskBrowse
  /\ UNCHANGED <<tailVars, at, counting, gone, overtaken>>

\* The answer: only the latest request is applied, and one that fails leaves the rows.
Browsed(seq) ==
  /\ ui = "ready"
  /\ seq \in browsing
  /\ browsing' = browsing \ {seq}
  /\ \/ /\ gone \/ seq # browseSeq
        /\ UNCHANGED <<fetcher, footer, counting, overtaken>>
     \/ /\ ~gone /\ seq = browseSeq
        /\ fetcher' = "log" /\ footer' = "doing" /\ counting' = counting + 1
        /\ overtaken' = (tail # NoTail)
     \/ /\ ~gone /\ seq = browseSeq
        /\ footer' = "count"
        /\ UNCHANGED <<fetcher, counting, overtaken>>
  /\ UNCHANGED <<tailVars, tail, at, ui, leaving, next, browseSeq, gone>>

\* s.count's answer, worded by showCount whatever the tab is doing by then.
Counted ==
  /\ ui = "ready" /\ counting > 0
  /\ counting' = counting - 1
  /\ footer' = IF gone THEN footer ELSE "count"
  /\ UNCHANGED <<tailVars, tail, at, ui, leaving, next, fetcher, browseSeq, browsing, gone, overtaken>>

-----------------------------------------------------------------------------
Reading(t) == (Follow(t) \/ Close(t)) /\ UNCHANGED barVars

BarNext ==
  \/ \E t \in Tails : Start(t) \/ Reading(t)
  \/ Stop \/ StartAt \/ PutBack \/ FollowFrom \/ TogglePause \/ Redraw \/ Say \/ CloseTab
  \/ Rebrowse \/ BrowseFrom \/ Counted
  \/ \E seq \in browsing : Browsed(seq)

\* The tails' own, and the UI goroutine's queue: what a tick of watch queued is
\* run in its turn, so other handlers can delay a redraw and never keep it out.
BarFairness ==
  /\ \A t \in Tails : TailFairness(t)
  /\ SF_streamVars(Redraw) /\ WF_streamVars(Say)
  /\ WF_streamVars(PutBack \/ FollowFrom \/ BrowseFrom)

BarSpec == BarInit /\ [][BarNext]_streamVars /\ BarFairness

-----------------------------------------------------------------------------
\* Every variable has its type (streamBar beside its tails), and the window waits for
\* a tail exactly while it is closing one.
BarTypeOK ==
  /\ TailTypeOK
  /\ tail \in Tails \cup {NoTail} /\ leaving \in Tails \cup {NoTail}
  /\ at \in Nat \cup {-1}
  /\ ui \in {"ready", "say", "closing"} /\ (ui = "closing" <=> leaving # NoTail)
  /\ next \in {"nothing", "follow", "browse"}
  /\ fetcher \in Tails \cup {"log"}
  /\ footer \in {"count", "doing", "following", "stopped"}
  /\ browseSeq \in 0 .. MaxBrowse /\ browsing \subseteq 1 .. browseSeq
  /\ counting \in 0 .. MaxBrowse /\ gone \in BOOLEAN /\ overtaken \in BOOLEAN

\* Every record a followed tail keeps is drawn, dropped or held, however quiet the log is
\* afterwards and whatever was paused in between: the bar's count of what was drawn gets
\* to it, and the grid it had drawn is the tail's (startFollowing, watch, redraw).  A read
\* again that answers while the tail is followed, and takes the grid, is set apart.
RecordsAreDrawn ==
  \A t \in Tails : \A k \in 1 .. Records[t] :
    (tail = t /\ arrived[t] >= k) ~> (tail # t \/ overtaken \/ (at >= k /\ fetcher = t))

\* Said by streambar.go:203: "the grid reads the tail rather than the pages it had of the
\* log".  A sort or filter asked for before Follow, or during it, answers with the log's
\* rows and keeps the grid, while the bar counts the records as drawn.
GridReadsTheTail ==
  \A t \in Tails : \A k \in 1 .. Records[t] :
    (tail = t /\ arrived[t] >= k) ~> (tail # t \/ (at >= k /\ fetcher = t))

\* A tail the bar has left, by Stop, by Start At or with its tab, is closed and
\* its stream let go, paused or not; and the window is not held up by it for good.
TailsAreReleased ==
  \A t \in Tails :
    (follower[t] # "unborn" /\ (tail # t \/ leaving = t))
      ~> (close[t] = "released" /\ leaving # t)

\* Said by streambar_test.go: a log that went away while somebody was watching says so.
FailureIsSaid ==
  \A t \in Tails : (tail = t /\ broken[t]) ~> (tail # t \/ footer = "stopped")

=============================================================================
