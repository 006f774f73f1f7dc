--------------------------- MODULE FetchContract ---------------------------
(***************************************************************************)
(* What the grid asks of whatever supplies its rows (grid.Fetcher): a      *)
(* fetch answers the rows it was asked for, and fewer only where the data  *)
(* ends, so that "a short page is the end of the data".  Until then it     *)
(* waits, and once it can answer it does, at most Lag rows late.           *)
(*                                                                         *)
(* This is the specification the grid relies on; ResultSet implements it.  *)
(***************************************************************************)
EXTENDS Naturals

CONSTANTS
  Readers,    \* goroutines that fetch
  Offsets,    \* reader -> where its pages start
  Limit,      \* reader -> how many rows it asks for
  Lag         \* reader -> how many more may have to come before it is told of them

VARIABLES
  rows,       \* how many rows there are so far
  ended,      \* no more will come
  failed,     \* they ended in an error
  asking,     \* reader -> whether its fetch is waiting
  offset,     \* reader -> where its page starts
  answer      \* reader -> the rows its last fetch answered, or an error

vars == <<rows, ended, failed, asking, offset, answer>>

Failure == [ok |-> FALSE, n |-> 0]
Found(n) == [ok |-> TRUE, n |-> n]

Init ==
  /\ rows = 0 /\ ended = FALSE /\ failed = FALSE
  /\ asking = [f \in Readers |-> FALSE]
  /\ offset = [f \in Readers |-> 0]
  /\ answer = [f \in Readers |-> Found(0)]

Arrive ==
  /\ ~ended
  /\ rows' = rows + 1
  /\ ended' \in BOOLEAN
  /\ UNCHANGED <<failed, asking, offset, answer>>

EndRows ==
  /\ ~ended
  /\ ended' = TRUE
  /\ failed' \in BOOLEAN
  /\ UNCHANGED <<rows, asking, offset, answer>>

Ask(f) ==
  /\ ~asking[f]
  /\ asking' = [asking EXCEPT ![f] = TRUE]
  /\ \E o \in Offsets[f] : offset' = [offset EXCEPT ![f] = o]
  /\ UNCHANGED <<rows, ended, failed, answer>>

Answerable(f) == rows >= offset[f] + Limit[f] \/ ended

\* The rows of the page that are there, all of it unless the data ended inside it.
Page(f) ==
  IF rows >= offset[f] + Limit[f] THEN Limit[f]
  ELSE IF rows > offset[f] THEN rows - offset[f] ELSE 0

Reply(f) ==
  /\ asking[f]
  /\ Answerable(f)
  /\ asking' = [asking EXCEPT ![f] = FALSE]
  /\ answer' = [answer EXCEPT ![f] =
       IF failed /\ rows < offset[f] + Limit[f] THEN Failure ELSE Found(Page(f))]
  /\ UNCHANGED <<rows, ended, failed, offset>>

\* The caller's context ends first.
Abandon(f) ==
  /\ asking[f]
  /\ asking' = [asking EXCEPT ![f] = FALSE]
  /\ answer' = [answer EXCEPT ![f] = Failure]
  /\ UNCHANGED <<rows, ended, failed, offset>>

Next ==
  \/ Arrive \/ EndRows
  \/ \E f \in Readers : Ask(f) \/ Reply(f) \/ Abandon(f)

Safety == Init /\ [][Next]_vars

\* Whoever asks must be answered now.
Due(f) == ended \/ rows >= offset[f] + Limit[f] + Lag[f]

Spec == Safety /\ \A f \in Readers : WF_vars(Due(f) /\ Reply(f))
=============================================================================
