-------------------------------- MODULE Tail --------------------------------
(***************************************************************************)
(* A following read kept in a window of fixed size (internal/app/tail.go). *)
(* A goroutine of the tail's own reads one record after another into a     *)
(* ring; the application pauses, resumes and closes it from outside.       *)
(*                                                                         *)
(* The module describes any number of tails, as the objects of a type: an  *)
(* action belongs to one of them.  The records of a tail are numbered in   *)
(* the order its stream gives them, from 1.                                *)
(***************************************************************************)
EXTENDS Integers, Sequences

CONSTANTS
  Tails,        \* the tails a program makes, one per Follow
  Keeps,        \* keeps: how many records a tail holds
  Records       \* a bound: how many records the stream of each tail has

ASSUME KeepsAssumption == Keeps \in Nat \ {0} /\ Records \in [Tails -> Nat]

VARIABLES
  follower,     \* the goroutine in follow: where it is
  ring, first, n, dropped, arrived,     \* the fields of these names
  paused, broken, closed,               \* t.paused, t.err # nil, t.closed
  givenUp,      \* the context of the read is cancelled
  close,        \* Close: "no", "asked", "waiting" for t.done, "released"
  since         \* history: records kept since Pause

windowVars == <<ring, first, n, dropped, arrived, since>>
flagVars   == <<paused, broken, closed, givenUp, close>>
tailVars   == <<follower, windowVars, flagVars>>

Places   == {"unborn", "top", "parked", "reading", "got", "broke", "gone", "ended"}
Slots    == 0 .. Keeps - 1
Empty    == 0

TailInit ==
  /\ follower = [t \in Tails |-> "unborn"]
  /\ ring = [t \in Tails |-> [s \in Slots |-> Empty]]
  /\ first = [t \in Tails |-> 0]
  /\ n = [t \in Tails |-> 0]
  /\ dropped = [t \in Tails |-> 0]
  /\ arrived = [t \in Tails |-> 0]
  /\ since = [t \in Tails |-> 0]
  /\ paused = [t \in Tails |-> FALSE]
  /\ broken = [t \in Tails |-> FALSE]
  /\ closed = [t \in Tails |-> FALSE]
  /\ givenUp = [t \in Tails |-> FALSE]
  /\ close = [t \in Tails |-> "no"]

\* The records held, oldest first.
Rows(t) == [i \in 1 .. n[t] |-> ring[t][(first[t] + i - 1) % Keeps]]

-----------------------------------------------------------------------------
(***************************************************************************)
(* follow                                                                  *)
(***************************************************************************)
Go(t, place) == follower' = [follower EXCEPT ![t] = place]

\* NewTail, once the source has begun to read.
NewTail(t) ==
  /\ follower[t] = "unborn"
  /\ Go(t, "top")
  /\ UNCHANGED <<windowVars, flagVars>>

\* The top of the loop, under the lock.
Look(t) ==
  /\ follower[t] = "top"
  /\ Go(t, IF closed[t] THEN "ended" ELSE IF paused[t] THEN "parked" ELSE "reading")
  /\ UNCHANGED <<windowVars, flagVars>>

\* Next returns a record, one it had or one just written.
NextRecord(t) ==
  /\ follower[t] = "reading"
  /\ arrived[t] < Records[t]
  /\ Go(t, "got")
  /\ UNCHANGED <<windowVars, flagVars>>

\* Next fails: with an error worth telling, or because the stream ended or was given up on.
NextFails(t) ==
  /\ follower[t] = "reading"
  /\ \E how \in {"broke", "gone"} : Go(t, how)
  /\ UNCHANGED <<windowVars, flagVars>>

FollowFails(t) ==
  /\ follower[t] \in {"broke", "gone"}
  /\ broken' = [broken EXCEPT ![t] = @ \/ (follower[t] = "broke" /\ ~closed[t])]
  /\ Go(t, "ended")
  /\ UNCHANGED <<windowVars, paused, closed, givenUp, close>>

\* Mutant: a full window overwrites its newest record.
KeepWrongEnd(t) ==
  /\ follower[t] = "got"
  /\ arrived' = [arrived EXCEPT ![t] = @ + 1]
  /\ since' = [since EXCEPT ![t] = IF paused[t] THEN @ + 1 ELSE 0]
  /\ LET record == arrived[t] + 1
         full   == n[t] = Keeps
         slot   == IF full THEN Keeps - 1 ELSE (first[t] + n[t]) % Keeps
     IN /\ ring' = [ring EXCEPT ![t][slot] = record]
        /\ n' = [n EXCEPT ![t] = IF full THEN @ ELSE @ + 1]
        /\ dropped' = [dropped EXCEPT ![t] = IF full THEN @ + 1 ELSE @]
        /\ UNCHANGED first
  /\ Go(t, "top")
  /\ UNCHANGED flagVars

KeepInRoom(t) ==
  /\ n[t] < Keeps
  /\ ring' = [ring EXCEPT ![t][(first[t] + n[t]) % Keeps] = arrived[t] + 1]
  /\ n' = [n EXCEPT ![t] = @ + 1]
  /\ UNCHANGED <<first, dropped>>

KeepOverOldest(t) ==
  /\ n[t] = Keeps
  /\ ring' = [ring EXCEPT ![t][first[t]] = arrived[t] + 1]
  /\ first' = [first EXCEPT ![t] = (@ + 1) % Keeps]
  /\ dropped' = [dropped EXCEPT ![t] = @ + 1]
  /\ UNCHANGED n

Keep(t) ==
  /\ follower[t] = "got"
  /\ KeepInRoom(t) \/ KeepOverOldest(t)
  /\ arrived' = [arrived EXCEPT ![t] = @ + 1]
  /\ since' = [since EXCEPT ![t] = IF paused[t] THEN @ + 1 ELSE 0]
  /\ Go(t, "top")
  /\ UNCHANGED flagVars

Follow(t) == Look(t) \/ NextRecord(t) \/ NextFails(t) \/ FollowFails(t) \/ Keep(t)

-----------------------------------------------------------------------------
(***************************************************************************)
(* What is done to a tail from outside                                     *)
(***************************************************************************)
\* cond.Broadcast: the goroutine waits nowhere else.
Broadcast(t) == follower' = [follower EXCEPT ![t] = IF @ = "parked" THEN "top" ELSE @]

Pause(t) ==
  /\ ~paused[t]
  /\ paused' = [paused EXCEPT ![t] = TRUE]
  /\ UNCHANGED <<follower, windowVars, broken, closed, givenUp, close>>

Resume(t) ==
  /\ paused[t]
  /\ paused' = [paused EXCEPT ![t] = FALSE]
  /\ since' = [since EXCEPT ![t] = 0]
  /\ Broadcast(t)
  /\ UNCHANGED <<ring, first, n, dropped, arrived, broken, closed, givenUp, close>>

\* Mutant: a paused tail is not woken.
CloseBeginQuietly(t) ==
  /\ close[t] = "asked"
  /\ closed' = [closed EXCEPT ![t] = TRUE]
  /\ givenUp' = [givenUp EXCEPT ![t] = TRUE]
  /\ close' = [close EXCEPT ![t] = "waiting"]
  /\ UNCHANGED <<follower, windowVars, paused, broken>>

\* Close up to the wait: marked, woken, and given up on.
CloseBegin(t) ==
  /\ close[t] = "asked"
  /\ closed' = [closed EXCEPT ![t] = TRUE]
  /\ givenUp' = [givenUp EXCEPT ![t] = TRUE]
  /\ close' = [close EXCEPT ![t] = "waiting"]
  /\ Broadcast(t)
  /\ UNCHANGED <<windowVars, paused, broken>>

\* The goroutine has ended: the stream is let go.
CloseEnd(t) ==
  /\ close[t] = "waiting"
  /\ follower[t] = "ended"
  /\ close' = [close EXCEPT ![t] = "released"]
  /\ UNCHANGED <<follower, windowVars, paused, broken, closed, givenUp>>

Close(t) == CloseBegin(t) \/ CloseEnd(t)

-----------------------------------------------------------------------------
(***************************************************************************)
(* Fairness: goroutines run.  Nobody need write to the log, but a read     *)
(* given up on returns (NFR-P9, model.RowStream).                          *)
(***************************************************************************)
TailFairness(t) ==
  /\ WF_tailVars(Look(t) \/ FollowFails(t) \/ Keep(t))
  /\ WF_tailVars(givenUp[t] /\ (NextRecord(t) \/ NextFails(t)))
  /\ WF_tailVars(Close(t))

-----------------------------------------------------------------------------
\* Every variable of a tail has its type (Tail).
TailTypeOK ==
  /\ follower \in [Tails -> Places]
  /\ ring \in [Tails -> [Slots -> Nat]]
  /\ first \in [Tails -> Slots]
  /\ n \in [Tails -> 0 .. Keeps]
  /\ dropped \in [Tails -> Nat]
  /\ arrived \in [Tails -> Nat]
  /\ since \in [Tails -> Nat]
  /\ paused \in [Tails -> BOOLEAN]
  /\ broken \in [Tails -> BOOLEAN]
  /\ closed \in [Tails -> BOOLEAN]
  /\ givenUp \in [Tails -> BOOLEAN]
  /\ close \in [Tails -> {"no", "asked", "waiting", "released"}]

\* What is held is the last records read, in order and without a gap, and what
\* is not held is counted: keep's ring, Rows and Dropped agree with Changes.
LastRecords ==
  \A t \in Tails :
    /\ dropped[t] + n[t] = arrived[t]
    /\ Rows(t) = [i \in 1 .. n[t] |-> dropped[t] + i]

\* Pausing keeps at most the record already asked for (ADR-0097, decision 7),
\* however often the tail was paused and resumed before.
PauseTakesOne == \A t \in Tails : since[t] <= 1

\* The stream is not let go while the goroutine may still be reading it, and
\* a failure met on the way out of a closed tail is not one to report (Close, follow).
ReleasedUnread ==
  \A t \in Tails : close[t] = "released" => closed[t] /\ follower[t] = "ended"

=============================================================================
