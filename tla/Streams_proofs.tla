--------------------------- MODULE Streams_proofs ---------------------------
(***************************************************************************)
(* What holds of the two streams a grid draws from, for every value of     *)
(* their constants.                                                        *)
(*                                                                         *)
(* A query result: no wake-up is lost, reading ends once, and fetches are  *)
(* answered as the grid relies on, for any batch size, any cap, any number *)
(* of fetches at once and any pages they ask for.  A log that is followed: every tail a        *)
(* tab makes holds the last records, for windows of any size, streams of   *)
(* any length, any number of tails and any use of the controls; none is    *)
(* left without being closed, and none sleeps through it.                  *)
(***************************************************************************)
EXTENDS ResultSet, StreamBar, Integers, Sequences, FiniteSets, FiniteSetTheorems, TLAPS

\* Two marks apart are a batch apart.
LEMMA MarksApart ==
  ASSUME NEW a \in Nat, NEW b \in Nat, Mark(a), Mark(b), a < b
  PROVE  a + NotifyEvery <= b
<1>1. PICK j \in Nat : a = j * NotifyEvery
  BY DEF Mark
<1>2. PICK k \in Nat : b = k * NotifyEvery
  BY DEF Mark
<1> DEFINE N == NotifyEvery
<1>0. N \in Nat /\ N > 0
  BY SizesAssumption
<1>3. j < k
  <2> SUFFICES ASSUME k <= j PROVE FALSE
    OBVIOUS
  <2>1. PICK d \in Nat : j = k + d
    <3>1. j - k \in Nat /\ j = k + (j - k)
      OBVIOUS
    <3> QED  BY <3>1
  <2>2. j * N = k * N + d * N /\ d * N >= 0
    BY <1>0, <2>1
  <2> QED  BY <1>0, <1>1, <1>2, <2>2
<1>4. PICK e \in Nat : k = j + 1 + e
  <2>1. k - j - 1 \in Nat /\ k = j + 1 + (k - j - 1)
    BY <1>3
  <2> QED  BY <2>1
<1>5. k * N = j * N + N + e * N /\ e * N >= 0
  BY <1>0, <1>4
<1> QED  BY <1>0, <1>1, <1>2, <1>5

LEMMA MarkSum ==
  ASSUME NEW a \in Nat, NEW b \in Nat, Mark(a), Mark(b)
  PROVE  Mark(a + b)
<1>1. PICK j \in 0..a : a = j * NotifyEvery
  BY DEF Mark
<1>2. PICK k \in 0..b : b = k * NotifyEvery
  BY DEF Mark
<1>3. j + k \in 0..(a + b)
  OBVIOUS
<1>4. a + b = (j + k) * NotifyEvery
  BY <1>1, <1>2, SizesAssumption
<1> QED  BY <1>3, <1>4 DEF Mark

LEMMA MarkNext ==
  ASSUME NEW a \in Nat, Mark(a)
  PROVE  Mark(a + NotifyEvery)
<1>1. Mark(NotifyEvery)
  <2>1. 1 \in 0..NotifyEvery /\ NotifyEvery = 1 * NotifyEvery
    BY SizesAssumption
  <2> QED  BY <2>1 DEF Mark
<1> QED  BY <1>1, MarkSum, SizesAssumption

LEMMA ZeroMark == Mark(0)
BY SizesAssumption DEF Mark

-----------------------------------------------------------------------------
(***************************************************************************)
(* The invariant behind the theorems.  Rows are announced by the batch, so *)
(* what has been announced ends on a mark, short of the page of whoever    *)
(* waits.  Where that page ends on a mark too, as the grid's do, it is at  *)
(* least a whole batch short, and the announcement that completes the page *)
(* has yet to come.                                                        *)
(***************************************************************************)
Announced == rows - batch

Bookkeeping ==
  /\ reader = "next" => ~done
  /\ reader = "close" => done
  /\ batch <= rows
  /\ ~done => rows < MaxRows /\ Mark(Announced)
  /\ \A f \in Readers : held[f] <= changed

NotYet ==
  \A f \in Readers :
    (fetch[f] = "wait" /\ held[f] = changed)
      => /\ ~done
         /\ Announced < PageEnd(f)
         /\ Mark(PageEnd(f)) => Announced + NotifyEvery <= PageEnd(f)

Inv == TypeOK /\ FinishedOnce /\ Bookkeeping /\ NotYet

\* What the types say of numbers.
LEMMA Numbers ==
  ASSUME TypeOK
  PROVE  /\ rows \in Nat /\ batch \in Nat /\ changed \in Nat /\ finished \in Nat
         /\ MaxRows \in Nat /\ NotifyEvery \in Nat
         /\ rows <= MaxRows /\ batch < NotifyEvery
         /\ \A f \in Readers : offset[f] \in Nat /\ held[f] \in Nat /\ PageEnd(f) \in Nat
<1>1. MaxRows \in Nat /\ NotifyEvery \in Nat
  BY SizesAssumption
<1>2. rows \in Nat /\ batch \in Nat /\ rows <= MaxRows /\ batch < NotifyEvery
  BY <1>1 DEF TypeOK
<1>3. ASSUME NEW f \in Readers PROVE offset[f] \in Nat /\ held[f] \in Nat /\ PageEnd(f) \in Nat
  <2>1. offset[f] \in Nat /\ held[f] \in Nat
    BY DEF TypeOK
  <2>2. Limit[f] \in Nat
    BY SizesAssumption
  <2> QED  BY <2>1, <2>2 DEF PageEnd
<1> QED  BY <1>1, <1>2, <1>3 DEF TypeOK

LEMMA InvInit == Init => Inv
<1> SUFFICES ASSUME Init PROVE Inv
  OBVIOUS
<1>1. MaxRows \in Nat \ {0} /\ NotifyEvery \in Nat \ {0} /\ Limit \in [Readers -> Nat \ {0}]
  BY SizesAssumption
<1>2. TypeOK
  <2>1. 0 \in 0..MaxRows /\ 0 \in 0..(NotifyEvery - 1)
    BY <1>1
  <2>2. Found(0) \in [ok : BOOLEAN, n : Nat]
    BY DEF Found
  <2>3. answer \in [Readers -> [ok : BOOLEAN, n : Nat]]
    BY <2>2 DEF Init
  <2>4. ASSUME NEW f \in Readers PROVE answer[f].n <= Limit[f]
    <3>1. answer[f].n = 0 /\ Limit[f] \in Nat
      BY <1>1 DEF Init, Found
    <3> QED  BY <3>1
  <2> QED  BY <2>1, <2>3, <2>4 DEF Init, TypeOK
<1>3. Bookkeeping
  BY <1>1, ZeroMark DEF Init, Bookkeeping, Announced
<1> QED  BY <1>2, <1>3 DEF Init, Inv, FinishedOnce, NotYet

LEMMA PageType ==
  ASSUME TypeOK, NEW f \in Readers
  PROVE  Page(f) \in Nat /\ Page(f) <= Limit[f]
<1>1. rows \in Nat /\ offset[f] \in Nat /\ Limit[f] \in Nat
  BY Numbers, SizesAssumption
<1>2. CASE rows >= PageEnd(f)
  BY <1>1, <1>2 DEF Page
<1>3. CASE ~(rows >= PageEnd(f))
  BY <1>1, <1>3 DEF Page, PageEnd
<1> QED  BY <1>2, <1>3

LEMMA InvStep == Inv /\ [Next]_vars => Inv'
<1> SUFFICES ASSUME Inv, [Next]_vars PROVE Inv'
  OBVIOUS
<1> USE SizesAssumption DEF Inv, Bookkeeping
<1>n. /\ rows \in Nat /\ batch \in Nat /\ changed \in Nat /\ finished \in Nat
      /\ MaxRows \in Nat /\ NotifyEvery \in Nat
      /\ rows <= MaxRows /\ batch < NotifyEvery
      /\ \A f \in Readers : offset[f] \in Nat /\ held[f] \in Nat /\ PageEnd(f) \in Nat
  BY Numbers
<1>1. CASE NextRow
  <2>1. ~done /\ rows < MaxRows /\ rows' = rows + 1 /\ Mark(Announced)
    BY <1>1 DEF NextRow
  <2>0. done' <=> rows' >= MaxRows
    BY <1>1, Zenon DEF NextRow
  <2>2. CASE done'
    <3>1. batch' = 0 /\ changed' = changed + 1 /\ finished' = finished + 1 /\ reader' = "close"
      BY <1>1, <2>2 DEF NextRow
    <3>2. TypeOK'
      BY <1>1, <1>n, <2>1, <3>1 DEF NextRow, TypeOK, fetchVars
    <3>3. FinishedOnce'
      BY <2>1, <2>2, <3>1 DEF FinishedOnce
    <3>4. Bookkeeping'
      BY <1>1, <1>n, <2>1, <2>2, <3>1 DEF NextRow, fetchVars
    <3>5. NotYet'
      BY <1>1, <1>n, <3>1 DEF NextRow, fetchVars, NotYet, PageEnd
    <3> QED  BY <3>2, <3>3, <3>4, <3>5
  <2>3. CASE ~done' /\ batch + 1 >= NotifyEvery
    <3>1. batch' = 0 /\ changed' = changed + 1 /\ finished' = finished /\ reader' = "next"
      BY <1>1, <2>3 DEF NextRow
    <3>2. rows' < MaxRows
      BY <1>n, <2>0, <2>1, <2>3
    <3>3. TypeOK'
      BY <1>1, <1>n, <2>1, <3>1, <3>2 DEF NextRow, TypeOK, fetchVars
    <3>4. Mark(Announced')
      <4>1. Announced' = Announced + NotifyEvery /\ Announced \in Nat
        BY <1>n, <2>1, <2>3, <3>1 DEF Announced
      <4> QED  BY <2>1, <4>1, MarkNext
    <3>5. FinishedOnce'
      BY <2>1, <2>3, <3>1 DEF FinishedOnce
    <3>6. Bookkeeping'
      BY <1>1, <1>n, <2>1, <2>3, <3>1, <3>2, <3>4 DEF NextRow, fetchVars
    <3>7. NotYet'
      BY <1>1, <1>n, <3>1 DEF NextRow, fetchVars, NotYet, PageEnd
    <3> QED  BY <3>3, <3>5, <3>6, <3>7
  <2>4. CASE ~done' /\ batch + 1 < NotifyEvery
    <3>1. batch' = batch + 1 /\ changed' = changed /\ finished' = finished /\ reader' = "next"
      BY <1>1, <1>n, <2>4 DEF NextRow
    <3>2. rows' < MaxRows
      BY <1>n, <2>0, <2>1, <2>4
    <3>3. TypeOK'
      BY <1>1, <1>n, <2>1, <2>4, <3>1, <3>2 DEF NextRow, TypeOK, fetchVars
    <3>4. Announced' = Announced
      BY <1>n, <2>1, <3>1 DEF Announced
    <3>5. FinishedOnce'
      BY <2>1, <2>4, <3>1 DEF FinishedOnce
    <3>6. Bookkeeping'
      BY <1>1, <1>n, <2>1, <2>4, <3>1, <3>2, <3>4 DEF NextRow, fetchVars
    <3>7. NotYet'
      BY <1>1, <1>n, <2>4, <3>1, <3>4 DEF NextRow, fetchVars, NotYet, PageEnd
    <3> QED  BY <3>3, <3>5, <3>6, <3>7
  <2> QED  BY <1>n, <2>2, <2>3, <2>4
<1>2. CASE NextEnds
  <2>1. TypeOK'
    BY <1>2, <1>n DEF NextEnds, TypeOK, fetchVars
  <2> QED  BY <1>2, <1>n, <2>1 DEF NextEnds, FinishedOnce, NotYet, PageEnd, fetchVars
<1>3. CASE NextPanics
  <2>1. TypeOK'
    BY <1>3 DEF NextPanics, TypeOK, fetchVars
  <2> QED  BY <1>3, <2>1 DEF NextPanics, FinishedOnce, NotYet, PageEnd, Announced, fetchVars
<1>4. CASE CloseStream
  <2>1. TypeOK'
    BY <1>4 DEF CloseStream, TypeOK, fetchVars
  <2> QED  BY <1>4, <2>1 DEF CloseStream, FinishedOnce, NotYet, PageEnd, Announced, fetchVars
<1>5. CASE Fail
  <2>1. TypeOK'
    <3>1. CASE done
      BY <1>5, <1>n, <3>1 DEF Fail, TypeOK, fetchVars
    <3>2. CASE ~done
      BY <1>5, <1>n, <3>2 DEF Fail, TypeOK, fetchVars
    <3> QED  BY <3>1, <3>2
  <2> QED  BY <1>5, <1>n, <2>1 DEF Fail, FinishedOnce, NotYet, PageEnd, Announced, fetchVars
<1>6. CASE Cancel
  <2>1. TypeOK'
    BY <1>6 DEF Cancel, TypeOK, fetchVars
  <2> QED  BY <1>6, <2>1 DEF Cancel, FinishedOnce, NotYet, PageEnd, Announced, fetchVars
<1>7. ASSUME NEW f \in Readers, Ask(f) PROVE Inv'
  <2>1. TypeOK'
    BY <1>7 DEF Ask, TypeOK, readVars
  <2>2. NotYet'
    BY <1>7 DEF Ask, NotYet, PageEnd, Announced, readVars, TypeOK
  <2> QED  BY <1>7, <2>1, <2>2 DEF Ask, FinishedOnce, Announced, readVars
<1>8. ASSUME NEW f \in Readers, Check(f) PROVE Inv'
  <2>1. TypeOK'
    <3> DEFINE Answers == {a \in [ok : BOOLEAN, n : Nat] : a.n <= Limit[f]}
    <3>1. Failure \in Answers /\ Found(Page(f)) \in Answers
      BY PageType, SizesAssumption DEF Failure, Found
    <3>2. \/ answer' = answer
          \/ \E a \in Answers : answer' = [answer EXCEPT ![f] = a]
      BY <1>8, <3>1 DEF Check
    <3>3. answer' \in [Readers -> [ok : BOOLEAN, n : Nat]] /\ \A g \in Readers : answer'[g].n <= Limit[g]
      BY <3>2 DEF TypeOK
    <3>4. fetch' \in [Readers -> {"idle", "check", "wait"}] /\ held' \in [Readers -> Nat]
      BY <1>8 DEF Check, TypeOK, readVars
    <3> QED  BY <1>8, <3>3, <3>4 DEF Check, TypeOK, readVars
  <2>2. CASE rows >= PageEnd(f) \/ done
    <3>1. NotYet'
      BY <1>8, <2>2 DEF Check, NotYet, PageEnd, Announced, readVars, TypeOK
    <3> QED  BY <1>8, <2>1, <2>2, <3>1 DEF Check, FinishedOnce, Announced, readVars
  <2>3. CASE ~(rows >= PageEnd(f) \/ done)
    <3>1. Announced \in Nat /\ Mark(Announced) /\ Announced < PageEnd(f)
      BY <1>n, <2>3 DEF Announced
    <3>2. Mark(PageEnd(f)) => Announced + NotifyEvery <= PageEnd(f)
      BY <1>n, <3>1, MarksApart
    <3>3. held' = [held EXCEPT ![f] = changed] /\ fetch' = [fetch EXCEPT ![f] = "wait"]
      BY <1>8, <2>3 DEF Check
    <3>4. NotYet'
      BY <1>8, <2>3, <3>1, <3>2, <3>3 DEF Check, NotYet, PageEnd, Announced, readVars, TypeOK
    <3>5. \A g \in Readers : held'[g] <= changed
      BY <1>n, <3>3 DEF TypeOK
    <3> QED  BY <1>8, <2>1, <3>4, <3>5 DEF Check, FinishedOnce, Announced, readVars
  <2> QED  BY <2>2, <2>3
<1>9. ASSUME NEW f \in Readers, Wake(f) \/ Abandon(f) PROVE Inv'
  <2>1. TypeOK'
    <3>1. Failure \in [ok : BOOLEAN, n : Nat] /\ Failure.n <= Limit[f]
      BY SizesAssumption DEF Failure
    <3>2. fetch' \in [Readers -> {"idle", "check", "wait"}]
      BY <1>9 DEF Wake, Abandon, TypeOK
    <3>3. answer' \in [Readers -> [ok : BOOLEAN, n : Nat]] /\ \A g \in Readers : answer'[g].n <= Limit[g]
      BY <1>9, <3>1 DEF Wake, Abandon, TypeOK
    <3> QED  BY <1>9, <3>2, <3>3 DEF Wake, Abandon, TypeOK, readVars
  <2>2. NotYet'
    BY <1>9 DEF Wake, Abandon, NotYet, PageEnd, Announced, readVars, TypeOK
  <2> QED  BY <1>9, <2>1, <2>2 DEF Wake, Abandon, FinishedOnce, Announced, readVars
<1>10. CASE UNCHANGED vars
  BY <1>10 DEF vars, readVars, fetchVars, TypeOK, FinishedOnce, NotYet, PageEnd, Announced
<1> QED  BY <1>1, <1>2, <1>3, <1>4, <1>5, <1>6, <1>7, <1>8, <1>9, <1>10 DEF Next

LEMMA AlwaysInv == Spec => []Inv
BY InvInit, InvStep, PTL DEF Spec

\* A result's variables keep their types; no batch outgrows an announcement and no
\* result its cap.
THEOREM TypeCorrect == Spec => []TypeOK
<1>1. Inv => TypeOK
  BY DEF Inv
<1> QED  BY AlwaysInv, <1>1, PTL

\* r.finished is closed once, when reading ends, whatever ends it: the rows, the cap,
\* an error, Close, or a panic of the driver before or after any of these.
THEOREM EndsOnce == Spec => []FinishedOnce
<1>1. Inv => FinishedOnce
  BY DEF Inv
<1> QED  BY AlwaysInv, <1>1, PTL

\* Whoever waits for a page waits on a channel that will be closed, or for rows that were
\* not there at the last announcement: none is missed between looking and waiting, for
\* pages of any size from anywhere.
THEOREM NoLostWakeUp == Spec => []NothingToWakeFor
<1>1. Inv => NothingToWakeFor
  <2> SUFFICES ASSUME Inv, NEW f \in Readers, fetch[f] = "wait", held[f] = changed
               PROVE  /\ ~done /\ rows - batch < PageEnd(f)
                      /\ Mark(PageEnd(f)) => rows < PageEnd(f)
    BY DEF NothingToWakeFor
  <2>1. rows \in Nat /\ batch \in Nat /\ batch < NotifyEvery /\ NotifyEvery \in Nat
          /\ PageEnd(f) \in Nat
    BY Numbers DEF Inv
  <2>2. /\ ~done /\ Announced < PageEnd(f)
        /\ Mark(PageEnd(f)) => Announced + NotifyEvery <= PageEnd(f)
    BY DEF Inv, NotYet
  <2> QED  BY <2>1, <2>2 DEF Announced
<1> QED  BY AlwaysInv, <1>1, PTL

-----------------------------------------------------------------------------
(***************************************************************************)
(* Every step of a result is a step of the contract, or none of its        *)
(* concern.                                                                *)
(***************************************************************************)
LEMMA ContractInit == Init => Contract!Init
BY DEF Init, Contract!Init, Found, Contract!Found

LEMMA ContractStep == Inv /\ [Next]_vars => [Contract!Next]_(Contract!vars)
<1> SUFFICES ASSUME Inv, [Next]_vars PROVE Contract!Next \/ UNCHANGED Contract!vars
  OBVIOUS
<1> USE DEF Inv
<1>1. CASE NextRow
  <2>1. Contract!Arrive
    BY <1>1 DEF NextRow, Contract!Arrive, Bookkeeping, fetchVars
  <2> QED  BY <2>1 DEF Contract!Next
<1>2. CASE NextEnds
  <2>1. Contract!EndRows
    BY <1>2 DEF NextEnds, Contract!EndRows, Bookkeeping, fetchVars
  <2> QED  BY <2>1 DEF Contract!Next
<1>3. CASE NextPanics \/ CloseStream \/ Cancel
  BY <1>3 DEF NextPanics, CloseStream, Cancel, Contract!vars, fetchVars
<1>4. CASE Fail
  <2>1. CASE done
    BY <1>4, <2>1 DEF Fail, Contract!vars, fetchVars
  <2>2. CASE ~done
    <3>1. Contract!EndRows
      BY <1>4, <2>2 DEF Fail, Contract!EndRows, fetchVars
    <3> QED  BY <3>1 DEF Contract!Next
  <2> QED  BY <2>1, <2>2
<1>5. ASSUME NEW f \in Readers, Ask(f) PROVE Contract!Next
  <2>1. Contract!Ask(f)
    BY <1>5 DEF Ask, Contract!Ask, readVars, TypeOK
  <2> QED  BY <2>1 DEF Contract!Next
<1>6. ASSUME NEW f \in Readers, Check(f) PROVE Contract!Next \/ UNCHANGED Contract!vars
  <2>1. CASE rows >= PageEnd(f) \/ done
    <3>1. Page(f) = Contract!Page(f)
      BY DEF Page, PageEnd, Contract!Page
    <3>2. Contract!Reply(f)
      BY <1>6, <2>1, <3>1
         DEF Check, Contract!Reply, Contract!Answerable, PageEnd, readVars, TypeOK,
             Failure, Found, Contract!Failure, Contract!Found
    <3> QED  BY <3>2 DEF Contract!Next
  <2>2. CASE ~(rows >= PageEnd(f) \/ done)
    BY <1>6, <2>2 DEF Check, Contract!vars, readVars, TypeOK
  <2> QED  BY <2>1, <2>2
<1>7. ASSUME NEW f \in Readers, Wake(f) PROVE UNCHANGED Contract!vars
  BY <1>7 DEF Wake, Contract!vars, readVars, TypeOK
<1>8. ASSUME NEW f \in Readers, Abandon(f) PROVE Contract!Next
  <2>1. Contract!Abandon(f)
    BY <1>8 DEF Abandon, Contract!Abandon, readVars, TypeOK, Failure, Contract!Failure
  <2> QED  BY <2>1 DEF Contract!Next
<1>9. CASE UNCHANGED vars
  BY <1>9 DEF vars, readVars, fetchVars, Contract!vars
<1> QED  BY <1>1, <1>2, <1>3, <1>4, <1>5, <1>6, <1>7, <1>8, <1>9 DEF Next

\* A result never breaks the grid's contract: a page is answered whole unless the data
\* ended inside it, with an error exactly where reading failed before its end.
THEOREM ImplementsContract == Spec => Contract!Safety
BY ContractInit, ContractStep, AlwaysInv, PTL DEF Spec, Contract!Safety

-----------------------------------------------------------------------------
(***************************************************************************)
(* A tab that shows a log: the tails it makes and the controls over them.  *)
(***************************************************************************)
-----------------------------------------------------------------------------
(***************************************************************************)
(* The ring's indices                                                      *)
(***************************************************************************)
LEMMA SlotBelow ==
  ASSUME NEW x \in Slots PROVE (0 + x) % Keeps = x
  BY KeepsAssumption, SMT DEF Slots

\* Once round: the slots from the second oldest record on, and then the oldest's.
LEMMA SlotsTurned ==
  ASSUME NEW f \in Slots, NEW i \in Slots
  PROVE  (((f + 1) % Keeps) + i) % Keeps = IF i = Keeps - 1 THEN f ELSE (f + (i + 1)) % Keeps
  BY KeepsAssumption, SMT DEF Slots

LEMMA SlotsDiffer ==
  ASSUME NEW f \in Slots, NEW i \in Slots, i # Keeps - 1
  PROVE  (f + (i + 1)) % Keeps \in Slots \ {f}
  BY KeepsAssumption, SMT DEF Slots

LEMMA SlotIsSlot ==
  ASSUME NEW x \in Nat PROVE x % Keeps \in Slots
  BY KeepsAssumption, SMT DEF Slots

-----------------------------------------------------------------------------
(***************************************************************************)
(* The bar's steps, as the tails see them                                  *)
(***************************************************************************)
\* Close is called: by the bar, or by the goroutine of a tab that is gone.
AskClose(t) ==
  /\ close' = [close EXCEPT ![t] = "asked"]
  /\ givenUp' \in {givenUp, [givenUp EXCEPT ![t] = TRUE]}
  /\ UNCHANGED <<follower, windowVars, paused, broken, closed>>

TailStep(t) ==
  \/ NewTail(t) \/ Look(t) \/ NextRecord(t) \/ NextFails(t) \/ FollowFails(t) \/ Keep(t)
  \/ Pause(t) \/ Resume(t) \/ CloseBegin(t) \/ CloseEnd(t) \/ AskClose(t)

TailKnown == tail \in Tails \cup {NoTail}

\* Whatever a handler does to a tail is one of the tail's operations, or a call of Close.
LEMMA BarStep ==
  ASSUME TailKnown, [BarNext]_streamVars
  PROVE  TailKnown' /\ (UNCHANGED tailVars \/ \E t \in Tails : TailStep(t))
<1> USE DEF TailKnown, TailStep
<1>1. ASSUME NEW t \in Tails, Start(t)
      PROVE  tail' = t /\ NewTail(t)
  BY <1>1 DEF Start, StartFollowing
<1>2. ASSUME NEW t \in Tails, Reading(t)
      PROVE  tail' = tail /\ TailStep(t)
  BY <1>2 DEF Reading, Follow, Close, barVars
<1>3. ASSUME NEW then, tail # NoTail, Unfollow(then)
      PROVE  tail' = tail /\ AskClose(tail)
  BY <1>3 DEF Unfollow, AskClose
<1>4. CASE Stop
  BY <1>3, <1>4 DEF Stop
<1>5. CASE StartAt
  BY <1>3, <1>5 DEF StartAt
<1>6. CASE FollowFrom
  BY <1>6 DEF FollowFrom, StartFollowing
<1>7. CASE TogglePause
  BY <1>7 DEF TogglePause
<1>8. CASE CloseTab
  <2>1. CASE tail = NoTail
    BY <1>8, <2>1 DEF CloseTab
  <2>2. CASE tail # NoTail
    <3>1. AskClose(tail)
      BY <1>8, <2>2 DEF CloseTab, AskClose
    <3> QED  BY <1>8, <2>2, <3>1 DEF CloseTab
  <2> QED  BY <2>1, <2>2
<1>9. CASE PutBack \/ Redraw \/ Say \/ Rebrowse \/ BrowseFrom \/ Counted
  BY <1>9 DEF PutBack, Redraw, Say, Rebrowse, BrowseFrom, Counted
<1>10. ASSUME NEW seq \in browsing, Browsed(seq)
       PROVE  tail' = tail /\ UNCHANGED tailVars
  BY <1>10 DEF Browsed
<1>11. CASE UNCHANGED streamVars
  BY <1>11 DEF streamVars, barVars
<1> QED
  BY <1>1, <1>2, <1>4, <1>5, <1>6, <1>7, <1>8, <1>9, <1>10, <1>11 DEF BarNext

-----------------------------------------------------------------------------
(***************************************************************************)
(* Types                                                                   *)
(***************************************************************************)
LEMMA TailTypes ==
  ASSUME TailTypeOK, NEW t \in Tails, TailStep(t)
  PROVE  TailTypeOK'
<1> USE DEF windowVars, flagVars
<1>1. ASSUME NEW place \in Places, Go(t, place)
      PROVE  follower' \in [Tails -> Places]
  BY <1>1 DEF Go, TailTypeOK
<1>2. ASSUME Broadcast(t) PROVE follower' \in [Tails -> Places]
  BY <1>2 DEF Broadcast, TailTypeOK, Places
<1>3. CASE NewTail(t) \/ Look(t) \/ NextRecord(t) \/ NextFails(t)
  <2>1. follower' \in [Tails -> Places]
    <3>1. CASE NewTail(t)
      BY <1>1, <3>1 DEF NewTail, Places
    <3>2. CASE Look(t)
      BY <1>1, <3>2 DEF Look, Places
    <3>3. CASE NextRecord(t)
      BY <1>1, <3>3 DEF NextRecord, Places
    <3>4. CASE NextFails(t)
      BY <1>1, <3>4 DEF NextFails, Places
    <3> QED  BY <1>3, <3>1, <3>2, <3>3, <3>4
  <2>2. UNCHANGED <<windowVars, flagVars>>
    BY <1>3 DEF NewTail, Look, NextRecord, NextFails
  <2> QED  BY <2>1, <2>2 DEF TailTypeOK
<1>4. CASE FollowFails(t)
  <2>1. follower' \in [Tails -> Places]
    BY <1>1, <1>4 DEF FollowFails, Places
  <2>2. broken' \in [Tails -> BOOLEAN]
    BY <1>4 DEF FollowFails, TailTypeOK
  <2> QED  BY <1>4, <2>1, <2>2 DEF FollowFails, TailTypeOK
<1>5. CASE Keep(t)
  <2>1. (first[t] + n[t]) % Keeps \in Slots /\ (first[t] + 1) % Keeps \in Slots
    <3>1. first[t] \in Slots /\ n[t] \in 0 .. Keeps
      BY DEF TailTypeOK
    <3>2. first[t] \in Nat /\ n[t] \in Nat
      BY <3>1, KeepsAssumption DEF Slots
    <3> QED  BY <3>2, SlotIsSlot
  <2>2. follower' \in [Tails -> Places]
    BY <1>1, <1>5 DEF Keep, Places
  <2>3. arrived' \in [Tails -> Nat] /\ since' \in [Tails -> Nat]
    BY <1>5 DEF Keep, TailTypeOK
  <2>4. UNCHANGED flagVars
    BY <1>5 DEF Keep
  <2>5. CASE KeepInRoom(t)
    <3>1. ring' \in [Tails -> [Slots -> Nat]]
      BY <2>1, <2>5 DEF KeepInRoom, TailTypeOK
    <3>2. n' \in [Tails -> 0 .. Keeps]
      BY <2>5, KeepsAssumption DEF KeepInRoom, TailTypeOK
    <3>3. UNCHANGED <<first, dropped>>
      BY <2>5 DEF KeepInRoom
    <3> QED  BY <2>2, <2>3, <2>4, <3>1, <3>2, <3>3 DEF TailTypeOK
  <2>6. CASE KeepOverOldest(t)
    <3>1. ring' \in [Tails -> [Slots -> Nat]]
      BY <2>6 DEF KeepOverOldest, TailTypeOK
    <3>2. first' \in [Tails -> Slots]
      BY <2>1, <2>6 DEF KeepOverOldest, TailTypeOK
    <3>3. dropped' \in [Tails -> Nat] /\ n' = n
      BY <2>6 DEF KeepOverOldest, TailTypeOK
    <3> QED  BY <2>2, <2>3, <2>4, <3>1, <3>2, <3>3 DEF TailTypeOK
  <2> QED  BY <1>5, <2>5, <2>6 DEF Keep
<1>6. CASE Pause(t)
  <2>1. paused' \in [Tails -> BOOLEAN]
    BY <1>6 DEF Pause, TailTypeOK
  <2> QED  BY <1>6, <2>1 DEF Pause, TailTypeOK
<1>7. CASE Resume(t)
  <2>1. paused' \in [Tails -> BOOLEAN] /\ since' \in [Tails -> Nat]
    BY <1>7 DEF Resume, TailTypeOK
  <2>2. follower' \in [Tails -> Places]
    BY <1>2, <1>7 DEF Resume
  <2> QED  BY <1>7, <2>1, <2>2 DEF Resume, TailTypeOK
<1>8. CASE CloseBegin(t)
  <2>1. closed' \in [Tails -> BOOLEAN] /\ givenUp' \in [Tails -> BOOLEAN]
        /\ close' \in [Tails -> {"no", "asked", "waiting", "released"}]
    BY <1>8 DEF CloseBegin, TailTypeOK
  <2>2. follower' \in [Tails -> Places]
    BY <1>2, <1>8 DEF CloseBegin
  <2> QED  BY <1>8, <2>1, <2>2 DEF CloseBegin, TailTypeOK
<1>9. CASE CloseEnd(t)
  <2>1. close' \in [Tails -> {"no", "asked", "waiting", "released"}]
    BY <1>9 DEF CloseEnd, TailTypeOK
  <2> QED  BY <1>9, <2>1 DEF CloseEnd, TailTypeOK
<1>10. CASE AskClose(t)
  <2>1. close' \in [Tails -> {"no", "asked", "waiting", "released"}]
        /\ givenUp' \in [Tails -> BOOLEAN]
    BY <1>10 DEF AskClose, TailTypeOK
  <2> QED  BY <1>10, <2>1 DEF AskClose, TailTypeOK
<1> QED  BY <1>3, <1>4, <1>5, <1>6, <1>7, <1>8, <1>9, <1>10 DEF TailStep

-----------------------------------------------------------------------------
(***************************************************************************)
(* The window                                                              *)
(***************************************************************************)
\* LastRecords by slots, and what makes it inductive: until the window is full
\* the oldest record is in the first slot.
Window(t) ==
  /\ dropped[t] + n[t] = arrived[t]
  /\ n[t] < Keeps => first[t] = 0
  /\ \A i \in 0 .. n[t] - 1 : ring[t][(first[t] + i) % Keeps] = dropped[t] + i + 1

LEMMA WindowKept ==
  ASSUME TailTypeOK, NEW t \in Tails, Keep(t), Window(t)
  PROVE  Window(t)'
<1> DEFINE f == first[t]  m == n[t]
<1>1. /\ f \in 0 .. Keeps - 1 /\ m \in 0 .. Keeps
      /\ dropped[t] \in Nat /\ arrived[t] \in Nat /\ Keeps \in Nat \ {0}
  BY KeepsAssumption DEF TailTypeOK, Slots
<1>2. arrived'[t] = arrived[t] + 1
  BY DEF Keep, TailTypeOK
<1>3. ASSUME NEW i \in 0 .. m - 1
      PROVE  ring[t][(f + i) % Keeps] = dropped[t] + i + 1
  BY DEF Window
<1>4. CASE KeepInRoom(t)
  <2>1. f = 0 /\ m < Keeps
    BY <1>4 DEF KeepInRoom, Window
  <2>2. n'[t] = m + 1 /\ first'[t] = 0 /\ dropped'[t] = dropped[t]
    BY <1>4, <2>1 DEF KeepInRoom, TailTypeOK
  <2>3. ASSUME NEW i \in 0 .. m
        PROVE  i \in Slots /\ (0 + i) % Keeps = i
    <3>1. i \in Slots
      BY <1>1, <2>1 DEF Slots
    <3> QED  BY <3>1, SlotBelow
  <2>4. ring'[t] = [ring[t] EXCEPT ![m] = arrived[t] + 1]
    <3>1. (0 + m) % Keeps = m
      BY <1>1, <2>3
    <3> QED  BY <1>4, <2>1, <3>1 DEF KeepInRoom, TailTypeOK
  <2>5. ASSUME NEW i \in 0 .. m
        PROVE  ring'[t][(0 + i) % Keeps] = dropped[t] + i + 1
    <3>1. ring[t] \in [Slots -> Nat] /\ i \in Slots /\ m \in Slots
      BY <1>1, <2>1, <2>3 DEF TailTypeOK, Slots
    <3>2. CASE i = m
      <4>1. ring'[t][i] = arrived[t] + 1
        BY <2>4, <3>1, <3>2
      <4> QED  BY <1>1, <2>3, <3>2, <4>1 DEF Window
    <3>3. CASE i # m
      <4>1. ring'[t][i] = ring[t][i]
        BY <2>4, <3>1, <3>3
      <4>2. ring[t][(f + i) % Keeps] = dropped[t] + i + 1
        BY <1>1, <1>3, <3>3
      <4> QED  BY <2>1, <2>3, <4>1, <4>2
    <3> QED  BY <3>2, <3>3
  <2>6. dropped'[t] + n'[t] = arrived'[t]
    BY <1>1, <1>2, <2>2 DEF Window
  <2>7. 0 .. n'[t] - 1 = 0 .. m
    BY <1>1, <2>2
  <2> QED  BY <2>2, <2>5, <2>6, <2>7 DEF Window
<1>5. CASE KeepOverOldest(t)
  <2>1. m = Keeps /\ n'[t] = Keeps /\ dropped'[t] = dropped[t] + 1
    BY <1>5 DEF KeepOverOldest, TailTypeOK
  <2>2. first'[t] = (f + 1) % Keeps
    BY <1>5 DEF KeepOverOldest, TailTypeOK
  <2>3. ring'[t] = [ring[t] EXCEPT ![f] = arrived[t] + 1]
    BY <1>5 DEF KeepOverOldest, TailTypeOK
  <2>4. ring[t] \in [Slots -> Nat] /\ f \in Slots
    BY <1>1 DEF TailTypeOK, Slots
  <2>5. ASSUME NEW i \in Slots
        PROVE  ring'[t][(first'[t] + i) % Keeps] = dropped'[t] + i + 1
    <3>1. CASE i = Keeps - 1
      <4>1. (first'[t] + i) % Keeps = f
        BY <2>2, <2>4, <3>1, SlotsTurned
      <4>2. arrived[t] + 1 = dropped'[t] + i + 1
        BY <1>1, <2>1, <3>1 DEF Window
      <4> QED  BY <2>3, <2>4, <4>1, <4>2
    <3>2. CASE i # Keeps - 1
      <4>1. (first'[t] + i) % Keeps = (f + (i + 1)) % Keeps
        BY <2>2, <2>4, <3>2, SlotsTurned
      <4>2. (f + (i + 1)) % Keeps \in Slots \ {f}
        BY <2>4, <3>2, SlotsDiffer
      <4>3. ring'[t][(f + (i + 1)) % Keeps] = ring[t][(f + (i + 1)) % Keeps]
        BY <2>3, <2>4, <4>2
      <4>4. i + 1 \in 0 .. m - 1
        BY <1>1, <2>1, <3>2 DEF Slots
      <4>5. ring[t][(f + (i + 1)) % Keeps] = dropped[t] + (i + 1) + 1
        BY <1>3, <4>4
      <4>6. dropped[t] + (i + 1) + 1 = dropped'[t] + i + 1
        BY <1>1, <2>1 DEF Slots
      <4> QED  BY <4>1, <4>3, <4>5, <4>6
    <3> QED  BY <3>1, <3>2
  <2>7. dropped'[t] + n'[t] = arrived'[t]
    BY <1>1, <1>2, <2>1 DEF Window
  <2>8. ~(n'[t] < Keeps) /\ 0 .. n'[t] - 1 = Slots
    BY <1>1, <2>1 DEF Slots
  <2> QED  BY <2>5, <2>7, <2>8 DEF Window
<1> QED  BY <1>4, <1>5 DEF Keep

\* Every other operation leaves the windows alone.
LEMMA WindowElsewhere ==
  ASSUME TailTypeOK, NEW t \in Tails, NEW u \in Tails, TailStep(t), Window(u), ~(u = t /\ Keep(t))
  PROVE  Window(u)'
<1>1. CASE Keep(t)
  <2>1. u # t
    BY <1>1
  <2>2. /\ ring'[u] = ring[u] /\ first'[u] = first[u] /\ n'[u] = n[u]
        /\ dropped'[u] = dropped[u] /\ arrived'[u] = arrived[u]
    BY <1>1, <2>1 DEF Keep, KeepInRoom, KeepOverOldest, TailTypeOK
  <2> QED  BY <2>2 DEF Window
<1>2. CASE ~Keep(t)
  <2>1. UNCHANGED <<ring, first, n, dropped, arrived>>
    BY <1>2 DEF TailStep, NewTail, Look, NextRecord, NextFails, FollowFails, Pause, Resume,
                CloseBegin, CloseEnd, AskClose, windowVars
  <2> QED  BY <2>1 DEF Window
<1> QED  BY <1>1, <1>2

-----------------------------------------------------------------------------
(***************************************************************************)
(* Pausing and letting go                                                  *)
(***************************************************************************)
\* PauseTakesOne, with what makes it inductive: a tail that has kept a record
\* since it was paused is not about to keep another.
Held(t) ==
  /\ since[t] \in {0, 1}
  /\ since[t] = 1 => paused[t] /\ follower[t] \notin {"unborn", "reading", "got"}

\* ReleasedUnread, from the moment Close waits.
LetGo(t) ==
  /\ close[t] \in {"waiting", "released"} => closed[t]
  /\ close[t] = "released" => follower[t] = "ended"

LEMMA HeldStep ==
  ASSUME TailTypeOK, NEW t \in Tails, NEW u \in Tails, TailStep(t), Held(u)
  PROVE  Held(u)'
<1> USE DEF Held, Go, windowVars, flagVars
<1>1. CASE NewTail(t)
  BY <1>1 DEF NewTail, TailTypeOK
<1>2. CASE Look(t)
  <2>1. follower'[u] = follower[u] \/ (u = t /\ (paused[t] => follower'[u] \in {"ended", "parked"}))
    BY <1>2 DEF Look, TailTypeOK
  <2> QED  BY <1>2, <2>1 DEF Look
<1>3. CASE NextRecord(t)
  BY <1>3 DEF NextRecord, TailTypeOK
<1>4. CASE NextFails(t)
  BY <1>4 DEF NextFails, TailTypeOK
<1>5. CASE FollowFails(t)
  BY <1>5 DEF FollowFails, TailTypeOK
<1>6. CASE Keep(t)
  <2>1. CASE u = t
    <3>1. since[t] = 0
      BY <1>6, <2>1 DEF Keep
    <3>2. since'[t] = (IF paused[t] THEN since[t] + 1 ELSE 0) /\ follower'[t] = "top"
      BY <1>6 DEF Keep, TailTypeOK
    <3>3. paused' = paused
      BY <1>6 DEF Keep
    <3> QED  BY <2>1, <3>1, <3>2, <3>3
  <2>2. CASE u # t
    BY <1>6, <2>2 DEF Keep, TailTypeOK
  <2> QED  BY <2>1, <2>2
<1>7. CASE Pause(t)
  BY <1>7 DEF Pause, TailTypeOK
<1>8. CASE Resume(t)
  <2>1. u = t => since'[u] = 0
    BY <1>8 DEF Resume, TailTypeOK
  <2>2. u # t => since'[u] = since[u] /\ paused'[u] = paused[u] /\ follower'[u] = follower[u]
    BY <1>8 DEF Resume, Broadcast, TailTypeOK
  <2> QED  BY <2>1, <2>2
<1>9. CASE CloseBegin(t)
  <2>1. follower'[u] = follower[u] \/ follower'[u] = "top"
    BY <1>9 DEF CloseBegin, Broadcast, TailTypeOK
  <2> QED  BY <1>9, <2>1 DEF CloseBegin
<1>10. CASE CloseEnd(t)
  BY <1>10 DEF CloseEnd
<1>11. CASE AskClose(t)
  BY <1>11 DEF AskClose
<1> QED  BY <1>1, <1>2, <1>3, <1>4, <1>5, <1>6, <1>7, <1>8, <1>9, <1>10, <1>11 DEF TailStep

LEMMA LetGoStep ==
  ASSUME TailTypeOK, NEW t \in Tails, NEW u \in Tails, TailStep(t), LetGo(u)
  PROVE  LetGo(u)'
<1> USE DEF LetGo, Go, windowVars, flagVars
<1>1. CASE NewTail(t)
  BY <1>1 DEF NewTail, TailTypeOK
<1>2. CASE Look(t)
  BY <1>2 DEF Look, TailTypeOK
<1>3. CASE NextRecord(t)
  BY <1>3 DEF NextRecord, TailTypeOK
<1>4. CASE NextFails(t)
  BY <1>4 DEF NextFails, TailTypeOK
<1>5. CASE FollowFails(t)
  BY <1>5 DEF FollowFails, TailTypeOK
<1>6. CASE Keep(t)
  BY <1>6 DEF Keep, TailTypeOK
<1>7. CASE Pause(t)
  BY <1>7 DEF Pause
<1>8. CASE Resume(t)
  BY <1>8 DEF Resume, Broadcast, TailTypeOK
<1>9. CASE CloseBegin(t)
  <2>1. u = t => close'[u] = "waiting" /\ closed'[u]
    BY <1>9 DEF CloseBegin, TailTypeOK
  <2>2. u # t => close'[u] = close[u] /\ closed'[u] = closed[u] /\ follower'[u] = follower[u]
    BY <1>9 DEF CloseBegin, Broadcast, TailTypeOK
  <2> QED  BY <2>1, <2>2
<1>10. CASE CloseEnd(t)
  BY <1>10 DEF CloseEnd, TailTypeOK
<1>11. CASE AskClose(t)
  BY <1>11 DEF AskClose, TailTypeOK
<1> QED  BY <1>1, <1>2, <1>3, <1>4, <1>5, <1>6, <1>7, <1>8, <1>9, <1>10, <1>11 DEF TailStep

-----------------------------------------------------------------------------
(***************************************************************************)
(* The theorems                                                            *)
(***************************************************************************)
BarInv ==
  /\ TailKnown /\ TailTypeOK
  /\ \A t \in Tails : Window(t) /\ Held(t) /\ LetGo(t)

LEMMA BarInvInit ==
  ASSUME BarInit PROVE BarInv
<1>1. 0 \in Slots /\ 0 \in 0 .. Keeps
  BY KeepsAssumption DEF Slots
<1>2. TailTypeOK
  BY <1>1 DEF BarInit, TailInit, TailTypeOK, Places, Empty
<1>3. ASSUME NEW t \in Tails PROVE Window(t) /\ Held(t) /\ LetGo(t)
  BY <1>3 DEF BarInit, TailInit, Window, Held, LetGo
<1> QED  BY <1>2, <1>3 DEF BarInit, BarInv, TailKnown

LEMMA BarInvStep ==
  ASSUME BarInv, [BarNext]_streamVars PROVE BarInv'
<1>1. TailKnown' /\ (UNCHANGED tailVars \/ \E t \in Tails : TailStep(t))
  BY BarStep DEF BarInv
<1>2. CASE UNCHANGED tailVars
  <2>1. UNCHANGED <<follower, ring, first, n, dropped, arrived, since, paused, broken, closed,
                    givenUp, close>>
    BY <1>2 DEF tailVars, windowVars, flagVars
  <2>2. TailTypeOK'
    BY <2>1 DEF BarInv, TailTypeOK
  <2>3. ASSUME NEW t \in Tails PROVE Window(t)' /\ Held(t)' /\ LetGo(t)'
    BY <2>1 DEF BarInv, Window, Held, LetGo
  <2> QED  BY <1>1, <2>2, <2>3 DEF BarInv
<1>3. ASSUME NEW t \in Tails, TailStep(t) PROVE BarInv'
  <2>1. TailTypeOK'
    BY <1>3, TailTypes DEF BarInv
  <2>2. ASSUME NEW u \in Tails PROVE Window(u)'
    BY <1>3, WindowKept, WindowElsewhere DEF BarInv
  <2>3. ASSUME NEW u \in Tails PROVE Held(u)' /\ LetGo(u)'
    BY <1>3, HeldStep, LetGoStep DEF BarInv
  <2> QED  BY <1>1, <2>1, <2>2, <2>3 DEF BarInv
<1> QED  BY <1>1, <1>2, <1>3

LEMMA BarInvHolds == BarSpec => []BarInv
<1>1. BarInit => BarInv
  BY BarInvInit
<1>2. BarInv /\ [BarNext]_streamVars => BarInv'
  BY BarInvStep
<1> QED  BY <1>1, <1>2, PTL DEF BarSpec

LEMMA WindowIsLast ==
  ASSUME BarInv PROVE LastRecords
<1> SUFFICES ASSUME NEW t \in Tails
             PROVE  /\ dropped[t] + n[t] = arrived[t]
                    /\ Rows(t) = [i \in 1 .. n[t] |-> dropped[t] + i]
  BY DEF LastRecords
<1>1. /\ first[t] \in 0 .. Keeps - 1 /\ n[t] \in 0 .. Keeps /\ dropped[t] \in Nat
      /\ Keeps \in Nat \ {0}
  BY KeepsAssumption DEF BarInv, TailTypeOK, Slots
<1>2. ASSUME NEW i \in 1 .. n[t]
      PROVE  ring[t][(first[t] + i - 1) % Keeps] = dropped[t] + i
  <2>1. /\ i - 1 \in 0 .. n[t] - 1 /\ first[t] + i - 1 = first[t] + (i - 1)
        /\ dropped[t] + (i - 1) + 1 = dropped[t] + i
    BY <1>1
  <2>2. ring[t][(first[t] + (i - 1)) % Keeps] = dropped[t] + (i - 1) + 1
    BY <2>1 DEF BarInv, Window
  <2> QED  BY <2>1, <2>2
<1>3. dropped[t] + n[t] = arrived[t]
  BY DEF BarInv, Window
<1> QED  BY <1>2, <1>3 DEF Rows

\* A tail holds exactly the last records read, oldest first, and counts the rest:
\* keep, Rows, Dropped and Changes for every size of window.
THEOREM HoldsTheLast == BarSpec => []LastRecords
<1>1. BarInv => LastRecords
  BY WindowIsLast
<1> QED  BY <1>1, BarInvHolds, PTL

\* However often a tail is paused and resumed, a pause keeps at most the record
\* already asked for: follow's look at t.paused under the lock.
THEOREM PauseCostsOne == BarSpec => []PauseTakesOne
<1>1. BarInv => PauseTakesOne
  <2> SUFFICES ASSUME BarInv, NEW t \in Tails PROVE since[t] <= 1
    BY DEF PauseTakesOne
  <2>1. since[t] \in {0, 1}
    BY DEF BarInv, Held
  <2> QED  BY <2>1
<1> QED  BY <1>1, BarInvHolds, PTL

\* A stream is let go only after the tail was marked closed and its goroutine has
\* ended, whoever calls Close and whenever.
THEOREM ReleasedAfterReading == BarSpec => []ReleasedUnread
<1>1. BarInv => ReleasedUnread
  BY DEF BarInv, LetGo, ReleasedUnread
<1> QED  BY <1>1, BarInvHolds, PTL
-----------------------------------------------------------------------------
(***************************************************************************)
(* The bar                                                                 *)
(***************************************************************************)
\* What no operation of a tail that was made undoes.
LEMMA TailsGoOn ==
  ASSUME TailTypeOK, NEW t \in Tails, NEW u \in Tails,
         Follow(t) \/ Close(t) \/ Pause(t) \/ Resume(t) \/ AskClose(t)
  PROVE  /\ close[u] # "no" => close'[u] # "no"
         /\ follower'[u] = "unborn" <=> follower[u] = "unborn"
         /\ arrived'[u] >= arrived[u]
<1> USE DEF Go, windowVars, flagVars
<1>t. follower[u] \in Places /\ arrived[u] \in Nat /\ arrived[u] >= arrived[u]
  BY DEF TailTypeOK
<1>1. CASE Look(t) \/ NextRecord(t) \/ NextFails(t) \/ FollowFails(t)
  <2>1. UNCHANGED <<close, arrived>>
    BY <1>1 DEF Look, NextRecord, NextFails, FollowFails
  <2>2. follower[t] # "unborn"
    BY <1>1 DEF Look, NextRecord, NextFails, FollowFails
  <2>3. \E place \in Places \ {"unborn"} : follower' = [follower EXCEPT ![t] = place]
    <3>1. CASE Look(t)
      BY <3>1 DEF Look, Places
    <3>2. CASE NextRecord(t)
      BY <3>2 DEF NextRecord, Places
    <3>3. CASE NextFails(t)
      BY <3>3 DEF NextFails, Places
    <3>4. CASE FollowFails(t)
      BY <3>4 DEF FollowFails, Places
    <3> QED  BY <1>1, <3>1, <3>2, <3>3, <3>4
  <2> QED  BY <1>t, <2>1, <2>2, <2>3 DEF TailTypeOK
<1>2. CASE Keep(t)
  <2>1. UNCHANGED close /\ arrived' = [arrived EXCEPT ![t] = @ + 1]
    BY <1>2 DEF Keep
  <2>2. follower[t] = "got" /\ follower' = [follower EXCEPT ![t] = "top"]
    BY <1>2 DEF Keep
  <2>3. arrived'[u] >= arrived[u]
    BY <1>t, <2>1 DEF TailTypeOK
  <2> QED  BY <1>t, <2>1, <2>2, <2>3 DEF TailTypeOK
<1>3. CASE Pause(t) \/ CloseEnd(t) \/ AskClose(t)
  <2>1. UNCHANGED <<follower, arrived>>
    BY <1>3 DEF Pause, CloseEnd, AskClose
  <2>2. UNCHANGED close \/ \E step \in {"asked", "released"} : close' = [close EXCEPT ![t] = step]
    BY <1>3 DEF Pause, CloseEnd, AskClose
  <2> QED  BY <1>t, <2>1, <2>2 DEF TailTypeOK
<1>4. CASE Resume(t) \/ CloseBegin(t)
  <2>1. UNCHANGED arrived /\ Broadcast(t)
    BY <1>4 DEF Resume, CloseBegin
  <2>2. UNCHANGED close \/ close' = [close EXCEPT ![t] = "waiting"]
    BY <1>4 DEF Resume, CloseBegin
  <2>3. follower'[u] = follower[u] \/ (follower[u] = "parked" /\ follower'[u] = "top")
    BY <2>1 DEF Broadcast, TailTypeOK
  <2> QED  BY <1>t, <2>1, <2>2, <2>3 DEF TailTypeOK
<1> QED  BY <1>1, <1>2, <1>3, <1>4 DEF Follow, Close

\* A tail that was made and that the bar has left, or is leaving, has been asked to close.
LeftIsAsked ==
  \A t \in Tails : follower[t] # "unborn" /\ (tail # t \/ leaving = t) => close[t] # "no"

\* The bar never takes a record for drawn that has not arrived.
NotAhead == tail # NoTail => at <= arrived[tail]

\* What the grid of an open tab draws is the log as it was read, or the tail the bar has;
\* the tail, unless a read again has answered since Follow.
DrawsItsTail ==
  /\ ~gone /\ fetcher # "log" => fetcher = tail
  /\ tail # NoTail /\ ~overtaken => fetcher = tail

BarTypes ==
  /\ tail \in Tails \cup {NoTail} /\ leaving \in Tails \cup {NoTail}
  /\ at \in Nat \cup {-1}
  /\ ui \in {"ready", "say", "closing"} /\ (ui = "closing" <=> leaving # NoTail)
  /\ next \in {"nothing", "follow", "browse"}
  /\ fetcher \in Tails \cup {"log"}
  /\ footer \in {"count", "doing", "following", "stopped"}
  /\ gone \in BOOLEAN /\ (gone => ui = "ready") /\ overtaken \in BOOLEAN

\* The tail being left is the bar's, and the bar's was made.
Leaving == /\ leaving # NoTail => leaving = tail
           /\ tail # NoTail => follower[tail] # "unborn"

Waits == BarTypes /\ Leaving /\ LeftIsAsked /\ NotAhead /\ DrawsItsTail

\* A goroutine that waits for a paused tail waits for something: it would have seen that
\* the tail was resumed or closed before, and is woken by what does either.
ParkedIsPaused == \A u \in Tails : follower[u] = "parked" => paused[u] /\ ~closed[u]

LEMMA ParkedStep ==
  ASSUME TailTypeOK, ParkedIsPaused, NEW t \in Tails, TailStep(t)
  PROVE  ParkedIsPaused'
<1> SUFFICES ASSUME NEW u \in Tails, follower'[u] = "parked" PROVE paused'[u] /\ ~closed'[u]
  BY DEF ParkedIsPaused
<1> USE DEF Go, windowVars, flagVars
<1>1. CASE NewTail(t) \/ NextRecord(t) \/ NextFails(t)
  <2>1. UNCHANGED <<paused, closed>>
    BY <1>1 DEF NewTail, NextRecord, NextFails
  <2>2. \E place \in {"top", "got", "broke", "gone"} : follower' = [follower EXCEPT ![t] = place]
    BY <1>1 DEF NewTail, NextRecord, NextFails
  <2> QED  BY <2>1, <2>2 DEF ParkedIsPaused, TailTypeOK
<1>2. CASE FollowFails(t) \/ Keep(t)
  <2>1. UNCHANGED <<paused, closed>>
    BY <1>2 DEF FollowFails, Keep
  <2>2. \E place \in {"top", "ended"} : follower' = [follower EXCEPT ![t] = place]
    BY <1>2 DEF FollowFails, Keep
  <2> QED  BY <2>1, <2>2 DEF ParkedIsPaused, TailTypeOK
<1>3. CASE Look(t)
  <2>1. UNCHANGED <<paused, closed>>
    BY <1>3 DEF Look
  <2>2. u = t => paused[t] /\ ~closed[t]
    BY <1>3 DEF Look, TailTypeOK
  <2>3. u # t => follower[u] = "parked"
    BY <1>3 DEF Look, TailTypeOK
  <2> QED  BY <2>1, <2>2, <2>3 DEF ParkedIsPaused
<1>4. CASE Pause(t) \/ CloseEnd(t) \/ AskClose(t)
  <2>1. UNCHANGED <<follower, closed>> /\ (UNCHANGED paused \/ paused' = [paused EXCEPT ![t] = TRUE])
    BY <1>4 DEF Pause, CloseEnd, AskClose
  <2> QED  BY <2>1 DEF ParkedIsPaused, TailTypeOK
<1>5. CASE Resume(t) \/ CloseBegin(t)
  <2>1. Broadcast(t)
    BY <1>5 DEF Resume, CloseBegin
  <2>2. u # t /\ follower[u] = "parked"
    BY <2>1 DEF Broadcast, TailTypeOK
  <2>3. paused'[u] = paused[u] /\ closed'[u] = closed[u]
    BY <1>5, <2>2 DEF Resume, CloseBegin, TailTypeOK
  <2> QED  BY <2>2, <2>3 DEF ParkedIsPaused
<1> QED  BY <1>1, <1>2, <1>3, <1>4, <1>5 DEF TailStep

LEMMA WaitsInit ==
  ASSUME BarInit PROVE Waits
  BY NoTailAssumption DEF BarInit, TailInit, Waits, BarTypes, Leaving, LeftIsAsked, NotAhead,
                          DrawsItsTail

\* A new tail is the bar's; the one it had, if any, has been released.
LEMMA StartWaits ==
  ASSUME TailTypeOK, Waits, NEW t \in Tails, StartFollowing(t),
         tail = NoTail \/ close[tail] = "released", leaving' = NoTail,
         next' \in {"nothing", "follow", "browse"}, ~gone
  PROVE  Waits'
<1> USE NoTailAssumption DEF StartFollowing, NewTail, Go, windowVars, flagVars
<1>1. BarTypes'
  BY DEF Waits, BarTypes
<1>2. follower' = [follower EXCEPT ![t] = "top"] /\ UNCHANGED <<close, arrived>>
  OBVIOUS
<1>3. ASSUME NEW u \in Tails, follower'[u] # "unborn", tail' # u \/ leaving' = u
      PROVE  close'[u] # "no"
  <2>1. u # t /\ follower'[u] = follower[u]
    BY <1>2, <1>3 DEF TailTypeOK
  <2>2. CASE tail = u
    BY <1>2, <2>2
  <2>3. CASE tail # u
    BY <1>2, <1>3, <2>1, <2>3 DEF Waits, LeftIsAsked
  <2> QED  BY <2>2, <2>3
<1>4. LeftIsAsked'
  BY <1>3 DEF LeftIsAsked
<1>5. Leaving'
  BY <1>2 DEF Leaving, TailTypeOK
<1>6. NotAhead'
  <2>1. arrived[t] \in Nat
    BY DEF TailTypeOK
  <2> QED  BY <1>2, <2>1 DEF NotAhead
<1>7. DrawsItsTail'
  BY DEF DrawsItsTail
<1> QED  BY <1>1, <1>4, <1>5, <1>6, <1>7 DEF Waits

\* The bar keeps its tail, and whatever it begins to leave is asked to close.
LEMMA SameTailWaits ==
  ASSUME TailTypeOK, Waits, BarTypes', tail' = tail, UNCHANGED <<gone>>,
         leaving' = leaving \/ (leaving' = tail /\ close'[tail] # "no"),
         UNCHANGED <<fetcher, overtaken>> \/ (fetcher' = "log" /\ overtaken' = (tail # NoTail)),
         at' = at \/ at' = arrived'[tail],
         UNCHANGED tailVars \/ \E t \in Tails :
            Follow(t) \/ Close(t) \/ Pause(t) \/ Resume(t) \/ AskClose(t)
  PROVE  Waits'
<1>1. ASSUME NEW u \in Tails
      PROVE  /\ close[u] # "no" => close'[u] # "no"
             /\ follower'[u] = "unborn" <=> follower[u] = "unborn"
             /\ arrived'[u] >= arrived[u]
  <2>1. CASE UNCHANGED tailVars
    <3>1. arrived[u] \in Nat
      BY DEF TailTypeOK
    <3> QED  BY <2>1, <3>1 DEF tailVars, windowVars, flagVars
  <2> QED  BY <2>1, TailsGoOn
<1>2. LeftIsAsked'
  <2> SUFFICES ASSUME NEW u \in Tails, follower'[u] # "unborn", tail' # u \/ leaving' = u
               PROVE  close'[u] # "no"
    BY DEF LeftIsAsked
  <2>1. CASE leaving' = leaving
    BY <1>1, <2>1 DEF Waits, LeftIsAsked
  <2>2. CASE leaving' = tail /\ close'[tail] # "no"
    BY <1>1, <2>2 DEF Waits, LeftIsAsked
  <2> QED  BY <2>1, <2>2
<1>3. Leaving'
  BY <1>1 DEF Waits, Leaving, BarTypes
<1>4. NotAhead'
  <2> SUFFICES ASSUME tail # NoTail PROVE at' <= arrived'[tail]
    BY DEF NotAhead
  <2>1. tail \in Tails /\ at \in Int /\ at' \in Int
    BY DEF Waits, BarTypes
  <2>2. at <= arrived[tail] /\ arrived'[tail] >= arrived[tail] /\ arrived[tail] \in Nat
    BY <1>1, <2>1 DEF Waits, NotAhead, TailTypeOK
  <2>3. CASE at' = arrived'[tail]
    BY <2>1, <2>3
  <2>4. CASE at' = at
    <3>1. arrived'[tail] \in Int
      <4>1. TailTypeOK'
        BY TailTypes DEF TailStep, Follow, Close, TailTypeOK, tailVars, windowVars, flagVars
      <4> QED  BY <2>1, <4>1 DEF TailTypeOK
    <3> QED  BY <2>1, <2>2, <2>4, <3>1
  <2> QED  BY <2>3, <2>4
<1>5. DrawsItsTail'
  BY DEF Waits, DrawsItsTail
<1> QED  BY <1>2, <1>3, <1>4, <1>5 DEF Waits

\* The bar has no tail any more: the one it had was asked to close.
LEMMA NoTailWaits ==
  ASSUME TailTypeOK, Waits, BarTypes', tail' = NoTail, leaving' = NoTail,
         tail \in Tails => close'[tail] # "no",
         \A u \in Tails : close[u] # "no" => close'[u] # "no",
         UNCHANGED <<follower>>, gone' \/ fetcher' = "log"
  PROVE  Waits'
<1>1. LeftIsAsked'
  BY DEF Waits, LeftIsAsked
<1> QED  BY <1>1 DEF Waits, Leaving, NotAhead, DrawsItsTail

LEMMA WaitsStep ==
  ASSUME TailTypeOK, Waits, [BarNext]_streamVars PROVE Waits'
<1> USE NoTailAssumption
<1>t. BarTypes
  BY DEF Waits
<1>1. ASSUME NEW t \in Tails, Start(t) PROVE Waits'
  <2>1. StartFollowing(t) /\ tail = NoTail /\ UNCHANGED <<leaving, next>> /\ ui = "ready" /\ ~gone
    BY <1>1 DEF Start, Ready
  <2>2. leaving = NoTail /\ next \in {"nothing", "follow", "browse"}
    BY <1>t, <2>1 DEF BarTypes
  <2> QED  BY <2>1, <2>2, StartWaits
<1>2. ASSUME NEW t \in Tails, Reading(t) PROVE Waits'
  <2>1. UNCHANGED <<tail, at, ui, leaving, next, fetcher, footer, gone, overtaken>>
    BY <1>2 DEF Reading, barVars
  <2>2. BarTypes'
    BY <1>t, <2>1 DEF BarTypes
  <2>3. Follow(t) \/ Close(t)
    BY <1>2 DEF Reading
  <2> QED  BY <2>1, <2>2, <2>3, SameTailWaits
<1>3. ASSUME NEW then \in {"nothing", "follow", "browse"}, Ready, tail # NoTail, Unfollow(then)
      PROVE  Waits'
  <2>1. BarTypes'
    BY <1>3, <1>t DEF Ready, Unfollow, BarTypes
  <2>2. tail \in Tails /\ AskClose(tail)
    BY <1>3, <1>t DEF BarTypes, Unfollow, AskClose
  <2>3. close'[tail] # "no"
    BY <1>3, <2>2 DEF Unfollow, TailTypeOK
  <2>4. leaving' = tail /\ UNCHANGED <<tail, at, fetcher, gone, overtaken>>
    BY <1>3 DEF Unfollow
  <2> QED  BY <2>1, <2>2, <2>3, <2>4, SameTailWaits
<1>4. CASE Stop \/ StartAt
  BY <1>3, <1>4 DEF Stop, StartAt
<1>5. CASE PutBack \/ BrowseFrom \/ (FollowFrom /\ tail' = NoTail)
  <2>1. ui = "closing" /\ close[leaving] = "released"
    BY <1>5 DEF PutBack, BrowseFrom, FollowFrom
  <2>2. leaving = tail /\ tail \in Tails
    BY <1>t, <2>1 DEF BarTypes, Waits, Leaving
  <2>3. UNCHANGED tailVars /\ tail' = NoTail /\ leaving' = NoTail /\ fetcher' = "log"
    BY <1>5 DEF PutBack, BrowseFrom, FollowFrom, StartFollowing
  <2>4. BarTypes'
    BY <1>5, <1>t, <2>3 DEF BarTypes, PutBack, BrowseFrom, FollowFrom, StartFollowing, AskBrowse
  <2>5. UNCHANGED <<close, follower>>
    BY <2>3 DEF tailVars, flagVars
  <2> QED  BY <2>1, <2>2, <2>3, <2>4, <2>5, NoTailWaits
<1>6. CASE FollowFrom /\ tail' # NoTail
  <2>1. ui = "closing" /\ close[leaving] = "released" /\ leaving' = NoTail /\ next' = "nothing"
    BY <1>6 DEF FollowFrom
  <2>2. leaving = tail /\ ~gone
    BY <1>t, <2>1 DEF BarTypes, Waits, Leaving
  <2>3. PICK t \in Tails : StartFollowing(t)
    BY <1>6 DEF FollowFrom
  <2> QED  BY <2>1, <2>2, <2>3, StartWaits
<1>7. CASE TogglePause
  <2>1. UNCHANGED <<tail, at, leaving, fetcher, gone, overtaken>> /\ tail \in Tails
    BY <1>7, <1>t DEF TogglePause, BarTypes
  <2>2. Pause(tail) \/ Resume(tail)
    BY <1>7 DEF TogglePause
  <2>3. BarTypes'
    BY <1>7, <1>t DEF TogglePause, BarTypes, Ready
  <2> QED  BY <2>1, <2>2, <2>3, SameTailWaits
<1>8. CASE Redraw
  <2>1. tail \in Tails /\ at' = arrived[tail] /\ UNCHANGED <<tailVars, tail, leaving, fetcher, gone, overtaken>>
    BY <1>8, <1>t DEF Redraw, BarTypes
  <2>2. at' = arrived'[tail] /\ at' \in Nat
    BY <2>1 DEF tailVars, windowVars, TailTypeOK
  <2>3. BarTypes'
    BY <1>8, <1>t, <2>2 DEF Redraw, BarTypes, Ready
  <2> QED  BY <2>1, <2>2, <2>3, SameTailWaits
<1>9. CASE CloseTab
  <2>1. tail' = NoTail /\ gone' = TRUE /\ UNCHANGED <<ui, leaving, follower>> /\ leaving = NoTail
    BY <1>9, <1>t DEF CloseTab, tailVars, BarTypes, Ready
  <2>2. BarTypes'
    BY <1>9, <1>t, <2>1 DEF CloseTab, Ready, BarTypes
  <2>3. UNCHANGED close \/ close' = [close EXCEPT ![tail] = "asked"]
    BY <1>9 DEF CloseTab, tailVars, flagVars
  <2>4. tail # NoTail => close' = [close EXCEPT ![tail] = "asked"]
    BY <1>9 DEF CloseTab
  <2>5. /\ tail \in Tails => close'[tail] # "no"
        /\ \A u \in Tails : close[u] # "no" => close'[u] # "no"
    BY <2>3, <2>4 DEF TailTypeOK
  <2> QED  BY <2>1, <2>2, <2>5, NoTailWaits
<1>10. CASE Say \/ Rebrowse \/ Counted
  <2>1. UNCHANGED <<tailVars, tail, at, leaving, fetcher, gone, overtaken>>
    BY <1>10 DEF Say, Rebrowse, Counted
  <2>2. BarTypes'
    BY <1>10, <1>t DEF Say, Rebrowse, AskBrowse, Counted, BarTypes
  <2> QED  BY <2>1, <2>2, SameTailWaits
<1>11. ASSUME NEW seq \in browsing, Browsed(seq) PROVE Waits'
  <2>1. /\ UNCHANGED <<tailVars, tail, at, leaving, gone>>
        /\ UNCHANGED <<fetcher, overtaken>> \/ (fetcher' = "log" /\ overtaken' = (tail # NoTail))
    BY <1>11 DEF Browsed
  <2>2. BarTypes'
    BY <1>11, <1>t DEF Browsed, BarTypes
  <2> QED  BY <2>1, <2>2, SameTailWaits
<1>12. CASE UNCHANGED streamVars
  <2>1. UNCHANGED <<tailVars, tail, at, ui, leaving, next, fetcher, footer, gone, overtaken>>
    BY <1>12 DEF streamVars, barVars
  <2>2. BarTypes'
    BY <1>t, <2>1 DEF BarTypes
  <2> QED  BY <2>1, <2>2, SameTailWaits
<1> QED
  BY <1>1, <1>2, <1>4, <1>5, <1>6, <1>7, <1>8, <1>9, <1>10, <1>11, <1>12 DEF BarNext

\* The requests in flight and the counts they led to are no more than were made.
Counts ==
  /\ browseSeq \in 0 .. MaxBrowse
  /\ browsing \subseteq 1 .. browseSeq /\ IsFiniteSet(browsing)
  /\ counting \in Nat /\ counting + Cardinality(browsing) <= browseSeq

LEMMA CountsStep ==
  ASSUME Counts, [BarNext]_streamVars PROVE Counts'
<1> USE BoundAssumption
<1>s. /\ browseSeq \in Nat /\ browseSeq <= MaxBrowse /\ browsing \subseteq 1 .. browseSeq
      /\ IsFiniteSet(browsing) /\ Cardinality(browsing) \in Nat
      /\ counting \in Nat /\ counting + Cardinality(browsing) <= browseSeq
  BY FS_CardinalityType DEF Counts
<1>1. CASE UNCHANGED <<browseSeq, browsing, counting>>
  BY <1>1, <1>s DEF Counts
<1>2. CASE AskBrowse /\ UNCHANGED counting
  <2>1. /\ browseSeq < MaxBrowse /\ browseSeq' = browseSeq + 1
        /\ browsing' = browsing \cup {browseSeq + 1}
    BY <1>2 DEF AskBrowse
  <2>2. IsFiniteSet(browsing') /\ Cardinality(browsing') = Cardinality(browsing) + 1
    <3>1. browseSeq + 1 \notin browsing
      BY <1>s
    <3> QED  BY <1>s, <2>1, <3>1, FS_AddElement
  <2>3. browsing' \subseteq 1 .. browseSeq'
    BY <1>s, <2>1
  <2>4. browseSeq' \in 0 .. MaxBrowse
    BY <1>s, <2>1
  <2>5. counting' + Cardinality(browsing') <= browseSeq'
    BY <1>s, <1>2, <2>1, <2>2
  <2> QED  BY <1>s, <1>2, <2>2, <2>3, <2>4, <2>5 DEF Counts
<1>3. ASSUME NEW seq \in browsing, Browsed(seq) PROVE Counts'
  <2>1. /\ browsing' = browsing \ {seq} /\ browseSeq' = browseSeq
        /\ counting' = counting \/ counting' = counting + 1
    BY <1>3 DEF Browsed
  <2>2. IsFiniteSet(browsing') /\ Cardinality(browsing') = Cardinality(browsing) - 1
    BY <1>s, <1>3, <2>1, FS_RemoveElement
  <2>3. counting' \in Nat /\ counting' + Cardinality(browsing') <= browseSeq'
    BY <1>s, <2>1, <2>2
  <2> QED  BY <1>s, <2>1, <2>2, <2>3 DEF Counts
<1>4. CASE Counted
  <2>1. counting' = counting - 1 /\ counting > 0 /\ UNCHANGED <<browseSeq, browsing>>
    BY <1>4 DEF Counted
  <2>2. counting' \in Nat /\ counting' + Cardinality(browsing) <= browseSeq
    BY <1>s, <2>1
  <2> QED  BY <1>s, <2>1, <2>2 DEF Counts
<1>5. CASE Rebrowse \/ BrowseFrom
  BY <1>2, <1>5 DEF Rebrowse, BrowseFrom
<1>6. ASSUME NEW t \in Tails, Start(t) \/ Reading(t)
      PROVE  UNCHANGED <<browseSeq, browsing, counting>>
  BY <1>6 DEF Start, StartFollowing, Reading, barVars
<1>7. CASE Stop \/ StartAt \/ PutBack \/ FollowFrom \/ TogglePause \/ Redraw \/ Say \/ CloseTab
  BY <1>1, <1>7 DEF Stop, StartAt, Unfollow, PutBack, FollowFrom, StartFollowing, TogglePause,
                    Redraw, Say, CloseTab
<1>8. CASE UNCHANGED streamVars
  BY <1>1, <1>8 DEF streamVars, barVars
<1> QED  BY <1>1, <1>3, <1>4, <1>5, <1>6, <1>7, <1>8 DEF BarNext

LEMMA WaitsHold == BarSpec => []Waits
<1>1. BarInit => Waits
  BY WaitsInit
<1>2. BarInv /\ Waits /\ [BarNext]_streamVars => Waits'
  BY WaitsStep DEF BarInv
<1> QED  BY <1>1, <1>2, BarInvHolds, PTL DEF BarSpec

\* A tail the bar has left, by Stop, by Start At or with its tab, was asked to close, so
\* that nothing keeps its stream once its goroutine ends: what TailsAreReleased rests on.
THEOREM NoTailIsLost == BarSpec => []LeftIsAsked
<1>1. Waits => LeftIsAsked
  BY DEF Waits
<1> QED  BY <1>1, WaitsHold, PTL

\* A redraw is due until everything that arrived is drawn: the bar's count never runs
\* ahead of its tail's, whatever tail it has moved on to, and the grid reads that tail but
\* where a read again has answered since Follow; what RecordsAreDrawn rests on.
THEOREM NothingDrawnAhead == BarSpec => [](NotAhead /\ DrawsItsTail)
<1>1. Waits => NotAhead /\ DrawsItsTail
  BY DEF Waits
<1> QED  BY <1>1, WaitsHold, PTL

\* The bar's variables and its tails' keep their types, however often the object is
\* browsed again; the window waits for a tail exactly while it is closing one.
THEOREM BarTypeCorrect == BarSpec => []BarTypeOK
<1>1. BarInit => Counts
  <2>1. IsFiniteSet({}) /\ Cardinality({}) = 0
    BY FS_EmptySet
  <2> QED  BY <2>1, BoundAssumption DEF BarInit, Counts
<1>2. Counts /\ [BarNext]_streamVars => Counts'
  BY CountsStep
<1>3. Counts => counting \in 0 .. MaxBrowse
  <2> SUFFICES ASSUME Counts PROVE counting \in 0 .. MaxBrowse
    OBVIOUS
  <2>1. Cardinality(browsing) \in Nat
    BY FS_CardinalityType DEF Counts
  <2> QED  BY <2>1, BoundAssumption DEF Counts
<1>4. BarInv /\ Waits /\ Counts => BarTypeOK
  BY <1>3 DEF BarInv, Waits, BarTypes, Counts, BarTypeOK
<1> QED  BY <1>1, <1>2, <1>4, BarInvHolds, WaitsHold, PTL DEF BarSpec

\* No tail sleeps through being resumed or closed: what wakes its goroutine and what it
\* looks at before it sleeps agree (follow, Resume, Close under the lock).
THEOREM NoTailOversleeps == BarSpec => []ParkedIsPaused
<1>1. BarInit => ParkedIsPaused
  BY DEF BarInit, TailInit, ParkedIsPaused
<1>2. BarInv /\ ParkedIsPaused /\ [BarNext]_streamVars => ParkedIsPaused'
  <2> SUFFICES ASSUME BarInv, ParkedIsPaused, [BarNext]_streamVars PROVE ParkedIsPaused'
    OBVIOUS
  <2>1. UNCHANGED tailVars \/ \E t \in Tails : TailStep(t)
    BY BarStep DEF BarInv
  <2>2. CASE UNCHANGED tailVars
    BY <2>2 DEF ParkedIsPaused, tailVars, flagVars
  <2> QED  BY <2>1, <2>2, ParkedStep DEF BarInv
<1> QED  BY <1>1, <1>2, BarInvHolds, PTL DEF BarSpec

=============================================================================
