-------------------------- MODULE GridModel_proofs --------------------------
(***************************************************************************)
(* What holds of the windowed row cache for every size of page and window, *)
(* any number of fetches at once, any sources and any changes to them.     *)
(***************************************************************************)
EXTENDS GridModel, FiniteSetTheorems, WellFoundedInduction, TLAPS

-----------------------------------------------------------------------------
(***************************************************************************)
(* Sequences, the way lru uses them                                        *)
(***************************************************************************)
LEMMA LeastOf ==
  ASSUME NEW T, T \subseteq Nat, T # {}
  PROVE  \E x \in T : \A y \in T : x <= y
<1>1. PICK x \in T : \A y \in T : ~(<<y, x>> \in OpToRel(<, Nat))
  BY WFMin, NatLessThanWellFounded
<1>2. \A y \in T : ~(y < x)
  BY <1>1 DEF OpToRel
<1> QED
  BY <1>2

LEMMA PagesFinite == IsFiniteSet(Pages)
BY FS_Interval, BoundsAssumption DEF Pages

\* Eviction finds a place to stop at: one where the pages fit, or the end of lru.
LEMMA EvictedToFits ==
  ASSUME NEW order \in Seq(Pages), NEW held \in SUBSET Pages
  PROVE  /\ EvictedTo(order, held) \in 0..Len(order)
         /\ \/ Cardinality(held \ Range(SubSeq(order, 1, EvictedTo(order, held)))) <= MaxResident
            \/ EvictedTo(order, held) = Len(order)
<1> DEFINE left(i) == Cardinality(held \ Range(SubSeq(order, 1, i)))
           T == {i \in 0..Len(order) : left(i) <= MaxResident \/ i = Len(order)}
<1>1. \A i : left(i) \in Nat
  <2> SUFFICES ASSUME NEW i PROVE left(i) \in Nat
    OBVIOUS
  <2>1. IsFiniteSet(held \ Range(SubSeq(order, 1, i)))
    <3>1. held \ Range(SubSeq(order, 1, i)) \subseteq Pages
      OBVIOUS
    <3> QED
      BY <3>1, PagesFinite, FS_Subset
  <2> QED
    BY <2>1, FS_CardinalityType
<1>2. Len(order) \in Nat
  OBVIOUS
<1> HIDE DEF left
<1>3. T \subseteq Nat /\ Len(order) \in T
  BY <1>2
<1>4. PICK x \in T : \A y \in T : x <= y
  BY <1>3, LeastOf
<1>5. \A j \in 0..(x - 1) : left(j) > MaxResident
  <2> SUFFICES ASSUME NEW j \in 0..(x - 1) PROVE left(j) > MaxResident
    OBVIOUS
  <2>1. x \in 0..Len(order)
    BY <1>4
  <2>2. j \in 0..Len(order) /\ ~(x <= j)
    BY <1>2, <2>1
  <2>3. ~(left(j) <= MaxResident)
    BY <1>4, <2>2
  <2> QED
    BY <1>1, <2>3, SizesAssumption
<1>6. \E i \in 0..Len(order) : /\ left(i) <= MaxResident \/ i = Len(order)
                               /\ \A j \in 0..(i - 1) : left(j) > MaxResident
  BY <1>4, <1>5
<1>7. EvictedTo(order, held) = CHOOSE i \in 0..Len(order) :
                               /\ left(i) <= MaxResident \/ i = Len(order)
                               /\ \A j \in 0..(i - 1) : left(j) > MaxResident
  BY DEF EvictedTo, left
<1>8. /\ EvictedTo(order, held) \in 0..Len(order)
      /\ left(EvictedTo(order, held)) <= MaxResident \/ EvictedTo(order, held) = Len(order)
  BY <1>6, <1>7
<1> QED
  BY <1>8 DEF left

\* What is cut off the front and what is left hold everything between them.
LEMMA CutInTwo ==
  ASSUME NEW order \in Seq(Pages), NEW i \in 0..Len(order)
  PROVE  /\ SubSeq(order, 1, i) \in Seq(Pages) /\ SubSeq(order, i + 1, Len(order)) \in Seq(Pages)
         /\ Range(order) \subseteq Range(SubSeq(order, 1, i)) \cup Range(SubSeq(order, i + 1, Len(order)))
         /\ i = Len(order) => Range(SubSeq(order, 1, i)) = Range(order)
<1>1. /\ SubSeq(order, 1, i) \in Seq(Pages) /\ Len(SubSeq(order, 1, i)) = i
      /\ \A j \in 1..i : SubSeq(order, 1, i)[j] = order[j]
  OBVIOUS
<1>2. /\ SubSeq(order, i + 1, Len(order)) \in Seq(Pages)
      /\ Len(SubSeq(order, i + 1, Len(order))) = Len(order) - i
      /\ \A j \in 1..(Len(order) - i) : SubSeq(order, i + 1, Len(order))[j] = order[j + i]
  OBVIOUS
<1> DEFINE front == SubSeq(order, 1, i)
           rest  == SubSeq(order, i + 1, Len(order))
<1>3. ASSUME NEW k \in 1..Len(order) PROVE order[k] \in Range(front) \cup Range(rest)
  <2>1. CASE k <= i
    <3>1. k \in 1..i /\ order[k] = front[k] /\ k \in DOMAIN front
      BY <1>1, <2>1
    <3> QED
      BY <3>1 DEF Range
  <2>2. CASE k > i
    <3>1. k - i \in 1..(Len(order) - i) /\ (k - i) + i = k
      BY <2>2
    <3>2. rest[k - i] = order[k] /\ k - i \in DOMAIN rest
      BY <1>2, <3>1
    <3> HIDE DEF rest
    <3>3. rest[k - i] \in Range(rest)
      BY <3>2 DEF Range
    <3> QED
      BY <3>2, <3>3
  <2> QED
    BY <2>1, <2>2
<1>4. Range(order) \subseteq Range(front) \cup Range(rest)
  <2> SUFFICES ASSUME NEW x \in Range(order) PROVE x \in Range(front) \cup Range(rest)
    OBVIOUS
  <2>1. PICK k \in 1..Len(order) : x = order[k]
    BY DEF Range
  <2> QED
    BY <1>3, <2>1
<1>5. ASSUME i = Len(order) PROVE Range(SubSeq(order, 1, i)) = Range(order)
  BY <1>1, <1>5 DEF Range
<1> QED
  BY <1>1, <1>2, <1>4, <1>5

LEMMA AppendRange ==
  ASSUME NEW s \in Seq(Pages), NEW p \in Pages
  PROVE  Append(s, p) \in Seq(Pages) /\ Range(s) \cup {p} \subseteq Range(Append(s, p))
<1>1. /\ Append(s, p) \in Seq(Pages) /\ Len(Append(s, p)) = Len(s) + 1
      /\ \A j \in 1..Len(s) : Append(s, p)[j] = s[j]
      /\ Append(s, p)[Len(s) + 1] = p
  OBVIOUS
<1>2. Len(s) \in Nat /\ DOMAIN s = 1..Len(s) /\ DOMAIN Append(s, p) = 1..(Len(s) + 1)
  BY <1>1
<1>3. Len(s) + 1 \in 1..(Len(s) + 1) /\ \A j \in 1..Len(s) : j \in 1..(Len(s) + 1)
  BY <1>2
<1>4. Range(s) \subseteq Range(Append(s, p))
  BY <1>1, <1>2, <1>3, Zenon DEF Range
<1>5. p \in Range(Append(s, p))
  BY <1>1, <1>2, <1>3, Zenon DEF Range
<1> QED
  BY <1>1, <1>4, <1>5

LEMMA ConcatRange ==
  ASSUME NEW s \in Seq(Pages), NEW t \in Seq(Pages)
  PROVE  s \o t \in Seq(Pages) /\ Range(s) \cup Range(t) \subseteq Range(s \o t)
<1>1. /\ s \o t \in Seq(Pages) /\ Len(s \o t) = Len(s) + Len(t)
      /\ \A j \in 1..Len(s) : (s \o t)[j] = s[j]
      /\ \A j \in 1..Len(t) : (s \o t)[Len(s) + j] = t[j]
  OBVIOUS
<1>2. /\ Len(s) \in Nat /\ Len(t) \in Nat /\ DOMAIN s = 1..Len(s) /\ DOMAIN t = 1..Len(t)
      /\ DOMAIN (s \o t) = 1..(Len(s) + Len(t))
  BY <1>1
<1>3. \A j \in 1..Len(s) : j \in 1..(Len(s) + Len(t))
  BY <1>2
<1>4. \A j \in 1..Len(t) : Len(s) + j \in 1..(Len(s) + Len(t))
  BY <1>2
<1>5. Range(s) \subseteq Range(s \o t)
  BY <1>1, <1>2, <1>3, Zenon DEF Range
<1>6. Range(t) \subseteq Range(s \o t)
  BY <1>1, <1>2, <1>4, Zenon DEF Range
<1> QED
  BY <1>1, <1>5, <1>6

\* The last use of a page is one of its uses.
LEMMA LastUseIsUse ==
  ASSUME lru \in Seq(Pages), NEW p \in Pages
  PROVE  LastUse(p) \in 0..Len(lru) /\ (LastUse(p) # 0 => lru[LastUse(p)] = p)
<1> DEFINE I == {i \in 1..Len(lru) : lru[i] = p}
<1>1. LastUse(p) = IF I # {} THEN Max(I) ELSE 0
  BY DEF LastUse, SelectLastInSeq
<1>2. Len(lru) \in Nat
  OBVIOUS
<1>3. ASSUME I # {} PROVE Max(I) \in I
  <2> DEFINE T == {Len(lru) - i : i \in I}
  <2>1. T \subseteq Nat /\ T # {}
    BY <1>2, <1>3
  <2> HIDE DEF T
  <2>2. PICK x \in T : \A y \in T : x <= y
    BY <2>1, LeastOf
  <2> USE DEF T
  <2>3. PICK i \in I : x = Len(lru) - i
    BY <2>2
  <2>4. \A j \in I : i >= j
    <3> SUFFICES ASSUME NEW j \in I PROVE i >= j
      OBVIOUS
    <3>1. Len(lru) - j \in T
      OBVIOUS
    <3>2. Len(lru) - i <= Len(lru) - j
      BY <2>2, <2>3, <3>1
    <3> QED
      BY <1>2, <3>2
  <2> HIDE DEF I
  <2> QED
    BY <2>4 DEF Max
<1> QED
  BY <1>1, <1>2, <1>3

\* A page that is used is put last, and no page is lost from the order.
LEMMA TouchKeeps ==
  ASSUME lru \in Seq(Pages), ui.page \in Pages, Touch
  PROVE  lru' \in Seq(Pages) /\ Range(lru) \subseteq Range(lru')
<1> DEFINE p == ui.page
           i == LastUse(p)
           front == SubSeq(lru, 1, i - 1)
           rest  == SubSeq(lru, i + 1, Len(lru))
<1>1. i \in 0..Len(lru) /\ (i # 0 => lru[i] = p)
  BY LastUseIsUse
<1>2. lru' = Append(IF i = 0 THEN lru ELSE front \o rest, p)
  BY DEF Touch, RemoveAt
<1>3. CASE i = 0
  BY <1>2, <1>3, AppendRange
<1>4. CASE i # 0
  <2>1. i \in 1..Len(lru)
    BY <1>1, <1>4
  <2>2. front \in Seq(Pages) /\ Len(front) = i - 1 /\ \A j \in 1..(i - 1) : front[j] = lru[j]
    BY <2>1
  <2>3. /\ rest \in Seq(Pages) /\ Len(rest) = Len(lru) - i
        /\ \A j \in 1..(Len(lru) - i) : rest[j] = lru[j + i]
    BY <2>1
  <2> HIDE DEF front, rest, i
  <2>4. front \o rest \in Seq(Pages) /\ Range(front) \cup Range(rest) \subseteq Range(front \o rest)
    BY <2>2, <2>3, ConcatRange
  <2>5. lru' \in Seq(Pages) /\ Range(front \o rest) \cup {p} \subseteq Range(lru')
    BY <1>2, <1>4, <2>4, AppendRange
  <2>6. ASSUME NEW k \in 1..Len(lru) PROVE lru[k] \in Range(front) \cup Range(rest) \cup {p}
    <3>1. CASE k < i
      <4>1. k \in DOMAIN front /\ front[k] = lru[k]
        BY <2>1, <2>2, <3>1
      <4> QED
        BY <4>1 DEF Range
    <3>2. CASE k = i
      BY <1>1, <1>4, <3>2 DEF i
    <3>3. CASE k > i
      <4>1. k - i \in 1..(Len(lru) - i) /\ (k - i) + i = k
        BY <2>1, <3>3
      <4>2. k - i \in DOMAIN rest /\ rest[k - i] = lru[k]
        BY <2>3, <4>1
      <4>3. rest[k - i] \in Range(rest)
        BY <4>2 DEF Range
      <4> QED
        BY <4>2, <4>3
    <3> QED
      BY <2>1, <3>1, <3>2, <3>3
  <2>7. Range(lru) \subseteq Range(front) \cup Range(rest) \cup {p}
    <3> SUFFICES ASSUME NEW x \in Range(lru) PROVE x \in Range(front) \cup Range(rest) \cup {p}
      OBVIOUS
    <3>1. PICK k \in 1..Len(lru) : x = lru[k]
      BY DEF Range
    <3> QED
      BY <2>6, <3>1
  <2> QED
    BY <2>4, <2>5, <2>7
<1> QED
  BY <1>3, <1>4

-----------------------------------------------------------------------------
(***************************************************************************)
(* The types                                                               *)
(***************************************************************************)
LEMMA RowsOnType ==
  ASSUME TypeOK, NEW s \in Sources, NEW p \in Pages
  PROVE  RowsOn(s, p) \in 0..PageSize
<1>1. SizeAt[s][version] \in Nat /\ PageSize \in Nat /\ p \in Nat
  BY SourcesAssumption, SizesAssumption, BoundsAssumption DEF TypeOK, Pages
<1>2. p * PageSize \in Nat
  BY <1>1
<1> DEFINE reach == p * PageSize
<1>3. reach \in Nat
  BY <1>2
<1> HIDE DEF reach
<1>4. RowsOn(s, p) = LET left == SizeAt[s][version] - reach
                     IN IF left < 0 THEN 0 ELSE IF left > PageSize THEN PageSize ELSE left
  BY DEF RowsOn, reach
<1> QED
  BY <1>1, <1>3, <1>4

LEMMA IdleTypes ==
  /\ IdleFetch \in FetchRecord /\ IdleFetch.step = "idle"
  /\ IdleCount \in CountRecord
  /\ AtRest \in [at : {"idle", "touch", "schedule", "swap"}, page : Pages]
<1>1. (CHOOSE s \in Sources : TRUE) \in Sources
  BY SourcesAssumption
<1>2. 0 \in Pages /\ 0 \in 0..MaxVersion /\ 0 \in 0..PageSize /\ Unknown \in Int
  BY BoundsAssumption, SizesAssumption DEF Pages, Unknown
<1> QED
  BY <1>1, <1>2 DEF IdleFetch, IdleCount, AtRest, FetchRecord, CountRecord

\* The pages, the order and the total as a page that counts leaves them.
LEMMA LandTypes ==
  ASSUME TypeOK, NEW f \in Fetches, LandCurrent(f), fetch[f] \in FetchRecord
  PROVE  /\ pages' \in [Pages -> PageRecord \cup {Absent}]
         /\ lru' \in Seq(Pages) /\ inflight' \subseteq Pages
         /\ total' \in Nat \cup {Unknown} /\ seen' \in Nat
         /\ derived' \in BOOLEAN /\ (derived' => total' # Unknown)
         /\ kept' \in {"no", "kept", "uncounted"}
<1> DEFINE p     == fetch[f].page
           order == Append(lru, p)
           out   == EvictedTo(order, ResidentPages \cup {p})
           gone  == Range(SubSeq(order, 1, out))
           page  == [src |-> fetch[f].src, ver |-> fetch[f].ver, n |-> fetch[f].n]
<1>1. inflight' \subseteq Pages
  BY DEF LandCurrent, TypeOK
<1>2. CASE ~fetch[f].ok
  BY <1>1, <1>2 DEF LandCurrent, TypeOK, size
<1>3. CASE fetch[f].ok
  <2>1. p \in Pages /\ page \in PageRecord
    BY DEF FetchRecord, PageRecord
  <2>2. order \in Seq(Pages)
    BY <2>1, AppendRange DEF TypeOK
  <2>3. ResidentPages \cup {p} \in SUBSET Pages
    BY <2>1 DEF ResidentPages
  <2> HIDE DEF order
  <2>4. out \in 0..Len(order)
    BY <2>2, <2>3, EvictedToFits
  <2> HIDE DEF out
  <2>5. SubSeq(order, out + 1, Len(order)) \in Seq(Pages)
    BY <2>2, <2>4, CutInTwo
  <2>6. lru' = SubSeq(order, out + 1, Len(order))
    BY <1>3 DEF LandCurrent, order, out
  <2>7. pages' = [q \in Pages |-> IF q \in gone THEN Absent ELSE IF q = p THEN page ELSE pages[q]]
    BY <1>3 DEF LandCurrent, order, out
  <2> HIDE DEF gone, page, p
  <2>8. pages' \in [Pages -> PageRecord \cup {Absent}]
    BY <2>1, <2>7 DEF TypeOK
  <2>9. NoteReach(fetch[f].page, fetch[f].n)
    BY <1>3 DEF LandCurrent
  <2>10. fetch[f].page * PageSize + fetch[f].n \in Nat
    <3>1. fetch[f].page \in Nat /\ fetch[f].n \in Nat /\ PageSize \in Nat
      BY BoundsAssumption, SizesAssumption DEF FetchRecord, Pages
    <3> QED
      BY <3>1
  <2> DEFINE reach == fetch[f].page * PageSize + fetch[f].n
  <2>11. /\ seen' = IF reach > seen THEN reach ELSE seen
         /\ IF fetch[f].n < PageSize /\ reach # total
            THEN total' = reach /\ derived' = TRUE
            ELSE UNCHANGED <<total, derived>>
    BY <2>9 DEF NoteReach
  <2>12. reach \in Nat
    BY <2>10
  <2> HIDE DEF reach
  <2>13. reach # Unknown
    BY <2>12 DEF Unknown
  <2>14. seen' \in Nat
    BY <2>11, <2>12 DEF TypeOK
  <2>15. total' \in Nat \cup {Unknown} /\ derived' \in BOOLEAN /\ (derived' => total' # Unknown)
    BY <2>11, <2>12, <2>13 DEF TypeOK
  <2>16. kept' \in {"no", "kept", "uncounted"}
    BY <2>9 DEF NoteReach, TypeOK
  <2> QED
    BY <1>1, <2>5, <2>6, <2>8, <2>14, <2>15, <2>16
<1> QED
  BY <1>2, <1>3
LEMMA TypeInit == Init => TypeOK
<1> SUFFICES ASSUME Init PROVE TypeOK
  OBVIOUS
<1>1. version \in 0..MaxVersion /\ base \in 0..MaxVersion
  BY BoundsAssumption DEF Init
<1>2. pages \in [Pages -> PageRecord \cup {Absent}]
  BY DEF Init
<1>3. fetch \in [Fetches -> FetchRecord]
  BY IdleTypes DEF Init
<1>4. counting \in CountRecord
  BY IdleTypes DEF Init
<1>5. ui \in [at : {"idle", "touch", "schedule", "swap"}, page : Pages]
  BY IdleTypes DEF Init
<1>6. lru \in Seq(Pages) /\ inflight \subseteq Pages
  BY DEF Init
<1>7. src \in Sources /\ gen \in Nat
  BY DEF Init
<1>8. total \in Nat \cup {Unknown} /\ seen \in Nat /\ derived = FALSE /\ kept = "no"
  BY DEF Init
<1> QED
  BY <1>1, <1>2, <1>3, <1>4, <1>5, <1>6, <1>7, <1>8 DEF TypeOK

LEMMA TypeStep == TypeOK /\ [Next]_vars => TypeOK'
<1> SUFFICES ASSUME TypeOK, [Next]_vars PROVE TypeOK'
  OBVIOUS
<1> USE DEF cache, size
<1>1. ASSUME NEW q \in Pages, Row(q) PROVE TypeOK'
  <2>1. ui' \in [at : {"idle", "touch", "schedule", "swap"}, page : Pages]
    BY <1>1 DEF Row
  <2> QED
    BY <1>1, <2>1 DEF Row, TypeOK
<1>2. CASE Touch
  <2>1. lru' \in Seq(Pages)
    BY <1>2, TouchKeeps DEF TypeOK
  <2>2. ui' \in [at : {"idle", "touch", "schedule", "swap"}, page : Pages]
    BY <1>2, IdleTypes DEF Touch
  <2> QED
    BY <1>2, <2>1, <2>2 DEF Touch, TypeOK
<1>3. CASE Schedule
  <2>1. ui' \in [at : {"idle", "touch", "schedule", "swap"}, page : Pages]
    BY <1>3, IdleTypes DEF Schedule
  <2>2. inflight' \subseteq Pages
    BY <1>3 DEF Schedule, TypeOK
  <2>3. fetch' \in [Fetches -> FetchRecord]
    <3> DEFINE r == [IdleFetch EXCEPT !.step = "ask", !.page = ui.page, !.gen = gen, !.src = src]
    <3>1. r \in FetchRecord
      BY IdleTypes DEF TypeOK, FetchRecord
    <3>2. fetch' = fetch \/ \E f \in Fetches : fetch' = [fetch EXCEPT ![f] = r]
      BY <1>3 DEF Schedule
    <3> HIDE DEF r
    <3> QED
      BY <3>1, <3>2 DEF TypeOK
  <2> QED
    BY <1>3, <2>1, <2>2, <2>3 DEF Schedule, TypeOK
<1>4. ASSUME NEW f \in Fetches, Answer(f) PROVE TypeOK'
  <2>1. fetch[f] \in FetchRecord
    BY DEF TypeOK
  <2>2. RowsOn(fetch[f].src, fetch[f].page) \in 0..PageSize
    BY <2>1, RowsOnType DEF FetchRecord
  <2>3. fetch' \in [Fetches -> FetchRecord]
    <3>1. PICK ok \in BOOLEAN :
            fetch' = [fetch EXCEPT ![f] = [fetch[f] EXCEPT !.step = "land", !.ok = ok, !.ver = version,
                                                           !.n = RowsOn(fetch[f].src, fetch[f].page)]]
      BY <1>4, <2>1 DEF Answer, TypeOK
    <3> DEFINE r == [fetch[f] EXCEPT !.step = "land", !.ok = ok, !.ver = version,
                                     !.n = RowsOn(fetch[f].src, fetch[f].page)]
    <3>2. r \in FetchRecord
      BY <2>1, <2>2 DEF TypeOK, FetchRecord
    <3> HIDE DEF r
    <3> QED
      BY <3>1, <3>2 DEF TypeOK, r
  <2> QED
    BY <1>4, <2>3 DEF Answer, TypeOK
<1>5. ASSUME NEW f \in Fetches, Land(f) PROVE TypeOK'
  <2>1. fetch' \in [Fetches -> FetchRecord]
    BY <1>5, IdleTypes DEF Land, TypeOK
  <2>2. CASE CurrentFetch(f)
    <3>1. LandCurrent(f) /\ fetch[f] \in FetchRecord
      BY <1>5, <2>2 DEF Land, TypeOK
    <3>2. /\ pages' \in [Pages -> PageRecord \cup {Absent}]
          /\ lru' \in Seq(Pages) /\ inflight' \subseteq Pages
          /\ total' \in Nat \cup {Unknown} /\ seen' \in Nat
          /\ derived' \in BOOLEAN /\ (derived' => total' # Unknown)
          /\ kept' \in {"no", "kept", "uncounted"}
      BY <3>1, LandTypes
    <3> QED
      BY <1>5, <2>1, <3>2 DEF Land, TypeOK
  <2>3. CASE ~CurrentFetch(f)
    BY <1>5, <2>1, <2>3 DEF Land, TypeOK
  <2> QED
    BY <2>2, <2>3
<1>6. CASE LoadCount
  <2>1. counting' \in CountRecord
    BY <1>6, IdleTypes DEF LoadCount, TypeOK, CountRecord
  <2> QED
    BY <1>6, <2>1 DEF LoadCount, TypeOK
<1>7. CASE Counted
  <2>0. counting.src \in Sources /\ version \in 0..MaxVersion
    BY DEF TypeOK, CountRecord
  <2>1. SizeAt[counting.src][version] \in Int /\ Unknown \in Int
    <3>1. SizeAt[counting.src] \in [0..MaxVersion -> Nat]
      BY <2>0, SourcesAssumption
    <3>2. SizeAt[counting.src][version] \in Nat
      BY <2>0, <3>1
    <3>3. Unknown \in Int
      BY DEF Unknown
    <3> QED
      BY <3>2, <3>3
  <2>2. PICK n \in {Unknown, SizeAt[counting.src][version]} :
          counting' = [counting EXCEPT !.step = "land", !.n = n]
    BY <1>7 DEF Counted
  <2>3. n \in Int
    BY <2>1, <2>2
  <2>4. counting' \in CountRecord
    BY <2>2, <2>3 DEF TypeOK, CountRecord
  <2> QED
    BY <1>7, <2>4 DEF Counted, TypeOK
<1>8. CASE LandCount
  <2>1. counting' \in CountRecord
    BY <1>8, IdleTypes DEF LandCount
  <2>2. total' \in Nat \cup {Unknown} /\ derived' \in BOOLEAN /\ (derived' => total' # Unknown)
    <3>1. counting.n \in Int /\ Unknown \notin Nat
      BY DEF TypeOK, CountRecord, Unknown
    <3>2. CASE counting.n >= 0 /\ CurrentCount
      <4>1. counting.n \in Nat /\ total' = counting.n /\ derived' = FALSE
        BY <1>8, <3>1, <3>2 DEF LandCount
      <4> QED
        BY <4>1
    <3>3. CASE ~(counting.n >= 0 /\ CurrentCount)
      <4>1. UNCHANGED <<total, derived>>
        BY <1>8, <3>3 DEF LandCount
      <4> QED
        BY <4>1 DEF TypeOK
    <3> QED
      BY <3>2, <3>3
  <2>3. kept' \in {"no", "kept", "uncounted"}
    BY <1>8 DEF LandCount, TypeOK
  <2> QED
    BY <1>8, <2>1, <2>2, <2>3 DEF LandCount, TypeOK
<1>9. ASSUME DropPages, UNCHANGED <<version, src, fetch, counting>>,
             ui' \in [at : {"idle", "touch", "schedule", "swap"}, page : Pages]
      PROVE  TypeOK'
  <2>1. /\ pages' \in [Pages -> PageRecord \cup {Absent}] /\ lru' \in Seq(Pages)
        /\ inflight' \subseteq Pages /\ gen' \in Nat /\ seen' \in Nat /\ base' \in 0..MaxVersion
    BY <1>9 DEF DropPages, TypeOK
  <2>2. total' \in Nat \cup {Unknown} /\ derived' \in BOOLEAN /\ (derived' => total' # Unknown)
    BY <1>9 DEF DropPages, TypeOK
  <2>3. kept' \in {"no", "kept", "uncounted"}
    BY <1>9 DEF DropPages
  <2> QED
    BY <1>9, <2>1, <2>2, <2>3 DEF TypeOK
<1>10. CASE Invalidate
  BY <1>9, <1>10 DEF Invalidate, TypeOK
<1>11. CASE SetFetcherDrop
  BY <1>9, <1>11, IdleTypes DEF SetFetcherDrop
<1>12. CASE StoreFetcher
  <2>1. ui' \in [at : {"idle", "touch", "schedule", "swap"}, page : Pages]
    BY <1>12, BoundsAssumption DEF StoreFetcher, Pages
  <2> QED
    BY <1>12, <2>1 DEF StoreFetcher, TypeOK
<1>13. CASE Change
  BY <1>13, BoundsAssumption DEF Change, TypeOK
<1>14. CASE UNCHANGED vars
  BY <1>14 DEF vars, TypeOK
<1> QED
  BY <1>1, <1>2, <1>3, <1>4, <1>5, <1>6, <1>7, <1>8, <1>10, <1>11, <1>12, <1>13, <1>14 DEF Next

-----------------------------------------------------------------------------
(***************************************************************************)
(* Every resident page is of the current source and moment: what is on its *)
(* way for this generation is, and nothing else is let in.                 *)
(***************************************************************************)
Underway(f) ==
  (fetch[f].step # "idle" /\ fetch[f].gen = gen)
    => /\ ~Swapping => fetch[f].src = src
       /\ fetch[f].step = "land" => base <= fetch[f].ver

Times ==
  /\ base <= version
  /\ \A f \in Fetches : fetch[f].gen <= gen /\ Underway(f)

CurrentInv == TypeOK /\ Times /\ CurrentRows

LEMMA OneFetchMoves ==
  ASSUME TypeOK, NEW f \in Fetches, NEW STATE r, fetch' = [fetch EXCEPT ![f] = r]
  PROVE  \A g \in Fetches : fetch'[g] = IF g = f THEN r ELSE fetch[g]
<1>1. fetch \in [Fetches -> FetchRecord]
  BY DEF TypeOK
<1> QED
  BY <1>1

\* The parts of a fetch that is scheduled, and of one that is answered.
LEMMA Scheduled ==
  ASSUME TypeOK, Schedule, ~UNCHANGED <<inflight, fetch>>
  PROVE  \E f \in Fetches :
           /\ fetch[f].step = "idle"
           /\ inflight' = inflight \cup {ui.page} /\ ui.page \notin inflight
           /\ \A g \in Fetches : g # f => fetch'[g] = fetch[g]
           /\ fetch'[f].step = "ask" /\ fetch'[f].page = ui.page
           /\ fetch'[f].gen = gen /\ fetch'[f].src = src
<1> DEFINE r == [IdleFetch EXCEPT !.step = "ask", !.page = ui.page, !.gen = gen, !.src = src]
<1>1. PICK f \in Fetches : fetch[f].step = "idle" /\ fetch' = [fetch EXCEPT ![f] = r]
  BY DEF Schedule
<1>2. r.step = "ask" /\ r.page = ui.page /\ r.gen = gen /\ r.src = src
  BY IdleTypes DEF FetchRecord
<1> HIDE DEF r
<1>3. inflight' = inflight \cup {ui.page} /\ ui.page \notin inflight
  BY DEF Schedule
<1>4. \A g \in Fetches : fetch'[g] = IF g = f THEN r ELSE fetch[g]
  BY <1>1, OneFetchMoves
<1> QED
  BY <1>1, <1>2, <1>3, <1>4

LEMMA Answers ==
  ASSUME TypeOK, NEW f \in Fetches, Answer(f)
  PROVE  /\ fetch[f].step = "ask" /\ fetch'[f].step = "land"
         /\ fetch'[f].page = fetch[f].page /\ fetch'[f].gen = fetch[f].gen
         /\ fetch'[f].src = fetch[f].src /\ fetch'[f].ver = version
         /\ \A g \in Fetches : g # f => fetch'[g] = fetch[g]
<1>1. fetch[f] \in FetchRecord
  BY DEF TypeOK
<1>2. PICK ok \in BOOLEAN :
        fetch' = [fetch EXCEPT ![f] = [fetch[f] EXCEPT !.step = "land", !.ok = ok, !.ver = version,
                                                       !.n = RowsOn(fetch[f].src, fetch[f].page)]]
  BY <1>1 DEF Answer, TypeOK
<1> DEFINE r == [fetch[f] EXCEPT !.step = "land", !.ok = ok, !.ver = version,
                                 !.n = RowsOn(fetch[f].src, fetch[f].page)]
<1>3. /\ r.step = "land" /\ r.page = fetch[f].page /\ r.gen = fetch[f].gen
      /\ r.src = fetch[f].src /\ r.ver = version
  BY <1>1 DEF FetchRecord
<1>4. fetch' = [fetch EXCEPT ![f] = r]
  BY <1>2
<1> HIDE DEF r
<1>5. \A g \in Fetches : fetch'[g] = IF g = f THEN r ELSE fetch[g]
  BY <1>4, OneFetchMoves
<1> QED
  BY <1>3, <1>5 DEF Answer

\* A landing's goroutine is done, and a page is current if it was before or has just come.
LEMMA Lands ==
  ASSUME TypeOK, NEW f \in Fetches, Land(f)
  PROVE  /\ fetch[f].step = "land" /\ fetch'[f] = IdleFetch
         /\ \A g \in Fetches : g # f => fetch'[g] = fetch[g]
         /\ \A q \in Pages : \/ pages'[q] \in {Absent, pages[q]}
                             \/ /\ CurrentFetch(f)
                                /\ pages'[q].src = fetch[f].src /\ pages'[q].ver = fetch[f].ver
<1>1. \A g \in Fetches : fetch'[g] = IF g = f THEN IdleFetch ELSE fetch[g]
  BY OneFetchMoves DEF Land
<1>2. CASE CurrentFetch(f) /\ fetch[f].ok
  <2> DEFINE page == [src |-> fetch[f].src, ver |-> fetch[f].ver, n |-> fetch[f].n]
             gone == Range(SubSeq(Append(lru, fetch[f].page), 1,
                             EvictedTo(Append(lru, fetch[f].page), ResidentPages \cup {fetch[f].page})))
  <2>1. pages' = [q \in Pages |-> IF q \in gone THEN Absent
                                  ELSE IF q = fetch[f].page THEN page ELSE pages[q]]
    BY <1>2 DEF Land, LandCurrent
  <2>2. page.src = fetch[f].src /\ page.ver = fetch[f].ver
    OBVIOUS
  <2> HIDE DEF page, gone
  <2>3. \A q \in Pages : pages'[q] \in {Absent, pages[q]} \/ pages'[q] = page
    BY <2>1
  <2> QED
    BY <1>1, <1>2, <2>2, <2>3 DEF Land
<1>3. CASE ~(CurrentFetch(f) /\ fetch[f].ok)
  <2>1. pages' = pages
    BY <1>3 DEF Land, LandCurrent, cache, size
  <2> QED
    BY <1>1, <2>1 DEF Land
<1> QED
  BY <1>2, <1>3
LEMMA CurrentInit == Init => CurrentInv
<1> SUFFICES ASSUME Init PROVE CurrentInv
  OBVIOUS
<1>1. TypeOK
  BY TypeInit
<1>2. IdleFetch.gen = 0
  BY DEF IdleFetch
<1>3. Times
  BY IdleTypes, <1>2 DEF Init, Times, Underway
<1>4. CurrentRows
  BY DEF Init, CurrentRows, ResidentPages, Resident
<1> QED
  BY <1>1, <1>3, <1>4 DEF CurrentInv

\* A step that leaves the pages, the source and the moment alone.
LEMMA SameRows ==
  ASSUME CurrentRows, UNCHANGED <<pages, src, base>>, Swapping => Swapping'
  PROVE  CurrentRows'
BY DEF CurrentRows, ResidentPages, Resident, Swapping

\* One that leaves what is on its way alone as well.
LEMMA SameTimes ==
  ASSUME Times, CurrentRows, UNCHANGED <<pages, src, base, gen, fetch>>, base <= version',
         Swapping => Swapping', Swapping' => Swapping
  PROVE  Times' /\ CurrentRows'
<1>1. CurrentRows'
  BY SameRows
<1>2. \A f \in Fetches : fetch'[f].gen <= gen' /\ Underway(f)'
  BY DEF Times, Underway
<1> QED
  BY <1>1, <1>2 DEF Times

LEMMA CurrentStep == CurrentInv /\ [Next]_vars => CurrentInv'
<1> SUFFICES ASSUME CurrentInv, [Next]_vars PROVE Times' /\ CurrentRows'
  BY TypeStep DEF CurrentInv
<1> USE DEF cache, size
<1>0. TypeOK /\ Times /\ CurrentRows /\ TypeOK' /\ base <= version
  BY TypeStep DEF CurrentInv, Times
<1>1. ASSUME NEW q \in Pages, Row(q) PROVE Times' /\ CurrentRows'
  <2>1. ~Swapping /\ ~Swapping'
    BY <1>1 DEF Row, Swapping, AtRest
  <2>2. UNCHANGED <<pages, src, base, gen, fetch, version>>
    BY <1>1 DEF Row
  <2> QED
    BY <1>0, <2>1, <2>2, SameTimes
<1>2. CASE Touch
  <2>1. ~Swapping /\ ~Swapping'
    BY <1>2 DEF Touch, Swapping, AtRest
  <2>2. UNCHANGED <<pages, src, base, gen, fetch, version>>
    BY <1>2 DEF Touch
  <2> QED
    BY <1>0, <2>1, <2>2, SameTimes
<1>3. CASE Schedule
  <2>1. ~Swapping /\ ~Swapping'
    BY <1>3 DEF Schedule, Swapping, AtRest
  <2>2. UNCHANGED <<pages, src, base, gen, version>>
    BY <1>3 DEF Schedule
  <2>3. CurrentRows'
    BY <1>0, <2>1, <2>2, SameRows
  <2>4. CASE UNCHANGED <<inflight, fetch>>
    BY <1>0, <2>1, <2>2, <2>4, SameTimes
  <2>5. CASE ~UNCHANGED <<inflight, fetch>>
    <3>1. PICK f \in Fetches :
            /\ \A g \in Fetches : g # f => fetch'[g] = fetch[g]
            /\ fetch'[f].step = "ask" /\ fetch'[f].gen = gen /\ fetch'[f].src = src
      BY <1>0, <1>3, <2>5, Scheduled
    <3>2. ASSUME NEW g \in Fetches PROVE fetch'[g].gen <= gen' /\ Underway(g)'
      <4>1. CASE g = f
        BY <1>0, <2>2, <3>1, <4>1 DEF Underway, TypeOK
      <4>2. CASE g # f
        BY <1>0, <2>1, <2>2, <3>1, <4>2 DEF Times, Underway
      <4> QED
        BY <4>1, <4>2
    <3> QED
      BY <1>0, <2>2, <2>3, <3>2 DEF Times
  <2> QED
    BY <2>4, <2>5
<1>4. ASSUME NEW f \in Fetches, Answer(f) PROVE Times' /\ CurrentRows'
  <2>1. UNCHANGED <<pages, src, base, gen, version, ui>>
    BY <1>4 DEF Answer
  <2>2. CurrentRows'
    BY <1>0, <2>1, SameRows DEF Swapping
  <2>3. /\ fetch[f].step = "ask" /\ fetch'[f].gen = fetch[f].gen
        /\ fetch'[f].src = fetch[f].src /\ fetch'[f].ver = version
        /\ \A g \in Fetches : g # f => fetch'[g] = fetch[g]
    BY <1>0, <1>4, Answers
  <2>4. ASSUME NEW g \in Fetches PROVE fetch'[g].gen <= gen' /\ Underway(g)'
    <3>1. CASE g = f
      BY <1>0, <2>1, <2>3, <3>1 DEF Times, Underway, Swapping
    <3>2. CASE g # f
      BY <1>0, <2>1, <2>3, <3>2 DEF Times, Underway, Swapping
    <3> QED
      BY <3>1, <3>2
  <2> QED
    BY <1>0, <2>1, <2>2, <2>4 DEF Times
<1>5. ASSUME NEW f \in Fetches, Land(f) PROVE Times' /\ CurrentRows'
  <2>1. UNCHANGED <<src, base, gen, version, ui>>
    BY <1>5 DEF Land
  <2>2. /\ fetch[f].step = "land" /\ fetch'[f] = IdleFetch
        /\ \A g \in Fetches : g # f => fetch'[g] = fetch[g]
        /\ \A q \in Pages : \/ pages'[q] \in {Absent, pages[q]}
                            \/ /\ CurrentFetch(f)
                               /\ pages'[q].src = fetch[f].src /\ pages'[q].ver = fetch[f].ver
    BY <1>0, <1>5, Lands
  <2>3. ASSUME NEW g \in Fetches PROVE fetch'[g].gen <= gen' /\ Underway(g)'
    <3>1. CASE g = f
      <4>1. IdleFetch.gen = 0 /\ IdleFetch.step = "idle"
        BY DEF IdleFetch
      <4> QED
        BY <1>0, <2>1, <2>2, <3>1, <4>1 DEF Underway, TypeOK
    <3>2. CASE g # f
      BY <1>0, <2>1, <2>2, <3>2 DEF Times, Underway, Swapping
    <3> QED
      BY <3>1, <3>2
  <2>4. CurrentFetch(f) => (~Swapping => fetch[f].src = src) /\ base <= fetch[f].ver
    BY <1>0, <2>2 DEF CurrentFetch, Times, Underway
  <2>5. ASSUME NEW q \in ResidentPages'
        PROVE  (~Swapping' => pages'[q].src = src') /\ base' <= pages'[q].ver
    <3>1. q \in Pages /\ pages'[q] # Absent
      BY DEF ResidentPages, Resident
    <3>2. CASE pages'[q] = pages[q]
      <4>1. q \in ResidentPages
        BY <3>1, <3>2 DEF ResidentPages, Resident
      <4> QED
        BY <1>0, <2>1, <3>2, <4>1 DEF CurrentRows, Swapping
    <3>3. CASE CurrentFetch(f) /\ pages'[q].src = fetch[f].src /\ pages'[q].ver = fetch[f].ver
      BY <2>1, <2>4, <3>3 DEF Swapping
    <3> QED
      BY <2>2, <3>1, <3>2, <3>3
  <2>6. CurrentRows'
    BY <2>5 DEF CurrentRows
  <2> QED
    BY <1>0, <2>1, <2>3, <2>6 DEF Times
<1>6. CASE LoadCount \/ Counted \/ LandCount
  <2>1. UNCHANGED <<pages, src, base, gen, version, ui, fetch>>
    BY <1>6 DEF LoadCount, Counted, LandCount
  <2> QED
    BY <1>0, <2>1, SameTimes DEF Swapping
\* Nothing is resident any more, and whatever is on its way is of an older generation.
<1>7. ASSUME DropPages, UNCHANGED <<version, src, fetch>> PROVE Times' /\ CurrentRows'
  <2>1. gen' = gen + 1 /\ base' = version /\ gen \in Nat
    BY <1>0, <1>7 DEF DropPages, TypeOK
  <2>2. \A g \in Fetches : fetch[g].gen \in Nat /\ fetch[g].gen <= gen
    BY <1>0 DEF Times, TypeOK, FetchRecord
  <2>3. \A g \in Fetches : fetch'[g].gen <= gen' /\ fetch'[g].gen # gen'
    BY <1>7, <2>1, <2>2
  <2>4. Times'
    <3>1. base' <= version'
      BY <1>0, <1>7, <2>1 DEF TypeOK
    <3> QED
      BY <2>3, <3>1 DEF Times, Underway
  <2>5. CurrentRows'
    BY <1>7 DEF DropPages, CurrentRows, ResidentPages, Resident
  <2> QED
    BY <2>4, <2>5
<1>8. CASE Invalidate \/ SetFetcherDrop
  BY <1>7, <1>8 DEF Invalidate, SetFetcherDrop
<1>9. CASE StoreFetcher
  <2>1. Swapping' /\ UNCHANGED <<pages, base, gen, version, fetch>>
    BY <1>9 DEF StoreFetcher, Swapping
  <2>2. Times'
    BY <1>0, <2>1 DEF Times, Underway
  <2>3. CurrentRows'
    BY <1>0, <2>1 DEF CurrentRows, ResidentPages, Resident
  <2> QED
    BY <2>2, <2>3
<1>10. CASE Change
  <2>1. UNCHANGED <<pages, src, base, gen, ui, fetch>> /\ version' = version + 1
    BY <1>10 DEF Change
  <2>2. base <= version'
    BY <1>0, <2>1 DEF Times, TypeOK
  <2> QED
    BY <1>0, <2>1, <2>2, SameTimes DEF Swapping
<1>11. CASE UNCHANGED vars
  <2>1. UNCHANGED <<pages, src, base, gen, ui, fetch, version>>
    BY <1>11 DEF vars
  <2> QED
    BY <1>0, <2>1, SameTimes DEF Swapping
<1> QED
  BY <1>1, <1>2, <1>3, <1>4, <1>5, <1>6, <1>8, <1>9, <1>10, <1>11 DEF Next

\* Every variable of the cache keeps its type, whatever lands in whatever order
\* (Model, of model.go).
THEOREM TypeCorrect == Spec => []TypeOK
BY TypeInit, TypeStep, PTL DEF Spec

\* No row of a source or a moment since replaced is ever resident, for any number of
\* fetches at once and any use of SetFetcher and Invalidate (schedule's fetch).
THEOREM RowsAreCurrent == Spec => []CurrentRows
<1>1. CurrentInv => CurrentRows
  BY DEF CurrentInv
<1> QED
  BY CurrentInit, CurrentStep, <1>1, PTL DEF Spec

-----------------------------------------------------------------------------
(***************************************************************************)
(* The window stays bounded: the order knows every resident page, so that  *)
(* the eviction finds enough to drop.                                      *)
(***************************************************************************)
\* What a landing leaves resident, and what the order still knows.
LEMMA LandBounds ==
  ASSUME TypeOK, Bounded, NEW f \in Fetches, LandCurrent(f), fetch[f] \in FetchRecord
  PROVE  Bounded'
<1> DEFINE p     == fetch[f].page
           order == Append(lru, p)
           held  == ResidentPages \cup {p}
           out   == EvictedTo(order, held)
           gone  == Range(SubSeq(order, 1, out))
           page  == [src |-> fetch[f].src, ver |-> fetch[f].ver, n |-> fetch[f].n]
<1>1. CASE ~fetch[f].ok
  BY <1>1 DEF LandCurrent, Bounded, ResidentPages, Resident
<1>2. CASE fetch[f].ok
  <2>1. p \in Pages
    BY DEF FetchRecord
  <2>2. order \in Seq(Pages) /\ Range(lru) \cup {p} \subseteq Range(order)
    BY <2>1, AppendRange DEF TypeOK
  <2>3. held \in SUBSET Pages
    BY <2>1 DEF ResidentPages
  <2>4. held \subseteq Range(order)
    BY <2>2 DEF Bounded
  <2>5. lru' = SubSeq(order, out + 1, Len(order))
    BY <1>2 DEF LandCurrent
  <2>6. pages' = [q \in Pages |-> IF q \in gone THEN Absent ELSE IF q = p THEN page ELSE pages[q]]
    BY <1>2 DEF LandCurrent
  <2> HIDE DEF order
  <2>7. out \in 0..Len(order) /\ (Cardinality(held \ gone) <= MaxResident \/ out = Len(order))
    BY <2>2, <2>3, EvictedToFits
  <2> HIDE DEF out, held
  <2>8. /\ Range(order) \subseteq gone \cup Range(SubSeq(order, out + 1, Len(order)))
        /\ out = Len(order) => gone = Range(order)
    BY <2>2, <2>7, CutInTwo
  <2> HIDE DEF gone, page, p
  <2>9. \A q \in Pages : Resident(q)' => q \in held \ gone
    BY <2>6 DEF Resident, held, ResidentPages
  <2>10. ResidentPages' \subseteq held \ gone
    BY <2>9 DEF ResidentPages
  <2>11. ResidentPages' \subseteq Range(lru')
    BY <2>4, <2>5, <2>8, <2>10
  <2>12. IsFiniteSet(held \ gone) /\ IsFiniteSet(ResidentPages')
    BY <2>3, <2>10, PagesFinite, FS_Subset, FS_Difference
  <2>13. Cardinality(ResidentPages') <= Cardinality(held \ gone)
    BY <2>10, <2>12, FS_Subset
  <2>14. Cardinality(ResidentPages') \in Nat /\ Cardinality(held \ gone) \in Nat
    BY <2>12, FS_CardinalityType
  <2>15. Cardinality(ResidentPages') <= MaxResident
    <3>1. CASE Cardinality(held \ gone) <= MaxResident
      BY <2>13, <2>14, <3>1, SizesAssumption
    <3>2. CASE out = Len(order)
      <4>1. held \ gone = {}
        BY <2>4, <2>8, <3>2
      <4>2. Cardinality(held \ gone) = 0
        BY <4>1, FS_EmptySet
      <4> QED
        BY <2>13, <2>14, <4>2, SizesAssumption
    <3> QED
      BY <2>7, <3>1, <3>2
  <2> QED
    BY <2>11, <2>15 DEF Bounded
<1> QED
  BY <1>1, <1>2

LEMMA BoundedStep == TypeOK /\ Bounded /\ [Next]_vars => Bounded'
<1> SUFFICES ASSUME TypeOK, Bounded, [Next]_vars PROVE Bounded'
  OBVIOUS
<1> USE DEF cache, size
<1>1. ASSUME UNCHANGED <<pages, lru>> PROVE Bounded'
  BY <1>1 DEF Bounded, ResidentPages, Resident
<1>2. CASE Touch
  <2>1. Range(lru) \subseteq Range(lru') /\ pages' = pages
    BY <1>2, TouchKeeps DEF TypeOK, Touch
  <2> QED
    BY <2>1 DEF Bounded, ResidentPages, Resident
<1>3. ASSUME NEW f \in Fetches, Land(f) PROVE Bounded'
  <2>1. CASE CurrentFetch(f)
    BY <1>3, <2>1, LandBounds DEF Land, TypeOK
  <2>2. CASE ~CurrentFetch(f)
    BY <1>1, <1>3, <2>2 DEF Land
  <2> QED
    BY <2>1, <2>2
<1>4. ASSUME DropPages PROVE Bounded'
  <2>1. ResidentPages' = {}
    BY <1>4 DEF DropPages, ResidentPages, Resident
  <2>2. Cardinality(ResidentPages') = 0
    BY <2>1, FS_EmptySet
  <2> QED
    BY <2>1, <2>2, SizesAssumption DEF Bounded
<1>5. CASE Invalidate \/ SetFetcherDrop
  BY <1>4, <1>5 DEF Invalidate, SetFetcherDrop
<1>6. CASE \/ \E p \in Pages : Row(p)
           \/ \E f \in Fetches : Answer(f)
           \/ Schedule \/ LoadCount \/ Counted \/ LandCount \/ StoreFetcher \/ Change \/ UNCHANGED vars
  <2>1. UNCHANGED <<pages, lru>>
    BY <1>6 DEF Row, Answer, Schedule, LoadCount, Counted, LandCount, StoreFetcher, Change, vars
  <2> QED
    BY <1>1, <2>1
<1> QED
  BY <1>2, <1>3, <1>5, <1>6 DEF Next

\* Never more than MaxResident pages, and each one known to lru, however many fetches
\* land between a look and a touch (evictLocked, touch).
THEOREM StaysBounded == Spec => []Bounded
<1>1. Init => Bounded
  <2> SUFFICES ASSUME Init PROVE Bounded
    OBVIOUS
  <2>1. ResidentPages = {}
    BY DEF Init, ResidentPages, Resident
  <2>2. Cardinality(ResidentPages) = 0
    BY <2>1, FS_EmptySet
  <2> QED
    BY <2>1, <2>2, SizesAssumption DEF Bounded
<1> QED
  BY <1>1, TypeCorrect, BoundedStep, PTL DEF Spec

-----------------------------------------------------------------------------
(***************************************************************************)
(* A mark in inflight is of exactly one fetch.                             *)
(***************************************************************************)
Serving(p) ==
  {f \in Fetches : fetch[f].step # "idle" /\ fetch[f].page = p /\ fetch[f].gen = gen}

Marks ==
  \A p \in Pages :
    IF p \in inflight THEN \E f \in Fetches : Serving(p) = {f} ELSE Serving(p) = {}

LEMMA MarksStep == TypeOK /\ Times /\ Marks /\ [Next]_vars => Marks'
<1> SUFFICES ASSUME TypeOK, Times, Marks, [Next]_vars PROVE Marks'
  OBVIOUS
<1> USE DEF cache, size
<1>1. ASSUME UNCHANGED <<inflight, fetch, gen>> PROVE Marks'
  BY <1>1 DEF Marks, Serving
<1>2. CASE Schedule
  <2>1. CASE UNCHANGED <<inflight, fetch>>
    BY <1>1, <1>2, <2>1 DEF Schedule
  <2>2. CASE ~UNCHANGED <<inflight, fetch>>
    <3>1. PICK f \in Fetches :
            /\ fetch[f].step = "idle"
            /\ inflight' = inflight \cup {ui.page} /\ ui.page \notin inflight
            /\ \A g \in Fetches : g # f => fetch'[g] = fetch[g]
            /\ fetch'[f].step = "ask" /\ fetch'[f].page = ui.page /\ fetch'[f].gen = gen
      BY <1>2, <2>2, Scheduled
    <3>2. gen' = gen /\ ui.page \in Pages
      BY <1>2 DEF Schedule, TypeOK
    <3>3. PICK p \in Pages : p = ui.page
      BY <3>2
    <3>4. Serving(p) = {}
      BY <3>1, <3>3 DEF Marks
    <3>5. Serving(p)' = {f}
      <4>1. f \in Serving(p)'
        BY <3>1, <3>2, <3>3 DEF Serving
      <4>2. ASSUME NEW g \in Serving(p)', g # f PROVE FALSE
        <5>1. g \in Serving(p)
          BY <3>1, <3>2, <4>2 DEF Serving
        <5> QED
          BY <3>4, <5>1
      <4> QED
        BY <4>1, <4>2
    <3>6. \A q \in Pages : q # p => Serving(q)' = Serving(q)
      <4> SUFFICES ASSUME NEW q \in Pages, q # p PROVE Serving(q)' = Serving(q)
        OBVIOUS
      <4>1. f \notin Serving(q)' /\ f \notin Serving(q)
        BY <3>1, <3>3 DEF Serving
      <4> QED
        BY <3>1, <3>2, <4>1 DEF Serving
    <3>7. ASSUME NEW q \in Pages
          PROVE  IF q \in inflight' THEN \E g \in Fetches : Serving(q)' = {g} ELSE Serving(q)' = {}
      <4>1. CASE q = p
        BY <3>1, <3>3, <3>5, <4>1
      <4>2. CASE q # p
        <5>1. Serving(q)' = Serving(q) /\ (q \in inflight' <=> q \in inflight)
          BY <3>1, <3>3, <3>6, <4>2
        <5> QED
          BY <5>1 DEF Marks
      <4> QED
        BY <4>1, <4>2
    <3> QED
      BY <3>7 DEF Marks
  <2> QED
    BY <2>1, <2>2
<1>3. ASSUME NEW f \in Fetches, Answer(f) PROVE Marks'
  <2>1. gen' = gen /\ inflight' = inflight
    BY <1>3 DEF Answer
  <2>2. /\ fetch[f].step = "ask" /\ fetch'[f].step = "land"
        /\ fetch'[f].page = fetch[f].page /\ fetch'[f].gen = fetch[f].gen
        /\ \A g \in Fetches : g # f => fetch'[g] = fetch[g]
    BY <1>3, Answers
  <2>3. \A p \in Pages : Serving(p)' = Serving(p)
    BY <2>1, <2>2 DEF Serving
  <2> QED
    BY <2>1, <2>3 DEF Marks
<1>4. ASSUME NEW f \in Fetches, Land(f) PROVE Marks'
  <2>1. /\ fetch[f].step = "land" /\ fetch'[f] = IdleFetch
        /\ \A g \in Fetches : g # f => fetch'[g] = fetch[g]
    BY <1>4, Lands
  <2>2. gen' = gen /\ fetch'[f].step = "idle"
    BY <1>4, <2>1, IdleTypes DEF Land
  <2>3. \A p \in Pages : Serving(p)' = Serving(p) \ {f}
    BY <2>1, <2>2 DEF Serving
  <2>4. CASE CurrentFetch(f)
    <3>1. PICK p \in Pages : p = fetch[f].page
      BY DEF TypeOK, FetchRecord
    <3>2. f \in Serving(p)
      BY <2>1, <2>4, <3>1 DEF Serving, CurrentFetch
    <3>3. PICK g \in Fetches : Serving(p) = {g}
      BY <3>2 DEF Marks
    <3>4. Serving(p)' = {}
      BY <2>3, <3>2, <3>3
    <3>5. inflight' = inflight \ {p}
      BY <1>4, <2>4, <3>1 DEF Land, LandCurrent
    <3>6. ASSUME NEW q \in Pages
          PROVE  IF q \in inflight' THEN \E h \in Fetches : Serving(q)' = {h} ELSE Serving(q)' = {}
      <4>1. CASE q = p
        BY <3>4, <3>5, <4>1
      <4>2. CASE q # p
        <5>1. f \notin Serving(q)
          BY <3>1, <4>2 DEF Serving
        <5>2. Serving(q)' = Serving(q) /\ (q \in inflight' <=> q \in inflight)
          BY <2>3, <3>5, <4>2, <5>1
        <5> QED
          BY <5>2 DEF Marks
      <4> QED
        BY <4>1, <4>2
    <3> QED
      BY <3>6 DEF Marks
  <2>5. CASE ~CurrentFetch(f)
    <3>1. inflight' = inflight
      BY <1>4, <2>5 DEF Land
    <3>2. \A p \in Pages : f \notin Serving(p)
      BY <2>5 DEF Serving, CurrentFetch
    <3>3. \A p \in Pages : Serving(p)' = Serving(p)
      BY <2>3, <3>2
    <3> QED
      BY <3>1, <3>3 DEF Marks
  <2> QED
    BY <2>4, <2>5
<1>5. ASSUME DropPages, fetch' = fetch PROVE Marks'
  <2>1. gen' = gen + 1 /\ inflight' = {}
    BY <1>5 DEF DropPages
  <2>2. \A f \in Fetches : fetch'[f].gen # gen'
    <3>1. \A f \in Fetches : fetch[f].gen \in Nat /\ fetch[f].gen <= gen /\ gen \in Nat
      BY DEF Times, TypeOK, FetchRecord
    <3> QED
      BY <1>5, <2>1, <3>1
  <2>3. \A p \in Pages : Serving(p)' = {}
    BY <2>2 DEF Serving
  <2> QED
    BY <2>1, <2>3 DEF Marks
<1>6. CASE Invalidate \/ SetFetcherDrop
  BY <1>5, <1>6 DEF Invalidate, SetFetcherDrop
<1>7. CASE \/ \E p \in Pages : Row(p)
           \/ Touch \/ LoadCount \/ Counted \/ LandCount \/ StoreFetcher \/ Change \/ UNCHANGED vars
  <2>1. UNCHANGED <<inflight, fetch, gen>>
    BY <1>7 DEF Row, Touch, LoadCount, Counted, LandCount, StoreFetcher, Change, vars
  <2> QED
    BY <1>1, <2>1
<1> QED
  BY <1>2, <1>3, <1>4, <1>6, <1>7 DEF Next

\* A page marked in flight is fetched exactly once for this generation, and none is
\* fetched unmarked, for any number of goroutines and generations (schedule).
THEOREM MarkedIsFetched == Spec => []InflightIsFetched
<1>1. Init => Marks
  BY IdleTypes DEF Init, Marks, Serving
<1>2. Marks => InflightIsFetched
  <2> SUFFICES ASSUME Marks, NEW p \in Pages
               PROVE  Cardinality(Serving(p)) = IF p \in inflight THEN 1 ELSE 0
    BY DEF InflightIsFetched, Serving
  <2>1. CASE p \in inflight
    <3>1. PICK f \in Fetches : Serving(p) = {f}
      BY <2>1 DEF Marks
    <3>2. Cardinality({f}) = 1
      BY FS_Singleton
    <3> QED
      BY <2>1, <3>1, <3>2
  <2>2. CASE p \notin inflight
    <3>1. Serving(p) = {}
      BY <2>2 DEF Marks
    <3> QED
      BY <2>2, <3>1, FS_EmptySet
  <2> QED
    BY <2>1, <2>2
<1>3. CurrentInv => TypeOK /\ Times
  BY DEF CurrentInv
<1> QED
  BY <1>1, <1>2, <1>3, CurrentInit, CurrentStep, MarksStep, PTL DEF Spec

-----------------------------------------------------------------------------
(***************************************************************************)
(* A total hides nothing: the page it was found by, or the count, was read *)
(* when the data was as it is now.  Tallied says of a count under way what *)
(* Times and Counts say of a fetch.                                        *)
(***************************************************************************)
Counts ==
  \A f \in Fetches :
    fetch[f].step = "land"
      => /\ fetch[f].ver <= version
         /\ fetch[f].ver = version => fetch[f].n = RowsOn(fetch[f].src, fetch[f].page)

LEMMA CountsStep == TypeOK /\ Counts /\ [Next]_vars => Counts'
<1> SUFFICES ASSUME TypeOK, Counts, [Next]_vars PROVE Counts'
  OBVIOUS
<1>1. ASSUME UNCHANGED <<fetch, version>> PROVE Counts'
  BY <1>1 DEF Counts, RowsOn
<1>2. CASE Schedule
  <2>1. CASE UNCHANGED <<inflight, fetch>>
    BY <1>1, <1>2, <2>1 DEF Schedule
  <2>2. CASE ~UNCHANGED <<inflight, fetch>>
    <3>1. PICK f \in Fetches :
            (\A g \in Fetches : g # f => fetch'[g] = fetch[g]) /\ fetch'[f].step = "ask"
      BY <1>2, <2>2, Scheduled
    <3>2. version' = version
      BY <1>2 DEF Schedule
    <3> QED
      BY <3>1, <3>2 DEF Counts, RowsOn
  <2> QED
    BY <2>1, <2>2
<1>3. ASSUME NEW f \in Fetches, Answer(f) PROVE Counts'
  <2>1. /\ fetch'[f].page = fetch[f].page /\ fetch'[f].src = fetch[f].src /\ fetch'[f].ver = version
        /\ \A g \in Fetches : g # f => fetch'[g] = fetch[g]
    BY <1>3, Answers
  <2>2. fetch'[f].n = RowsOn(fetch[f].src, fetch[f].page) /\ version' = version
    <3>1. fetch \in [Fetches -> FetchRecord]
      BY DEF TypeOK
    <3>2. PICK ok \in BOOLEAN :
            fetch'[f] = [fetch[f] EXCEPT !.step = "land", !.ok = ok, !.ver = version,
                                         !.n = RowsOn(fetch[f].src, fetch[f].page)]
      BY <1>3, <3>1 DEF Answer
    <3> QED
      BY <1>3, <3>1, <3>2 DEF Answer, FetchRecord
  <2>3. version \in Nat
    BY BoundsAssumption DEF TypeOK
  <2>4. fetch'[f].n = RowsOn(fetch[f].src, fetch[f].page)'
    BY <2>1, <2>2 DEF RowsOn
  <2>5. ASSUME NEW g \in Fetches, fetch'[g].step = "land"
        PROVE  /\ fetch'[g].ver <= version'
               /\ fetch'[g].ver = version' => fetch'[g].n = RowsOn(fetch[g].src, fetch[g].page)'
    <3>1. CASE g = f
      BY <2>1, <2>2, <2>3, <2>4, <3>1
    <3>2. CASE g # f
      BY <2>1, <2>2, <2>5, <3>2 DEF Counts, RowsOn
    <3> QED
      BY <3>1, <3>2
  <2> QED
    BY <2>5 DEF Counts
<1>4. ASSUME NEW f \in Fetches, Land(f) PROVE Counts'
  <2>1. fetch'[f] = IdleFetch /\ \A g \in Fetches : g # f => fetch'[g] = fetch[g]
    BY <1>4, Lands
  <2>2. version' = version /\ fetch'[f].step = "idle"
    BY <1>4, <2>1, IdleTypes DEF Land
  <2> QED
    BY <2>1, <2>2 DEF Counts, RowsOn
<1>5. CASE Change
  <2>1. version' = version + 1 /\ fetch' = fetch
    BY <1>5 DEF Change
  <2>2. ASSUME NEW f \in Fetches, fetch[f].step = "land"
        PROVE  fetch[f].ver <= version + 1 /\ fetch[f].ver # version + 1
    BY <2>2 DEF Counts, TypeOK, FetchRecord
  <2> QED
    BY <2>1, <2>2 DEF Counts
<1>6. CASE \/ \E p \in Pages : Row(p)
           \/ Touch \/ LoadCount \/ Counted \/ LandCount \/ Invalidate
           \/ StoreFetcher \/ SetFetcherDrop \/ UNCHANGED vars
  <2>1. UNCHANGED <<fetch, version>>
    BY <1>6 DEF Row, Touch, LoadCount, Counted, LandCount, Invalidate, StoreFetcher, SetFetcherDrop, vars
  <2> QED
    BY <1>1, <2>1
<1> QED
  BY <1>2, <1>3, <1>4, <1>5, <1>6 DEF Next

\* A short page ends at the end of its source.
LEMMA ShortPageReachesTheEnd ==
  ASSUME TypeOK, NEW s \in Sources, NEW p \in Pages, RowsOn(s, p) < PageSize
  PROVE  p * PageSize + RowsOn(s, p) >= SizeAt[s][version]
<1>1. SizeAt[s][version] \in Nat /\ PageSize \in Nat /\ p \in Nat
  BY SourcesAssumption, SizesAssumption, BoundsAssumption DEF TypeOK, Pages
<1>2. p * PageSize \in Nat
  BY <1>1
<1> DEFINE start == p * PageSize
           rows  == SizeAt[s][version]
<1>3. start \in Nat /\ rows \in Nat
  BY <1>1, <1>2
<1>4. RowsOn(s, p) = IF rows - start < 0 THEN 0
                     ELSE IF rows - start > PageSize THEN PageSize ELSE rows - start
  BY DEF RowsOn
<1> HIDE DEF start, rows
<1>5. start + RowsOn(s, p) >= rows
  BY <1>1, <1>3, <1>4
<1> QED
  BY <1>5 DEF start, rows

Tallied ==
  /\ counting.step # "idle"
       => /\ counting.gen <= gen
          /\ (counting.gen = gen /\ ~Swapping) => counting.src = src
  /\ (counting.step = "land" /\ counting.gen = gen /\ counting.n >= 0 /\ base = version)
       => counting.n = SizeAt[counting.src][version]

LEMMA TalliedStep == TypeOK /\ Times /\ Tallied /\ [Next]_vars => Tallied'
<1> SUFFICES ASSUME TypeOK, Times, Tallied, [Next]_vars PROVE Tallied'
  OBVIOUS
<1> USE DEF cache, size
<1>1. ASSUME UNCHANGED <<counting, gen, src, base, version>>, Swapping => Swapping' PROVE Tallied'
  BY <1>1 DEF Tallied
<1>2. CASE LoadCount
  <2>1. counting' = [IdleCount EXCEPT !.step = "ask", !.gen = gen, !.src = src] /\ UNCHANGED <<gen, src>>
    BY <1>2 DEF LoadCount
  <2>2. counting'.step = "ask" /\ counting'.gen = gen /\ counting'.src = src
    BY <2>1 DEF IdleCount
  <2>3. gen \in Nat
    BY DEF TypeOK
  <2> QED
    BY <2>1, <2>2, <2>3 DEF Tallied
<1>3. CASE Counted
  <2>1. PICK n \in {Unknown, SizeAt[counting.src][version]} :
          counting' = [counting EXCEPT !.step = "land", !.n = n]
    BY <1>3 DEF Counted
  <2>2. counting \in CountRecord /\ counting.step = "ask"
    BY <1>3 DEF Counted, TypeOK
  <2>3. /\ counting'.step = "land" /\ counting'.n = n
        /\ counting'.gen = counting.gen /\ counting'.src = counting.src
    BY <2>1, <2>2 DEF CountRecord
  <2>4. UNCHANGED <<gen, src, base, version, ui>>
    BY <1>3 DEF Counted
  <2>5. n >= 0 => n = SizeAt[counting.src][version]
    BY DEF Unknown
  <2> QED
    BY <2>2, <2>3, <2>4, <2>5 DEF Tallied, Swapping
<1>4. CASE LandCount
  <2>1. counting'.step = "idle"
    BY <1>4 DEF LandCount, IdleCount
  <2> QED
    BY <2>1 DEF Tallied
<1>5. CASE Invalidate \/ SetFetcherDrop
  <2>1. gen' = gen + 1 /\ counting' = counting
    BY <1>5 DEF Invalidate, SetFetcherDrop, DropPages
  <2>2. counting.gen \in Nat /\ gen \in Nat
    BY DEF TypeOK, CountRecord
  <2>3. counting.step # "idle" => counting'.gen <= gen' /\ counting'.gen # gen'
    BY <2>1, <2>2 DEF Tallied
  <2> QED
    BY <2>1, <2>3 DEF Tallied
<1>6. CASE StoreFetcher
  BY <1>6 DEF StoreFetcher, Tallied, Swapping
<1>7. CASE Change
  <2>1. base' # version' /\ UNCHANGED <<counting, gen, src, ui>>
    BY <1>7 DEF Change, Times, TypeOK
  <2> QED
    BY <2>1 DEF Tallied, Swapping
<1>8. CASE \/ \E p \in Pages : Row(p)
           \/ Touch \/ Schedule
  <2>1. UNCHANGED <<counting, gen, src, base, version>> /\ ~Swapping
    BY <1>8 DEF Row, Touch, Schedule, Swapping, AtRest
  <2> QED
    BY <1>1, <2>1
<1>9. CASE (\E f \in Fetches : Answer(f) \/ Land(f)) \/ UNCHANGED vars
  <2>1. UNCHANGED <<counting, gen, src, base, version, ui>>
    BY <1>9 DEF Answer, Land, vars
  <2> QED
    BY <1>1, <2>1 DEF Swapping
<1> QED
  BY <1>2, <1>3, <1>4, <1>5, <1>6, <1>7, <1>8, <1>9 DEF Next

LEMMA HiddenStep ==
  TypeOK /\ Times /\ Counts /\ Tallied /\ NothingHidden /\ [Next]_vars => NothingHidden'
<1> SUFFICES ASSUME TypeOK, Times, Counts, Tallied, NothingHidden, [Next]_vars PROVE NothingHidden'
  OBVIOUS
<1> USE DEF cache, size
<1>1. ASSUME UNCHANGED <<total, kept, base, version, src>>, Swapping => Swapping'
      PROVE  NothingHidden'
  BY <1>1 DEF NothingHidden
<1>2. ASSUME NEW f \in Fetches, Land(f) PROVE NothingHidden'
  <2>1. UNCHANGED <<base, version, src, ui>>
    BY <1>2 DEF Land
  <2>2. CASE UNCHANGED <<total, kept>>
    BY <1>1, <2>1, <2>2 DEF Swapping
  <2>3. CASE ~UNCHANGED <<total, kept>>
    <3>1. CurrentFetch(f) /\ fetch[f].step = "land" /\ NoteReach(fetch[f].page, fetch[f].n)
      BY <1>2, <2>3 DEF Land, LandCurrent
    <3>2. fetch[f].n < PageSize /\ total' = fetch[f].page * PageSize + fetch[f].n
      BY <2>3, <3>1 DEF NoteReach
    <3>3. SUFFICES ASSUME ~Swapping, base = version PROVE total' >= SizeAt[src][version]
      BY <2>1 DEF NothingHidden, Swapping
    <3>4. fetch[f].src = src /\ base <= fetch[f].ver
      BY <3>1, <3>3 DEF Times, Underway, CurrentFetch
    <3>5. fetch[f].ver = version
      BY <3>1, <3>3, <3>4 DEF Counts, TypeOK, FetchRecord
    <3>6. fetch[f].n = RowsOn(src, fetch[f].page)
      BY <3>1, <3>4, <3>5 DEF Counts
    <3>7. fetch[f].page \in Pages /\ src \in Sources
      BY DEF TypeOK, FetchRecord
    <3> QED
      BY <3>2, <3>6, <3>7, ShortPageReachesTheEnd
  <2> QED
    BY <2>2, <2>3
<1>3. CASE LandCount
  <2>1. UNCHANGED <<base, version, src, ui>>
    BY <1>3 DEF LandCount
  <2>2. CASE counting.n >= 0 /\ CurrentCount
    <3>1. total' = counting.n /\ counting.gen = gen /\ counting.step = "land"
      BY <1>3, <2>2 DEF LandCount, CurrentCount
    <3>2. ~Swapping /\ base = version => total' = SizeAt[src][version]
      <4>1. counting.step # "idle"
        BY <3>1
      <4> QED
        BY <2>2, <3>1, <4>1 DEF Tallied
    <3>3. SizeAt[src][version] \in Nat
      <4>1. src \in Sources /\ version \in 0..MaxVersion
        BY DEF TypeOK
      <4>2. SizeAt[src] \in [0..MaxVersion -> Nat]
        BY <4>1, SourcesAssumption
      <4> QED
        BY <4>1, <4>2
    <3> QED
      BY <2>1, <3>2, <3>3 DEF NothingHidden, Swapping
  <2>3. CASE ~(counting.n >= 0 /\ CurrentCount)
    <3>1. total' = total /\ (kept' = "no" => kept = "no")
      BY <1>3, <2>3 DEF LandCount
    <3> QED
      BY <2>1, <3>1 DEF NothingHidden, Swapping
  <2> QED
    BY <2>2, <2>3
<1>4. CASE Invalidate \/ SetFetcherDrop
  <2>1. kept' = "no" => total' = Unknown
    BY <1>4 DEF Invalidate, SetFetcherDrop, DropPages, TypeOK
  <2> QED
    BY <2>1 DEF NothingHidden
<1>5. CASE StoreFetcher
  BY <1>5 DEF StoreFetcher, NothingHidden, Swapping
<1>6. CASE Change
  <2>1. base' # version'
    BY <1>6 DEF Change, Times, TypeOK
  <2> QED
    BY <2>1 DEF NothingHidden
<1>7. CASE \/ \E p \in Pages : Row(p)
           \/ Touch \/ Schedule
  <2>1. UNCHANGED <<total, kept, base, version, src>> /\ ~Swapping
    BY <1>7 DEF Row, Touch, Schedule, Swapping, AtRest
  <2> QED
    BY <1>1, <2>1
<1>8. CASE (\E f \in Fetches : Answer(f)) \/ LoadCount \/ Counted \/ UNCHANGED vars
  <2>1. UNCHANGED <<total, kept, base, version, src, ui>>
    BY <1>8 DEF Answer, LoadCount, Counted, vars
  <2> QED
    BY <1>1, <2>1 DEF Swapping
<1> QED
  BY <1>2, <1>3, <1>4, <1>5, <1>6, <1>7, <1>8 DEF Next

\* As long as the data has not changed since the last refresh, a total found by a short
\* page, or counted since that refresh, is no less than what the source holds, whatever
\* pages and counts of other sources and moments land beside it (noteReachLocked, LoadCount).
THEOREM EndHidesNothing == Spec => []NothingHidden
<1>1. Init => Counts /\ Tallied /\ NothingHidden
  BY IdleTypes DEF Init, Counts, Tallied, IdleCount, NothingHidden
<1>2. CurrentInv => TypeOK /\ Times
  BY DEF CurrentInv
<1> QED
  BY <1>1, <1>2, CurrentInit, CurrentStep, CountsStep, TalliedStep, HiddenStep, PTL DEF Spec
=============================================================================
