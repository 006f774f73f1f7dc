----------------------------- MODULE GridModel -----------------------------
(***************************************************************************)
(* The windowed row cache behind the data grid                             *)
(* (internal/ui/grid/model.go).  The UI goroutine asks for rows and swaps  *)
(* the fetcher; each missing page is fetched on a goroutine of its own; a  *)
(* count runs beside them.  Generations decide which answers still count.  *)
(*                                                                         *)
(* A page of rows is the source it came from, the version of the data it   *)
(* was read at and how many rows it holds.  The new rows shown first       *)
(* (added) only shift indices and are left out.                            *)
(***************************************************************************)
EXTENDS Integers, Sequences, FiniteSets, SequencesExt

CONSTANTS
  PageSize,      \* PageSize, 256 in the code
  MaxResident,   \* MaxResidentPages, 64 in the code
  MaxPage,       \* bound: the last page the viewport can reach
  Sources,       \* fetchers: an object browsed in one order, or filtered
  SizeAt,        \* source -> data version -> how many rows it has
  MaxVersion,    \* bound: changes of the data
  MaxGen,        \* bound: calls of Invalidate
  Fetches,       \* goroutines: how many fetches may run at once
  Absent         \* a page that is not resident

ASSUME SizesAssumption == PageSize \in Nat \ {0} /\ MaxResident \in Nat \ {0}
ASSUME BoundsAssumption == MaxPage \in Nat /\ MaxVersion \in Nat /\ MaxGen \in Nat
ASSUME SourcesAssumption ==
  /\ SizeAt \in [Sources -> [0..MaxVersion -> Nat]]
  /\ Sources # {}
  /\ Absent \notin [src : Sources, ver : 0..MaxVersion, n : 0..PageSize]

Pages == 0..MaxPage
Unknown == -1

VARIABLES
  version,    \* the data behind the sources
  src, gen,   \* m.src, m.gen
  pages,      \* m.pages
  lru,        \* m.lru, most recent last
  inflight,   \* m.inflight
  total, seen, derived,
  fetch,      \* the goroutines schedule started
  counting,   \* the goroutine of a count: LoadCount
  ui,         \* where the UI goroutine is inside Row or SetFetcher
  base,       \* history: the version of the data at the last Invalidate
  kept        \* history: the total was counted before the last Invalidate, and whether
              \* the count asked since then has come back without a number

cache == <<pages, lru, inflight>>
size  == <<total, seen, derived, kept>>
vars  == <<version, src, gen, cache, size, fetch, counting, ui, base>>

IdleFetch == [step |-> "idle", page |-> 0, gen |-> 0, src |-> CHOOSE s \in Sources : TRUE,
              ver |-> 0, n |-> 0, ok |-> FALSE]
IdleCount == [step |-> "idle", gen |-> 0, src |-> CHOOSE s \in Sources : TRUE, n |-> Unknown]
AtRest    == [at |-> "idle", page |-> 0]

Resident(p) == pages[p] # Absent
ResidentPages == {p \in Pages : Resident(p)}

\* How many rows of a source, as the data is now, fall on a page.
RowsOn(s, p) ==
  LET left == SizeAt[s][version] - p * PageSize
  IN IF left < 0 THEN 0 ELSE IF left > PageSize THEN PageSize ELSE left

Extent == IF total >= 0 THEN total ELSE seen

\* How many rows the table draws: a page of placeholders while the end is unknown.
Length == IF total >= 0 THEN Extent ELSE Extent + PageSize

-----------------------------------------------------------------------------
Init ==
  /\ version = 0 /\ base = 0
  /\ src \in Sources /\ gen = 0
  /\ pages = [p \in Pages |-> Absent]
  /\ lru = <<>> /\ inflight = {}
  /\ total = Unknown /\ seen = 0 /\ derived = FALSE /\ kept = "no"
  /\ fetch = [f \in Fetches |-> IdleFetch]
  /\ counting = IdleCount
  /\ ui = AtRest

(***************************************************************************)
(* Row, on the UI goroutine: a look under the read lock, then, with the    *)
(* lock let go in between, the recency of a hit or the fetch of a miss.    *)
(***************************************************************************)
Row(p) ==
  /\ ui = AtRest
  /\ p * PageSize < Length
  /\ ui' = [at |-> IF Resident(p) THEN "touch" ELSE "schedule", page |-> p]
  /\ UNCHANGED <<version, src, gen, cache, size, fetch, counting, base>>

\* The last occurrence of a page in lru, or 0.
LastUse(p) == SelectLastInSeq(lru, LAMBDA q : q = p)

Touch ==
  /\ ui.at = "touch"
  /\ lru' = LET i == LastUse(ui.page)
            IN Append(IF i = 0 THEN lru ELSE RemoveAt(lru, i), ui.page)
  /\ ui' = AtRest
  /\ UNCHANGED <<version, src, gen, pages, inflight, size, fetch, counting, base>>

Schedule ==
  /\ ui.at = "schedule"
  /\ ui' = AtRest
  /\ IF ui.page \in inflight \/ Resident(ui.page)
     THEN UNCHANGED <<inflight, fetch>>
     ELSE /\ inflight' = inflight \cup {ui.page}
          /\ \E f \in Fetches :
               /\ fetch[f].step = "idle"
               /\ fetch' = [fetch EXCEPT ![f] =
                    [IdleFetch EXCEPT !.step = "ask", !.page = ui.page,
                                      !.gen = gen, !.src = src]]
  /\ UNCHANGED <<version, src, gen, pages, lru, size, counting, base>>

\* f.Fetch answers: a page of the data as it is now, or an error.
Answer(f) ==
  /\ fetch[f].step = "ask"
  /\ \E ok \in BOOLEAN :
       fetch' = [fetch EXCEPT ![f].step = "land", ![f].ok = ok, ![f].ver = version,
                              ![f].n = RowsOn(fetch[f].src, fetch[f].page)]
  /\ UNCHANGED <<version, src, gen, cache, size, counting, ui, base>>

\* evictLocked: drop from the front of lru until the pages fit.
EvictedTo(order, held) ==
  CHOOSE i \in 0..Len(order) :
    /\ Cardinality(held \ Range(SubSeq(order, 1, i))) <= MaxResident \/ i = Len(order)
    /\ \A j \in 0..(i - 1) : Cardinality(held \ Range(SubSeq(order, 1, j))) > MaxResident

\* Mutant: a full page taken for the end.
NoteReachEagerly(p, n) ==
  LET reach == p * PageSize + n
  IN /\ seen' = IF reach > seen THEN reach ELSE seen
     /\ kept' = IF n <= PageSize THEN "no" ELSE kept
     /\ IF n <= PageSize /\ reach # total
        THEN total' = reach /\ derived' = TRUE
        ELSE UNCHANGED <<total, derived>>

\* noteReachLocked
NoteReach(p, n) ==
  LET reach == p * PageSize + n
  IN /\ seen' = IF reach > seen THEN reach ELSE seen
     /\ kept' = IF n < PageSize THEN "no" ELSE kept
     /\ IF n < PageSize /\ reach # total
        THEN total' = reach /\ derived' = TRUE
        ELSE UNCHANGED <<total, derived>>

LandCurrent(f) ==
  LET p     == fetch[f].page
      order == Append(lru, p)
      out   == EvictedTo(order, ResidentPages \cup {p})
      gone  == Range(SubSeq(order, 1, out))
  IN /\ inflight' = inflight \ {p}
     /\ IF fetch[f].ok
        THEN /\ pages' = [q \in Pages |->
                            IF q \in gone THEN Absent
                            ELSE IF q = p THEN [src |-> fetch[f].src, ver |-> fetch[f].ver,
                                                n |-> fetch[f].n]
                            ELSE pages[q]]
             /\ lru' = SubSeq(order, out + 1, Len(order))
             /\ NoteReach(p, fetch[f].n)
        ELSE UNCHANGED <<pages, lru, size>>

\* Mutant: whatever lands is kept.
AnyFetch(f) == TRUE

\* Not fetched for a source or moment since replaced.
CurrentFetch(f) == fetch[f].gen = gen

Land(f) ==
  /\ fetch[f].step = "land"
  /\ fetch' = [fetch EXCEPT ![f] = IdleFetch]
  /\ IF CurrentFetch(f) THEN LandCurrent(f) ELSE UNCHANGED <<cache, size>>
  /\ UNCHANGED <<version, src, gen, counting, ui, base>>

(***************************************************************************)
(* LoadCount, off the UI goroutine                                         *)
(***************************************************************************)
LoadCount ==
  /\ counting.step = "idle"
  /\ counting' = [IdleCount EXCEPT !.step = "ask", !.gen = gen, !.src = src]
  /\ UNCHANGED <<version, src, gen, cache, size, fetch, ui, base>>

\* Unknown stands for a source that cannot count, and for a count that failed.
Counted ==
  /\ counting.step = "ask"
  /\ \E n \in {Unknown, SizeAt[counting.src][version]} :
       counting' = [counting EXCEPT !.step = "land", !.n = n]
  /\ UNCHANGED <<version, src, gen, cache, size, fetch, ui, base>>

\* Mutant: a count is taken whatever it counted.
AnyCount == TRUE

\* Not a count of a source since replaced.
CurrentCount == counting.gen = gen

LandCount ==
  /\ counting.step = "land"
  /\ counting' = IdleCount
  /\ IF counting.n >= 0 /\ CurrentCount
     THEN total' = counting.n /\ derived' = FALSE /\ kept' = "no"
     ELSE /\ UNCHANGED <<total, derived>>
          /\ kept' = IF kept = "kept" /\ CurrentCount THEN "uncounted" ELSE kept
  /\ UNCHANGED <<version, src, gen, cache, seen, fetch, ui, base>>

(***************************************************************************)
(* Invalidate, and SetFetcher, which stores the new source before it       *)
(* takes the lock.                                                         *)
(***************************************************************************)
DropPages ==
  /\ gen < MaxGen
  /\ gen' = gen + 1
  /\ pages' = [p \in Pages |-> Absent]
  /\ inflight' = {}
  /\ lru' = <<>>
  /\ seen' = 0
  /\ IF derived THEN total' = Unknown /\ derived' = FALSE ELSE UNCHANGED <<total, derived>>
  /\ kept' = IF total # Unknown /\ ~derived THEN "kept" ELSE "no"
  /\ base' = version

Invalidate ==
  /\ ui = AtRest
  /\ DropPages
  /\ UNCHANGED <<version, src, fetch, counting, ui>>

StoreFetcher ==
  /\ ui = AtRest
  /\ gen < MaxGen
  /\ \E s \in Sources : src' = s
  /\ ui' = [at |-> "swap", page |-> 0]
  /\ UNCHANGED <<version, gen, cache, size, fetch, counting, base>>

SetFetcherDrop ==
  /\ ui.at = "swap"
  /\ DropPages
  /\ ui' = AtRest
  /\ UNCHANGED <<version, src, fetch, counting>>

\* Somebody else writes to the table.
Change ==
  /\ version < MaxVersion
  /\ version' = version + 1
  /\ UNCHANGED <<src, gen, cache, size, fetch, counting, ui, base>>

Next ==
  \/ \E p \in Pages : Row(p)
  \/ Touch
  \/ Schedule
  \/ \E f \in Fetches : Answer(f) \/ Land(f)
  \/ LoadCount \/ Counted \/ LandCount
  \/ Invalidate \/ StoreFetcher \/ SetFetcherDrop
  \/ Change

Spec == Init /\ [][Next]_vars

-----------------------------------------------------------------------------
PageRecord == [src : Sources, ver : 0..MaxVersion, n : 0..PageSize]

FetchRecord == [step : {"idle", "ask", "land"}, page : Pages, gen : Nat, src : Sources,
                ver : 0..MaxVersion, n : 0..PageSize, ok : BOOLEAN]

CountRecord == [step : {"idle", "ask", "land"}, gen : Nat, src : Sources, n : Int]

\* Every variable has its type; a total is a count or Unknown, and one derived from a
\* short page (m.derived) is known.
TypeOK ==
  /\ version \in 0..MaxVersion /\ base \in 0..MaxVersion
  /\ src \in Sources /\ gen \in Nat
  /\ pages \in [Pages -> PageRecord \cup {Absent}]
  /\ lru \in Seq(Pages) /\ inflight \subseteq Pages
  /\ total \in Nat \cup {Unknown} /\ seen \in Nat
  /\ derived \in BOOLEAN /\ (derived => total # Unknown)
  /\ kept \in {"no", "kept", "uncounted"}
  /\ fetch \in [Fetches -> FetchRecord]
  /\ counting \in CountRecord
  /\ ui \in [at : {"idle", "touch", "schedule", "swap"}, page : Pages]

Swapping == ui.at = "swap"

\* Rows of a source, or a moment, since replaced "would appear in the wrong place":
\* every resident page was read from the current source after the last Invalidate.
CurrentRows ==
  \A p \in ResidentPages :
    /\ ~Swapping => pages[p].src = src
    /\ base <= pages[p].ver

\* The cache is a window, never an accumulation: at most MaxResident pages, each of
\* which the eviction can still find.
Bounded ==
  /\ Cardinality(ResidentPages) <= MaxResident
  /\ ResidentPages \subseteq Range(lru)

\* A page marked in flight is being fetched once for this generation, and a page
\* fetched for it is marked, so no row stays a placeholder that nothing will fill.
InflightIsFetched ==
  \A p \in Pages :
    Cardinality({f \in Fetches : fetch[f].step # "idle" /\ fetch[f].page = p
                                 /\ fetch[f].gen = gen})
      = IF p \in inflight THEN 1 ELSE 0

\* The table draws no more rows than the total says.  Over data that has not changed since
\* the last Invalidate, a total found by a short page or counted since then hides no row of
\* the source.  A total counted before is set apart: the code keeps it on purpose, "until
\* the next LoadCount replaces it" (model.go:404).
NothingHidden ==
  (total # Unknown /\ kept = "no" /\ ~Swapping /\ base = version)
    => total >= SizeAt[src][version]

\* "A counted total is kept until the next LoadCount replaces it" (model.go:404): once a
\* count asked since the last Invalidate has come back, the total hides no row either.  It
\* does: a source that cannot count, or a count that failed, replaces nothing.
KeptUntilCounted ==
  (total # Unknown /\ kept # "kept" /\ ~Swapping /\ base = version)
    => total >= SizeAt[src][version]
=============================================================================
