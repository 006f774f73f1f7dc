---------------------------- MODULE PendingEdits ----------------------------
(***************************************************************************)
(* Changes to a grid's rows that are not written yet (internal/app/        *)
(* pending.go), how they are made in the window (internal/ui/shell/edit.go,*)
(* paste.go, revert.go) and how they are reviewed, consented to, written   *)
(* and forgotten (commit.go; internal/source/sqlscript/writes.go).         *)
(*                                                                         *)
(* The grid shows the new rows first, then those read, and a command       *)
(* reaches them by their place in it; a change to a row read is kept by    *)
(* the row's key.  One value written into many cells is read for on a      *)
(* goroutine of its own, of which any number may run, and written on the   *)
(* window's later, when the rows it reaches have been read.  The review is *)
(* a sheet: nothing is typed behind it.                                    *)
(*                                                                         *)
(* A row has one column besides its key.  Every value typed is a number of *)
(* its own, and a new row is named by the number it was added at.          *)
(***************************************************************************)
EXTENDS Naturals, FiniteSets, Sequences, SequencesExt

CONSTANTS
  Table,      \* the keys of the table's rows, in the order they are read
  Unkeyed,    \* the key of a row with none: a new row taken for one read
  MaxEdits,   \* bound: values typed and rows added
  MaxReviews, \* bound: reviews opened
  None

ASSUME BoundsAssumption == MaxEdits \in Nat /\ MaxReviews \in Nat

Keys == ToSet(Table) \cup {Unkeyed}

\* A row read is found by its key, which no new row has.
ASSUME TableAssumption ==
  /\ Table \in Seq(ToSet(Table)) /\ IsInjective(Table)
  /\ Keys \cap Nat = {} /\ None \notin [kind : {"update", "delete"}, value : Nat]

VARIABLES
  rows,      \* the rows read, in order: the grid model's pages
  pending,   \* Pending: changes to rows read, in order, and the new rows
  fills,     \* the goroutines of fills, each one's value its own
  dialog,    \* "none", "review", or "consent" on a production connection
  changes,   \* the changeset reviewed: cs, and the plan of it
  writer,    \* committing: "idle", "applying", or how it ended
  gone,      \* keys deleted on the server
  edits, reviews,
  mine,      \* history: changes made and not taken back, as <<row, value>>
  late,      \* history: of those, made while others were being reviewed or written
  reviewed,  \* history: changes some review has shown
  written,   \* history: changes the server holds
  inserted,  \* history: how often each new row was inserted
  doubt,     \* history: a write failed that may have left something
  astray     \* history: a fill wrote where it was not asked to

ghosts == <<mine, late, reviewed, written, inserted, doubt, astray>>
sheet  == <<dialog, changes, writer, gone, reviews>>
vars   == <<rows, pending, fills, sheet, edits, ghosts>>

Nothing == [order |-> <<>>, changed |-> [k \in Keys |-> None], added |-> <<>>]

Init ==
  /\ rows = Table /\ pending = Nothing /\ fills = {}
  /\ dialog = "none" /\ changes = <<>> /\ writer = "idle" /\ gone = {}
  /\ edits = 0 /\ reviews = 0
  /\ mine = {} /\ late = {} /\ reviewed = {} /\ written = {}
  /\ inserted = [n \in 1..MaxEdits |-> 0]
  /\ doubt = FALSE /\ astray = FALSE

-----------------------------------------------------------------------------
(***************************************************************************)
(* Pending                                                                 *)
(***************************************************************************)
Forget(p, k) ==
  LET at == CHOOSE i \in DOMAIN p.order : p.order[i] = k
  IN IF p.changed[k] = None THEN p
     ELSE [p EXCEPT !.order = RemoveAt(@, at), !.changed[k] = None]

Change(p, k, kind, value) ==
  [p EXCEPT !.order = IF p.changed[k] = None THEN Append(@, k) ELSE @,
            !.changed[k] = [kind |-> kind, value |-> value]]

Deleted(p, k) == p.changed[k] # None /\ p.changed[k].kind = "delete"

\* A row to be deleted is not edited; a value the row holds as its own takes the change back.
Set(p, k, value, own) ==
  IF Deleted(p, k) THEN p ELSE IF own THEN Forget(p, k) ELSE Change(p, k, "update", value)
Delete(p, k, value) == Change(p, k, "delete", value)

Add(p, n) == [p EXCEPT !.added = Append(@, [name |-> n, value |-> 0])]
SetAdded(p, i, value) == [p EXCEPT !.added[i].value = value]
RemoveAdded(p, i) == [p EXCEPT !.added = RemoveAt(@, i)]

Count(p) == Len(p.order) + Len(p.added)

\* Changeset: rows read in the order first changed, then the new ones.
Changeset ==
  [i \in DOMAIN pending.order |->
     [row |-> pending.order[i], kind |-> pending.changed[pending.order[i]].kind,
      value |-> pending.changed[pending.order[i]].value]] \o
  [i \in DOMAIN pending.added |->
     [row |-> pending.added[i].name, kind |-> "insert", value |-> pending.added[i].value]]

\* What a change says: a new row says that it is one, too.
Says(c) == {<<c.row, c.value>>} \cup (IF c.kind = "insert" THEN {<<c.row, c.row>>} ELSE {})
Pairs(cs) == UNION {Says(cs[i]) : i \in DOMAIN cs}
Held(p) == {<<k, p.changed[k].value>> : k \in ToSet(p.order)} \cup
           UNION {{<<p.added[i].name, p.added[i].value>>, <<p.added[i].name, p.added[i].name>>} :
                  i \in DOMAIN p.added}

\* What is done in the window to what is pending is meant.
Stage(p) ==
  /\ pending' = p
  /\ mine' = (mine \ Held(pending)) \cup Held(p)
  /\ late' = IF dialog # "none" \/ writer # "idle" THEN late \cup (Held(p) \ Held(pending)) ELSE late

-----------------------------------------------------------------------------
(***************************************************************************)
(* In the window                                                           *)
(***************************************************************************)
Added == Len(pending.added)
Places == 1..(Added + Len(rows))
RowAt(i) == IF i <= Added THEN pending.added[i].name ELSE rows[i - Added]

\* Fills whose places mean other rows from here on: a new row came or went, or the rows
\* were replaced before they were read.
Shifts ==
  fills' = {[x EXCEPT !.steady = @ /\ Len(pending'.added) = Added
                                  /\ (x.at = "reading" => rows' = rows)] : x \in fills}

\* A value typed in a cell; one that is what the row holds takes the change back.
EditCell ==
  /\ dialog = "none" /\ edits < MaxEdits
  /\ \E i \in Places, own \in BOOLEAN :
       IF i <= Added THEN Stage(SetAdded(pending, i, edits + 1))
       ELSE ~Deleted(pending, RowAt(i)) /\ Stage(Set(pending, RowAt(i), edits + 1, own))
  /\ edits' = edits + 1
  /\ UNCHANGED <<rows, fills, sheet, reviewed, written, inserted, doubt, astray>>

InsertRow ==
  /\ dialog = "none" /\ edits < MaxEdits
  /\ Stage(Add(pending, edits + 1)) /\ UNCHANGED rows /\ Shifts
  /\ edits' = edits + 1
  /\ UNCHANGED <<sheet, reviewed, written, inserted, doubt, astray>>

\* deleteRows, of one row.
DeleteRow ==
  /\ dialog = "none" /\ edits < MaxEdits
  /\ \E i \in Places :
       Stage(IF i <= Added THEN RemoveAdded(pending, i) ELSE Delete(pending, RowAt(i), edits + 1))
  /\ UNCHANGED rows /\ Shifts
  /\ edits' = edits + 1
  /\ UNCHANGED <<sheet, reviewed, written, inserted, doubt, astray>>

\* Mutant: changes being written may be reviewed again.
ReviewableAlways(p) == Count(p) > 0

Reviewable(p) == Count(p) > 0 /\ writer = "idle"

\* revertRows, of one row; discardAll.
Revert ==
  /\ dialog = "none" /\ Reviewable(pending)
  /\ \/ \E i \in Places : Stage(IF i <= Added THEN RemoveAdded(pending, i) ELSE Forget(pending, RowAt(i)))
     \/ Stage(Nothing)
  /\ UNCHANGED rows /\ Shifts
  /\ UNCHANGED <<sheet, edits, reviewed, written, inserted, doubt, astray>>

(***************************************************************************)
(* fill: one value, into every cell selected                               *)
(***************************************************************************)
StartFill ==
  /\ dialog = "none" /\ edits < MaxEdits
  /\ \E i \in Places : \E j \in i..(Added + Len(rows)) :
       fills' = fills \cup
         {[at |-> "reading", from |-> i, to |-> j, value |-> edits + 1,
           meant |-> [n \in 1..(j - i + 1) |-> RowAt(i + n - 1)], got |-> <<>>, steady |-> TRUE]}
  /\ edits' = edits + 1
  /\ UNCHANGED <<rows, pending, sheet, ghosts>>

\* Model.Read, of the rows there then; it may fail.
ReadRows ==
  /\ \E x \in fills :
       /\ x.at = "reading"
       /\ \/ fills' = (fills \ {x}) \cup
               {[x EXCEPT !.at = "read",
                          !.got = [n \in 1..Cardinality(Places \cap (x.from..x.to)) |-> RowAt(x.from + n - 1)]]}
          \/ fills' = fills \ {x}
  /\ UNCHANGED <<rows, pending, sheet, edits, ghosts>>

\* Mutant: by its place in the grid now, whatever was read.
TargetNow(x, n) == IF x.from + n - 1 \in Places THEN RowAt(x.from + n - 1) ELSE Unkeyed

\* The row a value goes to, by its place in the grid now if that is among the new rows.
Target(x, n) ==
  IF x.from + n - 1 <= Added THEN pending.added[x.from + n - 1].name
  ELSE IF x.got[n] \in Keys THEN x.got[n] ELSE Unkeyed

\* setter, for each row reached; own are the rows that hold the value as it is.
Write(x, own, p, n) ==
  IF Target(x, n) \in Keys THEN Set(p, Target(x, n), x.value, Target(x, n) \in own)
  ELSE SetAdded(p, x.from + n - 1, x.value)

\* One after the other.
Filled(x, own) ==
  LET F[n \in 0..Len(x.got)] == IF n = 0 THEN pending ELSE Write(x, own, F[n - 1], n) IN F

FillRows ==
  /\ \E x \in fills, own \in SUBSET ToSet(Table) :
       /\ x.at = "read"
       /\ Stage(Filled(x, own)[Len(x.got)])
       /\ astray' = (astray \/ (x.steady /\ \E n \in DOMAIN x.got : Target(x, n) # x.meant[n]))
       /\ fills' = fills \ {x}
  /\ UNCHANGED <<rows, sheet, edits, reviewed, written, inserted, doubt>>

-----------------------------------------------------------------------------
(***************************************************************************)
(* Review, consent, commit                                                 *)
(***************************************************************************)
Review ==
  /\ dialog = "none" /\ Reviewable(pending) /\ reviews < MaxReviews
  /\ dialog' = "review" /\ changes' = Changeset
  /\ reviews' = reviews + 1
  /\ reviewed' = reviewed \cup Pairs(Changeset)
  /\ UNCHANGED <<rows, pending, fills, writer, gone, edits, mine, late, written, inserted, doubt, astray>>

Apply == dialog' = "none" /\ writer' = "applying"

\* Mutant: with the consent, what is pending by then is planned.
ConsentToAll ==
  /\ dialog = "consent"
  /\ \/ dialog' = "none" /\ UNCHANGED <<writer, changes>>
     \/ Apply /\ changes' = Changeset
  /\ UNCHANGED <<rows, pending, fills, gone, edits, reviews, ghosts>>

\* Cancelled; or committed, at once or, where the plan is guarded, after asking again.
Answered ==
  /\ dialog = "review" /\ writer = "idle"
  /\ \/ dialog' \in {"none", "consent"} /\ UNCHANGED writer
     \/ Apply
  /\ UNCHANGED <<rows, pending, fills, changes, gone, edits, reviews, ghosts>>

\* The changeset reviewed is planned again, with the consent.
Consent ==
  /\ dialog = "consent"
  /\ \/ dialog' = "none" /\ UNCHANGED writer
     \/ Apply
  /\ UNCHANGED <<rows, pending, fills, changes, gone, edits, reviews, ghosts>>

\* Some of the statements of the plan, from the first on, take effect.
Lands(n) ==
  LET done == SubSeq(changes, 1, n) IN
  /\ written' = written \cup Pairs(done)
  /\ gone' = gone \cup {done[i].row : i \in {j \in 1..n : done[j].kind = "delete"}}
  /\ inserted' = [m \in DOMAIN inserted |->
       inserted[m] + Cardinality({i \in 1..n : done[i].kind = "insert" /\ done[i].row = m})]

\* A statement that reaches no row fails.
Fails(i) == changes[i].kind # "insert" /\ (changes[i].row = Unkeyed \/ changes[i].row \in gone)

\* ApplyWith: all of the plan; or up to a statement that fails, undone where the source
\* can; or the commit fails, and the server may have kept it.
Writes ==
  /\ writer = "applying"
  /\ \/ /\ \A i \in DOMAIN changes : ~Fails(i)
        /\ writer' = "done" /\ Lands(Len(changes)) /\ UNCHANGED doubt
     \/ \E i \in DOMAIN changes : \E kept \in {0, i - 1} :
          /\ \A j \in 1..(i - 1) : ~Fails(j)
          /\ writer' = "failed" /\ Lands(kept) /\ doubt' = (doubt \/ kept > 0)
     \/ /\ \A i \in DOMAIN changes : ~Fails(i)
        /\ writer' = "failed" /\ Lands(Len(changes)) /\ doubt' = TRUE
  /\ UNCHANGED <<rows, pending, fills, dialog, changes, edits, reviews, mine, late, reviewed, astray>>

\* Mutant: a commit that failed forgets the changes too.
AppliedAnyhow ==
  /\ writer \in {"done", "failed"}
  /\ writer' = "idle" /\ pending' = Nothing /\ UNCHANGED rows /\ Shifts
  /\ UNCHANGED <<dialog, changes, gone, edits, reviews, ghosts>>

\* The rows there are, of the first so many of the table.
Left[n \in 0..Len(Table)] ==
  IF n = 0 THEN <<>>
  ELSE IF Table[n] \in gone THEN Left[n - 1] ELSE Append(Left[n - 1], Table[n])

\* applied: written, everything pending is forgotten and the rows are read again.
Applied ==
  /\ writer \in {"done", "failed"}
  /\ writer' = "idle"
  /\ IF writer = "done"
     THEN pending' = Nothing /\ rows' = Left[Len(Table)] /\ Shifts
     ELSE UNCHANGED <<pending, rows, fills>>
  /\ UNCHANGED <<dialog, changes, gone, edits, reviews, ghosts>>

-----------------------------------------------------------------------------
Next ==
  \/ EditCell \/ InsertRow \/ DeleteRow \/ Revert
  \/ StartFill \/ ReadRows \/ FillRows
  \/ Review \/ Answered \/ Consent \/ Writes \/ Applied

Spec == Init /\ [][Next]_vars

-----------------------------------------------------------------------------
\* A change made and not taken back is pending until it is written ("If the commit fails,
\* nothing is forgotten").  Not said of those made while others are reviewed or written
\* (NothingForgotten).
Kept == mine \ late \subseteq Held(pending) \cup written

\* Does not hold (README, section 6).
NothingForgotten == mine \subseteq Held(pending) \cup written

\* No row is inserted twice, unless a write failed that may have left it there.
InsertedOnce == doubt \/ \A n \in DOMAIN inserted : inserted[n] <= 1

\* What is written some review showed, value by value, however the window's state has
\* moved on while it was read and consented to (FR-4.4).
ReviewedIsWritten == written \subseteq reviewed

\* A value for the selected cells goes to the rows that were selected, though the rows
\* were replaced once it had read them, if no new row came or went; not otherwise
\* (FillsTheSelected).
FillsWhatItRead == ~astray

\* Does not hold (README, section 6).
FillsTheSelected ==
  [][\A x \in fills : x.at = "read" /\ fills' = fills \ {x}
       => \A n \in DOMAIN x.got : Target(x, n) = x.meant[n]]_vars
=============================================================================
