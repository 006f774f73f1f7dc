---------------------------- MODULE Browse_proofs ---------------------------
(***************************************************************************)
(* What holds of the explorer for any tree, any number of loads and badge  *)
(* reads at once and any refreshes, whatever the server lists and whenever *)
(* it answers.                                                             *)
(*                                                                         *)
(* Then, of the saved connection behind a row, for any number of tabs,     *)
(* dials and edits: its variables keep their types, no pool is left that   *)
(* nobody could close, a connection said to be closed says nothing more,   *)
(* whoever waits waits for something under way, and the row says what is   *)
(* so or is about to be drawn.                                             *)
(*                                                                         *)
(* Then, of the schema cache each open connection has, for any server      *)
(* and any number of requests and loads: nothing it holds was read before  *)
(* it was last emptied, whatever is marked as loading is being loaded, and *)
(* a popup that lacks something will be told of it.                        *)
(***************************************************************************)
EXTENDS ExplorerTree, Workspace, SchemaCache, Integers, Sequences, TLAPS

-----------------------------------------------------------------------------
(***************************************************************************)
(* The tree                                                                *)
(***************************************************************************)
\* What is above a node is what its parents lead to, and no more.
LEMMA Closure ==
  ASSUME NEW n \in Nodes
  PROVE  /\ n # Root /\ Parent[n] \in Places /\ Parent[n] \in Above[n] /\ Above[n] \subseteq Places
         /\ \A k \in Above[n] \ {Root} : k \in Nodes /\ Parent[k] \in Above[n]
         /\ \A S \in SUBSET Places :
              Parent[n] \in S /\ (\A k \in S \ {Root} : Parent[k] \in S) => Above[n] \subseteq S
<1> USE TreeOfNodes DEF Places
<1> DEFINE Closed(S) == Parent[n] \in S /\ (\A k \in S \ {Root} : Parent[k] \in S)
<1>1. n # Root /\ Above[n] = {m \in Places : \A S \in SUBSET Places : Closed(S) => m \in S}
  BY DEF Above
<1>2. Parent[n] \in Places
  OBVIOUS
<1> HIDE DEF Closed
<1>3. Parent[n] \in Above[n]
  BY <1>1, <1>2 DEF Closed
<1>4. ASSUME NEW k \in Above[n] \ {Root} PROVE k \in Nodes /\ Parent[k] \in Above[n]
  <2>1. k \in Nodes /\ Parent[k] \in Places
    BY <1>1
  <2>2. ASSUME NEW S \in SUBSET Places, Closed(S) PROVE Parent[k] \in S
    <3>1. k \in S
      BY <1>1, <2>2
    <3> QED  BY <2>2, <3>1 DEF Closed
  <2> QED  BY <1>1, <2>1, <2>2
<1>5. ASSUME NEW S \in SUBSET Places, Closed(S) PROVE Above[n] \subseteq S
  BY <1>1, <1>5
<1>6. Above[n] \subseteq Places
  BY <1>1
<1> QED  BY <1>1, <1>2, <1>3, <1>4, <1>5, <1>6 DEF Closed

LEMMA NothingAboveRoot == Above[Root] = {}
BY DEF Above, Places

\* Whatever is above a branch is above what is in it.
LEMMA Outwards ==
  ASSUME NEW n \in Nodes, NEW m \in Above[n]
  PROVE  Above[m] \subseteq Above[n]
<1>1. CASE m = Root
  BY <1>1, NothingAboveRoot
<1>2. CASE m # Root
  <2>1. m \in Nodes /\ Parent[m] \in Above[n] /\ Above[n] \in SUBSET Places
    BY <1>2, Closure
  <2>2. \A k \in Above[n] \ {Root} : Parent[k] \in Above[n]
    BY Closure
  <2> QED  BY <2>1, <2>2, Closure
<1> QED  BY <1>1, <1>2

LEMMA AboveIs ==
  ASSUME NEW n \in Nodes
  PROVE  Above[n] = {Parent[n]} \cup Above[Parent[n]]
<1> DEFINE p == Parent[n]  S == {p} \cup Above[p]
<1>1. p \in Places /\ p \in Above[n]
  BY Closure
<1>2. S \subseteq Above[n]
  BY <1>1, Outwards
<1>3. S \in SUBSET Places
  BY <1>1, <1>2, Closure
<1>4. ASSUME NEW k \in S \ {Root} PROVE Parent[k] \in S
  <2>1. p # Root
    BY <1>4, NothingAboveRoot
  <2>2. p \in Nodes
    BY <1>1, <2>1 DEF Places
  <2> QED  BY <1>4, <2>2, Closure
<1>5. Above[n] \subseteq S
  <2>1. \A T \in SUBSET Places :
          Parent[n] \in T /\ (\A k \in T \ {Root} : Parent[k] \in T) => Above[n] \subseteq T
    BY Closure
  <2>2. Parent[n] \in S
    OBVIOUS
  <2> HIDE DEF S
  <2> QED  BY <1>3, <1>4, <2>1, <2>2
<1> QED  BY <1>2, <1>5

LEMMA NoCycle ==
  ASSUME NEW n \in Nodes, NEW m \in Above[n]
  PROVE  n # m /\ n \notin Above[m] /\ Parent[n] # n
<1>1. n \notin Above[n]
  BY RootedAssumption
<1> QED  BY <1>1, Outwards, Closure

LEMMA AboveBranches ==
  ASSUME NEW n \in Nodes
  PROVE  Above[n] \subseteq {Root} \cup Branches
<1>1. {Root} \cup Branches \in SUBSET Places
  BY TreeOfNodes DEF Places
<1>2. Parent[n] \in {Root} \cup Branches /\ \A k \in Branches : Parent[k] \in {Root} \cup Branches
  BY TreeOfNodes
<1> QED  BY <1>1, <1>2, Closure

\* Between a node and a branch above it there is one that is in the branch.
LEMMA Through ==
  ASSUME NEW n \in Nodes, NEW b \in Above[n]
  PROVE  \E c \in ({n} \cup Above[n]) \ {Root} : c \in Nodes /\ Parent[c] = b
<1> DEFINE S == {k \in Above[n] : \E c \in ({n} \cup Above[n]) \ {Root} : c \in Nodes /\ Parent[c] = k}
<1>1. S \in SUBSET Places
  BY Closure
<1>2. Parent[n] \in S
  BY Closure
<1>3. ASSUME NEW k \in S \ {Root} PROVE Parent[k] \in S
  BY Closure
<1> HIDE DEF S
<1>4. Above[n] \subseteq S
  BY <1>1, <1>2, <1>3, Closure
<1> QED  BY <1>4 DEF S

-----------------------------------------------------------------------------
(***************************************************************************)
(* The invariant                                                           *)
(***************************************************************************)
Kinds == {"absent", "unloaded", "loading", "loaded", "failed"}
Entries == [at : Kinds, gen : Nat, cancel : Loads \cup {None}, kids : SUBSET Nodes, asked : Nat]
LoadRecords == [at : {"free", "reading", "answered", "telling", "opening"}, node : Places,
                gen : Nat, ok : BOOLEAN, kids : SUBSET Nodes, asked : Nat]
Drawings == [as : Kinds \cup {"none"}, kids : SUBSET Nodes]
FetchRecords == [at : {"free", "reading"}, node : Places, asked : Nat]

\* The types: of the tree and its loads, of what is drawn, of the badges.
TreeTypes ==
  /\ entries \in [Places -> Entries]
  /\ load \in [Loads -> LoadRecords]
  /\ refreshes \in Nat /\ since \in [Places -> Nat]
  /\ revived \subseteq Nodes

ViewTypes ==
  /\ open \subseteq Branches
  /\ shown \in [Places -> Drawings]
  /\ queued \in BOOLEAN
  /\ ui \in [at : {"idle", "asking", "updating"}, left : SUBSET Places]

MarkTypes ==
  /\ badges \in [Badged -> [known : BOOLEAN, asked : Nat]]
  /\ waiting \in [Badged -> Fetches \cup {None}]
  /\ fetch \in [Fetches -> FetchRecords]

Types == TreeTypes /\ ViewTypes /\ MarkTypes

\* Only a loaded branch lists anything, and only what is its own and is there; what a load
\* answers is of its branch, and an error lists nothing.
Lists ==
  /\ Present(Root)
  /\ \A p \in Places : /\ entries[p].kids # {} => entries[p].at = "loaded"
                       /\ \A m \in entries[p].kids : Parent[m] = p /\ Present(m)
  /\ \A l \in Loads : /\ load[l].at = "answered" => \A m \in load[l].kids : Parent[m] = load[l].node
                      /\ load[l].at = "reading" => load[l].kids = {} /\ ~load[l].ok
                      /\ load[l].at = "answered" /\ ~load[l].ok => load[l].kids = {}

\* Neither a node nor a branch it is in was listed again over a load of before.
Clean(n) == ({n} \cup Above[n]) \cap revived = {}

\* A node that is there is listed by its branch, so the tree has no loose ends.
Rooted == \A n \in Nodes : Clean(n) /\ Present(n) => n \in entries[Parent[n]].kids

\* A load that may still answer is of a generation past, or is the one its branch waits
\* for, and was asked for since the last refresh.
LastLoad(l) ==
  LET n == load[l].node IN
  Clean(n) /\ Present(n) =>
    /\ load[l].gen <= entries[n].gen
    /\ load[l].gen = entries[n].gen =>
         entries[n].at = "loading" /\ entries[n].cancel = l /\ load[l].asked >= since[n]

Followed ==
  /\ \A n \in Places : since[n] <= refreshes
  /\ \A l \in Loads : InFlight(l) => LastLoad(l)
  /\ CurrentAnswers

\* Whoever waits for a badge waits for a read of it that is under way.
Wait(n) == waiting[n] # None =>
  /\ fetch[waiting[n]].at = "reading" /\ fetch[waiting[n]].node = n
  /\ revived = {} => fetch[waiting[n]].asked >= since[n]

Marked ==
  /\ \A n \in Badged : Wait(n)
  /\ revived = {} => \A n \in Badged : badges[n].known \/ waiting[n] # None => Present(n)
  /\ CurrentBadges

\* A refresh was asked for, or is about to be.
Pending == queued \/ \E l \in Loads : load[l].at = "telling"

\* The refresh under way has yet to ask a branch, or one that is above it.
Unasked(b) == ui.at = "asking" /\ ({b} \cup Above[b]) \cap ui.left # {}

\* With no refresh pending, what is drawn of a branch is what the tree has of it, or the
\* refresh under way comes to it; and the same of the rows and their badges.
Drawn ==
  /\ \A b \in Places : shown[b].as # "unloaded"
  /\ ~Pending =>
       /\ \A b \in Places : DrawnBranch(b) => shown[b] = Answer(b) \/ Unasked(b)
       /\ \A n \in Rows \cap Badged :
            \/ badges[n].known \/ waiting[n] # None
            \/ ui.at = "asking" \/ (ui.at = "updating" /\ n \in ui.left)

-----------------------------------------------------------------------------
(***************************************************************************)
(* The steps, as the tree's invariants see them                            *)
(***************************************************************************)

\* The blank records.
LEMMA BlankRecords ==
  /\ Gone = [at |-> "absent", gen |-> 0, cancel |-> None, kids |-> {}, asked |-> 0]
  /\ Unloaded = [at |-> "unloaded", gen |-> 0, cancel |-> None, kids |-> {}, asked |-> 0]
  /\ \A g : [Unloaded EXCEPT !.gen = g] =
       [at |-> "unloaded", gen |-> g, cancel |-> None, kids |-> {}, asked |-> 0]
  /\ Gone \in Entries /\ Unloaded \in Entries /\ \A g \in Nat : [Unloaded EXCEPT !.gen = g] \in Entries
  /\ NoLoad.at = "free" /\ NoLoad.kids = {} /\ NoLoad \in LoadRecords
<1>1. Gone = [at |-> "absent", gen |-> 0, cancel |-> None, kids |-> {}, asked |-> 0]
  BY DEF Gone
<1>2. Unloaded = [at |-> "unloaded", gen |-> 0, cancel |-> None, kids |-> {}, asked |-> 0]
  BY DEF Gone, Unloaded
<1>3. \A g : [Unloaded EXCEPT !.gen = g] =
        [at |-> "unloaded", gen |-> g, cancel |-> None, kids |-> {}, asked |-> 0]
  BY <1>2
<1>4. Gone \in Entries /\ Unloaded \in Entries /\ \A g \in Nat : [Unloaded EXCEPT !.gen = g] \in Entries
  BY <1>1, <1>2, <1>3 DEF Entries, Kinds
<1>5. NoLoad.at = "free" /\ NoLoad.kids = {} /\ NoLoad \in LoadRecords
  BY DEF NoLoad, LoadRecords, Places
<1> QED  BY <1>1, <1>2, <1>3, <1>4, <1>5

LoadRow(a, n, g, o, ks, s) ==
  [at |-> a, node |-> n, gen |-> g, ok |-> o, kids |-> ks, asked |-> s]

\* A load's record, a field at a time.
LEMMA LoadFields ==
  ASSUME NEW r \in LoadRecords, NEW o \in BOOLEAN, NEW ks \in SUBSET Nodes
  PROVE  /\ [r EXCEPT !.at = "answered"] = LoadRow("answered", r.node, r.gen, r.ok, r.kids, r.asked)
         /\ [r EXCEPT !.ok = o] = LoadRow(r.at, r.node, r.gen, o, r.kids, r.asked)
         /\ [r EXCEPT !.kids = ks] = LoadRow(r.at, r.node, r.gen, r.ok, ks, r.asked)
BY DEF LoadRecords, LoadRow

LEMMA RowFields ==
  ASSUME NEW a \in {"free", "reading", "answered", "telling", "opening"}, NEW n \in Places,
         NEW g \in Nat, NEW o \in BOOLEAN, NEW ks \in SUBSET Nodes, NEW s \in Nat
  PROVE  LET r == LoadRow(a, n, g, o, ks, s) IN
         /\ r \in LoadRecords
         /\ r.at = a /\ r.node = n /\ r.gen = g /\ r.ok = o /\ r.kids = ks /\ r.asked = s
BY DEF LoadRecords, LoadRow

\* What Read writes of a load.
LEMMA AnswerRow ==
  ASSUME NEW r \in LoadRecords, NEW ks \in SUBSET Nodes, NEW t \in BOOLEAN
  PROVE  [[[r EXCEPT !.at = "answered"] EXCEPT !.ok = t] EXCEPT !.kids = ks]
           = LoadRow("answered", r.node, r.gen, t, ks, r.asked)
<1> DEFINE q == LoadRow("answered", r.node, r.gen, r.ok, r.kids, r.asked)
           p == LoadRow("answered", r.node, r.gen, t, r.kids, r.asked)
<1>0. r.node \in Places /\ r.gen \in Nat /\ r.ok \in BOOLEAN /\ r.kids \in SUBSET Nodes /\ r.asked \in Nat
  BY DEF LoadRecords
<1>1. [r EXCEPT !.at = "answered"] = q
  BY LoadFields
<1>q. /\ q \in LoadRecords /\ q.at = "answered" /\ q.node = r.node /\ q.gen = r.gen /\ q.ok = r.ok
      /\ q.kids = r.kids /\ q.asked = r.asked
  BY <1>0, RowFields
<1>p. /\ p \in LoadRecords /\ p.at = "answered" /\ p.node = r.node /\ p.gen = r.gen /\ p.ok = t
      /\ p.kids = r.kids /\ p.asked = r.asked
  BY <1>0, RowFields
<1> HIDE DEF q, p
<1>2. [q EXCEPT !.ok = t] = LoadRow("answered", r.node, r.gen, t, r.kids, r.asked)
  <2>1. [q EXCEPT !.ok = t] = LoadRow(q.at, q.node, q.gen, t, q.kids, q.asked)
    BY <1>q, LoadFields
  <2> QED  BY <1>q, <2>1, Zenon
<1>3. [p EXCEPT !.kids = ks] = LoadRow("answered", r.node, r.gen, t, ks, r.asked)
  <2>1. [p EXCEPT !.kids = ks] = LoadRow(p.at, p.node, p.gen, p.ok, ks, p.asked)
    BY <1>p, LoadFields
  <2> QED  BY <1>p, <2>1, Zenon
<1>4. p = LoadRow("answered", r.node, r.gen, t, r.kids, r.asked)
  BY DEF p
<1> QED  BY <1>1, <1>2, <1>3, <1>4, Zenon


\* A branch that was not loaded is being loaded, by k; another goroutine may have
\* branches left to open.
Begins(n, k) ==
  /\ n \in Places /\ k \in Loads /\ entries[n].at = "unloaded"
  /\ entries' \in [Places -> Entries] /\ load' \in [Loads -> LoadRecords]
  /\ entries'[n].at = "loading" /\ entries'[n].gen = entries[n].gen + 1
  /\ entries'[n].cancel = k /\ entries'[n].kids = entries[n].kids
  /\ \A m \in Places : m # n => entries'[m] = entries[m]
  /\ load'[k].at = "reading" /\ load'[k].node = n /\ load'[k].gen = entries[n].gen + 1
  /\ load'[k].kids = {} /\ ~load'[k].ok /\ load'[k].asked = refreshes
  /\ load[k].at \in {"free", "opening"}
  /\ \A j \in Loads : j # k =>
       load'[j] = load[j] \/ (load[j].at = "opening" /\ load'[j].at = "opening")

\* The answer of l is taken.
Takes(l) ==
  LET n == load[l].node
      kids == load[l].kids IN
  /\ l \in Loads /\ n \in Places /\ load[l].at = "answered" /\ Awaited(l)
  /\ entries' \in [Places -> Entries] /\ load' \in [Loads -> LoadRecords]
  /\ entries'[n].at = (IF load[l].ok THEN "loaded" ELSE "failed")
  /\ entries'[n].gen = entries[n].gen /\ entries'[n].kids = kids
  /\ entries'[n].asked = load[l].asked
  /\ \A m \in Places : m # n => entries'[m] = IF m \in kids THEN Unloaded ELSE entries[m]
  /\ revived' = revived \cup {m \in kids : \E k \in Loads : InFlight(k) /\ load[k].node = m}
  /\ load'[l].at = "telling" /\ \A j \in Loads : j # l => load'[j] = load[j]

\* The goroutine l goes on, and nothing in the tree changes yet.
Goes(l) ==
  /\ l \in Loads /\ entries' = entries /\ load' \in [Loads -> LoadRecords]
  /\ \A j \in Loads : j # l => load'[j] = load[j]
  /\ \/ ~InFlight(l)'
     \/ /\ load[l].at = "reading" /\ load'[l].at = "answered"
        /\ load'[l].node = load[l].node /\ load'[l].gen = load[l].gen
        /\ load'[l].asked = load[l].asked
        /\ \/ load'[l].ok /\ \A m \in load'[l].kids : Parent[m] = load[l].node
           \/ load'[l].ok = load[l].ok /\ load'[l].kids = load[l].kids

\* Each action is one of these, or leaves the tree alone.
LEMMA LoadStarts ==
  ASSUME TreeTypes, NEW n \in Places, NEW k \in Loads, NEW others \in [Loads -> LoadRecords],
         StartLoad(n, k, others), load[k].at \in {"free", "opening"},
         \A j \in Loads : j # k =>
           others[j] = load[j] \/ (load[j].at = "opening" /\ others[j].at = "opening")
  PROVE  Begins(n, k)
<1> DEFINE e == entries[n]
           new == [at |-> "reading", node |-> n, gen |-> e.gen + 1,
                   ok |-> FALSE, kids |-> {}, asked |-> refreshes]
           to == [at |-> "loading", gen |-> e.gen + 1, cancel |-> k, kids |-> e.kids, asked |-> e.asked]
<1>1. e \in Entries /\ refreshes \in Nat
  BY DEF TreeTypes
<1>2. load' = [others EXCEPT ![k] = new] /\ e.at = "unloaded"
  BY DEF StartLoad
<1>3. new \in LoadRecords
  BY <1>1 DEF LoadRecords, Entries
<1>4. load' \in [Loads -> LoadRecords] /\ load'[k] = new /\ \A j \in Loads : j # k => load'[j] = others[j]
  BY <1>2, <1>3
<1>5. entries' = [entries EXCEPT ![n] = [[[e EXCEPT !.at = "loading"] EXCEPT !.gen = e.gen + 1]
                                           EXCEPT !.cancel = k]]
  BY DEF StartLoad, TreeTypes, Entries
<1>6. [[[e EXCEPT !.at = "loading"] EXCEPT !.gen = e.gen + 1] EXCEPT !.cancel = k]
        = to
  <2>1. [e EXCEPT !.at = "loading"]
          = [at |-> "loading", gen |-> e.gen, cancel |-> e.cancel, kids |-> e.kids, asked |-> e.asked]
    BY <1>1 DEF Entries
  <2>2. [[at |-> "loading", gen |-> e.gen, cancel |-> e.cancel, kids |-> e.kids, asked |-> e.asked]
           EXCEPT !.gen = e.gen + 1]
          = [at |-> "loading", gen |-> e.gen + 1, cancel |-> e.cancel, kids |-> e.kids, asked |-> e.asked]
    OBVIOUS
  <2>3. [[at |-> "loading", gen |-> e.gen + 1, cancel |-> e.cancel, kids |-> e.kids, asked |-> e.asked]
           EXCEPT !.cancel = k] = to
    OBVIOUS
  <2> HIDE DEF e, to
  <2> QED  BY <2>1, <2>2, <2>3, Zenon
<1>7. to \in Entries
  BY <1>1 DEF Entries, Kinds
<1>8. entries' = [entries EXCEPT ![n] = to]
  BY <1>5, <1>6
<1>9. entries' \in [Places -> Entries] /\ entries'[n] = to
        /\ \A m \in Places : m # n => entries'[m] = entries[m]
  BY <1>7, <1>8 DEF TreeTypes
<1> QED  BY <1>2, <1>4, <1>9 DEF Begins

LEMMA ReadGoes ==
  ASSUME TreeTypes, NEW l \in Loads, Read(l)
  PROVE  Goes(l) /\ UNCHANGED <<refreshes, since, revived>>
<1>1. load[l] \in LoadRecords
  BY DEF TreeTypes
<1>2. ASSUME NEW kids \in SUBSET {n \in Nodes : Parent[n] = load[l].node},
             load' = [load EXCEPT ![l].at = "answered", ![l].ok = TRUE, ![l].kids = kids]
      PROVE  Goes(l)
  <2> DEFINE to == LoadRow("answered", load[l].node, load[l].gen, TRUE, kids, load[l].asked)
  <2>1. [[[load[l] EXCEPT !.at = "answered"] EXCEPT !.ok = TRUE] EXCEPT !.kids = kids] = to
    BY <1>1, AnswerRow
  <2>2. load' = [load EXCEPT ![l] = [[[load[l] EXCEPT !.at = "answered"] EXCEPT !.ok = TRUE]
                                       EXCEPT !.kids = kids]]
    BY <1>2 DEF TreeTypes, LoadRecords
  <2>3. /\ to \in LoadRecords
        /\ to.at = "answered" /\ to.node = load[l].node /\ to.gen = load[l].gen
        /\ to.ok /\ to.kids = kids /\ to.asked = load[l].asked
    <3>1. load[l].node \in Places /\ load[l].gen \in Nat /\ load[l].asked \in Nat
      BY <1>1 DEF LoadRecords
    <3> QED  BY <3>1 DEF LoadRow, LoadRecords
  <2> HIDE DEF to
  <2>4. load' \in [Loads -> LoadRecords] /\ load'[l] = to /\ \A j \in Loads : j # l => load'[j] = load[j]
    BY <2>1, <2>2, <2>3 DEF TreeTypes
  <2>5. load[l].at = "reading" /\ entries' = entries
    BY DEF Read
  <2> QED  BY <2>3, <2>4, <2>5 DEF Goes
<1>3. ASSUME load' = [load EXCEPT ![l].at = "answered"] PROVE Goes(l)
  <2> DEFINE to == [load[l] EXCEPT !.at = "answered"]
  <2>1. to = [at |-> "answered", node |-> load[l].node, gen |-> load[l].gen, ok |-> load[l].ok,
              kids |-> load[l].kids, asked |-> load[l].asked] /\ to \in LoadRecords
    BY <1>1 DEF LoadRecords
  <2>2. load' \in [Loads -> LoadRecords] /\ load'[l] = to /\ \A j \in Loads : j # l => load'[j] = load[j]
    BY <1>3, <2>1 DEF TreeTypes
  <2>3. load[l].at = "reading" /\ entries' = entries
    BY DEF Read
  <2> QED  BY <2>1, <2>2, <2>3 DEF Goes
<1> QED  BY <1>2, <1>3 DEF Read

Taken(e, a, ks, s) == [e EXCEPT !.at = a, !.cancel = None, !.kids = ks, !.asked = s]

\* What Record writes of an entry.
LEMMA EntryTaken ==
  ASSUME NEW e \in Entries, NEW a \in Kinds, NEW ks \in SUBSET Nodes, NEW s \in Nat
  PROVE  /\ Taken(e, a, ks, s) \in Entries /\ Taken(e, a, ks, s).at = a
         /\ Taken(e, a, ks, s).gen = e.gen /\ Taken(e, a, ks, s).kids = ks
         /\ Taken(e, a, ks, s).asked = s
<1> DEFINE r1 == [at |-> a, gen |-> e.gen, cancel |-> e.cancel, kids |-> e.kids, asked |-> e.asked]
           r2 == [at |-> a, gen |-> e.gen, cancel |-> None, kids |-> e.kids, asked |-> e.asked]
           r3 == [at |-> a, gen |-> e.gen, cancel |-> None, kids |-> ks, asked |-> e.asked]
           r4 == [at |-> a, gen |-> e.gen, cancel |-> None, kids |-> ks, asked |-> s]
<1>1. [e EXCEPT !.at = a] = r1
  BY DEF Entries
<1>2. [r1 EXCEPT !.cancel = None] = r2
  OBVIOUS
<1>3. [r2 EXCEPT !.kids = ks] = r3
  OBVIOUS
<1>4. [r3 EXCEPT !.asked = s] = r4
  OBVIOUS
<1>5. r4 \in Entries /\ r4.at = a /\ r4.gen = e.gen /\ r4.kids = ks /\ r4.asked = s
  BY DEF Entries
<1> HIDE DEF r1, r2, r3, r4
<1>6. [[[[e EXCEPT !.at = a] EXCEPT !.cancel = None] EXCEPT !.kids = ks] EXCEPT !.asked = s] = r4
  BY <1>1, <1>2, <1>3, <1>4, Zenon
<1>7. Taken(e, a, ks, s)
        = [[[[e EXCEPT !.at = a] EXCEPT !.cancel = None] EXCEPT !.kids = ks] EXCEPT !.asked = s]
  BY DEF Entries, Taken
<1> QED  BY <1>5, <1>6, <1>7, Zenon

LEMMA LandDoes ==
  ASSUME TreeTypes, NEW l \in Loads, Land(l)
  PROVE  /\ UNCHANGED <<view, queued, marks, refreshes, since>>
         /\ Takes(l) \/ (Goes(l) /\ ~InFlight(l)' /\ load'[l].at = "free" /\ UNCHANGED revived)
<1> DEFINE n == load[l].node  kids == load[l].kids
<1>0. load[l] \in LoadRecords /\ load[l].at = "answered"
  BY DEF TreeTypes, Land
<1>t. n \in Places /\ kids \in SUBSET Nodes /\ entries[n] \in Entries
  BY <1>0 DEF TreeTypes, LoadRecords
<1>1. CASE Awaited(l) /\ Record(l) /\ load' = [load EXCEPT ![l] =
             [NoLoad EXCEPT !.at = "telling", !.kids = load[l].kids \cap Eager]]
  <2> DEFINE to == [NoLoad EXCEPT !.at = "telling", !.kids = load[l].kids \cap Eager]
             done == [entries[n] EXCEPT !.at = IF load[l].ok THEN "loaded" ELSE "failed",
                                        !.cancel = None, !.kids = kids, !.asked = load[l].asked]
  <2>1. to = [[NoLoad EXCEPT !.at = "telling"] EXCEPT !.kids = kids \cap Eager]
    BY DEF NoLoad
  <2>2. to \in LoadRecords /\ to.at = "telling"
    <3>1. [NoLoad EXCEPT !.at = "telling"] \in LoadRecords /\ [NoLoad EXCEPT !.at = "telling"].at = "telling"
      BY BlankRecords DEF LoadRecords
    <3> HIDE DEF to
    <3> QED  BY <1>t, <2>1, <3>1 DEF LoadRecords
  <2>3. load' = [load EXCEPT ![l] = to]
    BY <1>1
  <2> HIDE DEF to
  <2>4. /\ load' \in [Loads -> LoadRecords] /\ load'[l].at = "telling"
        /\ \A j \in Loads : j # l => load'[j] = load[j]
    BY <2>2, <2>3 DEF TreeTypes
  <2>5. /\ done \in Entries /\ done.at = (IF load[l].ok THEN "loaded" ELSE "failed")
        /\ done.gen = entries[n].gen /\ done.kids = kids /\ done.asked = load[l].asked
    <3>1. PICK a \in Kinds : a = IF load[l].ok THEN "loaded" ELSE "failed"
      BY DEF Kinds
    <3>2. PICK s \in Nat : s = load[l].asked
      BY <1>0 DEF LoadRecords
    <3>3. done = Taken(entries[n], a, kids, s)
      BY <3>1, <3>2, Zenon DEF Taken
    <3> HIDE DEF done, n, kids
    <3>4. done \in Entries /\ done.at = a /\ done.gen = entries[n].gen /\ done.kids = kids /\ done.asked = s
      BY <1>t, <3>3, EntryTaken
    <3> QED  BY <3>1, <3>2, <3>4
  <2>6. entries' = [m \in Places |-> IF m = n THEN done ELSE IF m \in kids THEN Unloaded ELSE entries[m]]
    BY <1>1, Zenon DEF Record
  <2> HIDE DEF done
  <2>7. /\ entries' \in [Places -> Entries] /\ entries'[n] = done
        /\ \A m \in Places : m # n => entries'[m] = IF m \in kids THEN Unloaded ELSE entries[m]
    BY <1>t, <2>5, <2>6, BlankRecords DEF TreeTypes
  <2>8. revived' = revived \cup {m \in kids : \E k \in Loads : InFlight(k) /\ load[k].node = m}
    BY <1>1 DEF Record
  <2>9. Takes(l)
    BY <1>0, <1>t, <1>1, <2>4, <2>5, <2>7, <2>8 DEF Takes
  <2> QED  BY <2>9 DEF Land
<1>2. CASE ~Awaited(l) /\ load' = [load EXCEPT ![l] = NoLoad] /\ UNCHANGED <<entries, revived>>
  <2>1. /\ load' \in [Loads -> LoadRecords] /\ load'[l] = NoLoad
        /\ \A j \in Loads : j # l => load'[j] = load[j]
    BY <1>2, BlankRecords DEF TreeTypes
  <2> QED  BY <1>2, <2>1, BlankRecords DEF Land, Goes, InFlight
<1> QED  BY <1>1, <1>2 DEF Land

LEMMA TellDoes ==
  ASSUME TreeTypes, NEW l \in Loads, Tell(l)
  PROVE  Goes(l) /\ ~InFlight(l)' /\ queued' = TRUE /\ UNCHANGED <<view, marks, refreshes, since, revived>>
<1> DEFINE o == [load[l] EXCEPT !.at = "opening"]
<1>1. load[l] \in LoadRecords
  BY DEF TreeTypes
<1>2. o \in LoadRecords /\ o.at = "opening"
  BY <1>1 DEF LoadRecords
<1>3. load' = [load EXCEPT ![l] = IF load[l].kids = {} THEN NoLoad ELSE o]
  BY DEF Tell, TreeTypes
<1> HIDE DEF o
<1>4. /\ load' \in [Loads -> LoadRecords] /\ load'[l].at \in {"free", "opening"}
      /\ \A j \in Loads : j # l => load'[j] = load[j]
  BY <1>2, <1>3, BlankRecords DEF TreeTypes
<1> QED  BY <1>4 DEF Tell, Goes, InFlight

LEMMA OpenDoes ==
  ASSUME TreeTypes, NEW l \in Loads, OpenEager(l)
  PROVE  /\ UNCHANGED <<view, queued, marks, refreshes, since, revived>>
         /\ \/ \E n \in Nodes, k \in Loads : Begins(n, k)
            \/ Goes(l) /\ load[l].at = "opening" /\ load'[l].at = "free"
<1> DEFINE left == {n \in load[l].kids : entries[n].at = "unloaded"}
<1>1. load[l] \in LoadRecords /\ load[l].at = "opening"
  BY DEF TreeTypes, OpenEager
<1>2. CASE left = {} /\ load' = [load EXCEPT ![l] = NoLoad] /\ UNCHANGED entries
  <2>1. /\ load' \in [Loads -> LoadRecords] /\ load'[l] = NoLoad
        /\ \A j \in Loads : j # l => load'[j] = load[j]
    BY <1>2, BlankRecords DEF TreeTypes
  <2> QED  BY <1>1, <1>2, <2>1, BlankRecords DEF OpenEager, Goes, InFlight
<1>3. ASSUME NEW n \in left, NEW k \in IF left = {n} THEN {l} ELSE Free,
             StartLoad(n, k, [load EXCEPT ![l].kids = left \ {n}])
      PROVE  n \in Nodes /\ Begins(n, k) /\ k \in Loads
  <2> DEFINE o == [load[l] EXCEPT !.kids = left \ {n}]
             others == [load EXCEPT ![l].kids = left \ {n}]
  <2>1. load[l].kids \in SUBSET Nodes /\ n \in Nodes
    BY <1>1, <1>3 DEF LoadRecords
  <2>2. o \in LoadRecords /\ o.at = "opening"
    BY <1>1, <2>1 DEF LoadRecords
  <2>3. others = [load EXCEPT ![l] = o]
    BY DEF TreeTypes
  <2>4. k \in Loads /\ load[k].at \in {"free", "opening"}
    BY <1>1, <1>3 DEF Free
  <2> HIDE DEF o
  <2>5. others \in [Loads -> LoadRecords] /\ others[l].at = "opening"
          /\ \A j \in Loads : j # l => others[j] = load[j]
    BY <2>2, <2>3 DEF TreeTypes
  <2>6. \A j \in Loads : j # k => others[j] = load[j] \/ (load[j].at = "opening" /\ others[j].at = "opening")
    BY <1>1, <2>5
  <2>7. n \in Places
    BY <2>1 DEF Places
  <2> HIDE DEF left, others
  <2>8. StartLoad(n, k, others)
    BY <1>3 DEF others
  <2> QED  BY <2>1, <2>4, <2>5, <2>6, <2>7, <2>8, LoadStarts
<1>4. left = {} \/ \E n \in left : \E k \in IF left = {n} THEN {l} ELSE Free :
         StartLoad(n, k, [load EXCEPT ![l].kids = left \ {n}])
  BY DEF OpenEager
<1>5. UNCHANGED <<view, queued, marks, refreshes, since, revived>>
  BY DEF OpenEager
<1>6. ASSUME ~\E n \in left : \E k \in IF left = {n} THEN {l} ELSE Free :
         StartLoad(n, k, [load EXCEPT ![l].kids = left \ {n}])
      PROVE  left = {} /\ load' = [load EXCEPT ![l] = NoLoad] /\ UNCHANGED entries
  BY <1>6 DEF OpenEager
<1> HIDE DEF left
<1> QED  BY <1>2, <1>3, <1>5, <1>6

LEMMA AskDoes ==
  ASSUME TreeTypes, NEW b \in Places, AskBranch(b)
  PROVE  /\ UNCHANGED <<open, queued, marks, refreshes, since, revived>>
         /\ ui.at = "asking" /\ b \in ui.left
         /\ ui' = [ui EXCEPT !.left = (@ \ {b}) \cup (shown'[b].kids \cap Branches \cap open)]
         /\ \/ /\ \E k \in Loads : Begins(b, k)
               /\ shown' = [shown EXCEPT ![b] = [as |-> "loading", kids |-> {}]]
            \/ /\ entries[b].at # "unloaded" /\ UNCHANGED tree
               /\ shown' = [shown EXCEPT ![b] = Answer(b)]
<1>1. ASSUME NEW k \in Free, StartLoad(b, k, load) PROVE k \in Loads /\ Begins(b, k)
  <2>1. k \in Loads /\ load[k].at \in {"free", "opening"}
    BY <1>1 DEF Free
  <2>2. load \in [Loads -> LoadRecords]
    BY DEF TreeTypes
  <2> QED  BY <1>1, <2>1, <2>2, LoadStarts
<1>2. \/ \E l \in Free : StartLoad(b, l, load) /\ shown' = [shown EXCEPT ![b] = [as |-> "loading", kids |-> {}]]
      \/ entries[b].at # "unloaded" /\ shown' = [shown EXCEPT ![b] = Answer(b)] /\ UNCHANGED tree
  BY DEF AskBranch
<1>3. /\ UNCHANGED <<open, queued, marks, refreshes, since, revived>>
      /\ ui.at = "asking" /\ b \in ui.left
      /\ ui' = [ui EXCEPT !.left = (@ \ {b}) \cup (shown'[b].kids \cap Branches \cap open)]
  BY DEF AskBranch
<1> QED  BY <1>1, <1>2, <1>3

\* What is known of a branch that is refreshed, and of what is below it, is dropped.
Drops(b) ==
  /\ b \in Places /\ refreshes' = refreshes + 1
  /\ UNCHANGED <<load, open, shown, ui, revived>>
  /\ since' = [n \in Places |-> IF n = b \/ b \in Above[n] THEN refreshes + 1 ELSE since[n]]
  /\ entries' \in [Places -> Entries]
  /\ IF Present(b)
     THEN /\ entries'[b].at = "unloaded" /\ entries'[b].kids = {}
          /\ entries'[b].gen = entries[b].gen + 1
          /\ \A n \in Places : n # b => entries'[n] = IF n \in Below(b) THEN Gone ELSE entries[n]
          /\ queued' = TRUE
     ELSE UNCHANGED <<entries, queued>>

LEMMA RefreshDoes ==
  ASSUME TreeTypes, NEW b \in Places, Refresh(b)
  PROVE  Drops(b) /\ DropBadges(b, TRUE)
<1>0. entries[b] \in Entries
  BY DEF TreeTypes
<1>1. /\ refreshes' = refreshes + 1 /\ UNCHANGED <<load, open, shown, ui, revived>>
      /\ since' = [n \in Places |-> IF n = b \/ b \in Above[n] THEN refreshes + 1 ELSE since[n]]
      /\ ModelRefresh(b) /\ DropBadges(b, TRUE)
  BY DEF Refresh, view
<1>2. CASE Present(b)
  <2> DEFINE new == [Unloaded EXCEPT !.gen = entries[b].gen + 1]
  <2>1. new \in Entries /\ new.at = "unloaded" /\ new.kids = {} /\ new.gen = entries[b].gen + 1
    <3>1. entries[b].gen + 1 \in Nat
      BY <1>0 DEF Entries
    <3>2. new \in Entries
      BY <3>1, BlankRecords
    <3>3. new = [at |-> "unloaded", gen |-> entries[b].gen + 1, cancel |-> None, kids |-> {}, asked |-> 0]
      BY BlankRecords, Zenon
    <3> HIDE DEF new
    <3> QED  BY <3>2, <3>3
  <2>2. entries' = [n \in Places |-> IF n = b THEN new ELSE IF n \in Below(b) THEN Gone ELSE entries[n]]
          /\ queued' = TRUE
    BY <1>1, <1>2, Zenon DEF ModelRefresh
  <2> HIDE DEF new
  <2>3. /\ entries' \in [Places -> Entries] /\ entries'[b] = new
        /\ \A n \in Places : n # b => entries'[n] = IF n \in Below(b) THEN Gone ELSE entries[n]
    BY <2>1, <2>2, BlankRecords DEF TreeTypes
  <2> QED  BY <1>1, <1>2, <2>1, <2>2, <2>3 DEF Drops
<1>3. CASE ~Present(b)
  <2>1. UNCHANGED <<entries, queued>>
    BY <1>1, <1>3 DEF ModelRefresh
  <2>2. entries' \in [Places -> Entries]
    BY <2>1 DEF TreeTypes
  <2> QED  BY <1>1, <1>3, <2>1, <2>2 DEF Drops
<1> QED  BY <1>2, <1>3

\* The five things a step may do to the tree.
LEMMA TreeStep ==
  ASSUME TreeTypes, [Next]_vars
  PROVE  \/ UNCHANGED <<entries, load, refreshes, since, revived>>
         \/ UNCHANGED <<entries, refreshes, since, revived>> /\ \E l \in Loads : Goes(l)
         \/ UNCHANGED <<refreshes, since, revived>> /\ \E n \in Places, k \in Loads : Begins(n, k)
         \/ UNCHANGED <<refreshes, since>> /\ \E l \in Loads : Takes(l)
         \/ \E b \in Places : Drops(b)
<1>1. ASSUME NEW l \in Loads, Read(l) PROVE Goes(l) /\ UNCHANGED <<entries, refreshes, since, revived>>
  BY <1>1, ReadGoes DEF Read
<1>2. ASSUME NEW l \in Loads, Land(l)
      PROVE  UNCHANGED <<refreshes, since>> /\ (Takes(l) \/ (Goes(l) /\ UNCHANGED <<entries, revived>>))
  BY <1>2, LandDoes DEF Goes
<1>3. ASSUME NEW l \in Loads, Tell(l) PROVE Goes(l) /\ UNCHANGED <<entries, refreshes, since, revived>>
  BY <1>3, TellDoes DEF Tell
<1>4. ASSUME NEW l \in Loads, OpenEager(l)
      PROVE  /\ UNCHANGED <<refreshes, since, revived>>
             /\ (\E n \in Places, k \in Loads : Begins(n, k)) \/ (Goes(l) /\ UNCHANGED entries)
  BY <1>4, OpenDoes DEF Goes, Places
<1>5. CASE Loading
  BY <1>1, <1>2, <1>3, <1>4, <1>5 DEF Loading
<1>6. ASSUME NEW b \in Places, AskBranch(b)
      PROVE  /\ UNCHANGED <<refreshes, since, revived>>
             /\ (\E k \in Loads : Begins(b, k)) \/ UNCHANGED tree
  BY <1>6, AskDoes
<1>7. CASE Fire \/ AskedAll \/ (\E n \in Badged : UpdateRow(n)) \/ Reading \/ UNCHANGED vars
           \/ \E b \in Branches : Toggle(b)
  BY <1>7 DEF Fire, AskedAll, UpdateRow, Reading, Landed, Toggle, vars, tree
<1>8. ASSUME NEW b \in Places, Refresh(b) PROVE Drops(b)
  BY <1>8, RefreshDoes
<1>9. CASE Drawing
  BY <1>6, <1>7, <1>9 DEF Drawing, tree
<1>10. CASE Asking
  BY <1>7, <1>8, <1>10 DEF Asking
<1> QED  BY <1>5, <1>7, <1>9, <1>10 DEF Next

-----------------------------------------------------------------------------
(***************************************************************************)
(* Types                                                                   *)
(***************************************************************************)
LEMMA TypesInit == Init => Types
<1> SUFFICES ASSUME Init PROVE Types
  OBVIOUS
<1>1. TreeTypes
  BY BlankRecords DEF Init, TreeTypes
<1>2. ViewTypes
  <2>1. Undrawn \in Drawings
    BY DEF Undrawn, Drawings
  <2> QED  BY <2>1 DEF Init, ViewTypes, Places
<1>3. MarkTypes
  <2>1. Unread \in [known : BOOLEAN, asked : Nat] /\ NoFetch \in FetchRecords
    BY DEF Unread, NoFetch, FetchRecords, Places
  <2> QED  BY <2>1 DEF Init, MarkTypes
<1> QED  BY <1>1, <1>2, <1>3 DEF Types

LEMMA TreeTypesStep ==
  ASSUME TreeTypes, [Next]_vars
  PROVE  TreeTypes'
<1>1. CASE UNCHANGED <<entries, load, refreshes, since, revived>>
  BY <1>1 DEF TreeTypes
<1>2. CASE UNCHANGED <<entries, refreshes, since, revived>> /\ \E l \in Loads : Goes(l)
  BY <1>2 DEF TreeTypes, Goes
<1>3. CASE UNCHANGED <<refreshes, since, revived>> /\ \E n \in Places, k \in Loads : Begins(n, k)
  BY <1>3 DEF TreeTypes, Begins
<1>4. ASSUME NEW l \in Loads, Takes(l), UNCHANGED <<refreshes, since>> PROVE TreeTypes'
  <2>1. load[l].kids \in SUBSET Nodes
    BY DEF TreeTypes, LoadRecords
  <2> QED  BY <1>4, <2>1 DEF TreeTypes, Takes
<1>5. ASSUME NEW b \in Places, Drops(b), [Next]_vars PROVE TreeTypes'
  <2>1. since' \in [Places -> Nat]
    BY <1>5 DEF Drops, TreeTypes
  <2> QED  BY <1>5, <2>1 DEF Drops, TreeTypes
<1> QED  BY <1>1, <1>2, <1>3, <1>4, <1>5, TreeStep

\* What is asked of a branch is one of the model's answers.
LEMMA AnswerType ==
  ASSUME TreeTypes, NEW b \in Places
  PROVE  Answer(b) \in Drawings
<1>1. entries[b] \in Entries
  BY DEF TreeTypes
<1> QED  BY <1>1 DEF Answer, Drawings, Entries, Kinds

LEMMA ViewTypesStep ==
  ASSUME TreeTypes, ViewTypes, [Next]_vars
  PROVE  ViewTypes'
<1> DEFINE Uis == [at : {"idle", "asking", "updating"}, left : SUBSET Places]
<1>0. ui \in Uis /\ open \subseteq Branches /\ shown \in [Places -> Drawings] /\ queued \in BOOLEAN
  BY DEF ViewTypes
<1>1. ASSUME NEW rows \in SUBSET Places PROVE RowsLeft(rows) \in Uis
  BY DEF RowsLeft, Idle
<1>2. Branches \subseteq Places /\ Rows \subseteq Places /\ Badged \subseteq Places
  BY TreeOfNodes DEF Places, Rows
<1>3. ASSUME UNCHANGED view, queued' \in BOOLEAN PROVE ViewTypes'
  BY <1>0, <1>3 DEF view, ViewTypes
<1>4. ASSUME NEW l \in Loads, Read(l) \/ Land(l) \/ OpenEager(l) PROVE UNCHANGED <<view, queued>>
  BY <1>4, LandDoes, OpenDoes DEF Read
<1>5. ASSUME NEW l \in Loads, Tell(l) PROVE UNCHANGED view /\ queued' = TRUE
  BY <1>5, TellDoes
<1>6. CASE Loading
  BY <1>0, <1>3, <1>4, <1>5, <1>6 DEF Loading
<1>7. CASE Fire
  <2>1. ui' \in Uis
    BY <1>7 DEF Fire, Places
  <2> QED  BY <1>0, <1>7, <2>1 DEF Fire, ViewTypes
<1>8. ASSUME NEW b \in Places, AskBranch(b) PROVE ViewTypes'
  <2>1. shown' \in [Places -> Drawings]
    <3>1. [as |-> "loading", kids |-> {}] \in Drawings
      BY DEF Drawings, Kinds
    <3>2. PICK d \in Drawings : shown' = [shown EXCEPT ![b] = d]
      BY <1>8, <3>1, AskDoes, AnswerType
    <3> QED  BY <1>0, <3>2
  <2>2. ui' \in Uis
    <3>1. (ui.left \ {b}) \cup (shown'[b].kids \cap Branches \cap open) \in SUBSET Places
      BY <1>0, <1>2
    <3> QED  BY <1>0, <1>8, <3>1, AskDoes
  <2>3. open' = open /\ queued' = queued
    BY <1>8, AskDoes
  <2> QED  BY <1>0, <2>1, <2>2, <2>3 DEF ViewTypes
<1>9. CASE AskedAll
  <2>1. shown' \in [Places -> Drawings]
    <3>1. Undrawn \in Drawings
      BY DEF Undrawn, Drawings
    <3> QED  BY <1>0, <1>9, <3>1 DEF AskedAll
  <2>2. ui' \in Uis
    <3>1. Rows \cap Badged \in SUBSET Places
      BY <1>2
    <3>2. ui' = RowsLeft(Rows \cap Badged)
      BY <1>9 DEF AskedAll
    <3> QED  BY <1>1, <3>1, <3>2
  <2> QED  BY <1>0, <1>9, <2>1, <2>2 DEF AskedAll, ViewTypes
<1>10. ASSUME NEW n \in Badged, UpdateRow(n) PROVE ViewTypes'
  <2>1. ui' \in Uis
    <3>1. ui.left \ {n} \in SUBSET Places
      BY <1>0
    <3>2. ui' = RowsLeft(ui.left \ {n})
      BY <1>10 DEF UpdateRow
    <3> QED  BY <1>1, <3>1, <3>2
  <2> QED  BY <1>0, <1>10, <2>1 DEF UpdateRow, ViewTypes
<1>11. CASE Drawing
  BY <1>7, <1>8, <1>9, <1>10, <1>11 DEF Drawing
<1>12. CASE Reading
  <2>1. UNCHANGED view /\ (queued' = TRUE \/ queued' = queued)
    BY <1>12 DEF Reading, Landed
  <2> QED  BY <1>0, <1>3, <2>1
<1>13. ASSUME NEW b \in Places, Refresh(b) PROVE ViewTypes'
  <2>1. UNCHANGED view /\ (queued' = TRUE \/ queued' = queued)
    BY <1>13, RefreshDoes DEF Drops, view
  <2> QED  BY <1>0, <1>3, <2>1
<1>14. ASSUME NEW b \in Branches, Toggle(b) PROVE ViewTypes'
  <2>1. ui' \in Uis
    BY <1>14 DEF Toggle, Places
  <2>2. open' \subseteq Branches /\ shown' = shown /\ queued' = queued
    BY <1>0, <1>14 DEF Toggle
  <2> QED  BY <1>0, <2>1, <2>2 DEF ViewTypes
<1>15. CASE Asking
  BY <1>13, <1>14, <1>15 DEF Asking
<1>16. CASE UNCHANGED vars
  BY <1>0, <1>3, <1>16 DEF vars
<1> QED  BY <1>6, <1>11, <1>12, <1>15, <1>16 DEF Next

LEMMA MarkTypesStep ==
  ASSUME MarkTypes, TreeTypes, [Next]_vars
  PROVE  MarkTypes'
<1> DEFINE Marks == [known : BOOLEAN, asked : Nat]
<1>0. /\ badges \in [Badged -> Marks] /\ waiting \in [Badged -> Fetches \cup {None}]
      /\ fetch \in [Fetches -> FetchRecords] /\ refreshes \in Nat
  BY DEF MarkTypes, TreeTypes
<1>1. ASSUME UNCHANGED marks PROVE MarkTypes'
  BY <1>0, <1>1 DEF marks, MarkTypes
<1>2. ASSUME NEW b \in Places, NEW forget \in BOOLEAN, DropBadges(b, forget) PROVE MarkTypes'
  <2> DEFINE below == {n \in Badged : b = Root \/ n = b \/ Within(n, b)}
  <2>1. Unread \in Marks
    BY DEF Unread
  <2>2. /\ waiting' = [n \in Badged |-> IF n \in below THEN None ELSE waiting[n]]
        /\ badges' = [n \in Badged |-> IF n \in below /\ forget THEN Unread ELSE badges[n]]
        /\ fetch' = fetch
    BY <1>2 DEF DropBadges
  <2> HIDE DEF below
  <2>3. waiting' \in [Badged -> Fetches \cup {None}]
    BY <1>0, <2>2
  <2>4. badges' \in [Badged -> Marks]
    BY <1>0, <2>1, <2>2
  <2> QED  BY <1>0, <2>2, <2>3, <2>4 DEF MarkTypes
<1>3. CASE Loading
  <2>1. UNCHANGED marks
    BY <1>3, LandDoes, OpenDoes, TellDoes DEF Loading, Read
  <2> QED  BY <1>1, <2>1
<1>4. CASE Fire \/ AskedAll \/ UNCHANGED vars \/ \E b \in Places : AskBranch(b)
  <2>1. UNCHANGED marks
    BY <1>4, AskDoes DEF Fire, AskedAll, vars
  <2> QED  BY <1>1, <2>1
<1>5. ASSUME NEW n \in Badged, UpdateRow(n) PROVE MarkTypes'
  <2>1. CASE UNCHANGED marks
    BY <1>1, <2>1
  <2>2. ASSUME NEW f \in Fetches, waiting' = [waiting EXCEPT ![n] = f], UNCHANGED badges,
               fetch' = [fetch EXCEPT ![f] = [at |-> "reading", node |-> n, asked |-> refreshes]]
        PROVE  MarkTypes'
    <3>1. [at |-> "reading", node |-> n, asked |-> refreshes] \in FetchRecords
      BY <1>0, TreeOfNodes DEF FetchRecords, Places
    <3>2. fetch' \in [Fetches -> FetchRecords] /\ waiting' \in [Badged -> Fetches \cup {None}]
      BY <1>0, <2>2, <3>1
    <3> QED  BY <1>0, <2>2, <3>2 DEF MarkTypes
  <2> QED  BY <1>5, <2>1, <2>2 DEF UpdateRow
<1>6. ASSUME NEW f \in Fetches, Landed(f) PROVE MarkTypes'
  <2>1. fetch' \in [Fetches -> FetchRecords]
    <3>1. NoFetch \in FetchRecords
      BY DEF NoFetch, FetchRecords, Places
    <3> QED  BY <1>0, <1>6, <3>1 DEF Landed
  <2>2. CASE UNCHANGED <<waiting, badges>>
    BY <1>0, <2>1, <2>2 DEF MarkTypes
  <2>3. CASE /\ waiting' = [waiting EXCEPT ![fetch[f].node] = None]
             /\ badges' = [badges EXCEPT ![fetch[f].node] = [known |-> TRUE, asked |-> fetch[f].asked]]
    <3>1. [known |-> TRUE, asked |-> fetch[f].asked] \in Marks
      BY <1>0 DEF FetchRecords
    <3>2. waiting' \in [Badged -> Fetches \cup {None}] /\ badges' \in [Badged -> Marks]
      BY <1>0, <2>3, <3>1
    <3> QED  BY <2>1, <3>2 DEF MarkTypes
  <2> QED  BY <1>6, <2>2, <2>3 DEF Landed
<1>7. ASSUME NEW b \in Places, Refresh(b) PROVE MarkTypes'
  BY <1>2, <1>7, RefreshDoes
<1>8. ASSUME NEW b \in Branches, Toggle(b) PROVE MarkTypes'
  <2>1. b \in Places
    BY TreeOfNodes DEF Places
  <2> QED  BY <1>1, <1>2, <1>8, <2>1 DEF Toggle
<1> QED  BY <1>3, <1>4, <1>5, <1>6, <1>7, <1>8 DEF Next, Drawing, Reading, Asking

LEMMA TypesStep ==
  ASSUME Types, [Next]_vars PROVE Types'
BY TreeTypesStep, ViewTypesStep, MarkTypesStep DEF Types

-----------------------------------------------------------------------------
(***************************************************************************)
(* What is listed, and what is in the tree                                 *)
(***************************************************************************)
LEMMA ListsStep ==
  ASSUME TreeTypes, Lists, [Next]_vars
  PROVE  Lists'
<1> USE DEF Present
<1>0. /\ Root \in Places /\ Nodes \subseteq Places /\ Root \notin Nodes
      /\ \A p \in Places : entries[p] \in Entries /\ entries[p].kids \subseteq Nodes
      /\ \A l \in Loads : load[l].node \in Places /\ load[l].kids \subseteq Nodes
  BY TreeOfNodes DEF TreeTypes, Places, Entries, LoadRecords
<1>1. /\ entries[Root].at # "absent"
      /\ \A p \in Places : /\ entries[p].kids # {} => entries[p].at = "loaded"
                           /\ \A m \in entries[p].kids : Parent[m] = p /\ entries[m].at # "absent"
  BY DEF Lists
<1>2. \A l \in Loads : /\ load[l].at = "answered" => \A m \in load[l].kids : Parent[m] = load[l].node
                       /\ load[l].at = "reading" => load[l].kids = {} /\ ~load[l].ok
                       /\ load[l].at = "answered" /\ ~load[l].ok => load[l].kids = {}
  BY DEF Lists
<1> DEFINE Listing == /\ entries'[Root].at # "absent"
                      /\ \A p \in Places :
                           /\ entries'[p].kids # {} => entries'[p].at = "loaded"
                           /\ \A m \in entries'[p].kids : Parent[m] = p /\ entries'[m].at # "absent"
           Answering(l) ==
             /\ load'[l].at = "answered" => \A m \in load'[l].kids : Parent[m] = load'[l].node
             /\ load'[l].at = "reading" => load'[l].kids = {} /\ ~load'[l].ok
             /\ load'[l].at = "answered" /\ ~load'[l].ok => load'[l].kids = {}
<1>3. ASSUME Listing, \A l \in Loads : Answering(l) PROVE Lists'
  BY <1>3 DEF Lists
<1>4. ASSUME entries' = entries PROVE Listing
  BY <1>1, <1>4
<1>5. ASSUME NEW l \in Loads, load'[l] = load[l] PROVE Answering(l)
  BY <1>2, <1>5
<1>6. ASSUME NEW l \in Loads, load'[l].at \notin {"reading", "answered"} PROVE Answering(l)
  BY <1>6
<1> HIDE DEF Listing, Answering
<1>7. CASE UNCHANGED <<entries, load, refreshes, since, revived>>
  BY <1>3, <1>4, <1>5, <1>7
<1>8. ASSUME NEW l \in Loads, Goes(l) PROVE Lists'
  <2>1. Listing /\ \A j \in Loads : j # l => Answering(j)
    BY <1>4, <1>5, <1>8 DEF Goes
  <2>2. Answering(l)
    <3>1. CASE ~InFlight(l)'
      BY <1>6, <3>1 DEF InFlight
    <3>2. CASE InFlight(l)'
      <4>1. /\ load[l].at = "reading" /\ load'[l].at = "answered" /\ load'[l].node = load[l].node
            /\ \/ load'[l].ok /\ \A m \in load'[l].kids : Parent[m] = load[l].node
               \/ load'[l].ok = load[l].ok /\ load'[l].kids = load[l].kids
        BY <1>8, <3>2 DEF Goes
      <4> QED  BY <1>2, <4>1 DEF Answering
    <3> QED  BY <3>1, <3>2
  <2> QED  BY <1>3, <2>1, <2>2
<1>9. ASSUME NEW n \in Places, NEW k \in Loads, Begins(n, k) PROVE Lists'
  <2>1. Listing
    BY <1>0, <1>1, <1>9 DEF Begins, Listing
  <2>2. Answering(k)
    BY <1>9 DEF Begins, Answering
  <2>3. ASSUME NEW j \in Loads, j # k PROVE Answering(j)
    BY <1>5, <1>6, <1>9, <2>3 DEF Begins
  <2> QED  BY <1>3, <2>1, <2>2, <2>3
<1>10. ASSUME NEW l \in Loads, Takes(l) PROVE Lists'
  <2> DEFINE n == load[l].node  kids == load[l].kids
  <2>1. /\ n \in Places /\ load[l].at = "answered"
        /\ entries'[n].at = (IF load[l].ok THEN "loaded" ELSE "failed") /\ entries'[n].kids = kids
        /\ \A m \in Places : m # n => entries'[m] = IF m \in kids THEN Unloaded ELSE entries[m]
        /\ load'[l].at = "telling" /\ \A j \in Loads : j # l => load'[j] = load[j]
    BY <1>10, Zenon DEF Takes
  <2>2. /\ \A m \in kids : Parent[m] = n /\ m \in Nodes /\ m # n /\ m # Root
        /\ kids # {} => entries'[n].at = "loaded"
    <3>1. \A m \in kids : Parent[m] = n /\ m \in Nodes
      BY <1>0, <1>2, <2>1
    <3>2. \A m \in kids : m # n /\ m # Root
      BY <1>0, <3>1, NoCycle, Closure
    <3> QED  BY <1>2, <2>1, <3>1, <3>2
  <2> HIDE DEF n, kids
  <2>3. entries'[n].at # "absent" /\ Unloaded.at # "absent" /\ Unloaded.kids = {}
    BY <2>1, BlankRecords
  <2>4. \A m \in Places : entries[m].at # "absent" => entries'[m].at # "absent"
    BY <2>1, <2>3
  <2>5. \A m \in kids : entries'[m].at # "absent"
    BY <1>0, <2>1, <2>2, <2>3
  <2>6. ASSUME NEW p \in Places
        PROVE  /\ entries'[p].kids # {} => entries'[p].at = "loaded"
               /\ \A m \in entries'[p].kids : Parent[m] = p /\ entries'[m].at # "absent"
    <3>1. CASE p = n
      BY <2>1, <2>2, <2>5, <3>1
    <3>2. CASE p # n /\ p \in kids
      BY <2>1, <2>3, <3>2
    <3>3. CASE p # n /\ p \notin kids
      BY <1>0, <1>1, <2>1, <2>4, <3>3
    <3> QED  BY <3>1, <3>2, <3>3
  <2>7. Listing
    BY <1>0, <1>1, <2>4, <2>6 DEF Listing
  <2>8. \A j \in Loads : Answering(j)
    BY <1>5, <1>6, <2>1
  <2> QED  BY <1>3, <2>7, <2>8
<1>11. ASSUME NEW b \in Places, Drops(b) PROVE Lists'
  <2>1. \A j \in Loads : Answering(j)
    BY <1>5, <1>11 DEF Drops
  <2>2. CASE entries[b].at = "absent"
    BY <1>3, <1>4, <1>11, <2>1, <2>2 DEF Drops
  <2>3. CASE entries[b].at # "absent"
    <3>1. /\ entries'[b].at = "unloaded" /\ entries'[b].kids = {}
          /\ \A n \in Places : n # b => entries'[n] = IF n \in Below(b) THEN Gone ELSE entries[n]
      BY <1>11, <2>3 DEF Drops
    <3>2. Root \notin Below(b) /\ Gone.kids = {}
      BY <1>0, BlankRecords DEF Below
    <3>3. ASSUME NEW p \in Places, p # b, p \notin Below(b), NEW m \in entries[p].kids
          PROVE  Parent[m] = p /\ entries'[m].at # "absent"
      <4>1. m \in Nodes /\ Parent[m] = p /\ entries[m].at # "absent" /\ entries[p].at # "absent"
        BY <1>0, <1>1, <3>3
      <4>2. CASE m \in Below(b)
        <5>1. b \in Above[m] /\ \A k \in {m} \cup Above[m] : k # b /\ b \in Above[k] => k \in entries[Parent[k]].kids
          BY <4>2 DEF Below
        <5>2. Above[m] = {p} \cup Above[p]
          BY <4>1, AboveIs
        <5>3. b \in Above[p]
          BY <3>3, <5>1, <5>2
        <5>4. p \in Nodes
          BY <5>3, NothingAboveRoot DEF Places
        <5>5. p \in Below(b)
          BY <4>1, <5>1, <5>2, <5>3, <5>4 DEF Below
        <5> QED  BY <3>3, <5>5
      <4> QED  BY <1>0, <3>1, <4>1, <4>2
    <3>4. ASSUME NEW p \in Places
          PROVE  /\ entries'[p].kids # {} => entries'[p].at = "loaded"
                 /\ \A m \in entries'[p].kids : Parent[m] = p /\ entries'[m].at # "absent"
      <4>1. CASE p = b \/ p \in Below(b)
        BY <3>1, <3>2, <4>1
      <4>2. CASE p # b /\ p \notin Below(b)
        BY <1>1, <3>1, <3>3, <4>2
      <4> QED  BY <4>1, <4>2
    <3>5. entries'[Root].at # "absent"
      BY <1>0, <1>1, <3>1, <3>2
    <3> QED  BY <1>3, <2>1, <3>4, <3>5 DEF Listing
  <2> QED  BY <2>2, <2>3
<1> QED  BY <1>7, <1>8, <1>9, <1>10, <1>11, TreeStep

\* From a node that is there and no load of before concerns, the tree leads to the root.
LEMMA Chain ==
  ASSUME TreeTypes, Lists, Rooted, NEW n \in Nodes, Clean(n), Present(n)
  PROVE  /\ \A m \in Above[n] : Present(m)
         /\ \A m \in ({n} \cup Above[n]) \ {Root} : m \in Nodes /\ m \in entries[Parent[m]].kids
<1>1. ASSUME NEW m \in Nodes, Clean(m), Present(m)
      PROVE  m \in entries[Parent[m]].kids /\ Present(Parent[m])
  <2>1. m \in entries[Parent[m]].kids
    BY <1>1 DEF Rooted
  <2>2. entries[Parent[m]].at = "loaded"
    BY <2>1, Closure DEF Lists
  <2> QED  BY <2>1, <2>2 DEF Present
<1>2. ASSUME NEW m \in Above[n] \ {Root} PROVE m \in Nodes /\ Clean(m)
  BY <1>2, Closure, Outwards DEF Clean
<1> DEFINE S == {m \in Above[n] : Present(m)}
<1>3. S \in SUBSET Places /\ Parent[n] \in S
  BY <1>1, Closure
<1>4. ASSUME NEW m \in S \ {Root} PROVE Parent[m] \in S
  BY <1>1, <1>2, Closure
<1> HIDE DEF S
<1>5. Above[n] \subseteq S
  BY <1>3, <1>4, Closure
<1>6. \A m \in Above[n] : Present(m)
  BY <1>5 DEF S
<1>7. n # Root
  BY Closure
<1> QED  BY <1>1, <1>2, <1>6, <1>7

\* A refresh drops all of that.
LEMMA ChainBelow ==
  ASSUME TreeTypes, Lists, Rooted, NEW n \in Nodes, Clean(n), Present(n), NEW b \in Above[n]
  PROVE  n \in Below(b) /\ Present(b) /\ n # b
<1>1. n # b
  BY NoCycle
<1>2. \A m \in {n} \cup Above[n] : m # b /\ b \in Above[m] => m \in entries[Parent[m]].kids
  BY Chain, NothingAboveRoot
<1> QED  BY <1>1, <1>2, Chain DEF Below

\* revived only grows.
LEMMA CleanBefore ==
  ASSUME [Next]_vars, TreeTypes, NEW n, Clean(n)'
  PROVE  Clean(n)
<1>1. revived \subseteq revived'
  BY TreeStep DEF Takes, Drops
<1> QED  BY <1>1 DEF Clean

\* The load whose answer is taken, of a node no load of before concerns, is its last.
LEMMA TakenIsLast ==
  ASSUME Lists, Followed, NEW l, Takes(l), Clean(load[l].node)
  PROVE  LET n == load[l].node IN
         /\ entries[n].at = "loading" /\ entries[n].cancel = l /\ load[l].asked >= since[n]
         /\ entries[n].kids = {} /\ Present(n)
<1>1. l \in Loads /\ load[l].at = "answered" /\ Awaited(l) /\ load[l].node \in Places
  BY Zenon DEF Takes
<1>2. LastLoad(l)
  BY <1>1 DEF Followed, InFlight
<1>3. /\ entries[load[l].node].at = "loading" /\ entries[load[l].node].cancel = l
      /\ load[l].asked >= since[load[l].node] /\ Present(load[l].node)
  BY <1>1, <1>2 DEF Awaited, LastLoad
<1> QED  BY <1>1, <1>3 DEF Lists

\* A node stays where its branch lists it, unless a load of before is in the way.
LEMMA RootedStep ==
  ASSUME TreeTypes, Lists, Rooted, Followed, [Next]_vars
  PROVE  Rooted'
<1> SUFFICES ASSUME NEW x \in Nodes, Clean(x)', Present(x)' PROVE x \in entries'[Parent[x]].kids
  BY DEF Rooted
<1>c. Clean(x)
  BY CleanBefore
<1>0. x \in Places /\ Parent[x] \in Places /\ Parent[x] \in Above[x] /\ x # Parent[x]
  BY Closure, NoCycle DEF Places
<1>1. CASE entries' = entries
  BY <1>1, <1>c DEF Rooted, Present
<1>2. ASSUME NEW n \in Places, NEW k \in Loads, Begins(n, k) PROVE x \in entries'[Parent[x]].kids
  <2>1. \A p \in Places : entries'[p].kids = entries[p].kids
    BY <1>2 DEF Begins
  <2>2. Present(x)
    BY <1>0, <1>2 DEF Begins, Present
  <2>3. x \in entries[Parent[x]].kids
    BY <1>c, <2>2 DEF Rooted
  <2> QED  BY <1>0, <2>1, <2>3
<1>3. ASSUME NEW l \in Loads, Takes(l) PROVE x \in entries'[Parent[x]].kids
  <2> DEFINE n == load[l].node  kids == load[l].kids
  <2>1. /\ n \in Places /\ load[l].at = "answered" /\ Awaited(l) /\ entries'[n].kids = kids
        /\ \A m \in Places : m # n => entries'[m] = IF m \in kids THEN Unloaded ELSE entries[m]
    BY <1>3, Zenon DEF Takes
  <2>2. \A m \in kids : Parent[m] = n /\ m \in Nodes
    BY <2>1 DEF Lists, TreeTypes, LoadRecords
  <2>3. ASSUME n \in Above[x] PROVE entries[n].kids = {}
    <3>1. Clean(n)
      BY <1>c, <2>3, Outwards DEF Clean
    <3> QED  BY <1>3, <3>1, TakenIsLast
  <2> HIDE DEF n, kids
  <2>4. CASE x \in kids
    BY <2>1, <2>2, <2>4
  <2>5. CASE x \notin kids
    <3>1. Present(x)
      <4>1. CASE x = n
        BY <2>1, <4>1 DEF Awaited, n
      <4>2. CASE x # n
        BY <1>0, <2>1, <2>5, <4>2 DEF Present
      <4> QED  BY <4>1, <4>2
    <3>2. x \in entries[Parent[x]].kids
      BY <1>c, <3>1 DEF Rooted
    <3>3. Parent[x] # n
      BY <1>0, <2>3, <3>2
    <3>4. Parent[x] \notin kids
      <4> SUFFICES ASSUME Parent[x] \in kids PROVE FALSE
        OBVIOUS
      <4>1. Parent[x] \in Nodes /\ Parent[Parent[x]] = n
        BY <2>2
      <4>2. Parent[x] # Root /\ Parent[x] \in entries[n].kids
        BY <1>c, <1>0, <3>1, <4>1, Chain, Closure
      <4>3. n \in Above[x]
        BY <1>0, <4>1, <4>2, Closure
      <4> QED  BY <2>3, <4>2, <4>3
    <3> QED  BY <1>0, <2>1, <3>2, <3>3, <3>4
  <2> QED  BY <2>4, <2>5
<1>4. ASSUME NEW b \in Places, Drops(b), Present(b) PROVE x \in entries'[Parent[x]].kids
  <2>1. \A m \in Places : m # b => entries'[m] = IF m \in Below(b) THEN Gone ELSE entries[m]
    BY <1>4 DEF Drops
  <2>2. Present(x) /\ (x # b => x \notin Below(b))
    <3>1. CASE x = b
      BY <1>4, <3>1
    <3>2. CASE x # b
      BY <1>0, <2>1, <3>2, BlankRecords DEF Present
    <3> QED  BY <3>1, <3>2
  <2>3. b \notin Above[x]
    BY <1>c, <2>2, ChainBelow
  <2>4. Parent[x] # b
    BY <1>0, <2>3
  <2>5. Parent[x] \notin Below(b)
    BY <1>0, <2>3, Outwards DEF Below
  <2>6. x \in entries[Parent[x]].kids
    BY <1>c, <2>2 DEF Rooted
  <2> QED  BY <1>0, <2>1, <2>4, <2>5, <2>6
<1>5. ASSUME NEW b \in Places, Drops(b), ~Present(b) PROVE entries' = entries
  BY <1>5 DEF Drops
<1> QED  BY <1>1, <1>2, <1>3, <1>4, <1>5, TreeStep

-----------------------------------------------------------------------------
(***************************************************************************)
(* Loads and refreshes                                                     *)
(***************************************************************************)
\* A node that is there still was there, and a refresh was not of a branch it is in.
LEMMA DroppedElsewhere ==
  ASSUME TreeTypes, Lists, Rooted, NEW b \in Places, Drops(b),
         NEW m \in Places, m # b, Clean(m), Present(m)'
  PROVE  Present(m) /\ entries'[m] = entries[m] /\ since'[m] = since[m]
<1>1. Present(m) /\ entries'[m] = entries[m] /\ (Present(b) => m \notin Below(b))
  <2>1. CASE Present(b)
    <3>1. entries'[m] = IF m \in Below(b) THEN Gone ELSE entries[m]
      BY <2>1 DEF Drops
    <3>2. m \notin Below(b)
      BY <3>1, BlankRecords DEF Present
    <3> QED  BY <3>1, <3>2 DEF Present
  <2>2. CASE ~Present(b)
    BY <2>2 DEF Drops, Present
  <2> QED  BY <2>1, <2>2
<1>2. b \notin Above[m]
  <2>1. CASE m = Root
    BY <2>1, NothingAboveRoot
  <2>2. CASE m \in Nodes
    BY <1>1, <2>2, ChainBelow
  <2> QED  BY <2>1, <2>2 DEF Places
<1>3. since' = [n \in Places |-> IF n = b \/ b \in Above[n] THEN refreshes + 1 ELSE since[n]]
  BY DEF Drops
<1> QED  BY <1>1, <1>2, <1>3

\* The generation a load was given tells the last one from those before.
LEMMA LoadedStep ==
  ASSUME TreeTypes, Lists, Rooted, Followed, [Next]_vars
  PROVE  Followed'
<1>0. /\ \A n \in Places : since[n] \in Nat /\ entries[n].gen \in Nat /\ entries[n].asked \in Nat
      /\ \A l \in Loads : load[l].node \in Places /\ load[l].gen \in Nat /\ load[l].asked \in Nat
      /\ refreshes \in Nat
  BY DEF TreeTypes, Entries, LoadRecords
<1>1. /\ \A n \in Places : since[n] <= refreshes
      /\ \A l \in Loads : InFlight(l) => LastLoad(l)
      /\ CurrentAnswers
  BY DEF Followed
<1> DEFINE Given(n) == Clean(n)' /\ entries'[n].at \in {"loaded", "failed"} =>
                           entries'[n].asked >= since'[n]
<1>2. ASSUME \A n \in Places : Given(n) PROVE CurrentAnswers'
  BY <1>2 DEF CurrentAnswers, Clean
<1>3. ASSUME NEW n \in Places, Clean(n), entries[n].at \in {"loaded", "failed"}
      PROVE  entries[n].asked >= since[n]
  BY <1>1, <1>3 DEF CurrentAnswers, Clean
<1>4. ASSUME NEW n \in Places, entries'[n] = entries[n], since'[n] = since[n] PROVE Given(n)
  BY <1>3, <1>4, CleanBefore
<1>5. ASSUME NEW l \in Loads, InFlight(l), load'[l].node = load[l].node, load'[l].gen = load[l].gen,
             load'[l].asked = load[l].asked, entries'[load[l].node] = entries[load[l].node],
             since'[load[l].node] = since[load[l].node]
      PROVE  LastLoad(l)'
  <2>1. LastLoad(l)
    BY <1>1, <1>5
  <2>2. Clean(load[l].node)' => Clean(load[l].node)
    <3> DEFINE n == load[l].node
    <3>1. \A m : Clean(m)' => Clean(m)
      BY CleanBefore
    <3>2. revived \subseteq revived'
      BY TreeStep DEF Takes, Drops
    <3> QED  BY <1>5, <3>2 DEF Clean
  <2> QED  BY <1>5, <2>1, <2>2 DEF LastLoad, Present, Clean
<1> HIDE DEF Given
<1>6. CASE UNCHANGED <<entries, load, refreshes, since, revived>>
  BY <1>1, <1>2, <1>4, <1>5, <1>6 DEF Followed, InFlight
<1>7. ASSUME NEW l \in Loads, Goes(l), UNCHANGED <<entries, refreshes, since, revived>> PROVE Followed'
  <2>1. ASSUME NEW j \in Loads, InFlight(j)' PROVE LastLoad(j)'
    <3>1. InFlight(j) /\ load'[j].node = load[j].node /\ load'[j].gen = load[j].gen
            /\ load'[j].asked = load[j].asked
      BY <1>7, <2>1 DEF Goes, InFlight
    <3> QED  BY <1>5, <1>7, <3>1
  <2> QED  BY <1>1, <1>2, <1>4, <1>7, <2>1 DEF Followed
<1>8. ASSUME NEW n \in Places, NEW k \in Loads, Begins(n, k), UNCHANGED <<refreshes, since, revived>>
      PROVE  Followed'
  <2>1. /\ entries[n].at = "unloaded" /\ entries'[n].at = "loading"
        /\ entries'[n].gen = entries[n].gen + 1 /\ entries'[n].cancel = k
        /\ \A m \in Places : m # n => entries'[m] = entries[m]
    BY <1>8 DEF Begins
  <2>2. Given(n)
    BY <2>1 DEF Given
  <2>3. LastLoad(k)'
    <3>1. load'[k].node = n /\ load'[k].gen = entries[n].gen + 1 /\ load'[k].asked = refreshes
      BY <1>8 DEF Begins
    <3>2. load'[k].asked >= since'[n]
      BY <1>0, <1>1, <1>8, <3>1
    <3>3. load'[k].gen <= entries'[n].gen
      BY <1>0, <2>1, <3>1
    <3> QED  BY <2>1, <3>1, <3>2, <3>3 DEF LastLoad
  <2>4. ASSUME NEW j \in Loads, j # k, InFlight(j)' PROVE LastLoad(j)'
    <3>1. load'[j] = load[j] /\ InFlight(j)
      BY <1>8, <2>4 DEF Begins, InFlight
    <3>2. CASE load[j].node # n
      BY <1>0, <1>5, <1>8, <2>1, <3>1, <3>2
    <3>3. CASE load[j].node = n
      <4>1. Clean(n)' => load[j].gen <= entries[n].gen
        <5>1. Clean(n)' => Clean(n)
          BY CleanBefore
        <5>2. LastLoad(j) /\ Present(n)
          BY <1>1, <2>1, <3>1 DEF Present
        <5> QED  BY <3>3, <5>1, <5>2 DEF LastLoad
      <4>2. Clean(n)' => load'[j].gen < entries'[n].gen
        BY <1>0, <2>1, <3>1, <4>1
      <4>3. load'[j].gen \in Nat /\ entries'[n].gen \in Nat /\ load'[j].node = n
        BY <1>0, <2>1, <3>1, <3>3
      <4> QED  BY <4>2, <4>3 DEF LastLoad, Clean
    <3> QED  BY <3>2, <3>3
  <2> QED  BY <1>1, <1>2, <1>4, <1>8, <2>1, <2>2, <2>3, <2>4 DEF Followed
<1>9. ASSUME NEW l \in Loads, Takes(l), UNCHANGED <<refreshes, since>> PROVE Followed'
  <2>0. PICK n \in Places, kids \in SUBSET Nodes : n = load[l].node /\ kids = load[l].kids
    BY DEF TreeTypes, LoadRecords
  <2>1. /\ n \in Places /\ load[l].at = "answered" /\ Awaited(l)
        /\ entries'[n].gen = entries[n].gen /\ entries'[n].asked = load[l].asked
        /\ \A m \in Places : m # n => entries'[m] = IF m \in kids THEN Unloaded ELSE entries[m]
        /\ revived' = revived \cup {m \in kids : \E k \in Loads : InFlight(k) /\ load[k].node = m}
        /\ load'[l].at = "telling" /\ \A j \in Loads : j # l => load'[j] = load[j]
    BY <1>9, <2>0, Zenon DEF Takes
  <2>2. Clean(n)' => entries[n].at = "loading" /\ entries[n].cancel = l /\ load[l].asked >= since[n]
    <3>1. Clean(n)' => Clean(n)
      <4>1. revived \subseteq revived'
        BY <2>1
      <4> QED  BY <4>1 DEF Clean
    <3> QED  BY <1>9, <2>0, <3>1, TakenIsLast
  <2>3. Given(n)
    BY <1>9, <2>1, <2>2 DEF Given
  <2>4. ASSUME NEW m \in Places, m # n PROVE Given(m)
    <3>1. CASE m \in kids
      BY <2>1, <2>4, <3>1, BlankRecords DEF Given
    <3>2. CASE m \notin kids
      BY <1>4, <1>9, <2>1, <2>4, <3>2
    <3> QED  BY <3>1, <3>2
  <2>5. ASSUME NEW j \in Loads, InFlight(j)' PROVE LastLoad(j)'
    <3>1. j # l /\ load'[j] = load[j] /\ InFlight(j)
      BY <2>1, <2>5 DEF InFlight
    <3>2. CASE load[j].node = n
      <4>1. Clean(n)' => load[j].gen <= entries[n].gen /\ load[j].gen # entries[n].gen
        <5>1. Clean(n)' => Clean(n)
          <6>1. revived \subseteq revived'
            BY <2>1
          <6> QED  BY <6>1 DEF Clean
        <5>2. LastLoad(j) /\ Present(n)
          BY <1>1, <2>0, <2>1, <3>1 DEF Awaited
        <5> QED  BY <2>2, <3>1, <3>2, <5>1, <5>2 DEF LastLoad
      <4>2. load'[j].node = n /\ load'[j].gen = load[j].gen
        BY <3>1, <3>2
      <4> QED  BY <2>1, <4>1, <4>2 DEF LastLoad, Clean
    <3>3. CASE load[j].node # n /\ load[j].node \notin kids
      BY <1>0, <1>5, <1>9, <2>1, <3>1, <3>3
    <3>4. CASE load[j].node # n /\ load[j].node \in kids
      <4>1. load'[j].node \in revived'
        BY <2>1, <3>1, <3>4
      <4> QED  BY <4>1 DEF LastLoad, Clean
    <3> QED  BY <3>2, <3>3, <3>4
  <2> QED  BY <1>1, <1>2, <1>9, <2>3, <2>4, <2>5 DEF Followed
<1>10. ASSUME NEW b \in Places, Drops(b) PROVE Followed'
  <2>1. /\ load' = load /\ revived' = revived /\ refreshes' = refreshes + 1
        /\ since' = [n \in Places |-> IF n = b \/ b \in Above[n] THEN refreshes + 1 ELSE since[n]]
        /\ Present(b) => entries'[b].at = "unloaded" /\ entries'[b].gen = entries[b].gen + 1
        /\ ~Present(b) => entries' = entries
    BY <1>10 DEF Drops
  <2>2. \A n \in Places : since'[n] <= refreshes'
    BY <1>0, <1>1, <2>1
  <2>3. ASSUME NEW m \in Places, m # b PROVE Given(m)
    <3> SUFFICES ASSUME Clean(m)', entries'[m].at \in {"loaded", "failed"}
                 PROVE  entries'[m].asked >= since'[m]
      BY DEF Given
    <3>1. Clean(m) /\ Present(m)'
      BY <2>1 DEF Clean, Present
    <3>2. entries'[m] = entries[m] /\ since'[m] = since[m]
      BY <1>10, <2>3, <3>1, DroppedElsewhere
    <3> QED  BY <1>3, <3>1, <3>2
  <2>4. Given(b)
    BY <2>1 DEF Given, Present
  <2>5. ASSUME NEW j \in Loads, InFlight(j) PROVE LastLoad(j)'
    <3>1. load[j].node \in Places /\ LastLoad(j)
      BY <1>0, <1>1, <2>5
    <3>2. CASE load[j].node = b /\ Present(b)
      <4>1. Clean(b) => load[j].gen < entries'[b].gen
        BY <1>0, <2>1, <3>1, <3>2 DEF LastLoad
      <4>2. entries'[b].gen \in Nat /\ load[j].gen \in Nat
        BY <1>0, <2>1, <3>1, <3>2
      <4> QED  BY <2>1, <3>2, <4>1, <4>2 DEF LastLoad, Clean
    <3>3. CASE load[j].node = b /\ ~Present(b)
      BY <2>1, <3>3 DEF LastLoad, Present
    <3>4. CASE load[j].node # b
      <4> SUFFICES ASSUME Clean(load[j].node)', Present(load[j].node)' PROVE LastLoad(j)'
        BY <2>1 DEF LastLoad, Clean, Present
      <4> DEFINE m == load[j].node
      <4>1. m \in Places /\ m # b /\ Clean(m)
        BY <2>1, <3>1, <3>4 DEF Clean
      <4>2. PICK x \in Places : x = m
        BY <4>1
      <4>3. Present(x)'
        BY <2>1, <4>2 DEF Present
      <4>4. entries'[x] = entries[x] /\ since'[x] = since[x]
        BY <1>10, <4>1, <4>2, <4>3, DroppedElsewhere
      <4> QED  BY <1>5, <2>1, <2>5, <4>2, <4>4
    <3> QED  BY <3>2, <3>3, <3>4
  <2> QED  BY <1>2, <2>1, <2>2, <2>3, <2>4, <2>5 DEF Followed, InFlight
<1> QED  BY <1>6, <1>7, <1>8, <1>9, <1>10, TreeStep

-----------------------------------------------------------------------------
(***************************************************************************)
(* Badges                                                                  *)
(***************************************************************************)
LEMMA MarkedStep ==
  ASSUME Types, Lists, Rooted, Followed, Marked, [Next]_vars
  PROVE  Marked'
<1>0. /\ TreeTypes /\ MarkTypes
      /\ \A n \in Badged : n \in Nodes /\ n \in Places /\ since[n] \in Nat
      /\ refreshes \in Nat
  BY TreeOfNodes DEF Types, TreeTypes, Places
<1>1. /\ \A n \in Badged : Wait(n)
      /\ revived = {} => \A n \in Badged :
           /\ badges[n].known \/ waiting[n] # None => Present(n)
           /\ badges[n].known => badges[n].asked >= since[n]
  BY DEF Marked, CurrentBadges
<1> DEFINE Good(n) == /\ Wait(n)'
                      /\ revived' = {} =>
                           /\ badges'[n].known \/ waiting'[n] # None => Present(n)'
                           /\ badges'[n].known => badges'[n].asked >= since'[n]
<1>2. ASSUME \A n \in Badged : Good(n) PROVE Marked'
  BY <1>2 DEF Marked, CurrentBadges
\* A mark that stays, while nothing is taken from the tree.
<1>3. ASSUME NEW n \in Badged, revived' = {} => revived = {},
             revived' = {} => (Present(n) => Present(n)') /\ since'[n] = since[n],
             waiting'[n] = waiting[n], badges'[n] = badges[n],
             waiting[n] # None => fetch'[waiting[n]] = fetch[waiting[n]]
      PROVE  Good(n)
  BY <1>1, <1>3 DEF Wait
<1>4. ASSUME NEW n \in Badged, waiting'[n] = None,
             ~badges'[n].known \/ (badges'[n] = badges[n] /\ UNCHANGED tree),
             UNCHANGED <<since, revived>> \/ ~badges'[n].known
      PROVE  Good(n)
  BY <1>1, <1>4 DEF Wait, tree, Present
<1> HIDE DEF Good
<1>5. ASSUME UNCHANGED <<entries, load, refreshes, since, revived>>
             \/ (UNCHANGED <<entries, refreshes, since, revived>> /\ \E l \in Loads : Goes(l))
             \/ (UNCHANGED <<refreshes, since, revived>> /\ \E n \in Places, k \in Loads : Begins(n, k))
             \/ (UNCHANGED <<refreshes, since>> /\ \E l \in Loads : Takes(l))
      PROVE  /\ since' = since /\ revived \subseteq revived'
             /\ \A n \in Places : Present(n) => Present(n)'
  <2>1. CASE UNCHANGED entries
    BY <1>5, <2>1 DEF Present, Takes
  <2>2. ASSUME NEW n \in Places, NEW k \in Loads, Begins(n, k)
        PROVE  \A m \in Places : Present(m) => Present(m)'
    BY <2>2 DEF Begins, Present
  <2>3. ASSUME NEW l \in Loads, Takes(l) PROVE \A m \in Places : Present(m) => Present(m)'
    <3> DEFINE n == load[l].node  kids == load[l].kids
    <3>1. /\ n \in Places /\ entries'[n].at = (IF load[l].ok THEN "loaded" ELSE "failed")
          /\ \A m \in Places : m # n => entries'[m] = IF m \in kids THEN Unloaded ELSE entries[m]
      BY <2>3, Zenon DEF Takes
    <3> HIDE DEF n, kids
    <3> QED  BY <3>1, BlankRecords DEF Present
  <2>4. \A l \in Loads : Goes(l) => entries' = entries
    BY DEF Goes
  <2> QED  BY <1>5, <2>1, <2>2, <2>3, <2>4 DEF Takes
<1>6. ASSUME UNCHANGED marks, ~\E b \in Places : Drops(b) PROVE Marked'
  <2>1. /\ since' = since /\ revived \subseteq revived'
        /\ \A n \in Places : Present(n) => Present(n)'
    BY <1>0, <1>5, <1>6, TreeStep
  <2> QED  BY <1>0, <1>2, <1>3, <1>6, <2>1 DEF marks
<1>7. CASE Loading \/ Fire \/ AskedAll \/ UNCHANGED vars \/ \E b \in Places : AskBranch(b)
  <2>1. UNCHANGED marks
    BY <1>0, <1>7, LandDoes, OpenDoes, TellDoes, AskDoes DEF Loading, Read, Fire, AskedAll, vars
  <2>2. refreshes' = refreshes
    BY <1>0, <1>7, LandDoes, OpenDoes, TellDoes, AskDoes DEF Loading, Read, Fire, AskedAll, vars
  <2>3. ~\E b \in Places : Drops(b)
    BY <1>0, <2>2 DEF Drops
  <2> QED  BY <1>6, <2>1, <2>3
<1>8. ASSUME NEW n \in Badged, UpdateRow(n) PROVE Marked'
  <2>0. UNCHANGED <<tree, refreshes, since, revived>>
    BY <1>8 DEF UpdateRow
  <2>1. CASE UNCHANGED marks
    BY <1>0, <1>2, <1>3, <2>0, <2>1 DEF marks, tree, Present
  <2>2. ASSUME NEW f \in Fetches, fetch[f].at = "free", Present(n), waiting[n] = None, UNCHANGED badges,
               fetch' = [fetch EXCEPT ![f] = [at |-> "reading", node |-> n, asked |-> refreshes]],
               waiting' = [waiting EXCEPT ![n] = f], ~badges[n].known
        PROVE  Marked'
    <3>1. /\ fetch'[f].at = "reading" /\ fetch'[f].node = n /\ fetch'[f].asked = refreshes
          /\ \A g \in Fetches : g # f => fetch'[g] = fetch[g]
      BY <1>0, <2>2 DEF MarkTypes
    <3>2. waiting'[n] = f /\ \A m \in Badged : m # n => waiting'[m] = waiting[m]
      BY <1>0, <2>2 DEF MarkTypes
    <3>3. ASSUME NEW m \in Badged, m # n PROVE Good(m)
      <4>1. waiting[m] # None => waiting[m] \in Fetches /\ waiting[m] # f
        BY <1>0, <1>1, <2>2 DEF Wait, MarkTypes
      <4> QED  BY <1>3, <2>0, <2>2, <3>1, <3>2, <3>3, <4>1 DEF tree, Present
    <3>4. since[n] <= refreshes => Good(n)
      BY <1>0, <2>0, <2>2, <3>1, <3>2 DEF Good, Wait, tree, Present
    <3> QED  BY <1>2, <1>0, <3>3, <3>4 DEF Followed
  <2> QED  BY <1>8, <2>1, <2>2 DEF UpdateRow
<1>9. ASSUME NEW f \in Fetches, Landed(f) PROVE Marked'
  <2>0. /\ UNCHANGED <<tree, refreshes, since, revived>> /\ fetch' = [fetch EXCEPT ![f] = NoFetch]
        /\ fetch[f].at = "reading"
    BY <1>9 DEF Landed
  <2>1. \A g \in Fetches : g # f => fetch'[g] = fetch[g]
    BY <1>0, <2>0 DEF MarkTypes
  <2>2. CASE ~Wanted(f) /\ UNCHANGED <<waiting, badges, queued>>
    <3>1. ASSUME NEW m \in Badged PROVE waiting[m] # None => waiting[m] \in Fetches /\ waiting[m] # f
      BY <1>0, <1>1, <2>0, <2>2 DEF Wait, MarkTypes, Wanted
    <3> QED  BY <1>0, <1>2, <1>3, <2>0, <2>1, <2>2, <3>1 DEF tree, Present
  <2>3. CASE /\ Wanted(f)
             /\ waiting' = [waiting EXCEPT ![fetch[f].node] = None]
             /\ badges' = [badges EXCEPT ![fetch[f].node] = [known |-> TRUE, asked |-> fetch[f].asked]]
    <3>1. PICK n : n = fetch[f].node
      OBVIOUS
    <3>2. \A m \in Badged : m # n => waiting'[m] = waiting[m] /\ badges'[m] = badges[m]
      BY <1>0, <2>3, <3>1 DEF MarkTypes
    <3>3. ASSUME NEW m \in Badged, m # n PROVE Good(m)
      <4>1. waiting[m] # None => waiting[m] \in Fetches /\ waiting[m] # f
        BY <1>0, <1>1, <3>1, <3>3 DEF Wait, MarkTypes
      <4> QED  BY <1>0, <1>3, <2>0, <2>1, <3>2, <3>3, <4>1 DEF tree, Present
    <3>4. ASSUME n \in Badged PROVE Good(n)
      <4>1. waiting'[n] = None /\ badges'[n].asked = fetch[f].asked
        BY <1>0, <2>3, <3>1, <3>4 DEF MarkTypes
      <4>2. waiting[n] = f /\ f # None
        BY <2>3, <3>1, TreeOfNodes DEF Wanted
      <4>3. revived = {} => Present(n) /\ fetch[f].asked >= since[n]
        BY <1>1, <3>4, <4>2 DEF Wait
      <4> QED  BY <2>0, <4>1, <4>3 DEF Good, Wait, tree, Present
    <3> QED  BY <1>2, <3>3, <3>4
  <2> QED  BY <1>9, <2>2, <2>3 DEF Landed
<1>10. ASSUME NEW b \in Branches, Toggle(b) PROVE Marked'
  <2>0. UNCHANGED <<tree, refreshes, since, revived>>
    BY <1>10 DEF Toggle
  <2>1. CASE UNCHANGED marks
    BY <1>0, <1>2, <1>3, <2>0, <2>1 DEF marks, tree, Present
  <2>2. CASE DropBadges(b, FALSE)
    <3> DEFINE below == {n \in Badged : b = Root \/ n = b \/ Within(n, b)}
    <3>1. /\ waiting' = [n \in Badged |-> IF n \in below THEN None ELSE waiting[n]]
          /\ badges' = [n \in Badged |-> IF n \in below /\ FALSE THEN Unread ELSE badges[n]]
          /\ fetch' = fetch
      BY <2>2 DEF DropBadges
    <3> HIDE DEF below
    <3>2. ASSUME NEW n \in Badged PROVE Good(n)
      <4>1. badges'[n] = badges[n]
        BY <3>1
      <4>2. CASE n \in below
        BY <1>4, <2>0, <3>1, <4>1, <4>2
      <4>3. CASE n \notin below
        BY <1>0, <1>3, <2>0, <3>1, <4>1, <4>3 DEF tree, Present
      <4> QED  BY <4>2, <4>3
    <3> QED  BY <1>2, <3>2
  <2> QED  BY <1>10, <2>1, <2>2 DEF Toggle
<1>11. ASSUME NEW b \in Places, Refresh(b) PROVE Marked'
  <2> DEFINE below == {n \in Badged : b = Root \/ n = b \/ Within(n, b)}
  <2>1. Drops(b) /\ DropBadges(b, TRUE)
    BY <1>0, <1>11, RefreshDoes
  <2>2. /\ waiting' = [n \in Badged |-> IF n \in below THEN None ELSE waiting[n]]
        /\ badges' = [n \in Badged |-> IF n \in below /\ TRUE THEN Unread ELSE badges[n]]
        /\ fetch' = fetch
    BY <2>1 DEF DropBadges
  <2>3. revived' = revived
    BY <2>1 DEF Drops
  <2>4. ASSUME NEW n \in Badged, n \in below PROVE Good(n)
    <3>1. waiting'[n] = None /\ ~badges'[n].known
      BY <2>2, <2>4 DEF Unread
    <3> QED  BY <1>4, <3>1
  <2>5. ASSUME NEW n \in Badged, n \notin below, revived = {}, badges[n].known \/ waiting[n] # None
        PROVE  Present(n)' /\ since'[n] = since[n]
    <3>1. Present(n) /\ Clean(n) /\ n # b
      BY <1>1, <2>5 DEF Clean
    <3>2. b \notin Above[n]
      <4> SUFFICES ASSUME b \in Above[n] PROVE n \in below
        BY <2>5
      <4> QED  BY <1>0, <3>1, Chain DEF Within
    <3>3. n \notin Below(b)
      BY <3>2 DEF Below
    <3>4. entries'[n] = entries[n]
      BY <1>0, <2>1, <3>1, <3>3 DEF Drops
    <3>5. since' = [m \in Places |-> IF m = b \/ b \in Above[m] THEN refreshes + 1 ELSE since[m]]
      BY <2>1 DEF Drops
    <3> QED  BY <1>0, <3>1, <3>2, <3>4, <3>5 DEF Present
  <2> HIDE DEF below
  <2>6. ASSUME NEW n \in Badged, n \notin below PROVE Good(n)
    <3>1. waiting'[n] = waiting[n] /\ badges'[n] = badges[n]
      BY <2>2, <2>6
    <3> QED  BY <1>1, <2>2, <2>3, <2>5, <2>6, <3>1 DEF Good, Wait
  <2> QED  BY <1>2, <2>4, <2>6
<1> QED  BY <1>7, <1>8, <1>9, <1>10, <1>11 DEF Next, Drawing, Reading, Asking

-----------------------------------------------------------------------------
(***************************************************************************)
(* Drawing                                                                 *)
(***************************************************************************)
\* With nothing pending, a row that is drawn is of a node that is there, in a branch that
\* is drawn.
LEMMA RowsArePresent ==
  ASSUME Lists, Drawn, ~Pending, ui.at # "asking", NEW n \in Nodes, Row(n)
  PROVE  Present(n)
<1> DEFINE p == Parent[n]
<1>1. p \in Places /\ p \in Above[n]
  BY Closure
<1>2. DrawnBranch(p)
  <2>1. CASE p = Root
    BY <2>1 DEF DrawnBranch
  <2>2. CASE p # Root
    <3>1. p \in Branches \cap open /\ p \in Nodes /\ Above[p] \subseteq Above[n]
      BY <1>1, <2>2, AboveBranches, Closure, Outwards DEF Row
    <3> QED  BY <1>1, <2>2, <3>1 DEF Row, DrawnBranch
  <2> QED  BY <2>1, <2>2
<1>3. shown[p] = Answer(p)
  BY <1>1, <1>2 DEF Drawn, Unasked
<1>4. n \in Answer(p).kids
  BY <1>3 DEF Row
<1>5. n \in entries[p].kids
  BY <1>4 DEF Answer
<1> QED  BY <1>1, <1>5 DEF Lists

\* What is drawn of a branch depends on those above it only.
LEMMA DrawnApart ==
  ASSUME NEW b \in Places, NEW c \in Places, b \notin Above[c], open' = open,
         \A m \in Places : m # b => shown'[m] = shown[m]
  PROVE  DrawnBranch(c)' = DrawnBranch(c)
<1>1. CASE c = Root
  BY <1>1 DEF DrawnBranch
<1>2. CASE c \in Nodes
  <2>1. \A m \in ({c} \cup Above[c]) \ {Root} : Parent[m] \in Above[c] /\ Parent[m] \in Places
    BY <1>2, Closure
  <2>2. \A m \in ({c} \cup Above[c]) \ {Root} : shown'[Parent[m]] = shown[Parent[m]]
    BY <2>1
  <2>3. c # Root
    BY <1>2, Closure
  <2> QED  BY <2>2, <2>3 DEF DrawnBranch, Row
<1> QED  BY <1>1, <1>2 DEF Places

LEMMA DrawnStep ==
  ASSUME Types, Lists, Drawn, [Next]_vars
  PROVE  Drawn'
<1>0. /\ TreeTypes /\ ViewTypes /\ MarkTypes /\ Root \in Places /\ Nodes \subseteq Places
      /\ Branches \subseteq Nodes /\ Badged \subseteq Nodes
      /\ shown \in [Places -> Drawings] /\ open \subseteq Branches
  BY TreeOfNodes DEF Types, ViewTypes, Places
<1>1. /\ \A b \in Places : shown[b].as # "unloaded"
      /\ ~Pending =>
           /\ \A b \in Places : DrawnBranch(b) => shown[b] = Answer(b) \/ Unasked(b)
           /\ \A n \in Rows \cap Badged :
                \/ badges[n].known \/ waiting[n] # None
                \/ ui.at = "asking" \/ (ui.at = "updating" /\ n \in ui.left)
  BY DEF Drawn
<1> DEFINE Shows(b) == DrawnBranch(b)' => shown'[b] = Answer(b)' \/ Unasked(b)'
           Reads(n) == Row(n)' =>
                         \/ badges'[n].known \/ waiting'[n] # None
                         \/ ui'.at = "asking" \/ (ui'.at = "updating" /\ n \in ui'.left)
<1>2. ASSUME \A b \in Places : shown'[b].as # "unloaded",
             ~Pending' => (\A b \in Places : Shows(b)) /\ (\A n \in Badged : Reads(n))
      PROVE  Drawn'
  BY <1>2 DEF Drawn, Rows
<1>3. ASSUME shown' = shown, Pending' PROVE Drawn'
  BY <1>1, <1>2, <1>3
<1>4. ASSUME view' = view, UNCHANGED <<badges, waiting>>, ~Pending' => ~Pending,
             \A b \in Places : entries'[b] = entries[b] \/ entries[b].at = "unloaded"
      PROVE  Drawn'
  <2>1. UNCHANGED <<open, shown, ui>>
    BY <1>4 DEF view
  <2>2. ASSUME NEW b \in Places, ~Pending' PROVE Shows(b)
    <3>1. DrawnBranch(b)' = DrawnBranch(b) /\ Unasked(b)' = Unasked(b)
      BY <2>1 DEF DrawnBranch, Row, Unasked
    <3>2. CASE entries'[b] = entries[b]
      BY <1>1, <1>4, <2>1, <2>2, <3>1, <3>2 DEF Answer, Present
    <3>3. CASE entries[b].at = "unloaded"
      <4>1. Answer(b).as = "unloaded"
        BY <3>3 DEF Answer, Present
      <4>2. shown[b] # Answer(b)
        BY <1>1, <4>1
      <4> QED  BY <1>1, <1>4, <2>2, <3>1, <4>2
    <3> QED  BY <1>4, <3>2, <3>3
  <2>3. ASSUME NEW n \in Badged, ~Pending' PROVE Reads(n)
    <3>1. Row(n)' = Row(n)
      BY <2>1 DEF Row
    <3> QED  BY <1>0, <1>1, <1>4, <2>1, <2>3, <3>1 DEF Rows
  <2> QED  BY <1>1, <1>2, <2>1, <2>2, <2>3
<1>5. ASSUME ui'.at = "asking", Root \in ui'.left, shown' = shown PROVE Drawn'
  <2>1. ASSUME NEW b \in Places PROVE Unasked(b)'
    <3>1. Root \in {b} \cup Above[b]
      BY RootedAssumption DEF Places
    <3> QED  BY <1>5, <3>1 DEF Unasked
  <2> QED  BY <1>1, <1>2, <1>5, <2>1
<1> HIDE DEF Shows, Reads
<1>6. ASSUME NEW l \in Loads, Goes(l), queued' = queued, load[l].at # "telling"
      PROVE  (~Pending' => ~Pending) /\ entries' = entries
  BY <1>6 DEF Goes, Pending
<1>7. ASSUME NEW n \in Places, NEW k \in Loads, Begins(n, k), queued' = queued
      PROVE  /\ ~Pending' => ~Pending
             /\ \A b \in Places : entries'[b] = entries[b] \/ entries[b].at = "unloaded"
  BY <1>7 DEF Begins, Pending
<1>8. ASSUME NEW l \in Loads, Read(l) PROVE Drawn'
  <2>1. Goes(l) /\ load[l].at # "telling" /\ UNCHANGED <<view, queued, marks>>
    BY <1>0, <1>8, ReadGoes DEF Read
  <2> QED  BY <1>4, <1>6, <2>1 DEF marks
<1>9. ASSUME NEW l \in Loads, Land(l) PROVE Drawn'
  <2>1. UNCHANGED <<view, queued, marks>> /\ load[l].at = "answered"
          /\ (Takes(l) \/ (Goes(l) /\ load'[l].at = "free"))
    BY <1>0, <1>9, LandDoes DEF Land
  <2>2. CASE Takes(l)
    <3>1. Pending'
      BY <2>2 DEF Takes, Pending
    <3> QED  BY <1>3, <2>1, <3>1 DEF view
  <2>3. CASE Goes(l)
    BY <1>4, <1>6, <2>1, <2>3 DEF marks
  <2> QED  BY <2>1, <2>2, <2>3
<1>10. ASSUME NEW l \in Loads, Tell(l) PROVE Drawn'
  <2>1. UNCHANGED view /\ queued' = TRUE
    BY <1>0, <1>10, TellDoes
  <2> QED  BY <1>3, <2>1 DEF Pending, view
<1>11. ASSUME NEW l \in Loads, OpenEager(l) PROVE Drawn'
  <2>1. UNCHANGED <<view, queued, marks>>
    BY <1>0, <1>11, OpenDoes
  <2>2. CASE Goes(l) /\ load[l].at = "opening"
    BY <1>4, <1>6, <2>1, <2>2 DEF marks
  <2>3. ASSUME NEW n \in Nodes, NEW k \in Loads, Begins(n, k) PROVE Drawn'
    BY <1>0, <1>4, <1>7, <2>1, <2>3 DEF marks
  <2> QED  BY <1>0, <1>11, <2>2, <2>3, OpenDoes
<1>12. CASE Fire
  BY <1>5, <1>12 DEF Fire
<1>13. ASSUME NEW b \in Branches, Toggle(b) PROVE Drawn'
  BY <1>5, <1>13 DEF Toggle
<1>14. ASSUME NEW f \in Fetches, Landed(f) PROVE Drawn'
  <2>1. UNCHANGED <<tree, view>> /\ (queued' = TRUE \/ UNCHANGED <<waiting, badges, queued>>)
    BY <1>14 DEF Landed
  <2>2. CASE queued' = TRUE
    BY <1>3, <2>1, <2>2 DEF Pending, view
  <2>3. CASE UNCHANGED <<waiting, badges, queued>>
    BY <1>4, <2>1, <2>3 DEF Pending, tree
  <2> QED  BY <2>1, <2>2, <2>3
<1>15. CASE UNCHANGED vars
  BY <1>4, <1>15 DEF vars, Pending, tree, marks
<1>16. CASE AskedAll
  <2>1. /\ ui.at = "asking" /\ ui.left = {} /\ UNCHANGED <<tree, open, queued, marks>>
        /\ ui' = RowsLeft(Rows \cap Badged)
        /\ shown' = [b \in Places |-> IF DrawnBranch(b) THEN shown[b] ELSE Undrawn]
    BY <1>16 DEF AskedAll
  <2>2. ~Pending' => ~Pending
    BY <2>1 DEF Pending, tree
  <2>3. ASSUME NEW b \in Places PROVE shown'[b].as # "unloaded" /\ shown'[b].kids \subseteq shown[b].kids
    BY <1>1, <2>1 DEF Undrawn
  <2>4. ASSUME NEW n \in Nodes, Row(n)' PROVE Row(n)
    <3>1. Parent[n] \in Places /\ \A m \in Above[n] \ {Root} : Parent[m] \in Places
      BY Closure
    <3> QED  BY <2>1, <2>3, <2>4, <3>1 DEF Row
  <2>5. ASSUME NEW b \in Places, DrawnBranch(b)' PROVE DrawnBranch(b)
    BY <1>0, <2>1, <2>4, <2>5 DEF DrawnBranch
  <2>6. ASSUME NEW b \in Places, ~Pending PROVE Shows(b)
    <3> SUFFICES ASSUME DrawnBranch(b)' PROVE shown'[b] = Answer(b)'
      BY DEF Shows
    <3>1. DrawnBranch(b) /\ ~Unasked(b)
      BY <2>1, <2>5 DEF Unasked
    <3>2. shown'[b] = shown[b]
      BY <2>1, <3>1
    <3> QED  BY <1>1, <2>1, <2>6, <3>1, <3>2 DEF tree, Answer, Present
  <2>7. ASSUME NEW n \in Badged PROVE Reads(n)
    <3> SUFFICES ASSUME Row(n)' PROVE ui'.at = "updating" /\ n \in ui'.left
      BY DEF Reads
    <3>1. n \in Rows \cap Badged
      BY <1>0, <2>4 DEF Rows
    <3> QED  BY <2>1, <3>1 DEF RowsLeft
  <2> QED  BY <1>2, <2>2, <2>3, <2>6, <2>7
<1>17. ASSUME NEW n \in Badged, UpdateRow(n) PROVE Drawn'
  <2>1. /\ ui.at = "updating" /\ ui' = RowsLeft(ui.left \ {n})
        /\ UNCHANGED <<tree, open, shown, queued>>
    BY <1>17 DEF UpdateRow
  <2>2. ~Pending' => ~Pending
    BY <2>1 DEF Pending, tree
  <2>3. \A m \in Places : DrawnBranch(m)' = DrawnBranch(m) /\ Answer(m)' = Answer(m)
    BY <2>1 DEF tree, Answer, Present, DrawnBranch, Row
  <2>4. ASSUME NEW b \in Places, ~Pending PROVE Shows(b)
    BY <1>1, <2>1, <2>3, <2>4 DEF Shows, Unasked
  <2>5. /\ \A m \in Badged : m # n => waiting'[m] = waiting[m]
        /\ badges' = badges
        /\ Present(n) => badges'[n].known \/ waiting'[n] # None
    BY <1>0, <1>17, TreeOfNodes DEF UpdateRow, marks, MarkTypes
  <2>6. \A m \in ui.left \ {n} : ui'.at = "updating" /\ m \in ui'.left
    BY <2>1 DEF RowsLeft
  <2>7. ASSUME NEW m \in Badged, ~Pending PROVE Reads(m)
    <3> SUFFICES ASSUME Row(m)'
                 PROVE  badges'[m].known \/ waiting'[m] # None \/ (ui'.at = "updating" /\ m \in ui'.left)
      BY DEF Reads
    <3>1. Row(m) /\ m \in Nodes
      BY <1>0, <2>1 DEF Row
    <3>2. CASE m = n
      BY <2>1, <2>5, <2>7, <3>1, <3>2, RowsArePresent
    <3>3. CASE m # n
      BY <1>1, <2>1, <2>5, <2>6, <2>7, <3>1, <3>3 DEF Rows
    <3> QED  BY <3>2, <3>3
  <2> QED  BY <1>1, <1>2, <2>1, <2>2, <2>4, <2>7
<1>18. ASSUME NEW b \in Places, Refresh(b) PROVE Drawn'
  <2>1. Drops(b) /\ DropBadges(b, TRUE) /\ UNCHANGED <<load, view>> /\ ui = Idle /\ (b # Root => Row(b))
    BY <1>0, <1>18, RefreshDoes DEF Drops, view, Refresh
  <2>2. CASE Pending'
    BY <1>3, <2>1, <2>2 DEF view
  <2>3. CASE ~Pending'
    <3>1. ~Present(b) /\ ~Pending
      <4>1. ~Present(b)
        BY <2>1, <2>3 DEF Drops, Pending
      <4>2. queued' = queued /\ load' = load
        BY <2>1, <4>1 DEF Drops
      <4> QED  BY <2>3, <4>1, <4>2 DEF Pending
    <3>2. ui.at # "asking"
      BY <2>1 DEF Idle
    <3>3. b # Root
      BY <3>1 DEF Lists
    <3>4. b \in Nodes /\ Row(b)
      BY <2>1, <3>3 DEF Places
    <3> QED  BY <3>1, <3>2, <3>4, RowsArePresent
  <2> QED  BY <2>2, <2>3
<1>19. ASSUME NEW b \in Places, AskBranch(b) PROVE Drawn'
  <2>1. /\ UNCHANGED <<open, queued, marks>> /\ ui.at = "asking"
        /\ ui' = [ui EXCEPT !.left = (@ \ {b}) \cup (shown'[b].kids \cap Branches \cap open)]
        /\ \/ /\ \E k \in Loads : Begins(b, k)
              /\ shown' = [shown EXCEPT ![b] = [as |-> "loading", kids |-> {}]]
           \/ /\ entries[b].at # "unloaded" /\ UNCHANGED tree
              /\ shown' = [shown EXCEPT ![b] = Answer(b)]
    BY <1>0, <1>19, AskDoes
  <2>2. ui'.at = "asking" /\ ui'.left = (ui.left \ {b}) \cup (shown'[b].kids \cap Branches \cap open)
    BY <1>0, <2>1 DEF ViewTypes
  <2>3. ~Pending' => ~Pending
    <3>1. ASSUME NEW k \in Loads, Begins(b, k) PROVE ~Pending' => ~Pending
      BY <1>7, <2>1, <3>1
    <3>2. CASE UNCHANGED tree
      BY <2>1, <3>2 DEF Pending, tree
    <3> QED  BY <2>1, <3>1, <3>2
  <2>4. /\ shown'[b] = Answer(b)' /\ shown'[b].as # "unloaded"
        /\ \A c \in Places : c # b => shown'[c] = shown[c] /\ Answer(c)' = Answer(c)
    <3>1. ASSUME NEW k \in Loads, Begins(b, k), shown' = [shown EXCEPT ![b] = [as |-> "loading", kids |-> {}]]
          PROVE  /\ shown'[b] = Answer(b)' /\ shown'[b].as # "unloaded"
                 /\ \A c \in Places : c # b => shown'[c] = shown[c] /\ Answer(c)' = Answer(c)
      <4>1. /\ entries'[b].at = "loading" /\ entries'[b].kids = entries[b].kids
            /\ entries[b].at = "unloaded" /\ \A m \in Places : m # b => entries'[m] = entries[m]
        BY <3>1 DEF Begins
      <4>2. entries[b].kids = {}
        BY <4>1 DEF Lists
      <4> QED  BY <1>0, <3>1, <4>1, <4>2 DEF Answer, Present
    <3>2. CASE entries[b].at # "unloaded" /\ UNCHANGED tree /\ shown' = [shown EXCEPT ![b] = Answer(b)]
      <4>1. Answer(b)' = Answer(b) /\ \A c \in Places : Answer(c)' = Answer(c)
        BY <3>2 DEF tree, Answer, Present
      <4>2. Answer(b).as # "unloaded"
        BY <3>2 DEF Answer
      <4> QED  BY <1>0, <3>2, <4>1, <4>2
    <3> QED  BY <2>1, <3>1, <3>2
  <2>5. \A c \in Places : shown'[c].as # "unloaded"
    BY <1>1, <2>4
  <2>6. ASSUME NEW c \in Places, ~Pending PROVE Shows(c)
    <3> SUFFICES ASSUME DrawnBranch(c)', c # b PROVE shown'[c] = Answer(c)' \/ Unasked(c)'
      BY <2>4 DEF Shows
    <3>1. CASE b \notin Above[c]
      <4>1. DrawnBranch(c)
        BY <2>1, <2>4, <3>1, DrawnApart
      <4>2. shown[c] = Answer(c) \/ Unasked(c)
        BY <1>1, <2>6, <4>1
      <4>3. Unasked(c) => Unasked(c)'
        BY <2>1, <2>2, <3>1 DEF Unasked
      <4> QED  BY <2>4, <4>2, <4>3
    <3>2. CASE b \in Above[c]
      <4>1. c \in Nodes /\ c # Root
        BY <3>2, NothingAboveRoot, TreeOfNodes DEF Places
      <4>2. PICK m \in ({c} \cup Above[c]) \ {Root} : m \in Nodes /\ Parent[m] = b
        BY <3>2, <4>1, Through
      <4>3. m \in open /\ m \in shown'[b].kids
        BY <2>1, <4>1, <4>2 DEF DrawnBranch, Row
      <4>4. m \in ui'.left
        BY <1>0, <2>2, <4>3
      <4> QED  BY <2>2, <4>2, <4>4 DEF Unasked
    <3> QED  BY <3>1, <3>2
  <2>7. ASSUME NEW n \in Badged PROVE Reads(n)
    BY <2>2 DEF Reads
  <2> QED  BY <1>2, <2>3, <2>5, <2>6, <2>7
<1> QED  BY <1>8, <1>9, <1>10, <1>11, <1>12, <1>13, <1>14, <1>15, <1>16, <1>17, <1>18, <1>19
         DEF Next, Loading, Drawing, Reading, Asking

-----------------------------------------------------------------------------
LEMMA InvInit == Init => Lists /\ Rooted /\ Followed /\ Marked /\ Drawn
<1> SUFFICES ASSUME Init PROVE Lists /\ Rooted /\ Followed /\ Marked /\ Drawn
  OBVIOUS
<1>0. Root \in Places /\ Nodes \subseteq Places /\ Root \notin Nodes /\ Badged \subseteq Nodes
  BY TreeOfNodes DEF Places
<1>1. /\ entries = [n \in Places |-> IF n = Root THEN Unloaded ELSE Gone]
      /\ \A l \in Loads : load[l].at = "free"
      /\ \A n \in Places : since[n] = 0 /\ shown[n].as = "none"
      /\ ui.at = "asking" /\ ui.left = {Root} /\ refreshes = 0
      /\ \A n \in Badged : waiting[n] = None /\ ~badges[n].known
  BY DEF Init, NoLoad, Undrawn, Unread
<1>2. \A n \in Places : /\ entries[n].kids = {} /\ entries[n].at \in {"absent", "unloaded"}
                        /\ entries[n].at = "unloaded" <=> n = Root
  BY <1>1, BlankRecords
<1>3. Lists
  BY <1>0, <1>1, <1>2 DEF Lists, Present
<1>4. Rooted
  BY <1>0, <1>2 DEF Rooted, Present
<1>5. Followed
  BY <1>1, <1>2 DEF Followed, CurrentAnswers, InFlight
<1>6. Marked
  BY <1>1 DEF Marked, Wait, CurrentBadges
<1>7. Drawn
  <2>1. ASSUME NEW b \in Places PROVE Unasked(b)
    <3>1. Root \in {b} \cup Above[b]
      BY RootedAssumption DEF Places
    <3> QED  BY <1>1, <3>1 DEF Unasked
  <2> QED  BY <1>1, <2>1 DEF Drawn
<1> QED  BY <1>3, <1>4, <1>5, <1>6, <1>7

Inv == Types /\ Lists /\ Rooted /\ Followed /\ Marked /\ Drawn

LEMMA AlwaysInv == Spec => []Inv
<1>1. Init => Inv
  BY TypesInit, InvInit DEF Inv
<1>2. Inv /\ [Next]_vars => Inv'
  <2> SUFFICES ASSUME Inv, [Next]_vars PROVE Inv'
    OBVIOUS
  <2>1. Types /\ TreeTypes /\ Lists /\ Rooted /\ Followed /\ Marked /\ Drawn
    BY DEF Inv, Types
  <2>2. Types' /\ Lists' /\ Rooted' /\ Followed' /\ Marked' /\ Drawn'
    BY <2>1, TypesStep, ListsStep, RootedStep, LoadedStep, MarkedStep, DrawnStep
  <2> QED  BY <2>2 DEF Inv
<1> QED  BY <1>1, <1>2, PTL DEF Spec

\* What a node shows is the answer of a load that was asked for after the last refresh of
\* it or of a branch it is in, however many loads and refreshes cross (load, Refresh).
THEOREM AnswersHold == Spec => []CurrentAnswers
<1>1. Inv => CurrentAnswers
  BY DEF Inv, Followed
<1> QED  BY <1>1, AlwaysInv, PTL

\* What the filter searches, m.entries, is a tree down from the root: nothing below a
\* branch that was dropped is left behind (Search, dropDescendants).
THEOREM FilterHolds == Spec => []FilterFindsTheTree
<1>1. Inv => FilterFindsTheTree
  <2> SUFFICES ASSUME Inv, revived = {}, NEW n \in Nodes, Present(n)
               PROVE  Present(Parent[n]) /\ n \in entries[Parent[n]].kids
    BY DEF FilterFindsTheTree
  <2>1. n \in entries[Parent[n]].kids
    BY DEF Inv, Rooted, Clean
  <2>2. Parent[n] \in Places
    BY Closure
  <2>3. entries[Parent[n]].at = "loaded"
    BY <2>1, <2>2 DEF Inv, Lists
  <2> QED  BY <2>1, <2>3 DEF Present
<1> QED  BY <1>1, AlwaysInv, PTL

\* No change of the tree and no row without its badge falls between one coalesced refresh
\* and the next, wherever a load lands among the branches being asked (Coalesce, Fire).
THEOREM DrawingHolds == Spec => []NothingUndrawn
<1>1. Inv => NothingUndrawn
  <2> SUFFICES ASSUME Inv, ui = Idle, ~Pending PROVE NothingUndrawn
    BY DEF NothingUndrawn, Pending
  <2>1. ui.at = "idle"
    BY DEF Idle
  <2> QED  BY <2>1 DEF Inv, Drawn, Unasked, NothingUndrawn
<1> QED  BY <1>1, AlwaysInv, PTL

\* A badge that is remembered was asked for after the last refresh of its node or of a
\* branch that is in, whenever its read lands (landed, dropBadges).
THEOREM BadgesHold == Spec => []CurrentBadges
<1>1. Inv => CurrentBadges
  BY DEF Inv, Marked
<1> QED  BY <1>1, AlwaysInv, PTL

-----------------------------------------------------------------------------
(***************************************************************************)
(* The connection behind a row of the tree                                 *)
(***************************************************************************)
\* Whoever dials, dials alone and for a connection that is not open; a number that was
\* not dialled yet is untouched, and a monitor runs for a landed dial only.
OneDial ==
  /\ opening # 0 => entry = 0
  /\ \A n \in Lives : dial[n] \in {"read", "dial"} => n = opening
  /\ \A n \in Lives : n > dials => dial[n] = "none"
  /\ \A n \in Lives : dial[n] # "opened" => monitor[n] = "none"

\* What is closed has no monitor any more, from the moment its pool is closed on.
Silenced ==
  /\ \A n \in Lives : status[n] = "closed" => monitor[n] = "done"
  /\ ~Ready => window.live # 0
  /\ window.at = "sessions" => entry = window.live
  /\ window.at = "pool" => monitor[window.live] = "done"

LinkInv == WorkspaceTypeOK /\ OneDial /\ Silenced /\ NoneLeaked

\* What a tab does, on either goroutine; Connect aside, it touches tabs only.
TabMove(t) ==
  \/ OpenTab(t) \/ CloseTab(t) \/ LandSession(t) \/ Query(t) \/ QueryAnswered(t)
  \/ DialAnswered(t) \/ OpenSession(t) \/ SessionCloses(t)

TabAction(t) == Connect(t) \/ TabMove(t)

\* The numbers of dials.
LEMMA DialNumbers ==
  ASSUME WorkspaceTypeOK
  PROVE  /\ Lives \subseteq 0..MaxDials /\ 0 \notin Lives
         /\ dials < MaxDials => dials + 1 \in Lives
         /\ entry # 0 => entry \in Lives
         /\ window.live # 0 => window.live \in Lives
BY WorkspaceBounds DEF WorkspaceTypeOK, Lives

LEMMA LinkInit == WorkspaceInit => LinkInv
<1> SUFFICES ASSUME WorkspaceInit PROVE LinkInv
  OBVIOUS
<1>1. WorkspaceTypeOK
  <2>1. [n \in Lives |-> 0] \in [Lives -> 0..MaxEdits]
    BY WorkspaceBounds
  <2>2. NoTab \in [at : Outstanding \cup InUse \cup {"none", "failed", "closing"}, live : 0..MaxDials]
    BY WorkspaceBounds DEF NoTab
  <2>3. tab \in [Tabs -> [at : Outstanding \cup InUse \cup {"none", "failed", "closing"}, live : 0..MaxDials]]
    BY <2>2 DEF WorkspaceInit
  <2>4. setting \in 0..MaxEdits /\ entry \in 0..MaxDials /\ opening \in 0..MaxDials /\ dials \in 0..MaxDials
    BY WorkspaceBounds DEF WorkspaceInit
  <2>5. window \in [at : {"ready", "sessions", "stop", "done", "pool"}, live : 0..MaxDials]
    BY WorkspaceBounds DEF WorkspaceInit
  <2> QED
    BY <2>1, <2>3, <2>4, <2>5 DEF WorkspaceInit, WorkspaceTypeOK
<1>2. OneDial
  <2>1. \A n \in Lives : dial[n] = "none" /\ monitor[n] = "none"
    BY DEF WorkspaceInit
  <2> QED
    BY <2>1 DEF WorkspaceInit, OneDial
<1>3. Silenced
  BY DEF WorkspaceInit, Silenced, Ready
<1>4. NoneLeaked
  BY DEF WorkspaceInit, NoneLeaked
<1> QED
  BY <1>1, <1>2, <1>3, <1>4 DEF LinkInv

\* Where a tab's goroutine may be, and for which connection.
TabRecord ==
  [at : {"connect", "wait", "session", "landing", "refused", "none", "ready", "asking", "failed",
         "closing"},
   live : 0..MaxDials]

\* The tabs' part of TypeOK, when one tab is given another record.
LEMMA TabMoves ==
  ASSUME WorkspaceTypeOK, NEW t \in Tabs, NEW r \in TabRecord, tab' = [tab EXCEPT ![t] = r],
         cancelled' \subseteq cancelled \cup {t}, t \in cancelled' => r.at \in Outstanding
  PROVE  /\ tab' \in [Tabs -> TabRecord]
         /\ cancelled' \subseteq {u \in Tabs : tab'[u].at \in Outstanding}
<1>1. tab \in [Tabs -> TabRecord] /\ cancelled \subseteq {u \in Tabs : tab[u].at \in Outstanding}
  BY DEF WorkspaceTypeOK, TabRecord, Outstanding, InUse
<1>2. tab' \in [Tabs -> TabRecord]
  BY <1>1
<1>3. \A u \in Tabs : tab'[u] = IF u = t THEN r ELSE tab[u]
  BY <1>1
<1> QED
  BY <1>1, <1>2, <1>3

LEMMA LinkTypeStep == WorkspaceTypeOK /\ [WorkspaceNext]_workspaceVars => WorkspaceTypeOK'
<1> SUFFICES ASSUME WorkspaceTypeOK, [WorkspaceNext]_workspaceVars PROVE WorkspaceTypeOK'
  OBVIOUS
<1>0. /\ Lives \subseteq 0..MaxDials /\ 0 \notin Lives
      /\ dials < MaxDials => dials + 1 \in Lives
      /\ entry # 0 => entry \in Lives
      /\ window.live # 0 => window.live \in Lives
  BY DialNumbers
<1> USE DEF dialling, watch, work
<1>1. ASSUME NEW t \in Tabs, OpenTab(t) PROVE WorkspaceTypeOK'
  BY <1>1 DEF OpenTab, WorkspaceTypeOK, Outstanding, InUse
<1>2. ASSUME NEW t \in Tabs, CloseTab(t) PROVE WorkspaceTypeOK'
  <2>1. tab[t] \in TabRecord
    BY DEF WorkspaceTypeOK, TabRecord, Outstanding, InUse
  <2>2. CASE tab[t].at \in Outstanding /\ cancelled' = cancelled \cup {t} /\ UNCHANGED tab
    BY <1>2, <2>2 DEF CloseTab, WorkspaceTypeOK
  <2>3. CASE /\ tab[t].at \in InUse \cup {"failed"} /\ UNCHANGED cancelled
             /\ tab' = [tab EXCEPT ![t] = IF Pinned(t) THEN [@ EXCEPT !.at = "closing"] ELSE NoTab]
    <3> DEFINE r == IF Pinned(t) THEN [tab[t] EXCEPT !.at = "closing"] ELSE NoTab
    <3>1. r \in TabRecord
      BY <2>1, WorkspaceBounds DEF TabRecord, NoTab
    <3>2. tab' = [tab EXCEPT ![t] = r]
      BY <2>3
    <3>3. t \notin cancelled'
      BY <1>2, <2>3 DEF CloseTab
    <3> HIDE DEF r
    <3>4. tab' \in [Tabs -> TabRecord] /\ cancelled' \subseteq {u \in Tabs : tab'[u].at \in Outstanding}
      BY <2>3, <3>1, <3>2, <3>3, TabMoves
    <3> QED
      BY <1>2, <3>4 DEF CloseTab, WorkspaceTypeOK, TabRecord, Outstanding, InUse
  <2> QED
    BY <1>2, <2>2, <2>3 DEF CloseTab
<1>3. ASSUME NEW t \in Tabs, LandSession(t) PROVE WorkspaceTypeOK'
  <2> DEFINE r == IF Pinned(t) THEN [tab[t] EXCEPT !.at = IF t \in cancelled THEN "closing" ELSE "ready"]
                  ELSE IF t \in cancelled THEN NoTab ELSE [NoTab EXCEPT !.at = "failed"]
  <2>1. tab[t] \in TabRecord
    BY DEF WorkspaceTypeOK, TabRecord, Outstanding, InUse
  <2>2. r \in TabRecord
    BY <2>1, WorkspaceBounds DEF TabRecord, NoTab
  <2>3. tab' = [tab EXCEPT ![t] = r] /\ cancelled' = cancelled \ {t}
    BY <1>3 DEF LandSession
  <2> HIDE DEF r
  <2>4. tab' \in [Tabs -> TabRecord] /\ cancelled' \subseteq {u \in Tabs : tab'[u].at \in Outstanding}
    BY <2>2, <2>3, TabMoves
  <2> QED
    BY <1>3, <2>4 DEF LandSession, WorkspaceTypeOK, TabRecord, Outstanding, InUse
<1>4. ASSUME NEW t \in Tabs, Connect(t) PROVE WorkspaceTypeOK'
  BY <1>0, <1>4 DEF Connect, StartDial, WorkspaceTypeOK, Outstanding, InUse
<1>5. ASSUME NEW t \in Tabs, DialAnswered(t) PROVE WorkspaceTypeOK'
  BY <1>5 DEF DialAnswered, WorkspaceTypeOK, Outstanding, InUse
<1>6. ASSUME NEW t \in Tabs, OpenSession(t) PROVE WorkspaceTypeOK'
  BY <1>6 DEF OpenSession, WorkspaceTypeOK, Outstanding, InUse
<1>7. ASSUME NEW t \in Tabs, SessionCloses(t) PROVE WorkspaceTypeOK'
  BY <1>7, WorkspaceBounds DEF SessionCloses, WorkspaceTypeOK, Outstanding, InUse, NoTab
<1>8. ASSUME NEW n \in Lives, DialStep(n) PROVE WorkspaceTypeOK'
  <2>1. CASE DialReads(n)
    BY <2>1 DEF DialReads, WorkspaceTypeOK
  <2>2. CASE DialLands(n)
    <3>1. entry' \in 0..MaxDials /\ opening' \in 0..MaxDials
      BY <1>0, <2>2, WorkspaceBounds DEF DialLands
    <3> QED
      BY <2>2, <3>1 DEF DialLands, WorkspaceTypeOK
  <2>3. CASE DialFails(n)
    BY WorkspaceBounds, <2>3 DEF DialFails, WorkspaceTypeOK
  <2> QED
    BY <1>8, <2>1, <2>2, <2>3 DEF DialStep
<1>9. ASSUME NEW n \in Lives, Tick(n) \/ MonitorStep(n) PROVE WorkspaceTypeOK'
  <2>1. CASE Tick(n)
    BY <2>1 DEF Tick, WorkspaceTypeOK
  <2>2. CASE Pinged(n)
    <3>1. PICK heard \in {"connected", "disconnected"} :
            monitor' = [monitor EXCEPT ![n] = IF stop[n] THEN "done" ELSE heard]
      BY <2>2 DEF Pinged
    <3> QED
      BY <2>2, <3>1 DEF Pinged, WorkspaceTypeOK
  <2>3. CASE Transition(n)
    BY <2>3 DEF Transition, WorkspaceTypeOK
  <2>4. CASE Forward(n) \/ MonitorEnds(n)
    BY <2>4 DEF Forward, MonitorEnds, WorkspaceTypeOK
  <2> QED
    BY <1>9, <2>1, <2>2, <2>3, <2>4 DEF MonitorStep
<1>10. ASSUME NEW t \in Tabs, Query(t) \/ QueryAnswered(t) PROVE WorkspaceTypeOK'
  BY <1>10 DEF Query, QueryAnswered, WorkspaceTypeOK, Outstanding, InUse
<1>11. ASSUME Disconnect \/ Save PROVE WorkspaceTypeOK'
  <2>1. setting' \in 0..MaxEdits
    BY <1>11, WorkspaceBounds DEF Disconnect, Save, WorkspaceTypeOK
  <2>2. window' \in [at : {"ready", "sessions", "stop", "done", "pool"}, live : 0..MaxDials]
    BY <1>11 DEF Disconnect, Save, Release, WorkspaceTypeOK
  <2> QED
    BY <1>11, <2>1, <2>2 DEF Disconnect, Save, WorkspaceTypeOK
<1>12. ASSUME Redraw PROVE WorkspaceTypeOK'
  BY <1>12 DEF Redraw, RowNow, WorkspaceTypeOK
<1>13. ASSUME CloseStep PROVE WorkspaceTypeOK'
  <2>1. CASE CloseStop
    BY <1>0, <2>1 DEF CloseStop, WorkspaceTypeOK
  <2>2. CASE CloseMonitor
    BY <1>0, <2>2 DEF CloseMonitor, WorkspaceTypeOK
  <2>3. CASE ClosePool
    BY <1>0, <2>3 DEF ClosePool, RowNow, WorkspaceTypeOK
  <2>4. ASSUME NEW t \in Tabs, CloseSession(t) PROVE WorkspaceTypeOK'
    <3> DEFINE r == [NoTab EXCEPT !.at = "failed"]
    <3>1. r \in TabRecord /\ tab' = [tab EXCEPT ![t] = r]
      BY <2>4, WorkspaceBounds DEF CloseSession, NoTab, TabRecord
    <3>2. t \notin cancelled /\ UNCHANGED <<cancelled, window>>
      BY <2>4 DEF CloseSession, WorkspaceTypeOK, Outstanding
    <3> HIDE DEF r
    <3>3. tab' \in [Tabs -> TabRecord] /\ cancelled' \subseteq {u \in Tabs : tab'[u].at \in Outstanding}
      BY <3>1, <3>2, TabMoves
    <3> QED
      BY <2>4, <3>3 DEF CloseSession, WorkspaceTypeOK, TabRecord, Outstanding, InUse
  <2>5. CASE ReleaseTabs
    <3>1. tab' \in [Tabs -> TabRecord]
      <4>1. \A t \in Tabs : tab[t] \in TabRecord /\ NoTab \in TabRecord
        BY WorkspaceBounds DEF WorkspaceTypeOK, TabRecord, Outstanding, InUse, NoTab
      <4> QED
        BY <2>5, <4>1 DEF ReleaseTabs
    <3>2. cancelled' \subseteq {t \in Tabs : tab'[t].at \in Outstanding}
      BY <2>5 DEF ReleaseTabs, WorkspaceTypeOK, Outstanding
    <3>3. entry' \in 0..MaxDials /\ window' \in [at : {"ready", "sessions", "stop", "done", "pool"}, live : 0..MaxDials]
      BY <2>5, WorkspaceBounds DEF ReleaseTabs, WorkspaceTypeOK
    <3> QED
      BY <2>5, <3>1, <3>2, <3>3 DEF ReleaseTabs, WorkspaceTypeOK, TabRecord, Outstanding, InUse
  <2> QED
    BY <1>13, <2>1, <2>2, <2>3, <2>4, <2>5 DEF CloseStep
<1>14. ASSUME UNCHANGED workspaceVars PROVE WorkspaceTypeOK'
  BY <1>14 DEF workspaceVars, WorkspaceTypeOK
<1> QED
  BY <1>1, <1>2, <1>3, <1>4, <1>5, <1>6, <1>7, <1>8, <1>9, <1>10, <1>11, <1>12, <1>13, <1>14
     DEF WorkspaceNext, TabStep

LEMMA OneDialStep == WorkspaceTypeOK /\ OneDial /\ [WorkspaceNext]_workspaceVars => OneDial'
<1> SUFFICES ASSUME WorkspaceTypeOK, OneDial, [WorkspaceNext]_workspaceVars PROVE OneDial'
  OBVIOUS
<1>0. Lives \subseteq 0..MaxDials /\ 0 \notin Lives /\ (dials < MaxDials => dials + 1 \in Lives)
  BY DialNumbers
<1> USE DEF dialling, watch, work
<1>1. ASSUME NEW t \in Tabs, StartDial(t), entry = 0, opening = 0, UNCHANGED <<entry, monitor>>
      PROVE  OneDial'
  <2>1. /\ dials' = dials + 1 /\ opening' = dials + 1 /\ dials + 1 \in Lives
        /\ dial' = [dial EXCEPT ![dials + 1] = "read"]
    BY <1>0, <1>1 DEF StartDial
  <2>2. \A n \in Lives : dial'[n] = IF n = dials + 1 THEN "read" ELSE dial[n]
    BY <2>1 DEF WorkspaceTypeOK
  <2>3. \A n \in Lives : dial[n] \notin {"read", "dial"}
    BY <1>0, <1>1 DEF OneDial
  <2>4. monitor[dials + 1] = "none"
    <3>1. dials + 1 > dials
      BY DEF WorkspaceTypeOK
    <3> QED
      BY <2>1, <3>1 DEF OneDial
  <2>5. \A n \in Lives : n > dials + 1 => n > dials /\ n # dials + 1
    BY <1>0 DEF WorkspaceTypeOK
  <2>6. \A n \in Lives : n > dials' => dial'[n] = "none"
    BY <2>1, <2>2, <2>5 DEF OneDial
  <2>7. \A n \in Lives : dial'[n] \in {"read", "dial"} => n = opening'
    BY <2>1, <2>2, <2>3
  <2>8. \A n \in Lives : dial'[n] # "opened" => monitor'[n] = "none"
    BY <1>1, <2>2, <2>4 DEF OneDial
  <2> QED
    BY <1>1, <2>6, <2>7, <2>8 DEF OneDial
<1>2. ASSUME NEW t \in Tabs, Connect(t) PROVE OneDial'
  <2>1. CASE UNCHANGED <<opening, dials, dial>>
    BY <1>2, <2>1 DEF Connect, OneDial
  <2>2. CASE entry = 0 /\ opening = 0 /\ StartDial(t)
    BY <1>1, <1>2, <2>2 DEF Connect
  <2> QED
    BY <1>2, <2>1, <2>2 DEF Connect
<1>3. ASSUME NEW t \in Tabs,
             TabMove(t)
      PROVE  OneDial'
  BY <1>3 DEF TabMove, Query, QueryAnswered, OpenTab, CloseTab, LandSession, DialAnswered, OpenSession, SessionCloses, OneDial
<1>4. ASSUME NEW n \in Lives, DialReads(n) PROVE OneDial'
  BY <1>4 DEF DialReads, OneDial, WorkspaceTypeOK
<1>5. ASSUME NEW n \in Lives, DialLands(n) PROVE OneDial'
  BY <1>5 DEF DialLands, OneDial, WorkspaceTypeOK
<1>6. ASSUME NEW n \in Lives, DialFails(n) PROVE OneDial'
  BY <1>6 DEF DialFails, OneDial, WorkspaceTypeOK
<1>7. ASSUME NEW n \in Lives, Tick(n) \/ MonitorStep(n) PROVE OneDial'
  <2>1. UNCHANGED dialling /\ monitor[n] # "none"
    BY <1>7 DEF Tick, MonitorStep, Pinged, Transition, Forward, MonitorEnds
  <2>2. \A m \in Lives : m # n => monitor'[m] = monitor[m]
    BY <1>7 DEF Tick, MonitorStep, Pinged, Transition, Forward, MonitorEnds, WorkspaceTypeOK
  <2> QED
    BY <2>1, <2>2 DEF OneDial
<1>8. ASSUME Disconnect \/ Save PROVE OneDial'
  BY <1>8 DEF Disconnect, Save, OneDial
<1>9. ASSUME Redraw \/ CloseStep \/ UNCHANGED workspaceVars PROVE OneDial'
  BY <1>9 DEF Redraw, CloseStep, CloseSession, ReleaseTabs, CloseStop, CloseMonitor, ClosePool, workspaceVars, OneDial
<1> QED
  BY <1>2, <1>3, <1>4, <1>5, <1>6, <1>7, <1>8, <1>9 DEF TabAction, TabMove, WorkspaceNext, TabStep, DialStep

LEMMA SilencedStep == LinkInv /\ [WorkspaceNext]_workspaceVars => Silenced'
<1> SUFFICES ASSUME LinkInv, [WorkspaceNext]_workspaceVars PROVE Silenced'
  OBVIOUS
<1>0. WorkspaceTypeOK /\ OneDial /\ Silenced
  BY DEF LinkInv
<1>00. window.live # 0 => window.live \in Lives
  BY <1>0, DialNumbers
<1> USE DEF dialling, watch, work
<1>1. ASSUME UNCHANGED <<watch, window, entry>> PROVE Silenced'
  BY <1>0, <1>1 DEF Silenced, Ready
<1>2. ASSUME NEW t \in Tabs, TabAction(t) PROVE Silenced'
  BY <1>1, <1>2 DEF TabAction, TabMove, Query, QueryAnswered, OpenTab, CloseTab, LandSession, Connect, DialAnswered, OpenSession, SessionCloses
<1>3. ASSUME NEW n \in Lives, DialReads(n) \/ DialFails(n) PROVE Silenced'
  BY <1>1, <1>3 DEF DialReads, DialFails
\* The monitor of a new connection starts: its number was never closed.
<1>4. ASSUME NEW n \in Lives, DialLands(n) PROVE Silenced'
  <2>1. monitor[n] = "none"
    BY <1>0, <1>4 DEF DialLands, OneDial
  <2>2. status[n] # "closed" /\ ~(window.at = "pool" /\ window.live = n)
    BY <1>0, <2>1 DEF Silenced
  <2>3. \A m \in Lives : m # n => monitor'[m] = monitor[m]
    BY <1>0, <1>4 DEF DialLands, WorkspaceTypeOK
  <2>4. status' = status /\ window' = window
    BY <1>4 DEF DialLands
  <2>5. window.at = "pool" => window.live # 0
    BY <1>0 DEF Silenced, Ready
  <2>6. n = opening /\ n # 0
    BY <1>0, <1>4, DialNumbers DEF DialLands, OneDial
  <2>7. window.at # "sessions"
    BY <1>0, <2>6 DEF OneDial, Silenced, Ready
  <2> QED
    BY <1>0, <1>00, <2>2, <2>3, <2>4, <2>5, <2>7 DEF Silenced, Ready
\* The monitor that takes a step is not done, and so not closed.
<1>5. ASSUME NEW n \in Lives, Tick(n) \/ MonitorStep(n) PROVE Silenced'
  <2>1. monitor[n] # "done" /\ window' = window /\ entry' = entry
    BY <1>5 DEF Tick, MonitorStep, Pinged, Transition, Forward, MonitorEnds
  <2>2. status[n] # "closed" /\ ~(window.at = "pool" /\ window.live = n)
    BY <1>0, <2>1 DEF Silenced
  <2>3. \A m \in Lives : m # n => monitor'[m] = monitor[m] /\ status'[m] = status[m]
    BY <1>0, <1>5 DEF Tick, MonitorStep, Pinged, Transition, Forward, MonitorEnds, WorkspaceTypeOK
  <2>4. status'[n] # "closed"
    <3>1. CASE Transition(n)
      BY <1>0, <3>1 DEF Transition, WorkspaceTypeOK
    <3>2. CASE UNCHANGED status
      BY <2>2, <3>2
    <3> QED
      BY <1>5, <3>1, <3>2 DEF Tick, MonitorStep, Pinged, Forward, MonitorEnds
  <2>5. window.at = "pool" => window.live # 0
    BY <1>0 DEF Silenced, Ready
  <2> QED
    BY <1>0, <1>00, <2>1, <2>2, <2>3, <2>4, <2>5 DEF Silenced, Ready
<1>6. ASSUME Disconnect \/ Save PROVE Silenced'
  BY <1>0, <1>6 DEF Disconnect, Save, Release, Silenced, Ready, WorkspaceTypeOK
<1>7. ASSUME Redraw \/ UNCHANGED workspaceVars PROVE Silenced'
  BY <1>1, <1>7 DEF Redraw, workspaceVars
<1>8. ASSUME CloseStop \/ CloseMonitor \/ ReleaseTabs PROVE Silenced'
  BY <1>0, <1>8 DEF CloseStop, CloseMonitor, ReleaseTabs, SessionsClosed, Silenced, Ready, WorkspaceTypeOK
<1>10. ASSUME NEW t \in Tabs, CloseSession(t) PROVE Silenced'
  BY <1>1, <1>10 DEF CloseSession
<1>9. ASSUME ClosePool PROVE Silenced'
  BY <1>0, <1>9 DEF ClosePool, Silenced, Ready, WorkspaceTypeOK
<1> QED
  BY <1>2, <1>3, <1>4, <1>5, <1>6, <1>7, <1>8, <1>9, <1>10
     DEF TabAction, TabMove, WorkspaceNext, TabStep, DialStep, CloseStep

\* A pool is opened when none is, and passes from the workspace to the close at once.
LEMMA LeakStep == LinkInv /\ [WorkspaceNext]_workspaceVars => NoneLeaked'
<1> SUFFICES ASSUME LinkInv, [WorkspaceNext]_workspaceVars PROVE NoneLeaked'
  OBVIOUS
<1>0. WorkspaceTypeOK /\ OneDial /\ Silenced /\ NoneLeaked
  BY DEF LinkInv
<1>00. 0 \notin Lives /\ (window.live # 0 => window.live \in Lives)
  BY <1>0, DialNumbers
<1> USE DEF dialling, watch, work
<1>1. ASSUME UNCHANGED <<pool, entry, window>> PROVE NoneLeaked'
  BY <1>0, <1>1 DEF NoneLeaked, Ready
<1>2. ASSUME NEW t \in Tabs, TabAction(t) PROVE NoneLeaked'
  BY <1>1, <1>2 DEF TabAction, TabMove, Query, QueryAnswered, OpenTab, CloseTab, LandSession, Connect, DialAnswered, OpenSession, SessionCloses
<1>3. ASSUME NEW n \in Lives, DialReads(n) \/ DialFails(n) \/ Tick(n) \/ MonitorStep(n) PROVE NoneLeaked'
  BY <1>1, <1>3 DEF DialReads, DialFails, Tick, MonitorStep, Pinged, Transition, Forward, MonitorEnds
<1>4. ASSUME NEW n \in Lives, DialLands(n) PROVE NoneLeaked'
  <2>1. entry = 0 /\ entry' = n /\ window' = window
    BY <1>0, <1>00, <1>4 DEF DialLands, OneDial
  <2>2. \A m \in Lives : m # n => pool'[m] = pool[m]
    BY <1>0, <1>4 DEF DialLands, WorkspaceTypeOK
  <2> QED
    BY <1>0, <1>00, <2>1, <2>2 DEF NoneLeaked, Ready
<1>5. ASSUME Ready, Release, UNCHANGED <<pool, entry>> PROVE NoneLeaked'
  BY <1>0, <1>5 DEF Release, NoneLeaked, Ready
<1>6. ASSUME Disconnect \/ Save PROVE NoneLeaked'
  BY <1>1, <1>5, <1>6 DEF Disconnect, Save
<1>7. ASSUME Redraw \/ UNCHANGED workspaceVars PROVE NoneLeaked'
  BY <1>1, <1>7 DEF Redraw, workspaceVars
<1>8. ASSUME CloseStep PROVE NoneLeaked'
  <2>1. ~Ready /\ window.live \in Lives /\ window'.live = window.live
          /\ (entry' = entry \/ (ReleaseTabs /\ entry = window.live /\ ~Ready' /\ UNCHANGED pool))
    BY <1>0, <1>00, <1>8 DEF CloseStep, CloseSession, ReleaseTabs, SessionsClosed, CloseStop, CloseMonitor, ClosePool,
       Ready, Silenced, WorkspaceTypeOK
  <2>2. \A m \in Lives : m # window.live => pool'[m] = pool[m]
    BY <1>0, <1>8 DEF CloseStep, CloseSession, ReleaseTabs, CloseStop, CloseMonitor, ClosePool, WorkspaceTypeOK
  <2>3. ~Ready' \/ pool'[window.live] = "closed"
    BY <1>0, <1>8, <2>1 DEF CloseStep, CloseSession, ReleaseTabs, CloseStop, CloseMonitor, ClosePool, Ready, WorkspaceTypeOK
  <2> QED
    BY <1>0, <2>1, <2>2, <2>3 DEF NoneLeaked, Ready
<1> QED
  BY <1>2, <1>3, <1>4, <1>6, <1>7, <1>8 DEF TabAction, TabMove, WorkspaceNext, TabStep, DialStep

LEMMA LinkAlways == WorkspaceSpec => []LinkInv
<1>1. LinkInv /\ [WorkspaceNext]_workspaceVars => LinkInv'
  BY LinkTypeStep, OneDialStep, SilencedStep, LeakStep DEF LinkInv
<1> QED
  BY LinkInit, <1>1, PTL DEF WorkspaceSpec

\* Every variable keeps its type, and only a tab whose goroutine is out is cancelled
\* (Workspace, Live, the window's tabs).
THEOREM LinkTypes == WorkspaceSpec => []WorkspaceTypeOK
<1>1. LinkInv => WorkspaceTypeOK
  BY DEF LinkInv
<1> QED
  BY <1>1, LinkAlways, PTL

\* No pool is left that nobody could close, however many tabs connect, give up and
\* disconnect at once (Workspace.Connect, dial and Disconnect).
THEOREM NoLeak == WorkspaceSpec => []NoneLeaked
<1>1. LinkInv => NoneLeaked
  BY DEF LinkInv
<1> QED
  BY <1>1, LinkAlways, PTL

\* A connection whose subscribers have heard that it is closed never says anything
\* else (Live.Close waits for Live.run).
THEOREM ClosedStaysClosed == WorkspaceSpec => QuietOnceClosed
<1>1. LinkInv /\ [WorkspaceNext]_workspaceVars
        => [\A n \in Lives : status[n] = "closed" => status'[n] = "closed"]_workspaceVars
  <2> SUFFICES ASSUME LinkInv, [WorkspaceNext]_workspaceVars, NEW n \in Lives, status[n] = "closed"
               PROVE  status'[n] = "closed"
    OBVIOUS
  <2>0. WorkspaceTypeOK /\ monitor[n] = "done"
    BY DEF LinkInv, Silenced
  <2> USE DEF dialling, watch, work
  <2>1. ASSUME NEW m \in Lives, Transition(m) PROVE status'[n] = "closed"
    BY <2>0, <2>1 DEF Transition, WorkspaceTypeOK
  <2>2. ASSUME ClosePool PROVE status'[n] = "closed"
    BY <2>0, <2>2 DEF ClosePool, WorkspaceTypeOK
  <2>3. CASE UNCHANGED status
    BY <2>3
  <2>4. ASSUME NEW t \in Tabs, TabAction(t)
        PROVE  UNCHANGED status
    BY <2>4 DEF TabAction, TabMove, Query, QueryAnswered, OpenTab, CloseTab, LandSession, Connect, DialAnswered, OpenSession, SessionCloses
  <2>5. ASSUME NEW m \in Lives, DialStep(m) \/ Tick(m) \/ Pinged(m) \/ Forward(m) \/ MonitorEnds(m)
        PROVE  UNCHANGED status
    BY <2>5 DEF DialStep, DialReads, DialLands, DialFails, Tick, Pinged, Forward, MonitorEnds
  <2>6. ASSUME Redraw \/ Disconnect \/ Save \/ CloseStop \/ CloseMonitor \/ ReleaseTabs \/ UNCHANGED workspaceVars
        PROVE  UNCHANGED status
    BY <2>6 DEF Redraw, Disconnect, Save, CloseStop, CloseMonitor, ReleaseTabs, workspaceVars
  <2>7. ASSUME NEW t \in Tabs, CloseSession(t) PROVE UNCHANGED status
    BY <2>7 DEF CloseSession
  <2> QED
    BY <2>1, <2>2, <2>3, <2>4, <2>5, <2>6, <2>7
       DEF TabAction, TabMove, WorkspaceNext, TabStep, MonitorStep, CloseStep
<1> QED
  BY <1>1, LinkAlways, PTL DEF QuietOnceClosed, WorkspaceSpec

-----------------------------------------------------------------------------
(***************************************************************************)
(* What a tab, a disconnect and the row wait for.  That it comes rests on  *)
(* fairness (ConnectReturns, DisconnectEndsIfLanded, LostIsDrawn); that it *)
(* is there to come does not.                                              *)
(***************************************************************************)
\* Whoever waits for an answer waits for a dial that goes on, or has answered; whoever has
\* a session, or is opening one, has it from a dial that opened the connection.
Attached ==
  \A t \in Tabs :
    /\ tab[t].at = "wait" =>
         tab[t].live \in Lives /\ (dial[tab[t].live] \in {"opened", "failed"} \/ tab[t].live = opening)
    /\ tab[t].at \in {"session", "landing", "closing"} \cup InUse =>
         tab[t].live \in Lives /\ dial[tab[t].live] = "opened"

\* A Disconnect waits for the sessions its tabs use while callers still get the connection;
\* once it is gone, for its monitor, which was told to stop, and for sessions that are being
\* closed, or still in the window's queue: none that is in use.
WaitsForTheGone ==
  ~Ready =>
    /\ window.live \in Lives /\ monitor[window.live] # "none"
    /\ window.at = "sessions" => entry = window.live /\ ~stop[entry] /\ pool[entry] = "open"
    /\ window.at \in {"done", "pool"} => stop[window.live]
    /\ window.at # "sessions" => \A t \in HeldBy(window.live) : tab[t].at \in {"landing", "closing"}

\* The row says what is so, unless word of a change is on its way to it.
RowIsCurrent ==
  Ready => drawn = RowNow \/ due \/ (entry # 0 /\ monitor[entry] = "telling")

\* A dial in flight is in flight; the connection that is open was opened and has its monitor.
Founded ==
  /\ opening # 0 => opening \in Lives /\ dial[opening] \in {"read", "dial"}
  /\ entry # 0 => entry \in Lives /\ dial[entry] = "opened" /\ monitor[entry] # "none"
  /\ \A n \in Lives : monitor[n] = "none" => status[n] = "connected"

\* A connection not opened yet was not told to stop, nor was the one that is open, whose
\* pool is; it is another than the one that is being closed.
Untold ==
  /\ \A n \in Lives : dial[n] # "opened" => ~stop[n]
  /\ entry # 0 => ~stop[entry] /\ pool[entry] = "open"
  /\ window.at \in {"stop", "done", "pool"} => entry # window.live

\* Once the window has closed the sessions of a connection no tab has one in use.
NoneInUse ==
  ~Ready => /\ window.live \in Lives /\ monitor[window.live] # "none"
            /\ window.at \in {"done", "pool"} => stop[window.live]
            /\ window.at # "sessions" => \A t \in Tabs : tab[t].at \notin InUse

WaitInv == Founded /\ Attached /\ Untold /\ NoneInUse /\ RowIsCurrent

\* A dial that began never goes back, and one that opened stays so; a monitor that was
\* started was, and a connection told to stop stays told.
LEMMA LinkKeeps ==
  ASSUME LinkInv, [WorkspaceNext]_workspaceVars
  PROVE  \A n \in Lives : /\ dial[n] \in {"opened", "failed"} => dial'[n] = dial[n]
                          /\ monitor[n] # "none" => monitor'[n] # "none"
                          /\ stop[n] => stop'[n]
<1>0. WorkspaceTypeOK /\ OneDial
  BY DEF LinkInv
<1> USE DEF dialling, watch, work
<1> SUFFICES ASSUME NEW n \in Lives
             PROVE  /\ dial[n] \in {"opened", "failed"} => dial'[n] = dial[n]
                    /\ monitor[n] # "none" => monitor'[n] # "none"
                    /\ stop[n] => stop'[n]
  OBVIOUS
<1>1. ASSUME NEW t \in Tabs, Connect(t)
      PROVE  UNCHANGED <<monitor, stop>> /\ (dial[n] \in {"opened", "failed"} => dial'[n] = dial[n])
  <2>1. UNCHANGED <<monitor, stop>>
    BY <1>1 DEF Connect
  <2>2. CASE UNCHANGED dial
    BY <2>1, <2>2
  <2>3. CASE StartDial(t)
    <3>1. dial' = [dial EXCEPT ![dials + 1] = "read"] /\ dials \in Int /\ n \in Int
      BY <1>0, <2>3 DEF StartDial, WorkspaceTypeOK, Lives
    <3>2. dial[n] # "none" => n # dials + 1
      BY <1>0, <3>1 DEF OneDial
    <3> QED  BY <1>0, <2>1, <3>1, <3>2 DEF WorkspaceTypeOK
  <2> QED  BY <1>1, <2>2, <2>3 DEF Connect
<1>2. ASSUME NEW t \in Tabs,
             TabMove(t)
      PROVE  UNCHANGED <<dial, monitor, stop>>
  BY <1>2 DEF TabMove, Query, QueryAnswered, OpenTab, CloseTab, LandSession, DialAnswered, OpenSession, SessionCloses
<1>3. ASSUME NEW m \in Lives, DialStep(m)
      PROVE  /\ UNCHANGED stop /\ (dial[n] \in {"opened", "failed"} => dial'[n] = dial[n])
             /\ monitor[n] # "none" => monitor'[n] # "none"
  BY <1>0, <1>3 DEF DialStep, DialReads, DialLands, DialFails, WorkspaceTypeOK
<1>4. ASSUME NEW m \in Lives, Tick(m) \/ MonitorStep(m)
      PROVE  UNCHANGED <<dial, stop>> /\ (monitor[n] # "none" => monitor'[n] # "none")
  <2>1. CASE Pinged(m)
    <3>1. PICK heard \in {"connected", "disconnected"} :
            monitor' = [monitor EXCEPT ![m] = IF stop[m] THEN "done" ELSE heard]
      BY <2>1 DEF Pinged
    <3> QED  BY <1>0, <2>1, <3>1 DEF Pinged, WorkspaceTypeOK
  <2>2. CASE Transition(m)
    BY <1>0, <2>2 DEF Transition, WorkspaceTypeOK
  <2>3. CASE Tick(m) \/ Forward(m) \/ MonitorEnds(m)
    BY <1>0, <2>3 DEF Tick, Forward, MonitorEnds, WorkspaceTypeOK
  <2> QED  BY <1>4, <2>1, <2>2, <2>3 DEF MonitorStep
<1>5. ASSUME Disconnect \/ Save \/ Redraw \/ UNCHANGED workspaceVars
      PROVE  UNCHANGED <<dial, monitor, stop>>
  BY <1>5 DEF Disconnect, Save, Redraw, workspaceVars
<1>6. ASSUME CloseStep
      PROVE  UNCHANGED <<dial, monitor>> /\ (stop[n] => stop'[n])
  BY <1>0, <1>6 DEF CloseStep, CloseSession, ReleaseTabs, CloseStop, CloseMonitor, ClosePool, WorkspaceTypeOK
<1> QED
  BY <1>1, <1>2, <1>3, <1>4, <1>5, <1>6 DEF TabAction, TabMove, WorkspaceNext, TabStep

LEMMA FoundedStep == LinkInv /\ Founded /\ [WorkspaceNext]_workspaceVars => Founded'
<1> SUFFICES ASSUME LinkInv, Founded, [WorkspaceNext]_workspaceVars PROVE Founded'
  OBVIOUS
<1>0. WorkspaceTypeOK /\ OneDial
  BY DEF LinkInv
<1>00. 0 \notin Lives /\ (dials < MaxDials => dials + 1 \in Lives)
  BY <1>0, DialNumbers
<1> USE DEF dialling, watch, work
<1>1. ASSUME NEW t \in Tabs, Connect(t) PROVE Founded'
  <2>1. UNCHANGED <<entry, monitor, status>>
    BY <1>1 DEF Connect
  <2>2. CASE UNCHANGED <<opening, dials, dial>>
    BY <2>1, <2>2 DEF Founded
  <2>3. CASE entry = 0 /\ StartDial(t)
    <3>1. opening' = dials + 1 /\ dials + 1 \in Lives /\ dial' = [dial EXCEPT ![dials + 1] = "read"]
      BY <1>00, <2>3 DEF StartDial
    <3>2. dial'[dials + 1] = "read"
      BY <1>0, <3>1 DEF WorkspaceTypeOK
    <3> QED  BY <2>1, <2>3, <3>1, <3>2 DEF Founded
  <2> QED  BY <1>1, <2>2, <2>3 DEF Connect
<1>2. ASSUME NEW t \in Tabs,
             TabMove(t)
      PROVE  Founded'
  BY <1>2 DEF TabMove, Query, QueryAnswered, OpenTab, CloseTab, LandSession, DialAnswered, OpenSession, SessionCloses, Founded
<1>3. ASSUME NEW n \in Lives, DialReads(n) PROVE Founded'
  <2>1. UNCHANGED <<entry, opening, monitor, status>> /\ dial[n] = "read" /\ dial' = [dial EXCEPT ![n] = "dial"]
    BY <1>3 DEF DialReads
  <2> QED  BY <1>0, <2>1 DEF Founded, WorkspaceTypeOK
<1>4. ASSUME NEW n \in Lives, DialLands(n) PROVE Founded'
  <2>1. /\ opening' = 0 /\ entry' = n /\ UNCHANGED status
        /\ dial' = [dial EXCEPT ![n] = "opened"] /\ monitor' = [monitor EXCEPT ![n] = "waiting"]
    BY <1>4 DEF DialLands
  <2> QED  BY <1>0, <2>1 DEF Founded, WorkspaceTypeOK
<1>5. ASSUME NEW n \in Lives, DialFails(n) PROVE Founded'
  <2>1. UNCHANGED <<entry, monitor, status>> /\ opening' = 0 /\ dial[n] = "dial" /\ dial' = [dial EXCEPT ![n] = "failed"]
    BY <1>5 DEF DialFails
  <2> QED  BY <1>0, <2>1 DEF Founded, WorkspaceTypeOK
<1>6. ASSUME NEW n \in Lives, Tick(n) \/ MonitorStep(n) PROVE Founded'
  <2>1. UNCHANGED dialling /\ monitor[n] # "none"
    BY <1>6 DEF Tick, MonitorStep, Pinged, Transition, Forward, MonitorEnds
  <2>2. \A m \in Lives : m # n => monitor'[m] = monitor[m] /\ status'[m] = status[m]
    BY <1>0, <1>6 DEF Tick, MonitorStep, Pinged, Transition, Forward, MonitorEnds, WorkspaceTypeOK
  <2>3. monitor'[n] # "none"
    BY <1>6, <2>1, LinkKeeps
  <2> QED  BY <2>1, <2>2, <2>3 DEF Founded
<1>7. ASSUME Disconnect \/ Save PROVE Founded'
  <2>1. UNCHANGED <<opening, dial, monitor, status>> /\ entry' \in {0, entry}
    BY <1>7 DEF Disconnect, Save, Release
  <2> QED  BY <2>1 DEF Founded
<1>8. ASSUME Redraw \/ CloseStop \/ CloseMonitor \/ UNCHANGED workspaceVars PROVE Founded'
  BY <1>8 DEF Redraw, CloseStop, CloseMonitor, workspaceVars, Founded
<1>10. ASSUME ReleaseTabs \/ (\E t \in Tabs : CloseSession(t)) PROVE Founded'
  BY <1>10 DEF ReleaseTabs, CloseSession, Founded
<1>9. ASSUME ClosePool PROVE Founded'
  <2>1. UNCHANGED <<entry, opening, dial, monitor>> /\ status' = [status EXCEPT ![window.live] = "closed"]
    BY <1>9 DEF ClosePool
  <2>2. monitor[window.live] = "done"
    BY <1>9 DEF ClosePool, LinkInv, Silenced
  <2>3. \A m \in Lives : m # window.live => status'[m] = status[m]
    BY <1>0, <2>1 DEF WorkspaceTypeOK
  <2> QED  BY <2>1, <2>2, <2>3 DEF Founded
<1> QED
  BY <1>1, <1>2, <1>3, <1>4, <1>5, <1>6, <1>7, <1>8, <1>9, <1>10
     DEF TabAction, TabMove, WorkspaceNext, TabStep, DialStep, CloseStep

\* What a step makes of a tab.
LEMMA TabGoes ==
  ASSUME LinkInv, Founded, Attached, [WorkspaceNext]_workspaceVars, NEW t \in Tabs
  PROVE  /\ tab'[t].at = "wait" => tab'[t] = tab[t] \/ (tab'[t].live \in Lives /\ tab'[t].live = opening')
         /\ tab'[t].at \in {"session", "landing", "closing"} \cup InUse =>
              tab'[t].live \in Lives /\ dial[tab'[t].live] = "opened"
         /\ tab'[t].at \in InUse => tab[t].at \in InUse \/ Ready
<1> DEFINE Goal ==
      /\ tab'[t].at = "wait" => tab'[t] = tab[t] \/ (tab'[t].live \in Lives /\ tab'[t].live = opening')
      /\ tab'[t].at \in {"session", "landing", "closing"} \cup InUse =>
           tab'[t].live \in Lives /\ dial[tab'[t].live] = "opened"
      /\ tab'[t].at \in InUse => tab[t].at \in InUse \/ Ready
<1>0. WorkspaceTypeOK /\ tab \in [Tabs -> TabRecord]
  BY DEF LinkInv, WorkspaceTypeOK, TabRecord, Outstanding, InUse
<1>00. /\ tab[t] \in TabRecord
       /\ tab[t].at = "wait" => dial[tab[t].live] \in {"opened", "failed"} \/ tab[t].live = opening
       /\ tab[t].at \in {"session", "landing", "closing"} \cup InUse =>
            tab[t].live \in Lives /\ dial[tab[t].live] = "opened"
  BY <1>0 DEF Attached
<1> USE DEF dialling, watch, work
<1>1. CASE tab'[t] = tab[t]
  BY <1>00, <1>1
<1>2. CASE Connect(t)
  <2>1. CASE entry # 0 /\ tab' = [tab EXCEPT ![t] = [at |-> "session", live |-> entry]]
    BY <1>0, <2>1 DEF Founded, InUse
  <2>2. CASE opening # 0 /\ tab' = [tab EXCEPT ![t] = [at |-> "wait", live |-> opening]] /\ UNCHANGED opening
    BY <1>0, <2>2 DEF Founded, InUse
  <2>3. CASE StartDial(t)
    <3>1. tab' = [tab EXCEPT ![t] = [at |-> "wait", live |-> dials + 1]] /\ opening' = dials + 1
      BY <2>3 DEF StartDial
    <3>2. dials + 1 \in Lives
      BY <1>0, <2>3, DialNumbers DEF StartDial
    <3> QED  BY <1>0, <3>1, <3>2 DEF InUse
  <2> QED  BY <1>2, <2>1, <2>2, <2>3 DEF Connect
<1>3. CASE DialAnswered(t)
  <2>1. CASE dial[tab[t].live] = "opened" /\ tab' = [tab EXCEPT ![t].at = "session"]
    <3>1. tab'[t].at = "session" /\ tab'[t].live = tab[t].live
      BY <1>0, <1>00, <2>1 DEF TabRecord, InUse
    <3>2. tab[t].live \in Lives
      BY <1>3 DEF DialAnswered, Attached
    <3> QED  BY <2>1, <3>1, <3>2 DEF InUse
  <2>2. CASE tab' = [tab EXCEPT ![t].at = "refused"]
    BY <1>0, <1>00, <2>2 DEF TabRecord, InUse
  <2> QED  BY <1>3, <2>1, <2>2 DEF DialAnswered
<1>4. CASE OpenSession(t)
  <2>1. tab[t].at = "session" /\ tab'[t].live = tab[t].live /\ tab'[t].at \in {"landing", "refused"}
    BY <1>0, <1>00, <1>4 DEF OpenSession, TabRecord
  <2> QED  BY <1>00, <2>1 DEF InUse
<1>5. CASE OpenTab(t)
  BY <1>0, <1>00, <1>5 DEF OpenTab, TabRecord, InUse
<1>6. CASE LandSession(t)
  <2>1. Ready
    BY <1>6 DEF LandSession
  <2>2. CASE Pinned(t)
    <3>1. tab'[t] = [tab[t] EXCEPT !.at = IF t \in cancelled THEN "closing" ELSE "ready"]
      BY <1>0, <1>6, <2>2 DEF LandSession
    <3>2. tab'[t].live = tab[t].live /\ tab'[t].at \in {"closing", "ready"}
      BY <1>00, <3>1 DEF TabRecord, InUse
    <3> QED  BY <1>00, <2>1, <2>2, <3>2 DEF Pinned, InUse
  <2>3. CASE ~Pinned(t)
    <3>1. tab'[t] = IF t \in cancelled THEN NoTab ELSE [NoTab EXCEPT !.at = "failed"]
      BY <1>0, <1>6, <2>3 DEF LandSession
    <3> QED  BY <3>1 DEF NoTab, InUse
  <2> QED  BY <2>2, <2>3
<1>7. CASE CloseTab(t)
  <2>1. CASE UNCHANGED tab
    BY <1>1, <2>1
  <2>2. CASE tab' = [tab EXCEPT ![t] = IF Pinned(t) THEN [@ EXCEPT !.at = "closing"] ELSE NoTab]
    <3>1. CASE Pinned(t)
      <4>1. tab'[t] = [tab[t] EXCEPT !.at = "closing"]
        BY <1>0, <2>2, <3>1
      <4>2. tab'[t].live = tab[t].live /\ tab'[t].at = "closing"
        BY <1>00, <4>1 DEF TabRecord, InUse
      <4> QED  BY <1>00, <3>1, <4>2 DEF Pinned, InUse
    <3>2. CASE ~Pinned(t)
      BY <1>0, <2>2, <3>2 DEF NoTab, InUse
    <3> QED  BY <3>1, <3>2
  <2> QED  BY <1>7, <2>1, <2>2 DEF CloseTab
<1>8. CASE SessionCloses(t)
  BY <1>0, <1>8 DEF SessionCloses, NoTab, InUse
<1>9. CASE ReleaseTabs \/ \E u \in Tabs : CloseSession(u)
  <2>1. tab'[t] \in {tab[t], NoTab, [NoTab EXCEPT !.at = "failed"]}
    BY <1>0, <1>9 DEF ReleaseTabs, CloseSession
  <2> QED  BY <1>1, <2>1 DEF NoTab, InUse
<1>14. CASE Query(t) \/ QueryAnswered(t)
  <2>1. tab'[t].live = tab[t].live /\ tab[t].at \in InUse /\ tab'[t].at \in InUse
    BY <1>0, <1>00, <1>14 DEF Query, QueryAnswered, TabRecord, InUse
  <2> QED  BY <1>00, <2>1 DEF InUse
<1>10. ASSUME NEW u \in Tabs, u # t, TabAction(u)
       PROVE  tab'[t] = tab[t]
  BY <1>0, <1>10 DEF TabAction, TabMove, Query, QueryAnswered, OpenTab, CloseTab, LandSession, Connect, StartDial, DialAnswered,
     OpenSession, SessionCloses
<1>11. ASSUME NEW n \in Lives, DialStep(n) \/ Tick(n) \/ MonitorStep(n)
       PROVE  tab'[t] = tab[t]
  BY <1>11 DEF DialStep, DialReads, DialLands, DialFails, Tick, MonitorStep, Pinged, Transition,
     Forward, MonitorEnds
<1>12. ASSUME Redraw \/ CloseStop \/ CloseMonitor \/ ClosePool \/ UNCHANGED workspaceVars
       PROVE  tab'[t] = tab[t]
  BY <1>12 DEF Redraw, CloseStop, CloseMonitor, ClosePool, workspaceVars
<1>13. ASSUME Disconnect \/ Save
       PROVE  tab'[t] = tab[t]
  BY <1>13 DEF Disconnect, Save
<1> QED
  BY <1>1, <1>2, <1>3, <1>4, <1>5, <1>6, <1>7, <1>8, <1>9, <1>10, <1>11, <1>12, <1>13, <1>14
     DEF TabAction, TabMove, WorkspaceNext, TabStep, CloseStep

LEMMA AttachedStep == LinkInv /\ Founded /\ Attached /\ [WorkspaceNext]_workspaceVars => Attached'
<1> SUFFICES ASSUME LinkInv, Founded, Attached, [WorkspaceNext]_workspaceVars, NEW t \in Tabs
             PROVE  /\ tab'[t].at = "wait" =>
                         tab'[t].live \in Lives
                           /\ (dial'[tab'[t].live] \in {"opened", "failed"} \/ tab'[t].live = opening')
                    /\ tab'[t].at \in {"session", "landing", "closing"} \cup InUse =>
                         tab'[t].live \in Lives /\ dial'[tab'[t].live] = "opened"
  BY DEF Attached
<1>0. WorkspaceTypeOK /\ OneDial
  BY DEF LinkInv
<1>1. tab'[t].at \in {"session", "landing", "closing"} \cup InUse =>
        tab'[t].live \in Lives /\ dial'[tab'[t].live] = "opened"
  BY TabGoes, LinkKeeps
<1>2. ASSUME tab'[t].at = "wait", tab'[t] = tab[t]
      PROVE  tab'[t].live \in Lives
               /\ (dial'[tab'[t].live] \in {"opened", "failed"} \/ tab'[t].live = opening')
  <2> DEFINE n == tab[t].live
  <2>1. n \in Lives /\ (dial[n] \in {"opened", "failed"} \/ n = opening)
    BY <1>2 DEF Attached
  <2>2. CASE dial[n] \in {"opened", "failed"}
    BY <1>2, <2>1, <2>2, LinkKeeps
  \* Only the end of a dial puts another in its place.
  <2>3. CASE n = opening
    <3>1. ASSUME NEW m \in Lives, DialLands(m) \/ DialFails(m)
          PROVE  dial'[n] \in {"opened", "failed"}
      <4>1. m = n
        BY <1>0, <2>3, <3>1 DEF DialLands, DialFails, OneDial
      <4> QED  BY <1>0, <3>1, <4>1 DEF DialLands, DialFails, WorkspaceTypeOK
    <3>2. ASSUME NEW u \in Tabs, Connect(u)
          PROVE  opening' = opening
      <4>1. 0 \notin Lives
        BY <1>0, DialNumbers
      <4> QED  BY <2>1, <2>3, <3>2, <4>1 DEF Connect
    <3>3. ASSUME NEW u \in Tabs,
                 TabMove(u)
          PROVE  opening' = opening
      BY <3>3 DEF TabMove, Query, QueryAnswered, OpenTab, CloseTab, LandSession, DialAnswered, OpenSession, SessionCloses, dialling
    <3>4. ASSUME NEW m \in Lives, DialReads(m) \/ Tick(m) \/ MonitorStep(m)
          PROVE  opening' = opening
      BY <3>4 DEF DialReads, Tick, MonitorStep, Pinged, Transition, Forward, MonitorEnds, dialling
    <3>5. ASSUME Disconnect \/ Save \/ Redraw \/ CloseStep \/ UNCHANGED workspaceVars
          PROVE  opening' = opening
      BY <3>5 DEF Disconnect, Save, Redraw, CloseStep, CloseSession, ReleaseTabs, CloseStop, CloseMonitor, ClosePool, dialling,
         workspaceVars
    <3>6. dial'[n] \in {"opened", "failed"} \/ opening' = opening
      BY <3>1, <3>2, <3>3, <3>4, <3>5 DEF TabAction, TabMove, WorkspaceNext, TabStep, DialStep
    <3> QED  BY <1>2, <2>1, <2>3, <3>6
  <2> QED  BY <2>1, <2>2, <2>3
<1> QED
  BY <1>1, <1>2, TabGoes

\* A connection is told to stop once it is no longer the workspace's, and what lands then is
\* another.
LEMMA UntoldStep == LinkInv /\ WaitInv /\ [WorkspaceNext]_workspaceVars => Untold'
<1> SUFFICES ASSUME LinkInv, WaitInv, [WorkspaceNext]_workspaceVars PROVE Untold'
  OBVIOUS
<1>0. WorkspaceTypeOK /\ OneDial /\ Silenced /\ Founded /\ Untold /\ NoneInUse
  BY DEF LinkInv, WaitInv
<1>00. 0 \notin Lives
  BY <1>0, DialNumbers
<1> USE DEF dialling, watch, work
<1>1. ASSUME UNCHANGED <<stop, entry, pool, window>>,
             \A n \in Lives : dial[n] = "opened" => dial'[n] = "opened"
      PROVE  Untold'
  BY <1>0, <1>1 DEF Untold
<1>2. \A n \in Lives : dial[n] = "opened" => dial'[n] = "opened"
  BY LinkKeeps
<1>3. ASSUME NEW t \in Tabs, TabAction(t) PROVE Untold'
  BY <1>1, <1>2, <1>3 DEF TabAction, TabMove, Query, QueryAnswered, OpenTab, CloseTab, LandSession, Connect,
     DialAnswered, OpenSession, SessionCloses
<1>4. ASSUME NEW n \in Lives, DialReads(n) \/ DialFails(n) \/ Tick(n) \/ MonitorStep(n) PROVE Untold'
  BY <1>1, <1>2, <1>4 DEF DialReads, DialFails, Tick, MonitorStep, Pinged, Transition, Forward, MonitorEnds
<1>5. ASSUME NEW n \in Lives, DialLands(n) PROVE Untold'
  <2>1. entry' = n /\ UNCHANGED <<stop, window>> /\ dial[n] = "dial" /\ pool'[n] = "open"
    BY <1>0, <1>5 DEF DialLands, WorkspaceTypeOK
  <2>2. window.at \in {"stop", "done", "pool"} => monitor[window.live] # "none"
    BY <1>0 DEF NoneInUse, Ready
  <2>3. monitor[n] = "none" /\ ~stop[n]
    BY <1>0, <2>1 DEF OneDial, Untold
  <2> QED  BY <1>0, <1>2, <2>1, <2>2, <2>3 DEF Untold
<1>6. ASSUME Disconnect \/ Save PROVE Untold'
  <2>1. UNCHANGED <<stop, entry, pool, dial>> /\ (window' = window \/ window'.at = "sessions")
    BY <1>6 DEF Disconnect, Save, Release
  <2> QED  BY <1>0, <2>1 DEF Untold
<1>7. ASSUME Redraw \/ UNCHANGED workspaceVars \/ \E t \in Tabs : CloseSession(t) PROVE Untold'
  BY <1>1, <1>2, <1>7 DEF Redraw, workspaceVars, CloseSession
<1>8. ASSUME ReleaseTabs PROVE Untold'
  <2>1. entry' = 0 /\ window'.live = window.live /\ UNCHANGED <<stop, pool, dial>> /\ window.at = "sessions"
    BY <1>0, <1>8 DEF ReleaseTabs, SessionsClosed, WorkspaceTypeOK
  <2>2. window.live # 0
    BY <1>0, <2>1 DEF Silenced, Ready
  <2> QED  BY <1>0, <2>1, <2>2 DEF Untold
<1>9. ASSUME CloseStop \/ CloseMonitor \/ ClosePool PROVE Untold'
  <2> DEFINE c == window.live
  <2>1. /\ window.at \in {"stop", "done", "pool"} /\ window'.live = c /\ UNCHANGED <<entry, dial>>
        /\ \A n \in Lives : n # c => stop'[n] = stop[n] /\ pool'[n] = pool[n]
    BY <1>0, <1>9 DEF CloseStop, CloseMonitor, ClosePool, WorkspaceTypeOK
  <2>2. entry # c /\ c \in Lives /\ monitor[c] # "none"
    BY <1>0, <2>1 DEF Untold, NoneInUse, Ready
  <2>3. dial[c] = "opened"
    BY <1>0, <2>2 DEF OneDial
  <2>4. entry # 0 => entry \in Lives
    BY <1>0, DialNumbers
  <2> QED  BY <1>0, <2>1, <2>2, <2>3, <2>4 DEF Untold
<1> QED
  BY <1>3, <1>4, <1>5, <1>6, <1>7, <1>8, <1>9
     DEF TabAction, TabMove, WorkspaceNext, TabStep, DialStep, CloseStep

LEMMA NoneInUseStep ==
  LinkInv /\ Founded /\ Attached /\ NoneInUse /\ [WorkspaceNext]_workspaceVars => NoneInUse'
<1> SUFFICES ASSUME LinkInv, Founded, Attached, NoneInUse, [WorkspaceNext]_workspaceVars, ~Ready'
             PROVE  /\ window'.live \in Lives /\ monitor'[window'.live] # "none"
                    /\ window'.at \in {"done", "pool"} => stop'[window'.live]
                    /\ window'.at # "sessions" => \A t \in Tabs : tab'[t].at \notin InUse
  BY DEF NoneInUse, Ready
<1>0. WorkspaceTypeOK
  BY DEF LinkInv
<1>1. CASE Ready
  <2>1. Release /\ entry # 0 /\ UNCHANGED <<monitor, stop>>
    <3>1. ASSUME NEW t \in Tabs, TabAction(t)
          PROVE  FALSE
      BY <1>1, <3>1 DEF TabAction, TabMove, Query, QueryAnswered, OpenTab, CloseTab, LandSession, Connect, DialAnswered, OpenSession,
         SessionCloses, Ready
    <3>2. ASSUME NEW n \in Lives, DialStep(n) \/ Tick(n) \/ MonitorStep(n)
          PROVE  FALSE
      BY <1>1, <3>2 DEF DialStep, DialReads, DialLands, DialFails, Tick, MonitorStep, Pinged,
         Transition, Forward, MonitorEnds, Ready
    <3>3. ASSUME Redraw \/ CloseStep \/ UNCHANGED workspaceVars
          PROVE  FALSE
      BY <1>1, <3>3 DEF Redraw, CloseStep, CloseSession, ReleaseTabs, CloseStop, CloseMonitor, ClosePool,
         SessionsClosed, workspaceVars, Ready
    <3>4. ASSUME Disconnect \/ Save
          PROVE  Release /\ entry # 0 /\ UNCHANGED <<monitor, stop>>
      BY <1>1, <3>4 DEF Disconnect, Save, Ready, watch
    <3> QED  BY <3>1, <3>2, <3>3, <3>4 DEF TabAction, TabMove, WorkspaceNext, TabStep
  <2>2. window' = [at |-> "sessions", live |-> entry]
    BY <2>1 DEF Release
  <2> QED  BY <2>1, <2>2 DEF Founded
<1>2. CASE ~Ready
  <2>1. window.live \in Lives /\ monitor[window.live] # "none"
    BY <1>2 DEF NoneInUse
  <2>2. window.at # "sessions" \/ ReleaseTabs => \A t \in Tabs : tab'[t].at \notin InUse
    <3>1. \/ window.at # "sessions"
          \/ ReleaseTabs => \A t \in Tabs : tab[t].at \notin InUse
      BY DEF ReleaseTabs, SessionsClosed
    <3> QED  BY <1>2, <3>1, TabGoes DEF NoneInUse
  <2>3. window'.live = window.live /\ (window'.at \in {"done", "pool"} => window.at \in {"done", "pool"} \/ CloseStop)
          /\ (window'.at # "sessions" => window.at # "sessions" \/ ReleaseTabs)
    <3>1. ASSUME NEW t \in Tabs, TabAction(t)
          PROVE  window' = window
      BY <3>1 DEF TabAction, TabMove, Query, QueryAnswered, OpenTab, CloseTab, LandSession, Connect, DialAnswered, OpenSession, SessionCloses
    <3>2. ASSUME NEW n \in Lives, DialStep(n) \/ Tick(n) \/ MonitorStep(n)
          PROVE  window' = window
      BY <3>2 DEF DialStep, DialReads, DialLands, DialFails, Tick, MonitorStep, Pinged, Transition,
         Forward, MonitorEnds
    <3>3. ASSUME Redraw \/ UNCHANGED workspaceVars
          PROVE  window' = window
      BY <3>3 DEF Redraw, workspaceVars
    <3>4. ~Disconnect /\ ~Save
      BY <1>2 DEF Disconnect, Save
    <3>5. ASSUME CloseMonitor \/ CloseStop
          PROVE  /\ window'.live = window.live /\ (CloseMonitor => window.at = "done")
                 /\ window.at # "sessions"
      BY <1>0, <3>5 DEF CloseMonitor, CloseStop, WorkspaceTypeOK
    <3>7. ASSUME ReleaseTabs PROVE window'.live = window.live /\ window'.at = "stop"
      BY <1>0, <3>7 DEF ReleaseTabs, WorkspaceTypeOK
    <3>8. ASSUME NEW t \in Tabs, CloseSession(t) PROVE window' = window
      BY <3>8 DEF CloseSession
    <3>6. ASSUME ClosePool PROVE FALSE
      BY <1>0, <3>6 DEF ClosePool, Ready, WorkspaceTypeOK
    <3> QED
      BY <3>1, <3>2, <3>3, <3>4, <3>5, <3>6, <3>7, <3>8
         DEF TabAction, TabMove, WorkspaceNext, TabStep, CloseStep
  <2>4. CloseStop => stop'[window.live]
    BY <1>0, <2>1 DEF CloseStop, WorkspaceTypeOK
  <2>5. window.at \in {"done", "pool"} => stop'[window.live]
    BY <1>2, <2>1, LinkKeeps DEF NoneInUse
  <2>6. monitor'[window.live] # "none"
    BY <2>1, LinkKeeps
  <2> QED  BY <2>1, <2>2, <2>3, <2>4, <2>5, <2>6
<1> QED  BY <1>1, <1>2

LEMMA RowStep == LinkInv /\ Founded /\ RowIsCurrent /\ [WorkspaceNext]_workspaceVars => RowIsCurrent'
<1> SUFFICES ASSUME LinkInv, Founded, RowIsCurrent, [WorkspaceNext]_workspaceVars PROVE RowIsCurrent'
  OBVIOUS
<1>0. WorkspaceTypeOK /\ OneDial
  BY DEF LinkInv
<1>00. 0 \notin Lives
  BY <1>0, DialNumbers
<1> USE DEF dialling, watch, work, Ready
<1>1. ASSUME UNCHANGED <<window, entry, status, monitor, due, drawn>> PROVE RowIsCurrent'
  BY <1>1 DEF RowIsCurrent, RowNow
<1>2. ASSUME NEW t \in Tabs, TabAction(t)
      PROVE  RowIsCurrent'
  BY <1>1, <1>2 DEF TabAction, TabMove, Query, QueryAnswered, OpenTab, CloseTab, LandSession, Connect, DialAnswered, OpenSession, SessionCloses
<1>3. ASSUME NEW n \in Lives, DialReads(n) \/ DialFails(n) PROVE RowIsCurrent'
  BY <1>1, <1>3 DEF DialReads, DialFails
<1>4. ASSUME NEW n \in Lives, DialLands(n) PROVE RowIsCurrent'
  <2>1. entry = 0 /\ entry' = n /\ UNCHANGED <<window, status, due, drawn>>
    BY <1>0, <1>00, <1>4 DEF DialLands, OneDial
  <2>2. monitor[n] = "none"
    BY <1>0, <1>4 DEF DialLands, OneDial
  <2>3. RowNow' = "well" /\ RowNow = "well"
    BY <2>1, <2>2 DEF RowNow, Founded
  <2> QED  BY <2>1, <2>3 DEF RowIsCurrent
<1>5. ASSUME NEW n \in Lives, Tick(n) \/ Pinged(n) \/ MonitorEnds(n) PROVE RowIsCurrent'
  <2>1. monitor[n] # "telling" /\ UNCHANGED <<window, entry, status, due, drawn>>
    BY <1>5 DEF Tick, Pinged, MonitorEnds
  <2>2. \A m \in Lives : m # n => monitor'[m] = monitor[m]
    BY <1>0, <1>5 DEF Tick, Pinged, MonitorEnds, WorkspaceTypeOK
  <2>3. RowNow' = RowNow
    BY <2>1 DEF RowNow
  <2>4. entry # 0 /\ monitor[entry] = "telling" => monitor'[entry] = "telling"
    BY <2>1, <2>2 DEF Founded
  <2> QED  BY <2>1, <2>3, <2>4 DEF RowIsCurrent
<1>6. ASSUME NEW n \in Lives, Transition(n) PROVE RowIsCurrent'
  <2>1. /\ monitor[n] \in {"connected", "disconnected"} /\ UNCHANGED <<window, entry, due, drawn>>
        /\ status' = [status EXCEPT ![n] = monitor[n]]
        /\ monitor' = [monitor EXCEPT ![n] =
             IF monitor[n] = "connected" /\ status[n] = "connected" THEN "waiting" ELSE "telling"]
    BY <1>6 DEF Transition
  <2>2. \A m \in Lives : m # n => monitor'[m] = monitor[m] /\ status'[m] = status[m]
    BY <1>0, <2>1 DEF WorkspaceTypeOK
  <2>3. CASE entry = n /\ ~(monitor[n] = "connected" /\ status[n] = "connected")
    <3>1. monitor'[n] = "telling"
      BY <1>0, <2>1, <2>3 DEF WorkspaceTypeOK
    <3> QED  BY <1>00, <2>1, <2>3, <3>1 DEF RowIsCurrent
  <2>4. CASE entry = n /\ monitor[n] = "connected" /\ status[n] = "connected"
    <3>1. status'[n] = status[n]
      BY <1>0, <2>1, <2>4 DEF WorkspaceTypeOK
    <3>2. RowNow' = RowNow
      BY <2>1, <2>4, <3>1 DEF RowNow
    <3> QED  BY <2>1, <2>4, <3>2 DEF RowIsCurrent
  <2>5. CASE entry # n
    <3>1. entry # 0 => monitor'[entry] = monitor[entry] /\ status'[entry] = status[entry]
      BY <2>2, <2>5 DEF Founded
    <3>2. RowNow' = RowNow
      BY <2>1, <3>1 DEF RowNow
    <3> QED  BY <2>1, <3>1, <3>2 DEF RowIsCurrent
  <2> QED  BY <2>3, <2>4, <2>5
<1>7. ASSUME NEW n \in Lives, Forward(n) PROVE RowIsCurrent'
  BY <1>7 DEF Forward, RowIsCurrent
<1>8. ASSUME Redraw PROVE RowIsCurrent'
  <2>1. UNCHANGED <<entry, status>> /\ drawn' = RowNow
    BY <1>8 DEF Redraw
  <2>2. RowNow' = RowNow
    BY <2>1 DEF RowNow
  <2> QED  BY <2>1, <2>2 DEF RowIsCurrent
<1>9. ASSUME Disconnect \/ Save PROVE RowIsCurrent'
  <2>1. CASE Release
    <3>1. window'.at = "sessions"
      BY <2>1 DEF Release
    <3> QED  BY <3>1 DEF RowIsCurrent
  <2>2. CASE ~Release
    BY <1>1, <1>9, <2>2 DEF Disconnect, Save
  <2> QED  BY <2>1, <2>2
<1>10. ASSUME CloseStop \/ CloseMonitor PROVE RowIsCurrent'
  <2>1. window'.at \in {"done", "pool"}
    BY <1>0, <1>10 DEF CloseStop, CloseMonitor, WorkspaceTypeOK
  <2> QED  BY <2>1 DEF RowIsCurrent
<1>11. ASSUME ClosePool PROVE RowIsCurrent'
  BY <1>11 DEF ClosePool, RowIsCurrent
<1>12. CASE UNCHANGED workspaceVars
  BY <1>1, <1>12 DEF workspaceVars
<1>13. ASSUME ReleaseTabs PROVE RowIsCurrent'
  <2>1. window'.at = "stop"
    BY <1>0, <1>13 DEF ReleaseTabs, WorkspaceTypeOK
  <2> QED  BY <2>1 DEF RowIsCurrent
<1>14. ASSUME NEW t \in Tabs, CloseSession(t) PROVE RowIsCurrent'
  BY <1>1, <1>14 DEF CloseSession
<1> QED
  BY <1>2, <1>3, <1>4, <1>5, <1>6, <1>7, <1>8, <1>9, <1>10, <1>11, <1>12, <1>13, <1>14
     DEF TabAction, TabMove, WorkspaceNext, TabStep, DialStep, MonitorStep, CloseStep

LEMMA WaitsHold == WorkspaceSpec => []WaitInv
<1>1. WorkspaceInit => WaitInv
  BY DEF WorkspaceInit, WaitInv, Founded, Attached, Untold, NoneInUse, RowIsCurrent, RowNow, NoTab,
     Ready, InUse
<1>2. LinkInv /\ WaitInv /\ [WorkspaceNext]_workspaceVars => WaitInv'
  BY FoundedStep, AttachedStep, UntoldStep, NoneInUseStep, RowStep DEF WaitInv
<1> QED
  BY <1>1, <1>2, LinkAlways, PTL DEF WorkspaceSpec

\* A tab that waits for a connection waits for a dial that is under way or has answered,
\* however many wait on it, give up, or disconnect meanwhile; and whoever holds a session
\* has it from a connection that was opened (Connect, dial, connectQuery).
THEOREM WaitsForAnAnswer == WorkspaceSpec => []Attached
<1>1. WaitInv => Attached
  BY DEF WaitInv
<1> QED
  BY <1>1, WaitsHold, PTL

\* A Disconnect, which holds the window's goroutine, waits first for the sessions in use,
\* the connection being as open as it was: a statement there may take any time
\* (NeverOnTheNetwork).  Once the connection is gone it waits for nothing that is in use:
\* its monitor was told to stop, and a session it waits for is being closed, or is in the
\* window's own queue (DisconnectEnds is about that one).
THEOREM DisconnectWaitsForTheGone == WorkspaceSpec => []WaitsForTheGone
<1>1. LinkInv /\ WaitInv => WaitsForTheGone
  <2> SUFFICES ASSUME LinkInv, WaitInv, ~Ready PROVE WaitsForTheGone
    BY DEF WaitsForTheGone
  <2>1. window.live \in Lives /\ window.live # 0 /\ (window.at = "sessions" => entry = window.live)
    BY DEF LinkInv, Silenced, WaitInv, NoneInUse
  <2>2. window.at # "sessions" => \A t \in HeldBy(window.live) : tab[t].at \in {"landing", "closing"}
    BY DEF WaitInv, NoneInUse, HeldBy, Pinned
  <2> QED  BY <2>1, <2>2 DEF WaitInv, NoneInUse, Untold, WaitsForTheGone
<1> QED
  BY <1>1, LinkAlways, WaitsHold, PTL

\* What the row says of the connection is so, whenever no word of a change is on its way
\* to it, for any number of connections one after another, lost, found and closed in any
\* order (transition, forward, connectionStatus).
THEOREM RowSaysWhatIsSo == WorkspaceSpec => []RowIsCurrent
<1>1. WaitInv => RowIsCurrent
  BY DEF WaitInv
<1> QED
  BY <1>1, WaitsHold, PTL

-----------------------------------------------------------------------------
(***************************************************************************)
(* What completion knows of the connection's objects.  It holds for every  *)
(* server, every number of loads at once and every mix of requests,        *)
(* refreshes and DDL.                                                      *)
(***************************************************************************)
\* A request never waits on a key the cache has no place for.
LEMMA MissingKeyIsKey ==
  ASSUME CacheTypeOK, NEW req \in Requests
  PROVE  MissingKey(req) \in Keys \cup {NoKey}
<1> DEFINE db == Resolve(req.db)
           ref == Container(db, req.schema)
<1>1. RootKey \in Keys
  BY DEF Keys
<1>2. ASSUME Loaded(RootKey)
      PROVE  KnownDbs \subseteq Databases /\ Current \in Databases \cup {NoName}
  <2>1. known[RootKey] \in Versions \cup {Nothing}
    BY <1>1, <1>2 DEF CacheTypeOK, Loaded, Answers
  <2> QED  BY <2>1, CatalogueAssumption DEF KnownDbs, Current, Held
<1>3. ASSUME Loaded(RootKey), NEW name PROVE Resolve(name) \in Databases \cup {NoName}
  BY <1>2, <1>3 DEF Resolve
<1>4. ASSUME NEW d \in Databases PROVE SchemasKey(d) \in Keys
  BY DEF Keys
<1>5. ASSUME NEW d \in Databases PROVE SchemasOf(d) \in Seq(SchemaNames)
  <2>1. CASE Held(SchemasKey(d))
    <3>1. known[SchemasKey(d)] \in Versions
      BY <1>4, <2>1 DEF CacheTypeOK, Held, Loaded, Answers
    <3> QED  BY <2>1, <3>1, CatalogueAssumption DEF SchemasOf
  <2>2. CASE ~Held(SchemasKey(d))
    BY <2>2 DEF SchemasOf
  <2> QED  BY <2>1, <2>2
<1>6. ASSUME Loaded(RootKey), db \in Databases
      PROVE  ref = <<>> \/ ref \in Refs
  <2>1. CASE Nested(db) /\ req.schema = NoName
    <3>1. Head(SchemasOf(db)) \in SchemaNames
      BY <1>5, <1>6, <2>1 DEF Nested
    <3>2. ref = <<db, Head(SchemasOf(db))>>
      BY <2>1 DEF Container
    <3> QED  BY <1>6, <3>1, <3>2 DEF Refs
  <2>2. CASE Nested(db) /\ req.schema # NoName
    <3>1. CASE \E i \in DOMAIN SchemasOf(db) : SchemasOf(db)[i] = req.schema
      <4>1. req.schema \in SchemaNames
        BY <1>5, <1>6, <3>1
      <4>2. ref = <<db, req.schema>>
        BY <2>2, <3>1 DEF Container
      <4> QED  BY <1>6, <4>1, <4>2 DEF Refs
    <3>2. CASE ~\E i \in DOMAIN SchemasOf(db) : SchemasOf(db)[i] = req.schema
      BY <2>2, <3>2 DEF Container
    <3> QED  BY <3>1, <3>2
  <2>3. CASE ~Nested(db) /\ req.schema \in {NoName, db}
    BY <1>6, <2>3 DEF Container, Refs
  <2>4. CASE ~Nested(db) /\ req.schema \notin {NoName, db}
    <3>1. Resolve(req.schema) = req.schema => req.schema \in Databases
      BY <1>3, <1>6, <2>4
    <3>2. ref = IF Resolve(req.schema) = req.schema THEN <<req.schema>> ELSE <<>>
      BY <2>4 DEF Container
    <3> QED  BY <3>1, <3>2 DEF Refs
  <2> QED  BY <2>1, <2>2, <2>3, <2>4
<1>7. CASE ~Loaded(RootKey)
  BY <1>1, <1>7 DEF MissingKey
<1>8. CASE Loaded(RootKey) /\ (req.class = "databases" \/ db = NoName)
  BY <1>8 DEF MissingKey
<1>9. CASE Loaded(RootKey) /\ ~(req.class = "databases" \/ db = NoName)
  <2>1. db \in Databases
    BY <1>3, <1>9
  <2>2. MissingKey(req) \in {SchemasKey(db), NoKey}
          \/ (req.class # "schemas" /\ ref # <<>> /\ MissingKey(req) = ItemKey(req.class, ref))
    BY <1>9 DEF MissingKey
  <2>3. CASE MissingKey(req) \in {SchemasKey(db), NoKey}
    BY <1>4, <2>1, <2>3
  <2>4. CASE req.class # "schemas" /\ ref # <<>> /\ MissingKey(req) = ItemKey(req.class, ref)
    <3>1. req.class \in Classes /\ ref \in Refs
      BY <1>6, <1>9, <2>1, <2>4, RequestsAssumption
    <3> QED  BY <2>4, <3>1 DEF Keys
  <2> QED  BY <2>2, <2>3, <2>4
<1> QED  BY <1>7, <1>8, <1>9

\* begin leaves its two tables what they are.
LEMMA BeginType ==
  ASSUME CacheTypeOK, NEW key \in Keys \cup {NoKey}, Begin(key)
  PROVE  loading' \subseteq Keys /\ loader' \in [Loaders -> LoadRecord]
<1>1. CASE key = NoKey \/ key \in loading
  BY <1>1 DEF Begin, CacheTypeOK
<1>2. CASE ~(key = NoKey \/ key \in loading)
  <2>1. PICK l \in Loaders :
          /\ loader' = [loader EXCEPT ![l] = [key |-> key, gen |-> gen, step |-> "read",
                                          at |-> Nothing]]
          /\ loading' = loading \cup {key}
    BY <1>2 DEF Begin
  <2>2. [key |-> key, gen |-> gen, step |-> "read", at |-> Nothing] \in LoadRecord
    BY DEF LoadRecord, CacheTypeOK, Answers
  <2>3. key \in Keys
    BY <1>2
  <2> QED  BY <2>1, <2>2, <2>3 DEF CacheTypeOK
<1> QED  BY <1>1, <1>2

-----------------------------------------------------------------------------
LEMMA CacheTypeInit == CacheInit => CacheTypeOK
<1> SUFFICES ASSUME CacheInit PROVE CacheTypeOK
  OBVIOUS
<1>1. version \in Versions /\ dropped \in Versions
  BY ConnectedAssumption DEF CacheInit
<1>2. FreeLoad \in LoadRecord
  BY DEF FreeLoad, LoadRecord, Answers
<1>3. loader \in [Loaders -> LoadRecord]
  BY <1>2 DEF CacheInit
<1> QED  BY <1>1, <1>3 DEF CacheInit, CacheTypeOK

LEMMA CacheTypeStep == CacheTypeOK /\ [CacheNext]_cacheVars => CacheTypeOK'
<1> SUFFICES ASSUME CacheTypeOK, [CacheNext]_cacheVars PROVE CacheTypeOK'
  OBVIOUS
<1> USE DEF CacheTypeOK
<1>1. ASSUME NEW req \in Requests, Ask(req) PROVE CacheTypeOK'
  <2>1. MissingKey(req) \in Keys \cup {NoKey}
    BY MissingKeyIsKey
  <2>2. loading' \subseteq Keys /\ loader' \in [Loaders -> LoadRecord]
    BY <1>1, <2>1, BeginType DEF Ask
  <2> QED  BY <1>1, <2>2 DEF Ask
<1>2. ASSUME AskAgain PROVE CacheTypeOK'
  <2>1. popup.req \in Requests
    BY <1>2 DEF AskAgain
  <2>2. MissingKey(popup.req) \in Keys \cup {NoKey}
    BY <2>1, MissingKeyIsKey
  <2>3. loading' \subseteq Keys /\ loader' \in [Loaders -> LoadRecord]
    BY <1>2, <2>2, BeginType DEF AskAgain
  <2> QED  BY <1>2, <2>3 DEF AskAgain
<1>3. ASSUME NEW l \in Loaders, ReadCatalogue(l) PROVE CacheTypeOK'
  <2>1. PICK at \in {version, Nothing} :
          loader' = [loader EXCEPT ![l].step = "land", ![l].at = at]
    BY <1>3 DEF ReadCatalogue
  <2>2. [loader[l] EXCEPT !.step = "land", !.at = at] \in LoadRecord
    BY <2>1 DEF LoadRecord, Answers
  <2>3. loader' = [loader EXCEPT ![l] = [loader[l] EXCEPT !.step = "land", !.at = at]]
    BY <2>1
  <2>4. loader' \in [Loaders -> LoadRecord]
    BY <2>2, <2>3
  <2> QED  BY <1>3, <2>4 DEF ReadCatalogue
<1>4. ASSUME NEW l \in Loaders, LandLoad(l) PROVE CacheTypeOK'
  <2>1. FreeLoad \in LoadRecord
    BY DEF FreeLoad, LoadRecord, Answers
  <2>2. loader' \in [Loaders -> LoadRecord] /\ loading' \subseteq Keys
    BY <1>4, <2>1 DEF LandLoad
  <2>3. known' \in [Keys -> Answers \cup {Missing}] /\ told' \in BOOLEAN
    <3>1. loader[l].at \in Answers
      BY DEF LoadRecord
    <3>2. CASE Stale(l)
      BY <1>4, <3>2 DEF LandLoad
    <3>3. CASE ~Stale(l)
      BY <1>4, <3>1, <3>3 DEF LandLoad, Apply, Answers
    <3> QED  BY <3>2, <3>3
  <2> QED  BY <1>4, <2>2, <2>3 DEF LandLoad
<1>5. CASE Invalidate
  BY <1>5 DEF Invalidate
<1>6. CASE Close
  BY <1>6 DEF Close
<1>7. CASE Alter
  BY <1>7, BoundsAssumption DEF Alter, Versions
<1>8. CASE UNCHANGED cacheVars
  BY <1>8 DEF cacheVars
<1> QED  BY <1>1, <1>2, <1>3, <1>4, <1>5, <1>6, <1>7, <1>8 DEF CacheNext

\* The cache's tables keep their types: above all, every key a request or a load
\* names is one the cache has a place for.
THEOREM CacheTypeCorrect == CacheSpec => []CacheTypeOK
BY CacheTypeInit, CacheTypeStep, PTL DEF CacheSpec

-----------------------------------------------------------------------------
(***************************************************************************)
(* Freshness.  What is known was read since the last Invalidate; for that  *)
(* to stay so, what is about to be known must have been: a load that has   *)
(* read and is of this generation read after the Invalidate that began it. *)
(***************************************************************************)
ReadSince(l) ==
  (loader[l].step = "land" /\ loader[l].gen = gen /\ loader[l].at \in Nat)
    => dropped <= loader[l].at /\ loader[l].at <= version

FreshInv ==
  /\ CacheTypeOK
  /\ Fresh
  /\ dropped <= version
  /\ \A l \in Loaders : loader[l].gen <= gen /\ ReadSince(l)

LEMMA FreshInit == CacheInit => FreshInv
<1> SUFFICES ASSUME CacheInit PROVE FreshInv
  OBVIOUS
<1>1. CacheTypeOK
  BY CacheTypeInit
<1>2. dropped <= version
  BY <1>1, BoundsAssumption DEF CacheInit, CacheTypeOK, Versions
<1>3. \A l \in Loaders : loader[l].gen <= gen /\ ReadSince(l)
  BY DEF CacheInit, ReadSince, FreeLoad
<1> QED  BY <1>1, <1>2, <1>3, MarkersAssumption DEF CacheInit, FreshInv, Fresh

\* Starting a load leaves FreshInv's last conjunct.
LEMMA BeginFresh ==
  ASSUME FreshInv, NEW key \in Keys \cup {NoKey}, Begin(key), UNCHANGED <<gen, version, dropped>>
  PROVE  \A l \in Loaders : loader'[l].gen <= gen' /\ ReadSince(l)'
<1> SUFFICES ASSUME NEW m \in Loaders PROVE loader'[m].gen <= gen' /\ ReadSince(m)'
  OBVIOUS
<1>1. CASE loader'[m] = loader[m]
  BY <1>1 DEF FreshInv, ReadSince
<1>2. CASE loader'[m] # loader[m]
  <2>1. loader'[m] = [key |-> key, gen |-> gen, step |-> "read", at |-> Nothing]
    BY <1>2 DEF Begin, FreshInv, CacheTypeOK
  <2> QED  BY <2>1 DEF ReadSince, FreshInv, CacheTypeOK
<1> QED  BY <1>1, <1>2

LEMMA FreshStep == FreshInv /\ [CacheNext]_cacheVars => FreshInv'
<1> SUFFICES ASSUME FreshInv, [CacheNext]_cacheVars PROVE FreshInv'
  OBVIOUS
<1>t. CacheTypeOK'
  BY CacheTypeStep DEF FreshInv
<1>n. version \in Nat /\ dropped \in Nat /\ gen \in Nat
  BY BoundsAssumption DEF FreshInv, CacheTypeOK, Versions
<1>1. ASSUME NEW req \in Requests, Ask(req) PROVE FreshInv'
  <2>1. MissingKey(req) \in Keys \cup {NoKey}
    BY MissingKeyIsKey DEF FreshInv
  <2>2. \A l \in Loaders : loader'[l].gen <= gen' /\ ReadSince(l)'
    BY <1>1, <2>1, BeginFresh DEF Ask
  <2> QED  BY <1>1, <1>t, <2>2 DEF Ask, FreshInv, Fresh
<1>2. ASSUME AskAgain PROVE FreshInv'
  <2>1. popup.req \in Requests
    BY <1>2 DEF AskAgain, FreshInv, CacheTypeOK
  <2>2. MissingKey(popup.req) \in Keys \cup {NoKey}
    BY <2>1, MissingKeyIsKey DEF FreshInv
  <2>3. \A l \in Loaders : loader'[l].gen <= gen' /\ ReadSince(l)'
    BY <1>2, <2>2, BeginFresh DEF AskAgain
  <2> QED  BY <1>2, <1>t, <2>3 DEF AskAgain, FreshInv, Fresh
<1>3. ASSUME NEW l \in Loaders, ReadCatalogue(l) PROVE FreshInv'
  <2>1. PICK at \in {version, Nothing} :
          loader' = [loader EXCEPT ![l].step = "land", ![l].at = at]
    BY <1>3 DEF ReadCatalogue
  <2>2. ASSUME NEW m \in Loaders PROVE loader'[m].gen <= gen' /\ ReadSince(m)'
    <3>1. CASE m = l
      BY <1>3, <1>n, <2>1, <3>1, MarkersAssumption DEF ReadCatalogue, FreshInv, ReadSince, CacheTypeOK
    <3>2. CASE m # l
      BY <1>3, <2>1, <3>2 DEF ReadCatalogue, FreshInv, ReadSince, CacheTypeOK
    <3> QED  BY <3>1, <3>2
  <2> QED  BY <1>3, <1>t, <2>2 DEF ReadCatalogue, FreshInv, Fresh
<1>4. ASSUME NEW l \in Loaders, LandLoad(l) PROVE FreshInv'
  <2>1. ASSUME NEW m \in Loaders PROVE loader'[m].gen <= gen' /\ ReadSince(m)'
    BY <1>4, <1>n, MarkersAssumption DEF LandLoad, FreshInv, ReadSince, CacheTypeOK, FreeLoad
  <2>2. Fresh'
    <3>1. CASE Stale(l)
      BY <1>4, <3>1 DEF LandLoad, FreshInv, Fresh
    <3>2. CASE ~Stale(l)
      <4>1. loader[l].at \in Nat => dropped <= loader[l].at /\ loader[l].at <= version
        BY <1>4, <3>2 DEF FreshInv, ReadSince, LandLoad, Stale
      <4>2. known' = [k \in Keys |-> IF k = loader[l].key THEN loader[l].at
                                     ELSE IF k \in Flat(loader[l].key, loader[l].at) THEN Nothing
                                     ELSE known[k]]
        BY <1>4, <3>2 DEF LandLoad, Apply
      <4> QED  BY <1>4, <4>1, <4>2, MarkersAssumption DEF LandLoad, FreshInv, Fresh
    <3> QED  BY <3>1, <3>2
  <2> QED  BY <1>4, <1>t, <2>1, <2>2 DEF LandLoad, FreshInv
<1>5. CASE Invalidate
  BY <1>5, <1>t, <1>n, MarkersAssumption DEF Invalidate, FreshInv, Fresh, ReadSince,
      CacheTypeOK, LoadRecord
<1>6. CASE Close
  BY <1>6, <1>t DEF Close, FreshInv, Fresh, ReadSince
<1>7. CASE Alter
  <2>1. \A k \in Keys : known[k] \in Nat => known[k] <= version + 1
    BY <1>n DEF FreshInv, Fresh
  <2>2. \A l \in Loaders : ReadSince(l)'
    BY <1>7, <1>n DEF Alter, FreshInv, ReadSince
  <2> QED  BY <1>7, <1>t, <1>n, <2>1, <2>2 DEF Alter, FreshInv, Fresh
<1>8. CASE UNCHANGED cacheVars
  BY <1>8, <1>t DEF cacheVars, FreshInv, Fresh, ReadSince
<1> QED  BY <1>1, <1>2, <1>3, <1>4, <1>5, <1>6, <1>7, <1>8 DEF CacheNext

\* Whatever completion answers was read from the server no earlier than the last
\* Invalidate: a load in flight across it is dropped when it lands.
THEOREM Freshness == CacheSpec => []Fresh
<1>1. FreshInv => Fresh
  BY DEF FreshInv
<1> QED  BY FreshInit, FreshStep, <1>1, PTL DEF CacheSpec

-----------------------------------------------------------------------------
LEMMA ServedStep == CacheTypeOK /\ LoadingIsServed /\ [CacheNext]_cacheVars => LoadingIsServed'
<1> SUFFICES ASSUME CacheTypeOK, LoadingIsServed, [CacheNext]_cacheVars, NEW k \in loading'
             PROVE  \E l \in Loaders : loader'[l].step # "idle" /\ loader'[l].key = k
                                         /\ loader'[l].gen = gen'
  BY DEF LoadingIsServed, Busy
<1>1. ASSUME NEW key, Begin(key), gen' = gen
      PROVE  \E l \in Loaders : loader'[l].step # "idle" /\ loader'[l].key = k
                                  /\ loader'[l].gen = gen'
  <2>1. CASE key = NoKey \/ key \in loading
    BY <1>1, <2>1 DEF Begin, LoadingIsServed, Busy
  <2>2. CASE ~(key = NoKey \/ key \in loading)
    <3>1. PICK n \in Loaders :
            /\ ~Busy(n)
            /\ loader' = [loader EXCEPT ![n] = [key |-> key, gen |-> gen, step |-> "read",
                                            at |-> Nothing]]
            /\ loading' = loading \cup {key}
      BY <1>1, <2>2 DEF Begin
    <3>2. CASE k = key
      <4>1. loader'[n] = [key |-> key, gen |-> gen, step |-> "read", at |-> Nothing]
        BY <3>1 DEF CacheTypeOK
      <4> QED  BY <1>1, <3>2, <4>1
    <3>3. CASE k # key
      <4>1. PICK l \in Loaders : Busy(l) /\ loader[l].key = k /\ loader[l].gen = gen
        BY <3>1, <3>3 DEF LoadingIsServed
      <4>2. loader'[l] = loader[l]
        BY <3>1, <4>1 DEF CacheTypeOK
      <4> QED  BY <1>1, <4>1, <4>2 DEF Busy
    <3> QED  BY <3>2, <3>3
  <2> QED  BY <2>1, <2>2
<1>2. ASSUME NEW req \in Requests, Ask(req)
      PROVE  \E l \in Loaders : loader'[l].step # "idle" /\ loader'[l].key = k
                                  /\ loader'[l].gen = gen'
  BY <1>1, <1>2 DEF Ask
<1>3. ASSUME AskAgain
      PROVE  \E l \in Loaders : loader'[l].step # "idle" /\ loader'[l].key = k
                                  /\ loader'[l].gen = gen'
  BY <1>1, <1>3 DEF AskAgain
<1>4. ASSUME NEW m \in Loaders, ReadCatalogue(m) \/ LandLoad(m)
      PROVE  \E l \in Loaders : loader'[l].step # "idle" /\ loader'[l].key = k
                                  /\ loader'[l].gen = gen'
  <2>1. PICK l \in Loaders : Busy(l) /\ loader[l].key = k /\ loader[l].gen = gen
    BY <1>4 DEF ReadCatalogue, LandLoad, LoadingIsServed
  <2>2. gen' = gen
    BY <1>4 DEF ReadCatalogue, LandLoad
  <2>3. CASE l # m
    BY <1>4, <2>1, <2>2, <2>3 DEF ReadCatalogue, LandLoad, CacheTypeOK, Busy
  <2>4. CASE l = m /\ ReadCatalogue(m)
    BY <2>1, <2>2, <2>4 DEF ReadCatalogue, CacheTypeOK, LoadRecord
  <2>5. CASE l = m /\ LandLoad(m)
    BY <2>1, <2>5 DEF LandLoad
  <2> QED  BY <1>4, <2>3, <2>4, <2>5
<1>5. CASE Invalidate
  BY <1>5 DEF Invalidate
<1>6. CASE Close \/ Alter \/ UNCHANGED cacheVars
  BY <1>6 DEF Close, Alter, cacheVars, LoadingIsServed, Busy
<1> QED  BY <1>2, <1>3, <1>4, <1>5, <1>6 DEF CacheNext

\* Every key marked as loading has a load of this generation running under it, so a
\* request is never left waiting on a load whose answer will be thrown away.
THEOREM MarksAreServed == CacheSpec => []LoadingIsServed
<1>1. CacheInit => LoadingIsServed
  BY DEF CacheInit, LoadingIsServed
<1> QED  BY CacheTypeInit, CacheTypeStep, <1>1, ServedStep, PTL DEF CacheSpec

-----------------------------------------------------------------------------
(***************************************************************************)
(* What the popup waits for comes.  That it does in the end rests on       *)
(* fairness (Answered); that it is never left waiting for nothing does     *)
(* not.                                                                    *)
(***************************************************************************)
\* A load of this generation is under way for the key.
Served(key) == \E l \in Loaders : Busy(l) /\ loader[l].key = key /\ loader[l].gen = gen

\* A popup that lacks a key was told that something landed, and will ask again, or has a
\* load of that key under way whose answer will be taken.
PopupIsServed ==
  \A req \in Requests :
    popup = [req |-> req, gen |-> gen] /\ popup # NoPopup /\ MissingKey(req) # NoKey =>
      told \/ Served(MissingKey(req))

\* It asked no later than now.
PopupInv == popup.gen \in Nat /\ popup.gen <= gen /\ PopupIsServed

\* After begin the key is being loaded, by a load that was there or by a new one.
LEMMA BeginServes ==
  ASSUME CacheTypeOK, LoadingIsServed, NEW key, key # NoKey, Begin(key), gen' = gen
  PROVE  Served(key)'
<1>1. CASE key \in loading
  <2>1. loader' = loader
    BY <1>1 DEF Begin
  <2>2. PICK l \in Loaders : Busy(l) /\ loader[l].key = key /\ loader[l].gen = gen
    BY <1>1 DEF LoadingIsServed
  <2> QED  BY <2>1, <2>2 DEF Served, Busy
<1>2. CASE key \notin loading
  <2>1. PICK n \in Loaders :
          loader' = [loader EXCEPT ![n] = [key |-> key, gen |-> gen, step |-> "read",
                                           at |-> Nothing]]
    BY <1>2 DEF Begin
  <2>2. loader'[n] = [key |-> key, gen |-> gen, step |-> "read", at |-> Nothing]
    BY <2>1 DEF CacheTypeOK
  <2> QED  BY <2>2 DEF Served, Busy
<1> QED  BY <1>1, <1>2

\* What a request lacks depends on what is known, and on nothing else.
LEMMA SameMissing ==
  ASSUME UNCHANGED known, NEW req
  PROVE  MissingKey(req)' = MissingKey(req)
<1>1. /\ KnownDbs' = KnownDbs /\ Current' = Current
      /\ \A d : SchemasOf(d)' = SchemasOf(d) /\ \A key : Loaded(key)' = Loaded(key)
  BY DEF KnownDbs, Current, SchemasOf, Held, Loaded
<1>2. \A name : Resolve(name)' = Resolve(name)
  BY <1>1 DEF Resolve
<1>3. \A db, schema : Container(db, schema)' = Container(db, schema)
  BY <1>1, <1>2 DEF Container, Nested
<1> QED  BY <1>1, <1>2, <1>3 DEF MissingKey

LEMMA PopupStep ==
  CacheTypeOK /\ LoadingIsServed /\ PopupInv /\ [CacheNext]_cacheVars => PopupInv'
<1> SUFFICES ASSUME CacheTypeOK, LoadingIsServed, PopupInv, [CacheNext]_cacheVars
             PROVE  PopupInv'
  OBVIOUS
<1> USE DEF PopupInv
<1>g. gen \in Nat
  BY DEF CacheTypeOK
<1>1. ASSUME NEW asked \in Requests, Ask(asked) PROVE PopupInv'
  <2>1. /\ popup' = [req |-> asked, gen |-> gen] /\ gen' = gen /\ UNCHANGED known
        /\ Begin(MissingKey(asked))
    BY <1>1 DEF Ask
  <2>2. ASSUME NEW req \in Requests, popup' = [req |-> req, gen |-> gen'], MissingKey(req)' # NoKey
        PROVE  Served(MissingKey(req))'
    <3>1. req = asked
      BY <2>1, <2>2
    <3>2. PICK key : key = MissingKey(asked)
      OBVIOUS
    <3>3. MissingKey(req)' = key /\ key # NoKey
      BY <2>1, <2>2, <3>1, <3>2, SameMissing
    <3>4. Served(key)'
      BY <2>1, <3>2, <3>3, BeginServes
    <3> QED  BY <3>3, <3>4
  <2>3. popup'.gen \in Nat /\ popup'.gen <= gen'
    BY <1>g, <2>1
  <2> QED  BY <2>2, <2>3 DEF PopupIsServed
<1>2. CASE AskAgain
  <2>1. UNCHANGED <<popup, gen, known>> /\ Begin(MissingKey(popup.req))
    BY <1>2 DEF AskAgain
  <2>2. ASSUME NEW req \in Requests, popup' = [req |-> req, gen |-> gen'], MissingKey(req)' # NoKey
        PROVE  Served(MissingKey(req))'
    <3>1. PICK key : key = MissingKey(req)
      OBVIOUS
    <3>2. MissingKey(req)' = key /\ key # NoKey
      BY <2>1, <2>2, <3>1, SameMissing
    <3>3. Begin(key)
      <4>1. popup.req = req
        BY <2>1, <2>2
      <4> QED  BY <2>1, <3>1, <4>1
    <3>4. Served(key)'
      BY <2>1, <3>2, <3>3, BeginServes
    <3> QED  BY <3>2, <3>4
  <2> QED  BY <2>1, <2>2 DEF PopupIsServed
<1>3. ASSUME NEW m \in Loaders, ReadCatalogue(m) PROVE PopupInv'
  <2>1. /\ UNCHANGED <<popup, gen, known, told>>
        /\ \A l \in Loaders : /\ loader'[l].key = loader[l].key /\ loader'[l].gen = loader[l].gen
                              /\ (loader'[l].step # "idle") = (loader[l].step # "idle")
    BY <1>3 DEF ReadCatalogue, CacheTypeOK, LoadRecord
  <2>2. ASSUME NEW key PROVE Served(key)' = Served(key)
    BY <2>1 DEF Served, Busy
  <2>3. ASSUME NEW req \in Requests, popup' = [req |-> req, gen |-> gen'], popup' # NoPopup,
               MissingKey(req)' # NoKey
        PROVE  told' \/ Served(MissingKey(req))'
    <3>1. PICK key : key = MissingKey(req)
      OBVIOUS
    <3>2. MissingKey(req)' = key /\ key # NoKey
      BY <2>1, <2>3, <3>1, SameMissing
    <3>3. told \/ Served(key)
      BY <2>1, <2>3, <3>1, <3>2 DEF PopupIsServed
    <3> QED  BY <2>1, <2>2, <3>2, <3>3
  <2> QED  BY <2>1, <2>3 DEF PopupIsServed
<1>4. ASSUME NEW m \in Loaders, LandLoad(m) PROVE PopupInv'
  <2>1. UNCHANGED <<popup, gen>>
    BY <1>4 DEF LandLoad
  <2>2. CASE told'
    BY <2>1, <2>2 DEF PopupIsServed
  <2>3. CASE ~told'
    <3>1. /\ UNCHANGED <<known, told>> /\ loader[m].gen # gen
          /\ \A l \in Loaders : l # m => loader'[l] = loader[l]
      BY <1>4, <2>3 DEF LandLoad, Stale, CacheTypeOK
    <3>2. ASSUME NEW key, Served(key) PROVE Served(key)'
      BY <2>1, <3>1, <3>2 DEF Served, Busy
    <3>3. ASSUME NEW req \in Requests, popup' = [req |-> req, gen |-> gen'], popup' # NoPopup,
                 MissingKey(req)' # NoKey
          PROVE  Served(MissingKey(req))'
      <4>1. PICK key : key = MissingKey(req)
        OBVIOUS
      <4>2. MissingKey(req)' = key /\ key # NoKey
        BY <3>1, <3>3, <4>1, SameMissing
      <4>3. Served(key)
        BY <2>1, <2>3, <3>1, <3>3, <4>1, <4>2 DEF PopupIsServed
      <4> QED  BY <3>2, <4>2, <4>3
    <3> QED  BY <2>1, <3>3 DEF PopupIsServed
  <2> QED  BY <2>2, <2>3
<1>5. CASE Invalidate
  <2>1. gen' = gen + 1 /\ popup' = popup
    BY <1>5 DEF Invalidate
  <2>2. popup'.gen # gen' /\ popup'.gen <= gen' /\ popup'.gen \in Nat
    BY <1>g, <2>1
  <2> QED  BY <2>2 DEF PopupIsServed
<1>6. CASE Close \/ Alter \/ UNCHANGED cacheVars
  <2>1. UNCHANGED <<popup, gen, known, told, loader>>
    BY <1>6 DEF Close, Alter, cacheVars
  <2>2. ASSUME NEW req \in Requests PROVE MissingKey(req)' = MissingKey(req)
    BY <2>1, SameMissing
  <2>3. ASSUME NEW key PROVE Served(key)' = Served(key)
    BY <2>1 DEF Served, Busy
  <2>4. ASSUME NEW req \in Requests PROVE Served(MissingKey(req))' = Served(MissingKey(req))
    BY <2>1, <2>2 DEF Served, Busy
  <2> QED  BY <2>1, <2>2, <2>4 DEF PopupIsServed
<1> QED  BY <1>1, <1>2, <1>3, <1>4, <1>5, <1>6 DEF CacheNext

\* However many loads it takes, however often the cache was emptied and whatever landed
\* too late: a popup of this generation that lacks a key has been told to ask again, or
\* a load of that very key is under way and will be taken when it lands.
THEOREM PopupWaitsForSomething == CacheSpec => []PopupIsServed
<1>1. CacheInit => PopupInv
  BY DEF CacheInit, PopupInv, PopupIsServed, NoPopup
<1>2. CacheInit => LoadingIsServed
  BY DEF CacheInit, LoadingIsServed
<1>3. PopupInv => PopupIsServed
  BY DEF PopupInv
<1> QED  BY CacheTypeInit, CacheTypeStep, <1>1, <1>2, <1>3, ServedStep, PopupStep, PTL DEF CacheSpec
=============================================================================
