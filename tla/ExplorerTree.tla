---------------------------- MODULE ExplorerTree ----------------------------
(***************************************************************************)
(* The explorer: the model of the tree, which loads a branch's children in *)
(* the background when it is first asked for them and forgets what is      *)
(* below a branch that is refreshed (internal/ui/explorer/model.go), and   *)
(* the widget, which draws the tree in one refresh for many changes and    *)
(* reads the badges of the rows it draws (view/view.go, uithread).         *)
(*                                                                         *)
(* A node's identifier says where it is, so a node has one parent for      *)
(* good; whether it is there is the server's affair, and may differ from   *)
(* one load to the next.  The widget asks the open branches for their      *)
(* children one by one, and loads land in between.                         *)
(***************************************************************************)
EXTENDS Naturals, FiniteSets

CONSTANTS
  Nodes, Root, Parent,  \* the nodes there may be, and the branch each is in
  Branches,             \* those with children
  Eager,                \* branches asked for theirs as soon as they are listed
  Badged,               \* nodes whose badge is read apart
  Loads,                \* bound: goroutines that load, at once
  Fetches,              \* bound: goroutines that read a badge, at once
  MaxRefreshes,         \* bound: refreshes asked for
  None                  \* no goroutine

Places == Nodes \cup {Root}

ASSUME TreeOfNodes ==
  /\ Root \notin Nodes /\ Parent \in [Nodes -> {Root} \cup Branches]
  /\ Branches \subseteq Nodes /\ Eager \subseteq Branches /\ Badged \subseteq Nodes
  /\ None \notin Loads \cup Fetches
  /\ MaxRefreshes \in Nat

\* The branches a node is in, outwards: what is reached from its parent on.
Above == [n \in Places |-> IF n = Root THEN {} ELSE
  {m \in Places : \A S \in SUBSET Places :
     Parent[n] \in S /\ (\A k \in S \ {Root} : Parent[k] \in S) => m \in S}]

ASSUME RootedAssumption == \A n \in Nodes : Root \in Above[n] /\ n \notin Above[n]

VARIABLES
  entries,    \* m.entries
  load,       \* the goroutines of Model.load
  open,       \* e.open: the branches open
  shown,      \* what the widget was last answered of a branch
  queued,     \* Coalesce's flag
  ui,         \* the window's goroutine, and the branches or rows left to it
  badges,     \* e.badges: when the badge it remembers was asked for
  waiting,    \* e.waiting
  fetch,      \* the goroutines of fetchBadge
  refreshes,
  since,      \* history: the last refresh of a node, or of a branch it is in
  revived     \* history: nodes listed again with a load of before under way

tree  == <<entries, load>>
view  == <<open, shown, ui>>
marks == <<badges, waiting, fetch>>
vars  == <<tree, view, queued, marks, refreshes, since, revived>>

Gone  == [at |-> "absent", gen |-> 0, cancel |-> None, kids |-> {}, asked |-> 0]
Unloaded == [Gone EXCEPT !.at = "unloaded"]
NoLoad == [at |-> "free", node |-> Root, gen |-> 0, ok |-> FALSE, kids |-> {}, asked |-> 0]
NoFetch == [at |-> "free", node |-> Root, asked |-> 0]
Idle == [at |-> "idle", left |-> {}]
Undrawn == [as |-> "none", kids |-> {}]
Unread == [known |-> FALSE, asked |-> 0]

Present(n) == entries[n].at # "absent"
Free == {l \in Loads : load[l].at = "free"}
InFlight(l) == load[l].at \in {"reading", "answered"}

-----------------------------------------------------------------------------
Init ==
  /\ entries = [n \in Places |-> IF n = Root THEN Unloaded ELSE Gone]
  /\ load = [l \in Loads |-> NoLoad]
  /\ open = {} /\ shown = [n \in Places |-> Undrawn]
  /\ queued = FALSE /\ ui = [at |-> "asking", left |-> {Root}]
  /\ badges = [n \in Badged |-> Unread] /\ waiting = [n \in Badged |-> None]
  /\ fetch = [f \in Fetches |-> NoFetch]
  /\ refreshes = 0
  /\ since = [n \in Places |-> 0] /\ revived = {}

(***************************************************************************)
(* The model of the tree                                                   *)
(***************************************************************************)
\* Children, of a branch that was not loaded: goroutine l starts, beside the others.
StartLoad(n, l, others) ==
  /\ entries[n].at = "unloaded"
  /\ entries' = [entries EXCEPT ![n].at = "loading", ![n].gen = @ + 1, ![n].cancel = l]
  /\ load' = [others EXCEPT ![l] = [at |-> "reading", node |-> n, gen |-> entries[n].gen + 1,
                                    ok |-> FALSE, kids |-> {}, asked |-> refreshes]]

\* The loader answers, with what the server lists then or an error.  One that was
\* cancelled may have had its answer by then.
Read(l) ==
  /\ load[l].at = "reading"
  /\ \/ \E kids \in SUBSET {n \in Nodes : Parent[n] = load[l].node} :
          load' = [load EXCEPT ![l].at = "answered", ![l].ok = TRUE, ![l].kids = kids]
     \/ load' = [load EXCEPT ![l].at = "answered"]
  /\ UNCHANGED <<entries, view, queued, marks, refreshes, since, revived>>

\* Mutant: an answer is recorded whatever the generation.
AwaitedAnyway(l) == Present(load[l].node)

Awaited(l) == Present(load[l].node) /\ entries[load[l].node].gen = load[l].gen

Record(l) ==
  LET n == load[l].node
      kids == load[l].kids
      done == [entries[n] EXCEPT !.at = IF load[l].ok THEN "loaded" ELSE "failed",
                                 !.cancel = None, !.kids = kids, !.asked = load[l].asked]
  IN /\ entries' = [m \in Places |-> IF m = n THEN done ELSE IF m \in kids THEN Unloaded ELSE entries[m]]
     /\ revived' = revived \cup {m \in kids : \E k \in Loads : InFlight(k) /\ load[k].node = m}

Land(l) ==
  /\ load[l].at = "answered"
  /\ \/ /\ Awaited(l)
        /\ Record(l)
        /\ load' = [load EXCEPT ![l] =
             [NoLoad EXCEPT !.at = "telling", !.kids = load[l].kids \cap Eager]]
     \/ /\ ~Awaited(l)
        /\ load' = [load EXCEPT ![l] = NoLoad]
        /\ UNCHANGED <<entries, revived>>
  /\ UNCHANGED <<view, queued, marks, refreshes, since>>

\* OnChange, which asks for a refresh of the widget.
Tell(l) ==
  /\ load[l].at = "telling" /\ queued' = TRUE
  /\ load' = [load EXCEPT ![l] = IF @.kids = {} THEN NoLoad ELSE [@ EXCEPT !.at = "opening"]]
  /\ UNCHANGED <<entries, view, marks, refreshes, since, revived>>

\* The eager ones are asked for their children; the last takes this goroutine's place.
OpenEager(l) ==
  /\ load[l].at = "opening"
  /\ LET left == {n \in load[l].kids : entries[n].at = "unloaded"} IN
       \/ \E n \in left : \E k \in IF left = {n} THEN {l} ELSE Free :
            StartLoad(n, k, [load EXCEPT ![l].kids = left \ {n}])
       \/ left = {} /\ load' = [load EXCEPT ![l] = NoLoad] /\ UNCHANGED entries
  /\ UNCHANGED <<view, queued, marks, refreshes, since, revived>>

\* Mutant: only the branch's own children are dropped.
ChildrenOf(b) == {n \in Nodes : Parent[n] = b /\ Present(n) /\ n \in entries[b].kids}

\* dropDescendants, of the entries the branch and those below it list.
Below(b) == {n \in Nodes : /\ b \in Above[n] /\ Present(n)
                           /\ \A m \in {n} \cup Above[n] :
                                m # b /\ b \in Above[m] => m \in entries[Parent[m]].kids}

\* A load that is cancelled may still answer.
ModelRefresh(b) ==
  IF Present(b)
  THEN /\ entries' = [n \in Places |->
            IF n = b THEN [Unloaded EXCEPT !.gen = entries[b].gen + 1]
            ELSE IF n \in Below(b) THEN Gone ELSE entries[n]]
       /\ queued' = TRUE
  ELSE UNCHANGED <<entries, queued>>

\* Within
Within(n, b) ==
  Present(n) /\ b \in Above[n] /\ \A m \in Above[n] \ {Root} : b \in Above[m] => Present(m)

-----------------------------------------------------------------------------
(***************************************************************************)
(* The widget                                                              *)
(***************************************************************************)
\* Draws the tree from the top: one refresh for all that was asked since the last.
Fire ==
  /\ queued /\ ui = Idle
  /\ queued' = FALSE /\ ui' = [at |-> "asking", left |-> {Root}]
  /\ UNCHANGED <<tree, open, shown, marks, refreshes, since, revived>>

\* What Children answers of a branch that was asked before.
Answer(b) ==
  IF Present(b) THEN [as |-> entries[b].at, kids |-> entries[b].kids]
  ELSE [as |-> "loaded", kids |-> {}]

\* A row is drawn where the branches it is in list it and are open.
Row(n) == /\ n \in shown[Parent[n]].kids
          /\ \A m \in Above[n] \ {Root} : m \in open /\ m \in shown[Parent[m]].kids

Rows == {n \in Nodes : Row(n)}
DrawnBranch(b) == b = Root \/ (b \in Branches \cap open /\ Row(b))

AskBranch(b) ==
  /\ ui.at = "asking" /\ b \in ui.left
  /\ \/ \E l \in Free : StartLoad(b, l, load) /\ shown' = [shown EXCEPT ![b] = [as |-> "loading", kids |-> {}]]
     \/ /\ entries[b].at # "unloaded"
        /\ shown' = [shown EXCEPT ![b] = Answer(b)]
        /\ UNCHANGED tree
  /\ ui' = [ui EXCEPT !.left = (@ \ {b}) \cup (shown'[b].kids \cap Branches \cap open)]
  /\ UNCHANGED <<open, queued, marks, refreshes, since, revived>>

RowsLeft(rows) == IF rows = {} THEN Idle ELSE [at |-> "updating", left |-> rows]

\* Mutant: what is asked for while a refresh draws is taken for that refresh.
AskedAllLate ==
  /\ ui = [at |-> "asking", left |-> {}]
  /\ ui' = RowsLeft(Rows \cap Badged) /\ queued' = FALSE
  /\ UNCHANGED <<tree, open, shown, marks, refreshes, since, revived>>

AskedAll ==
  /\ ui = [at |-> "asking", left |-> {}]
  /\ ui' = RowsLeft(Rows \cap Badged)
  /\ shown' = [b \in Places |-> IF DrawnBranch(b) THEN shown[b] ELSE Undrawn]
  /\ UNCHANGED <<tree, open, queued, marks, refreshes, since, revived>>

\* A row whose badge is not known and not being read has it read.
UpdateRow(n) ==
  /\ ui.at = "updating" /\ n \in ui.left
  /\ ui' = RowsLeft(ui.left \ {n})
  /\ IF Present(n) /\ ~badges[n].known /\ waiting[n] = None
     THEN \E f \in Fetches :
            /\ fetch[f].at = "free"
            /\ fetch' = [fetch EXCEPT ![f] = [at |-> "reading", node |-> n, asked |-> refreshes]]
            /\ waiting' = [waiting EXCEPT ![n] = f]
            /\ UNCHANGED badges
     ELSE UNCHANGED marks
  /\ UNCHANGED <<tree, open, shown, queued, refreshes, since, revived>>

\* dropBadges: reads below a branch are cancelled and, with forget, what was read is
\* forgotten.
DropBadges(b, forget) ==
  LET below == {n \in Badged : b = Root \/ n = b \/ Within(n, b)}
  IN /\ waiting' = [n \in Badged |-> IF n \in below THEN None ELSE waiting[n]]
     /\ badges' = [n \in Badged |-> IF n \in below /\ forget THEN Unread ELSE badges[n]]
     /\ UNCHANGED fetch

\* A branch whose row is drawn is opened, or closed, and the tree drawn again.
Toggle(b) ==
  /\ ui = Idle /\ b \in Branches /\ Row(b)
  /\ ui' = [at |-> "asking", left |-> {Root}]
  /\ IF b \in open THEN open' = open \ {b} /\ DropBadges(b, FALSE)
     ELSE open' = open \cup {b} /\ UNCHANGED marks
  /\ UNCHANGED <<tree, shown, queued, refreshes, since, revived>>

Refresh(b) ==
  /\ ui = Idle /\ refreshes < MaxRefreshes /\ (b # Root => Row(b))
  /\ refreshes' = refreshes + 1
  /\ since' = [n \in Places |->
       IF n = b \/ b \in Above[n] THEN refreshes + 1 ELSE since[n]]
  /\ DropBadges(b, TRUE)
  /\ ModelRefresh(b)
  /\ UNCHANGED <<load, view, revived>>

(***************************************************************************)
(* A badge is read on a goroutine of its own, a few at a time              *)
(***************************************************************************)
\* Mutant: a badge is recorded whoever asked for it.
WantedAnyway(f) == fetch[f].at # "free"

Wanted(f) == fetch[f].at # "free" /\ waiting[fetch[f].node] = f

\* The read waits for one of badgeWorkers slots, and ends at some time; then landed, on
\* the window's goroutine.  Of a read that was cancelled nothing is kept.
Landed(f) ==
  /\ fetch[f].at = "reading"
  /\ fetch' = [fetch EXCEPT ![f] = NoFetch]
  /\ \/ /\ Wanted(f) /\ ui = Idle
        /\ waiting' = [waiting EXCEPT ![fetch[f].node] = None]
        /\ badges' = [badges EXCEPT ![fetch[f].node] = [known |-> TRUE, asked |-> fetch[f].asked]]
        /\ queued' = TRUE
     \/ ~Wanted(f) /\ UNCHANGED <<waiting, badges, queued>>
  /\ UNCHANGED <<tree, view, refreshes, since, revived>>

-----------------------------------------------------------------------------
Loading == \E l \in Loads : Read(l) \/ Land(l) \/ Tell(l) \/ OpenEager(l)
Drawing == Fire \/ (\E b \in Places : AskBranch(b)) \/ AskedAll \/ (\E n \in Badged : UpdateRow(n))
Reading == \E f \in Fetches : Landed(f)
Asking  == (\E b \in Places : Refresh(b)) \/ (\E b \in Branches : Toggle(b))

Next == Loading \/ Drawing \/ Reading \/ Asking

Spec == Init /\ [][Next]_vars

-----------------------------------------------------------------------------
\* What a node shows, its children or an error, is the answer of a load that was asked
\* for after the last refresh of it or of a branch it is in (load's "drop it rather than
\* let an old result overwrite a newer one"), however loads and refreshes cross.
\* Not said of a node listed again with a load of before under way, nor of what is in
\* one (AlwaysCurrent).
CurrentAnswers ==
  \A n \in Places : ({n} \cup Above[n]) \cap revived = {} /\ entries[n].at \in {"loaded", "failed"} =>
    entries[n].asked >= since[n]

\* Does not hold (README, section 6).
AlwaysCurrent ==
  \A n \in Places : entries[n].at \in {"loaded", "failed"} => entries[n].asked >= since[n]

\* The filter searches m.entries: what it finds is in the tree, under the branch that
\* lists it, all the way up (Search, dropDescendants).
FilterFindsTheTree ==
  revived = {} => \A n \in Nodes : Present(n) => /\ Present(Parent[n])
                                                 /\ n \in entries[Parent[n]].kids

\* With nothing under way that will ask for a refresh, the widget shows of each drawn
\* branch what the model holds, and every drawn row's badge is known or being read:
\* no change falls between one coalesced refresh and the next (Coalesce, OnChange).
NothingUndrawn ==
  ui = Idle /\ ~queued /\ (\A l \in Loads : load[l].at # "telling") =>
    /\ \A b \in Places : DrawnBranch(b) => shown[b] = Answer(b)
    /\ \A n \in Rows \cap Badged : badges[n].known \/ waiting[n] # None

\* A badge that is remembered was asked for after the last refresh of its node or of a
\* branch that is in, whenever its read lands (landed, dropBadges).
CurrentBadges ==
  revived = {} => \A n \in Badged : badges[n].known => badges[n].asked >= since[n]

=============================================================================
