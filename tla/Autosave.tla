------------------------------ MODULE Autosave ------------------------------
(***************************************************************************)
(* Unsaved query text (internal/ui/shell/scratch.go): the text of a query  *)
(* tab is kept in the local database while it is saved nowhere else, by a  *)
(* goroutine that writes the latest word about each buffer, so that it     *)
(* outlives the tab, the window and a crash (session.go, workspaces.go).   *)
(* A query saved under a name is written by goroutines of its own          *)
(* (saved.go).                                                             *)
(*                                                                         *)
(* A buffer is the text of a tab and of the saved query it edits, if any.  *)
(* A text is a number of its own, the document's revision; 0 is a blank    *)
(* text, which is not kept, and nothing on disk.                           *)
(***************************************************************************)
EXTENDS Naturals, FiniteSets, Sequences

CONSTANTS
  Buffers,    \* the query tabs, by the name of their text in the store
  MaxEdits,   \* bound: texts told apart; typing goes on in the last
  MaxSaves,   \* bound: saves
  MaxStarts,  \* bound: times the application ends, by a crash or a quit
  None        \* no word, no buffer

ASSUME BoundsAssumption == MaxEdits \in Nat /\ MaxSaves \in Nat /\ MaxStarts \in Nat
ASSUME NoneAssumption == None \notin Nat /\ None \notin Buffers

VARIABLES
  app,      \* "up", "quitting", "down"
  tab,      \* "open"; "away" with its workspace; "reading" and "read", coming back;
            \* "left" until the next start; "closed" by whoever typed it
  text, dirty,
  keeping,  \* q.keeping: "set", a write of the text is scheduled; "due", its time has come; or "no"
  back,     \* what a tab that comes back was read as
  pending,  \* writer: the word on each buffer that waits: a text, or 0 to drop it
  order,    \* writer: the buffers with one, in turn
  writing,  \* writer: the word being written
  writer,   \* "look", "sleep" until woken, "write", "done"
  wake, closed,
  disk,     \* the scratch store
  query,    \* the saved query's text
  saves,    \* storeQuery's goroutines
  delete,   \* confirmDelete's goroutine: "none", "asked", "deleted"
  edits, starts,
  failed,   \* history: the last write about a buffer failed
  behind,   \* history: reopened as it was before the last word about it
  raced     \* history: a save or a delete began while another was under way

keeper  == <<pending, order, writing, writer, wake, closed>>
shell   == <<tab, text, dirty, keeping, back>>
queries == <<query, saves, delete>>
ghosts  == <<failed, behind, raced>>
vars    == <<app, shell, keeper, disk, queries, edits, starts, ghosts>>

Idle == [about |-> None, text |-> 0]
NoSave == [at |-> "none", of |-> None, body |-> 0, live |-> FALSE]
Over   == [NoSave EXCEPT !.at = "over"]
Unread == [scratch |-> 0, saved |-> 0]
Each(v) == [b \in Buffers |-> v]

Init ==
  /\ app = "up" /\ tab = Each("open") /\ text = Each(0) /\ dirty = Each(FALSE)
  /\ keeping = Each("no") /\ back = Each(Unread)
  /\ pending = Each(None) /\ order = <<>> /\ writing = Idle
  /\ writer = "look" /\ wake = FALSE /\ closed = FALSE
  /\ disk = Each(0) /\ query = Each(0)
  /\ saves = [i \in 1..MaxSaves |-> NoSave] /\ delete = Each("none")
  /\ edits = 0 /\ starts = 0
  /\ failed = Each(FALSE) /\ behind = Each(FALSE) /\ raced = Each(FALSE)

Up(b) == app = "up" /\ tab[b] = "open"

-----------------------------------------------------------------------------
(***************************************************************************)
(* writer                                                                  *)
(***************************************************************************)
\* Mutant: a word that waits is not replaced.
QueueFirst(b, word) ==
  IF closed THEN UNCHANGED <<pending, order, wake>>
  ELSE /\ pending' = [pending EXCEPT ![b] = IF @ = None THEN word ELSE @]
       /\ order' = IF pending[b] = None THEN Append(order, b) ELSE order
       /\ wake' = TRUE

\* queue: the next word on a buffer, in the place of one that waits.
Queue(b, word) ==
  IF closed THEN UNCHANGED <<pending, order, wake>>
  ELSE /\ pending' = [pending EXCEPT ![b] = word]
       /\ order' = IF pending[b] = None THEN Append(order, b) ELSE order
       /\ wake' = TRUE

\* run: the next word, or none, and none to come.
WriterLook ==
  /\ app # "down" /\ writer = "look"
  /\ IF order # <<>>
     THEN /\ writer' = "write"
          /\ writing' = [about |-> Head(order), text |-> pending[Head(order)]]
          /\ pending' = [pending EXCEPT ![Head(order)] = None]
          /\ order' = Tail(order)
     ELSE /\ writer' = IF closed THEN "done" ELSE "sleep"
          /\ UNCHANGED <<writing, pending, order>>
  /\ UNCHANGED <<app, shell, wake, closed, disk, queries, edits, starts, ghosts>>

WriterWake ==
  /\ app # "down" /\ writer = "sleep" /\ wake
  /\ writer' = "look" /\ wake' = FALSE
  /\ UNCHANGED <<app, shell, pending, order, writing, closed, disk, queries, edits, starts, ghosts>>

\* write: done; or it fails, in time or at the end of it, when it may be done too.
WriterWrite ==
  /\ app # "down" /\ writer = "write"
  /\ writer' = "look" /\ writing' = Idle
  /\ \E done, said \in BOOLEAN :
       /\ said => done
       /\ disk' = IF done THEN [disk EXCEPT ![writing.about] = writing.text] ELSE disk
       /\ failed' = [failed EXCEPT ![writing.about] = ~said]
  /\ UNCHANGED <<app, shell, pending, order, wake, closed, queries, edits, starts, behind, raced>>

-----------------------------------------------------------------------------
(***************************************************************************)
(* Tabs                                                                    *)
(***************************************************************************)
\* What keep keeps of a tab: text that is saved nowhere else.
Unsaved(b) == IF dirty[b] THEN text[b] ELSE 0

\* keep
Keep(b, word) == Queue(b, word) /\ behind' = [behind EXCEPT ![b] = FALSE]

\* A tab's goroutines find its context cancelled.
Orphan(b) == saves' = [i \in DOMAIN saves |-> [saves[i] EXCEPT !.live = @ /\ saves[i].of # b]]

\* OnChanged: the next text; the last that is told apart stands for all that are typed
\* after it, while none of them is being saved.
Edit(b) ==
  \/ /\ edits < MaxEdits /\ edits' = edits + 1
     /\ \E v \in {0, edits + 1} : text' = [text EXCEPT ![b] = v]
  \/ /\ edits = MaxEdits /\ text[b] = MaxEdits /\ \A i \in DOMAIN saves : saves[i].body # MaxEdits
     /\ UNCHANGED <<edits, text>>

\* Mutant: a write is put off by each edit.
TypeDebounced(b) ==
  /\ Up(b) /\ Edit(b)
  /\ dirty' = [dirty EXCEPT ![b] = TRUE] /\ keeping' = [keeping EXCEPT ![b] = "set"]
  /\ UNCHANGED <<app, tab, back, keeper, disk, queries, starts, ghosts>>

\* edited: one that is scheduled stays as it is.
Type(b) ==
  /\ Up(b) /\ Edit(b)
  /\ dirty' = [dirty EXCEPT ![b] = TRUE]
  /\ keeping' = [keeping EXCEPT ![b] = IF @ = "no" THEN "set" ELSE @]
  /\ UNCHANGED <<app, tab, back, keeper, disk, queries, starts, ghosts>>

\* AfterFunc: the delay has passed, and the window is asked to run what was scheduled.
Elapse(b) ==
  /\ app # "down" /\ keeping[b] = "set"
  /\ keeping' = [keeping EXCEPT ![b] = "due"]
  /\ UNCHANGED <<app, tab, text, dirty, back, keeper, disk, queries, edits, starts, ghosts>>

Due(b) ==
  /\ Up(b) /\ keeping[b] = "due"
  /\ keeping' = [keeping EXCEPT ![b] = "no"]
  /\ Keep(b, Unsaved(b))
  /\ UNCHANGED <<app, tab, text, dirty, back, writing, writer, closed, disk, queries,
                 edits, starts, failed, raced>>

\* removeTab, by whoever typed the text: it is forgotten.
CloseTab(b) ==
  /\ Up(b)
  /\ tab' = [tab EXCEPT ![b] = "closed"] /\ Keep(b, 0) /\ Orphan(b)
  /\ text' = [text EXCEPT ![b] = 0] /\ dirty' = [dirty EXCEPT ![b] = FALSE]
  /\ keeping' = [keeping EXCEPT ![b] = "no"]
  /\ UNCHANGED <<app, back, writing, writer, closed, disk, query, delete,
                 edits, starts, failed, raced>>

\* removeTab, by the application: the workspace is left.
Leave(b) ==
  /\ Up(b)
  /\ tab' = [tab EXCEPT ![b] = "away"] /\ Keep(b, Unsaved(b)) /\ Orphan(b)
  /\ keeping' = [keeping EXCEPT ![b] = "no"]
  /\ UNCHANGED <<app, text, dirty, back, writing, writer, closed, disk, query, delete,
                 edits, starts, failed, raced>>

\* A save or a delete is under way, or the tab is coming back.
Busy(b) ==
  \/ delete[b] # "none" \/ tab[b] \in {"reading", "read"}
  \/ \E i \in DOMAIN saves : saves[i].of = b /\ saves[i].at # "over"

\* switchWorkspace, openWorkspaceTabs: back to it.
ComeBack(b) ==
  /\ app = "up" /\ tab[b] = "away"
  /\ tab' = [tab EXCEPT ![b] = "reading"]
  /\ raced' = [raced EXCEPT ![b] = @ \/ Busy(b)]
  /\ UNCHANGED <<app, text, dirty, keeping, back, keeper, disk, queries, edits, starts, failed, behind>>

\* tabMaterials: what is kept of the tab, and its saved query; or neither can be read.
ReadBack(b) ==
  /\ app = "up" /\ tab[b] = "reading"
  /\ tab' = [tab EXCEPT ![b] = "read"]
  /\ \E kept \in {disk[b], 0} : back' = [back EXCEPT ![b] = [scratch |-> kept, saved |-> query[b]]]
  /\ UNCHANGED <<app, text, dirty, keeping, keeper, disk, queries, edits, starts, ghosts>>

\* The last word about a buffer, written or not.
LastWord(b) ==
  IF pending[b] # None THEN pending[b]
  ELSE IF writing.about = b THEN writing.text ELSE disk[b]

\* reopenTab.  A tab whose text is not found is another, and the text waits for the next start.
Reopen(b) ==
  /\ app = "up" /\ tab[b] = "read"
  /\ IF back[b].scratch # 0
     THEN /\ tab' = [tab EXCEPT ![b] = "open"] /\ text' = [text EXCEPT ![b] = back[b].scratch]
          /\ dirty' = [dirty EXCEPT ![b] = TRUE]
          /\ behind' = [behind EXCEPT ![b] = back[b].scratch # LastWord(b)]
     ELSE IF Unsaved(b) = 0
     THEN /\ tab' = [tab EXCEPT ![b] = "open"] /\ text' = [text EXCEPT ![b] = back[b].saved]
          /\ dirty' = [dirty EXCEPT ![b] = FALSE] /\ UNCHANGED behind
     ELSE tab' = [tab EXCEPT ![b] = "left"] /\ UNCHANGED <<text, dirty, behind>>
  /\ back' = [back EXCEPT ![b] = Unread]
  /\ UNCHANGED <<app, keeping, keeper, disk, queries, edits, starts, failed, raced>>

-----------------------------------------------------------------------------
(***************************************************************************)
(* Saved queries                                                           *)
(***************************************************************************)
\* storeQuery
Save(b) ==
  /\ Up(b)
  /\ \E i \in DOMAIN saves :
       /\ saves[i] = NoSave /\ \A j \in 1..(i - 1) : saves[j] # NoSave
       /\ saves' = [saves EXCEPT ![i] = [at |-> "sent", of |-> b, body |-> text[b], live |-> TRUE]]
  /\ raced' = [raced EXCEPT ![b] = @ \/ Busy(b)]
  /\ UNCHANGED <<app, shell, keeper, disk, query, delete, edits, starts, failed, behind>>

SaveWrites(i) ==
  /\ app # "down" /\ saves[i].at = "sent"
  /\ \/ saves' = [saves EXCEPT ![i].at = "stored"] /\ query' = [query EXCEPT ![saves[i].of] = saves[i].body]
     \/ saves' = [saves EXCEPT ![i].at = "refused"] /\ UNCHANGED query
  /\ UNCHANGED <<app, shell, keeper, disk, delete, edits, starts, ghosts>>

\* Mutant: saved is saved, whatever was typed meanwhile.
SaidSaved(b, body) == FALSE

\* Edits made while saving are not in it.
StillDirty(b, body) == text[b] # body

SaveLands(i) ==
  LET b == saves[i].of  still == StillDirty(b, saves[i].body) IN
  /\ app = "up" /\ saves[i].at \in {"stored", "refused"}
  /\ saves' = [saves EXCEPT ![i] = Over]
  /\ IF saves[i].at = "stored" /\ saves[i].live
     THEN dirty' = [dirty EXCEPT ![b] = still] /\ Keep(b, IF still THEN text[b] ELSE 0)
     ELSE UNCHANGED <<dirty, pending, order, wake, behind>>
  /\ UNCHANGED <<app, tab, text, keeping, back, writing, writer, closed, disk, query, delete,
                 edits, starts, failed, raced>>

\* confirmDelete: a tab that has the query open keeps its text.
AskDelete(b) ==
  /\ app = "up" /\ delete[b] = "none" /\ query[b] # 0
  /\ delete' = [delete EXCEPT ![b] = "asked"]
  /\ raced' = [raced EXCEPT ![b] = @ \/ Busy(b)]
  /\ UNCHANGED <<app, shell, keeper, disk, query, saves, edits, starts, failed, behind>>

Deletes(b) ==
  /\ app # "down" /\ delete[b] = "asked"
  /\ \/ delete' = [delete EXCEPT ![b] = "deleted"] /\ query' = [query EXCEPT ![b] = 0]
     \/ delete' = [delete EXCEPT ![b] = "none"] /\ UNCHANGED query
  /\ UNCHANGED <<app, shell, keeper, disk, saves, edits, starts, ghosts>>

DeleteLands(b) ==
  /\ app = "up" /\ delete[b] = "deleted"
  /\ delete' = [delete EXCEPT ![b] = "none"]
  /\ IF tab[b] = "open" THEN dirty' = [dirty EXCEPT ![b] = TRUE] /\ Keep(b, text[b])
     ELSE UNCHANGED <<dirty, pending, order, wake, behind>>
  /\ UNCHANGED <<app, tab, text, keeping, back, writing, writer, closed, disk, query, saves,
                 edits, starts, failed, raced>>

-----------------------------------------------------------------------------
(***************************************************************************)
(* The application ends and starts                                         *)
(***************************************************************************)
\* shutdown: each tab is kept, the writer told to end and waited for, up to a time.
Quit ==
  /\ app = "up" /\ app' = "quitting"
  /\ UNCHANGED <<shell, keeper, disk, queries, edits, starts, ghosts>>

QuitTab(b) ==
  /\ app = "quitting" /\ tab[b] = "open"
  /\ tab' = [tab EXCEPT ![b] = "left"] /\ Keep(b, Unsaved(b)) /\ Orphan(b)
  /\ keeping' = [keeping EXCEPT ![b] = "no"]
  /\ UNCHANGED <<app, text, dirty, back, writing, writer, closed, disk, query, delete,
                 edits, starts, failed, raced>>

QuitWriter ==
  /\ app = "quitting" /\ ~closed /\ \A b \in Buffers : tab[b] # "open"
  /\ closed' = TRUE /\ wake' = TRUE
  /\ UNCHANGED <<app, shell, pending, order, writing, writer, disk, queries, edits, starts, ghosts>>

\* The process ends, by a crash or at the end of quitting; a word being written may be.
End ==
  /\ app # "down" /\ starts < MaxStarts
  /\ app' = "down" /\ starts' = starts + 1
  /\ \/ UNCHANGED disk
     \/ writer = "write" /\ disk' = [disk EXCEPT ![writing.about] = writing.text]
  /\ pending' = Each(None) /\ order' = <<>> /\ writing' = Idle
  /\ writer' = "look" /\ wake' = FALSE /\ closed' = FALSE
  /\ saves' = [i \in DOMAIN saves |-> IF saves[i] = NoSave THEN NoSave ELSE Over]
  /\ delete' = Each("none") /\ keeping' = Each("no")
  /\ text' = Each(0) /\ dirty' = Each(FALSE) /\ back' = Each(Unread)
  /\ failed' = Each(FALSE) /\ behind' = Each(FALSE) /\ raced' = Each(FALSE)
  /\ UNCHANGED <<tab, query, edits>>

\* restore, reopen: the tabs of the session, and text kept whose tab it does not name; or
\* nothing kept can be read.
Start ==
  /\ app = "down" /\ app' = "up"
  /\ \E readable \in BOOLEAN :
       tab' = [b \in Buffers |->
         IF disk[b] # 0 THEN (IF readable THEN "open" ELSE "left")
         ELSE IF tab[b] = "closed" THEN "closed" ELSE "open"]
  /\ text' = [b \in Buffers |-> IF disk[b] # 0 THEN disk[b] ELSE query[b]]
  /\ dirty' = [b \in Buffers |-> disk[b] # 0]
  /\ UNCHANGED <<keeping, back, keeper, disk, queries, edits, starts, ghosts>>

-----------------------------------------------------------------------------
Next ==
  \/ WriterLook \/ WriterWake \/ WriterWrite
  \/ \E b \in Buffers :
       \/ Type(b) \/ Elapse(b) \/ Due(b) \/ CloseTab(b) \/ Leave(b) \/ ComeBack(b) \/ ReadBack(b) \/ Reopen(b)
       \/ Save(b) \/ AskDelete(b) \/ Deletes(b) \/ DeleteLands(b) \/ QuitTab(b)
  \/ \E i \in DOMAIN saves : SaveWrites(i) \/ SaveLands(i)
  \/ Quit \/ QuitWriter \/ End \/ Start

\* The timers, the window and the writer go on; a write takes five seconds at most.
Fairness ==
  /\ WF_vars(WriterLook) /\ WF_vars(WriterWake) /\ WF_vars(WriterWrite)
  /\ \A b \in Buffers : WF_vars(Elapse(b)) /\ WF_vars(Due(b))

Spec == Init /\ [][Next]_vars
FairSpec == Spec /\ Fairness

-----------------------------------------------------------------------------
Versions == 0..MaxEdits

TypeOK ==
  /\ app \in {"up", "quitting", "down"}
  /\ tab \in [Buffers -> {"open", "away", "reading", "read", "left", "closed"}]
  /\ text \in [Buffers -> Versions] /\ dirty \in [Buffers -> BOOLEAN]
  /\ keeping \in [Buffers -> {"no", "set", "due"}]
  /\ back \in [Buffers -> [scratch : Versions, saved : Versions]]
  /\ pending \in [Buffers -> Versions \cup {None}] /\ order \in Seq(Buffers)
  /\ writing \in [about : Buffers \cup {None}, text : Versions]
  /\ writer \in {"look", "sleep", "write", "done"} /\ wake \in BOOLEAN /\ closed \in BOOLEAN
  /\ disk \in [Buffers -> Versions] /\ query \in [Buffers -> Versions]
  /\ saves \in [1..MaxSaves -> [at : {"none", "sent", "stored", "refused", "over"},
                                of : Buffers \cup {None}, body : Versions, live : BOOLEAN]]
  /\ delete \in [Buffers -> {"none", "asked", "deleted"}]
  /\ edits \in Versions /\ starts \in 0..MaxStarts
  /\ failed \in [Buffers -> BOOLEAN] /\ behind \in [Buffers -> BOOLEAN]
  /\ raced \in [Buffers -> BOOLEAN]

\* The writer has nothing to write about a buffer.
Settled(b) == pending[b] = None /\ writing.about # b

\* Once its last word is written, the store holds the text of a tab that is saved nowhere
\* else, and none of a tab that was closed on purpose, saved or emptied: whatever was
\* typed, saved, left and closed while earlier words were being written, and however often
\* a write before the last failed ("a buffer forgotten after a save is never written back
\* by an earlier, slower write").  Not said of a tab that was reopened as it was before
\* the last word (ReopensAsLeft).
DiskIsUpToDate ==
  \A b \in Buffers :
    (app # "down" /\ Settled(b) /\ keeping[b] = "no" /\ ~failed[b] /\ ~behind[b]) => disk[b] = Unsaved(b)

\* A tab without a mark of unsaved edits has its text stored in its query, unless that is
\* being deleted; the edits made while saving are not in it.  Not said of one saved again, deleted
\* or come back to while it is being saved (SavesInTurn).
CleanIsStored ==
  \A b \in Buffers :
    (Up(b) /\ ~dirty[b] /\ delete[b] # "deleted" /\ ~raced[b]) => query[b] = text[b]

\* "Writes are throttled, not debounced: text typed without a pause is still kept": what
\* is typed gets to the disk, as it was or as it is after more edits, though they never
\* stop; while the application is up, the tab unsaved and not emptied and its writes do
\* not fail (edited, keep, writer).
KeptInTime ==
  \A b \in Buffers : \A v \in 1..MaxEdits :
    (Up(b) /\ dirty[b] /\ text[b] = v)
      ~> (disk[b] >= v \/ ~Up(b) \/ ~dirty[b] \/ text[b] = 0 \/ failed[b] \/ behind[b])

\* Do not hold (README, section 6).
SavesInTurn ==
  \A b \in Buffers : (Up(b) /\ ~dirty[b] /\ delete[b] # "deleted") => query[b] = text[b]

ReopensAsLeft ==
  [][app = "up" => \A b \in Buffers :
       tab[b] = "read" /\ tab'[b] = "open" => Unsaved(b)' = Unsaved(b)]_vars
=============================================================================
