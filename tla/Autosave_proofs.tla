--------------------------- MODULE Autosave_proofs ---------------------------
(***************************************************************************)
(* Proofs about unsaved query text, for any number of tabs, texts, saves   *)
(* and restarts: what the store holds once the writer is done is the last  *)
(* word about each buffer, a tab without a mark has its text stored, what  *)
(* was typed is on its way to the store or there, and quitting loses none  *)
(* of it.                                                                  *)
(***************************************************************************)
EXTENDS Autosave, TLAPS

-----------------------------------------------------------------------------
(***************************************************************************)
(* Types                                                                   *)
(***************************************************************************)
WordSet == [about : Buffers \cup {None}, text : Versions]
SaveSet == [at : {"none", "sent", "stored", "refused", "over"},
            of : Buffers \cup {None}, body : Versions, live : BOOLEAN]
BackSet == [scratch : Versions, saved : Versions]
TabStates == {"open", "away", "reading", "read", "left", "closed"}

ShellTypes ==
  /\ tab \in [Buffers -> TabStates]
  /\ text \in [Buffers -> Versions] /\ dirty \in [Buffers -> BOOLEAN]
  /\ keeping \in [Buffers -> {"no", "set", "due"}] /\ back \in [Buffers -> BackSet]

KeeperTypes ==
  /\ pending \in [Buffers -> Versions \cup {None}] /\ order \in Seq(Buffers)
  /\ writing \in WordSet
  /\ writer \in {"look", "sleep", "write", "done"} /\ wake \in BOOLEAN /\ closed \in BOOLEAN

StoreTypes ==
  /\ disk \in [Buffers -> Versions] /\ query \in [Buffers -> Versions]
  /\ saves \in [1..MaxSaves -> SaveSet]
  /\ delete \in [Buffers -> {"none", "asked", "deleted"}]

RestTypes ==
  /\ app \in {"up", "quitting", "down"}
  /\ edits \in Versions /\ starts \in 0..MaxStarts
  /\ failed \in [Buffers -> BOOLEAN] /\ behind \in [Buffers -> BOOLEAN]
  /\ raced \in [Buffers -> BOOLEAN]

\* Who waits has its turn, once; the writer holds a word while it writes; nothing is
\* queued by an open tab once the writer was told to end, and nothing at all is left
\* when the process has ended.
Turns ==
  /\ \A i \in 1..Len(order) : pending[order[i]] # None
  /\ \A i, j \in 1..Len(order) : order[i] = order[j] => i = j

Phases ==
  /\ writer = "write" => writing.about # None
  /\ writing.about # None => writer = "write"
  /\ closed => app = "quitting" /\ \A b \in Buffers : tab[b] # "open"
  /\ \A i \in 1..MaxSaves : saves[i].at \in {"sent", "stored", "refused"} => saves[i].of \in Buffers

Ended ==
  app = "down" =>
    /\ writing = Idle /\ \A b \in Buffers : pending[b] = None
    /\ \A b \in Buffers : delete[b] = "none"
    /\ \A i \in 1..MaxSaves : saves[i].of = None

Shape ==
  ShellTypes /\ KeeperTypes /\ StoreTypes /\ RestTypes /\ Turns /\ Phases /\ Ended

LEMMA ShapeTypes == Shape => TypeOK
  BY DEF Shape, TypeOK, ShellTypes, KeeperTypes, StoreTypes, RestTypes, WordSet, SaveSet, BackSet,
         TabStates

LEMMA Zero == 0 \in Versions /\ None \notin Versions
  BY BoundsAssumption, NoneAssumption DEF Versions

LEMMA IdleTypes == Idle \in WordSet /\ Idle.about = None /\ Unread \in BackSet /\ NoSave \in SaveSet
                   /\ Over \in SaveSet /\ Over.of = None /\ Over.at = "over" /\ NoSave.of = None /\ NoSave.at = "none"
<1>2. Idle \in WordSet /\ Idle.about = None
  BY Zero DEF Idle, WordSet
<1>3. Unread \in BackSet
  BY Zero DEF Unread, BackSet
<1>4. NoSave \in SaveSet /\ NoSave.of = None /\ NoSave.at = "none"
  BY Zero DEF NoSave, SaveSet
<1>5. Over \in SaveSet /\ Over.of = None /\ Over.at = "over"
  BY <1>4 DEF Over, SaveSet
<1>6. QED
  BY <1>2, <1>3, <1>4, <1>5

LEMMA UnsavedType ==
  ASSUME ShellTypes, NEW b \in Buffers
  PROVE  Unsaved(b) \in Versions /\ text[b] \in Versions
  BY Zero DEF ShellTypes, Unsaved

\* Queue: the word takes the place of one that waits, or the last turn.
LEMMA QueueFacts ==
  ASSUME KeeperTypes, Turns, NEW b \in Buffers, NEW word \in Versions, Queue(b, word)
  PROVE  /\ pending' \in [Buffers -> Versions \cup {None}] /\ order' \in Seq(Buffers)
         /\ wake' \in BOOLEAN /\ Turns'
         /\ \A c \in Buffers : c # b => pending'[c] = pending[c]
         /\ ~closed => pending'[b] = word
<1>0. /\ pending \in [Buffers -> Versions \cup {None}] /\ order \in Seq(Buffers)
      /\ wake \in BOOLEAN /\ word # None
  BY Zero DEF KeeperTypes
<1>1. CASE closed
  BY <1>0, <1>1 DEF Queue, Turns
<1>2. CASE ~closed
  <2>1. /\ pending' = [pending EXCEPT ![b] = word] /\ wake' = TRUE
        /\ order' = IF pending[b] = None THEN Append(order, b) ELSE order
    BY <1>2 DEF Queue
  <2>2. /\ pending' \in [Buffers -> Versions \cup {None}] /\ pending'[b] = word
        /\ \A c \in Buffers : c # b => pending'[c] = pending[c]
    BY <1>0, <2>1
  <2>3. order' \in Seq(Buffers)
    BY <1>0, <2>1
  <2>4. Turns'
    <3>1. CASE pending[b] # None
      <4>1. order' = order
        BY <2>1, <3>1
      <4>2. \A i \in 1..Len(order) : order[i] \in Buffers
        BY <1>0
      <4>3. QED
        BY <1>0, <2>2, <4>1, <4>2 DEF Turns
    <3>2. CASE pending[b] = None
      <4>1. order' = Append(order, b)
        BY <2>1, <3>2
      <4>2. /\ Len(order) \in Nat /\ Len(order') = Len(order) + 1
            /\ \A i \in 1..Len(order) : order'[i] = order[i] /\ order[i] \in Buffers /\ order[i] # b
            /\ order'[Len(order) + 1] = b
        BY <1>0, <3>2, <4>1 DEF Turns
      <4>3. \A i \in 1..Len(order') : i \in 1..Len(order) \/ i = Len(order) + 1
        BY <4>2
      <4>4. \A i \in 1..Len(order') : pending'[order'[i]] # None
        BY <1>0, <2>2, <4>2, <4>3 DEF Turns
      <4>5. \A i, j \in 1..Len(order') : order'[i] = order'[j] => i = j
        BY <4>2, <4>3 DEF Turns
      <4>6. QED
        BY <4>4, <4>5 DEF Turns
    <3>3. QED
      BY <3>1, <3>2
  <2>5. QED
    BY <1>2, <2>1, <2>2, <2>3, <2>4
<1>3. QED
  BY <1>1, <1>2

\* The writer takes the word of the buffer whose turn it is, and it waits no more.
LEMMA TakeFacts ==
  ASSUME KeeperTypes, Turns, order # <<>>,
         pending' = [pending EXCEPT ![Head(order)] = None], order' = Tail(order)
  PROVE  /\ Head(order) \in Buffers /\ pending[Head(order)] \in Versions
         /\ pending' \in [Buffers -> Versions \cup {None}] /\ order' \in Seq(Buffers)
         /\ Turns' /\ pending'[Head(order)] = None
         /\ \A c \in Buffers : c # Head(order) => pending'[c] = pending[c]
<1>0. pending \in [Buffers -> Versions \cup {None}] /\ order \in Seq(Buffers)
  BY DEF KeeperTypes
<1>1. /\ Len(order) \in Nat \ {0} /\ Head(order) = order[1] /\ 1 \in 1..Len(order)
      /\ order' \in Seq(Buffers) /\ Len(order') = Len(order) - 1
      /\ \A i \in 1..Len(order') : order'[i] = order[i + 1] /\ i + 1 \in 1..Len(order)
      /\ \A i \in 1..Len(order) : order[i] \in Buffers
  BY <1>0
<1>2. Head(order) \in Buffers /\ pending[Head(order)] \in Versions
  BY <1>0, <1>1 DEF Turns
<1>3. /\ pending' \in [Buffers -> Versions \cup {None}] /\ pending'[Head(order)] = None
      /\ \A c \in Buffers : c # Head(order) => pending'[c] = pending[c]
  BY <1>0, <1>2
<1>4. \A i \in 1..Len(order') : order'[i] # Head(order)
  BY <1>1 DEF Turns
<1>5. \A i \in 1..Len(order') : pending'[order'[i]] # None
  BY <1>1, <1>3, <1>4 DEF Turns
<1>6. \A i, j \in 1..Len(order') : order'[i] = order'[j] => i = j
  BY <1>1 DEF Turns
<1>7. QED
  BY <1>1, <1>2, <1>3, <1>5, <1>6 DEF Turns

LEMMA KeepFacts ==
  ASSUME KeeperTypes, RestTypes, Turns, NEW b \in Buffers, NEW word \in Versions, Keep(b, word)
  PROVE  /\ pending' \in [Buffers -> Versions \cup {None}] /\ order' \in Seq(Buffers)
         /\ wake' \in BOOLEAN /\ behind' \in [Buffers -> BOOLEAN] /\ Turns'
         /\ \A c \in Buffers : c # b => pending'[c] = pending[c] /\ behind'[c] = behind[c]
         /\ ~closed => pending'[b] = word
<1>1. Queue(b, word) /\ behind' = [behind EXCEPT ![b] = FALSE]
  BY DEF Keep
<1>2. KeeperTypes /\ behind \in [Buffers -> BOOLEAN]
  BY DEF RestTypes
<1>3. behind' \in [Buffers -> BOOLEAN] /\ \A c \in Buffers : c # b => behind'[c] = behind[c]
  BY <1>1, <1>2
<1>4. QED
  BY <1>1, <1>2, <1>3, QueueFacts

\* The goroutines of a tab learn that it has gone, and nothing else.
LEMMA OrphanFacts ==
  ASSUME StoreTypes, NEW b \in Buffers, Orphan(b)
  PROVE  /\ saves' \in [1..MaxSaves -> SaveSet]
         /\ \A i \in 1..MaxSaves :
              /\ saves'[i].at = saves[i].at /\ saves'[i].of = saves[i].of
              /\ saves'[i].body = saves[i].body
              /\ saves[i].of # b => saves'[i].live = saves[i].live
<1>0. saves \in [1..MaxSaves -> SaveSet] /\ DOMAIN saves = 1..MaxSaves
  BY DEF StoreTypes
<1>1. saves' = [i \in 1..MaxSaves |-> [saves[i] EXCEPT !.live = @ /\ saves[i].of # b]]
  BY <1>0 DEF Orphan
<1>2. ASSUME NEW i \in 1..MaxSaves
      PROVE  /\ saves'[i] \in SaveSet /\ saves'[i].at = saves[i].at /\ saves'[i].of = saves[i].of
             /\ saves'[i].body = saves[i].body
             /\ saves[i].of # b => saves'[i].live = saves[i].live
  <2>1. saves[i] \in SaveSet
    BY <1>0
  <2>2. saves'[i] = [saves[i] EXCEPT !.live = saves[i].live /\ saves[i].of # b]
    BY <1>1
  <2>3. CASE saves[i].of = b
    BY <2>1, <2>2, <2>3 DEF SaveSet
  <2>4. CASE saves[i].of # b
    BY <2>1, <2>2, <2>4 DEF SaveSet
  <2>5. QED
    BY <2>3, <2>4
<1>3. QED
  BY <1>1, <1>2

LEMMA ShapeInit == Init => Shape
<1> SUFFICES ASSUME Init PROVE Shape
  OBVIOUS
<1>1. ShellTypes
  BY Zero, IdleTypes DEF Init, ShellTypes, TabStates, Each
<1>2. KeeperTypes
  <2>1. pending \in [Buffers -> Versions \cup {None}] /\ order \in Seq(Buffers)
    BY DEF Init, Each
  <2>2. writing \in WordSet
    BY IdleTypes DEF Init
  <2>3. writer = "look" /\ wake = FALSE /\ closed = FALSE
    BY DEF Init
  <2>4. QED
    BY <2>1, <2>2, <2>3 DEF KeeperTypes
<1>3. StoreTypes
  BY Zero, IdleTypes DEF Init, StoreTypes, Each
<1>4. RestTypes
  BY BoundsAssumption DEF Init, RestTypes, Each, Versions
<1>5. Turns
  BY DEF Init, Turns
<1>6. Phases
  BY IdleTypes DEF Init, Phases
<1>7. QED
  BY <1>1, <1>2, <1>3, <1>4, <1>5, <1>6 DEF Shape, Init, Ended

\* The steps of the writer.
LEMMA WriterShape ==
  ASSUME Shape, WriterLook \/ WriterWake \/ WriterWrite
  PROVE  Shape'
<1>0. ShellTypes /\ KeeperTypes /\ StoreTypes /\ RestTypes /\ Turns /\ Phases /\ Ended
  BY DEF Shape
<1>1. CASE WriterLook
  <2>1. UNCHANGED <<app, shell, wake, closed, disk, queries, edits, starts, ghosts>> /\ app # "down"
    BY <1>1 DEF WriterLook
  <2>2. KeeperTypes' /\ Turns' /\ (writer' = "write" => writing'.about # None)
                              /\ (writing'.about # None => writer' = "write")
    <3>1. CASE order # <<>>
      <4>1. /\ writer' = "write" /\ writing' = [about |-> Head(order), text |-> pending[Head(order)]]
            /\ pending' = [pending EXCEPT ![Head(order)] = None] /\ order' = Tail(order)
        BY <1>1, <3>1 DEF WriterLook
      <4>2. /\ Head(order) \in Buffers /\ pending[Head(order)] \in Versions
            /\ pending' \in [Buffers -> Versions \cup {None}] /\ order' \in Seq(Buffers) /\ Turns'
        BY <1>0, <3>1, <4>1, TakeFacts
      <4>3. writing' \in WordSet /\ writing'.about # None
        BY <4>1, <4>2, NoneAssumption DEF WordSet
      <4>4. QED
        BY <1>0, <2>1, <4>1, <4>2, <4>3 DEF KeeperTypes
    <3>2. CASE order = <<>>
      <4>1. writer = "look" /\ writer' \in {"done", "sleep"} /\ UNCHANGED <<writing, pending, order>>
        BY <1>1, <3>2 DEF WriterLook
      <4>2. QED
        BY <1>0, <2>1, <4>1 DEF KeeperTypes, Turns, Phases
    <3>3. QED
      BY <3>1, <3>2
  <2>3. ShellTypes' /\ StoreTypes' /\ RestTypes' /\ Ended'
    BY <1>0, <2>1 DEF ShellTypes, StoreTypes, RestTypes, Ended, shell, queries, ghosts
  <2>4. Phases'
    BY <1>0, <2>1, <2>2 DEF Phases, shell, queries
  <2>5. QED
    BY <2>2, <2>3, <2>4 DEF Shape
<1>2. CASE WriterWake
  <2>1. /\ UNCHANGED <<app, shell, pending, order, writing, closed, disk, queries, edits, starts, ghosts>>
        /\ app # "down" /\ writer = "sleep" /\ writer' = "look" /\ wake' = FALSE
    BY <1>2 DEF WriterWake
  <2>2. ShellTypes' /\ StoreTypes' /\ RestTypes' /\ Ended' /\ KeeperTypes'
    BY <1>0, <2>1 DEF ShellTypes, StoreTypes, RestTypes, Ended, KeeperTypes, shell, queries, ghosts
  <2>3. Phases' /\ Turns'
    BY <1>0, <2>1 DEF Phases, Turns, shell, queries
  <2>4. QED
    BY <2>2, <2>3 DEF Shape
<1>3. CASE WriterWrite
  <2>1. /\ UNCHANGED <<app, shell, pending, order, wake, closed, queries, edits, starts, behind, raced>>
        /\ app # "down" /\ writer' = "look" /\ writing' = Idle
    BY <1>3 DEF WriterWrite
  <2>2. writing.about \in Buffers /\ writing.text \in Versions
    BY <1>0, <1>3 DEF WriterWrite, Phases, KeeperTypes, WordSet
  <2>3. disk' \in [Buffers -> Versions] /\ failed' \in [Buffers -> BOOLEAN]
    BY <1>0, <1>3, <2>2 DEF WriterWrite, StoreTypes, RestTypes
  <2>4. ShellTypes' /\ StoreTypes' /\ RestTypes' /\ Ended' /\ KeeperTypes'
    BY <1>0, <2>1, <2>3, IdleTypes DEF ShellTypes, StoreTypes, RestTypes, Ended, KeeperTypes, shell, queries
  <2>5. Phases' /\ Turns'
    BY <1>0, <2>1, IdleTypes DEF Phases, Turns, shell, queries
  <2>6. QED
    BY <2>4, <2>5 DEF Shape
<1>4. QED
  BY <1>1, <1>2, <1>3

\* What typing does to the texts.
LEMMA EditFacts ==
  ASSUME text \in [Buffers -> Versions], edits \in Versions, NEW b \in Buffers, Edit(b)
  PROVE  /\ edits' \in Versions
         /\ \E v \in Versions : text' = [text EXCEPT ![b] = v]
         /\ text' \in [Buffers -> Versions]
<1>1. CASE /\ edits < MaxEdits /\ edits' = edits + 1
           /\ \E v \in {0, edits + 1} : text' = [text EXCEPT ![b] = v]
  <2>1. edits + 1 \in Versions /\ 0 \in Versions
    BY <1>1, BoundsAssumption DEF Versions
  <2>2. QED
    BY <1>1, <2>1
<1>2. CASE UNCHANGED <<edits, text>>
  <2>1. text' = [text EXCEPT ![b] = text[b]] /\ text[b] \in Versions
    BY <1>2
  <2>2. QED
    BY <1>2, <2>1
<1>3. QED
  BY <1>1, <1>2 DEF Edit

\* What a tab does to its own text.
LEMMA TabShape ==
  ASSUME Shape, NEW b \in Buffers,
         Type(b) \/ Elapse(b) \/ Due(b) \/ CloseTab(b) \/ Leave(b) \/ ComeBack(b) \/ ReadBack(b) \/ Reopen(b)
  PROVE  Shape'
<1>0. ShellTypes /\ KeeperTypes /\ StoreTypes /\ RestTypes /\ Turns /\ Phases /\ Ended
  BY DEF Shape
<1>u. Unsaved(b) \in Versions
  BY <1>0, UnsavedType
<1>1. CASE Type(b)
  <2>1. /\ UNCHANGED <<app, tab, back, keeper, disk, queries, starts, ghosts>>
        /\ dirty' = [dirty EXCEPT ![b] = TRUE] /\ Edit(b)
        /\ \E k \in {"no", "set", "due"} : keeping' = [keeping EXCEPT ![b] = k]
    BY <1>0, <1>1 DEF Type, ShellTypes
  <2>2. edits' \in Versions /\ text' \in [Buffers -> Versions]
    BY <1>0, <2>1, EditFacts DEF ShellTypes, RestTypes
  <2>3. ShellTypes' /\ RestTypes'
    BY <1>0, <2>1, <2>2 DEF ShellTypes, RestTypes, ghosts
  <2>4. KeeperTypes' /\ StoreTypes' /\ Turns' /\ Phases' /\ Ended'
    BY <1>0, <2>1 DEF KeeperTypes, StoreTypes, Turns, Phases, Ended, keeper, queries
  <2>5. QED
    BY <2>3, <2>4 DEF Shape
<1>2. CASE Due(b)
  <2>1. /\ UNCHANGED <<app, tab, text, dirty, back, writing, writer, closed, disk, queries,
                       edits, starts, failed, raced>>
        /\ keeping' = [keeping EXCEPT ![b] = "no"] /\ Keep(b, Unsaved(b)) /\ app = "up"
    BY <1>2 DEF Due, Up
  <2>2. /\ pending' \in [Buffers -> Versions \cup {None}] /\ order' \in Seq(Buffers)
        /\ wake' \in BOOLEAN /\ behind' \in [Buffers -> BOOLEAN] /\ Turns'
    BY <1>0, <1>u, <2>1, KeepFacts
  <2>3. ShellTypes' /\ RestTypes' /\ KeeperTypes'
    BY <1>0, <2>1, <2>2 DEF ShellTypes, RestTypes, KeeperTypes
  <2>4. StoreTypes' /\ Phases' /\ Ended'
    BY <1>0, <2>1 DEF StoreTypes, Phases, Ended, queries
  <2>5. QED
    BY <2>2, <2>3, <2>4 DEF Shape
<1>e. CASE Elapse(b)
  <2>1. /\ UNCHANGED <<app, tab, text, dirty, back, keeper, disk, queries, edits, starts, ghosts>>
        /\ keeping' = [keeping EXCEPT ![b] = "due"]
    BY <1>e DEF Elapse
  <2>2. ShellTypes' /\ RestTypes' /\ KeeperTypes' /\ StoreTypes'
    BY <1>0, <2>1 DEF ShellTypes, RestTypes, KeeperTypes, StoreTypes, keeper, queries, ghosts
  <2>3. Turns' /\ Phases' /\ Ended'
    BY <1>0, <2>1 DEF Turns, Phases, Ended, keeper, queries
  <2>4. QED
    BY <2>2, <2>3 DEF Shape
<1>3. CASE CloseTab(b)
  <2>1. /\ UNCHANGED <<app, back, writing, writer, closed, disk, query, delete,
                       edits, starts, failed, raced>>
        /\ keeping' = [keeping EXCEPT ![b] = "no"] /\ tab' = [tab EXCEPT ![b] = "closed"]
        /\ text' = [text EXCEPT ![b] = 0] /\ dirty' = [dirty EXCEPT ![b] = FALSE]
        /\ Keep(b, 0) /\ Orphan(b) /\ app = "up"
    BY <1>3 DEF CloseTab, Up
  <2>2. /\ pending' \in [Buffers -> Versions \cup {None}] /\ order' \in Seq(Buffers)
        /\ wake' \in BOOLEAN /\ behind' \in [Buffers -> BOOLEAN] /\ Turns'
    BY <1>0, Zero, <2>1, KeepFacts
  <2>3. /\ saves' \in [1..MaxSaves -> SaveSet]
        /\ \A i \in 1..MaxSaves : saves'[i].at = saves[i].at /\ saves'[i].of = saves[i].of
    BY <1>0, <2>1, OrphanFacts
  <2>4. ShellTypes'
    BY <1>0, <2>1, Zero DEF ShellTypes, TabStates
  <2>5. RestTypes' /\ KeeperTypes'
    BY <1>0, <2>1, <2>2 DEF RestTypes, KeeperTypes
  <2>6. StoreTypes' /\ Phases' /\ Ended'
    BY <1>0, <2>1, <2>3 DEF StoreTypes, Phases, Ended
  <2>7. QED
    BY <2>2, <2>4, <2>5, <2>6 DEF Shape
<1>4. CASE Leave(b)
  <2>1. /\ UNCHANGED <<app, text, dirty, back, writing, writer, closed, disk, query, delete,
                       edits, starts, failed, raced>>
        /\ keeping' = [keeping EXCEPT ![b] = "no"] /\ tab' = [tab EXCEPT ![b] = "away"]
        /\ Keep(b, Unsaved(b)) /\ Orphan(b) /\ app = "up"
    BY <1>4 DEF Leave, Up
  <2>2. /\ pending' \in [Buffers -> Versions \cup {None}] /\ order' \in Seq(Buffers)
        /\ wake' \in BOOLEAN /\ behind' \in [Buffers -> BOOLEAN] /\ Turns'
    BY <1>0, <1>u, <2>1, KeepFacts
  <2>3. /\ saves' \in [1..MaxSaves -> SaveSet]
        /\ \A i \in 1..MaxSaves : saves'[i].at = saves[i].at /\ saves'[i].of = saves[i].of
    BY <1>0, <2>1, OrphanFacts
  <2>4. ShellTypes'
    BY <1>0, <2>1 DEF ShellTypes, TabStates
  <2>5. RestTypes' /\ KeeperTypes'
    BY <1>0, <2>1, <2>2 DEF RestTypes, KeeperTypes
  <2>6. StoreTypes' /\ Phases' /\ Ended'
    BY <1>0, <2>1, <2>3 DEF StoreTypes, Phases, Ended
  <2>7. QED
    BY <2>2, <2>4, <2>5, <2>6 DEF Shape
<1>5. CASE ComeBack(b)
  <2>1. /\ UNCHANGED <<app, text, dirty, keeping, back, keeper, disk, queries, edits, starts,
                       failed, behind>>
        /\ tab' = [tab EXCEPT ![b] = "reading"] /\ app = "up"
        /\ raced' = [raced EXCEPT ![b] = raced[b] \/ Busy(b)]
    BY <1>5 DEF ComeBack
  <2>2. (raced[b] \/ Busy(b)) \in BOOLEAN
    OBVIOUS
  <2>3. ShellTypes'
    BY <1>0, <2>1 DEF ShellTypes, TabStates
  <2>4. RestTypes'
    BY <1>0, <2>1, <2>2 DEF RestTypes
  <2>5. KeeperTypes' /\ StoreTypes' /\ Turns' /\ Phases' /\ Ended'
    BY <1>0, <2>1 DEF KeeperTypes, StoreTypes, Turns, Phases, Ended, keeper, queries
  <2>6. QED
    BY <2>3, <2>4, <2>5 DEF Shape
<1>6. CASE ReadBack(b)
  <2>1. /\ UNCHANGED <<app, text, dirty, keeping, keeper, disk, queries, edits, starts, ghosts>>
        /\ tab' = [tab EXCEPT ![b] = "read"] /\ app = "up"
        /\ \E kept \in {disk[b], 0} :
             back' = [back EXCEPT ![b] = [scratch |-> kept, saved |-> query[b]]]
    BY <1>6 DEF ReadBack
  <2>2. PICK kept \in {disk[b], 0} :
          back' = [back EXCEPT ![b] = [scratch |-> kept, saved |-> query[b]]]
    BY <2>1
  <2>3. [scratch |-> kept, saved |-> query[b]] \in BackSet
    BY <1>0, Zero DEF StoreTypes, BackSet
  <2>4. back' \in [Buffers -> BackSet]
    BY <1>0, <2>2, <2>3 DEF ShellTypes
  <2>5. ShellTypes'
    BY <1>0, <2>1, <2>4 DEF ShellTypes, TabStates
  <2>6. KeeperTypes' /\ StoreTypes' /\ RestTypes' /\ Turns' /\ Phases' /\ Ended'
    BY <1>0, <2>1 DEF KeeperTypes, StoreTypes, RestTypes, Turns, Phases, Ended, keeper, queries,
                      ghosts
  <2>7. QED
    BY <2>5, <2>6 DEF Shape
<1>7. CASE Reopen(b)
  <2>1. /\ UNCHANGED <<app, keeping, keeper, disk, queries, edits, starts, failed, raced>>
        /\ app = "up" /\ back' = [back EXCEPT ![b] = Unread]
    BY <1>7 DEF Reopen
  <2>2. back[b].scratch \in Versions /\ back[b].saved \in Versions /\ back' \in [Buffers -> BackSet]
    BY <1>0, <2>1, IdleTypes DEF ShellTypes, BackSet
  <2>3. /\ tab' \in [Buffers -> TabStates] /\ text' \in [Buffers -> Versions]
        /\ dirty' \in [Buffers -> BOOLEAN] /\ behind' \in [Buffers -> BOOLEAN]
    <3>1. CASE back[b].scratch # 0
      <4>1. /\ tab' = [tab EXCEPT ![b] = "open"] /\ text' = [text EXCEPT ![b] = back[b].scratch]
            /\ dirty' = [dirty EXCEPT ![b] = TRUE]
            /\ behind' = [behind EXCEPT ![b] = back[b].scratch # LastWord(b)]
        BY <1>7, <3>1 DEF Reopen
      <4>2. tab' \in [Buffers -> TabStates]
        BY <1>0, <4>1 DEF ShellTypes, TabStates
      <4>3. text' \in [Buffers -> Versions]
        BY <1>0, <2>2, <4>1 DEF ShellTypes
      <4>4. dirty' \in [Buffers -> BOOLEAN] /\ behind' \in [Buffers -> BOOLEAN]
        BY <1>0, <4>1 DEF ShellTypes, RestTypes
      <4>5. QED
        BY <4>2, <4>3, <4>4
    <3>2. CASE back[b].scratch = 0 /\ Unsaved(b) = 0
      <4>1. /\ tab' = [tab EXCEPT ![b] = "open"] /\ text' = [text EXCEPT ![b] = back[b].saved]
            /\ dirty' = [dirty EXCEPT ![b] = FALSE] /\ UNCHANGED behind
        BY <1>7, <3>2 DEF Reopen
      <4>2. tab' \in [Buffers -> TabStates]
        BY <1>0, <4>1 DEF ShellTypes, TabStates
      <4>3. text' \in [Buffers -> Versions]
        BY <1>0, <2>2, <4>1 DEF ShellTypes
      <4>4. dirty' \in [Buffers -> BOOLEAN] /\ behind' \in [Buffers -> BOOLEAN]
        BY <1>0, <4>1 DEF ShellTypes, RestTypes
      <4>5. QED
        BY <4>2, <4>3, <4>4
    <3>3. CASE back[b].scratch = 0 /\ Unsaved(b) # 0
      BY <1>0, <1>7, <2>2, <3>3 DEF Reopen, ShellTypes, RestTypes, TabStates
    <3>4. QED
      BY <3>1, <3>2, <3>3
  <2>4. ShellTypes' /\ RestTypes'
    BY <1>0, <2>1, <2>2, <2>3 DEF ShellTypes, RestTypes
  <2>5. KeeperTypes' /\ StoreTypes' /\ Turns' /\ Phases' /\ Ended'
    BY <1>0, <2>1 DEF KeeperTypes, StoreTypes, Turns, Phases, Ended, keeper, queries
  <2>6. QED
    BY <2>4, <2>5 DEF Shape
<1>8. QED
  BY <1>1, <1>2, <1>e, <1>3, <1>4, <1>5, <1>6, <1>7

\* Saving a query and deleting one.
LEMMA QueryShape ==
  ASSUME Shape,
         \/ \E b \in Buffers : Save(b) \/ AskDelete(b) \/ Deletes(b) \/ DeleteLands(b)
         \/ \E i \in DOMAIN saves : SaveWrites(i) \/ SaveLands(i)
  PROVE  Shape'
<1>0. ShellTypes /\ KeeperTypes /\ StoreTypes /\ RestTypes /\ Turns /\ Phases /\ Ended
  BY DEF Shape
<1>d. saves \in [1..MaxSaves -> SaveSet] /\ DOMAIN saves = 1..MaxSaves
  BY <1>0 DEF StoreTypes
<1>1. ASSUME NEW b \in Buffers, Save(b) PROVE Shape'
  <2>1. /\ UNCHANGED <<app, shell, keeper, disk, query, delete, edits, starts, failed, behind>>
        /\ app = "up" /\ raced' = [raced EXCEPT ![b] = raced[b] \/ Busy(b)]
    BY <1>1 DEF Save, Up
  <2>2. PICK i \in 1..MaxSaves :
          saves' = [saves EXCEPT ![i] = [at |-> "sent", of |-> b, body |-> text[b], live |-> TRUE]]
    BY <1>1, <1>d DEF Save
  <2> DEFINE s == [at |-> "sent", of |-> b, body |-> text[b], live |-> TRUE]
  <2>3. s \in SaveSet /\ s.of = b
    BY <1>0, UnsavedType DEF SaveSet
  <2> HIDE DEF s
  <2>4. saves' = [saves EXCEPT ![i] = s]
    BY <2>2 DEF s
  <2>5. saves' \in [1..MaxSaves -> SaveSet] /\ \A j \in 1..MaxSaves : saves'[j] = IF j = i THEN s ELSE saves[j]
    BY <1>d, <2>3, <2>4
  <2>6. StoreTypes'
    BY <1>0, <2>1, <2>5 DEF StoreTypes
  <2>7. (raced[b] \/ Busy(b)) \in BOOLEAN
    OBVIOUS
  <2>8. RestTypes'
    BY <1>0, <2>1, <2>7 DEF RestTypes
  <2>9. ShellTypes' /\ KeeperTypes' /\ Turns'
    BY <1>0, <2>1 DEF ShellTypes, KeeperTypes, Turns, shell, keeper
  <2>10. Phases'
    BY <1>0, <2>1, <2>3, <2>5 DEF Phases, shell, keeper
  <2>11. Ended'
    BY <2>1 DEF Ended
  <2>12. QED
    BY <2>6, <2>8, <2>9, <2>10, <2>11 DEF Shape
<1>2. ASSUME NEW b \in Buffers, AskDelete(b) PROVE Shape'
  <2>1. /\ UNCHANGED <<app, shell, keeper, disk, query, saves, edits, starts, failed, behind>>
        /\ app = "up" /\ raced' = [raced EXCEPT ![b] = raced[b] \/ Busy(b)]
        /\ delete' = [delete EXCEPT ![b] = "asked"]
    BY <1>2 DEF AskDelete
  <2>2. (raced[b] \/ Busy(b)) \in BOOLEAN
    OBVIOUS
  <2>3. RestTypes' /\ StoreTypes'
    BY <1>0, <2>1, <2>2 DEF RestTypes, StoreTypes
  <2>4. ShellTypes' /\ KeeperTypes' /\ Turns' /\ Phases' /\ Ended'
    BY <1>0, <2>1 DEF ShellTypes, KeeperTypes, Turns, Phases, Ended, shell, keeper
  <2>5. QED
    BY <2>3, <2>4 DEF Shape
<1>3. ASSUME NEW b \in Buffers, Deletes(b) PROVE Shape'
  <2>1. /\ UNCHANGED <<app, shell, keeper, disk, saves, edits, starts, ghosts>> /\ app # "down"
        /\ \/ delete' = [delete EXCEPT ![b] = "deleted"] /\ query' = [query EXCEPT ![b] = 0]
           \/ delete' = [delete EXCEPT ![b] = "none"] /\ UNCHANGED query
    BY <1>3 DEF Deletes
  <2>2. StoreTypes'
    BY <1>0, <2>1, Zero DEF StoreTypes
  <2>3. RestTypes' /\ ShellTypes' /\ KeeperTypes' /\ Turns' /\ Phases' /\ Ended'
    BY <1>0, <2>1 DEF RestTypes, ShellTypes, KeeperTypes, Turns, Phases, Ended, shell, keeper, ghosts
  <2>4. QED
    BY <2>2, <2>3 DEF Shape
<1>4. ASSUME NEW b \in Buffers, DeleteLands(b) PROVE Shape'
  <2>1. /\ UNCHANGED <<app, tab, text, keeping, back, writing, writer, closed, disk, query, saves,
                       edits, starts, failed, raced>>
        /\ app = "up" /\ delete' = [delete EXCEPT ![b] = "none"]
    BY <1>4 DEF DeleteLands
  <2>2. /\ dirty' \in [Buffers -> BOOLEAN] /\ behind' \in [Buffers -> BOOLEAN] /\ wake' \in BOOLEAN
        /\ pending' \in [Buffers -> Versions \cup {None}] /\ order' \in Seq(Buffers) /\ Turns'
    <3>1. CASE tab[b] = "open"
      <4>1. dirty' = [dirty EXCEPT ![b] = TRUE] /\ Keep(b, text[b]) /\ text[b] \in Versions
        BY <1>0, <1>4, <3>1, UnsavedType DEF DeleteLands
      <4>2. dirty' \in [Buffers -> BOOLEAN]
        BY <1>0, <4>1 DEF ShellTypes
      <4>3. QED
        BY <1>0, <4>1, <4>2, KeepFacts
    <3>2. CASE tab[b] # "open"
      <4>1. UNCHANGED <<dirty, pending, order, wake, behind>>
        BY <1>4, <3>2 DEF DeleteLands
      <4>2. QED
        BY <1>0, <4>1 DEF ShellTypes, KeeperTypes, RestTypes, Turns
    <3>3. QED
      BY <3>1, <3>2
  <2>3. ShellTypes' /\ KeeperTypes' /\ RestTypes'
    BY <1>0, <2>1, <2>2 DEF ShellTypes, KeeperTypes, RestTypes
  <2>4. StoreTypes' /\ Phases' /\ Ended'
    BY <1>0, <2>1 DEF StoreTypes, Phases, Ended
  <2>5. QED
    BY <2>2, <2>3, <2>4 DEF Shape
<1>5. ASSUME NEW i \in 1..MaxSaves, SaveWrites(i) PROVE Shape'
  <2>1. /\ UNCHANGED <<app, shell, keeper, disk, delete, edits, starts, ghosts>>
        /\ app # "down" /\ saves[i].at = "sent" /\ saves[i].of \in Buffers
        /\ \/ saves' = [saves EXCEPT ![i].at = "stored"] /\ query' = [query EXCEPT ![saves[i].of] = saves[i].body]
           \/ saves' = [saves EXCEPT ![i].at = "refused"] /\ UNCHANGED query
    BY <1>0, <1>5 DEF SaveWrites, Phases
  <2>2. saves[i].body \in Versions
    BY <1>d DEF SaveSet
  <2>3. query' \in [Buffers -> Versions]
    BY <1>0, <2>1, <2>2 DEF StoreTypes
  <2>4. PICK at \in {"stored", "refused"} : saves' = [saves EXCEPT ![i].at = at]
    BY <2>1
  <2>5. saves' \in [1..MaxSaves -> SaveSet] /\ \A j \in 1..MaxSaves : saves'[j].of = saves[j].of
                                           /\ (saves'[j].at = saves[j].at \/ j = i)
    <3>1. [saves[i] EXCEPT !.at = at] \in SaveSet /\ [saves[i] EXCEPT !.at = at].of = saves[i].of
      BY <1>d, <2>4 DEF SaveSet
    <3>2. saves' = [saves EXCEPT ![i] = [saves[i] EXCEPT !.at = at]]
      BY <1>d, <2>4
    <3>3. QED
      BY <1>d, <3>1, <3>2
  <2>6. StoreTypes'
    BY <1>0, <2>1, <2>3, <2>5 DEF StoreTypes
  <2>7. RestTypes' /\ ShellTypes' /\ KeeperTypes' /\ Turns'
    BY <1>0, <2>1 DEF RestTypes, ShellTypes, KeeperTypes, Turns, shell, keeper, ghosts
  <2>8. Phases' /\ Ended'
    BY <1>0, <2>1, <2>5 DEF Phases, Ended, shell, keeper
  <2>9. QED
    BY <2>6, <2>7, <2>8 DEF Shape
<1>6. ASSUME NEW i \in 1..MaxSaves, SaveLands(i) PROVE Shape'
  <2> DEFINE b == saves[i].of
  <2> DEFINE still == StillDirty(b, saves[i].body)
  <2>1. /\ UNCHANGED <<app, tab, text, keeping, back, writing, writer, closed, disk, query, delete,
                       edits, starts, failed, raced>>
        /\ app = "up" /\ saves[i].at \in {"stored", "refused"} /\ b \in Buffers
        /\ saves' = [saves EXCEPT ![i] = Over]
    BY <1>0, <1>6 DEF SaveLands, Phases
  <2>2. /\ dirty' \in [Buffers -> BOOLEAN] /\ behind' \in [Buffers -> BOOLEAN] /\ wake' \in BOOLEAN
        /\ pending' \in [Buffers -> Versions \cup {None}] /\ order' \in Seq(Buffers) /\ Turns'
    <3>1. CASE saves[i].at = "stored" /\ saves[i].live
      <4>1. /\ dirty' = [dirty EXCEPT ![b] = still] /\ Keep(b, IF still THEN text[b] ELSE 0)
            /\ still \in BOOLEAN
        BY <1>6, <3>1 DEF SaveLands, StillDirty
      <4>2. dirty' \in [Buffers -> BOOLEAN]
        BY <1>0, <2>1, <4>1 DEF ShellTypes
      <4>3. (IF still THEN text[b] ELSE 0) \in Versions
        BY <1>0, <2>1, UnsavedType, Zero
      <4> HIDE DEF still
      <4>4. QED
        BY <1>0, <2>1, <4>1, <4>2, <4>3, KeepFacts
    <3>2. CASE ~(saves[i].at = "stored" /\ saves[i].live)
      <4>1. UNCHANGED <<dirty, pending, order, wake, behind>>
        BY <1>6, <3>2 DEF SaveLands
      <4>2. QED
        BY <1>0, <4>1 DEF ShellTypes, KeeperTypes, RestTypes, Turns
    <3>3. QED
      BY <3>1, <3>2
  <2>3. saves' \in [1..MaxSaves -> SaveSet] /\ \A j \in 1..MaxSaves : saves'[j] = IF j = i THEN Over ELSE saves[j]
    BY <1>d, <2>1, IdleTypes
  <2>4. ShellTypes' /\ KeeperTypes' /\ RestTypes'
    BY <1>0, <2>1, <2>2 DEF ShellTypes, KeeperTypes, RestTypes
  <2>5. StoreTypes' /\ Phases' /\ Ended'
    BY <1>0, <2>1, <2>3, IdleTypes DEF StoreTypes, Phases, Ended
  <2>6. QED
    BY <2>2, <2>4, <2>5 DEF Shape
<1>7. QED
  BY <1>1, <1>2, <1>3, <1>4, <1>5, <1>6, <1>d

\* The application ends and starts.
LEMMA AppShape ==
  ASSUME Shape, Quit \/ QuitWriter \/ End \/ Start \/ \E b \in Buffers : QuitTab(b)
  PROVE  Shape'
<1>0. ShellTypes /\ KeeperTypes /\ StoreTypes /\ RestTypes /\ Turns /\ Phases /\ Ended
  BY DEF Shape
<1>d. saves \in [1..MaxSaves -> SaveSet] /\ DOMAIN saves = 1..MaxSaves
  BY <1>0 DEF StoreTypes
<1>1. CASE Quit
  <2>1. UNCHANGED <<shell, keeper, disk, queries, edits, starts, ghosts>> /\ app = "up" /\ app' = "quitting"
    BY <1>1 DEF Quit
  <2>2. ShellTypes' /\ KeeperTypes' /\ StoreTypes' /\ RestTypes' /\ Turns'
    BY <1>0, <2>1 DEF ShellTypes, KeeperTypes, StoreTypes, RestTypes, Turns, shell, keeper, queries, ghosts
  <2>3. Phases' /\ Ended'
    BY <1>0, <2>1 DEF Phases, Ended, shell, keeper, queries
  <2>4. QED
    BY <2>2, <2>3 DEF Shape
<1>2. CASE QuitWriter
  <2>1. /\ UNCHANGED <<app, shell, pending, order, writing, writer, disk, queries, edits, starts, ghosts>>
        /\ app = "quitting" /\ closed' = TRUE /\ wake' = TRUE
        /\ \A b \in Buffers : tab[b] # "open"
    BY <1>2 DEF QuitWriter
  <2>2. ShellTypes' /\ KeeperTypes' /\ StoreTypes' /\ RestTypes' /\ Turns'
    BY <1>0, <2>1 DEF ShellTypes, KeeperTypes, StoreTypes, RestTypes, Turns, shell, queries, ghosts
  <2>3. Phases' /\ Ended'
    BY <1>0, <2>1 DEF Phases, Ended, shell, queries
  <2>4. QED
    BY <2>2, <2>3 DEF Shape
<1>3. CASE End
  <2>1. /\ UNCHANGED <<tab, query, edits>> /\ app' = "down" /\ starts < MaxStarts /\ starts' = starts + 1
        /\ pending' = Each(None) /\ order' = <<>> /\ writing' = Idle
        /\ writer' = "look" /\ wake' = FALSE /\ closed' = FALSE
        /\ saves' = [i \in DOMAIN saves |-> IF saves[i] = NoSave THEN NoSave ELSE Over]
        /\ delete' = Each("none") /\ keeping' = Each("no")
        /\ text' = Each(0) /\ dirty' = Each(FALSE) /\ back' = Each(Unread)
        /\ failed' = Each(FALSE) /\ behind' = Each(FALSE) /\ raced' = Each(FALSE)
    BY <1>3 DEF End
  <2>2. disk' \in [Buffers -> Versions]
    <3>1. CASE UNCHANGED disk
      BY <1>0, <3>1 DEF StoreTypes
    <3>2. CASE writer = "write" /\ disk' = [disk EXCEPT ![writing.about] = writing.text]
      <4>1. writing.text \in Versions
        BY <1>0 DEF KeeperTypes, WordSet
      <4>2. QED
        BY <1>0, <3>2, <4>1 DEF StoreTypes
    <3>3. QED
      BY <1>3, <3>1, <3>2 DEF End
  <2>3. /\ saves' \in [1..MaxSaves -> SaveSet]
        /\ \A i \in 1..MaxSaves : saves'[i].of = None /\ saves'[i].at \in {"none", "over"}
    BY <1>d, <2>1, IdleTypes
  <2>4. ShellTypes'
    BY <1>0, <2>1, Zero, IdleTypes DEF ShellTypes, Each
  <2>5. pending' \in [Buffers -> Versions \cup {None}] /\ order' \in Seq(Buffers) /\ writing' \in WordSet
    BY <2>1, IdleTypes DEF Each
  <2>6. KeeperTypes'
    BY <2>1, <2>5 DEF KeeperTypes
  <2>7. StoreTypes'
    BY <1>0, <2>1, <2>2, <2>3 DEF StoreTypes, Each
  <2>8. starts' \in 0..MaxStarts
    BY <1>0, <2>1, BoundsAssumption DEF RestTypes
  <2>9. RestTypes'
    BY <1>0, <2>1, <2>8 DEF RestTypes, Each
  <2>10. Turns' /\ Phases'
    BY <2>1, <2>3, IdleTypes DEF Turns, Phases
  <2>11. Ended'
    BY <2>1, <2>3 DEF Ended, Each
  <2>12. QED
    BY <2>4, <2>6, <2>7, <2>9, <2>10, <2>11 DEF Shape
<1>4. CASE Start
  <2>1. /\ UNCHANGED <<keeping, back, keeper, disk, queries, edits, starts, ghosts>>
        /\ app = "down" /\ app' = "up"
        /\ text' = [b \in Buffers |-> IF disk[b] # 0 THEN disk[b] ELSE query[b]]
        /\ dirty' = [b \in Buffers |-> disk[b] # 0]
    BY <1>4 DEF Start
  <2>2. tab' \in [Buffers -> TabStates]
    BY <1>4 DEF Start, TabStates
  <2>3. text' \in [Buffers -> Versions] /\ dirty' \in [Buffers -> BOOLEAN]
    BY <1>0, <2>1 DEF StoreTypes
  <2>4. ShellTypes'
    BY <1>0, <2>1, <2>2, <2>3 DEF ShellTypes
  <2>5. KeeperTypes' /\ StoreTypes' /\ RestTypes' /\ Turns'
    BY <1>0, <2>1 DEF KeeperTypes, StoreTypes, RestTypes, Turns, keeper, queries, ghosts
  <2>6. Phases' /\ Ended'
    BY <1>0, <2>1 DEF Phases, Ended, keeper, queries
  <2>7. QED
    BY <2>4, <2>5, <2>6 DEF Shape
<1>5. ASSUME NEW b \in Buffers, QuitTab(b) PROVE Shape'
  <2>1. /\ UNCHANGED <<app, text, dirty, back, writing, writer, closed, disk, query, delete,
                       edits, starts, failed, raced>>
        /\ keeping' = [keeping EXCEPT ![b] = "no"] /\ tab' = [tab EXCEPT ![b] = "left"]
        /\ Keep(b, Unsaved(b)) /\ Orphan(b) /\ app = "quitting"
    BY <1>5 DEF QuitTab
  <2>2. /\ pending' \in [Buffers -> Versions \cup {None}] /\ order' \in Seq(Buffers)
        /\ wake' \in BOOLEAN /\ behind' \in [Buffers -> BOOLEAN] /\ Turns'
    BY <1>0, <2>1, KeepFacts, UnsavedType
  <2>3. /\ saves' \in [1..MaxSaves -> SaveSet]
        /\ \A i \in 1..MaxSaves : saves'[i].at = saves[i].at /\ saves'[i].of = saves[i].of
    BY <1>0, <2>1, OrphanFacts
  <2>4. ShellTypes'
    BY <1>0, <2>1 DEF ShellTypes, TabStates
  <2>5. RestTypes' /\ KeeperTypes'
    BY <1>0, <2>1, <2>2 DEF RestTypes, KeeperTypes
  <2>6. StoreTypes' /\ Ended'
    BY <1>0, <2>1, <2>3 DEF StoreTypes, Ended
  <2>7. Phases'
    BY <1>0, <2>1, <2>3 DEF Phases, ShellTypes
  <2>8. QED
    BY <2>2, <2>4, <2>5, <2>6, <2>7 DEF Shape
<1>6. QED
  BY <1>1, <1>2, <1>3, <1>4, <1>5

LEMMA ShapeStep == Shape /\ [Next]_vars => Shape'
<1> SUFFICES ASSUME Shape, [Next]_vars PROVE Shape'
  OBVIOUS
<1>1. CASE UNCHANGED vars
  <2>1. UNCHANGED <<app, shell, keeper, disk, queries, edits, starts, ghosts>>
    BY <1>1 DEF vars
  <2>2. ShellTypes' /\ RestTypes'
    BY <2>1 DEF Shape, ShellTypes, RestTypes, shell, ghosts
  <2>3. KeeperTypes' /\ StoreTypes'
    BY <2>1 DEF Shape, KeeperTypes, StoreTypes, keeper, queries
  <2>4. Turns' /\ Phases' /\ Ended'
    BY <2>1 DEF Shape, Turns, Phases, Ended, keeper, shell, queries
  <2>5. QED
    BY <2>2, <2>3, <2>4 DEF Shape
<1>2. CASE Next
  BY <1>2, WriterShape, TabShape, QueryShape, AppShape DEF Next
<1>3. QED
  BY <1>1, <1>2

\* The variables keep their types, whatever is typed, saved, written and lost in whatever
\* order, for any number of tabs, saves and starts.
THEOREM TypeCorrect == Spec => []TypeOK
<1>1. Spec => []Shape
  BY ShapeInit, ShapeStep, PTL DEF Spec
<1>2. QED
  BY <1>1, ShapeTypes, PTL

-----------------------------------------------------------------------------
(***************************************************************************)
(* The store has the last word                                             *)
(***************************************************************************)
\* The word that waits is the last one; else the one being written is; else it was
\* written, unless that failed.
Words(b) ==
  (app # "down" /\ keeping[b] = "no" /\ ~behind[b]) =>
    /\ pending[b] # None => pending[b] = Unsaved(b)
    /\ pending[b] = None /\ writing.about = b => writing.text = Unsaved(b)
    /\ Settled(b) /\ ~failed[b] => disk[b] = Unsaved(b)

\* Nothing about a buffer has changed.
Untouched(b) ==
  /\ pending'[b] = pending[b] /\ keeping'[b] = keeping[b] /\ behind'[b] = behind[b]
  /\ text'[b] = text[b] /\ dirty'[b] = dirty[b]

LEMMA UntouchedWords ==
  ASSUME NEW b \in Buffers, Words(b), Untouched(b), app # "down",
         UNCHANGED <<writing, disk, failed>>
  PROVE  Words(b)'
  BY DEF Words, Untouched, Settled, Unsaved

LEMMA QueuedWords ==
  ASSUME NEW b \in Buffers, NEW word \in Versions, pending'[b] = word, Unsaved(b)' = word
  PROVE  Words(b)'
  BY Zero DEF Words, Settled

LEMMA WordsInit == Init => \A b \in Buffers : Words(b)
<1> SUFFICES ASSUME Init, NEW b \in Buffers PROVE Words(b)
  OBVIOUS
<1>1. pending[b] = None /\ writing.about # b /\ disk[b] = 0 /\ dirty[b] = FALSE
  BY IdleTypes, NoneAssumption DEF Init, Each
<1>2. QED
  BY <1>1 DEF Words, Unsaved

LEMMA WriterWords ==
  ASSUME Shape, \A b \in Buffers : Words(b), WriterLook \/ WriterWake \/ WriterWrite,
         NEW c \in Buffers
  PROVE  Words(c)'
<1>0. ShellTypes /\ KeeperTypes /\ StoreTypes /\ RestTypes /\ Turns /\ Phases
  BY DEF Shape
<1>1. CASE WriterLook
  <2>1. /\ UNCHANGED <<app, text, dirty, keeping, disk, failed, behind>> /\ app # "down"
        /\ writer = "look"
    BY <1>1 DEF WriterLook, shell, ghosts
  <2>2. CASE order = <<>>
    <3>1. UNCHANGED <<writing, pending>>
      BY <1>1, <2>2 DEF WriterLook
    <3>2. QED
      BY <2>1, <3>1, UntouchedWords DEF Untouched
  <2>3. CASE order # <<>>
    <3>1. /\ writing' = [about |-> Head(order), text |-> pending[Head(order)]]
          /\ pending' = [pending EXCEPT ![Head(order)] = None] /\ order' = Tail(order)
      BY <1>1, <2>3 DEF WriterLook
    <3>2. /\ pending[Head(order)] \in Versions /\ pending'[Head(order)] = None
          /\ \A b \in Buffers : b # Head(order) => pending'[b] = pending[b]
      BY <1>0, <2>3, <3>1, TakeFacts
    <3>3. writing.about # c /\ writing'.about = Head(order) /\ writing'.text = pending[Head(order)]
      BY <1>0, <2>1, <3>1, NoneAssumption DEF Phases
    <3>4. QED
      BY <2>1, <3>2, <3>3, Zero DEF Words, Settled, Unsaved
  <2>4. QED
    BY <2>2, <2>3
<1>2. CASE WriterWake
  BY <1>2, UntouchedWords DEF WriterWake, shell, ghosts, Untouched
<1>3. CASE WriterWrite
  <2>1. /\ UNCHANGED <<app, text, dirty, keeping, pending, behind>> /\ app # "down"
        /\ writing' = Idle
    BY <1>3 DEF WriterWrite, shell
  <2>2. PICK done, said \in BOOLEAN :
          /\ said => done
          /\ disk' = IF done THEN [disk EXCEPT ![writing.about] = writing.text] ELSE disk
          /\ failed' = [failed EXCEPT ![writing.about] = ~said]
    BY <1>3 DEF WriterWrite
  <2>3. writing'.about # c
    BY <2>1, IdleTypes, NoneAssumption
  <2>4. CASE writing.about = c
    <3>1. ~failed'[c] => disk'[c] = writing.text
      BY <1>0, <2>2, <2>4 DEF RestTypes, StoreTypes
    <3>2. QED
      BY <2>1, <2>3, <2>4, <3>1 DEF Words, Settled, Unsaved
  <2>5. CASE writing.about # c
    <3>1. failed'[c] = failed[c] /\ disk'[c] = disk[c]
      BY <1>0, <2>2, <2>5 DEF RestTypes, StoreTypes
    <3>2. QED
      BY <2>1, <2>3, <2>5, <3>1 DEF Words, Settled, Unsaved
  <2>6. QED
    BY <2>4, <2>5
<1>4. QED
  BY <1>1, <1>2, <1>3

\* A tab that says a word and changes nothing but its own text.
LEMMA SayWord ==
  ASSUME Shape, \A b \in Buffers : Words(b), app # "down", ~closed,
         NEW b \in Buffers, NEW word \in Versions, Keep(b, word),
         UNCHANGED <<writing, disk, failed>>, Unsaved(b)' = word,
         \A c \in Buffers : c # b =>
           keeping'[c] = keeping[c] /\ text'[c] = text[c] /\ dirty'[c] = dirty[c]
  PROVE  \A c \in Buffers : Words(c)'
<1>1. /\ \A c \in Buffers : c # b => pending'[c] = pending[c] /\ behind'[c] = behind[c]
      /\ pending'[b] = word
  BY KeepFacts DEF Shape
<1>2. Words(b)'
  BY <1>1, QueuedWords
<1>3. \A c \in Buffers : c # b => Words(c)'
  BY <1>1, UntouchedWords DEF Untouched
<1>4. QED
  BY <1>2, <1>3

LEMMA TabWords ==
  ASSUME Shape, \A b \in Buffers : Words(b), NEW b \in Buffers,
         \/ Type(b) \/ Elapse(b) \/ Due(b) \/ CloseTab(b) \/ Leave(b) \/ ComeBack(b) \/ ReadBack(b)
         \/ Reopen(b) \/ QuitTab(b)
  PROVE  \A c \in Buffers : Words(c)'
<1>0. ShellTypes /\ KeeperTypes /\ StoreTypes /\ RestTypes /\ Turns /\ Phases
  BY DEF Shape
<1>u. Unsaved(b) \in Versions
  BY <1>0, UnsavedType
<1>c. app = "up" => ~closed
  BY <1>0 DEF Phases
<1>1. CASE Type(b)
  <2>1. /\ UNCHANGED <<pending, writing, disk, failed, behind>> /\ app = "up"
        /\ dirty' = [dirty EXCEPT ![b] = TRUE] /\ Edit(b)
        /\ \E k \in {"set", "due"} : keeping' = [keeping EXCEPT ![b] = k]
    BY <1>0, <1>1 DEF Type, Up, keeper, ghosts, ShellTypes
  <2>t. \E v \in Versions : text' = [text EXCEPT ![b] = v]
    BY <1>0, <2>1, EditFacts DEF ShellTypes, RestTypes
  <2>2. keeping'[b] # "no" /\ \A c \in Buffers : c # b => Untouched(c)
    BY <1>0, <2>1, <2>t DEF ShellTypes, Untouched
  <2>3. Words(b)'
    BY <2>2 DEF Words
  <2>4. \A c \in Buffers : c # b => Words(c)'
    BY <2>1, <2>2, UntouchedWords
  <2>5. QED
    BY <2>3, <2>4
<1>2. CASE Due(b)
  <2>1. /\ UNCHANGED <<text, dirty, writing, disk, failed>> /\ Keep(b, Unsaved(b)) /\ app = "up"
        /\ keeping' = [keeping EXCEPT ![b] = "no"]
    BY <1>2 DEF Due, Up
  <2>2. Unsaved(b)' = Unsaved(b) /\ \A c \in Buffers : c # b => keeping'[c] = keeping[c]
    BY <1>0, <2>1 DEF Unsaved, ShellTypes
  <2>3. QED
    BY <1>c, <1>u, <2>1, <2>2, SayWord
<1>e. CASE Elapse(b)
  <2>1. /\ UNCHANGED <<app, text, dirty, pending, writing, disk, failed, behind>> /\ app # "down"
        /\ keeping[b] = "set" /\ keeping' = [keeping EXCEPT ![b] = "due"]
    BY <1>e DEF Elapse, keeper, ghosts
  <2>2. keeping'[b] = "due" /\ \A c \in Buffers : c # b => Untouched(c)
    BY <1>0, <2>1 DEF ShellTypes, Untouched
  <2>3. Words(b)'
    BY <2>2 DEF Words
  <2>4. \A c \in Buffers : c # b => Words(c)'
    BY <2>1, <2>2, UntouchedWords
  <2>5. QED
    BY <2>3, <2>4
<1>3. CASE CloseTab(b)
  <2>1. /\ UNCHANGED <<writing, disk, failed>> /\ Keep(b, 0) /\ app = "up"
        /\ text' = [text EXCEPT ![b] = 0] /\ dirty' = [dirty EXCEPT ![b] = FALSE]
        /\ keeping' = [keeping EXCEPT ![b] = "no"]
    BY <1>3 DEF CloseTab, Up
  <2>2. /\ Unsaved(b)' = 0
        /\ \A c \in Buffers : c # b =>
             keeping'[c] = keeping[c] /\ text'[c] = text[c] /\ dirty'[c] = dirty[c]
    BY <1>0, <2>1 DEF Unsaved, ShellTypes
  <2>3. QED
    BY <1>c, Zero, <2>1, <2>2, SayWord
<1>4. CASE Leave(b)
  <2>1. /\ UNCHANGED <<text, dirty, writing, disk, failed>> /\ Keep(b, Unsaved(b)) /\ app = "up"
        /\ keeping' = [keeping EXCEPT ![b] = "no"]
    BY <1>4 DEF Leave, Up
  <2>2. Unsaved(b)' = Unsaved(b) /\ \A c \in Buffers : c # b => keeping'[c] = keeping[c]
    BY <1>0, <2>1 DEF Unsaved, ShellTypes
  <2>3. QED
    BY <1>c, <1>u, <2>1, <2>2, SayWord
<1>5. CASE ComeBack(b) \/ ReadBack(b)
  <2>1. UNCHANGED <<pending, writing, disk, failed, behind, keeping, text, dirty>> /\ app = "up"
    BY <1>5 DEF ComeBack, ReadBack, keeper, ghosts
  <2>2. QED
    BY <2>1, UntouchedWords DEF Untouched
<1>6. CASE Reopen(b)
  <2>1. UNCHANGED <<app, pending, writing, disk, failed, keeping>> /\ app = "up"
    BY <1>6 DEF Reopen, keeper
  <2>2. CASE back[b].scratch # 0
    <3> DEFINE word == back[b].scratch
    <3>1. /\ text' = [text EXCEPT ![b] = word] /\ dirty' = [dirty EXCEPT ![b] = TRUE]
          /\ behind' = [behind EXCEPT ![b] = word # LastWord(b)]
      BY <1>6, <2>2 DEF Reopen
    <3>2. \A c \in Buffers : c # b => Untouched(c)
      BY <1>0, <2>1, <3>1 DEF ShellTypes, RestTypes, Untouched
    <3>3. Unsaved(b)' = word
      BY <1>0, <3>1 DEF Unsaved, ShellTypes
    <3>4. ~behind'[b] => word = LastWord(b)
      BY <1>0, <3>1 DEF RestTypes
    <3> HIDE DEF word
    <3>5. Words(b)'
      BY <2>1, <3>3, <3>4 DEF Words, Settled, LastWord
    <3>6. QED
      BY <2>1, <3>2, <3>5, UntouchedWords
  <2>3. CASE back[b].scratch = 0 /\ Unsaved(b) = 0
    <3>1. /\ text' = [text EXCEPT ![b] = back[b].saved] /\ dirty' = [dirty EXCEPT ![b] = FALSE]
          /\ UNCHANGED behind
      BY <1>6, <2>3 DEF Reopen
    <3>2. \A c \in Buffers : c # b => Untouched(c)
      BY <1>0, <2>1, <3>1 DEF ShellTypes, Untouched
    <3>3. Unsaved(b)' = Unsaved(b)
      BY <1>0, <2>3, <3>1 DEF Unsaved, ShellTypes
    <3>4. Words(b)'
      BY <2>1, <3>1, <3>3 DEF Words, Settled
    <3>5. QED
      BY <2>1, <3>2, <3>4, UntouchedWords
  <2>4. CASE back[b].scratch = 0 /\ Unsaved(b) # 0
    <3>1. UNCHANGED <<text, dirty, behind>>
      BY <1>6, <2>4 DEF Reopen
    <3>2. QED
      BY <2>1, <3>1, UntouchedWords DEF Untouched
  <2>5. QED
    BY <2>2, <2>3, <2>4
<1>7. CASE QuitTab(b)
  <2>1. /\ UNCHANGED <<text, dirty, writing, disk, failed>> /\ Keep(b, Unsaved(b)) /\ app = "quitting"
        /\ keeping' = [keeping EXCEPT ![b] = "no"] /\ tab[b] = "open"
    BY <1>7 DEF QuitTab
  <2>2. Unsaved(b)' = Unsaved(b) /\ \A c \in Buffers : c # b => keeping'[c] = keeping[c]
    BY <1>0, <2>1 DEF Unsaved, ShellTypes
  <2>3. ~closed
    BY <1>0, <2>1 DEF Phases
  <2>4. QED
    BY <1>u, <2>1, <2>2, <2>3, SayWord
<1>8. QED
  BY <1>1, <1>2, <1>e, <1>3, <1>4, <1>5, <1>6, <1>7

LEMMA QueryWords ==
  ASSUME Shape, \A b \in Buffers : Words(b),
         \/ \E b \in Buffers : Save(b) \/ AskDelete(b) \/ Deletes(b) \/ DeleteLands(b)
         \/ \E i \in DOMAIN saves : SaveWrites(i) \/ SaveLands(i)
  PROVE  \A c \in Buffers : Words(c)'
<1>0. ShellTypes /\ KeeperTypes /\ StoreTypes /\ RestTypes /\ Turns /\ Phases
  BY DEF Shape
<1>d. DOMAIN saves = 1..MaxSaves
  BY <1>0 DEF StoreTypes
<1>c. app = "up" => ~closed
  BY <1>0 DEF Phases
<1>1. ASSUME \/ \E b \in Buffers : Save(b) \/ AskDelete(b) \/ Deletes(b)
             \/ \E i \in DOMAIN saves : SaveWrites(i)
      PROVE  \A c \in Buffers : Words(c)'
  <2>1. UNCHANGED <<pending, writing, disk, failed, behind, keeping, text, dirty>> /\ app # "down"
    BY <1>1 DEF Save, AskDelete, Deletes, SaveWrites, keeper, shell, ghosts, Up
  <2>2. QED
    BY <2>1, UntouchedWords DEF Untouched
<1>2. ASSUME NEW b \in Buffers, DeleteLands(b) PROVE \A c \in Buffers : Words(c)'
  <2>1. UNCHANGED <<writing, disk, failed, keeping, text>> /\ app = "up"
    BY <1>2 DEF DeleteLands
  <2>2. CASE tab[b] = "open"
    <3>1. dirty' = [dirty EXCEPT ![b] = TRUE] /\ Keep(b, text[b]) /\ text[b] \in Versions
      BY <1>0, <1>2, <2>2, UnsavedType DEF DeleteLands
    <3>2. Unsaved(b)' = text[b] /\ \A c \in Buffers : c # b => dirty'[c] = dirty[c]
      BY <1>0, <2>1, <3>1 DEF Unsaved, ShellTypes
    <3>3. QED
      BY <1>c, <2>1, <3>1, <3>2, SayWord
  <2>3. CASE tab[b] # "open"
    <3>1. UNCHANGED <<dirty, pending, behind>>
      BY <1>2, <2>3 DEF DeleteLands
    <3>2. QED
      BY <2>1, <3>1, UntouchedWords DEF Untouched
  <2>4. QED
    BY <2>2, <2>3
<1>3. ASSUME NEW i \in 1..MaxSaves, SaveLands(i) PROVE \A c \in Buffers : Words(c)'
  <2>1. UNCHANGED <<writing, disk, failed, keeping, text>> /\ app = "up" /\ saves[i].of \in Buffers
    BY <1>0, <1>3 DEF SaveLands, Phases
  <2>2. PICK b \in Buffers : b = saves[i].of
    BY <2>1
  <2>3. PICK still \in BOOLEAN : still = StillDirty(b, saves[i].body)
    BY DEF StillDirty
  <2>4. PICK word \in Versions : word = IF still THEN text[b] ELSE 0
    BY <1>0, UnsavedType, Zero
  <2>5. CASE saves[i].at = "stored" /\ saves[i].live
    <3>1. dirty' = [dirty EXCEPT ![b] = still] /\ Keep(b, word)
      BY <1>3, <2>2, <2>3, <2>4, <2>5 DEF SaveLands
    <3>2. dirty'[b] = still /\ \A c \in Buffers : c # b => dirty'[c] = dirty[c]
      BY <1>0, <3>1 DEF ShellTypes
    <3>3. Unsaved(b)' = word
      BY <2>1, <2>4, <3>2 DEF Unsaved
    <3>4. QED
      BY <1>c, <2>1, <3>1, <3>2, <3>3, SayWord
  <2>6. CASE ~(saves[i].at = "stored" /\ saves[i].live)
    <3>1. UNCHANGED <<dirty, pending, behind>>
      BY <1>3, <2>6 DEF SaveLands
    <3>2. QED
      BY <2>1, <3>1, UntouchedWords DEF Untouched
  <2>7. QED
    BY <2>5, <2>6
<1>4. QED
  BY <1>1, <1>2, <1>3, <1>d

LEMMA AppWords ==
  ASSUME Shape, \A b \in Buffers : Words(b), Quit \/ QuitWriter \/ End \/ Start, NEW c \in Buffers
  PROVE  Words(c)'
<1>1. CASE Quit \/ QuitWriter
  <2>1. UNCHANGED <<pending, writing, disk, failed, behind, keeping, text, dirty>> /\ app # "down"
    BY <1>1 DEF Quit, QuitWriter, shell, keeper, ghosts
  <2>2. QED
    BY <2>1, UntouchedWords DEF Untouched
<1>2. CASE End
  BY <1>2 DEF End, Words
<1>3. CASE Start
  <2>1. /\ UNCHANGED <<pending, writing, disk>> /\ app = "down"
        /\ text'[c] = (IF disk[c] # 0 THEN disk[c] ELSE query[c]) /\ dirty'[c] = (disk[c] # 0)
    BY <1>3 DEF Start, keeper
  <2>2. pending[c] = None /\ writing.about # c
    BY <2>1, IdleTypes, NoneAssumption DEF Shape, Ended
  <2>3. Unsaved(c)' = disk[c]
    BY <2>1 DEF Unsaved
  <2>4. QED
    BY <2>1, <2>2, <2>3 DEF Words
<1>4. QED
  BY <1>1, <1>2, <1>3

LEMMA WordsStep ==
  Shape /\ (\A b \in Buffers : Words(b)) /\ [Next]_vars => \A b \in Buffers : Words(b)'
<1> SUFFICES ASSUME Shape, \A b \in Buffers : Words(b), [Next]_vars
             PROVE  \A b \in Buffers : Words(b)'
  OBVIOUS
<1>1. CASE UNCHANGED vars
  <2>1. UNCHANGED <<app, pending, writing, disk, failed, behind, keeping, text, dirty>>
    BY <1>1 DEF vars, shell, keeper, ghosts
  <2>2. QED
    BY <2>1 DEF Words, Settled, Unsaved
<1>2. CASE Next
  BY <1>2, WriterWords, TabWords, QueryWords, AppWords DEF Next
<1>3. QED
  BY <1>1, <1>2

\* Once its last word is written, the store holds the text of a tab that is saved nowhere
\* else, and none of one that was closed on purpose, saved or emptied, for any number of
\* tabs that take turns with the writer and any number of words.
THEOREM DiskHasLastWord == Spec => []DiskIsUpToDate
<1> DEFINE All == \A b \in Buffers : Words(b)
<1>1. Init => Shape /\ All
  BY ShapeInit, WordsInit
<1>2. Shape /\ All /\ [Next]_vars => Shape' /\ All'
  BY ShapeStep, WordsStep
<1>3. Shape /\ All => DiskIsUpToDate
  BY DEF DiskIsUpToDate, Words
<1> HIDE DEF All
<1>4. QED
  BY <1>1, <1>2, <1>3, PTL DEF Spec

-----------------------------------------------------------------------------
(***************************************************************************)
(* A tab without a mark is stored                                          *)
(***************************************************************************)
\* A save of a buffer under way.
Saving(i, b) == saves[i].of = b /\ saves[i].at # "over"

\* Of a buffer whose saves, deletes and returns did not overlap: one of them at most is
\* under way; a save that was stored is the query's text, and that of the tab too unless
\* the tab is marked; a tab that comes back was read as the query is.
Marks(b) ==
  (app = "up" /\ ~raced[b]) =>
    /\ delete[b] # "none" => tab[b] \notin {"reading", "read"}
    /\ \A i \in 1..MaxSaves : Saving(i, b) =>
         /\ delete[b] = "none" /\ tab[b] \notin {"reading", "read"}
         /\ \A j \in 1..MaxSaves : Saving(j, b) => i = j
         /\ saves[i].at = "stored" => query[b] = saves[i].body
         /\ tab[b] = "open" /\ ~dirty[b] => text[b] = saves[i].body
    /\ tab[b] = "read" => back[b].saved = query[b]
    /\ (tab[b] = "open" /\ ~dirty[b] /\ delete[b] # "deleted") => query[b] = text[b]

\* The saves of a buffer are where they were.
SameSaves(b) ==
  \A i \in 1..MaxSaves :
    saves[i].of = b \/ saves'[i].of = b =>
      /\ saves'[i].of = saves[i].of /\ saves'[i].at = saves[i].at
      /\ saves'[i].body = saves[i].body

SameTab(b) ==
  /\ tab'[b] = tab[b] /\ text'[b] = text[b] /\ dirty'[b] = dirty[b] /\ back'[b] = back[b]

SameQuery(b) == delete'[b] = delete[b] /\ query'[b] = query[b]

LEMMA SameMarks ==
  ASSUME NEW b \in Buffers, Marks(b), app = "up", SameSaves(b), SameTab(b), SameQuery(b),
         raced'[b] = raced[b]
  PROVE  Marks(b)'
<1>1. \A i \in 1..MaxSaves : Saving(i, b)' =>
        /\ Saving(i, b) /\ saves'[i].at = saves[i].at /\ saves'[i].body = saves[i].body
  BY DEF SameSaves, Saving
<1>2. QED
  BY <1>1 DEF Marks, SameTab, SameQuery

LEMMA MarksInit == Init => \A b \in Buffers : Marks(b)
<1> SUFFICES ASSUME Init, NEW b \in Buffers PROVE Marks(b)
  OBVIOUS
<1>1. /\ \A i \in 1..MaxSaves : saves[i].of # b
      /\ query[b] = 0 /\ text[b] = 0 /\ delete[b] = "none" /\ tab[b] = "open"
  BY IdleTypes, NoneAssumption DEF Init, Each
<1>2. QED
  BY <1>1 DEF Marks, Saving

LEMMA TabMarks ==
  ASSUME Shape, \A b \in Buffers : Marks(b), NEW b \in Buffers, app = "up",
         \/ Type(b) \/ Elapse(b) \/ Due(b) \/ CloseTab(b) \/ Leave(b) \/ ComeBack(b) \/ ReadBack(b)
         \/ Reopen(b)
  PROVE  \A c \in Buffers : Marks(c)'
<1>0. ShellTypes /\ KeeperTypes /\ StoreTypes /\ RestTypes /\ Turns /\ Phases
  BY DEF Shape
<1>1. CASE Type(b)
  <2>1. /\ UNCHANGED <<tab, back, saves, delete, query, raced>> /\ tab[b] = "open"
        /\ dirty' = [dirty EXCEPT ![b] = TRUE] /\ Edit(b)
    BY <1>1 DEF Type, Up, ghosts, queries
  <2>t. \E v \in Versions : text' = [text EXCEPT ![b] = v]
    BY <1>0, <2>1, EditFacts DEF ShellTypes, RestTypes
  <2>2. dirty'[b] = TRUE /\ \A c \in Buffers : c # b => SameTab(c)
    BY <1>0, <2>1, <2>t DEF ShellTypes, SameTab
  <2>3. \A c \in Buffers : SameSaves(c) /\ SameQuery(c)
    BY <2>1 DEF SameSaves, SameQuery
  <2>4. Marks(b)'
    BY <2>1, <2>2, <2>3 DEF Marks, Saving, SameQuery
  <2>5. \A c \in Buffers : c # b => Marks(c)'
    BY <2>1, <2>2, <2>3, SameMarks
  <2>6. QED
    BY <2>4, <2>5
<1>2. CASE Elapse(b) \/ Due(b)
  <2>1. UNCHANGED <<tab, text, dirty, back, saves, delete, query, raced>>
    BY <1>2 DEF Elapse, Due, queries, ghosts
  <2>2. QED
    BY <2>1, SameMarks DEF SameSaves, SameQuery, SameTab
<1>3. CASE CloseTab(b) \/ Leave(b)
  <2>1. /\ UNCHANGED <<back, delete, query, raced>> /\ Orphan(b)
        /\ \E at \in {"closed", "away"} : tab' = [tab EXCEPT ![b] = at]
        /\ \/ UNCHANGED <<text, dirty>>
           \/ text' = [text EXCEPT ![b] = 0] /\ dirty' = [dirty EXCEPT ![b] = FALSE]
    BY <1>3 DEF CloseTab, Leave
  <2>2. tab'[b] \in {"closed", "away"} /\ \A c \in Buffers : c # b => SameTab(c)
    BY <1>0, <2>1 DEF ShellTypes, SameTab
  <2>3. \A i \in 1..MaxSaves : /\ saves'[i].at = saves[i].at /\ saves'[i].of = saves[i].of
                               /\ saves'[i].body = saves[i].body
    BY <1>0, <2>1, OrphanFacts
  <2>4. \A c \in Buffers : SameSaves(c) /\ SameQuery(c)
    BY <2>1, <2>3 DEF SameSaves, SameQuery
  <2>5. \A i \in 1..MaxSaves : Saving(i, b)' => Saving(i, b)
    BY <2>3 DEF Saving
  <2>6. Marks(b)'
    BY <2>1, <2>2, <2>3, <2>5 DEF Marks
  <2>7. \A c \in Buffers : c # b => Marks(c)'
    BY <2>1, <2>2, <2>4, SameMarks
  <2>8. QED
    BY <2>6, <2>7
<1>4. CASE ComeBack(b)
  <2>1. /\ UNCHANGED <<text, dirty, back, saves, delete, query>>
        /\ tab' = [tab EXCEPT ![b] = "reading"]
        /\ raced' = [raced EXCEPT ![b] = raced[b] \/ Busy(b)]
    BY <1>4 DEF ComeBack, queries
  <2>2. tab'[b] = "reading" /\ \A c \in Buffers : c # b => SameTab(c) /\ raced'[c] = raced[c]
    BY <1>0, <2>1 DEF ShellTypes, RestTypes, SameTab
  <2>3. \A c \in Buffers : SameSaves(c) /\ SameQuery(c)
    BY <2>1 DEF SameSaves, SameQuery
  <2>4. Marks(b)'
    <3>1. CASE raced[b] \/ Busy(b)
      <4>1. raced'[b]
        BY <1>0, <2>1, <3>1 DEF RestTypes
      <4>2. QED
        BY <4>1 DEF Marks
    <3>2. CASE ~(raced[b] \/ Busy(b))
      <4>1. delete[b] = "none" /\ \A i \in 1..MaxSaves : ~Saving(i, b)
        BY <1>0, <3>2 DEF Busy, Saving, StoreTypes
      <4>2. QED
        BY <2>1, <2>2, <4>1 DEF Marks, Saving
    <3>3. QED
      BY <3>1, <3>2
  <2>5. \A c \in Buffers : c # b => Marks(c)'
    BY <2>2, <2>3, SameMarks
  <2>6. QED
    BY <2>4, <2>5
<1>5. CASE ReadBack(b)
  <2>1. /\ UNCHANGED <<text, dirty, saves, delete, query, raced>> /\ tab[b] = "reading"
        /\ tab' = [tab EXCEPT ![b] = "read"]
        /\ \E kept \in {disk[b], 0} :
             back' = [back EXCEPT ![b] = [scratch |-> kept, saved |-> query[b]]]
    BY <1>5 DEF ReadBack, queries, ghosts
  <2>2. tab'[b] = "read" /\ back'[b].saved = query[b] /\ \A c \in Buffers : c # b => SameTab(c)
    BY <1>0, <2>1 DEF ShellTypes, SameTab
  <2>3. \A c \in Buffers : SameSaves(c) /\ SameQuery(c)
    BY <2>1 DEF SameSaves, SameQuery
  <2>4. Marks(b)'
    BY <2>1, <2>2 DEF Marks, Saving
  <2>5. \A c \in Buffers : c # b => Marks(c)'
    BY <2>1, <2>2, <2>3, SameMarks
  <2>6. QED
    BY <2>4, <2>5
<1>6. CASE Reopen(b)
  <2>1. /\ UNCHANGED <<saves, delete, query, raced>> /\ tab[b] = "read"
        /\ back' = [back EXCEPT ![b] = Unread]
    BY <1>6 DEF Reopen, queries
  <2>2. /\ \A c \in Buffers : c # b => SameTab(c)
        /\ tab'[b] \in {"open", "left"}
        /\ tab'[b] = "open" /\ ~dirty'[b] => text'[b] = back[b].saved
    <3>1. CASE back[b].scratch # 0
      BY <1>0, <1>6, <2>1, <3>1 DEF Reopen, ShellTypes, SameTab
    <3>2. CASE back[b].scratch = 0 /\ Unsaved(b) = 0
      BY <1>0, <1>6, <2>1, <3>2 DEF Reopen, ShellTypes, SameTab
    <3>3. CASE back[b].scratch = 0 /\ Unsaved(b) # 0
      BY <1>0, <1>6, <2>1, <3>3 DEF Reopen, ShellTypes, SameTab
    <3>4. QED
      BY <3>1, <3>2, <3>3
  <2>3. \A c \in Buffers : SameSaves(c) /\ SameQuery(c)
    BY <2>1 DEF SameSaves, SameQuery
  <2>4. Marks(b)'
    BY <2>1, <2>2 DEF Marks, Saving
  <2>5. \A c \in Buffers : c # b => Marks(c)'
    BY <2>1, <2>2, <2>3, SameMarks
  <2>6. QED
    BY <2>4, <2>5
<1>7. QED
  BY <1>1, <1>2, <1>3, <1>4, <1>5, <1>6

\* A buffer about which nothing is under way.
LEMMA NotBusy ==
  ASSUME StoreTypes, NEW b \in Buffers, ~Busy(b)
  PROVE  /\ delete[b] = "none" /\ tab[b] \notin {"reading", "read"}
         /\ \A i \in 1..MaxSaves : ~Saving(i, b)
  BY DEF StoreTypes, Busy, Saving

LEMMA SaveMarks ==
  ASSUME Shape, \A b \in Buffers : Marks(b), NEW b \in Buffers, app = "up",
         Save(b) \/ AskDelete(b)
  PROVE  \A c \in Buffers : Marks(c)'
<1>0. ShellTypes /\ StoreTypes /\ RestTypes
  BY DEF Shape
<1>1. /\ UNCHANGED <<tab, text, dirty, back, query>> /\ raced' = [raced EXCEPT ![b] = raced[b] \/ Busy(b)]
  BY DEF Save, AskDelete, shell
<1>2. /\ \A c \in Buffers : SameTab(c) /\ query'[c] = query[c]
      /\ \A c \in Buffers : c # b => raced'[c] = raced[c]
  BY <1>0, <1>1 DEF SameTab, RestTypes
<1>3. CASE Save(b)
  <2>1. /\ UNCHANGED delete /\ tab[b] = "open"
        /\ \E i \in 1..MaxSaves :
             /\ saves[i] = NoSave
             /\ saves' = [saves EXCEPT ![i] = [at |-> "sent", of |-> b, body |-> text[b], live |-> TRUE]]
    BY <1>0, <1>3 DEF Save, Up, StoreTypes
  <2>2. PICK i \in 1..MaxSaves :
             /\ saves[i] = NoSave
             /\ saves' = [saves EXCEPT ![i] = [at |-> "sent", of |-> b, body |-> text[b], live |-> TRUE]]
    BY <2>1
  <2>3. /\ saves'[i].of = b /\ saves'[i].at = "sent" /\ saves'[i].body = text[b]
        /\ \A j \in 1..MaxSaves : j # i => saves'[j] = saves[j]
        /\ saves[i].of = None
    BY <1>0, <2>2, IdleTypes DEF StoreTypes
  <2>4. \A c \in Buffers : SameQuery(c) /\ (c # b => SameSaves(c))
    BY <1>2, <2>1, <2>3, NoneAssumption DEF SameQuery, SameSaves
  <2>5. Marks(b)'
    <3>1. CASE raced[b] \/ Busy(b)
      <4>1. raced'[b]
        BY <1>0, <1>1, <3>1 DEF RestTypes
      <4>2. QED
        BY <4>1 DEF Marks
    <3>2. CASE ~(raced[b] \/ Busy(b))
      <4>1. delete[b] = "none" /\ \A j \in 1..MaxSaves : ~Saving(j, b)
        BY <1>0, <3>2, NotBusy
      <4>2. \A j \in 1..MaxSaves : Saving(j, b)' => j = i
        BY <2>3, <4>1 DEF Saving
      <4>3. delete'[b] = "none" /\ tab'[b] = "open" /\ text'[b] = text[b] /\ dirty'[b] = dirty[b]
            /\ query'[b] = query[b]
        BY <1>1, <2>1, <4>1
      <4>4. (~dirty[b]) => query[b] = text[b]
        BY <2>1, <3>2, <4>1 DEF Marks
      <4>5. QED
        BY <2>3, <4>2, <4>3, <4>4 DEF Marks
    <3>3. QED
      BY <3>1, <3>2
  <2>6. \A c \in Buffers : c # b => Marks(c)'
    BY <1>2, <2>4, SameMarks
  <2>7. QED
    BY <2>5, <2>6
<1>4. CASE AskDelete(b)
  <2>1. UNCHANGED saves /\ delete' = [delete EXCEPT ![b] = "asked"]
    BY <1>4 DEF AskDelete
  <2>2. \A c \in Buffers : SameSaves(c) /\ (c # b => SameQuery(c))
    BY <1>0, <1>2, <2>1 DEF SameQuery, SameSaves, StoreTypes
  <2>3. Marks(b)'
    <3>1. CASE raced[b] \/ Busy(b)
      <4>1. raced'[b]
        BY <1>0, <1>1, <3>1 DEF RestTypes
      <4>2. QED
        BY <4>1 DEF Marks
    <3>2. CASE ~(raced[b] \/ Busy(b))
      <4>1. /\ delete[b] = "none" /\ tab[b] \notin {"reading", "read"}
            /\ \A j \in 1..MaxSaves : ~Saving(j, b)
        BY <1>0, <3>2, NotBusy
      <4>2. \A j \in 1..MaxSaves : ~Saving(j, b)'
        BY <2>1, <4>1 DEF Saving
      <4>3. QED
        BY <1>1, <3>2, <4>1, <4>2 DEF Marks
    <3>3. QED
      BY <3>1, <3>2
  <2>4. \A c \in Buffers : c # b => Marks(c)'
    BY <1>2, <2>2, SameMarks
  <2>5. QED
    BY <2>3, <2>4
<1>5. QED
  BY <1>3, <1>4

LEMMA DeleteMarks ==
  ASSUME Shape, \A b \in Buffers : Marks(b), NEW b \in Buffers, app = "up",
         Deletes(b) \/ DeleteLands(b)
  PROVE  \A c \in Buffers : Marks(c)'
<1>0. ShellTypes /\ StoreTypes /\ RestTypes
  BY DEF Shape
<1>1. /\ UNCHANGED <<tab, text, back, saves, raced>> /\ delete[b] # "none"
      /\ \A c \in Buffers : c # b => SameQuery(c) /\ dirty'[c] = dirty[c]
  <2>1. CASE Deletes(b)
    BY <1>0, <2>1 DEF Deletes, shell, ghosts, StoreTypes, SameQuery
  <2>2. CASE DeleteLands(b)
    BY <1>0, <2>2 DEF DeleteLands, StoreTypes, ShellTypes, SameQuery
  <2>3. QED
    BY <2>1, <2>2
<1>2. \A c \in Buffers : SameSaves(c) /\ (c # b => SameTab(c))
  BY <1>1 DEF SameSaves, SameTab
<1>3. Marks(b)'
  <2>1. CASE raced[b]
    BY <1>1, <2>1 DEF Marks
  <2>2. CASE ~raced[b]
    <3>1. /\ tab[b] \notin {"reading", "read"} /\ \A i \in 1..MaxSaves : ~Saving(i, b)
          /\ (tab[b] = "open" /\ ~dirty[b] /\ delete[b] # "deleted") => query[b] = text[b]
      BY <1>1, <2>2 DEF Marks
    <3>2. \A i \in 1..MaxSaves : ~Saving(i, b)'
      BY <1>1, <3>1 DEF Saving
    <3>3. (tab'[b] = "open" /\ ~dirty'[b] /\ delete'[b] # "deleted") => query'[b] = text'[b]
      <4>1. CASE Deletes(b)
        <5>1. /\ UNCHANGED <<tab, text, dirty>> /\ delete[b] = "asked"
              /\ \/ delete' = [delete EXCEPT ![b] = "deleted"]
                 \/ UNCHANGED query
          BY <4>1 DEF Deletes, shell
        <5>2. QED
          BY <1>0, <3>1, <5>1 DEF StoreTypes
      <4>2. CASE DeleteLands(b)
        <5>1. tab[b] = "open" => dirty'[b]
          BY <1>0, <4>2 DEF DeleteLands, ShellTypes
        <5>2. QED
          BY <1>1, <5>1
      <4>3. QED
        BY <4>1, <4>2
    <3>4. QED
      BY <1>1, <3>1, <3>2, <3>3 DEF Marks
  <2>3. QED
    BY <2>1, <2>2
<1>4. \A c \in Buffers : c # b => Marks(c)'
  BY <1>1, <1>2, SameMarks
<1>5. QED
  BY <1>3, <1>4

LEMMA StoreMarks ==
  ASSUME Shape, \A b \in Buffers : Marks(b), NEW i \in 1..MaxSaves, app = "up",
         SaveWrites(i) \/ SaveLands(i)
  PROVE  \A c \in Buffers : Marks(c)'
<1>0. ShellTypes /\ StoreTypes /\ RestTypes /\ Phases
  BY DEF Shape
<1>1. saves[i].at \in {"sent", "stored", "refused"}
  BY DEF SaveWrites, SaveLands
<1>2. PICK b \in Buffers : b = saves[i].of
  BY <1>0, <1>1 DEF Phases
<1>3. PICK body \in Versions : body = saves[i].body
  BY <1>0 DEF StoreTypes, SaveSet
<1>4. Saving(i, b) /\ UNCHANGED <<tab, text, back, delete, raced>>
  BY <1>1, <1>2 DEF Saving, SaveWrites, SaveLands, shell, ghosts
<1>5. ~raced[b] =>
        /\ delete[b] = "none" /\ tab[b] \notin {"reading", "read"}
        /\ \A j \in 1..MaxSaves : Saving(j, b) => j = i
        /\ saves[i].at = "stored" => query[b] = body
        /\ tab[b] = "open" /\ ~dirty[b] => text[b] = body /\ query[b] = text[b]
  BY <1>3, <1>4 DEF Marks
<1>6. CASE SaveWrites(i)
  <2>1. /\ UNCHANGED dirty /\ saves[i] \in SaveSet
        /\ \/ saves' = [saves EXCEPT ![i].at = "stored"] /\ query' = [query EXCEPT ![b] = body]
           \/ saves' = [saves EXCEPT ![i].at = "refused"] /\ UNCHANGED query
    BY <1>0, <1>2, <1>3, <1>6 DEF SaveWrites, StoreTypes, shell
  <2>2. /\ saves'[i].of = b /\ saves'[i].body = body
        /\ saves'[i].at \in {"stored", "refused"}
        /\ saves'[i].at = "stored" => query'[b] = body
        /\ saves'[i].at = "refused" => query'[b] = query[b]
        /\ \A j \in 1..MaxSaves : j # i => saves'[j] = saves[j]
        /\ \A c \in Buffers : c # b => query'[c] = query[c]
    <3>1. CASE saves' = [saves EXCEPT ![i].at = "stored"] /\ query' = [query EXCEPT ![b] = body]
      BY <1>0, <1>2, <1>3, <2>1, <3>1 DEF StoreTypes, SaveSet
    <3>2. CASE saves' = [saves EXCEPT ![i].at = "refused"] /\ UNCHANGED query
      BY <1>0, <1>2, <1>3, <2>1, <3>2 DEF StoreTypes, SaveSet
    <3>3. QED
      BY <2>1, <3>1, <3>2
  <2>3. \A c \in Buffers : c # b => SameSaves(c) /\ SameTab(c) /\ SameQuery(c)
    BY <1>2, <1>4, <2>1, <2>2 DEF SameSaves, SameTab, SameQuery
  <2>4. Marks(b)'
    <3>1. CASE raced[b]
      BY <1>4, <3>1 DEF Marks
    <3>2. CASE ~raced[b]
      <4>1. \A j \in 1..MaxSaves : Saving(j, b)' => j = i
        BY <1>5, <2>2, <3>2 DEF Saving
      <4>2. QED
        BY <1>4, <1>5, <2>1, <2>2, <3>2, <4>1 DEF Marks
    <3>3. QED
      BY <3>1, <3>2
  <2>5. \A c \in Buffers : c # b => Marks(c)'
    BY <1>4, <2>3, SameMarks
  <2>6. QED
    BY <2>4, <2>5
<1>7. CASE SaveLands(i)
  <2>1. UNCHANGED query /\ saves' = [saves EXCEPT ![i] = Over]
    BY <1>7 DEF SaveLands
  <2>2. PICK still \in BOOLEAN : still = (text[b] # body)
    OBVIOUS
  <2>3. \/ saves[i].at = "stored" /\ dirty' = [dirty EXCEPT ![b] = still]
        \/ UNCHANGED dirty
    BY <1>2, <1>3, <1>7, <2>2 DEF SaveLands, StillDirty
  <2>4. saves'[i] = Over /\ \A j \in 1..MaxSaves : j # i => saves'[j] = saves[j]
    BY <1>0, <2>1 DEF StoreTypes
  <2>5. \A c \in Buffers : c # b => SameSaves(c) /\ SameTab(c)
    <3>1. \A c \in Buffers : c # b => dirty'[c] = dirty[c]
      BY <1>0, <2>3 DEF ShellTypes
    <3>2. QED
      BY <1>2, <1>4, <2>4, <3>1, IdleTypes, NoneAssumption DEF SameSaves, SameTab
  <2>6. \A c \in Buffers : SameQuery(c)
    BY <1>4, <2>1 DEF SameQuery
  <2>7. Marks(b)'
    <3>1. CASE raced[b]
      BY <1>4, <3>1 DEF Marks
    <3>2. CASE ~raced[b]
      <4>1. \A j \in 1..MaxSaves : ~Saving(j, b)'
        BY <1>5, <2>4, <3>2, IdleTypes, NoneAssumption DEF Saving
      <4>2. tab[b] = "open" /\ ~dirty'[b] => query[b] = text[b]
        BY <1>0, <1>5, <2>2, <2>3, <3>2 DEF ShellTypes
      <4>3. QED
        BY <1>4, <1>5, <2>1, <3>2, <4>1, <4>2 DEF Marks
    <3>3. QED
      BY <3>1, <3>2
  <2>8. \A c \in Buffers : c # b => Marks(c)'
    BY <1>4, <2>5, <2>6, SameMarks
  <2>9. QED
    BY <2>7, <2>8
<1>8. QED
  BY <1>6, <1>7

\* A start finds nothing under way.
LEMMA StartMarks ==
  ASSUME Shape, Start, NEW b \in Buffers
  PROVE  Marks(b)'
<1>1. /\ UNCHANGED <<delete, saves, query>> /\ app = "down"
      /\ tab'[b] \in {"open", "left", "closed"}
      /\ text'[b] = (IF disk[b] # 0 THEN disk[b] ELSE query[b])
      /\ dirty'[b] = (disk[b] # 0)
  BY DEF Start, queries
<1>2. delete[b] = "none" /\ \A i \in 1..MaxSaves : saves[i].of # b
  BY <1>1, NoneAssumption DEF Shape, Ended
<1>3. \A i \in 1..MaxSaves : ~Saving(i, b)'
  BY <1>1, <1>2 DEF Saving
<1>4. QED
  BY <1>1, <1>2, <1>3 DEF Marks

LEMMA MarksStep ==
  Shape /\ (\A b \in Buffers : Marks(b)) /\ [Next]_vars => \A b \in Buffers : Marks(b)'
<1> SUFFICES ASSUME Shape, \A b \in Buffers : Marks(b), [Next]_vars
             PROVE  \A b \in Buffers : Marks(b)'
  OBVIOUS
<1>d. DOMAIN saves = 1..MaxSaves
  BY DEF Shape, StoreTypes
<1>1. CASE app' # "up"
  BY <1>1 DEF Marks
<1>2. CASE app' = "up" /\ app = "up"
  <2>1. CASE UNCHANGED vars \/ WriterLook \/ WriterWake \/ WriterWrite \/ QuitWriter
    <3>1. UNCHANGED <<tab, text, dirty, back, saves, delete, query, raced>>
      BY <2>1 DEF vars, WriterLook, WriterWake, WriterWrite, QuitWriter, shell, queries, ghosts
    <3>2. QED
      BY <1>2, <3>1, SameMarks DEF SameSaves, SameQuery, SameTab
  <2>2. ASSUME NEW b \in Buffers,
               \/ Type(b) \/ Elapse(b) \/ Due(b) \/ CloseTab(b) \/ Leave(b) \/ ComeBack(b) \/ ReadBack(b)
               \/ Reopen(b) \/ Save(b) \/ AskDelete(b) \/ Deletes(b) \/ DeleteLands(b) \/ QuitTab(b)
        PROVE  \A c \in Buffers : Marks(c)'
    <3>1. ~QuitTab(b)
      BY <1>2 DEF QuitTab
    <3>2. QED
      BY <1>2, <2>2, <3>1, TabMarks, SaveMarks, DeleteMarks
  <2>3. ASSUME NEW i \in 1..MaxSaves, SaveWrites(i) \/ SaveLands(i)
        PROVE  \A c \in Buffers : Marks(c)'
    BY <1>2, <2>3, StoreMarks
  <2>4. ~Quit /\ ~End /\ ~Start
    BY <1>2 DEF Quit, End, Start
  <2>5. QED
    BY <1>d, <2>1, <2>2, <2>3, <2>4 DEF Next
<1>3. CASE app' = "up" /\ app # "up"
  <2>1. Start
    BY <1>3 DEF Next, vars, WriterLook, WriterWake, WriterWrite, Type, Elapse, Due, CloseTab, Leave,
       ComeBack, ReadBack, Reopen, Save, AskDelete, Deletes, DeleteLands, QuitTab, SaveWrites,
       SaveLands, Quit, QuitWriter, End, Up
  <2>2. QED
    BY <2>1, StartMarks
<1>4. QED
  BY <1>1, <1>2, <1>3

\* A tab without a mark of unsaved edits has its text stored in its query, for any number
\* of tabs, saves and restarts: the edits made while a save was under way keep the mark,
\* one that was deleted under its tab gets it, and what is read after a crash is marked
\* when it comes from the scratch store.
THEOREM CleanTabsAreStored == Spec => []CleanIsStored
<1> DEFINE All == \A b \in Buffers : Marks(b)
<1>1. Init => Shape /\ All
  BY ShapeInit, MarksInit
<1>2. Shape /\ All /\ [Next]_vars => Shape' /\ All'
  BY ShapeStep, MarksStep
<1>3. Shape /\ All => CleanIsStored
  BY DEF CleanIsStored, Marks, Up
<1> HIDE DEF All
<1>4. QED
  BY <1>1, <1>2, <1>3, PTL DEF Spec

-----------------------------------------------------------------------------
(***************************************************************************)
(* Nothing typed is left behind.  That the disk gets it in the end rests   *)
(* on fairness (KeptInTime); that it is never in nobody's hands does not.  *)
(***************************************************************************)
\* A buffer with a word that waits has its turn.
InLine(b) == \E i \in 1..Len(order) : order[i] = b

\* The writer sleeps on nothing: neither on a word, nor on having been told to end; and
\* it ends when it was told to and no word is left.
Alert ==
  /\ \A b \in Buffers : pending[b] # None => InLine(b)
  /\ writer = "sleep" /\ (order # <<>> \/ closed) => wake
  /\ writer = "done" => closed /\ order = <<>>

\* Only an open tab has a write to come.
OpenKeeps == \A b \in Buffers : keeping[b] # "no" => tab[b] = "open" /\ app # "down"

\* The text of an open tab that is saved nowhere else has its write to come; or it has its
\* turn with a writer that is at work, or woken; or it is being written; or it is on disk.
\* Not said of a tab whose last write failed, or that was reopened behind its last word.
TypedIsComing ==
  \A b \in Buffers :
    Up(b) /\ dirty[b] /\ ~failed[b] /\ ~behind[b] =>
      \/ keeping[b] # "no"
      \/ pending[b] = text[b] /\ InLine(b)
           /\ (writer \in {"look", "write"} \/ (writer = "sleep" /\ wake))
      \/ pending[b] = None /\ writer = "write" /\ writing = [about |-> b, text |-> text[b]]
      \/ pending[b] = None /\ writing.about # b /\ disk[b] = text[b]

\* Once the writer that was told to end has ended, the disk holds all that is saved nowhere
\* else, and nothing that was saved, emptied or closed.
QuitKeepsAll ==
  writer = "done" => \A b \in Buffers : ~failed[b] /\ ~behind[b] => disk[b] = Unsaved(b)

\* What a step does to the writer and to its queue.
LEMMA KeeperMoves ==
  ASSUME Shape, [Next]_vars
  PROVE  \/ UNCHANGED <<pending, order, wake, closed, writer>>
         \/ UNCHANGED <<closed, writer>> /\ \E b \in Buffers, word \in Versions : Queue(b, word)
         \/ WriterLook \/ WriterWake \/ WriterWrite \/ QuitWriter \/ End
<1> DEFINE Goal == \/ UNCHANGED <<pending, order, wake, closed, writer>>
                   \/ UNCHANGED <<closed, writer>>
                        /\ \E b \in Buffers, word \in Versions : Queue(b, word)
                   \/ WriterLook \/ WriterWake \/ WriterWrite \/ QuitWriter \/ End
<1>0. ShellTypes /\ StoreTypes /\ Phases /\ DOMAIN saves = 1..MaxSaves
  BY DEF Shape, StoreTypes
<1>1. CASE \/ UNCHANGED vars \/ Quit \/ Start
           \/ \E b \in Buffers :
                \/ Type(b) \/ Elapse(b) \/ ComeBack(b) \/ ReadBack(b) \/ Reopen(b)
                \/ Save(b) \/ AskDelete(b) \/ Deletes(b)
           \/ \E i \in DOMAIN saves : SaveWrites(i)
  BY <1>1 DEF vars, keeper, Quit, Start, Type, Elapse, ComeBack, ReadBack, Reopen, Save, AskDelete, Deletes, SaveWrites
<1>2. ASSUME NEW b \in Buffers, Due(b) \/ Leave(b) \/ QuitTab(b)
      PROVE  Goal
  <2>1. UNCHANGED <<closed, writer>> /\ Queue(b, Unsaved(b))
    BY <1>2 DEF Due, Leave, QuitTab, Keep
  <2>2. QED
    BY <1>0, <2>1, UnsavedType
<1>3. ASSUME NEW b \in Buffers, CloseTab(b)
      PROVE  Goal
  <2>1. UNCHANGED <<closed, writer>> /\ Queue(b, 0)
    BY <1>3 DEF CloseTab, Keep
  <2>2. QED
    BY <2>1, Zero
<1>4. ASSUME NEW b \in Buffers, DeleteLands(b)
      PROVE  Goal
  <2>1. /\ UNCHANGED <<closed, writer>>
        /\ Queue(b, text[b]) \/ UNCHANGED <<pending, order, wake>>
    BY <1>4 DEF DeleteLands, Keep
  <2>2. QED
    BY <1>0, <2>1, UnsavedType
<1>5. ASSUME NEW i \in DOMAIN saves, SaveLands(i)
      PROVE  Goal
  <2>1. UNCHANGED <<closed, writer>> /\ saves[i].of \in Buffers
    BY <1>0, <1>5 DEF SaveLands, Phases
  <2>2. \/ UNCHANGED <<pending, order, wake>>
        \/ Queue(saves[i].of, text[saves[i].of]) \/ Queue(saves[i].of, 0)
    BY <1>5 DEF SaveLands, Keep
  <2>3. QED
    BY <1>0, <2>1, <2>2, UnsavedType, Zero
<1>6. QED
  BY <1>1, <1>2, <1>3, <1>4, <1>5 DEF Next

\* A word that is queued has a turn, and wakes the writer.
LEMMA QueueAlert ==
  ASSUME KeeperTypes, Alert, NEW b \in Buffers, NEW word \in Versions, Queue(b, word),
         UNCHANGED <<closed, writer>>
  PROVE  Alert'
<1>1. CASE closed
  BY <1>1 DEF Queue, Alert, InLine
<1>2. CASE ~closed
  <2>1. /\ pending' = [pending EXCEPT ![b] = word] /\ wake' = TRUE
        /\ order' = IF pending[b] = None THEN Append(order, b) ELSE order
        /\ writer # "done"
    BY <1>2 DEF Queue, Alert
  <2>2. order \in Seq(Buffers) /\ \A c \in Buffers : c # b => pending'[c] = pending[c]
    BY <2>1 DEF KeeperTypes
  <2>3. ASSUME NEW c \in Buffers, InLine(c) PROVE InLine(c)'
    BY <2>1, <2>2, <2>3 DEF InLine
  <2>4. InLine(b)'
    <3>1. CASE pending[b] = None
      <4>1. Len(order') = Len(order) + 1 /\ order'[Len(order) + 1] = b /\ Len(order) \in Nat
        BY <2>1, <2>2, <3>1
      <4>2. QED
        BY <4>1 DEF InLine
    <3>2. CASE pending[b] # None
      BY <2>3, <3>2 DEF Alert
    <3>3. QED
      BY <3>1, <3>2
  <2>5. \A c \in Buffers : pending'[c] # None => InLine(c)'
    BY <2>2, <2>3, <2>4 DEF Alert
  <2>6. QED
    BY <2>1, <2>5 DEF Alert
<1>3. QED
  BY <1>1, <1>2

LEMMA AlertStep == Shape /\ Alert /\ [Next]_vars => Alert'
<1> SUFFICES ASSUME Shape, Alert, [Next]_vars PROVE Alert'
  OBVIOUS
<1>0. KeeperTypes /\ Turns /\ Phases
  BY DEF Shape
<1>1. CASE UNCHANGED <<pending, order, wake, closed, writer>>
  BY <1>1 DEF Alert, InLine
<1>2. ASSUME UNCHANGED <<closed, writer>>, NEW b \in Buffers, NEW word \in Versions, Queue(b, word)
      PROVE  Alert'
  BY <1>0, <1>2, QueueAlert
<1>3. CASE WriterLook
  <2>1. UNCHANGED <<wake, closed>> /\ writer = "look"
    BY <1>3 DEF WriterLook
  <2>2. CASE order # <<>>
    <3>1. /\ writer' = "write"
          /\ pending' = [pending EXCEPT ![Head(order)] = None] /\ order' = Tail(order)
      BY <1>3, <2>2 DEF WriterLook
    <3>2. /\ pending'[Head(order)] = None
          /\ \A c \in Buffers : c # Head(order) => pending'[c] = pending[c]
      BY <1>0, <2>2, <3>1, TakeFacts
    <3>3. /\ Len(order) \in Nat \ {0} /\ Head(order) = order[1]
          /\ Len(order') = Len(order) - 1
          /\ \A i \in 1..Len(order') : order'[i] = order[i + 1]
      BY <1>0, <2>2, <3>1 DEF KeeperTypes
    <3>4. ASSUME NEW c \in Buffers, pending'[c] # None PROVE InLine(c)'
      <4>1. c # Head(order) /\ InLine(c)
        BY <3>2, <3>4 DEF Alert
      <4>2. PICK i \in 1..Len(order) : order[i] = c
        BY <4>1 DEF InLine
      <4>3. i # 1 /\ i - 1 \in 1..Len(order') /\ order'[i - 1] = c
        BY <3>3, <4>1, <4>2
      <4>4. QED
        BY <4>3 DEF InLine
    <3>5. QED
      BY <3>1, <3>4 DEF Alert
  <2>3. CASE order = <<>>
    <3>1. UNCHANGED <<pending, order>> /\ writer' = IF closed THEN "done" ELSE "sleep"
      BY <1>3, <2>3 DEF WriterLook
    <3>2. QED
      BY <2>1, <2>3, <3>1 DEF Alert, InLine
  <2>4. QED
    BY <2>2, <2>3
<1>4. CASE WriterWake
  BY <1>4 DEF WriterWake, Alert, InLine
<1>5. CASE WriterWrite
  BY <1>5 DEF WriterWrite, Alert, InLine
<1>6. CASE QuitWriter
  BY <1>6 DEF QuitWriter, Alert, InLine
<1>7. CASE End
  <2>1. writer' = "look" /\ \A b \in Buffers : pending'[b] = None
    BY <1>7 DEF End, Each
  <2>2. QED
    BY <2>1 DEF Alert
<1>8. QED
  BY <1>1, <1>2, <1>3, <1>4, <1>5, <1>6, <1>7, KeeperMoves

LEMMA OpenKeepsStep == Shape /\ OpenKeeps /\ [Next]_vars => OpenKeeps'
<1> SUFFICES ASSUME Shape, OpenKeeps, [Next]_vars PROVE OpenKeeps'
  OBVIOUS
<1>0. ShellTypes
  BY DEF Shape
<1>1. CASE UNCHANGED vars \/ WriterLook \/ WriterWake \/ WriterWrite \/ QuitWriter
  BY <1>1 DEF vars, shell, WriterLook, WriterWake, WriterWrite, QuitWriter, OpenKeeps
<1>2. ASSUME NEW b \in Buffers, Type(b) PROVE OpenKeeps'
  <2>1. /\ UNCHANGED <<app, tab>> /\ tab[b] = "open" /\ app = "up"
        /\ \E k : keeping' = [keeping EXCEPT ![b] = k]
    BY <1>2 DEF Type, Up
  <2>2. QED
    BY <1>0, <2>1 DEF OpenKeeps, ShellTypes
<1>e. ASSUME NEW b \in Buffers, Elapse(b) PROVE OpenKeeps'
  <2>1. UNCHANGED <<app, tab>> /\ keeping[b] # "no" /\ \E k : keeping' = [keeping EXCEPT ![b] = k]
    BY <1>e DEF Elapse
  <2>2. QED
    BY <1>0, <2>1 DEF OpenKeeps, ShellTypes
<1>3. ASSUME NEW b \in Buffers, Due(b) \/ CloseTab(b) \/ Leave(b) \/ QuitTab(b) PROVE OpenKeeps'
  <2>1. /\ UNCHANGED app /\ keeping' = [keeping EXCEPT ![b] = "no"]
        /\ \A c \in Buffers : c # b => tab'[c] = tab[c]
    BY <1>0, <1>3 DEF Due, CloseTab, Leave, QuitTab, ShellTypes
  <2>2. QED
    BY <1>0, <2>1 DEF OpenKeeps, ShellTypes
<1>4. ASSUME NEW b \in Buffers, ComeBack(b) \/ ReadBack(b) \/ Reopen(b) PROVE OpenKeeps'
  <2>1. /\ UNCHANGED <<app, keeping>> /\ tab[b] # "open"
        /\ \A c \in Buffers : c # b => tab'[c] = tab[c]
    BY <1>0, <1>4 DEF ComeBack, ReadBack, Reopen, ShellTypes
  <2>2. QED
    BY <2>1 DEF OpenKeeps
<1>5. ASSUME NEW b \in Buffers, Save(b) \/ AskDelete(b) \/ Deletes(b) \/ DeleteLands(b) PROVE OpenKeeps'
  BY <1>5 DEF Save, AskDelete, Deletes, DeleteLands, shell, OpenKeeps
<1>6. ASSUME NEW i \in DOMAIN saves, SaveWrites(i) \/ SaveLands(i) PROVE OpenKeeps'
  BY <1>6 DEF SaveWrites, SaveLands, shell, OpenKeeps
<1>7. CASE Quit
  BY <1>7 DEF Quit, shell, OpenKeeps
<1>8. CASE End
  BY <1>8 DEF End, Each, OpenKeeps
<1>9. CASE Start
  BY <1>9 DEF Start, OpenKeeps
<1>10. QED
  BY <1>1, <1>2, <1>e, <1>3, <1>4, <1>5, <1>6, <1>7, <1>8, <1>9 DEF Next

LEMMA Forgets ==
  ASSUME Shape, Alert, OpenKeeps, \A b \in Buffers : Words(b)
  PROVE  TypedIsComing /\ QuitKeepsAll
<1>0. KeeperTypes /\ Phases
  BY DEF Shape
<1>1. ASSUME NEW b \in Buffers, Up(b), dirty[b], ~failed[b], ~behind[b], keeping[b] = "no"
      PROVE  \/ pending[b] = text[b] /\ InLine(b)
                  /\ (writer \in {"look", "write"} \/ (writer = "sleep" /\ wake))
             \/ pending[b] = None /\ writer = "write" /\ writing = [about |-> b, text |-> text[b]]
             \/ pending[b] = None /\ writing.about # b /\ disk[b] = text[b]
  <2>1. app = "up" /\ Unsaved(b) = text[b]
    BY <1>1 DEF Up, Unsaved
  <2>2. CASE pending[b] # None
    <3>1. pending[b] = text[b] /\ InLine(b)
      BY <1>1, <2>1, <2>2 DEF Words, Alert
    <3>2. order # <<>> /\ ~closed
      BY <1>0, <2>1, <3>1 DEF InLine, Phases, KeeperTypes
    <3>3. writer \in {"look", "write"} \/ (writer = "sleep" /\ wake)
      BY <1>0, <3>2 DEF Alert, KeeperTypes
    <3>4. QED
      BY <3>1, <3>3
  <2>3. CASE pending[b] = None /\ writing.about = b
    <3>1. writing.text = text[b] /\ writing \in WordSet
      BY <1>0, <1>1, <2>1, <2>3 DEF Words, KeeperTypes
    <3>2. writing = [about |-> b, text |-> text[b]]
      BY <2>3, <3>1 DEF WordSet
    <3>3. writer = "write"
      BY <1>0, <2>3, NoneAssumption DEF Phases
    <3>4. QED
      BY <2>3, <3>2, <3>3
  <2>4. CASE pending[b] = None /\ writing.about # b
    BY <1>1, <2>1, <2>4 DEF Words, Settled
  <2>5. QED
    BY <2>2, <2>3, <2>4
<1>2. ASSUME writer = "done", NEW b \in Buffers, ~failed[b], ~behind[b]
      PROVE  disk[b] = Unsaved(b)
  <2>1. closed /\ order = <<>>
    BY <1>2 DEF Alert
  <2>2. app = "quitting" /\ tab[b] # "open"
    BY <1>0, <2>1 DEF Phases
  <2>3. pending[b] = None
    BY <2>1 DEF Alert, InLine
  <2>4. writing.about # b
    BY <1>0, <1>2, NoneAssumption DEF Phases
  <2>5. QED
    BY <1>2, <2>2, <2>3, <2>4 DEF Words, Settled, OpenKeeps
<1>3. TypedIsComing
  BY <1>1 DEF TypedIsComing
<1>4. QED
  BY <1>2, <1>3 DEF QuitKeepsAll

LEMMA KeepersHold == Spec => [](TypedIsComing /\ QuitKeepsAll)
<1> DEFINE All == \A b \in Buffers : Words(b)
<1>1. Init => Shape /\ All /\ Alert /\ OpenKeeps
  <2>1. Init => Alert /\ OpenKeeps
    BY DEF Init, Alert, InLine, OpenKeeps, Each
  <2>2. QED
    BY <2>1, ShapeInit, WordsInit
<1>2. Shape /\ All /\ Alert /\ OpenKeeps /\ [Next]_vars => Shape' /\ All' /\ Alert' /\ OpenKeeps'
  BY ShapeStep, WordsStep, AlertStep, OpenKeepsStep
<1>3. Shape /\ All /\ Alert /\ OpenKeeps => TypedIsComing /\ QuitKeepsAll
  BY Forgets
<1> HIDE DEF All
<1>4. QED
  BY <1>1, <1>2, <1>3, PTL DEF Spec

\* Text typed is never in nobody's hands: while it is not on disk a write is scheduled, or
\* its word has a turn with a writer that is not asleep, or is being written, for any
\* number of tabs and whatever is saved, deleted, left and come back to meanwhile.
THEOREM TypedIsOnItsWay == Spec => []TypedIsComing
<1>1. QED
  BY KeepersHold, PTL

\* A quit that waits for the writer loses nothing: when it has ended, every tab's text
\* that is saved nowhere else is on disk.
THEOREM QuitLosesNothing == Spec => []QuitKeepsAll
<1>1. QED
  BY KeepersHold, PTL
=============================================================================
