---------------------------- MODULE Vault_proofs ----------------------------
(***************************************************************************)
(* Proofs about the vault: its type invariant, that a vault whose lock is  *)
(* put on or taken off still reads wherever that stops, that nothing stays *)
(* in the open once it is locked, and that what a save has persisted is    *)
(* what is kept.                                                           *)
(***************************************************************************)
EXTENDS Vault, TLAPS

(***************************************************************************)
(* Types                                                                   *)
(***************************************************************************)
Entries == [seal : Locks, value : Values]

UiStates == [at : {"idle", "setting", "undoing", "deleting"}, conn : Conns \cup {0},
             typed : [Keys -> Values], done : SUBSET Keys, sent : SUBSET Sent,
             prev : [Keys -> Values], was : [Keys -> Values], wrong : SUBSET {"unread", "stale"}]

JobStates == [at : {"idle", "saving", "setting", "writing"},
              kind : {"none", "lock", "remove"}, next : Locks,
              held : [Conns -> [Keys -> Values]], sent : SUBSET Sent, failed : BOOLEAN]

Promises == [Conns -> [Keys -> Values]]

Files == [lock : Locks, conns : SUBSET Conns, names : [Conns -> SUBSET Keys]]

LEMMA Zeros == 0 \in Locks /\ 0 \in Values
  BY VaultBounds DEF Locks, Values

LEMMA Records ==
  /\ Blank \in [Keys -> Values] /\ Idle \in UiStates /\ NoJob \in JobStates
  /\ Nothing \in Entries /\ Nothing.seal = 0 /\ Nothing.value = 0
  /\ Idle.at = "idle" /\ Idle.sent = {}
  /\ NoJob.at = "idle" /\ NoJob.kind = "none" /\ NoJob.sent = {}
BY Zeros DEF Blank, Idle, NoJob, Nothing, UiStates, JobStates, Entries

LEMMA TypeParts ==
  ASSUME TypeOK
  PROVE  /\ ui \in UiStates /\ job \in [Jobs -> JobStates] /\ promised \in Promises
         /\ kept \in [Conns -> [Keys -> Entries]] /\ session \in [Conns -> [Keys -> Values]]
         /\ file \in Files /\ lock \in [id : Locks, open : BOOLEAN]
BY DEF TypeOK, UiStates, JobStates, Promises, Entries, Files

LEMMA GetValue ==
  ASSUME TypeOK, NEW c \in Conns, NEW k \in Keys
  PROVE  VaultGet(c, k) \in Values
BY Zeros DEF TypeOK, VaultGet

(***************************************************************************)
(* What the operations of the vault do                                     *)
(***************************************************************************)
\* The keychain takes a secret.
LEMMA StoreFacts ==
  ASSUME TypeOK, NEW w \in Sent, NEW v \in Values, Store(w, v)
  PROVE  /\ kept' \in [Conns -> [Keys -> Entries]]
         /\ \A d \in Conns, l \in Keys :
              kept'[d][l] = IF d = w.conn /\ l = w.key THEN [seal |-> w.seal, value |-> v]
                            ELSE kept[d][l]
<1>0. /\ kept \in [Conns -> [Keys -> Entries]]
      /\ w.conn \in Conns /\ w.key \in Keys /\ w.seal \in Locks
  BY TypeParts DEF Sent
<1> DEFINE e == [seal |-> w.seal, value |-> v]
<1>1. e \in Entries
  BY <1>0 DEF Entries
<1>2. kept' = [kept EXCEPT ![w.conn][w.key] = e]
  BY DEF Store
<1> HIDE DEF e
<1>3. /\ kept' \in [Conns -> [Keys -> Entries]]
      /\ \A d \in Conns, l \in Keys :
           kept'[d][l] = IF d = w.conn /\ l = w.key THEN e ELSE kept[d][l]
  BY <1>0, <1>1, <1>2
<1>4. QED
  BY <1>3 DEF e

\* A secret is held for the session.
LEMMA SessionFacts ==
  ASSUME TypeOK, NEW c \in Conns, NEW k \in Keys, NEW v \in Values, SetInSession(c, k, v)
  PROVE  session' \in [Conns -> [Keys -> Values]] /\ ~Persistent
BY TypeParts DEF SetInSession

\* Deleting, whatever the keychain gives up.
LEMMA DeleteFacts ==
  ASSUME TypeOK, NEW c \in Conns, NEW S \in SUBSET Keys, NEW gone, VaultDelete(c, S, gone)
  PROVE  /\ kept' \in [Conns -> [Keys -> Entries]]
         /\ session' \in [Conns -> [Keys -> Values]]
         /\ \A d \in Conns, l \in Keys :
              /\ kept'[d][l] = kept[d][l] \/ kept'[d][l] = Nothing
              /\ session'[d][l] = session[d][l] \/ session'[d][l] = 0
              /\ ~Persistent => kept'[d][l] = kept[d][l]
         /\ \A d \in Conns, l \in Keys :
              d # c \/ l \notin S => kept'[d][l] = kept[d][l]
<1>0. /\ kept \in [Conns -> [Keys -> Entries]] /\ session \in [Conns -> [Keys -> Values]]
      /\ Nothing \in Entries /\ 0 \in Values
  BY Zeros, Records, TypeParts
<1> DEFINE kc == [k \in Keys |-> IF k \in gone THEN Nothing ELSE kept[c][k]]
<1> DEFINE sc == [k \in Keys |-> IF k \in S THEN 0 ELSE session[c][k]]
<1>1. kc \in [Keys -> Entries] /\ sc \in [Keys -> Values]
  BY <1>0
<1>2. kept' = [kept EXCEPT ![c] = kc] /\ session' = [session EXCEPT ![c] = sc]
  BY DEF VaultDelete
<1>3. kept' \in [Conns -> [Keys -> Entries]] /\ session' \in [Conns -> [Keys -> Values]]
  BY <1>0, <1>1, <1>2
<1>4. \A d \in Conns : /\ kept'[d] = IF d = c THEN kc ELSE kept[d]
                       /\ session'[d] = IF d = c THEN sc ELSE session[d]
  BY <1>0, <1>2
<1>5. gone \subseteq S /\ (~Persistent => gone = {})
  BY DEF VaultDelete
<1>6. QED
  BY <1>0, <1>3, <1>4, <1>5

\* One of those a save that failed puts back is done with.
LEMMA UndoneFacts ==
  ASSUME TypeOK, ui.at = "undoing", NEW k \in Keys, NEW accepted \in BOOLEAN, Undone(k, accepted)
  PROVE  /\ ui' \in UiStates /\ ui'.sent = {} /\ (ui'.at # "idle" => ui'.conn \in Conns)
         /\ \/ ui'.at = "idle"
            \/ /\ ui'.at = "undoing" /\ ui'.conn = ui.conn /\ ui'.typed = ui.typed
               /\ ui'.prev = ui.prev /\ ui'.was = ui.was /\ ui'.wrong = ui.wrong
               /\ ui'.done = ui.done \ {k}
         /\ promised' \in Promises
         /\ \A d \in Conns, l \in Keys :
              promised'[d][l] = IF d = ui.conn /\ l = k /\ accepted THEN ui.was[k] ELSE promised[d][l]
<1>0. ui \in UiStates /\ promised \in Promises /\ ui.conn \in Conns /\ ui.was \in [Keys -> Values]
  BY TypeParts DEF TypeOK, UiStates
<1>1. promised' \in Promises /\ \A d \in Conns, l \in Keys :
        promised'[d][l] = IF d = ui.conn /\ l = k /\ accepted THEN ui.was[k] ELSE promised[d][l]
  BY <1>0 DEF Undone, Promises
<1>2. CASE ui' = Idle
  BY <1>1, <1>2, Records
<1>3. CASE ui' = [ui EXCEPT !.done = @ \ {k}, !.sent = {}]
  BY <1>0, <1>1, <1>3 DEF UiStates
<1>4. QED
  BY <1>2, <1>3 DEF Undone

\* A secret that is set, of a save or of one that failed.
LEMMA LandedFacts ==
  ASSUME TypeOK, NEW k \in Keys, Landed(k)
  PROVE  /\ ui.at \in {"setting", "undoing"} /\ ui.conn \in Conns
         /\ ui' \in UiStates /\ ui'.sent = {} /\ (ui'.at # "idle" => ui'.conn \in Conns)
         /\ promised' \in Promises
         /\ ui.at = "setting" =>
              /\ ui'.at = "setting" /\ ui'.conn = ui.conn /\ ui'.typed = ui.typed
              /\ ui'.prev = ui.prev /\ ui'.was = ui.was /\ ui'.wrong = ui.wrong
              /\ ui'.done = ui.done \cup {k} /\ promised' = promised
         /\ ui.at = "undoing" => Undone(k, TRUE) /\ ui'.at \in {"idle", "undoing"}
<1>0. ui \in UiStates /\ promised \in Promises
  BY TypeParts
<1>1. CASE ui.at = "undoing"
  <2>1. Undone(k, TRUE)
    BY <1>1 DEF Landed
  <2>2. QED
    BY <1>1, <2>1, UndoneFacts DEF TypeOK
<1>2. CASE ui.at = "setting"
  <2>1. ui' = [ui EXCEPT !.done = @ \cup {k}, !.sent = {}] /\ promised' = promised
    BY <1>2 DEF Landed
  <2>2. QED
    BY <1>0, <1>2, <2>1 DEF TypeOK, UiStates
<1>3. QED
  BY <1>1, <1>2 DEF Landed

\* The value the vault is given is one.
LEMMA DueFacts ==
  ASSUME TypeOK, NEW k \in Keys, Due(k)
  PROVE  /\ Given[k] \in Values \ {0} /\ ui.conn \in Conns /\ ui.at \in {"setting", "undoing"}
         /\ ui.at = "setting" => k \in ToSet
         /\ ui.at = "undoing" => k \in ui.done /\ ui.prev[k] # 0
BY TypeParts DEF Due, Given, ToSet, Typed, UiStates, TypeOK

\* A job is done with one of the secrets it writes back.
LEMMA RewroteFacts ==
  ASSUME TypeOK, NEW j \in Jobs, NEW c \in Conns, NEW k \in Keys, NEW failed \in BOOLEAN,
         Rewrote(j, c, k, failed)
  PROVE  /\ job' \in [Jobs -> JobStates]
         /\ \A i \in Jobs : i # j => job'[i] = job[i]
         /\ job'[j].at = job[j].at /\ job'[j].kind = job[j].kind /\ job'[j].next = job[j].next
         /\ job'[j].sent = {} /\ job'[j].failed = (job[j].failed \/ failed)
         /\ \A d \in Conns, l \in Keys :
              job'[j].held[d][l] = IF d = c /\ l = k THEN 0 ELSE job[j].held[d][l]
<1>0. job \in [Jobs -> JobStates] /\ job[j] \in JobStates
  BY TypeParts
<1> DEFINE held == [job[j].held EXCEPT ![c] = [job[j].held[c] EXCEPT ![k] = 0]]
<1>1. /\ held \in [Conns -> [Keys -> Values]]
      /\ \A d \in Conns, l \in Keys :
           held[d][l] = IF d = c /\ l = k THEN 0 ELSE job[j].held[d][l]
  <2>1. job[j].held \in [Conns -> [Keys -> Values]]
    BY <1>0 DEF JobStates
  <2>2. QED
    BY <2>1, Zeros
<1> DEFINE r == [job[j] EXCEPT !.held[c][k] = 0, !.sent = {}, !.failed = job[j].failed \/ failed]
<1>2. job' = [job EXCEPT ![j] = r]
  BY DEF Rewrote
<1>3. /\ r \in JobStates /\ r.at = job[j].at /\ r.kind = job[j].kind /\ r.next = job[j].next
      /\ r.sent = {} /\ r.failed = (job[j].failed \/ failed) /\ r.held = held
  <2>1. r = [job[j] EXCEPT !.held = held, !.sent = {}, !.failed = job[j].failed \/ failed]
    OBVIOUS
  <2> HIDE DEF held, r
  <2>2. QED
    BY <1>0, <1>1, <2>1 DEF JobStates
<1> HIDE DEF r
<1>4. job'[j] = r /\ \A i \in Jobs : i # j => job'[i] = job[i]
  BY <1>0, <1>2
<1>5. job' \in [Jobs -> JobStates]
  BY <1>0, <1>2, <1>3
<1>6. QED
  BY <1>1, <1>3, <1>4, <1>5

(***************************************************************************)
(* The type invariant                                                      *)
(***************************************************************************)
LEMMA TypeInit == Init => TypeOK
<1> SUFFICES ASSUME Init PROVE TypeOK
  OBVIOUS
<1>1. file \in [lock : Locks, conns : SUBSET Conns, names : [Conns -> SUBSET Keys]]
  BY Zeros DEF Init
<1>2. kept \in [Conns -> [Keys -> [seal : Locks, value : Values]]]
  BY Records DEF Init, Entries
<1>3. session \in [Conns -> [Keys -> Values]] /\ promised \in [Conns -> [Keys -> Values]]
  BY Records DEF Init
<1>4. ui \in UiStates /\ ui.at = "idle" /\ job \in [Jobs -> JobStates]
  BY Records DEF Init
<1>5. lock \in [id : Locks, open : BOOLEAN] /\ saves \in Values /\ locks \in Locks
  BY Zeros DEF Init
<1>6. QED
  BY <1>1, <1>2, <1>3, <1>4, <1>5 DEF Init, TypeOK, UiStates, JobStates

\* What a save begins with.
LEMMA BeginFacts ==
  ASSUME TypeOK, NEW c \in Conns, NEW typed \in [Keys -> Values], NEW prev \in [Keys -> Values],
         Begin(c, typed, prev)
  PROVE  /\ ui' \in UiStates /\ ui'.at = "setting" /\ ui'.conn = c /\ ui'.typed = typed
         /\ ui'.prev = prev /\ ui'.was = promised[c] /\ ui'.done = {} /\ ui'.sent = {}
         /\ ui'.wrong = {} =>
              \A k \in Keys : typed[k] # 0 => kept[c][k].value \in {0, prev[k]}
         /\ promised' \in Promises
         /\ \A d \in Conns, k \in Keys :
              promised'[d][k] = IF d = c /\ typed[k] # 0 THEN 0 ELSE promised[d][k]
         /\ astray' \subseteq {"lock", "remove"} /\ astray \subseteq astray'
         /\ \A j \in Jobs : job[j].kind # "none" => job[j].kind \in astray'
<1> DEFINE wrong == {how \in {"unread", "stale"} : \E k \in Typed(typed) :
              /\ kept[c][k].value \notin {0, prev[k]}
              /\ how = IF prev[k] = 0 THEN "unread" ELSE "stale"}
<1>0. promised \in Promises /\ promised[c] \in [Keys -> Values] /\ job \in [Jobs -> JobStates]
  BY TypeParts DEF Promises
<1>1. ui' = [at |-> "setting", conn |-> c, typed |-> typed, done |-> {}, sent |-> {},
             prev |-> prev, was |-> promised[c], wrong |-> wrong]
  BY DEF Begin
<1>2. wrong \in SUBSET {"unread", "stale"}
  OBVIOUS
<1>3. ASSUME wrong = {}, NEW k \in Keys, typed[k] # 0 PROVE kept[c][k].value \in {0, prev[k]}
  <2> DEFINE how == IF prev[k] = 0 THEN "unread" ELSE "stale"
  <2>1. how \in {"unread", "stale"} /\ k \in Typed(typed)
    BY <1>3 DEF Typed
  <2>2. ASSUME kept[c][k].value \notin {0, prev[k]} PROVE how \in wrong
    BY <2>1, <2>2
  <2>3. QED
    BY <1>3, <2>2
<1> HIDE DEF wrong
<1>4. /\ ui' \in UiStates /\ ui'.at = "setting" /\ ui'.conn = c /\ ui'.typed = typed
      /\ ui'.prev = prev /\ ui'.was = promised[c] /\ ui'.done = {} /\ ui'.sent = {}
      /\ ui'.wrong = wrong
  BY <1>0, <1>1, <1>2 DEF UiStates
<1>5. /\ promised' \in Promises
      /\ \A d \in Conns, k \in Keys :
           promised'[d][k] = IF d = c /\ typed[k] # 0 THEN 0 ELSE promised[d][k]
  <2> DEFINE pc == [k \in Keys |-> IF typed[k] # 0 THEN 0 ELSE promised[c][k]]
  <2>1. pc \in [Keys -> Values]
    BY <1>0, Zeros
  <2>2. promised' = [promised EXCEPT ![c] = pc]
    BY DEF Begin
  <2>3. QED
    BY <1>0, <2>1, <2>2 DEF Promises
<1>6. /\ astray' \subseteq {"lock", "remove"} /\ astray \subseteq astray'
      /\ \A j \in Jobs : job[j].kind # "none" => job[j].kind \in astray'
  <2> DEFINE kinds == {job[j].kind : j \in Jobs}
  <2>1. astray' = astray \cup (kinds \ {"none"})
    BY DEF Begin
  <2>2. \A j \in Jobs : job[j].kind \in kinds
    OBVIOUS
  <2>3. \A kind \in kinds : kind \in {"none", "lock", "remove"}
    BY <1>0 DEF JobStates
  <2> HIDE DEF kinds
  <2>4. astray \subseteq {"lock", "remove"}
    BY DEF TypeOK
  <2>5. QED
    BY <2>1, <2>2, <2>3, <2>4
<1>7. QED
  BY <1>3, <1>4, <1>5, <1>6

LEMMA TypeBegin ==
  ASSUME TypeOK, NEW c \in Conns, NEW typed \in [Keys -> Values], NEW prev \in [Keys -> Values],
         Begin(c, typed, prev), fresh' \subseteq Conns, saves' \in Values
  PROVE  TypeOK'
<1>1. ui' \in UiStates /\ ui'.conn \in Conns /\ promised' \in Promises
      /\ astray' \subseteq {"lock", "remove"}
  BY BeginFacts
<1>2. QED
  BY <1>1 DEF TypeOK, Begin, UiStates, Promises

\* Of the saves that begin, what is typed and what is read.
LEMMA Beginnings ==
  ASSUME TypeOK, NEW c \in Conns, NEW d \in Conns, NEW S \in SUBSET Keys, NEW unread \in SUBSET Keys,
         saves < MaxSaves
  PROVE  /\ saves + 1 \in Values
         /\ [k \in Keys |-> IF k \in S THEN saves + 1 ELSE 0] \in [Keys -> Values]
         /\ [k \in Keys |-> IF k \in S \ unread THEN VaultGet(c, k) ELSE 0] \in [Keys -> Values]
<1>1. saves + 1 \in Values
  BY VaultBounds DEF Values, TypeOK
<1>2. QED
  BY <1>1, GetValue, Zeros

LEMMA Copies ==
  ASSUME TypeOK, NEW c \in Conns
  PROVE  [k \in Keys |-> IF k \in file.names[c] THEN VaultGet(c, k) ELSE 0] \in [Keys -> Values]
BY GetValue, Zeros

\* The job that starts.
LEMMA StartsFacts ==
  ASSUME TypeOK, NEW j \in Jobs, NEW record \in JobStates, record.kind # "none", Starts(j, record)
  PROVE  /\ job \in [Jobs -> JobStates] /\ job' \in [Jobs -> JobStates]
         /\ job[j].at = "idle" /\ job'[j] = record
         /\ \A i \in Jobs : i # j => job'[i] = job[i]
         /\ astray \subseteq astray' /\ astray' \subseteq {"lock", "remove"}
         /\ ui.at # "idle" => record.kind \in astray'
         /\ crossed' \in BOOLEAN
         /\ ~crossed' => ~crossed /\ \A i \in Jobs : job[i].at = "idle"
<1>0. /\ job \in [Jobs -> JobStates] /\ astray \subseteq {"lock", "remove"}
      /\ record.kind \in {"lock", "remove"}
  BY TypeParts DEF TypeOK, JobStates
<1>1. job' \in [Jobs -> JobStates] /\ job'[j] = record /\ \A i \in Jobs : i # j => job'[i] = job[i]
  BY <1>0 DEF Starts
<1>2. QED
  BY <1>0, <1>1 DEF Starts

LEMMA HeldTypes ==
  ASSUME TypeOK
  PROVE  /\ HeldSecrets \in [Conns -> [Keys -> Values]]
         /\ [c \in Conns |-> [k \in Keys |->
               IF ~Named(c, k) THEN 0
               ELSE IF session[c][k] # 0 THEN session[c][k] ELSE kept[c][k].value]]
              \in [Conns -> [Keys -> Values]]
BY GetValue, Zeros, TypeParts DEF HeldSecrets, Entries

\* The record of a job that locks, and of one that unlocks.
LockJob(held) == [at |-> "saving", kind |-> "lock", next |-> locks + 1,
                  held |-> held, sent |-> {}, failed |-> FALSE]

UnlockJob(held) == [at |-> "setting", kind |-> "remove", next |-> 0, sent |-> {}, failed |-> FALSE,
                    held |-> held]

LEMMA JobRecords ==
  ASSUME NEW held \in [Conns -> [Keys -> Values]], locks + 1 \in Locks
  PROVE  LockJob(held) \in JobStates /\ UnlockJob(held) \in JobStates
BY Zeros DEF LockJob, UnlockJob, JobStates

\* The steps of the window that write a secret or take one back.
LEMMA TypeWriting ==
  ASSUME TypeOK,
         \/ \E k \in Keys : HoldSecret(k) \/ SealSecret(k) \/ TakeBack(k) \/ PutBackRefused(k)
         \/ StoreSecret \/ SetRefused \/ DeleteSecrets
  PROVE  TypeOK'
<1>0. /\ ui \in UiStates /\ promised \in Promises /\ ui.done \in SUBSET Keys
      /\ kept \in [Conns -> [Keys -> Entries]] /\ session \in [Conns -> [Keys -> Values]]
      /\ lock \in [id : Locks, open : BOOLEAN]
  BY TypeParts DEF UiStates
<1>1. ASSUME NEW k \in Keys, HoldSecret(k) PROVE TypeOK'
  <2>1. Given[k] \in Values /\ ui.conn \in Conns
    BY <1>1, DueFacts DEF HoldSecret
  <2>2. session' \in [Conns -> [Keys -> Values]]
    BY <1>1, <2>1, SessionFacts DEF HoldSecret
  <2>3. /\ ui' \in UiStates /\ (ui'.at # "idle" => ui'.conn \in Conns) /\ promised' \in Promises
    BY <1>1, LandedFacts DEF HoldSecret
  <2>4. QED
    BY <1>1, <2>2, <2>3 DEF TypeOK, HoldSecret, UiStates, Promises, counts
<1>2. ASSUME NEW k \in Keys, SealSecret(k) PROVE TypeOK'
  <2>1. ui.conn \in Conns
    BY <1>2, DueFacts DEF SealSecret
  <2>2. Seal(ui.conn, k) \in Sent
    BY <1>0, <2>1 DEF Seal, Sent
  <2>3. ui' \in UiStates /\ ui'.conn = ui.conn
    BY <1>0, <1>2, <2>2 DEF SealSecret, UiStates
  <2>4. QED
    BY <1>2, <2>1, <2>3 DEF TypeOK, SealSecret, UiStates, counts, history
<1>3. ASSUME NEW k \in Keys, TakeBack(k) PROVE TypeOK'
  <2>1. ui.conn \in Conns /\ ui.at = "undoing"
    BY <1>3 DEF TakeBack, TypeOK
  <2>2. PICK gone \in SUBSET {k} :
          VaultDelete(ui.conn, {k}, gone) /\ Undone(k, ~Persistent \/ gone = {k})
    BY <1>3 DEF TakeBack
  <2>3. kept' \in [Conns -> [Keys -> Entries]] /\ session' \in [Conns -> [Keys -> Values]]
    BY <2>1, <2>2, DeleteFacts
  <2>4. (~Persistent \/ gone = {k}) \in BOOLEAN
    OBVIOUS
  <2>5. ui' \in UiStates /\ (ui'.at # "idle" => ui'.conn \in Conns) /\ promised' \in Promises
    BY <2>1, <2>2, <2>4, UndoneFacts
  <2>6. QED
    BY <1>3, <2>3, <2>5 DEF TypeOK, TakeBack, UiStates, Promises, Entries, counts
<1>4. ASSUME NEW k \in Keys, PutBackRefused(k) PROVE TypeOK'
  <2>1. ui' \in UiStates /\ (ui'.at # "idle" => ui'.conn \in Conns) /\ promised' \in Promises
    BY <1>4, UndoneFacts DEF PutBackRefused
  <2>2. QED
    BY <1>4, <2>1 DEF TypeOK, PutBackRefused, UiStates, Promises, counts
<1>5. CASE StoreSecret
  <2>1. PICK w \in ui.sent : Store(w, Given[w.key]) /\ Landed(w.key)
    BY <1>5 DEF StoreSecret
  <2>2. w \in Sent /\ w.key \in Keys
    BY <1>0 DEF UiStates, Sent
  <2>3. /\ ui' \in UiStates /\ (ui'.at # "idle" => ui'.conn \in Conns) /\ promised' \in Promises
    BY <2>1, <2>2, LandedFacts
  <2>4. Given[w.key] \in Values
    BY <1>0, <2>2 DEF Given, UiStates
  <2>5. kept' \in [Conns -> [Keys -> Entries]]
    BY <2>1, <2>2, <2>4, StoreFacts
  <2>6. QED
    BY <1>5, <2>3, <2>5 DEF TypeOK, StoreSecret, UiStates, Promises, Entries, counts
<1>6. CASE SetRefused
  <2>1. PICK gone \in SUBSET ui.done : VaultDelete(ui.conn, ui.done, gone)
    BY <1>6 DEF SetRefused
  <2>2. ui.conn \in Conns
    BY <1>6 DEF SetRefused, TypeOK
  <2>3. kept' \in [Conns -> [Keys -> Entries]] /\ session' \in [Conns -> [Keys -> Values]]
    BY <1>0, <2>1, <2>2, DeleteFacts
  <2>4. promised' \in Promises
    <3> DEFINE pc == [k \in Keys |-> IF k \in ToSet THEN ui.was[k] ELSE promised[ui.conn][k]]
    <3>1. pc \in [Keys -> Values]
      BY <1>0, <2>2 DEF UiStates, Promises
    <3>2. promised' = [promised EXCEPT ![ui.conn] = pc]
      BY <1>6 DEF SetRefused
    <3>3. QED
      BY <1>0, <3>1, <3>2 DEF Promises
  <2>5. QED
    BY <1>6, <2>3, <2>4, Records DEF TypeOK, SetRefused, UiStates, Entries, Promises, counts
<1>7. CASE DeleteSecrets
  <2>1. PICK gone \in SUBSET ui.done : VaultDelete(ui.conn, ui.done, gone)
    BY <1>7 DEF DeleteSecrets
  <2>2. ui.conn \in Conns
    BY <1>7 DEF DeleteSecrets, TypeOK
  <2>3. kept' \in [Conns -> [Keys -> Entries]] /\ session' \in [Conns -> [Keys -> Values]]
    BY <1>0, <2>1, <2>2, DeleteFacts
  <2>4. QED
    BY <1>7, <2>3, Records DEF TypeOK, DeleteSecrets, UiStates, Entries, counts, history
<1>8. QED
  BY <1>1, <1>2, <1>3, <1>4, <1>5, <1>6, <1>7

\* The other steps of the window.
LEMMA TypeSaving ==
  ASSUME TypeOK, SaveSettings \/ SaveRefused \/ (\E c \in Conns : Delete(c)) \/ CloseVault \/ UnlockVault
  PROVE  TypeOK'
<1>0. ui \in UiStates /\ promised \in Promises /\ file \in Files /\ lock \in [id : Locks, open : BOOLEAN]
  BY TypeParts
<1>1. CASE SaveSettings
  <2>1. ui.conn \in Conns
    BY <1>1 DEF SaveSettings, TypeOK
  <2> DEFINE pc == [k \in Keys |-> IF k \in Typed(ui.typed) /\ Persistent THEN ui.typed[k]
                                    ELSE promised[ui.conn][k]]
  <2>2. pc \in [Keys -> Values]
    BY <1>0, <2>1 DEF UiStates, Promises
  <2>3. promised' = [promised EXCEPT ![ui.conn] = pc]
    BY <1>1 DEF SaveSettings
  <2>4. promised' \in Promises
    BY <1>0, <2>2, <2>3 DEF Promises
  <2>5. file' \in Files
    BY <1>0, <1>1, <2>1 DEF SaveSettings, Typed, Files
  <2>6. QED
    BY <1>1, <2>4, <2>5, Records DEF TypeOK, SaveSettings, UiStates, Promises, Files, counts
<1>2. CASE SaveRefused
  <2>1. ui' \in UiStates /\ (ui'.at # "idle" => ui'.conn = ui.conn)
    BY <1>0, <1>2, Records DEF SaveRefused, UiStates
  <2>2. misread' \subseteq {"unread", "stale"} /\ ui.conn \in Conns
    BY <1>0, <1>2 DEF SaveRefused, UiStates, TypeOK
  <2>3. QED
    BY <1>2, <2>1, <2>2 DEF TypeOK, SaveRefused, UiStates, counts
<1>3. ASSUME NEW c \in Conns, Delete(c) PROVE TypeOK'
  <2>1. file' \in Files
    BY <1>0, <1>3 DEF Delete, Files
  <2>2. ui' \in UiStates /\ ui'.conn = c
    BY <1>0, <1>3, Records DEF Delete, UiStates, Files
  <2>3. promised' \in Promises
    BY <1>0, <1>3, Records DEF Delete, Promises
  <2>4. QED
    BY <1>3, <2>1, <2>2, <2>3 DEF TypeOK, Delete, UiStates, Promises, Files, counts
<1>4. CASE CloseVault \/ UnlockVault
  <2>1. lock' \in [id : Locks, open : BOOLEAN]
    BY <1>0, <1>4 DEF CloseVault, UnlockVault
  <2>2. UNCHANGED <<mode, file, kept, session, ui, job, counts, history>>
    BY <1>4 DEF CloseVault, UnlockVault
  <2>3. QED
    BY <2>1, <2>2 DEF TypeOK, counts, history
<1>5. QED
  BY <1>1, <1>2, <1>3, <1>4

\* The steps of a job.
LEMMA TypeLocking ==
  ASSUME TypeOK, NEW j \in Jobs,
         \/ LockVault(j) \/ RemoveVaultLock(j) \/ SaveLock(j) \/ SetLock(j)
         \/ \E c \in Conns, k \in Keys :
              WriteInSession(j, c, k) \/ SealBack(j, c, k) \/ WriteRefused(j, c, k)
         \/ StoreBack(j) \/ AllWritten(j)
  PROVE  TypeOK'
<1>0. /\ job \in [Jobs -> JobStates] /\ job[j] \in JobStates /\ file \in Files
      /\ lock \in [id : Locks, open : BOOLEAN] /\ astray \subseteq {"lock", "remove"}
  BY TypeParts DEF TypeOK
<1>1. CASE LockVault(j)
  <2>1. locks + 1 \in Locks
    BY <1>1, VaultBounds DEF LockVault, TypeOK, Locks
  <2> DEFINE r == LockJob(HeldSecrets)
  <2>2. r \in JobStates /\ r.kind = "lock"
    BY <2>1, HeldTypes, JobRecords DEF LockJob
  <2>3. Starts(j, r)
    BY <1>1 DEF LockVault, LockJob
  <2> HIDE DEF r
  <2>4. job' \in [Jobs -> JobStates] /\ astray' \subseteq {"lock", "remove"} /\ crossed' \in BOOLEAN
    BY <2>2, <2>3, StartsFacts
  <2>5. changed' \in BOOLEAN
    BY <1>1 DEF LockVault, TypeOK
  <2>6. QED
    BY <1>1, <2>1, <2>4, <2>5 DEF TypeOK, LockVault, JobStates
<1>2. CASE RemoveVaultLock(j)
  <2> DEFINE held == [c \in Conns |-> [k \in Keys |->
                  IF ~Named(c, k) THEN 0
                  ELSE IF session[c][k] # 0 THEN session[c][k] ELSE kept[c][k].value]]
  <2> DEFINE r == UnlockJob(held)
  <2>1. Starts(j, r)
    BY <1>2 DEF RemoveVaultLock, UnlockJob
  <2>2. held \in [Conns -> [Keys -> Values]]
    BY HeldTypes
  <2> HIDE DEF held
  <2>3. r \in JobStates /\ r.kind = "remove"
    BY <2>2, Zeros DEF UnlockJob, JobStates
  <2> HIDE DEF r
  <2>4. job' \in [Jobs -> JobStates] /\ astray' \subseteq {"lock", "remove"} /\ crossed' \in BOOLEAN
    BY <2>1, <2>3, StartsFacts
  <2>5. lock' \in [id : Locks, open : BOOLEAN]
    BY <1>0, <1>2 DEF RemoveVaultLock
  <2>6. QED
    BY <1>2, <2>4, <2>5 DEF TypeOK, RemoveVaultLock, JobStates, counts
<1>3. CASE SaveLock(j)
  <2>1. file' \in Files
    BY <1>0, <1>3 DEF SaveLock, JobStates, Files
  <2>2. job' \in [Jobs -> JobStates]
    <3>1. [job[j] EXCEPT !.at = "setting"] \in JobStates
      BY <1>0 DEF JobStates
    <3>2. QED
      BY <1>0, <1>3, <3>1, Records DEF SaveLock
  <2>3. sealed' \in BOOLEAN
    BY <1>3 DEF SaveLock, TypeOK
  <2>4. QED
    BY <1>3, <2>1, <2>2, <2>3 DEF TypeOK, SaveLock, Files, JobStates, counts
<1>4. CASE SetLock(j)
  <2>1. job' \in [Jobs -> JobStates]
    <3>1. [job[j] EXCEPT !.at = "writing"] \in JobStates
      BY <1>0 DEF JobStates
    <3>2. QED
      BY <1>0, <1>4, <3>1 DEF SetLock
  <2>2. lock' \in [id : Locks, open : BOOLEAN]
    BY <1>0, <1>4 DEF SetLock, JobStates
  <2>3. QED
    BY <1>4, <2>1, <2>2 DEF TypeOK, SetLock, JobStates, counts, history
<1>5. ASSUME NEW c \in Conns, NEW k \in Keys, WriteInSession(j, c, k) PROVE TypeOK'
  <2>1. job[j].held[c][k] \in Values
    BY <1>0 DEF JobStates
  <2>2. session' \in [Conns -> [Keys -> Values]]
    BY <1>5, <2>1, SessionFacts DEF WriteInSession
  <2>3. job' \in [Jobs -> JobStates]
    BY <1>5, RewroteFacts DEF WriteInSession
  <2>4. QED
    BY <1>5, <2>2, <2>3 DEF TypeOK, WriteInSession, JobStates, counts, history
<1>6. ASSUME NEW c \in Conns, NEW k \in Keys, SealBack(j, c, k) PROVE TypeOK'
  <2>1. Seal(c, k) \in Sent
    BY <1>0 DEF Seal, Sent
  <2>2. [job[j] EXCEPT !.sent = {Seal(c, k)}] \in JobStates
    BY <1>0, <2>1 DEF JobStates
  <2>3. job' = [job EXCEPT ![j] = [job[j] EXCEPT !.sent = {Seal(c, k)}]]
    BY <1>6 DEF SealBack
  <2>4. job' \in [Jobs -> JobStates]
    BY <1>0, <2>2, <2>3
  <2>5. QED
    BY <1>6, <2>4 DEF TypeOK, SealBack, JobStates, counts, history
<1>7. ASSUME NEW c \in Conns, NEW k \in Keys, WriteRefused(j, c, k) PROVE TypeOK'
  <2>1. job' \in [Jobs -> JobStates]
    BY <1>7, RewroteFacts DEF WriteRefused
  <2>2. QED
    BY <1>7, <2>1 DEF TypeOK, WriteRefused, JobStates, counts, history
<1>8. CASE StoreBack(j)
  <2>1. PICK w \in job[j].sent :
          Store(w, job[j].held[w.conn][w.key]) /\ Rewrote(j, w.conn, w.key, FALSE)
    BY <1>8 DEF StoreBack
  <2>2. w \in Sent /\ w.conn \in Conns /\ w.key \in Keys
    BY <1>0 DEF JobStates, Sent
  <2>3. job[j].held[w.conn][w.key] \in Values
    BY <1>0, <2>2 DEF JobStates
  <2>4. kept' \in [Conns -> [Keys -> Entries]]
    BY <2>1, <2>2, <2>3, StoreFacts
  <2>5. job' \in [Jobs -> JobStates]
    BY <2>1, <2>2, RewroteFacts
  <2>6. QED
    BY <1>8, <2>4, <2>5 DEF TypeOK, StoreBack, JobStates, Entries, counts, history
<1>9. CASE AllWritten(j)
  <2>1. job' \in [Jobs -> JobStates]
    <3>1. [job[j] EXCEPT !.at = "saving"] \in JobStates
      BY <1>0 DEF JobStates
    <3>2. QED
      BY <1>0, <1>9, <3>1, Records DEF AllWritten
  <2>2. sealed' \in BOOLEAN
    BY <1>9 DEF AllWritten, TypeOK
  <2>3. QED
    BY <1>9, <2>1, <2>2 DEF TypeOK, AllWritten, JobStates, counts
<1>10. QED
  BY <1>1, <1>2, <1>3, <1>4, <1>5, <1>6, <1>7, <1>8, <1>9

LEMMA TypeStep == TypeOK /\ [Next]_vars => TypeOK'
<1> SUFFICES ASSUME TypeOK, [Next]_vars PROVE TypeOK'
  OBVIOUS
<1>1. ASSUME NEW c \in Conns, NEW S \in SUBSET Keys, Create(c, S) PROVE TypeOK'
  <2>1. saves' \in Values /\ fresh' \subseteq Conns
        /\ [k \in Keys |-> IF k \in S THEN saves + 1 ELSE 0] \in [Keys -> Values]
    BY <1>1, Beginnings DEF Create, TypeOK
  <2>2. QED
    BY <1>1, <2>1, Records, TypeBegin DEF Create
<1>2. ASSUME NEW c \in Conns, NEW S \in SUBSET Keys, NEW unread \in SUBSET Keys, Update(c, S, unread)
      PROVE  TypeOK'
  <2>1. saves' \in Values /\ fresh' \subseteq Conns
        /\ [k \in Keys |-> IF k \in S THEN saves + 1 ELSE 0] \in [Keys -> Values]
        /\ [k \in Keys |-> IF k \in S \ unread THEN VaultGet(c, k) ELSE 0] \in [Keys -> Values]
    BY <1>2, Beginnings DEF Update, TypeOK
  <2>2. QED
    BY <1>2, <2>1, TypeBegin DEF Update
<1>3. ASSUME NEW c \in Conns, NEW d \in Conns, Duplicate(c, d) PROVE TypeOK'
  <2>1. saves' \in Values /\ fresh' \subseteq Conns
    BY <1>3 DEF Duplicate, TypeOK
  <2>2. QED
    BY <1>3, <2>1, Copies, Records, TypeBegin DEF Duplicate
<1>4. CASE Restart
  <2>1. lock' \in [id : Locks, open : BOOLEAN] /\ session' \in [Conns -> [Keys -> Values]]
    BY <1>4, Records, TypeParts DEF Restart, Files
  <2>2. ui' \in UiStates /\ ui'.at = "idle" /\ job' \in [Jobs -> JobStates]
    BY <1>4, Records DEF Restart
  <2>3. QED
    BY <1>4, <2>1, <2>2 DEF TypeOK, Restart, UiStates, JobStates, counts, history
<1>5. CASE UNCHANGED vars
  BY <1>5 DEF TypeOK, vars, counts, history
<1>6. QED
  BY <1>1, <1>2, <1>3, <1>4, <1>5, TypeWriting, TypeSaving, TypeLocking DEF Next, Window, Locking

(***************************************************************************)
(* The inductive invariant                                                 *)
(***************************************************************************)
\* A save is writing secrets, or putting them back.
Saving == ui.at \in {"setting", "undoing"}

\* A secret the save in hand has written and the settings do not name yet.
Flying(c, k) == ui.at = "setting" /\ c = ui.conn /\ k \in ui.done

Live(c, k) == Named(c, k) \/ Flying(c, k)

\* What each kind of vault never holds, and what is sealed and not yet stored.
Shape ==
  /\ \A c \in Conns : c \notin file.conns => file.names[c] = {}
  /\ \A c \in Conns, k \in Keys : kept[c][k].value = 0 => kept[c][k].seal = 0
  /\ mode = "keychain" => \A c \in Conns, k \in Keys : session[c][k] = 0
  /\ mode = "none" \/ (mode = "portable" /\ (lock.id = 0 \/ file.lock = 0)) =>
       \A c \in Conns, k \in Keys : kept[c][k] = Nothing
  /\ mode = "portable" /\ lock.id # 0 => file.lock # 0
  /\ \A w \in ui.sent :
       /\ Saving /\ Persistent /\ w.conn = ui.conn
       /\ ui.at = "setting" => w.key \in ToSet
       /\ ui.at = "undoing" => w.key \in ui.done /\ ui.prev[w.key] # 0
  /\ \A j \in Jobs : \A w \in job[j].sent :
       Persistent /\ job[j].at = "writing" /\ job[j].held[w.conn][w.key] # 0

\* Where each kind of job is, and that no save overlaps one unnoticed.
Phases ==
  \A j \in Jobs :
    /\ job[j].kind = "none" <=> job[j].at = "idle"
    /\ job[j].kind = "lock" => job[j].next # 0
    /\ job[j].kind = "remove" => job[j].next = 0 /\ mode # "portable"
    /\ mode = "portable" /\ job[j].at \in {"setting", "writing"} => file.lock # 0
    /\ job[j].kind = "remove" /\ job[j].at = "saving" =>
         ~job[j].failed /\ \A c \in Conns, k \in Keys : job[j].held[c][k] = 0
    /\ job[j].kind # "none" /\ Saving => job[j].kind \in astray

\* Which lock is where while a job runs that no other overlaps.
Alone ==
  ~crossed =>
    /\ \A i, j \in Jobs : job[i].kind # "none" /\ job[j].kind # "none" => i = j
    /\ \A j \in Jobs :
         /\ job[j].kind = "lock" /\ job[j].at \in {"setting", "writing"} => file.lock = job[j].next
         /\ job[j].at = "writing" => lock.id = job[j].next
         /\ job[j].kind = "remove" /\ job[j].at = "saving" => lock.id = 0
         /\ \A w \in job[j].sent : w.seal = job[j].next

\* StillReads, of the secrets in flight too; and while a lock comes off, what is still
\* sealed is still to be written back.
Reading ==
  ~changed /\ ~crossed /\ "remove" \notin astray =>
    /\ lock.id \in {0, file.lock}
    /\ \A c \in Conns, k \in Keys : Live(c, k) => kept[c][k].seal \in {0, file.lock}
    /\ lock.id = 0 => \A c \in Conns, k \in Keys : Flying(c, k) => kept[c][k].seal = 0
    /\ \A w \in ui.sent : w.seal \in {0, lock.id}
    /\ \A j \in Jobs :
         /\ job[j].kind = "lock" /\ job[j].at \in {"saving", "setting"} =>
              /\ lock.id = 0
              /\ \A c \in Conns, k \in Keys : Named(c, k) => kept[c][k].seal = 0
         /\ job[j].kind = "remove" /\ ~job[j].failed =>
              \A c \in Conns, k \in Keys :
                Named(c, k) /\ job[j].held[c][k] = 0 => kept[c][k].seal = 0

\* SealedOnceLocked, likewise.
Sealing ==
  ~crossed /\ "lock" \notin astray =>
    /\ sealed => /\ lock.id # 0 /\ file.lock # 0
                 /\ \A j \in Jobs : job[j].kind # "remove"
                 /\ \A w \in ui.sent : w.seal # 0
                 /\ \A c \in Conns, k \in Keys :
                      Live(c, k) /\ kept[c][k].value # 0 => kept[c][k].seal # 0
    /\ \A j \in Jobs :
         /\ job[j].kind = "lock" /\ job[j].at \in {"saving", "setting"} =>
              \A c \in Conns, k \in Keys :
                Named(c, k) /\ job[j].held[c][k] = 0 => kept[c][k].value = 0
         /\ job[j].kind = "lock" /\ job[j].at = "writing" /\ ~job[j].failed =>
              \A c \in Conns, k \in Keys :
                Named(c, k) /\ job[j].held[c][k] = 0 /\ kept[c][k].value # 0 => kept[c][k].seal # 0

IInv == TypeOK /\ Shape /\ Phases /\ Alone /\ Reading /\ Sealing

LEMMA InvInit == Init => IInv
<1> SUFFICES ASSUME Init PROVE IInv
  OBVIOUS
<1>1. /\ \A c \in Conns, k \in Keys : kept[c][k] = Nothing /\ session[c][k] = 0
      /\ \A j \in Jobs : job[j] = NoJob
      /\ ui.at = "idle" /\ ui.sent = {}
  BY Records DEF Init, Blank
<1>2. Shape
  BY <1>1, Records DEF Init, Shape
<1>3. Phases /\ Alone
  BY <1>1, Records DEF Init, Phases, Alone, Saving
<1>4. Reading
  BY <1>1, Records DEF Init, Reading, Live, Named, Flying
<1>5. Sealing
  BY <1>1, Records DEF Init, Sealing
<1>6. QED
  BY TypeInit, <1>2, <1>3, <1>4, <1>5 DEF IInv

\* A vault that keeps nothing has nothing kept.
LEMMA Transient ==
  ASSUME TypeOK, Shape, ~Persistent
  PROVE  mode # "keychain" /\ \A c \in Conns, k \in Keys : kept[c][k] = Nothing
BY DEF TypeOK, Shape, Persistent

(***************************************************************************)
(* The window's steps that write secrets, seen one secret at a time        *)
(***************************************************************************)
Writing == \/ \E k \in Keys : HoldSecret(k) \/ SealSecret(k) \/ TakeBack(k) \/ PutBackRefused(k)
           \/ StoreSecret \/ SetRefused \/ SaveRefused \/ DeleteSecrets

\* A secret is as it was, or is gone, or is what the save had sealed.
Written ==
  /\ UNCHANGED <<mode, file, lock, job, astray, crossed, changed, sealed>>
  /\ ui.at # "idle" /\ (Saving' => Saving) /\ (ui'.at = "setting" => ui.at = "setting")
  /\ \A d \in Conns, l \in Keys :
       /\ \/ kept'[d][l] = kept[d][l]
          \/ kept'[d][l] = Nothing
          \/ \E w \in ui.sent : kept'[d][l].seal = w.seal /\ kept'[d][l].value # 0
       /\ ~Persistent => kept'[d][l] = kept[d][l]
       /\ Persistent => session'[d][l] \in {0, session[d][l]}
       /\ Flying(d, l)' =>
            \/ Flying(d, l) \/ ~Persistent
            \/ \E w \in ui.sent : kept'[d][l].seal = w.seal /\ kept'[d][l].value # 0
  /\ \A w \in ui'.sent :
       /\ w \in ui.sent \/ w.seal = lock.id
       /\ Saving' /\ Persistent /\ w.conn = ui'.conn
       /\ ui'.at = "setting" => w.key \in ToSet'
       /\ ui'.at = "undoing" => w.key \in ui'.done /\ ui'.prev[w.key] # 0

LEMMA WritingWritten == TypeOK /\ Shape /\ Writing => Written
<1> SUFFICES ASSUME TypeOK, Shape, Writing PROVE Written
  OBVIOUS
<1>0. /\ ui \in UiStates /\ ui.done \in SUBSET Keys /\ kept \in [Conns -> [Keys -> Entries]]
      /\ session \in [Conns -> [Keys -> Values]]
  BY TypeParts DEF UiStates
<1>1. ASSUME NEW k \in Keys, HoldSecret(k) PROVE Written
  <2>1. Landed(k) /\ ~Persistent /\ UNCHANGED kept
    BY <1>1 DEF HoldSecret, SetInSession
  <2>2. UNCHANGED <<mode, file, lock, job, astray, crossed, changed, sealed>>
    BY <1>1 DEF HoldSecret
  <2>3. ui'.sent = {} /\ Saving /\ (ui'.at = "setting" => ui.at = "setting") /\ ui.at # "idle"
    BY <2>1, LandedFacts DEF Saving
  <2>4. QED
    BY <2>1, <2>2, <2>3 DEF Written
<1>2. ASSUME NEW k \in Keys, SealSecret(k) PROVE Written
  <2>1. /\ UNCHANGED <<mode, file, lock, job, kept, session, astray, crossed, changed, sealed>>
        /\ Persistent /\ Due(k)
    BY <1>2 DEF SealSecret, CanSeal, history
  <2>2. /\ ui'.at = ui.at /\ ui'.conn = ui.conn /\ ui'.typed = ui.typed /\ ui'.done = ui.done
        /\ ui'.prev = ui.prev /\ ui'.sent = {Seal(ui.conn, k)}
    BY <1>0, <1>2 DEF SealSecret, UiStates
  <2>3. Saving /\ (ui.at = "setting" => k \in ToSet)
        /\ (ui.at = "undoing" => k \in ui.done /\ ui.prev[k] # 0)
    BY <2>1, DueFacts DEF Saving
  <2>4. ToSet' = ToSet
    BY <2>2 DEF ToSet, Typed
  <2>5. /\ Seal(ui.conn, k).conn = ui.conn /\ Seal(ui.conn, k).key = k
        /\ Seal(ui.conn, k).seal = lock.id
    BY DEF Seal
  <2>6. \A d \in Conns, l \in Keys : Flying(d, l)' => Flying(d, l)
    BY <2>2 DEF Flying
  <2>7. QED
    BY <2>1, <2>2, <2>3, <2>4, <2>5, <2>6 DEF Written, Saving
<1>3. ASSUME NEW k \in Keys, TakeBack(k) PROVE Written
  <2>1. ui.conn \in Conns /\ ui.at = "undoing"
    BY <1>3 DEF TakeBack, TypeOK
  <2>2. PICK gone \in SUBSET {k} :
          VaultDelete(ui.conn, {k}, gone) /\ Undone(k, ~Persistent \/ gone = {k})
    BY <1>3 DEF TakeBack
  <2>3. \A d \in Conns, l \in Keys :
          /\ kept'[d][l] = kept[d][l] \/ kept'[d][l] = Nothing
          /\ session'[d][l] = session[d][l] \/ session'[d][l] = 0
          /\ ~Persistent => kept'[d][l] = kept[d][l]
    <3>1. {k} \in SUBSET Keys
      OBVIOUS
    <3>2. QED
      BY <2>1, <2>2, <3>1, DeleteFacts
  <2>4. (~Persistent \/ gone = {k}) \in BOOLEAN
    OBVIOUS
  <2>5. ui'.sent = {} /\ ui'.at \in {"idle", "undoing"}
    BY <2>1, <2>2, <2>4, UndoneFacts
  <2>6. UNCHANGED <<mode, file, lock, job, astray, crossed, changed, sealed>>
    BY <1>3 DEF TakeBack
  <2>7. QED
    BY <2>1, <2>3, <2>5, <2>6 DEF Written, Saving, Flying
<1>4. ASSUME NEW k \in Keys, PutBackRefused(k) PROVE Written
  <2>1. ui'.sent = {} /\ ui'.at \in {"idle", "undoing"} /\ ui.at = "undoing"
    BY <1>4, UndoneFacts DEF PutBackRefused
  <2>2. UNCHANGED <<mode, file, kept, session, lock, job, astray, crossed, changed, sealed>>
    BY <1>4 DEF PutBackRefused
  <2>3. QED
    BY <2>1, <2>2 DEF Written, Saving, Flying
<1>5. ASSUME StoreSecret PROVE Written
  <2>1. PICK w \in ui.sent : Store(w, Given[w.key]) /\ Landed(w.key)
    BY <1>5 DEF StoreSecret
  <2>2. w \in Sent /\ w.key \in Keys /\ w.conn = ui.conn /\ Persistent /\ Saving
    BY <1>0 DEF UiStates, Sent, Shape
  <2>3. Given[w.key] \in Values \ {0}
    BY <1>0, <2>2 DEF Given, UiStates, Shape, ToSet, Typed, Saving
  <2>4. \A d \in Conns, l \in Keys :
              kept'[d][l] = IF d = w.conn /\ l = w.key THEN [seal |-> w.seal, value |-> Given[w.key]]
                            ELSE kept[d][l]
    BY <2>1, <2>2, <2>3, StoreFacts
  <2>5. /\ ui'.sent = {} /\ ui'.at \in {"idle", "setting", "undoing"}
        /\ ui'.at = "setting" => ui.at = "setting" /\ ui'.conn = ui.conn /\ ui'.done = ui.done \cup {w.key}
    BY <2>1, <2>2, LandedFacts
  <2>6. UNCHANGED <<mode, file, session, lock, job, astray, crossed, changed, sealed>>
    BY <1>5 DEF StoreSecret
  <2>7. \A d \in Conns, l \in Keys :
          kept'[d][l] = kept[d][l] \/ (kept'[d][l].seal = w.seal /\ kept'[d][l].value # 0)
    BY <2>3, <2>4
  <2>8. ASSUME NEW d \in Conns, NEW l \in Keys, Flying(d, l)'
        PROVE  Flying(d, l) \/ (kept'[d][l].seal = w.seal /\ kept'[d][l].value # 0)
    <3>1. ui.at = "setting" /\ d = ui.conn /\ l \in ui.done \cup {w.key}
      BY <2>5, <2>8 DEF Flying
    <3>2. CASE l = w.key
      BY <2>2, <2>3, <2>4, <3>1, <3>2
    <3>3. QED
      BY <3>1, <3>2 DEF Flying
  <2>9. QED
    BY <2>1, <2>2, <2>5, <2>6, <2>7, <2>8 DEF Written, Saving
<1>6. ASSUME SetRefused \/ DeleteSecrets PROVE Written
  <2>1. PICK gone \in SUBSET ui.done : VaultDelete(ui.conn, ui.done, gone)
    BY <1>6 DEF SetRefused, DeleteSecrets
  <2>2. ui.conn \in Conns
    BY <1>6 DEF SetRefused, DeleteSecrets, TypeOK
  <2>3. \A d \in Conns, l \in Keys :
          /\ kept'[d][l] = kept[d][l] \/ kept'[d][l] = Nothing
          /\ session'[d][l] = session[d][l] \/ session'[d][l] = 0
          /\ ~Persistent => kept'[d][l] = kept[d][l]
    BY <1>0, <2>1, <2>2, DeleteFacts
  <2>4. /\ ui.at # "idle" /\ ui' = Idle
        /\ UNCHANGED <<mode, file, lock, job, astray, crossed, changed, sealed>>
    BY <1>6 DEF SetRefused, DeleteSecrets, counts, history
  <2>5. QED
    BY <2>3, <2>4, Records DEF Written, Flying, Saving
<1>7. ASSUME SaveRefused PROVE Written
  <2>1. /\ ui.at = "setting" /\ ToSet = {}
        /\ UNCHANGED <<mode, file, kept, session, lock, job, astray, crossed, changed, sealed>>
    BY <1>7 DEF SaveRefused
  <2>2. ui.sent = {}
    BY <2>1 DEF Shape
  <2>3. ui'.sent = {} /\ ui'.at \in {"idle", "undoing"}
    BY <1>0, <1>7, <2>2, Records DEF SaveRefused, UiStates
  <2>4. QED
    BY <2>1, <2>3 DEF Written, Flying, Saving
<1>8. QED
  BY <1>1, <1>2, <1>3, <1>4, <1>5, <1>6, <1>7 DEF Writing


LEMMA WritingStep == IInv /\ Writing => Shape' /\ Phases' /\ Alone' /\ Reading' /\ Sealing'
<1> SUFFICES ASSUME IInv, Writing PROVE Shape' /\ Phases' /\ Alone' /\ Reading' /\ Sealing'
  OBVIOUS
<1>1. Written
  BY WritingWritten DEF IInv
<1>2. /\ UNCHANGED <<mode, file, lock, job, astray, crossed, changed, sealed>>
      /\ Saving' => Saving
  BY <1>1 DEF Written
<1>3. /\ \A c \in Conns, k \in Keys : Named(c, k)' <=> Named(c, k)
      /\ Persistent' <=> Persistent
  BY <1>2 DEF Named, Persistent
<1>4. ~Persistent => /\ mode # "keychain"
                     /\ \A c \in Conns, k \in Keys : kept[c][k].seal = 0 /\ kept[c][k].value = 0
  BY Transient, Records DEF IInv
<1>5. \A c \in Conns, k \in Keys :
        \/ kept'[c][k].seal = kept[c][k].seal /\ kept'[c][k].value = kept[c][k].value
        \/ kept'[c][k].seal = 0 /\ kept'[c][k].value = 0
        \/ \E w \in ui.sent : kept'[c][k].seal = w.seal /\ kept'[c][k].value # 0
  <2>1. \A c \in Conns, k \in Keys :
          \/ kept'[c][k] = kept[c][k] \/ kept'[c][k] = Nothing
          \/ \E w \in ui.sent : kept'[c][k].seal = w.seal /\ kept'[c][k].value # 0
    BY <1>1 DEF Written
  <2>2. QED
    BY <2>1, Records
<1>6. \A c \in Conns, k \in Keys : Flying(c, k)' =>
        \/ Flying(c, k) \/ (kept'[c][k].seal = 0 /\ kept'[c][k].value = 0)
        \/ \E w \in ui.sent : kept'[c][k].seal = w.seal /\ kept'[c][k].value # 0
  <2>1. \A c \in Conns, k \in Keys : ~Persistent => kept'[c][k] = kept[c][k]
    BY <1>1 DEF Written
  <2>2. \A c \in Conns, k \in Keys : Flying(c, k)' =>
          \/ Flying(c, k) \/ ~Persistent
          \/ \E w \in ui.sent : kept'[c][k].seal = w.seal /\ kept'[c][k].value # 0
    BY <1>1 DEF Written
  <2>3. QED
    BY <1>4, <2>1, <2>2
<1>7. \A w \in ui'.sent : w \in ui.sent \/ w.seal = lock.id
  BY <1>1 DEF Written
<1>8. /\ ui.sent # {} => Saving
      /\ \A j \in Jobs : Saving /\ job[j].kind # "none" => job[j].kind \in astray
  BY DEF IInv, Shape, Phases
<1>9. Shape'
  <2>1. \A c \in Conns : c \notin file'.conns => file'.names[c] = {}
    BY <1>2 DEF IInv, Shape
  <2>2. \A c \in Conns, k \in Keys : kept'[c][k].value = 0 => kept'[c][k].seal = 0
    BY <1>5 DEF IInv, Shape
  <2>3. mode' = "keychain" => \A c \in Conns, k \in Keys : session'[c][k] = 0
    <3>1. Persistent => \A c \in Conns, k \in Keys : session'[c][k] \in {0, session[c][k]}
      BY <1>1 DEF Written
    <3>2. QED
      BY <1>2, <3>1 DEF IInv, Shape, Persistent
  <2>4. /\ mode = "portable" /\ lock.id # 0 => file.lock # 0
        /\ \A c \in Conns, k \in Keys : ~Persistent => kept'[c][k] = kept[c][k]
    BY <1>1 DEF IInv, Shape, Written
  <2>5. mode' = "none" \/ (mode' = "portable" /\ (lock'.id = 0 \/ file'.lock = 0)) =>
          \A c \in Conns, k \in Keys : kept'[c][k] = Nothing
    BY <1>2, <2>4 DEF IInv, Shape, Persistent
  <2>6. \A w \in ui'.sent :
          /\ Saving' /\ Persistent' /\ w.conn = ui'.conn
          /\ ui'.at = "setting" => w.key \in ToSet'
          /\ ui'.at = "undoing" => w.key \in ui'.done /\ ui'.prev[w.key] # 0
    BY <1>1, <1>3 DEF Written
  <2>7. \A j \in Jobs : \A w \in job'[j].sent :
          Persistent' /\ job'[j].at = "writing" /\ job'[j].held[w.conn][w.key] # 0
    BY <1>2, <1>3 DEF IInv, Shape
  <2>8. QED
    BY <1>2, <2>1, <2>2, <2>3, <2>4, <2>5, <2>6, <2>7 DEF Shape
<1>10. Phases' /\ Alone'
  BY <1>2 DEF IInv, Phases, Alone
<1>11. Reading'
  <2> SUFFICES ASSUME ~changed, ~crossed, "remove" \notin astray PROVE Reading'
    BY <1>2 DEF Reading
  <2>1. /\ lock.id \in {0, file.lock}
        /\ \A c \in Conns, k \in Keys : Live(c, k) => kept[c][k].seal \in {0, file.lock}
        /\ lock.id = 0 => \A c \in Conns, k \in Keys : Flying(c, k) => kept[c][k].seal = 0
        /\ \A w \in ui.sent : w.seal \in {0, lock.id}
    BY DEF IInv, Reading
  <2>2. \A c \in Conns, k \in Keys : Live(c, k)' => kept'[c][k].seal \in {0, file.lock}
    BY <2>1, <1>3, <1>5, <1>6 DEF Live
  <2>3. lock.id = 0 => \A c \in Conns, k \in Keys : Flying(c, k)' => kept'[c][k].seal = 0
    BY <2>1, <1>5, <1>6
  <2>4. \A w \in ui'.sent : w.seal \in {0, lock.id}
    BY <2>1, <1>7
  <2>5. ASSUME NEW j \in Jobs
        PROVE  /\ job[j].kind = "lock" /\ job[j].at \in {"saving", "setting"} =>
                    /\ lock.id = 0
                    /\ \A c \in Conns, k \in Keys : Named(c, k)' => kept'[c][k].seal = 0
               /\ job[j].kind = "remove" /\ ~job[j].failed =>
                    \A c \in Conns, k \in Keys :
                      Named(c, k)' /\ job[j].held[c][k] = 0 => kept'[c][k].seal = 0
    <3>1. /\ job[j].kind = "lock" /\ job[j].at \in {"saving", "setting"} =>
               /\ lock.id = 0
               /\ \A c \in Conns, k \in Keys : Named(c, k) => kept[c][k].seal = 0
          /\ job[j].kind = "remove" /\ ~job[j].failed =>
               \A c \in Conns, k \in Keys :
                 Named(c, k) /\ job[j].held[c][k] = 0 => kept[c][k].seal = 0
      BY DEF IInv, Reading
    <3>2. job[j].kind = "remove" => ui.sent = {}
      BY <1>8
    <3>3. QED
      BY <2>1, <3>1, <3>2, <1>3, <1>5
  <2>6. QED
    BY <2>1, <2>2, <2>3, <2>4, <2>5, <1>2 DEF Reading
<1>12. Sealing'
  <2> SUFFICES ASSUME ~crossed, "lock" \notin astray PROVE Sealing'
    BY <1>2 DEF Sealing
  <2>1. sealed => /\ lock.id # 0 /\ file.lock # 0
                  /\ \A j \in Jobs : job[j].kind # "remove"
                  /\ \A w \in ui.sent : w.seal # 0
                  /\ \A c \in Conns, k \in Keys :
                       Live(c, k) /\ kept[c][k].value # 0 => kept[c][k].seal # 0
    BY DEF IInv, Sealing
  <2>2. sealed => \A c \in Conns, k \in Keys :
                    Live(c, k)' /\ kept'[c][k].value # 0 => kept'[c][k].seal # 0
    BY <2>1, <1>3, <1>5, <1>6 DEF Live
  <2>3. sealed => \A w \in ui'.sent : w.seal # 0
    BY <2>1, <1>7
  <2>4. ASSUME NEW j \in Jobs
        PROVE  /\ job[j].kind = "lock" /\ job[j].at \in {"saving", "setting"} =>
                    \A c \in Conns, k \in Keys :
                      Named(c, k)' /\ job[j].held[c][k] = 0 => kept'[c][k].value = 0
               /\ job[j].kind = "lock" /\ job[j].at = "writing" /\ ~job[j].failed =>
                    \A c \in Conns, k \in Keys :
                      Named(c, k)' /\ job[j].held[c][k] = 0 /\ kept'[c][k].value # 0 =>
                        kept'[c][k].seal # 0
    <3>1. /\ job[j].kind = "lock" /\ job[j].at \in {"saving", "setting"} =>
               \A c \in Conns, k \in Keys :
                 Named(c, k) /\ job[j].held[c][k] = 0 => kept[c][k].value = 0
          /\ job[j].kind = "lock" /\ job[j].at = "writing" /\ ~job[j].failed =>
               \A c \in Conns, k \in Keys :
                 Named(c, k) /\ job[j].held[c][k] = 0 /\ kept[c][k].value # 0 => kept[c][k].seal # 0
      BY DEF IInv, Sealing
    <3>2. job[j].kind = "lock" => ui.sent = {}
      BY <1>8
    <3>3. QED
      BY <3>1, <3>2, <1>3, <1>5
  <2>5. QED
    BY <2>1, <2>2, <2>3, <2>4, <1>2 DEF Sealing
<1>13. QED
  BY <1>9, <1>10, <1>11, <1>12


(***************************************************************************)
(* The window's other steps                                                *)
(***************************************************************************)
LEMMA BeginStep ==
  ASSUME IInv, NEW c \in Conns, NEW typed \in [Keys -> Values], NEW prev \in [Keys -> Values],
         Begin(c, typed, prev)
  PROVE  Shape' /\ Phases' /\ Alone' /\ Reading' /\ Sealing'
<1>1. /\ UNCHANGED <<mode, file, kept, session, lock, job, crossed, changed, sealed>>
      /\ ui'.done = {} /\ ui'.sent = {} /\ astray \subseteq astray'
      /\ \A j \in Jobs : job[j].kind # "none" => job[j].kind \in astray'
  <2>1. TypeOK
    BY DEF IInv
  <2>2. QED
    BY <2>1, BeginFacts DEF Begin
<1>2. \A d \in Conns, k \in Keys : /\ ~Flying(d, k)'
                                   /\ Named(d, k)' <=> Named(d, k)
                                   /\ Live(d, k)' => Live(d, k)
  BY <1>1 DEF Flying, Named, Live
<1>3. Shape'
  <2>1. Persistent' <=> Persistent
    BY <1>1 DEF Persistent
  <2>2. QED
    BY <1>1, <2>1 DEF IInv, Shape
<1>4. Phases' /\ Alone'
  BY <1>1 DEF IInv, Phases, Alone
<1>5. Reading'
  BY <1>1, <1>2 DEF IInv, Reading
<1>6. Sealing'
  BY <1>1, <1>2 DEF IInv, Sealing
<1>7. QED
  BY <1>3, <1>4, <1>5, <1>6

\* What the settings come to name, the save in hand has written.
LEMMA SaveSettingsStep == IInv /\ SaveSettings => Shape' /\ Phases' /\ Alone' /\ Reading' /\ Sealing'
<1> SUFFICES ASSUME IInv, SaveSettings PROVE Shape' /\ Phases' /\ Alone' /\ Reading' /\ Sealing'
  OBVIOUS
<1>0. ui \in UiStates /\ file \in Files /\ ui.conn \in Conns
  BY TypeParts DEF IInv, SaveSettings, TypeOK
<1>1. /\ UNCHANGED <<mode, kept, session, lock, job, astray, crossed, changed, sealed>>
      /\ ui.at = "setting" /\ ui'.at = "idle" /\ ui'.sent = {} /\ file'.lock = file.lock
  BY <1>0, Records DEF SaveSettings, counts, Files
<1>2. \A j \in Jobs : job[j].kind # "none" => job[j].kind \in astray
  BY <1>1 DEF IInv, Phases, Saving
<1>3. Typed(ui.typed) \subseteq ui.done /\ Typed(ui.typed) \subseteq Keys
  BY DEF SaveSettings, ToSet, Typed
<1>4. /\ file'.conns = file.conns \cup {ui.conn}
      /\ \A d \in Conns : file'.names[d] =
           IF d = ui.conn THEN file.names[d] \cup Typed(ui.typed) ELSE file.names[d]
  BY <1>0, <1>3 DEF SaveSettings, Files
<1>5. \A d \in Conns : d \notin file.conns => file.names[d] = {}
  BY DEF IInv, Shape
<1>6. \A d \in Conns, k \in Keys : /\ ~Flying(d, k)'
                                   /\ Named(d, k)' => Live(d, k)
                                   /\ Live(d, k)' => Live(d, k)
  BY <1>1, <1>3, <1>4, <1>5 DEF Named, Live, Flying
<1>7. Shape'
  <2>1. \A d \in Conns : d \notin file'.conns => file'.names[d] = {}
    BY <1>4, <1>5
  <2>2. Persistent' <=> Persistent
    BY <1>1 DEF Persistent
  <2>3. QED
    BY <1>1, <2>1, <2>2 DEF IInv, Shape
<1>8. Phases' /\ Alone'
  BY <1>1 DEF IInv, Phases, Alone, Saving
<1>9. Reading'
  <2> SUFFICES ASSUME ~changed, ~crossed, "remove" \notin astray PROVE Reading'
    BY <1>1 DEF Reading
  <2>1. /\ lock.id \in {0, file.lock}
        /\ \A c \in Conns, k \in Keys : Live(c, k) => kept[c][k].seal \in {0, file.lock}
        /\ lock.id = 0 => \A c \in Conns, k \in Keys : Flying(c, k) => kept[c][k].seal = 0
    BY DEF IInv, Reading
  <2>2. \A j \in Jobs : job[j].kind = "lock" /\ job[j].at \in {"saving", "setting"} =>
             /\ lock.id = 0
             /\ \A c \in Conns, k \in Keys : Named(c, k) => kept[c][k].seal = 0
    BY DEF IInv, Reading
  <2>3. \A j \in Jobs : job[j].kind # "remove"
    BY <1>2
  <2>4. QED
    BY <2>1, <2>2, <2>3, <1>1, <1>6 DEF Reading, Live
<1>10. Sealing'
  <2> SUFFICES ASSUME ~crossed, "lock" \notin astray PROVE Sealing'
    BY <1>1 DEF Sealing
  <2>1. \A j \in Jobs : job[j].kind # "lock"
    BY <1>2
  <2>2. QED
    BY <2>1, <1>1, <1>6 DEF IInv, Sealing
<1>11. QED
  BY <1>7, <1>8, <1>9, <1>10

LEMMA DeleteStep ==
  ASSUME IInv, NEW c \in Conns, Delete(c)
  PROVE  Shape' /\ Phases' /\ Alone' /\ Reading' /\ Sealing'
<1>0. file \in Files
  BY TypeParts DEF IInv
<1>1. /\ UNCHANGED <<mode, kept, session, lock, job, astray, crossed, changed, sealed>>
      /\ ui'.at = "deleting" /\ ui'.sent = {} /\ file'.lock = file.lock
  BY <1>0, Records DEF Delete, Idle, Files, counts
<1>2. /\ file'.conns = file.conns \ {c}
      /\ \A d \in Conns : file'.names[d] = IF d = c THEN {} ELSE file.names[d]
  BY <1>0 DEF Delete, Files
<1>3. \A d \in Conns, k \in Keys : /\ ~Flying(d, k)'
                                   /\ Named(d, k)' => Named(d, k)
                                   /\ Live(d, k)' => Live(d, k)
  BY <1>1, <1>2 DEF Flying, Named, Live
<1>4. Shape'
  <2>1. Persistent' <=> Persistent
    BY <1>1 DEF Persistent
  <2>2. QED
    BY <1>1, <1>2, <2>1 DEF IInv, Shape
<1>5. Phases' /\ Alone'
  BY <1>1 DEF IInv, Phases, Alone, Saving
<1>6. Reading'
  BY <1>1, <1>3 DEF IInv, Reading
<1>7. Sealing'
  BY <1>1, <1>3 DEF IInv, Sealing
<1>8. QED
  BY <1>4, <1>5, <1>6, <1>7

LEMMA OpenShutStep ==
  IInv /\ (CloseVault \/ UnlockVault) => Shape' /\ Phases' /\ Alone' /\ Reading' /\ Sealing'
<1> SUFFICES ASSUME IInv, CloseVault \/ UnlockVault
             PROVE  Shape' /\ Phases' /\ Alone' /\ Reading' /\ Sealing'
  OBVIOUS
<1>1. /\ UNCHANGED <<mode, file, kept, session, ui, job, astray, crossed, changed, sealed>>
      /\ lock'.id = lock.id
  BY DEF IInv, TypeOK, CloseVault, UnlockVault, counts, history
<1>2. \A d \in Conns, k \in Keys : /\ Flying(d, k)' <=> Flying(d, k)
                                   /\ Named(d, k)' <=> Named(d, k)
                                   /\ Live(d, k)' <=> Live(d, k)
  BY <1>1 DEF Flying, Named, Live
<1>3. Shape'
  <2>1. (Persistent' <=> Persistent) /\ (Saving' <=> Saving) /\ ToSet' = ToSet
    BY <1>1 DEF Persistent, Saving, ToSet
  <2>2. QED
    BY <1>1, <2>1 DEF IInv, Shape
<1>4. Phases' /\ Alone'
  BY <1>1 DEF IInv, Phases, Alone, Saving
<1>5. Reading'
  BY <1>1, <1>2 DEF IInv, Reading
<1>6. Sealing'
  BY <1>1, <1>2 DEF IInv, Sealing
<1>7. QED
  BY <1>3, <1>4, <1>5, <1>6


(***************************************************************************)
(* The steps of the jobs                                                   *)
(***************************************************************************)
\* Where no job has overlapped another, those beside one that is under way are idle.
LEMMA OnlyOne ==
  ASSUME IInv, NEW j \in Jobs, ~crossed, job[j].at # "idle"
  PROVE  /\ job[j].kind \in {"lock", "remove"}
         /\ \A i \in Jobs : i # j => job[i].kind = "none" /\ job[i].at = "idle"
<1>1. job[j] \in JobStates
  BY TypeParts DEF IInv
<1>2. QED
  BY <1>1 DEF IInv, Alone, Phases, JobStates

\* What a job does to no more than its own state and the secrets.
LEMMA Unmoved ==
  ASSUME UNCHANGED <<file, ui>>
  PROVE  /\ ToSet' = ToSet /\ (Saving' <=> Saving)
         /\ \A d \in Conns, l \in Keys : /\ Flying(d, l)' <=> Flying(d, l)
                                         /\ Named(d, l)' <=> Named(d, l)
                                         /\ Live(d, l)' <=> Live(d, l)
BY DEF Flying, Named, Live, Saving, ToSet

LEMMA LockVaultStep ==
  ASSUME IInv, NEW j \in Jobs, LockVault(j)
  PROVE  Shape' /\ Phases' /\ Alone' /\ Reading' /\ Sealing'
<1> DEFINE r == LockJob(HeldSecrets)
<1>0. TypeOK /\ locks + 1 \in Locks /\ locks + 1 # 0
  BY VaultBounds DEF IInv, LockVault, TypeOK, Locks
<1>1. /\ UNCHANGED <<mode, file, kept, session, lock, ui, sealed>>
      /\ ~Locked /\ changed' = (changed \/ lock.id # 0) /\ Starts(j, r)
  BY DEF LockVault, LockJob
<1>2. /\ r \in JobStates /\ r.at = "saving" /\ r.kind = "lock" /\ r.next = locks + 1
      /\ ~r.failed /\ r.held = HeldSecrets /\ r.sent = {}
  BY <1>0, HeldTypes, JobRecords DEF LockJob
<1> HIDE DEF r
<1>3. /\ job'[j] = r /\ \A i \in Jobs : i # j => job'[i] = job[i]
      /\ astray \subseteq astray' /\ (ui.at # "idle" => "lock" \in astray')
      /\ ~crossed' => ~crossed /\ \A i \in Jobs : job[i].at = "idle"
  BY <1>0, <1>1, <1>2, StartsFacts
<1>4. /\ ~crossed' => \A i \in Jobs : i # j => job'[i].at = "idle" /\ job'[i].kind = "none"
      /\ Persistent' <=> Persistent
  BY <1>1, <1>3 DEF IInv, Phases, Persistent
<1>5. /\ ToSet' = ToSet /\ (Saving' <=> Saving)
      /\ \A d \in Conns, l \in Keys : /\ Flying(d, l)' <=> Flying(d, l)
                                      /\ Named(d, l)' <=> Named(d, l)
                                      /\ Live(d, l)' <=> Live(d, l)
  BY <1>1, Unmoved
<1>6. Shape'
  <2>1. \A i \in Jobs : \A w \in job'[i].sent : job'[i] = job[i] /\ w \in job[i].sent
    BY <1>2, <1>3
  <2>2. \A i \in Jobs : \A w \in job'[i].sent :
          Persistent' /\ job'[i].at = "writing" /\ job'[i].held[w.conn][w.key] # 0
    BY <2>1, <1>4 DEF IInv, Shape
  <2>3. \A w \in ui'.sent :
          /\ Saving' /\ Persistent' /\ w.conn = ui'.conn
          /\ ui'.at = "setting" => w.key \in ToSet'
          /\ ui'.at = "undoing" => w.key \in ui'.done /\ ui'.prev[w.key] # 0
    BY <1>1, <1>4, <1>5 DEF IInv, Shape
  <2>4. QED
    BY <2>2, <2>3, <1>1 DEF IInv, Shape
<1>7. Phases'
  BY <1>0, <1>1, <1>2, <1>3, <1>5 DEF IInv, Phases, Saving
<1>8. Alone'
  <2>1. \A i \in Jobs : \A w \in job'[i].sent : i # j /\ w \in job[i].sent
    BY <1>2, <1>3
  <2>2. \A i \in Jobs : job[i].at = "idle" => job[i].sent = {}
    BY DEF IInv, Shape
  <2>3. QED
    BY <1>2, <1>3, <1>4, <2>1, <2>2 DEF Alone
<1>9. ASSUME lock.id = 0, NEW c \in Conns, NEW k \in Keys, Named(c, k)
      PROVE  kept[c][k].seal = 0
  <2>1. CASE ~Persistent
    BY <2>1, Transient, Records DEF IInv
  <2>2. CASE Persistent
    <3>1. mode = "keychain"
      BY <1>9, <2>2 DEF Persistent
    <3>2. session[c][k] = 0
      BY <3>1 DEF IInv, Shape
    <3>3. kept[c][k].seal \in {0, lock.id}
      BY <1>9, <2>2, <3>2 DEF LockVault, Unreadable
    <3>4. QED
      BY <1>9, <3>3
  <2>3. QED
    BY <2>1, <2>2
<1>10. Reading'
  <2> SUFFICES ASSUME ~changed, ~crossed', lock.id = 0, "remove" \notin astray' PROVE Reading'
    BY <1>1 DEF Reading
  <2>1. "remove" \notin astray /\ ~crossed
    BY <1>3
  <2>2. /\ lock.id \in {0, file.lock}
        /\ \A c \in Conns, k \in Keys : Live(c, k) => kept[c][k].seal \in {0, file.lock}
        /\ \A c \in Conns, k \in Keys : Flying(c, k) => kept[c][k].seal = 0
        /\ \A w \in ui.sent : w.seal \in {0, lock.id}
    BY <2>1 DEF IInv, Reading
  <2>3. QED
    BY <2>2, <1>1, <1>2, <1>3, <1>4, <1>5, <1>9 DEF Reading
<1>11. ASSUME NEW c \in Conns, NEW k \in Keys, Named(c, k), HeldSecrets[c][k] = 0
      PROVE  kept[c][k].value = 0
  <2>1. VaultGet(c, k) = 0
    BY <1>11 DEF HeldSecrets
  <2>2. CASE ~Persistent
    BY <2>2, Transient, Records DEF IInv
  <2>3. CASE Persistent
    <3>1. session[c][k] = 0
      BY <2>1 DEF VaultGet
    <3>2. kept[c][k].seal \in {0, lock.id}
      BY <1>11, <2>3, <3>1 DEF LockVault, Unreadable
    <3>3. QED
      BY <1>1, <2>1, <2>3, <3>1, <3>2 DEF VaultGet
  <2>4. QED
    BY <2>2, <2>3
<1>12. Sealing'
  <2> SUFFICES ASSUME ~crossed', "lock" \notin astray' PROVE Sealing'
    BY DEF Sealing
  <2>1. "lock" \notin astray /\ ~crossed
    BY <1>3
  <2>2. sealed => /\ lock.id # 0 /\ file.lock # 0
                  /\ \A w \in ui.sent : w.seal # 0
                  /\ \A c \in Conns, k \in Keys :
                       Live(c, k) /\ kept[c][k].value # 0 => kept[c][k].seal # 0
    BY <2>1 DEF IInv, Sealing
  <2>3. QED
    BY <2>2, <1>1, <1>2, <1>3, <1>4, <1>5, <1>11 DEF Sealing
<1>13. QED
  BY <1>6, <1>7, <1>8, <1>10, <1>12

LEMMA RemoveStep ==
  ASSUME IInv, NEW j \in Jobs, RemoveVaultLock(j)
  PROVE  Shape' /\ Phases' /\ Alone' /\ Reading' /\ Sealing'
<1> DEFINE held == [c \in Conns |-> [k \in Keys |->
                  IF ~Named(c, k) THEN 0
                  ELSE IF session[c][k] # 0 THEN session[c][k] ELSE kept[c][k].value]]
<1> DEFINE r == UnlockJob(held)
<1>0. TypeOK
  BY DEF IInv
<1>1. /\ UNCHANGED <<mode, file, kept, session, ui, changed>>
      /\ lock'.id = lock.id /\ ~sealed' /\ mode # "portable" /\ Starts(j, r)
  BY TypeParts DEF IInv, RemoveVaultLock, UnlockJob, counts
<1>2. /\ held \in [Conns -> [Keys -> Values]]
      /\ \A c \in Conns, k \in Keys :
           Named(c, k) /\ held[c][k] = 0 => kept[c][k].value = 0
  BY <1>0, HeldTypes
<1> HIDE DEF held
<1>3. /\ r \in JobStates /\ r.at = "setting" /\ r.kind = "remove" /\ r.next = 0
      /\ ~r.failed /\ r.held = held /\ r.sent = {}
  BY <1>2, Zeros DEF UnlockJob, JobStates
<1> HIDE DEF r
<1>4. /\ job'[j] = r /\ \A i \in Jobs : i # j => job'[i] = job[i]
      /\ astray \subseteq astray' /\ (ui.at # "idle" => "remove" \in astray')
      /\ ~crossed' => ~crossed /\ \A i \in Jobs : job[i].at = "idle"
  BY <1>0, <1>1, <1>3, StartsFacts
<1>5. /\ ~crossed' => \A i \in Jobs : i # j => job'[i].at = "idle" /\ job'[i].kind = "none"
      /\ Persistent' <=> Persistent
  BY <1>1, <1>4 DEF IInv, Phases, Persistent
<1>6. /\ ToSet' = ToSet /\ (Saving' <=> Saving)
      /\ \A d \in Conns, l \in Keys : /\ Flying(d, l)' <=> Flying(d, l)
                                      /\ Named(d, l)' <=> Named(d, l)
                                      /\ Live(d, l)' <=> Live(d, l)
  BY <1>1, Unmoved
<1>7. Shape'
  <2>1. \A i \in Jobs : \A w \in job'[i].sent : job'[i] = job[i] /\ w \in job[i].sent
    BY <1>3, <1>4
  <2>2. \A i \in Jobs : \A w \in job'[i].sent :
          Persistent' /\ job'[i].at = "writing" /\ job'[i].held[w.conn][w.key] # 0
    BY <2>1, <1>5 DEF IInv, Shape
  <2>3. \A w \in ui'.sent :
          /\ Saving' /\ Persistent' /\ w.conn = ui'.conn
          /\ ui'.at = "setting" => w.key \in ToSet'
          /\ ui'.at = "undoing" => w.key \in ui'.done /\ ui'.prev[w.key] # 0
    BY <1>1, <1>5, <1>6 DEF IInv, Shape
  <2>4. QED
    BY <2>2, <2>3, <1>1 DEF IInv, Shape
<1>8. Phases'
  BY <1>1, <1>3, <1>4, <1>6 DEF IInv, Phases, Saving
<1>9. Alone'
  <2>1. \A i \in Jobs : \A w \in job'[i].sent : i # j /\ w \in job[i].sent
    BY <1>3, <1>4
  <2>2. \A i \in Jobs : job[i].at = "idle" => job[i].sent = {}
    BY DEF IInv, Shape
  <2>3. QED
    BY <1>3, <1>4, <1>5, <2>1, <2>2 DEF Alone
<1>10. Reading'
  <2> SUFFICES ASSUME ~changed, ~crossed', "remove" \notin astray' PROVE Reading'
    BY <1>1 DEF Reading
  <2>1. "remove" \notin astray /\ ~crossed
    BY <1>4
  <2>2. /\ lock.id \in {0, file.lock}
        /\ \A c \in Conns, k \in Keys : Live(c, k) => kept[c][k].seal \in {0, file.lock}
        /\ lock.id = 0 => \A c \in Conns, k \in Keys : Flying(c, k) => kept[c][k].seal = 0
        /\ \A w \in ui.sent : w.seal \in {0, lock.id}
    BY <2>1 DEF IInv, Reading
  <2>3. \A c \in Conns, k \in Keys : Named(c, k) /\ held[c][k] = 0 => kept[c][k].seal = 0
    BY <1>2 DEF IInv, Shape
  <2>4. QED
    BY <2>2, <2>3, <1>1, <1>3, <1>4, <1>5, <1>6 DEF Reading
<1>11. Sealing'
  <2> SUFFICES ASSUME ~crossed' PROVE Sealing'
    BY DEF Sealing
  <2>1. \A i \in Jobs : job'[i].kind # "lock"
    BY <1>3, <1>4, <1>5
  <2>2. QED
    BY <2>1, <1>1 DEF Sealing
<1>12. QED
  BY <1>7, <1>8, <1>9, <1>10, <1>11


LEMMA SaveLockStep ==
  ASSUME IInv, NEW j \in Jobs, SaveLock(j)
  PROVE  Shape' /\ Phases' /\ Alone' /\ Reading' /\ Sealing'
<1>0. job \in [Jobs -> JobStates] /\ job[j] \in JobStates /\ file \in Files
  BY TypeParts DEF IInv
<1>1. /\ UNCHANGED <<mode, kept, session, lock, ui, astray, crossed, changed>>
      /\ job[j].at = "saving" /\ job[j].kind \in {"lock", "remove"} /\ job[j].sent = {}
      /\ \A i \in Jobs : i # j => job'[i] = job[i]
      /\ file'.conns = file.conns /\ file'.names = file.names
  <2>1. job[j].at = "saving" /\ job[j].kind \in {"lock", "remove"} /\ job[j].sent = {}
    BY <1>0 DEF SaveLock, IInv, Phases, Shape, JobStates
  <2>2. QED
    BY <1>0, <2>1 DEF SaveLock, Files, counts
<1>2. \/ job'[j] = NoJob /\ file'.lock = file.lock /\ sealed' = sealed
      \/ /\ job[j].kind = "lock" /\ file'.lock = job[j].next /\ sealed' = sealed
         /\ job'[j] = [job[j] EXCEPT !.at = "setting"]
      \/ job[j].kind = "remove" /\ file'.lock = job[j].next /\ job'[j] = NoJob /\ ~sealed'
  <2>1. sealed \in BOOLEAN
    BY DEF IInv, TypeOK
  <2>2. CASE /\ file' = [file EXCEPT !.lock = job[j].next]
             /\ job' = [job EXCEPT ![j] = IF @.kind = "lock" THEN [@ EXCEPT !.at = "setting"] ELSE NoJob]
             /\ sealed' = (sealed /\ job[j].kind = "lock")
    <3>1. /\ file'.lock = job[j].next
          /\ job'[j] = IF job[j].kind = "lock" THEN [job[j] EXCEPT !.at = "setting"] ELSE NoJob
      BY <1>0, <2>2 DEF Files
    <3>2. CASE job[j].kind = "lock"
      BY <2>1, <2>2, <3>1, <3>2
    <3>3. CASE job[j].kind = "remove"
      BY <2>2, <3>1, <3>3
    <3>4. QED
      BY <3>2, <3>3, <1>1
  <2>3. CASE job' = [job EXCEPT ![j] = NoJob] /\ UNCHANGED <<file, sealed>>
    BY <1>0, <2>3
  <2>4. QED
    BY <2>2, <2>3 DEF SaveLock
<1>3. /\ ToSet' = ToSet /\ (Saving' <=> Saving) /\ (Persistent' <=> Persistent)
      /\ \A d \in Conns, l \in Keys : /\ Flying(d, l)' <=> Flying(d, l)
                                      /\ Named(d, l)' <=> Named(d, l)
                                      /\ Live(d, l)' <=> Live(d, l)
  BY <1>1 DEF Flying, Named, Live, Saving, ToSet, Persistent
<1>4. ~crossed => \A i \in Jobs : i # j =>
        job'[i].kind = "none" /\ job'[i].at = "idle" /\ job'[i].sent = {}
  <2>1. \A i \in Jobs : job[i].at = "idle" => job[i].sent = {}
    BY DEF IInv, Shape
  <2>2. QED
    BY <1>1, <2>1, OnlyOne
<1>5. CASE job'[j] = NoJob /\ file'.lock = file.lock /\ sealed' = sealed
  <2>1. job'[j].kind = "none" /\ job'[j].at = "idle" /\ job'[j].sent = {}
    BY <1>5, Records
  <2>2. Shape'
    BY <1>1, <1>3, <1>5, <2>1 DEF IInv, Shape
  <2>3. Phases'
    BY <1>1, <1>3, <1>5, <2>1 DEF IInv, Phases
  <2>4. Alone'
    BY <1>1, <1>4, <2>1 DEF Alone
  <2>5. Reading'
    BY <1>1, <1>3, <1>4, <1>5, <2>1 DEF IInv, Reading
  <2>6. Sealing'
    BY <1>1, <1>3, <1>4, <1>5, <2>1 DEF IInv, Sealing
  <2>7. QED
    BY <2>2, <2>3, <2>4, <2>5, <2>6
<1>6. CASE /\ job[j].kind = "lock" /\ file'.lock = job[j].next /\ sealed' = sealed
           /\ job'[j] = [job[j] EXCEPT !.at = "setting"]
  <2>1. /\ job'[j].at = "setting" /\ job'[j].kind = "lock" /\ job'[j].next = job[j].next
        /\ job'[j].held = job[j].held /\ job'[j].failed = job[j].failed /\ job'[j].sent = {}
        /\ job[j].kind = "lock" /\ file'.lock = job[j].next /\ job[j].next # 0 /\ sealed' = sealed
    BY <1>0, <1>1, <1>6 DEF JobStates, IInv, Phases
  <2>2. Shape'
    BY <1>1, <1>3, <2>1 DEF IInv, Shape
  <2>3. Phases'
    BY <1>1, <1>3, <2>1 DEF IInv, Phases
  <2>4. Alone'
    BY <1>1, <1>4, <2>1 DEF Alone
  <2>5. Reading'
    <3> SUFFICES ASSUME ~changed, ~crossed, "remove" \notin astray PROVE Reading'
      BY <1>1 DEF Reading
    <3>1. /\ lock.id = 0
          /\ \A c \in Conns, k \in Keys : Named(c, k) => kept[c][k].seal = 0
          /\ \A c \in Conns, k \in Keys : Flying(c, k) => kept[c][k].seal = 0
          /\ \A w \in ui.sent : w.seal \in {0, lock.id}
      BY <1>1, <1>6 DEF IInv, Reading
    <3>2. QED
      BY <3>1, <2>1, <1>1, <1>3, <1>4 DEF Reading, Live
  <2>6. Sealing'
    BY <1>1, <1>3, <1>4, <2>1 DEF IInv, Sealing
  <2>7. QED
    BY <2>2, <2>3, <2>4, <2>5, <2>6
<1>7. CASE job[j].kind = "remove" /\ file'.lock = job[j].next /\ job'[j] = NoJob /\ ~sealed'
  <2>1. /\ job[j].next = 0 /\ mode # "portable" /\ ~job[j].failed
        /\ \A c \in Conns, k \in Keys : job[j].held[c][k] = 0
        /\ ~crossed => lock.id = 0
    BY <1>1, <1>7 DEF IInv, Phases, Alone
  <2>2. job'[j].kind = "none" /\ job'[j].at = "idle" /\ job'[j].sent = {}
    BY <1>7, Records
  <2>3. Shape'
    BY <1>1, <1>3, <2>1, <2>2 DEF IInv, Shape
  <2>4. Phases'
    BY <1>1, <1>3, <2>1, <2>2 DEF IInv, Phases
  <2>5. Alone'
    BY <1>1, <1>4, <2>2 DEF Alone
  <2>6. Reading'
    <3> SUFFICES ASSUME ~changed, ~crossed, "remove" \notin astray PROVE Reading'
      BY <1>1 DEF Reading
    <3>1. /\ \A c \in Conns, k \in Keys : Named(c, k) => kept[c][k].seal = 0
          /\ \A c \in Conns, k \in Keys : Flying(c, k) => kept[c][k].seal = 0
          /\ \A w \in ui.sent : w.seal \in {0, lock.id}
      BY <1>7, <2>1 DEF IInv, Reading
    <3>2. QED
      BY <3>1, <2>1, <2>2, <1>1, <1>3, <1>4, <1>7 DEF Reading, Live
  <2>7. Sealing'
    BY <1>1, <1>4, <1>7, <2>2 DEF Sealing
  <2>8. QED
    BY <2>3, <2>4, <2>5, <2>6, <2>7
<1>8. QED
  BY <1>2, <1>5, <1>6, <1>7

LEMMA SetLockStep ==
  ASSUME IInv, NEW j \in Jobs, SetLock(j)
  PROVE  Shape' /\ Phases' /\ Alone' /\ Reading' /\ Sealing'
<1>0. job \in [Jobs -> JobStates] /\ job[j] \in JobStates
  BY TypeParts DEF IInv
<1>1. /\ UNCHANGED <<mode, file, kept, session, ui, astray, crossed, changed, sealed>>
      /\ job[j].at = "setting" /\ job[j].kind \in {"lock", "remove"} /\ job[j].sent = {}
      /\ lock'.id = job[j].next
      /\ \A i \in Jobs : i # j => job'[i] = job[i]
      /\ job'[j].at = "writing" /\ job'[j].kind = job[j].kind /\ job'[j].next = job[j].next
      /\ job'[j].held = job[j].held /\ job'[j].failed = job[j].failed /\ job'[j].sent = {}
  <2>1. job[j].at = "setting" /\ job[j].kind \in {"lock", "remove"} /\ job[j].sent = {}
    BY <1>0 DEF SetLock, IInv, Phases, Shape, JobStates
  <2>2. QED
    BY <1>0, <2>1 DEF SetLock, JobStates, counts, history
<1>2. /\ ToSet' = ToSet /\ (Saving' <=> Saving)
      /\ \A d \in Conns, l \in Keys : /\ Flying(d, l)' <=> Flying(d, l)
                                      /\ Named(d, l)' <=> Named(d, l)
                                      /\ Live(d, l)' <=> Live(d, l)
  BY <1>1, Unmoved
<1>3. ~crossed => \A i \in Jobs : i # j =>
        job'[i].kind = "none" /\ job'[i].at = "idle" /\ job'[i].sent = {}
  <2>1. \A i \in Jobs : job[i].at = "idle" => job[i].sent = {}
    BY DEF IInv, Shape
  <2>2. QED
    BY <1>1, <2>1, OnlyOne
<1>4. /\ job[j].kind = "lock" => job[j].next # 0 /\ (~crossed => file.lock = job[j].next)
      /\ job[j].kind = "remove" => job[j].next = 0 /\ mode # "portable"
      /\ mode = "portable" => file.lock # 0
      /\ Saving => job[j].kind \in astray
  BY <1>1 DEF IInv, Phases, Alone
<1>5. Shape'
  <2>1. Persistent => Persistent'
    BY <1>1, <1>4 DEF Persistent
  <2>2. \A w \in ui'.sent :
          /\ Saving' /\ Persistent' /\ w.conn = ui'.conn
          /\ ui'.at = "setting" => w.key \in ToSet'
          /\ ui'.at = "undoing" => w.key \in ui'.done /\ ui'.prev[w.key] # 0
    BY <1>1, <1>2, <2>1 DEF IInv, Shape
  <2>3. \A i \in Jobs : \A w \in job'[i].sent :
          Persistent' /\ job'[i].at = "writing" /\ job'[i].held[w.conn][w.key] # 0
    BY <1>1, <2>1 DEF IInv, Shape
  <2>4. QED
    BY <1>1, <1>4, <2>2, <2>3 DEF IInv, Shape
<1>6. Phases'
  BY <1>1, <1>2 DEF IInv, Phases
<1>7. Alone'
  BY <1>1, <1>3, <1>4 DEF Alone
<1>8. Reading'
  <2> SUFFICES ASSUME ~changed, ~crossed, "remove" \notin astray PROVE Reading'
    BY <1>1 DEF Reading
  <2>1. /\ lock.id \in {0, file.lock}
        /\ \A c \in Conns, k \in Keys : Live(c, k) => kept[c][k].seal \in {0, file.lock}
        /\ lock.id = 0 => \A c \in Conns, k \in Keys : Flying(c, k) => kept[c][k].seal = 0
        /\ \A w \in ui.sent : w.seal \in {0, lock.id}
        /\ job[j].kind = "lock" => lock.id = 0
        /\ job[j].kind = "remove" /\ ~job[j].failed =>
             \A c \in Conns, k \in Keys :
               Named(c, k) /\ job[j].held[c][k] = 0 => kept[c][k].seal = 0
    BY <1>1 DEF IInv, Reading
  <2>2. CASE job[j].kind = "lock"
    BY <2>1, <2>2, <1>1, <1>2, <1>3, <1>4 DEF Reading
  <2>3. CASE job[j].kind = "remove"
    <3>1. ~Saving
      BY <2>3, <1>4
    <3>2. ui.sent = {} /\ \A c \in Conns, k \in Keys : ~Flying(c, k)
      BY <3>1 DEF IInv, Shape, Flying, Saving
    <3>3. QED
      BY <2>1, <2>3, <3>2, <1>1, <1>2, <1>3, <1>4 DEF Reading
  <2>4. QED
    BY <2>2, <2>3, <1>1
<1>9. Sealing'
  <2> SUFFICES ASSUME ~crossed, "lock" \notin astray PROVE Sealing'
    BY <1>1 DEF Sealing
  <2>1. /\ sealed => /\ file.lock # 0 /\ job[j].kind # "remove"
                     /\ \A w \in ui.sent : w.seal # 0
                     /\ \A c \in Conns, k \in Keys :
                          Live(c, k) /\ kept[c][k].value # 0 => kept[c][k].seal # 0
        /\ job[j].kind = "lock" =>
             \A c \in Conns, k \in Keys :
               Named(c, k) /\ job[j].held[c][k] = 0 => kept[c][k].value = 0
    BY <1>1 DEF IInv, Sealing
  <2>2. QED
    BY <2>1, <1>1, <1>2, <1>3, <1>4 DEF Sealing
<1>10. QED
  BY <1>5, <1>6, <1>7, <1>8, <1>9

\* A secret written back is done with, or could not be written.
LEMMA WriteInSessionStep ==
  ASSUME IInv, NEW j \in Jobs, NEW c \in Conns, NEW k \in Keys,
         WriteInSession(j, c, k) \/ WriteRefused(j, c, k)
  PROVE  Shape' /\ Phases' /\ Alone' /\ Reading' /\ Sealing'
<1>0. TypeOK /\ job \in [Jobs -> JobStates] /\ job[j] \in JobStates
  BY TypeParts DEF IInv
<1>1. PICK failed \in BOOLEAN : /\ Rewrote(j, c, k, failed) /\ (~failed => ~Persistent)
                                /\ failed => UNCHANGED session
  <2>1. CASE WriteInSession(j, c, k)
    BY <2>1 DEF WriteInSession, SetInSession
  <2>2. CASE WriteRefused(j, c, k)
    BY <2>2 DEF WriteRefused
  <2>3. QED
    BY <2>1, <2>2
<1>2. /\ UNCHANGED <<mode, file, kept, lock, ui, astray, crossed, changed, sealed>>
      /\ job[j].at = "writing"
  BY DEF WriteInSession, WriteRefused, Left, counts, history
<1>3. /\ \A i \in Jobs : i # j => job'[i] = job[i]
      /\ job'[j].at = job[j].at /\ job'[j].kind = job[j].kind /\ job'[j].next = job[j].next
      /\ job'[j].sent = {} /\ job'[j].failed = (job[j].failed \/ failed)
      /\ \A d \in Conns, l \in Keys :
           job'[j].held[d][l] = IF d = c /\ l = k THEN 0 ELSE job[j].held[d][l]
  BY <1>0, <1>1, RewroteFacts
<1>4. /\ ToSet' = ToSet /\ (Saving' <=> Saving)
      /\ \A d \in Conns, l \in Keys : /\ Flying(d, l)' <=> Flying(d, l)
                                      /\ Named(d, l)' <=> Named(d, l)
                                      /\ Live(d, l)' <=> Live(d, l)
  BY <1>2, Unmoved
<1>5. ~failed => /\ mode # "keychain"
                 /\ \A d \in Conns, l \in Keys : kept[d][l].seal = 0 /\ kept[d][l].value = 0
  BY <1>0, <1>1, Transient, Records DEF IInv
<1>6. Shape'
  <2>1. Persistent' <=> Persistent
    BY <1>2 DEF Persistent
  <2>2. mode' = "keychain" => \A d \in Conns, l \in Keys : session'[d][l] = 0
    BY <1>1, <1>2, <1>5 DEF IInv, Shape
  <2>3. \A i \in Jobs : \A w \in job'[i].sent :
          Persistent' /\ job'[i].at = "writing" /\ job'[i].held[w.conn][w.key] # 0
    BY <1>3, <2>1 DEF IInv, Shape
  <2>4. \A w \in ui'.sent :
          /\ Saving' /\ Persistent' /\ w.conn = ui'.conn
          /\ ui'.at = "setting" => w.key \in ToSet'
          /\ ui'.at = "undoing" => w.key \in ui'.done /\ ui'.prev[w.key] # 0
    BY <1>2, <1>4, <2>1 DEF IInv, Shape
  <2>5. QED
    BY <1>2, <2>2, <2>3, <2>4 DEF IInv, Shape
<1>7. Phases'
  BY <1>2, <1>3, <1>4 DEF IInv, Phases
<1>8. Alone'
  BY <1>2, <1>3 DEF IInv, Alone
<1>9. Reading'
  BY <1>2, <1>3, <1>4, <1>5 DEF IInv, Reading
<1>10. Sealing'
  BY <1>2, <1>3, <1>4, <1>5 DEF IInv, Sealing
<1>11. QED
  BY <1>6, <1>7, <1>8, <1>9, <1>10


LEMMA SealBackStep ==
  ASSUME IInv, NEW j \in Jobs, NEW c \in Conns, NEW k \in Keys, SealBack(j, c, k)
  PROVE  Shape' /\ Phases' /\ Alone' /\ Reading' /\ Sealing'
<1>0. job \in [Jobs -> JobStates] /\ job[j] \in JobStates
  BY TypeParts DEF IInv
<1>1. /\ UNCHANGED <<mode, file, kept, session, lock, ui, astray, crossed, changed, sealed>>
      /\ job[j].at = "writing" /\ job[j].held[c][k] # 0 /\ Persistent
      /\ \A i \in Jobs : i # j => job'[i] = job[i]
      /\ job'[j].at = job[j].at /\ job'[j].kind = job[j].kind /\ job'[j].next = job[j].next
      /\ job'[j].held = job[j].held /\ job'[j].failed = job[j].failed
      /\ job'[j].sent = {Seal(c, k)}
  BY <1>0 DEF SealBack, Left, CanSeal, JobStates, counts, history
<1>2. Seal(c, k).conn = c /\ Seal(c, k).key = k /\ Seal(c, k).seal = lock.id
  BY DEF Seal
<1>3. /\ ToSet' = ToSet /\ (Saving' <=> Saving) /\ (Persistent' <=> Persistent)
      /\ \A d \in Conns, l \in Keys : /\ Flying(d, l)' <=> Flying(d, l)
                                      /\ Named(d, l)' <=> Named(d, l)
                                      /\ Live(d, l)' <=> Live(d, l)
  BY <1>1, Unmoved DEF Persistent
<1>4. Shape'
  <2>1. \A i \in Jobs : \A w \in job'[i].sent :
          Persistent' /\ job'[i].at = "writing" /\ job'[i].held[w.conn][w.key] # 0
    BY <1>1, <1>2, <1>3 DEF IInv, Shape
  <2>2. QED
    BY <1>1, <1>3, <2>1 DEF IInv, Shape
<1>5. Phases'
  BY <1>1, <1>3 DEF IInv, Phases
<1>6. Alone'
  BY <1>1, <1>2 DEF IInv, Alone
<1>7. Reading'
  BY <1>1, <1>3 DEF IInv, Reading
<1>8. Sealing'
  BY <1>1, <1>3 DEF IInv, Sealing
<1>9. QED
  BY <1>4, <1>5, <1>6, <1>7, <1>8

\* A secret sealed anew with the lock the job has set, where no other job is.
LEMMA StoreBackStep ==
  ASSUME IInv, NEW j \in Jobs, StoreBack(j)
  PROVE  Shape' /\ Phases' /\ Alone' /\ Reading' /\ Sealing'
<1>0. TypeOK /\ job \in [Jobs -> JobStates] /\ job[j] \in JobStates
  BY TypeParts DEF IInv
<1>1. PICK w \in job[j].sent :
        Store(w, job[j].held[w.conn][w.key]) /\ Rewrote(j, w.conn, w.key, FALSE)
  BY DEF StoreBack
<1>2. /\ w \in Sent /\ w.conn \in Conns /\ w.key \in Keys
      /\ Persistent /\ job[j].at = "writing"
      /\ job[j].held[w.conn][w.key] \in Values \ {0}
  BY <1>0 DEF JobStates, Sent, IInv, Shape
<1>3. UNCHANGED <<mode, file, session, lock, ui, astray, crossed, changed, sealed>>
  BY DEF StoreBack, counts, history
<1>4. \A d \in Conns, l \in Keys :
        /\ d = w.conn /\ l = w.key => kept'[d][l].seal = w.seal /\ kept'[d][l].value # 0
        /\ d # w.conn \/ l # w.key => kept'[d][l] = kept[d][l]
  <2>1. \A d \in Conns, l \in Keys :
          kept'[d][l] = IF d = w.conn /\ l = w.key
                        THEN [seal |-> w.seal, value |-> job[j].held[w.conn][w.key]] ELSE kept[d][l]
    BY <1>0, <1>1, <1>2, StoreFacts
  <2>2. QED
    BY <1>2, <2>1
<1>5. /\ \A i \in Jobs : i # j => job'[i] = job[i]
      /\ job'[j].at = job[j].at /\ job'[j].kind = job[j].kind /\ job'[j].next = job[j].next
      /\ job'[j].sent = {} /\ (job'[j].failed <=> job[j].failed)
      /\ \A d \in Conns, l \in Keys :
           job'[j].held[d][l] = IF d = w.conn /\ l = w.key THEN 0 ELSE job[j].held[d][l]
  <2>1. PICK failed \in BOOLEAN : ~failed /\ Rewrote(j, w.conn, w.key, failed)
    BY <1>1
  <2>2. job'[j].failed = (job[j].failed \/ failed) /\ job[j].failed \in BOOLEAN
    BY <1>0, <1>2, <2>1, RewroteFacts DEF JobStates
  <2>3. QED
    BY <1>0, <1>2, <2>1, <2>2, RewroteFacts
<1>6. /\ ToSet' = ToSet /\ (Saving' <=> Saving) /\ (Persistent' <=> Persistent)
      /\ \A d \in Conns, l \in Keys : /\ Flying(d, l)' <=> Flying(d, l)
                                      /\ Named(d, l)' <=> Named(d, l)
                                      /\ Live(d, l)' <=> Live(d, l)
  BY <1>3, Unmoved DEF Persistent
<1>7. ~crossed =>
        /\ w.seal = job[j].next /\ lock.id = job[j].next
        /\ job[j].kind = "lock" => job[j].next # 0
        /\ job[j].kind = "remove" => job[j].next = 0
        /\ \A i \in Jobs : i # j => job'[i].kind = "none"
  BY <1>2, <1>5, OnlyOne DEF IInv, Alone, Phases
<1>8. Shape'
  <2>1. \A i \in Jobs : \A v \in job'[i].sent :
          Persistent' /\ job'[i].at = "writing" /\ job'[i].held[v.conn][v.key] # 0
    BY <1>5, <1>6 DEF IInv, Shape
  <2>2. \A d \in Conns, l \in Keys : kept'[d][l].value = 0 => kept'[d][l].seal = 0
    BY <1>4 DEF IInv, Shape
  <2>3. ~(mode' = "none" \/ (mode' = "portable" /\ (lock'.id = 0 \/ file'.lock = 0)))
    BY <1>2, <1>3 DEF IInv, Shape, Persistent
  <2>4. \A v \in ui'.sent :
          /\ Saving' /\ Persistent' /\ v.conn = ui'.conn
          /\ ui'.at = "setting" => v.key \in ToSet'
          /\ ui'.at = "undoing" => v.key \in ui'.done /\ ui'.prev[v.key] # 0
    BY <1>3, <1>6 DEF IInv, Shape
  <2>5. QED
    BY <1>3, <2>1, <2>2, <2>3, <2>4 DEF IInv, Shape
<1>9. Phases'
  BY <1>3, <1>5, <1>6 DEF IInv, Phases
<1>10. Alone'
  BY <1>3, <1>5 DEF IInv, Alone
<1>11. Reading'
  <2> SUFFICES ASSUME ~changed, ~crossed, "remove" \notin astray PROVE Reading'
    BY <1>3 DEF Reading
  <2>1. /\ lock.id \in {0, file.lock}
        /\ \A d \in Conns, l \in Keys : Live(d, l) => kept[d][l].seal \in {0, file.lock}
        /\ lock.id = 0 => \A d \in Conns, l \in Keys : Flying(d, l) => kept[d][l].seal = 0
        /\ \A v \in ui.sent : v.seal \in {0, lock.id}
        /\ job[j].kind = "remove" /\ ~job[j].failed =>
             \A d \in Conns, l \in Keys :
               Named(d, l) /\ job[j].held[d][l] = 0 => kept[d][l].seal = 0
    BY DEF IInv, Reading
  <2>2. \A d \in Conns, l \in Keys : Live(d, l)' => kept'[d][l].seal \in {0, file.lock}
    BY <2>1, <1>4, <1>6, <1>7
  <2>3. lock.id = 0 => \A d \in Conns, l \in Keys : Flying(d, l)' => kept'[d][l].seal = 0
    BY <2>1, <1>4, <1>6, <1>7
  <2>4. job[j].kind = "remove" /\ ~job[j].failed =>
             \A d \in Conns, l \in Keys :
               Named(d, l)' /\ job'[j].held[d][l] = 0 => kept'[d][l].seal = 0
    BY <2>1, <1>4, <1>5, <1>6, <1>7
  <2>5. QED
    BY <2>1, <2>2, <2>3, <2>4, <1>2, <1>3, <1>5, <1>7 DEF Reading
<1>12. Sealing'
  <2> SUFFICES ASSUME ~crossed, "lock" \notin astray PROVE Sealing'
    BY <1>3 DEF Sealing
  <2>1. /\ sealed => /\ lock.id # 0 /\ file.lock # 0 /\ job[j].kind # "remove"
                     /\ \A v \in ui.sent : v.seal # 0
                     /\ \A d \in Conns, l \in Keys :
                          Live(d, l) /\ kept[d][l].value # 0 => kept[d][l].seal # 0
        /\ job[j].kind = "lock" /\ ~job[j].failed =>
             \A d \in Conns, l \in Keys :
               Named(d, l) /\ job[j].held[d][l] = 0 /\ kept[d][l].value # 0 => kept[d][l].seal # 0
    BY <1>2 DEF IInv, Sealing
  <2>2. sealed => \A d \in Conns, l \in Keys :
                    Live(d, l)' /\ kept'[d][l].value # 0 => kept'[d][l].seal # 0
    BY <2>1, <1>4, <1>6, <1>7
  <2>3. job[j].kind = "lock" /\ ~job[j].failed =>
             \A d \in Conns, l \in Keys :
               Named(d, l)' /\ job'[j].held[d][l] = 0 /\ kept'[d][l].value # 0 => kept'[d][l].seal # 0
    BY <2>1, <1>4, <1>5, <1>6, <1>7
  <2>4. QED
    BY <2>1, <2>2, <2>3, <1>2, <1>3, <1>5, <1>7 DEF Sealing
<1>13. QED
  BY <1>8, <1>9, <1>10, <1>11, <1>12

LEMMA AllWrittenStep ==
  ASSUME IInv, NEW j \in Jobs, AllWritten(j)
  PROVE  Shape' /\ Phases' /\ Alone' /\ Reading' /\ Sealing'
<1>0. job \in [Jobs -> JobStates] /\ job[j] \in JobStates
  BY TypeParts DEF IInv
<1>1. /\ UNCHANGED <<mode, file, kept, session, lock, ui, astray, crossed, changed>>
      /\ job[j].at = "writing" /\ job[j].kind \in {"lock", "remove"}
      /\ \A c \in Conns, k \in Keys : job[j].held[c][k] = 0
      /\ \A i \in Jobs : i # j => job'[i] = job[i]
      /\ sealed' = (sealed \/ (job[j].kind = "lock" /\ ~job[j].failed))
  <2>1. job[j].at = "writing" /\ job[j].kind \in {"lock", "remove"}
    BY <1>0 DEF AllWritten, Rewritten, IInv, Phases, JobStates
  <2>2. QED
    BY <1>0, <2>1 DEF AllWritten, Rewritten, counts
<1>2. job[j].sent = {}
  BY <1>0, <1>1 DEF IInv, Shape, JobStates, Sent
<1>3. \/ /\ job'[j].at = "idle" /\ job'[j].kind = "none" /\ job'[j].sent = {}
         /\ job[j].kind = "remove" => job[j].failed
      \/ /\ job[j].kind = "remove" /\ ~job[j].failed
         /\ job'[j].at = "saving" /\ job'[j].kind = "remove" /\ job'[j].next = job[j].next
         /\ job'[j].held = job[j].held /\ ~job'[j].failed /\ job'[j].sent = {}
  <2>1. job'[j] = IF job[j].kind = "remove" /\ ~job[j].failed
                  THEN [job[j] EXCEPT !.at = "saving"] ELSE NoJob
    BY <1>0 DEF AllWritten
  <2>2. QED
    BY <1>0, <1>2, <2>1, Records DEF JobStates
<1>4. /\ ToSet' = ToSet /\ (Saving' <=> Saving) /\ (Persistent' <=> Persistent)
      /\ \A d \in Conns, l \in Keys : /\ Flying(d, l)' <=> Flying(d, l)
                                      /\ Named(d, l)' <=> Named(d, l)
                                      /\ Live(d, l)' <=> Live(d, l)
  BY <1>1, Unmoved DEF Persistent
<1>5. /\ ~crossed => \A i \in Jobs : i # j =>
           job'[i].kind = "none" /\ job'[i].at = "idle" /\ job'[i].sent = {}
      /\ ~crossed => lock.id = job[j].next /\ (job[j].kind = "lock" => file.lock = job[j].next)
      /\ job[j].kind = "lock" => job[j].next # 0
      /\ job[j].kind = "remove" => job[j].next = 0 /\ mode # "portable"
      /\ Saving => job[j].kind \in astray
  <2>1. \A i \in Jobs : job[i].at = "idle" => job[i].sent = {}
    BY DEF IInv, Shape
  <2>2. QED
    BY <1>1, <2>1, OnlyOne DEF IInv, Alone, Phases
<1>6. Shape'
  BY <1>1, <1>3, <1>4 DEF IInv, Shape
<1>7. Phases'
  BY <1>1, <1>3, <1>4, <1>5 DEF IInv, Phases
<1>8. Alone'
  BY <1>1, <1>3, <1>5 DEF Alone
<1>9. Reading'
  BY <1>1, <1>3, <1>4 DEF IInv, Reading
<1>10. Sealing'
  <2> SUFFICES ASSUME ~crossed, "lock" \notin astray PROVE Sealing'
    BY <1>1 DEF Sealing
  <2>1. sealed => /\ lock.id # 0 /\ file.lock # 0 /\ job[j].kind # "remove"
                  /\ \A w \in ui.sent : w.seal # 0
                  /\ \A c \in Conns, k \in Keys :
                       Live(c, k) /\ kept[c][k].value # 0 => kept[c][k].seal # 0
    BY DEF IInv, Sealing
  <2>2. CASE job[j].kind = "lock" /\ ~job[j].failed
    <3>1. lock.id # 0 /\ file.lock # 0 /\ ~Saving
      BY <2>2, <1>5
    <3>2. /\ ui.sent = {}
          /\ \A c \in Conns, k \in Keys : Live(c, k) => Named(c, k)
      BY <3>1 DEF IInv, Shape, Live, Flying, Saving
    <3>3. \A c \in Conns, k \in Keys : Named(c, k) /\ kept[c][k].value # 0 => kept[c][k].seal # 0
      BY <1>1, <2>2 DEF IInv, Sealing
    <3>4. QED
      BY <3>1, <3>2, <3>3, <2>2, <1>1, <1>3, <1>4, <1>5 DEF Sealing
  <2>3. CASE ~(job[j].kind = "lock" /\ ~job[j].failed)
    <3>1. sealed' => sealed
      BY <1>1, <2>3
    <3>2. \A i \in Jobs : job'[i].kind # "lock" /\ (job'[i].kind = "remove" => job[j].kind = "remove")
      BY <1>3, <1>5
    <3>3. QED
      BY <2>1, <3>1, <3>2, <1>1, <1>4 DEF Sealing
  <2>4. QED
    BY <2>2, <2>3
<1>11. QED
  BY <1>6, <1>7, <1>8, <1>9, <1>10


LEMMA RestartStep == IInv /\ Restart => Shape' /\ Phases' /\ Alone' /\ Reading' /\ Sealing'
<1> SUFFICES ASSUME IInv, Restart PROVE Shape' /\ Phases' /\ Alone' /\ Reading' /\ Sealing'
  OBVIOUS
<1>1. /\ UNCHANGED <<mode, file, kept, astray, crossed, changed, sealed>>
      /\ lock'.id = file.lock /\ ui'.at = "idle" /\ ui'.sent = {}
      /\ \A j \in Jobs : job'[j].at = "idle" /\ job'[j].kind = "none" /\ job'[j].sent = {}
      /\ \A c \in Conns, k \in Keys : session'[c][k] = 0
  BY Records DEF Restart, Blank, counts, history
<1>2. \A d \in Conns, k \in Keys : /\ ~Flying(d, k)'
                                   /\ Named(d, k)' <=> Named(d, k)
                                   /\ Live(d, k)' => Live(d, k)
  BY <1>1 DEF Flying, Named, Live
<1>3. Shape'
  BY <1>1 DEF IInv, Shape
<1>4. Phases' /\ Alone'
  BY <1>1 DEF Phases, Alone, Saving
<1>5. Reading'
  BY <1>1, <1>2 DEF IInv, Reading
<1>6. Sealing'
  <2> SUFFICES ASSUME ~crossed, "lock" \notin astray PROVE Sealing'
    BY <1>1 DEF Sealing
  <2>1. sealed => /\ file.lock # 0
                  /\ \A c \in Conns, k \in Keys :
                       Live(c, k) /\ kept[c][k].value # 0 => kept[c][k].seal # 0
    BY DEF IInv, Sealing
  <2>2. QED
    BY <2>1, <1>1, <1>2 DEF Sealing
<1>7. QED
  BY <1>3, <1>4, <1>5, <1>6

LEMMA InvStep == IInv /\ [Next]_vars => IInv'
<1> SUFFICES ASSUME IInv, [Next]_vars PROVE IInv'
  OBVIOUS
<1> DEFINE Kept == Shape' /\ Phases' /\ Alone' /\ Reading' /\ Sealing'
<1>1. TypeOK /\ TypeOK'
  BY TypeStep DEF IInv
<1>2. ASSUME Window PROVE Kept
  <2>1. ASSUME NEW c \in Conns, NEW S \in SUBSET Keys, Create(c, S) PROVE Kept
    <3>1. [k \in Keys |-> IF k \in S THEN saves + 1 ELSE 0] \in [Keys -> Values]
      BY <1>1, <2>1, Beginnings DEF Create
    <3>2. QED
      BY <2>1, <3>1, Records, BeginStep DEF Create
  <2>2. ASSUME NEW c \in Conns, NEW S \in SUBSET Keys, NEW unread \in SUBSET Keys,
               Update(c, S, unread)
        PROVE  Kept
    <3>1. /\ [k \in Keys |-> IF k \in S THEN saves + 1 ELSE 0] \in [Keys -> Values]
          /\ [k \in Keys |-> IF k \in S \ unread THEN VaultGet(c, k) ELSE 0] \in [Keys -> Values]
      BY <1>1, <2>2, Beginnings DEF Update
    <3>2. QED
      BY <2>2, <3>1, BeginStep DEF Update
  <2>3. ASSUME NEW c \in Conns, NEW d \in Conns, Duplicate(c, d) PROVE Kept
    BY <1>1, <2>3, Copies, Records, BeginStep DEF Duplicate
  <2>4. QED
    BY <1>2, <2>1, <2>2, <2>3, WritingStep, SaveSettingsStep, DeleteStep, OpenShutStep
    DEF Window, Writing
<1>3. ASSUME Locking PROVE Kept
  BY <1>3, LockVaultStep, RemoveStep, SaveLockStep, SetLockStep, AllWrittenStep, SealBackStep,
     StoreBackStep, WriteInSessionStep DEF Locking
<1>4. ASSUME UNCHANGED vars PROVE Kept
  <2>1. UNCHANGED <<mode, file, kept, session, lock, ui, job, astray, crossed, changed, sealed>>
    BY <1>4 DEF vars, history
  <2>2. /\ ToSet' = ToSet /\ (Saving' <=> Saving) /\ (Persistent' <=> Persistent)
        /\ \A d \in Conns, l \in Keys : /\ Flying(d, l)' <=> Flying(d, l)
                                        /\ Named(d, l)' <=> Named(d, l)
                                        /\ Live(d, l)' <=> Live(d, l)
    BY <2>1, Unmoved DEF Persistent
  <2>3. QED
    BY <2>1, <2>2 DEF IInv, Shape, Phases, Alone, Reading, Sealing
<1>5. QED
  BY <1>1, <1>2, <1>3, <1>4, RestartStep DEF Next, IInv

(***************************************************************************)
(* The theorems                                                            *)
(***************************************************************************)
\* The inductive invariant holds of the vault.
THEOREM VaultInv == Spec => []IInv
  BY InvInit, InvStep, PTL DEF Spec

\* Every variable keeps its type (all of vault.go, lock.go, connections.go, vaultlock.go).
THEOREM VaultTypes == Spec => []TypeOK
<1>1. IInv => TypeOK
  BY DEF IInv
<1>2. QED
  BY <1>1, VaultInv, PTL

\* However putting a lock on or taking one off is cut short, the secrets of the saved
\* connections are read with the lock the settings name, unless jobs have overlapped
\* (LockVault, RemoveVaultLock, rewrite).
THEOREM VaultStillReads == Spec => []StillReads
<1>1. IInv => StillReads
  BY DEF IInv, Reading, StillReads, Live
<1>2. QED
  BY <1>1, VaultInv, PTL

\* Once the vault has said it is sealed, none of its secrets is in the open, unless jobs
\* have overlapped (LockVault, Connections, rewrite).
THEOREM VaultSealed == Spec => []SealedOnceLocked
<1>1. IInv => SealedOnceLocked
  BY DEF IInv, Sealing, SealedOnceLocked, Live
<1>2. QED
  BY <1>1, VaultInv, PTL


(***************************************************************************)
(* What was persisted stays                                                *)
(***************************************************************************)
\* What a save has taken the promise from, and what it stood at before; that only what the
\* settings name is promised, and nothing of a vault that keeps no secrets yet.
Promising ==
  /\ \A c \in Conns, k \in Keys : promised[c][k] # 0 => Named(c, k)
  /\ \A c \in file.conns : c \notin fresh
  /\ Saving =>
       /\ ui.conn \notin fresh /\ ui.done \subseteq Typed(ui.typed)
       /\ \A k \in Keys : ui.was[k] # 0 => Named(ui.conn, k)
  /\ ui.at = "setting" =>
       \A k \in Keys : promised[ui.conn][k] = IF ui.typed[k] # 0 THEN 0 ELSE ui.was[k]
  /\ ui.at = "undoing" => \A k \in ui.done : promised[ui.conn][k] = 0
  /\ mode = "none" \/ (mode = "portable" /\ lock.id = 0) =>
       /\ \A c \in Conns, k \in Keys : promised[c][k] = 0
       /\ Saving => \A k \in Keys : ui.was[k] = 0
  /\ ui.at = "deleting" => ui.conn \notin file.conns

\* LastSaved, of what the save in hand has written and would put back, and of what the jobs
\* have read and will write back.
Lasting ==
  ~changed /\ astray = {} /\ misread = {} =>
    /\ \A c \in Conns, k \in Keys : promised[c][k] # 0 => kept[c][k].value = promised[c][k]
    /\ ui.at = "setting" => \A k \in Keys :
         /\ k \in ui.done /\ Persistent => kept[ui.conn][k].value = ui.typed[k]
         /\ k \in ToSet /\ ui.was[k] # 0 => kept[ui.conn][k].value = ui.was[k]
    /\ ui.at = "undoing" => ui.wrong = {}
    /\ Saving /\ ui.wrong = {} =>
         \A k \in Typed(ui.typed) : ui.was[k] # 0 => ui.prev[k] = ui.was[k]
    /\ \A j \in Jobs : job[j].kind # "none" => \A c \in Conns, k \in Keys :
         promised[c][k] # 0 => job[j].held[c][k] \in {0, promised[c][k]}

\* At first nothing is promised.
LEMMA LastInit == Init => Promising /\ Lasting
<1> SUFFICES ASSUME Init PROVE Promising /\ Lasting
  OBVIOUS
<1>1. /\ ui.at = "idle" /\ file.conns = {}
      /\ \A j \in Jobs : job[j].kind = "none"
      /\ \A c \in Conns, k \in Keys : promised[c][k] = 0
  BY Records DEF Init, Blank
<1>2. QED
  BY <1>1 DEF Promising, Lasting, Saving

\* Where no save has overlapped a job, there is none while a save is in hand.
LEMMA NoneBeside ==
  ASSUME IInv, Saving, astray = {}
  PROVE  \A j \in Jobs : job[j].kind = "none"
BY DEF IInv, Phases

\* A save begins.
LEMMA BeginLasts ==
  ASSUME IInv, Promising, Lasting, NEW c \in Conns, NEW typed \in [Keys -> Values],
         NEW prev \in [Keys -> Values], Begin(c, typed, prev), fresh' \subseteq fresh, c \notin fresh'
  PROVE  Promising' /\ Lasting'
<1>1. /\ UNCHANGED <<mode, file, kept, lock, job, changed, misread>>
      /\ ui'.at = "setting" /\ ui'.conn = c /\ ui'.typed = typed /\ ui'.prev = prev
      /\ ui'.was = promised[c] /\ ui'.done = {}
      /\ ui'.wrong = {} => \A k \in Keys : typed[k] # 0 => kept[c][k].value \in {0, prev[k]}
      /\ \A d \in Conns, k \in Keys :
           promised'[d][k] = IF d = c /\ typed[k] # 0 THEN 0 ELSE promised[d][k]
      /\ astray \subseteq astray'
      /\ \A j \in Jobs : job[j].kind # "none" => job[j].kind \in astray'
  <2>1. TypeOK
    BY DEF IInv
  <2>2. UNCHANGED <<mode, file, kept, lock, job, changed, misread>>
    BY DEF Begin
  <2>3. QED
    BY <2>1, <2>2, BeginFacts
<1>2. \A d \in Conns, k \in Keys : Named(d, k)' <=> Named(d, k)
  BY <1>1 DEF Named
<1>3. Promising'
  BY <1>1, <1>2 DEF Promising, Saving
<1>4. Lasting'
  <2> SUFFICES ASSUME ~changed, astray' = {}, misread = {} PROVE Lasting'
    BY <1>1 DEF Lasting
  <2>1. \A d \in Conns, k \in Keys : promised[d][k] # 0 => kept[d][k].value = promised[d][k]
    BY <1>1 DEF Lasting
  <2>2. \A k \in Keys : ui'.was[k] # 0 => kept[c][k].value = ui'.was[k]
    BY <1>1, <2>1
  <2>3. ui'.wrong = {} => \A k \in Typed(ui.typed)' : ui'.was[k] # 0 => ui'.prev[k] = ui'.was[k]
    BY <1>1, <2>2 DEF Typed
  <2>4. \A j \in Jobs : job'[j].kind = "none"
    BY <1>1
  <2>5. QED
    BY <1>1, <2>1, <2>2, <2>3, <2>4 DEF Lasting, ToSet, Typed
<1>5. QED
  BY <1>3, <1>4

\* A save has set one secret more, persisted or not.
LEMMA SetLasts ==
  ASSUME IInv, Promising, Lasting, NEW k \in Keys, ui.at = "setting", k \in ToSet, Landed(k),
         UNCHANGED <<mode, file, lock, job, fresh, astray, changed, misread>>,
         \A d \in Conns, l \in Keys : d # ui.conn \/ l # k => kept'[d][l] = kept[d][l],
         Persistent => kept'[ui.conn][k].value = ui.typed[k]
  PROVE  Promising' /\ Lasting'
<1>1. /\ ui'.at = "setting" /\ ui'.conn = ui.conn /\ ui'.typed = ui.typed /\ ui'.prev = ui.prev
      /\ ui'.was = ui.was /\ ui'.wrong = ui.wrong /\ ui'.done = ui.done \cup {k}
      /\ promised' = promised /\ ui.conn \in Conns
  BY LandedFacts DEF IInv
<1>2. k \in Typed(ui.typed) /\ promised[ui.conn][k] = 0
  BY DEF ToSet, Typed, Promising
<1>3. /\ Typed(ui.typed)' = Typed(ui.typed) /\ ToSet' = ToSet \ {k} /\ (Persistent' <=> Persistent)
      /\ \A d \in Conns, l \in Keys : Named(d, l)' <=> Named(d, l)
  BY <1>1 DEF Typed, ToSet, Persistent, Named
<1>4. Promising'
  BY <1>1, <1>2, <1>3 DEF Promising, Saving
<1>5. Lasting'
  <2> SUFFICES ASSUME ~changed, astray = {}, misread = {} PROVE Lasting'
    BY DEF Lasting
  <2>1. \A d \in Conns, l \in Keys : promised'[d][l] # 0 => kept'[d][l].value = promised'[d][l]
    BY <1>1, <1>2 DEF Lasting
  <2>2. ASSUME NEW l \in Keys
        PROVE  /\ l \in ui'.done /\ Persistent' => kept'[ui'.conn][l].value = ui'.typed[l]
               /\ l \in ToSet' /\ ui'.was[l] # 0 => kept'[ui'.conn][l].value = ui'.was[l]
    BY <1>1, <1>3 DEF Lasting
  <2>3. ui'.wrong = {} => \A l \in Typed(ui.typed)' : ui'.was[l] # 0 => ui'.prev[l] = ui'.was[l]
    BY <1>1, <1>3 DEF Lasting, Saving
  <2>4. \A j \in Jobs : job'[j].kind = "none"
    BY NoneBeside DEF Saving
  <2>5. QED
    BY <1>1, <2>1, <2>2, <2>3, <2>4 DEF Lasting
<1>6. QED
  BY <1>4, <1>5

\* A save that failed has put one back, has taken one back, or could not.
LEMMA UndoneLasts ==
  ASSUME IInv, Promising, Lasting, NEW k \in Keys, ui.at = "undoing", k \in ui.done,
         NEW accepted \in BOOLEAN, Undone(k, accepted),
         UNCHANGED <<mode, file, lock, job, fresh, astray, changed, misread>>,
         \A d \in Conns, l \in Keys : d # ui.conn \/ l # k => kept'[d][l] = kept[d][l],
         ~changed /\ astray = {} /\ misread = {} =>
           (accepted /\ ui.was[k] # 0 => kept'[ui.conn][k].value = ui.was[k])
  PROVE  Promising' /\ Lasting'
<1>1. /\ \/ ui'.at = "idle"
         \/ /\ ui'.at = "undoing" /\ ui'.conn = ui.conn /\ ui'.typed = ui.typed
            /\ ui'.prev = ui.prev /\ ui'.was = ui.was /\ ui'.wrong = ui.wrong
            /\ ui'.done = ui.done \ {k}
      /\ \A d \in Conns, l \in Keys :
           promised'[d][l] = IF d = ui.conn /\ l = k /\ accepted THEN ui.was[k] ELSE promised[d][l]
      /\ ui.conn \in Conns
  BY UndoneFacts DEF IInv, TypeOK
<1>2. promised[ui.conn][k] = 0
  BY DEF Promising
<1>3. \A d \in Conns, l \in Keys : Named(d, l)' <=> Named(d, l)
  BY DEF Named
<1>4. Promising'
  <2>1. /\ ui.conn \notin fresh /\ ui.done \subseteq Typed(ui.typed)
        /\ \A l \in Keys : ui.was[l] # 0 => Named(ui.conn, l)
        /\ \A l \in ui.done : promised[ui.conn][l] = 0
        /\ mode = "none" \/ (mode = "portable" /\ lock.id = 0) => \A l \in Keys : ui.was[l] = 0
    BY DEF Promising, Saving
  <2>2. ui'.at = "undoing" => Typed(ui.typed)' = Typed(ui.typed)
    BY <1>1 DEF Typed
  <2>3. ui.done \subseteq Keys
    BY DEF IInv, TypeOK
  <2>4. \A d \in Conns, l \in Keys : promised'[d][l] # 0 => Named(d, l)'
    BY <1>1, <1>3, <2>1 DEF Promising
  <2>5. ui'.at = "undoing" => \A l \in ui'.done : promised'[ui'.conn][l] = 0
    BY <1>1, <2>1, <2>3
  <2>6. mode = "none" \/ (mode = "portable" /\ lock.id = 0) =>
          \A d \in Conns, l \in Keys : promised'[d][l] = 0
    BY <1>1, <2>1 DEF Promising
  <2>7. QED
    BY <1>1, <1>3, <2>1, <2>2, <2>4, <2>5, <2>6 DEF Promising, Saving
<1>5. Lasting'
  <2> SUFFICES ASSUME ~changed, astray = {}, misread = {} PROVE Lasting'
    BY DEF Lasting
  <2>1. \A d \in Conns, l \in Keys : promised'[d][l] # 0 => kept'[d][l].value = promised'[d][l]
    BY <1>1, <1>2 DEF Lasting
  <2>2. ui.wrong = {} /\ \A l \in Typed(ui.typed) : ui.was[l] # 0 => ui.prev[l] = ui.was[l]
    BY DEF Lasting, Saving
  <2>3. ui'.at = "undoing" => Typed(ui.typed)' = Typed(ui.typed)
    BY <1>1 DEF Typed
  <2>4. \A j \in Jobs : job'[j].kind = "none"
    BY NoneBeside DEF Saving
  <2>5. QED
    BY <1>1, <2>1, <2>2, <2>3, <2>4 DEF Lasting, Saving
<1>6. QED
  BY <1>4, <1>5


\* The steps of a save that write secrets, put them back or take them back.
LEMMA WritingLasts ==
  ASSUME IInv, Promising, Lasting,
         \/ StoreSecret
         \/ \E k \in Keys : HoldSecret(k) \/ SealSecret(k) \/ TakeBack(k) \/ PutBackRefused(k)
  PROVE  Promising' /\ Lasting'
<1>0. TypeOK /\ ui \in UiStates /\ Shape
  BY TypeParts DEF IInv
<1>1. ASSUME NEW k \in Keys, HoldSecret(k) PROVE Promising' /\ Lasting'
  <2>1. /\ UNCHANGED <<mode, file, lock, job, kept, fresh, astray, changed, misread>>
        /\ ~Persistent /\ Landed(k) /\ Due(k)
    BY <1>1 DEF HoldSecret, SetInSession, counts
  <2>2. CASE ui.at = "setting"
    <3>1. k \in ToSet
      BY <2>2, <2>1, <1>0, DueFacts
    <3>2. QED
      BY <2>1, <2>2, <3>1, SetLasts
  <2>3. CASE ui.at = "undoing"
    <3>1. k \in ui.done /\ Undone(k, TRUE)
      BY <1>0, <2>1, <2>3, DueFacts, LandedFacts
    <3>2. mode = "none" \/ (mode = "portable" /\ lock.id = 0)
      BY <1>0, <2>1 DEF Persistent, TypeOK
    <3>3. ui.was[k] = 0
      BY <2>3, <3>2 DEF Promising, Saving
    <3>4. QED
      BY <2>1, <2>3, <3>1, <3>3, UndoneLasts
  <2>4. QED
    BY <1>0, <2>1, <2>2, <2>3, DueFacts
<1>2. ASSUME NEW k \in Keys, SealSecret(k) PROVE Promising' /\ Lasting'
  <2>1. UNCHANGED <<mode, file, lock, job, kept, fresh, promised, astray, changed, misread>>
    BY <1>2 DEF SealSecret, counts, history
  <2>2. /\ ui'.at = ui.at /\ ui'.conn = ui.conn /\ ui'.typed = ui.typed /\ ui'.done = ui.done
        /\ ui'.prev = ui.prev /\ ui'.was = ui.was /\ ui'.wrong = ui.wrong
    BY <1>0, <1>2 DEF SealSecret, UiStates
  <2>3. /\ ToSet' = ToSet /\ Typed(ui.typed)' = Typed(ui.typed) /\ (Persistent' <=> Persistent)
        /\ \A d \in Conns, l \in Keys : Named(d, l)' <=> Named(d, l)
    <3>1. Typed(ui.typed)' = Typed(ui.typed)
      BY <2>2 DEF Typed
    <3>2. ToSet' = ToSet
      BY <2>2, <3>1 DEF ToSet
    <3>3. QED
      BY <2>1, <3>1, <3>2 DEF Named, Persistent
  <2>4. Promising'
    <3>1. ui.conn \in Conns
      BY <1>0, <1>2, DueFacts DEF SealSecret
    <3>2. QED
      BY <2>1, <2>2, <2>3, <3>1 DEF Promising, Saving
  <2>5. Lasting'
    BY <2>1, <2>2, <2>3 DEF Lasting, Saving
  <2>6. QED
    BY <2>4, <2>5
<1>3. ASSUME NEW k \in Keys, TakeBack(k) PROVE Promising' /\ Lasting'
  <2>1. /\ UNCHANGED <<mode, file, lock, job, fresh, astray, changed, misread>>
        /\ ui.at = "undoing" /\ k \in ui.done /\ ui.prev[k] = 0 /\ ui.conn \in Conns
    BY <1>0, <1>3 DEF TakeBack, TypeOK, counts
  <2>2. PICK gone \in SUBSET {k} :
          VaultDelete(ui.conn, {k}, gone) /\ Undone(k, ~Persistent \/ gone = {k})
    BY <1>3 DEF TakeBack
  <2>3. PICK accepted \in BOOLEAN : Undone(k, accepted)
    <3>1. (~Persistent \/ gone = {k}) \in BOOLEAN
      OBVIOUS
    <3>2. QED
      BY <2>2, <3>1
  <2>4. \A d \in Conns, l \in Keys : d # ui.conn \/ l # k => kept'[d][l] = kept[d][l]
    <3>1. {k} \in SUBSET Keys
      OBVIOUS
    <3>2. \A d \in Conns, l \in Keys : d # ui.conn \/ l \notin {k} => kept'[d][l] = kept[d][l]
      BY <1>0, <2>1, <2>2, <3>1, DeleteFacts
    <3>3. QED
      BY <3>2
  <2>5. ~changed /\ astray = {} /\ misread = {} => ui.was[k] = 0
    BY <2>1 DEF Lasting, Promising, Saving
  <2>6. QED
    BY <2>1, <2>3, <2>4, <2>5, UndoneLasts
<1>4. ASSUME NEW k \in Keys, PutBackRefused(k) PROVE Promising' /\ Lasting'
  <2>1. /\ UNCHANGED <<mode, file, kept, lock, job, fresh, astray, changed, misread>>
        /\ ui.at = "undoing" /\ k \in ui.done /\ Undone(k, FALSE)
    BY <1>0, <1>4, DueFacts DEF PutBackRefused, counts
  <2>2. PICK accepted \in BOOLEAN : ~accepted /\ Undone(k, accepted)
    BY <2>1
  <2>3. QED
    BY <2>1, <2>2, UndoneLasts
<1>5. CASE StoreSecret
  <2>1. PICK w \in ui.sent : Store(w, Given[w.key]) /\ Landed(w.key)
    BY <1>5 DEF StoreSecret
  <2>2. /\ w \in Sent /\ w.key \in Keys /\ w.conn = ui.conn /\ w.conn \in Conns /\ Saving
        /\ ui.at = "setting" => w.key \in ToSet
        /\ ui.at = "undoing" => w.key \in ui.done
    BY <1>0 DEF UiStates, Sent, Shape
  <2>3. Given[w.key] \in Values
    BY <1>0, <2>2 DEF Given, UiStates
  <2>4. /\ \A d \in Conns, l \in Keys : d # ui.conn \/ l # w.key => kept'[d][l] = kept[d][l]
        /\ kept'[ui.conn][w.key].value = Given[w.key]
    <3>1. \A d \in Conns, l \in Keys :
            kept'[d][l] = IF d = w.conn /\ l = w.key THEN [seal |-> w.seal, value |-> Given[w.key]]
                          ELSE kept[d][l]
      BY <1>0, <2>1, <2>2, <2>3, StoreFacts
    <3>2. QED
      BY <2>2, <3>1
  <2>5. UNCHANGED <<mode, file, lock, job, fresh, astray, changed, misread>>
    BY <1>5 DEF StoreSecret, counts
  <2>6. CASE ui.at = "setting"
    BY <2>1, <2>2, <2>4, <2>5, <2>6, SetLasts DEF Given
  <2>7. CASE ui.at = "undoing"
    <3>1. Undone(w.key, TRUE)
      BY <1>0, <2>1, <2>2, <2>7, LandedFacts
    <3>2. w.key \in Typed(ui.typed) /\ kept'[ui.conn][w.key].value = ui.prev[w.key]
      BY <2>2, <2>4, <2>7 DEF Promising, Given
    <3>3. ~changed /\ astray = {} /\ misread = {} =>
            (ui.was[w.key] # 0 => kept'[ui.conn][w.key].value = ui.was[w.key])
      BY <2>2, <2>7, <3>2 DEF Lasting
    <3>4. QED
      BY <2>2, <2>4, <2>5, <2>7, <3>1, <3>3, UndoneLasts
  <2>8. QED
    BY <2>2, <2>6, <2>7 DEF Saving
<1>6. QED
  BY <1>1, <1>2, <1>3, <1>4, <1>5

\* The save fails at one of them.
LEMMA RefusedLasts == IInv /\ Promising /\ Lasting /\ SetRefused => Promising' /\ Lasting'
<1> SUFFICES ASSUME IInv, Promising, Lasting, SetRefused PROVE Promising' /\ Lasting'
  OBVIOUS
<1>0. TypeOK /\ promised \in Promises /\ ui \in UiStates /\ ui.done \in SUBSET Keys
  BY TypeParts DEF IInv, UiStates
<1>1. /\ ui.at = "setting" /\ UNCHANGED <<mode, file, lock, job, fresh, astray, changed, misread>>
      /\ ui'.at = "idle" /\ ui.conn \in Conns
  BY <1>0, Records DEF SetRefused, TypeOK, counts
<1>2. \A d \in Conns, l \in Keys : d # ui.conn \/ l \notin ui.done => kept'[d][l] = kept[d][l]
  <2>1. PICK gone \in SUBSET ui.done : VaultDelete(ui.conn, ui.done, gone)
    BY DEF SetRefused
  <2>2. QED
    BY <1>0, <1>1, <2>1, DeleteFacts
<1>3. \A d \in Conns, k \in Keys :
        promised'[d][k] = IF d = ui.conn /\ k \in ToSet THEN ui.was[k] ELSE promised[d][k]
  BY <1>0, <1>1 DEF SetRefused, Promises
<1>4. \A d \in Conns, l \in Keys : Named(d, l)' <=> Named(d, l)
  BY <1>1 DEF Named
<1>5. Promising'
  BY <1>1, <1>3, <1>4 DEF Promising, Saving
<1>6. \A k \in Keys : k \in ui.done => promised[ui.conn][k] = 0 /\ k \notin ToSet
  BY <1>1 DEF Promising, Typed, ToSet, Saving
<1>7. Lasting'
  <2> SUFFICES ASSUME ~changed, astray = {}, misread = {}, NEW d \in Conns, NEW k \in Keys,
                      promised'[d][k] # 0
               PROVE  kept'[d][k].value = promised'[d][k]
    BY <1>1, NoneBeside DEF Lasting, Saving
  <2>1. CASE d = ui.conn /\ k \in ToSet
    BY <1>1, <1>2, <1>3, <1>6, <2>1 DEF Lasting
  <2>2. CASE ~(d = ui.conn /\ k \in ToSet)
    BY <1>2, <1>3, <1>6, <2>2 DEF Lasting
  <2>3. QED
    BY <2>1, <2>2
<1>8. QED
  BY <1>5, <1>7


\* The settings are written: what was typed is promised.
LEMMA SavedLasts == IInv /\ Promising /\ Lasting /\ SaveSettings => Promising' /\ Lasting'
<1> SUFFICES ASSUME IInv, Promising, Lasting, SaveSettings PROVE Promising' /\ Lasting'
  OBVIOUS
<1>0. TypeOK /\ promised \in Promises /\ ui \in UiStates /\ file \in Files
  BY TypeParts DEF IInv
<1>1. /\ ui.at = "setting" /\ ToSet = {}
      /\ UNCHANGED <<mode, kept, lock, job, fresh, astray, changed, misread>>
      /\ ui'.at = "idle" /\ ui.conn \in Conns
  BY <1>0, Records DEF SaveSettings, TypeOK, counts
<1>2. \A d \in Conns, k \in Keys :
        promised'[d][k] = IF d = ui.conn /\ k \in Typed(ui.typed) /\ Persistent
                          THEN ui.typed[k] ELSE promised[d][k]
  BY <1>0, <1>1 DEF SaveSettings, Promises
<1>3. /\ file'.conns = file.conns \cup {ui.conn}
      /\ \A d \in Conns : file'.names[d] = IF d = ui.conn THEN file.names[d] \cup Typed(ui.typed)
                                           ELSE file.names[d]
  <2>1. Typed(ui.typed) \subseteq Keys
    BY DEF Typed
  <2>2. QED
    BY <1>0, <1>1, <2>1 DEF SaveSettings, Files
<1>4. \A d \in Conns, k \in Keys :
        Named(d, k) \/ (d = ui.conn /\ k \in Typed(ui.typed)) => Named(d, k)'
  BY <1>3 DEF Named
<1>5. Promising'
  <2>1. \A d \in Conns, k \in Keys : promised'[d][k] # 0 => Named(d, k)'
    BY <1>2, <1>4 DEF Promising
  <2>2. \A d \in file'.conns : d \notin fresh'
    BY <1>1, <1>3 DEF Promising, Saving
  <2>3. QED
    BY <1>1, <1>2, <2>1, <2>2 DEF Promising, Persistent, Saving
<1>6. Typed(ui.typed) \subseteq ui.done
  BY <1>1 DEF ToSet
<1>7. \A k \in Typed(ui.typed) : promised[ui.conn][k] = 0 /\ k \in Keys
  BY <1>1 DEF Promising, Typed
<1>8. Lasting'
  <2> SUFFICES ASSUME ~changed, astray = {}, misread = {}, NEW d \in Conns, NEW k \in Keys,
                      promised'[d][k] # 0
               PROVE  kept[d][k].value = promised'[d][k]
    BY <1>1, NoneBeside DEF Lasting, Saving
  <2>1. CASE d = ui.conn /\ k \in Typed(ui.typed)
    BY <1>1, <1>2, <1>6, <1>7, <2>1 DEF Lasting
  <2>2. CASE ~(d = ui.conn /\ k \in Typed(ui.typed))
    BY <1>2, <2>2 DEF Lasting
  <2>3. QED
    BY <2>1, <2>2
<1>9. QED
  BY <1>5, <1>8

\* They cannot be: what is put back was read as what is kept, if none was misread.
LEMMA UndoingLasts == IInv /\ Promising /\ Lasting /\ SaveRefused => Promising' /\ Lasting'
<1> SUFFICES ASSUME IInv, Promising, Lasting, SaveRefused PROVE Promising' /\ Lasting'
  OBVIOUS
<1>0. TypeOK /\ ui \in UiStates /\ ui.done \in SUBSET Keys
  BY TypeParts DEF IInv, UiStates
<1>1. /\ UNCHANGED <<mode, file, kept, lock, job, fresh, promised, astray, changed>>
      /\ ui.at = "setting" /\ misread' = misread \cup ui.wrong
  BY DEF SaveRefused, counts
<1>2. \/ ui'.at = "idle"
      \/ /\ ui'.at = "undoing" /\ ui'.conn = ui.conn /\ ui'.typed = ui.typed /\ ui'.prev = ui.prev
         /\ ui'.was = ui.was /\ ui'.wrong = ui.wrong /\ ui'.done = ui.done
  <2>1. CASE ui' = Idle
    BY <2>1, Records
  <2>2. CASE ui' = [ui EXCEPT !.at = "undoing"]
    BY <1>0, <2>2 DEF UiStates
  <2>3. QED
    BY <2>1, <2>2 DEF SaveRefused
<1>3. /\ \A d \in Conns, l \in Keys : Named(d, l)' <=> Named(d, l)
      /\ ui'.at # "idle" => Typed(ui.typed)' = Typed(ui.typed)
  BY <1>1, <1>2 DEF Named, Typed
<1>4. \A k \in ui.done : promised[ui.conn][k] = 0
  BY <1>0, <1>1 DEF Promising, Saving, Typed
<1>5. Promising'
  <2>1. ui.conn \in Conns
    BY <1>0, <1>1 DEF TypeOK
  <2>2. QED
    BY <1>1, <1>2, <1>3, <1>4, <2>1 DEF Promising, Saving
<1>6. Lasting'
  <2> SUFFICES ASSUME ~changed, astray = {}, misread' = {} PROVE Lasting'
    BY <1>1 DEF Lasting
  <2>1. misread = {} /\ ui.wrong = {}
    BY <1>1
  <2>2. QED
    BY <2>1, <1>1, <1>2, <1>3, NoneBeside DEF Lasting, Saving
<1>7. QED
  BY <1>5, <1>6

\* A connection is removed, with its secrets or some of them.
LEMMA RemovedLasts ==
  ASSUME IInv, Promising, Lasting, DeleteSecrets \/ \E c \in Conns : Delete(c)
  PROVE  Promising' /\ Lasting'
<1>0. TypeOK /\ promised \in Promises /\ ui \in UiStates /\ file \in Files /\ ui.done \in SUBSET Keys
  BY TypeParts DEF IInv, UiStates
<1>1. CASE DeleteSecrets
  <2>1. /\ ui.at = "deleting" /\ ui'.at = "idle" /\ ui.conn \in Conns
        /\ UNCHANGED <<mode, file, lock, job, fresh, promised, astray, changed, misread>>
    BY <1>0, <1>1, Records DEF DeleteSecrets, TypeOK, counts, history
  <2>2. \A d \in Conns, l \in Keys : d # ui.conn => kept'[d][l] = kept[d][l]
    <3>1. PICK gone \in SUBSET ui.done : VaultDelete(ui.conn, ui.done, gone)
      BY <1>1 DEF DeleteSecrets
    <3>2. QED
      BY <1>0, <2>1, <3>1, DeleteFacts
  <2>3. /\ \A d \in Conns, l \in Keys : Named(d, l)' <=> Named(d, l)
        /\ \A l \in Keys : promised[ui.conn][l] = 0
    BY <2>1 DEF Named, Promising
  <2>4. QED
    BY <2>1, <2>2, <2>3 DEF Promising, Lasting, Saving
<1>2. ASSUME NEW c \in Conns, Delete(c) PROVE Promising' /\ Lasting'
  <2>1. /\ UNCHANGED <<mode, kept, lock, job, fresh, astray, changed, misread>>
        /\ ui'.at = "deleting" /\ ui'.conn = c
        /\ file'.conns = file.conns \ {c}
        /\ \A d \in Conns : file'.names[d] = IF d = c THEN {} ELSE file.names[d]
    <3>1. file'.conns = file.conns \ {c}
          /\ \A d \in Conns : file'.names[d] = IF d = c THEN {} ELSE file.names[d]
      BY <1>0, <1>2 DEF Delete, Files
    <3>2. ui'.at = "deleting" /\ ui'.conn = c
      BY <1>2 DEF Delete, Idle
    <3>3. UNCHANGED <<mode, kept, lock, job, fresh, astray, changed, misread>>
      BY <1>2 DEF Delete, counts
    <3>4. QED
      BY <3>1, <3>2, <3>3
  <2>2. \A d \in Conns, l \in Keys : promised'[d][l] = IF d = c THEN 0 ELSE promised[d][l]
    BY <1>0, <1>2 DEF Delete, Promises, Blank
  <2>3. \A d \in Conns, l \in Keys : d # c /\ Named(d, l) => Named(d, l)'
    BY <2>1 DEF Named
  <2>4. QED
    BY <2>1, <2>2, <2>3 DEF Promising, Lasting, Saving
<1>3. QED
  BY <1>1, <1>2

\* The lock is opened or shut.
LEMMA ShutLasts == IInv /\ Promising /\ Lasting /\ (CloseVault \/ UnlockVault) => Promising' /\ Lasting'
<1> SUFFICES ASSUME IInv, Promising, Lasting, CloseVault \/ UnlockVault PROVE Promising' /\ Lasting'
  OBVIOUS
<1>1. /\ UNCHANGED <<mode, file, kept, ui, job, fresh, promised, astray, changed, misread>>
      /\ lock'.id = lock.id
  BY DEF CloseVault, UnlockVault, IInv, TypeOK, counts, history
<1>2. Promising'
  BY <1>1 DEF Promising, Typed, Saving, Named
<1>3. Lasting'
  BY <1>1 DEF Lasting, Persistent, ToSet, Typed, Saving
<1>4. QED
  BY <1>2, <1>3


\* A job reads what is promised, if it is there at all.
LEMMA JobLasts ==
  ASSUME IInv, Promising, Lasting, NEW j \in Jobs, LockVault(j) \/ RemoveVaultLock(j)
  PROVE  Promising' /\ Lasting'
<1>0. TypeOK /\ job \in [Jobs -> JobStates] /\ lock \in [id : Locks, open : BOOLEAN]
  BY TypeParts DEF IInv
<1>1. /\ UNCHANGED <<mode, file, kept, ui, fresh, promised, misread>> /\ lock'.id = lock.id
      /\ ~changed' => ~changed /\ (LockVault(j) => lock.id = 0)
  <2>1. CASE LockVault(j)
    BY <2>1 DEF LockVault, counts
  <2>2. CASE RemoveVaultLock(j)
    <3>1. ~LockVault(j) \/ lock.id # 0
      BY <2>2 DEF RemoveVaultLock
    <3>2. UNCHANGED <<mode, file, kept, ui, fresh, promised, misread, changed>> /\ lock'.id = lock.id
      BY <1>0, <2>2 DEF RemoveVaultLock, counts
    <3>3. LockVault(j) => changed'
      BY <3>1 DEF LockVault
    <3>4. QED
      BY <3>2, <3>3
  <2>3. QED
    BY <2>1, <2>2
<1>2. /\ astray' = {} => astray = {} /\ ui.at = "idle"
      /\ \A i \in Jobs : i # j => job'[i] = job[i]
  <2>1. ASSUME NEW record, Starts(j, record)
        PROVE  /\ astray' = {} => astray = {} /\ ui.at = "idle"
               /\ \A i \in Jobs : i # j => job'[i] = job[i]
    BY <1>0, <2>1 DEF Starts
  <2>2. QED
    BY <2>1 DEF LockVault, RemoveVaultLock
<1>3. \A d \in Conns, l \in Keys : Named(d, l)' <=> Named(d, l)
  BY <1>1 DEF Named
<1>4. Promising'
  BY <1>1 DEF Promising, Saving, Typed, Named
<1>5. ASSUME ~changed', NEW c \in Conns, NEW k \in Keys, promised[c][k] # 0
      PROVE  job'[j].held[c][k] = kept[c][k].value
  <2>1. Named(c, k) /\ (mode = "keychain" \/ (mode = "portable" /\ lock.id # 0))
    BY <1>0, <1>5 DEF Promising, TypeOK
  <2>2. CASE LockVault(j)
    <3>1. lock.id = 0 /\ ~Unreadable(c, k) /\ ~Locked
      BY <1>1, <1>5, <2>1, <2>2 DEF LockVault
    <3>2. mode = "keychain" /\ session[c][k] = 0 /\ Persistent
      BY <2>1, <3>1 DEF IInv, Shape, Persistent
    <3>3. VaultGet(c, k) = kept[c][k].value
      BY <3>1, <3>2 DEF Unreadable, VaultGet
    <3>4. job'[j].held = HeldSecrets
      <4> DEFINE r == LockJob(HeldSecrets)
      <4>1. Starts(j, r) /\ r.held = HeldSecrets
        BY <2>2 DEF LockVault, LockJob
      <4> HIDE DEF r
      <4>2. job'[j] = r
        BY <1>0, <4>1 DEF Starts
      <4>3. QED
        BY <4>1, <4>2
    <3>5. QED
      BY <2>1, <3>3, <3>4 DEF HeldSecrets
  <2>3. CASE RemoveVaultLock(j)
    <3>1. mode = "keychain" /\ session[c][k] = 0
      BY <2>1, <2>3 DEF RemoveVaultLock, IInv, Shape
    <3> DEFINE held == [d \in Conns |-> [l \in Keys |->
                  IF ~Named(d, l) THEN 0
                  ELSE IF session[d][l] # 0 THEN session[d][l] ELSE kept[d][l].value]]
    <3>2. held[c][k] = kept[c][k].value
      BY <2>1, <3>1
    <3> DEFINE r == UnlockJob(held)
    <3>3. Starts(j, r)
      BY <2>3 DEF RemoveVaultLock, UnlockJob
    <3> HIDE DEF held
    <3>4. r.held = held
      BY DEF UnlockJob
    <3> HIDE DEF r
    <3>5. job'[j] = r
      BY <1>0, <3>3 DEF Starts
    <3>6. QED
      BY <3>2, <3>4, <3>5
  <2>4. QED
    BY <2>2, <2>3
<1>6. Lasting'
  <2> SUFFICES ASSUME ~changed', astray' = {}, misread = {} PROVE Lasting'
    BY <1>1 DEF Lasting
  <2>1. ~changed /\ astray = {} /\ ui'.at = "idle"
    BY <1>1, <1>2
  <2>2. \A c \in Conns, k \in Keys : promised[c][k] # 0 => kept[c][k].value = promised[c][k]
    BY <2>1 DEF Lasting
  <2>3. \A i \in Jobs : job'[i].kind # "none" => \A c \in Conns, k \in Keys :
          promised[c][k] # 0 => job'[i].held[c][k] \in {0, promised[c][k]}
    BY <1>2, <1>5, <2>1, <2>2 DEF Lasting
  <2>4. QED
    BY <1>1, <2>1, <2>2, <2>3 DEF Lasting, Saving
<1>7. QED
  BY <1>4, <1>6

\* A job's steps leave what it would write back, or are done with it.
LEMMA LockLasts ==
  ASSUME IInv, Promising, Lasting, NEW j \in Jobs,
         \/ SaveLock(j) \/ SetLock(j) \/ AllWritten(j) \/ StoreBack(j)
         \/ \E c \in Conns, k \in Keys :
              WriteInSession(j, c, k) \/ SealBack(j, c, k) \/ WriteRefused(j, c, k)
  PROVE  Promising' /\ Lasting'
<1>0. TypeOK /\ job \in [Jobs -> JobStates] /\ job[j] \in JobStates /\ file \in Files /\ Shape
  BY TypeParts DEF IInv
<1>1. /\ UNCHANGED <<mode, ui, fresh, promised, astray, changed, misread>>
      /\ lock'.id = lock.id \/ SetLock(j)
      /\ file'.conns = file.conns /\ file'.names = file.names
  BY <1>0 DEF SaveLock, SetLock, AllWritten, StoreBack, WriteInSession, SealBack, WriteRefused,
     Files, counts, history
<1>2. job[j].kind # "none"
  BY <1>0 DEF SaveLock, SetLock, AllWritten, StoreBack, WriteInSession, SealBack, WriteRefused,
     Rewritten, Left, Shape, IInv, Phases
<1>3. /\ \A i \in Jobs : i # j => job'[i] = job[i]
      /\ \/ job'[j].kind = "none"
         \/ /\ job'[j].kind = job[j].kind
            /\ \A d \in Conns, l \in Keys : job'[j].held[d][l] \in {0, job[j].held[d][l]}
  <2>1. CASE SaveLock(j) \/ SetLock(j) \/ AllWritten(j) \/ \E c \in Conns, k \in Keys : SealBack(j, c, k)
    <3>1. ASSUME SaveLock(j)
          PROVE  job' = [job EXCEPT ![j] = NoJob] \/ job' = [job EXCEPT ![j] = [job[j] EXCEPT !.at = "setting"]]
      BY <3>1 DEF SaveLock
    <3>2. ASSUME AllWritten(j)
          PROVE  job' = [job EXCEPT ![j] = NoJob] \/ job' = [job EXCEPT ![j] = [job[j] EXCEPT !.at = "saving"]]
      BY <3>2 DEF AllWritten
    <3>3. ASSUME SetLock(j)
          PROVE  job' = [job EXCEPT ![j] = [job[j] EXCEPT !.at = "writing"]]
      BY <3>3 DEF SetLock
    <3>4. ASSUME NEW c \in Conns, NEW k \in Keys, SealBack(j, c, k)
          PROVE  job' = [job EXCEPT ![j] = [job[j] EXCEPT !.sent = {Seal(c, k)}]]
      BY <3>4 DEF SealBack
    <3>5. ASSUME NEW at, job' = [job EXCEPT ![j] = [job[j] EXCEPT !.at = at]]
          PROVE  /\ job'[j].kind = job[j].kind /\ job'[j].held = job[j].held
                 /\ \A i \in Jobs : i # j => job'[i] = job[i]
      BY <1>0, <3>5 DEF JobStates
    <3>6. ASSUME NEW sent, job' = [job EXCEPT ![j] = [job[j] EXCEPT !.sent = sent]]
          PROVE  /\ job'[j].kind = job[j].kind /\ job'[j].held = job[j].held
                 /\ \A i \in Jobs : i # j => job'[i] = job[i]
      BY <1>0, <3>6 DEF JobStates
    <3>7. ASSUME job' = [job EXCEPT ![j] = NoJob]
          PROVE  job'[j].kind = "none" /\ \A i \in Jobs : i # j => job'[i] = job[i]
      BY <1>0, <3>7, Records
    <3>8. QED
      BY <2>1, <3>1, <3>2, <3>3, <3>4, <3>5, <3>6, <3>7
  <2>2. ASSUME NEW c \in Conns, NEW k \in Keys, NEW failed \in BOOLEAN, Rewrote(j, c, k, failed)
        PROVE  /\ \A i \in Jobs : i # j => job'[i] = job[i]
               /\ job'[j].kind = job[j].kind
               /\ \A d \in Conns, l \in Keys : job'[j].held[d][l] \in {0, job[j].held[d][l]}
    BY <1>0, <2>2, RewroteFacts
  <2>3. ASSUME NEW c \in Conns, NEW k \in Keys, WriteInSession(j, c, k) \/ WriteRefused(j, c, k)
        PROVE  \E failed \in BOOLEAN : Rewrote(j, c, k, failed)
    BY <2>3 DEF WriteInSession, WriteRefused
  <2>4. ASSUME StoreBack(j)
        PROVE  \E c \in Conns, k \in Keys : \E failed \in BOOLEAN : Rewrote(j, c, k, failed)
    <3>1. PICK w \in job[j].sent : Rewrote(j, w.conn, w.key, FALSE)
      BY <2>4 DEF StoreBack
    <3>2. w.conn \in Conns /\ w.key \in Keys
      BY <1>0 DEF JobStates, Sent
    <3>3. QED
      BY <3>1, <3>2
  <2>5. QED
    BY <2>1, <2>2, <2>3, <2>4
<1>4. \A d \in Conns, l \in Keys :
        \/ kept'[d][l] = kept[d][l]
        \/ job[j].held[d][l] # 0 /\ kept'[d][l].value = job[j].held[d][l]
  <2>1. CASE ~StoreBack(j)
    BY <2>1 DEF SaveLock, SetLock, AllWritten, WriteInSession, SealBack, WriteRefused
  <2>2. CASE StoreBack(j)
    <3>1. PICK w \in job[j].sent : Store(w, job[j].held[w.conn][w.key])
      BY <2>2 DEF StoreBack
    <3>2. w \in Sent /\ w.conn \in Conns /\ w.key \in Keys /\ job[j].held[w.conn][w.key] \in Values \ {0}
      BY <1>0 DEF JobStates, Sent, Shape
    <3>3. \A d \in Conns, l \in Keys :
            kept'[d][l] = IF d = w.conn /\ l = w.key
                          THEN [seal |-> w.seal, value |-> job[j].held[w.conn][w.key]] ELSE kept[d][l]
      BY <1>0, <3>1, <3>2, StoreFacts
    <3>4. QED
      BY <3>2, <3>3
  <2>3. QED
    BY <2>1, <2>2
<1>5. mode = "none" \/ (mode = "portable" /\ lock'.id = 0) => mode = "none" \/ (mode = "portable" /\ lock.id = 0)
  <2>1. CASE SetLock(j)
    <3>1. job[j].kind \in {"lock", "remove"} /\ lock'.id = job[j].next
      BY <1>0, <1>2, <2>1 DEF SetLock, JobStates
    <3>2. QED
      BY <3>1 DEF IInv, Phases
  <2>2. QED
    BY <1>1, <2>1
<1>6. Promising'
  BY <1>1, <1>5 DEF Promising, Saving, Typed, Named
<1>7. Lasting'
  <2> SUFFICES ASSUME ~changed, astray = {}, misread = {} PROVE Lasting'
    BY <1>1 DEF Lasting
  <2>1. /\ \A c \in Conns, k \in Keys : promised[c][k] # 0 => kept[c][k].value = promised[c][k]
        /\ \A i \in Jobs : job[i].kind # "none" => \A c \in Conns, k \in Keys :
             promised[c][k] # 0 => job[i].held[c][k] \in {0, promised[c][k]}
    BY DEF Lasting
  <2>2. ~Saving
    BY <1>2, NoneBeside
  <2>3. \A c \in Conns, k \in Keys : promised[c][k] # 0 => kept'[c][k].value = promised[c][k]
    BY <1>2, <1>4, <2>1
  <2>4. \A i \in Jobs : job'[i].kind # "none" => \A c \in Conns, k \in Keys :
          promised[c][k] # 0 => job'[i].held[c][k] \in {0, promised[c][k]}
    <3>1. job'[j].kind # "none" => \A c \in Conns, k \in Keys :
            promised[c][k] # 0 => job'[j].held[c][k] \in {0, promised[c][k]}
      <4>1. \A c \in Conns, k \in Keys : promised[c][k] # 0 => job[j].held[c][k] \in {0, promised[c][k]}
        BY <1>2, <2>1
      <4>2. job'[j].kind # "none" => \A c \in Conns, k \in Keys : job'[j].held[c][k] \in {0, job[j].held[c][k]}
        BY <1>3
      <4>3. QED
        BY <4>1, <4>2
    <3>2. ASSUME NEW i \in Jobs, i # j
          PROVE  job'[i].kind # "none" => \A c \in Conns, k \in Keys :
                   promised[c][k] # 0 => job'[i].held[c][k] \in {0, promised[c][k]}
      <4>1. job'[i] = job[i]
        BY <1>3, <3>2
      <4>2. QED
        BY <2>1, <4>1
    <3>3. QED
      BY <3>1, <3>2
  <2>5. QED
    BY <1>1, <2>2, <2>3, <2>4 DEF Lasting, Saving
<1>8. QED
  BY <1>6, <1>7


\* The process ends, and is started again.
LEMMA RestartLasts == IInv /\ Promising /\ Lasting /\ Restart => Promising' /\ Lasting'
<1> SUFFICES ASSUME IInv, Promising, Lasting, Restart PROVE Promising' /\ Lasting'
  OBVIOUS
<1>1. /\ UNCHANGED <<mode, file, kept, fresh, promised, astray, changed, misread>>
      /\ ui'.at = "idle" /\ lock'.id = file.lock
      /\ \A j \in Jobs : job'[j].kind = "none"
  BY Records DEF Restart, counts, history
<1>2. \A d \in Conns, l \in Keys : Named(d, l)' <=> Named(d, l)
  BY <1>1 DEF Named
<1>3. mode = "portable" /\ file.lock = 0 => lock.id = 0
  BY DEF IInv, Shape
<1>4. QED
  BY <1>1, <1>2, <1>3 DEF Promising, Lasting, Saving

\* Every step keeps what is promised.
LEMMA LastStep == IInv /\ Promising /\ Lasting /\ [Next]_vars => Promising' /\ Lasting'
<1> SUFFICES ASSUME IInv, Promising, Lasting, [Next]_vars PROVE Promising' /\ Lasting'
  OBVIOUS
<1> DEFINE Lasts == Promising' /\ Lasting'
<1>0. TypeOK
  BY DEF IInv
<1>1. ASSUME NEW c \in Conns, NEW S \in SUBSET Keys, Create(c, S) PROVE Lasts
  <2>1. [k \in Keys |-> IF k \in S THEN saves + 1 ELSE 0] \in [Keys -> Values]
    BY <1>0, <1>1, Beginnings DEF Create
  <2>2. fresh' \subseteq fresh /\ c \notin fresh'
    BY <1>1 DEF Create
  <2>3. QED
    BY <1>1, <2>1, <2>2, Records, BeginLasts DEF Create
<1>2. ASSUME NEW c \in Conns, NEW S \in SUBSET Keys, NEW unread \in SUBSET Keys, Update(c, S, unread)
      PROVE  Lasts
  <2>1. /\ [k \in Keys |-> IF k \in S THEN saves + 1 ELSE 0] \in [Keys -> Values]
        /\ [k \in Keys |-> IF k \in S \ unread THEN VaultGet(c, k) ELSE 0] \in [Keys -> Values]
    BY <1>0, <1>2, Beginnings DEF Update
  <2>2. fresh' \subseteq fresh /\ c \notin fresh'
    BY <1>2 DEF Update, Promising
  <2>3. QED
    BY <1>2, <2>1, <2>2, BeginLasts DEF Update
<1>3. ASSUME NEW c \in Conns, NEW d \in Conns, Duplicate(c, d) PROVE Lasts
  <2>1. fresh' \subseteq fresh /\ d \notin fresh'
    BY <1>3 DEF Duplicate
  <2>2. QED
    BY <1>0, <1>3, <2>1, Copies, Records, BeginLasts DEF Duplicate
<1>4. CASE UNCHANGED vars
  <2>1. UNCHANGED <<mode, file, kept, lock, ui, job, fresh, promised, astray, changed, misread>>
    BY <1>4 DEF vars, counts, history
  <2>2. Promising'
    BY <2>1 DEF Promising, Typed, Saving, Named
  <2>3. Lasting'
    BY <2>1 DEF Lasting, Persistent, ToSet, Typed, Saving
  <2>4. QED
    BY <2>2, <2>3
<1>5. CASE Window
  BY <1>1, <1>2, <1>3, <1>5, WritingLasts, RefusedLasts, SavedLasts, UndoingLasts, RemovedLasts,
     ShutLasts DEF Window
<1>6. CASE Locking
  BY <1>6, JobLasts, LockLasts DEF Locking
<1>7. QED
  BY <1>4, <1>5, <1>6, RestartLasts DEF Next

\* What a save has persisted stays as it was typed, through later saves that fail and put it
\* back, locks put on and taken off, at once too, refused writes and restarts, until it is
\* typed again (Connections.Update, rewrite); but for a save that overlapped a job, a changed
\* passphrase, or a failed save that had misread what it was to put back.
THEOREM VaultLastSaved == Spec => []LastSaved
<1> DEFINE Lasts == IInv /\ Promising /\ Lasting
<1>1. Init => Lasts
  BY InvInit, LastInit
<1>2. Lasts /\ [Next]_vars => Lasts'
  BY InvStep, LastStep
<1>3. Lasts => LastSaved
  BY DEF Lasting, LastSaved, Promising
<1> HIDE DEF Lasts
<1>4. QED
  BY <1>1, <1>2, <1>3, PTL DEF Spec
=============================================================================
