------------------------------- MODULE Vault -------------------------------
(***************************************************************************)
(* Saved connections and their secrets: the settings file, which names     *)
(* each connection's secrets (internal/store/settings.go), the keychain or *)
(* the portable secrets file that holds them, the vault over it            *)
(* (internal/app/vault.go), its lock (lock.go), the operations of the      *)
(* window on connections (connections.go), and the goroutines that put the *)
(* lock on or take it off (vaultlock.go), of which nothing keeps a second  *)
(* from starting while the first is under way.  The process may die        *)
(* anywhere.                                                               *)
(*                                                                         *)
(* A lock is its number and 0 is none, so a secret sealed by lock 2 reads  *)
(* only with the key of lock 2, and one sealed by 0 is stored in the open. *)
(* A secret's value is the number of the save that typed it; 0 is none.    *)
(* A settings file is replaced whole or not at all, and so is the file of  *)
(* a portable vault: each such write is one step, which may be refused.  A *)
(* secret is sealed with the lock there is, and handed to the keychain in  *)
(* a later step, when there may be another.                                *)
(***************************************************************************)
EXTENDS Integers

CONSTANTS
  Jobs,      \* goroutines that lock or unlock the vault, at once
  Conns,     \* identifiers a connection may be given; none is given twice
  Keys,      \* names of secrets, written in their order
  MaxSaves,  \* bound: how many saves type a secret
  MaxLocks   \* bound: how many passphrases are set

ASSUME VaultBounds == Keys \subseteq Nat /\ MaxSaves \in Nat /\ MaxLocks \in Nat

Locks == 0..MaxLocks
Values == 0..MaxSaves

VARIABLES
  mode,      \* where secrets are kept: the keychain, beside the binary, nowhere
  file,      \* the settings file: its lock, its connections and their secrets' names
  kept,      \* what the keychain or the secrets file holds
  session,   \* v.session: secrets of this process only
  lock,      \* v.lock, and whether its key is derived
  ui,        \* the window's goroutine, and the save it is in
  job,       \* the goroutines that lock or unlock the vault
  fresh, saves, locks,  \* identifiers not given yet, saves and locks made
  promised,  \* history: the value a save that succeeded has persisted
  astray,    \* history: kinds of jobs a save has overlapped
  crossed,   \* history: a job has overlapped another
  changed,   \* history: a passphrase was replaced by another
  misread,   \* history: how saves that failed had misread what they put back
  sealed     \* history: the last job to end well put a lock on

counts  == <<fresh, saves, locks>>
history == <<promised, astray, crossed, changed, misread, sealed>>
vars    == <<mode, file, kept, session, lock, ui, job, counts, history>>

Blank   == [k \in Keys |-> 0]
Nothing == [seal |-> 0, value |-> 0]
Idle    == [at |-> "idle", conn |-> 0, typed |-> Blank, done |-> {}, sent |-> {},
            prev |-> Blank, was |-> Blank, wrong |-> {}]
NoJob   == [at |-> "idle", kind |-> "none", next |-> 0,
            held |-> [c \in Conns |-> Blank], sent |-> {}, failed |-> FALSE]

-----------------------------------------------------------------------------
(***************************************************************************)
(* The vault and its lock                                                  *)
(***************************************************************************)
Persistent == mode = "keychain" \/ (mode = "portable" /\ lock.id # 0)

Locked == lock.id # 0 /\ ~lock.open

\* The value Get answers with, or 0 where it answers with an error.
VaultGet(c, k) ==
  IF session[c][k] # 0 THEN session[c][k]
  ELSE IF Persistent /\ ~Locked /\ kept[c][k].seal \in {0, lock.id}
       THEN kept[c][k].value
       ELSE 0

\* Get's error is not that there is no such secret.
Unreadable(c, k) ==
  /\ session[c][k] = 0 /\ Persistent
  /\ Locked \/ kept[c][k].seal \notin {0, lock.id}

\* Set, where nothing is persisted.
SetInSession(c, k, v) ==
  /\ ~Persistent
  /\ session' = [session EXCEPT ![c][k] = v]

\* Set elsewhere: the secret is sealed with the lock there is now ...
CanSeal == Persistent /\ ~Locked
Seal(c, k) == [conn |-> c, key |-> k, seal |-> lock.id]

\* ... and the keychain or the secrets file takes it.
Store(w, v) == kept' = [kept EXCEPT ![w.conn][w.key] = [seal |-> w.seal, value |-> v]]

\* Deleting the secrets S of connection c; the keychain gives up those in gone.
VaultDelete(c, S, gone) ==
  /\ gone \subseteq S /\ (~Persistent => gone = {})
  /\ session' = [session EXCEPT ![c] = [k \in Keys |-> IF k \in S THEN 0 ELSE @[k]]]
  /\ kept' = [kept EXCEPT ![c] = [k \in Keys |-> IF k \in gone THEN Nothing ELSE @[k]]]

-----------------------------------------------------------------------------
Init ==
  /\ mode \in {"keychain", "portable", "none"}
  /\ file = [lock |-> 0, conns |-> {}, names |-> [c \in Conns |-> {}]]
  /\ kept = [c \in Conns |-> [k \in Keys |-> Nothing]]
  /\ session = [c \in Conns |-> Blank]
  /\ lock = [id |-> 0, open |-> TRUE]
  /\ ui = Idle /\ job = [j \in Jobs |-> NoJob]
  /\ fresh = Conns /\ saves = 0 /\ locks = 0
  /\ promised = [c \in Conns |-> Blank]
  /\ astray = {} /\ misread = {}
  /\ crossed = FALSE /\ changed = FALSE /\ sealed = FALSE

(***************************************************************************)
(* The window's goroutine: a connection is created, changed, copied or     *)
(* removed.  Its secrets are written one by one, then the settings.        *)
(***************************************************************************)
Typed(typed) == {k \in Keys : typed[k] # 0}

\* The save in hand: what its secrets promised until now, and which of those it is to put
\* back it has read as another value than the one kept, or taken for not there.
Begin(c, typed, prev) ==
  /\ ui' = [at |-> "setting", conn |-> c, typed |-> typed, done |-> {}, sent |-> {},
            prev |-> prev, was |-> promised[c],
            wrong |-> {how \in {"unread", "stale"} : \E k \in Typed(typed) :
              /\ kept[c][k].value \notin {0, prev[k]}
              /\ how = IF prev[k] = 0 THEN "unread" ELSE "stale"}]
  /\ promised' = [promised EXCEPT ![c] = [k \in Keys |-> IF typed[k] # 0 THEN 0 ELSE @[k]]]
  /\ astray' = astray \cup ({job[j].kind : j \in Jobs} \ {"none"})
  /\ UNCHANGED <<mode, file, kept, session, lock, job, locks, crossed, changed, misread, sealed>>

Create(c, S) ==
  /\ ui.at = "idle" /\ c \in fresh /\ saves < MaxSaves
  /\ fresh' = fresh \ {c} /\ saves' = saves + 1
  /\ Begin(c, [k \in Keys |-> IF k \in S THEN saves + 1 ELSE 0], Blank)

\* Secrets of S are set; no form of the window clears one.  Those in unread the
\* keychain would not read back first, which is taken for there having been none.
Update(c, S, unread) ==
  /\ ui.at = "idle" /\ c \in file.conns /\ saves < MaxSaves
  /\ unread \subseteq S
  /\ saves' = saves + 1 /\ UNCHANGED fresh
  /\ Begin(c, [k \in Keys |-> IF k \in S THEN saves + 1 ELSE 0],
           [k \in Keys |-> IF k \in S \ unread THEN VaultGet(c, k) ELSE 0])

Duplicate(c, d) ==
  /\ ui.at = "idle" /\ c \in file.conns /\ d \in fresh
  /\ fresh' = fresh \ {d} /\ UNCHANGED saves
  /\ Begin(d, [k \in Keys |-> IF k \in file.names[c] THEN VaultGet(c, k) ELSE 0], Blank)

ToSet == Typed(ui.typed) \ ui.done

\* The secret to set next: of setAll's, in the order of their names; of those a save
\* that failed puts back, any.
Due(k) ==
  \/ ui.at = "setting" /\ k \in ToSet /\ \A j \in ToSet : k <= j
  \/ ui.at = "undoing" /\ k \in ui.done /\ ui.prev[k] # 0

Given == IF ui.at = "setting" THEN ui.typed ELSE ui.prev

\* One put back or taken back; what it promised stands again, unless the keychain refused.
Undone(k, accepted) ==
  /\ ui' = IF ui.done = {k} THEN Idle ELSE [ui EXCEPT !.done = @ \ {k}, !.sent = {}]
  /\ promised' = IF accepted THEN [promised EXCEPT ![ui.conn][k] = ui.was[k]] ELSE promised

Landed(k) ==
  \/ ui.at = "undoing" /\ Undone(k, TRUE)
  \/ /\ ui.at = "setting"
     /\ ui' = [ui EXCEPT !.done = @ \cup {k}, !.sent = {}]
     /\ UNCHANGED promised

HoldSecret(k) ==
  /\ Due(k) /\ SetInSession(ui.conn, k, Given[k]) /\ Landed(k)
  /\ UNCHANGED <<mode, file, kept, lock, job, counts, astray, crossed, changed, misread, sealed>>

SealSecret(k) ==
  /\ Due(k) /\ ui.sent = {} /\ CanSeal
  /\ ui' = [ui EXCEPT !.sent = {Seal(ui.conn, k)}]
  /\ UNCHANGED <<mode, file, kept, session, lock, job, counts, history>>

StoreSecret ==
  /\ \E w \in ui.sent : Store(w, Given[w.key]) /\ Landed(w.key)
  /\ UNCHANGED <<mode, file, session, lock, job, counts, astray, crossed, changed, misread, sealed>>

\* Set fails: its seal is refused for want of the key, or the keychain refuses.
Fails(k) == IF ui.sent = {} THEN Persistent /\ Locked ELSE \E w \in ui.sent : w.key = k

\* setAll: one is refused, and those written are deleted.  What it has not written
\* is as it was.
SetRefused ==
  /\ ui.at = "setting" /\ \E k \in Keys : Due(k) /\ Fails(k)
  /\ \E gone \in SUBSET ui.done : VaultDelete(ui.conn, ui.done, gone)
  /\ promised' = [promised EXCEPT ![ui.conn] =
                    [k \in Keys |-> IF k \in ToSet THEN ui.was[k] ELSE @[k]]]
  /\ ui' = Idle
  /\ UNCHANGED <<mode, file, lock, job, counts, astray, crossed, changed, misread, sealed>>

\* The settings are written, and name what was set.
SaveSettings ==
  /\ ui.at = "setting" /\ ToSet = {}
  /\ file' = [file EXCEPT !.conns = @ \cup {ui.conn},
        !.names[ui.conn] = @ \cup Typed(ui.typed)]
  /\ promised' = [promised EXCEPT ![ui.conn] =
        [k \in Keys |-> IF k \in Typed(ui.typed) /\ Persistent THEN ui.typed[k] ELSE @[k]]]
  /\ ui' = Idle
  /\ UNCHANGED <<mode, kept, session, lock, job, counts, astray, crossed, changed, misread, sealed>>

\* Mutant: the old password is not put back.
DeleteOnFailure ==
  /\ ui.at = "setting" /\ ToSet = {}
  /\ ui' = IF ui.done = {} THEN Idle ELSE [ui EXCEPT !.at = "undoing", !.prev = Blank]
  /\ misread' = misread \cup ui.wrong
  /\ UNCHANGED <<mode, file, kept, session, lock, job, counts, promised, astray, crossed, changed, sealed>>

\* They cannot be written: what the secrets were is put back, and what was not there
\* is deleted, one after the other.
SaveRefused ==
  /\ ui.at = "setting" /\ ToSet = {}
  /\ ui' = IF ui.done = {} THEN Idle ELSE [ui EXCEPT !.at = "undoing"]
  /\ misread' = misread \cup ui.wrong
  /\ UNCHANGED <<mode, file, kept, session, lock, job, counts, promised, astray, crossed, changed, sealed>>

TakeBack(k) ==
  /\ ui.at = "undoing" /\ k \in ui.done /\ ui.prev[k] = 0 /\ ui.sent = {}
  /\ \E gone \in SUBSET {k} :
       /\ VaultDelete(ui.conn, {k}, gone)
       /\ Undone(k, ~Persistent \/ gone = {k})
  /\ UNCHANGED <<mode, file, lock, job, counts, astray, crossed, changed, misread, sealed>>

PutBackRefused(k) ==
  /\ ui.at = "undoing" /\ Due(k) /\ Fails(k)
  /\ Undone(k, FALSE)
  /\ UNCHANGED <<mode, file, kept, session, lock, job, counts, astray, crossed, changed, misread, sealed>>

\* The settings first, then the secrets it named.
Delete(c) ==
  /\ ui.at = "idle" /\ c \in file.conns
  /\ file' = [file EXCEPT !.conns = @ \ {c}, !.names[c] = {}]
  /\ ui' = [Idle EXCEPT !.at = "deleting", !.conn = c, !.done = file.names[c]]
  /\ promised' = [promised EXCEPT ![c] = Blank]
  /\ UNCHANGED <<mode, kept, session, lock, job, counts, astray, crossed, changed, misread, sealed>>

\* A secret the keychain will not give up is logged and left.
DeleteSecrets ==
  /\ ui.at = "deleting"
  /\ \E gone \in SUBSET ui.done : VaultDelete(ui.conn, ui.done, gone)
  /\ ui' = Idle
  /\ UNCHANGED <<mode, file, lock, job, counts, history>>

\* The window shuts the lock and opens it between saves, which are on its goroutine.
CloseVault ==
  /\ ui.at = "idle" /\ lock.id # 0 /\ lock.open
  /\ lock' = [lock EXCEPT !.open = FALSE]
  /\ UNCHANGED <<mode, file, kept, session, ui, job, counts, history>>

UnlockVault ==
  /\ ui.at = "idle" /\ Locked
  /\ lock' = [lock EXCEPT !.open = TRUE]
  /\ UNCHANGED <<mode, file, kept, session, ui, job, counts, history>>

-----------------------------------------------------------------------------
(***************************************************************************)
(* LockVault and RemoveVaultLock, each on a goroutine of its own           *)
(***************************************************************************)
Named(c, k) == c \in file.conns /\ k \in file.names[c]

\* heldSecrets.  A secret that is there and cannot be read ends the job.
HeldSecrets == [c \in Conns |-> [k \in Keys |-> IF Named(c, k) THEN VaultGet(c, k) ELSE 0]]

\* Nothing keeps a job from a save, or from another job.
Starts(j, record) ==
  /\ job[j].at = "idle"
  /\ job' = [job EXCEPT ![j] = record]
  /\ astray' = IF ui.at = "idle" THEN astray ELSE astray \cup {record.kind}
  /\ crossed' = (crossed \/ \E i \in Jobs : job[i].at # "idle")

LockVault(j) ==
  /\ ~Locked /\ locks < MaxLocks
  /\ \A c \in Conns, k \in Keys : Named(c, k) => ~Unreadable(c, k)
  /\ locks' = locks + 1
  /\ Starts(j, [at |-> "saving", kind |-> "lock", next |-> locks + 1,
                held |-> HeldSecrets, sent |-> {}, failed |-> FALSE])
  /\ changed' = (changed \/ lock.id # 0)
  /\ UNCHANGED <<mode, file, kept, session, lock, ui, fresh, saves, promised, misread, sealed>>

\* The passphrase is typed again, which opens a lock that was shut.
RemoveVaultLock(j) ==
  /\ lock.id # 0 /\ mode # "portable"
  /\ lock' = [lock EXCEPT !.open = TRUE]
  /\ \A c \in Conns, k \in Keys :
       Named(c, k) => session[c][k] # 0 \/ kept[c][k].seal \in {0, lock.id}
  /\ Starts(j, [at |-> "setting", kind |-> "remove", next |-> 0, sent |-> {}, failed |-> FALSE,
                held |-> [c \in Conns |-> [k \in Keys |->
                  IF ~Named(c, k) THEN 0
                  ELSE IF session[c][k] # 0 THEN session[c][k] ELSE kept[c][k].value]]])
  /\ sealed' = FALSE
  /\ UNCHANGED <<mode, file, kept, session, ui, counts, promised, changed, misread>>

\* saveVaultLock: before the rest to put a lock on, after it to take one off.
SaveLock(j) ==
  /\ job[j].at = "saving"
  /\ \/ /\ file' = [file EXCEPT !.lock = job[j].next]
        /\ job' = [job EXCEPT ![j] = IF @.kind = "lock" THEN [@ EXCEPT !.at = "setting"] ELSE NoJob]
        /\ sealed' = (sealed /\ job[j].kind = "lock")
     \/ job' = [job EXCEPT ![j] = NoJob] /\ UNCHANGED <<file, sealed>>
  /\ UNCHANGED <<mode, kept, session, lock, ui, counts, promised, astray, crossed, changed, misread>>

SetLock(j) ==
  /\ job[j].at = "setting"
  /\ lock' = [id |-> job[j].next, open |-> TRUE]
  /\ job' = [job EXCEPT ![j].at = "writing"]
  /\ UNCHANGED <<mode, file, kept, session, ui, counts, history>>

\* rewrite: those left, one after the other and in no order.
Left(j, c, k) == job[j].at = "writing" /\ job[j].held[c][k] # 0

Rewrote(j, c, k, failed) ==
  job' = [job EXCEPT ![j] = [@ EXCEPT !.held[c][k] = 0, !.sent = {}, !.failed = job[j].failed \/ failed]]

WriteInSession(j, c, k) ==
  /\ Left(j, c, k) /\ SetInSession(c, k, job[j].held[c][k]) /\ Rewrote(j, c, k, FALSE)
  /\ UNCHANGED <<mode, file, kept, lock, ui, counts, history>>

SealBack(j, c, k) ==
  /\ Left(j, c, k) /\ job[j].sent = {} /\ CanSeal
  /\ job' = [job EXCEPT ![j].sent = {Seal(c, k)}]
  /\ UNCHANGED <<mode, file, kept, session, lock, ui, counts, history>>

StoreBack(j) ==
  /\ \E w \in job[j].sent :
       Store(w, job[j].held[w.conn][w.key]) /\ Rewrote(j, w.conn, w.key, FALSE)
  /\ UNCHANGED <<mode, file, session, lock, ui, counts, history>>

\* Mutant: that a secret could not be written back is not noted.
WriteForgotten(j, c, k) ==
  /\ Left(j, c, k)
  /\ IF job[j].sent = {} THEN Persistent /\ Locked
     ELSE \E w \in job[j].sent : w.conn = c /\ w.key = k
  /\ Rewrote(j, c, k, FALSE)
  /\ UNCHANGED <<mode, file, kept, session, lock, ui, counts, history>>

WriteRefused(j, c, k) ==
  /\ Left(j, c, k)
  /\ IF job[j].sent = {} THEN Persistent /\ Locked
     ELSE \E w \in job[j].sent : w.conn = c /\ w.key = k
  /\ Rewrote(j, c, k, TRUE)
  /\ UNCHANGED <<mode, file, kept, session, lock, ui, counts, history>>

Rewritten(j) == job[j].at = "writing" /\ \A c \in Conns, k \in Keys : job[j].held[c][k] = 0

\* Mutant: the lock comes out of the settings whatever is still sealed with it.
AllWrittenAnyway(j) ==
  /\ Rewritten(j)
  /\ job' = [job EXCEPT ![j] = IF @.kind = "remove" THEN [@ EXCEPT !.at = "saving"] ELSE NoJob]
  /\ sealed' = (sealed \/ (job[j].kind = "lock" /\ ~job[j].failed))
  /\ UNCHANGED <<mode, file, kept, session, lock, ui, counts, promised, astray, crossed, changed, misread>>

\* The lock comes out of the settings once nothing is sealed with it.
AllWritten(j) ==
  /\ Rewritten(j)
  /\ job' = [job EXCEPT ![j] =
       IF @.kind = "remove" /\ ~@.failed THEN [@ EXCEPT !.at = "saving"] ELSE NoJob]
  /\ sealed' = (sealed \/ (job[j].kind = "lock" /\ ~job[j].failed))
  /\ UNCHANGED <<mode, file, kept, session, lock, ui, counts, promised, astray, crossed, changed, misread>>

\* The process ends, anywhere, and is started again.
Restart ==
  /\ session' = [c \in Conns |-> Blank]
  /\ lock' = [id |-> file.lock, open |-> file.lock = 0]
  /\ ui' = Idle /\ job' = [j \in Jobs |-> NoJob]
  /\ UNCHANGED <<mode, file, kept, counts, history>>

-----------------------------------------------------------------------------
Window ==
  \/ \E c \in Conns, S \in SUBSET Keys : Create(c, S)
  \/ \E c \in Conns, S, unread \in SUBSET Keys : Update(c, S, unread)
  \/ \E c, d \in Conns : Duplicate(c, d)
  \/ \E k \in Keys : HoldSecret(k) \/ SealSecret(k) \/ TakeBack(k) \/ PutBackRefused(k)
  \/ StoreSecret \/ SetRefused \/ SaveSettings \/ SaveRefused
  \/ \E c \in Conns : Delete(c)
  \/ DeleteSecrets
  \/ CloseVault \/ UnlockVault

Locking == \E j \in Jobs :
  \/ LockVault(j) \/ RemoveVaultLock(j) \/ SaveLock(j) \/ SetLock(j)
  \/ \E c \in Conns, k \in Keys :
       WriteInSession(j, c, k) \/ SealBack(j, c, k) \/ WriteRefused(j, c, k)
  \/ StoreBack(j) \/ AllWritten(j)

Next == Window \/ Locking \/ Restart

Spec == Init /\ [][Next]_vars

-----------------------------------------------------------------------------
Sent == [conn : Conns, key : Keys, seal : Locks]

TypeOK ==
  /\ mode \in {"keychain", "portable", "none"}
  /\ file \in [lock : Locks, conns : SUBSET Conns, names : [Conns -> SUBSET Keys]]
  /\ kept \in [Conns -> [Keys -> [seal : Locks, value : Values]]]
  /\ session \in [Conns -> [Keys -> Values]]
  /\ lock \in [id : Locks, open : BOOLEAN]
  /\ ui \in [at : {"idle", "setting", "undoing", "deleting"}, conn : Conns \cup {0},
             typed : [Keys -> Values], done : SUBSET Keys, sent : SUBSET Sent,
             prev : [Keys -> Values], was : [Keys -> Values], wrong : SUBSET {"unread", "stale"}]
  /\ ui.at # "idle" => ui.conn \in Conns
  /\ job \in [Jobs -> [at : {"idle", "saving", "setting", "writing"},
                       kind : {"none", "lock", "remove"}, next : Locks,
                       held : [Conns -> [Keys -> Values]], sent : SUBSET Sent, failed : BOOLEAN]]
  /\ fresh \subseteq Conns /\ saves \in Values /\ locks \in Locks
  /\ promised \in [Conns -> [Keys -> Values]]
  /\ astray \subseteq {"lock", "remove"} /\ misread \subseteq {"unread", "stale"}
  /\ crossed \in BOOLEAN /\ changed \in BOOLEAN /\ sealed \in BOOLEAN

\* Wherever a lock is put on or taken off, and wherever that is refused or the process
\* dies on the way, the keychain's secrets of the saved connections are read with the
\* lock the settings name: that order of writes is what vaultlock.go's two comments
\* argue.  Not said of a passphrase that is changed (PassphraseOutlived), of a job that
\* overlaps another (DroppedLock), nor once a save has overlapped a lock being taken off.
StillReads ==
  ~changed /\ ~crossed /\ "remove" \notin astray =>
    \A c \in Conns, k \in Keys : Named(c, k) => kept[c][k].seal \in {0, file.lock}

\* A secret a save has persisted is kept with that value by every later step, of a
\* save that fails and puts it back key by key, of locks that are put on and taken off,
\* at once too, and of a restart, until another save of it begins or a refusal of the
\* keychain's takes it (Connections.Update, rewrite).  Not said where a save overlapped
\* a job, once a passphrase was changed, nor once a save failed that had misread what it
\* was to put back (SessionOverwritesNothing, UnreadIsPutBack).
LastSaved ==
  ~changed /\ astray = {} /\ misread = {} =>
    \A c \in Conns, k \in Keys :
      promised[c][k] # 0 => Named(c, k) /\ kept[c][k].value = promised[c][k]

\* Once the vault has said it is locked, no secret of a saved connection is in the
\* keychain in the open, whatever is saved, copied, put back or resealed after
\* (LockVault; setVaultPassphrase says "Sealed").  Not said where a save overlapped a lock
\* being put on, nor of a job that overlapped another (SealedMeansSealed).
SealedOnceLocked ==
  sealed /\ ~crossed /\ "lock" \notin astray =>
    \A c \in Conns, k \in Keys :
      Named(c, k) /\ kept[c][k].value # 0 => kept[c][k].seal # 0

\* Does not hold (README, section 6).  vaultlock.go:14-18 says "Each secret says for itself
\* whether it is sealed, so a run that stops half way leaves a vault that still reads".
PassphraseOutlived ==
  ~crossed /\ "remove" \notin astray /\ (\A j \in Jobs : job[j].at = "idle") =>
    \A c \in Conns, k \in Keys : Named(c, k) => kept[c][k].seal \in {0, file.lock}

\* Does not hold (README, section 6), of two jobs that overlap, though no passphrase is
\* replaced: the second puts on a lock which the first then takes out of the settings.
\* vaultlock.go:101-102 says "while a secret is still sealed, the lock that opens it has
\* to be there".
DroppedLock ==
  ~changed /\ astray = {} /\ file.lock = 0 =>
    \A c \in Conns, k \in Keys : Named(c, k) => kept[c][k].seal = 0

\* Does not hold (README, section 6), of two jobs that overlap: the one that puts a lock on
\* seals with the one the other has taken off, which is none, and says "Sealed" last.
\* lockVault (shell/vaultlock.go:42) says "Every saved password is stored sealed".
SealedMeansSealed ==
  sealed /\ astray = {} /\ (\A j \in Jobs : job[j].at = "idle") =>
    \A c \in Conns, k \in Keys :
      Named(c, k) /\ kept[c][k].value # 0 => kept[c][k].seal # 0

\* Does not hold (README, section 6).  vault.go:12-14 says of a secret of this session that
\* "it can stand in for a missing or stale keychain entry without overwriting it".
SessionOverwritesNothing ==
  ~crossed /\ astray = {} /\ "unread" \notin misread =>
    \A c \in Conns, k \in Keys : promised[c][k] # 0 => kept[c][k].value = promised[c][k]

\* Does not hold (README, section 6), of a secret the keychain would not read.
\* connections.go:178-180 says "The previous value of every secret being overwritten is
\* read first, so that a failed settings write can put it back".
UnreadIsPutBack ==
  ~changed /\ ~crossed /\ astray = {} /\ "stale" \notin misread =>
    \A c \in Conns, k \in Keys : promised[c][k] # 0 => kept[c][k].value = promised[c][k]
=============================================================================
