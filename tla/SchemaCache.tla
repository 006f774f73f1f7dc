---------------------------- MODULE SchemaCache ----------------------------
(***************************************************************************)
(* What completion knows about a connection's objects                      *)
(* (internal/app/schema.go): a cache that answers from memory, fetches     *)
(* what it misses on background goroutines, and is emptied by Invalidate.  *)
(*                                                                         *)
(* The data of an answer is the server's schema version it was read at:    *)
(* Catalogue says which names each version holds.  Names are taken up to   *)
(* case.  Each exported query and each goroutine's landing runs under      *)
(* c.mu, so it is one step; reading the server happens outside it.         *)
(***************************************************************************)
EXTENDS Naturals, Sequences

CONSTANTS
  Databases,     \* names of databases
  SchemaNames,   \* names of schemas
  Classes,       \* the kinds of list kept per container: objects, columns, routines
  Requests,      \* the completion requests made: [class, db, schema]
  Loaders,       \* goroutines: how many loads may run at once
  Catalogue,     \* version -> [dbs, current, flat, schemas], a server's answers
  Connected,     \* the versions a connection can begin at, one for each server
  MaxVersion,    \* bound: DDL statements
  MaxGen,        \* bound: calls of Invalidate
  NoName,        \* no database, no schema: ""
  Missing,       \* a key the cache has not loaded
  Nothing        \* a load that found nothing, or failed

Versions == 0..MaxVersion

ASSUME BoundsAssumption == MaxVersion \in Nat /\ MaxGen \in Nat
ASSUME MarkersAssumption ==
  Missing \notin Nat /\ Nothing \notin Nat /\ Missing # Nothing

\* What a catalogue may say: the schemas of a database, in the server's order.
ASSUME CatalogueAssumption ==
  \A v \in Versions :
    /\ Catalogue[v].dbs \subseteq Databases
    /\ Catalogue[v].current \in Databases \cup {NoName}
    /\ \A d \in Databases : Catalogue[v].schemas[d] \in Seq(SchemaNames)
ASSUME ConnectedAssumption == Connected \subseteq Versions
ASSUME RequestsAssumption ==
  \A req \in Requests : req.class \in Classes \cup {"databases", "schemas"}

Refs == {<<d>> : d \in Databases} \cup (Databases \X SchemaNames)
RootKey == <<"root">>
SchemasKey(d) == <<"schemas", d>>
ItemKey(class, ref) == <<class>> \o ref
Keys == {RootKey} \cup {SchemasKey(d) : d \in Databases}
          \cup {ItemKey(c, r) : c \in Classes, r \in Refs}

VARIABLES
  version,   \* the server's schema
  gen,       \* c.gen
  known,     \* what is loaded: rootLoaded, schemasLoaded, objects, columns, routines
  loading,   \* c.loading
  loader,    \* the goroutines begin started
  closed,    \* c.ctx is cancelled
  popup,     \* the request the completion popup waits on, and when it asked
  told,      \* a subscriber was called and has not asked again yet
  dropped    \* history: the server's version at the last Invalidate

cacheVars == <<version, gen, known, loading, loader, closed, popup, told, dropped>>

NoKey    == <<>>
FreeLoad == [key |-> NoKey, gen |-> 0, step |-> "idle", at |-> Nothing]
Answers  == Versions \cup {Nothing}
NoPopup  == [req |-> NoName, gen |-> 0]

Busy(l) == loader[l].step # "idle"

(***************************************************************************)
(* Reading the cache                                                       *)
(***************************************************************************)
Loaded(key) == known[key] # Missing
Held(key)   == Loaded(key) /\ known[key] # Nothing

KnownDbs == IF Held(RootKey) THEN Catalogue[known[RootKey]].dbs ELSE {}
Current  == IF Held(RootKey) THEN Catalogue[known[RootKey]].current ELSE NoName
SchemasOf(d) == IF Held(SchemasKey(d)) THEN Catalogue[known[SchemasKey(d)]].schemas[d]
                ELSE <<>>
Nested(d) == SchemasOf(d) # <<>>

\* The database a request means: the one it names if the source has it, else the
\* one the connection is in, else the only one.
Resolve(name) ==
  CASE name \in KnownDbs -> name
    [] name \notin KnownDbs /\ Current # NoName -> Current
    [] name \notin KnownDbs /\ Current = NoName ->
         IF \E d \in KnownDbs : KnownDbs = {d} THEN CHOOSE d \in KnownDbs : TRUE ELSE NoName

\* The node holding a schema's tables, or <<>> where the names mean nothing.
Container(db, schema) ==
  CASE Nested(db) /\ schema = NoName -> <<db, Head(SchemasOf(db))>>
    [] Nested(db) /\ schema # NoName ->
         IF \E i \in DOMAIN SchemasOf(db) : SchemasOf(db)[i] = schema
         THEN <<db, schema>> ELSE <<>>
    [] ~Nested(db) /\ schema \in {NoName, db} -> <<db>>
    [] ~Nested(db) /\ schema \notin {NoName, db} ->
         IF Resolve(schema) = schema THEN <<schema>> ELSE <<>>

\* The key a request has to wait for, or NoKey when the cache can answer it.
MissingKey(req) ==
  LET db   == Resolve(req.db)
      ref  == Container(db, req.schema)
  IN CASE ~Loaded(RootKey) -> RootKey
       [] Loaded(RootKey) /\ (req.class = "databases" \/ db = NoName) -> NoKey
       [] OTHER ->
            IF ~Loaded(SchemasKey(db)) THEN SchemasKey(db)
            ELSE IF req.class = "schemas" \/ ref = <<>> THEN NoKey
            ELSE IF Loaded(ItemKey(req.class, ref)) THEN NoKey
            ELSE ItemKey(req.class, ref)

-----------------------------------------------------------------------------
CacheInit ==
  /\ version \in Connected
  /\ gen = 0
  /\ known = [k \in Keys |-> Missing]
  /\ loading = {}
  /\ loader = [l \in Loaders |-> FreeLoad]
  /\ closed = FALSE
  /\ popup = NoPopup
  /\ told = FALSE
  /\ dropped = version

\* begin: one background load under a key, unless that key is already loading.
Begin(key) ==
  IF key = NoKey \/ key \in loading
  THEN UNCHANGED <<loading, loader>>
  ELSE \E l \in Loaders :
         /\ ~Busy(l)
         /\ loader' = [loader EXCEPT ![l] = [key |-> key, gen |-> gen, step |-> "read",
                                             at |-> Nothing]]
         /\ loading' = loading \cup {key}

\* A keystroke asks for names: Databases, Schemas, Objects, Columns or Routines.
Ask(req) ==
  /\ popup' = [req |-> req, gen |-> gen]
  /\ told' = FALSE
  /\ Begin(MissingKey(req))
  /\ UNCHANGED <<version, gen, known, closed, dropped>>

\* Mutant: the popup is redrawn from what is there, and starts no further load.
AskAgainIdly ==
  /\ told
  /\ popup # NoPopup
  /\ told' = FALSE
  /\ UNCHANGED <<version, gen, known, loading, loader, closed, popup, dropped>>

\* The popup asks again, because a load has landed.
AskAgain ==
  /\ told
  /\ popup # NoPopup
  /\ told' = FALSE
  /\ Begin(MissingKey(popup.req))
  /\ UNCHANGED <<version, gen, known, closed, popup, dropped>>

\* A load's calls of Root and Children.  One that fails, times out or is cancelled
\* by Close finds nothing.  A load of several calls counts as its oldest.
ReadCatalogue(l) ==
  /\ loader[l].step = "read"
  /\ \E at \in {version, Nothing} :
       /\ closed => at = Nothing
       /\ loader' = [loader EXCEPT ![l].step = "land", ![l].at = at]
  /\ UNCHANGED <<version, gen, known, loading, closed, popup, told, dropped>>

\* A source whose root lists classes rather than databases has no schema level, and
\* its one database needs no load of its own.
Flat(key, at) ==
  IF key = RootKey /\ at # Nothing /\ Catalogue[at].flat
  THEN {SchemasKey(d) : d \in Catalogue[at].dbs} ELSE {}

Apply(key, at) ==
  known' = [k \in Keys |-> IF k = key THEN at
                           ELSE IF k \in Flat(key, at) THEN Nothing
                           ELSE known[k]]

\* Mutant: a load from before an Invalidate is recorded.
NeverStale(l) == FALSE

\* "It read the schema as it was before the change."
Stale(l) == loader[l].gen # gen

LandLoad(l) ==
  /\ loader[l].step = "land"
  /\ loading' = loading \ {loader[l].key}
  /\ loader' = [loader EXCEPT ![l] = FreeLoad]
  /\ IF Stale(l)
     THEN UNCHANGED <<known, told>>
     ELSE Apply(loader[l].key, loader[l].at) /\ told' = TRUE
  /\ UNCHANGED <<version, gen, closed, popup, dropped>>

\* DDL has run, or the explorer was refreshed.
Invalidate ==
  /\ gen < MaxGen
  /\ gen' = gen + 1
  /\ known' = [k \in Keys |-> Missing]
  /\ loading' = {}
  /\ dropped' = version
  /\ UNCHANGED <<version, loader, closed, popup, told>>

Close ==
  /\ ~closed
  /\ closed' = TRUE
  /\ UNCHANGED <<version, gen, known, loading, loader, popup, told, dropped>>

\* DDL runs on the server; whoever ran it here calls Invalidate afterwards.
Alter ==
  /\ version + 1 \in Versions \ Connected
  /\ version' = version + 1
  /\ UNCHANGED <<gen, known, loading, loader, closed, popup, told, dropped>>

CacheNext ==
  \/ \E req \in Requests : Ask(req)
  \/ AskAgain
  \/ \E l \in Loaders : ReadCatalogue(l) \/ LandLoad(l)
  \/ Invalidate
  \/ Close
  \/ Alter

\* A goroutine runs, its calls are bounded by the cache's timeout, and the UI handles
\* what it was told.  Nobody has to type, alter or refresh.
CacheFairness ==
  /\ \A l \in Loaders : WF_cacheVars(ReadCatalogue(l)) /\ WF_cacheVars(LandLoad(l))
  /\ WF_cacheVars(AskAgain)

CacheSpec == CacheInit /\ [][CacheNext]_cacheVars /\ CacheFairness

-----------------------------------------------------------------------------
LoadRecord == [key : Keys \cup {NoKey}, gen : Nat, step : {"idle", "read", "land"}, at : Answers]

\* Every variable has its type (SchemaCache and the loads begin starts).
CacheTypeOK ==
  /\ version \in Versions /\ dropped \in Versions /\ gen \in Nat
  /\ known \in [Keys -> Answers \cup {Missing}]
  /\ loading \subseteq Keys
  /\ loader \in [Loaders -> LoadRecord]
  /\ closed \in BOOLEAN /\ told \in BOOLEAN
  /\ popup \in [req : Requests, gen : Nat] \cup {NoPopup}

\* "Loads already in flight are dropped when they land": nothing in the cache was
\* read from a schema older than the last Invalidate saw.
Fresh == \A k \in Keys : known[k] \in Nat => dropped <= known[k] /\ known[k] <= version

\* A key marked as loading is being fetched for this generation, so nothing waits on
\* a load whose answer will be thrown away.
LoadingIsServed ==
  \A k \in loading : \E l \in Loaders :
    Busy(l) /\ loader[l].key = k /\ loader[l].gen = gen

\* The popup is told of each load its request hangs on, and so reaches an answer
\* unless the cache is emptied under it, however many loads that takes.
Answered ==
  \A req \in Requests, g \in 0..MaxGen :
    (popup = [req |-> req, gen |-> g])
      ~> (popup.req # req \/ gen # g \/ MissingKey(req) = NoKey)
=============================================================================
