# Verification of the database client

This directory models parts of the desktop database client in `src/` in TLA+,
checks them with TLC on small instances, and proves the most important
invariants with TLAPS for every instance. `PROJECT.json` is the index: every
component, run, property, finding, hazard and theorem, and for each definition
the source lines it stands for. Paths below are relative to `src/`.

Contents: 1 the system; 2 the modules and the code they stand for; 3 the runs
and their bounds; 4 fairness; 5 what is proved; 6 where code and words
disagree; 7 what is not modelled; 8 the plan.

## 1. The system

The client is a Go program: one window process with a single UI goroutine,
and goroutines for everything that may take time (dialling, fetching pages,
reading streams, watching connections, talking to plugins). Handlers run on the
UI goroutine; work done elsewhere comes back through the UI's queue
(`internal/ui/uithread`). Most of what can go wrong lies in that split: an
answer that arrives after the question was withdrawn, a wait on the UI goroutine
for something only the UI goroutine can give, a page of data from before a
change landing after it.

### 1.1 Components with behaviour of their own

| Component | State it keeps | Operations | Talks to | What is hard | What makes it right |
|---|---|---|---|---|---|
| Schema cache `internal/app/schema.go` | what is loaded (root, schemas, lists per container), what is loading, a generation | queries of every kind, `begin`, the loads, `Subscribe`, `Invalidate`, `Close` | the connection's Source; completion in the editor | loads read outside the lock and land in any order; one request needs up to three in sequence | nothing older than the last refresh is answered; every popup is answered |
| Windowed row cache `internal/ui/grid/model.go` | resident pages, last-use list, marks of pages in flight, a total that may be unknown | `Row`, `schedule`, `land`, `SetTotal`/count, `Invalidate`, `SetFetcher` | a Fetcher (result set, browsed table, tail), the drawing of the table | the generation is checked under a lock the fetch does not hold; totals learned from pages and from counts | rows of one source and one moment; bounded; no placeholder for ever |
| Plugin host `internal/plugin/host.go` | table of calls waiting, queue of lines out, why it is over | `send`, `rows.Next`/`Close`, `write`, `read`, `finish`, `Close` | a child process over two pipes | one reader serves every request; three goroutines may see the end | lines in order, once; nobody waits for a plugin that is gone |
| Plugin library `plugin/serve.go` | contexts of requests at work, output lock | the loop over lines, `begin`, cancel, `send`, `end` | the host | cancels and the end of input against goroutines that just start | each request ended by one line; returns after the last |
| Query result `internal/app/query.go` | rows read so far, finished, failed, a channel that announces | reading goroutine, `Fetch`, `Close`, `fail` | a driver's Rows; the grid | announcements per 256 rows; waits outside the lock; panics of drivers | no wake-up lost; ends once; implements Fetcher |
| Tail `internal/app/tail.go` | a ring of the last records, paused, closed | reading goroutine, `Pause`, `Resume`, `Close`, `Fetch` | a driver's stream | decide under the lock, read outside it | exactly the last records; a pause takes at most one |
| Stream bar `internal/ui/shell/streambar.go` | which tail is followed, whether it is starting, the count drawn | Follow, Pause, Stop, Start At, `redraw`, tab end; races with `rebrowse` and `count` | Tail, grid model, UI queue | each control replaces or drops a tail, waiting for the one it had on the UI goroutine; reads and counts asked before answer after | one tail, every record drawn, every tail released and the window never held up by one for good |
| Open connections `internal/app/workspace.go`, `live.go`, and `internal/ui/shell/shell.go`, `query.go`, `lost.go` | open entries, dials in flight, each connection's status, each tab's session | `Connect`, `dial`, `Disconnect`, `run`/`transition`, open and close a query tab, `release`, `connectionSaved` | Sources, keychain, UI queue | many callers share a dial; Disconnect waits on the UI goroutine, for statements, monitor and pool | no pool leaks, everyone is answered, a closed connection stays silent |
| Saved connections, vault and lock `internal/app/connections.go`, `vault.go`, `vaultlock.go` | list of connections in settings, secrets in a keychain, a lock over them | Create, Update, Delete, LockVault, RemoveVaultLock | settings file, keychain | several writes to two stores, each may fail or be the last before a crash | a secret reads with the lock the settings name, is the last one saved, and is never in the open once the vault is sealed |
| Settings `internal/store/settings.go`, `atomic.go` | one value, one file | `Update` | everything | put back when the save fails; atomic replacement | memory and file agree |
| Query session `internal/app/query.go` | one pinned connection, its transaction, results alive | `Run`, `Plan`, `Apply`, `Reread`, `Close` | ResultSet, Source | one server connection for results, statements and transactions; a result arrives while the session is being closed | what is shown is of the latest run; a stopped run ends, a closed tab lets go |
| Explorer tree `internal/ui/explorer/model.go` | nodes with children, loading marks and generations | `Children`, `load`, `Refresh`, `dropDescendants` | Source, UI queue | a dropped node listed again starts its generation over; many changes, one redraw | children and badges are those of the last refresh; every change is drawn |
| Scratch buffers `internal/ui/shell/scratch.go` | last write of each buffer, a throttled writer | `keep`, `forgetScratch`, `queue`, `run`, `close`; saves and deletes of the saved query | local database | one goroutine writes while the last word changes; saves write on others | the last word is the one on disk; no mark means stored |
| Pending edits `internal/app/pending.go`, `internal/ui/shell/commit.go` | edits by row identity | `Set`, `Delete`, the reverts, `Changeset`, commit | Source, grid | rows are reached by place, and the grid moves under a fill; what is staged while a commit runs | nothing staged is lost, nothing unreviewed is written, nothing inserted twice |
| Filtered and browsed rows `internal/app/filtered.go`, `browse.go` | rows kept, a reading position | Fetch, Count | Source, grid | paging a table somebody else writes to | as Fetcher |
| Meters `internal/app/throughput.go`, `internal/ui/shell/rates.go` | last measures, a failure | `measure`, `Close`, the bar's redraw | Source, UI queue | the end is not a rate | the bar says when measuring stopped |
| Backup and restore `internal/app/backup.go` | staged files | `Write`, `Restore` | file system | renames, with a crash between any two | old or new, never both or neither |
| Single instance `internal/single` | a socket file | `Acquire`, `serve`, `Release` | file system | two copies start at once | one goes on |
| SSH tunnel `internal/tunnel` | hops, a listener, carried connections | `Open`, `serve`, `carry`, `Close` | drivers | ended by either side, hops dialled while closing | all closed, in reverse order |
| Bulk transfer and import `internal/transfer`, `internal/importer` | a position, refused rows | load, report | Source | numbering refused rows against batches | right numbers |

### 1.2 Components that are computations or adapters

Drivers (`internal/source/drivers`: seventeen kinds of server and file), SQL scanning, formatting
and completion ranking (`internal/sqllex`, `internal/sqlfmt`, `internal/query`), the access guard, data
comparison and synchronisation (`internal/diff`), schema files, export formats,
values and their conversions, the CLI, cloud credentials and the assistant,
topic administration, pipelines, schema design, diagrams, dialogs, the drawing
of the grid, editor, palette and charts, logging, redaction, updates, and the
repository's own tools. `PROJECT.json` lists each with the reason it has no
module. The whole is about 120,000 lines of Go without tests, of which
drawing and drivers are three quarters.

### 1.3 How components meet

```
   editor ── SchemaCache ──┐
                           │
   table ── GridModel ── Fetcher ──┬── ResultSet ── QuerySession ── pool ┐
                                   ├── Tail ── StreamBar                 ├── Live ── Workspace
                                   └── browsed/filtered rows ────────────┘
   Source ──┬── database drivers
            └── plugin: PluginHost ═pipe═ PluginServe
```

The Fetcher contract is where the two halves meet: the grid asks for a page at
an offset and expects it full unless the data ends there. `FetchContract`
states it; `ResultSet` implements it; `GridModel` relies on it.

## 2. The modules and the code they stand for

| Module | Stands for | Composes |
|---|---|---|
| `SchemaCache` | `internal/app/schema.go` and the completion popup that asks again | |
| `GridModel` | `internal/ui/grid/model.go`, the count of `internal/ui/shell`, a table others write to | |
| `FetchContract` | the abstract specification of a Fetcher (`internal/ui/grid/model.go`, interface `Fetcher`) | |
| `ResultSet` | `ResultSet` in `internal/app/query.go` | implements `FetchContract` |
| `Tail` | `internal/app/tail.go` | |
| `StreamBar` | `internal/ui/shell/streambar.go` with the reads of `rebrowse.go` and the count of `shell.go` | extends `Tail`, one per Follow |
| `Conversation` | the abstract specification of an answer: what a caller of `Process.stream` is promised of its lines | |
| `PluginHost` | the conversation of `internal/plugin/host.go`, with any plugin at the other end | implements `Conversation` |
| `PluginServe` | `plugin/serve.go`, with any host at the other end | |
| `Workspace` | `internal/app/workspace.go`, `live.go` and the window's half in `internal/ui/shell` | |
| `Vault` | `internal/app/connections.go`, `vault.go`, `lock.go`, `vaultlock.go`, with the settings file and the keychain | |
| `ExplorerTree` | `internal/ui/explorer/model.go` and the redraws and badges of its widget | |
| `QuerySession` | the query tab (`internal/ui/shell/query.go`, `resultedit.go`, `transaction.go`), its session (`internal/app/query.go`), and the server connection that pins | |
| `PendingEdits` | `internal/app/pending.go` and how changes are made, reviewed and written (`edit.go`, `paste.go`, `revert.go`, `commit.go` of `internal/ui/shell`) | |
| `Autosave` | `internal/ui/shell/scratch.go` and what it is told by tabs, workspaces, saved queries, a quit and a start | |

`MC*` modules hold the values of constants and symmetry sets (`PluginHost`, `PluginServe` and `Autosave`
need none and are run as they are); `*_proofs` the theorems. Definitions that begin with the comment "Mutant:" are plausible bugs;
they are not part of any specification, and for each property one of them, put
in place of the definition it varies, makes TLC find the property violated.

**Grain.** A section of code under one mutex that neither waits nor calls out
is one action. Whatever is read before an unlock and used after it is a
variable of the goroutine (its `step`, and what it holds), so that everybody
else may act in between. A callback on the UI goroutine is one action unless it
waits inside; then it is one per thing it waits on, and no other UI action is
enabled in the meantime (`Ready`).

**SchemaCache.** The data of an answer is the version of the server's schema it
was read at. `Ask` is one completion request with all the queries it makes,
`MissingKey` is the chain root, schemas, list that decides which load to begin.
`ReadCatalogue` is the call to the server, outside the lock; `LandLoad` records, discards
when the generation has moved, and tells the subscribers. `Alter` is DDL, run by
anyone; `Invalidate` is the refresh after it. The three kinds of list behave alike
and differ by their `Classes` value.

**GridModel.** A fetch is a record of what it holds: page, generation, source, the
version of the data it read. `Row` is the draw of one row with `Touch` for the
write it makes after releasing the read lock; `Schedule` the fetches it asks for;
`Answer` the read of the source; `Land` the end of `fetch` with eviction and the
total (`noteReachLocked`). `SetFetcher` is two steps, `StoreFetcher` and
`Invalidate`, because the code stores the source before it takes the lock.
`Change` is somebody else deleting or adding rows. `kept` is history: the total was counted before the last refresh, which the code keeps until it is counted again.

**PluginHost.** Channels are bounded sequences, the table of calls and the pipes
are state; the caller, the writer, the reader, the closer and the plugin are the
processes. `Finish` may be reached by three of them and is one step because the
code holds the lock for all of it. The plugin says anything about any request it
has been asked, may stop reading, and may exit at any moment. `Promise` maps it to `Conversation`: a request
is open from `Register` until its caller is on its way out; the channel, the reader and the pipe are not there.

**PluginServe.** The loop, one goroutine per request, and the output lock. What an
operation does is a number of rows and one ending; `Sleepers` are operations that
return only because their context ended.

**ResultSet.** One reader goroutine, any number of fetches. `batch` counts rows
since the last announcement, `changed` numbers the announcement channels; a fetch
holds the number it took under the lock (`Check`) and waits for it to move
(`Wake`). Each has pages of its own size: the grid's end where rows are announced, those of an export (`internal/app/rows.go`) do not, and
`FetchContract` allows it to be told of its rows by the announcement after (`Lag`). `NextPanics`, `Fail`, `CloseStream` are the ways the end comes, in any order.

**Tail and StreamBar.** The tail's two indices into a ring are kept as they are
in the code, with `%`. The goroutine is `Look`, `NextRecord` or `NextFails`, `Keep` or `FollowFails`. The bar adds
the controls, the redrawing tick, and the reads again (`AskBrowse`, `Browsed`) and counts
(`Counted`) asked before Follow that answer after it. A tail is opened, and with Stop and Start At closed, on the UI
goroutine, which waits for it (`Unfollow` to `PutBack`); only a tab that is closed leaves that to a goroutine. `overtaken` is history: a read again has given the grid
the log since Follow.

**Workspace.** Dials are numbered, and a connection has the number of its dial.
A query tab goes through connect, wait, session, landing (opened, queued for
the UI), ready, asking (a statement holds the session's lock at the server), closing. `release` is
`CloseSession` for each session as its lock comes free, `ReleaseTabs` for tabs and entry, then
`CloseStop`, `CloseMonitor`, `ClosePool` for the waits of `Live.Close`. A pool is closed as pgx closes one: it waits
for what it has lent.

**Vault.** A lock is a number, 0 none; a secret is its seal and the number of the save that typed it.
The window's goroutine (`ui`) and any number of goroutines that lock or unlock (`Jobs`: the code lets a second start
while the first is under way) interleave at each write; the settings file and a portable secrets file are replaced whole, in one
step that may be refused. `Vault.Set` is two steps, sealing with the lock there is (`SealSecret`, `SealBack`) and the keychain's
taking it (`StoreSecret`, `StoreBack`), or one that holds it in the session. `setAll` and the save after it are these and `SaveSettings`; what
a refused save puts back, secret by secret and from what it read before, is the state "undoing". `LockVault`, `SaveLock`, `SetLock`, `rewrite`'s steps and `AllWritten`
are the order of writes the comments of `vaultlock.go` argue for. `Restart` may come anywhere. History variables say what a save that
succeeded has persisted (`promised`) and which of the cases of section 6 have occurred: `astray` a save that overlapped a job, `crossed` two jobs
that overlapped, `changed` a passphrase changed, `misread` a failed save that had read what it put back as something else than what was kept.

**ExplorerTree.** A load holds the generation it was given and the cancel it would be told by. `Read` is the call to
the server, `Land` the landing under the lock, `Tell` the callback that asks for a redraw after it;
`Refresh` is `Refresh` with `dropDescendants`. `Fire` and the `Ask` steps are one coalesced
refresh, which asks the open branches one by one while loads land in between. `Landed` is a badge read on a
goroutine of its own.

**QuerySession.** A run is a script's goroutine; a result is named by its run and place. The pinned
connection has one lock, held from a statement's sending to the server's first answer (`Take`, `Answer`), and one
open result. `Look` is the window's sync, which asks for the state of the transaction under that
lock; `Shows` and `RunOver` are the callbacks that land in the window; `Applied`, `Reread` and `ShowAgain` are a result's rows
read again once its changes are written; `CloseResults` and `CloseSession` the end of the tab. Of a
result's rows only one thing is kept, whether all of them came.

**PendingEdits.** The grid is the new rows first, then those read, and a place reaches one or the other. `StartFill`, `ReadRows` and
`FillRows` are a fill, of which any number may be under way (`fills`): the places are taken when it starts, the rows read on a goroutine, the values written later; a value the row holds already takes its change back. `Review`, `Answered`,
`Consent`, `Writes` and `Applied` are a commit; `Writes` may fail before, between or after its statements, undone or
not. `mine`, `written` and their like are histories the properties compare.

**Autosave.** A text is the revision it is, 0 none. The writer is `WriterLook`, `WriterWake`,
`WriterWrite` over a queue with one word per buffer. A tab types, which schedules a keep unless one is scheduled; its delay goes by (`Elapse`) and the window does it (`Due`).
Typing goes on for ever in the last of the texts told apart. A tab closes,
leaves with its workspace, comes back by a read of the store. `Save` and `AskDelete` start goroutines that write the saved query
(`SaveWrites`, `Deletes`) and land in the window. `End` is a crash, or the end of a quit, at any moment; `Start` reopens what
the store and the session name.

## 3. The runs and their bounds

| Run | Checks | Bounds |
|---|---|---|
| `schema` | `Fresh`: nothing older than the last refresh is answered. `Answered`: a popup gets through root, schemas and list to its answer. | 2 databases with schemas and a flat one, 2 schemas, 1 class, 2 loads at once, 1 refresh, versions 0–3 with DDL between (starting at either kind of server), 3 requests |
| `grid_swap` | `CurrentRows`: no row of a replaced source or moment is resident. `NothingHidden`: no total found by a short page, or counted since the last refresh, hides rows; one kept from before is set apart. | pages of 2, window of 1, pages 0–1, a table of 3 rows then 2 and a pipeline of 2 then 4, 1 change, 2 generations, 2 fetches; 4.2 million states |
| `host_quit` | `InOrder`: lines arrive in order and once. `AnswersInTurn`: each caller is given its lines in turn until it leaves, a step of `Conversation` each. `Delivered`, `EveryoneIsTold`: while no abandoned line holds the reader, every line gets to its caller, and the end too. | 2 requests, one may give up; queue, channel and pipe of 1; at most 2 lines said |
| `serve_ends` | `OneEnding`, `AnsweredBeforeReturn`, `Ends`, `CancelEnds`: one ending per request; the plugin returns after all of them, and does return. | 2 requests, one that never ends by itself; 1 row; pipe of 1 |
| `result_set` | `NothingToWakeFor`: no announcement missed by whoever waits; a page that ends with one is never waited for while it is there. `MeetsContract`: a Fetcher, liveness included. `CloseEndsReading`. | a grid with pages of 2, an export with pages of 3, announcements every 2, at most 5 rows |
| `stream_bar` | `LastRecords`: the window holds exactly the last records. `RecordsAreDrawn`: by a grid that reads the tail. `TailsAreReleased`. | 2 tails, ring of 2, 3 records on one stream and none on the other, 1 read again |
| `workspace` | `NoneLeaked`: no pool leaks. `ConnectReturns`, `DisconnectEndsIfLanded`, `LostIsDrawn`. | 2 tabs, 2 dials, 1 edit |
| `vault` | `StillReads`: a vault reads wherever a lock's change stops. `LastSaved`: with the value last saved. `SealedOnceLocked`: nothing in the open after. | 1 connection with 2 secrets, or 2 with 1 of which one may be a copy (`OneSecretEach`), 2 jobs at once, 2 saves, 1 passphrase; keychain, portable, none; 2,613,108 states |
| `explorer` | `CurrentAnswers`, `CurrentBadges`: nothing of before a refresh is kept. `FilterFindsTheTree`: no entry outside the tree. `NothingUndrawn`: no change falls between two redraws. | a folder, a connection in it, a table in that; 2 loads, 2 badge reads, 2 refreshes; 3.1 million states |
| `session` | `ShownIsCurrent`: no result of an ended run is shown. `CutByOthers`: no script cuts off its own results. `StopEnds`, `ClosedIsReleased`. | a script of two statements, then one of one; 2 stops, commits or transactions; a reread |
| `edits` | `Kept`: nothing typed is lost. `ReviewedIsWritten`: nothing is written that no review showed. `InsertedOnce`. `FillsWhatItRead`. | 2 rows, 3 values typed or filled in and rows added or deleted, so up to 3 fills at once, 2 reviews; 1,230,373 states |
| `autosave` | `DiskIsUpToDate`: the last word is the one on disk. `CleanIsStored`: no mark means stored. `KeptInTime`: what is typed gets to the disk, or something typed after it, though the typing never pauses. | 1 buffer, 3 texts told apart, 1 save, 1 crash or quit; 1,362,642 states |

Type invariants are in no run: they are proved (section 5), those of `ExplorerTree`, `QuerySession` and `PendingEdits`, which
the modules do not state, with the proofs. A few more properties are proved and
not run, since a run would add nothing to the proof: `LoadingIsServed`, `FinishedOnce`, `PauseTakesOne`, `ReleasedUnread`, `QuietOnceClosed`,
`Bounded`, `InflightIsFetched`, `CancellableWhileWorking`.

Why these bounds are enough. Each hazard needs a certain number of actors and no more:
two fetches to land in either order, and one slot of window to make them evict each other;
two generations to be stale by one, one more to be restarted; a channel of one to be full
(the code's 16 and 64 only delay it); one request that gives up beside one that
does not, for what one does to the other; a ring of two to wrap, three records to wrap
past the first; a cap of 5 rows with pages of 2 falls inside a page, and pages of two and of three end
both on and off the announcements, which come in twos; two tabs share one dial, and two dials
are a connection and its successor. Loads need two at once, since a stale one and its
replacement share one mark. Of two secrets the first may be written and the second refused; two jobs are enough
to overlap, and a second passphrase changes the first, a case of its own (section 6). Copies and second secrets are kept apart (`OneSecretEach`, a constraint), as they meet nowhere but in the job's list. A branch in a branch is dropped and
listed again by the refresh of the outer one. A script of two statements has a result cut off by the next, and the script
after it a run to be stale for. Two rows move when one goes. One
buffer is enough for `Autosave` since buffers share nothing but their turn with the writer, and the two safety
properties are proved for any number.

Bounds on counters (`Max*`, `Lengths`) only limit how long a behaviour goes on
being interesting; reaching one stops that action and nothing else. Because of
them, and because a user may simply stop, all configurations switch the deadlock check off; what
must not stop is stated as a liveness property. Symmetry is used in `grid_swap`, `vault` and `explorer`
only, which check safety.

## 4. Fairness

Nothing is assumed of people: nobody has to type, open, save, refresh or close.

- `SchemaCache`: a load that was started is read and lands (each runs under a
  timeout), and a subscriber that was told asks again.
- `GridModel`: none; its properties are safety.
- `PluginHost`: the goroutines of the host take their steps, and a timed-out send
  leaves. The plugin owes nothing, not even reading.
- `PluginServe`: the loop and the handlers go on, an operation whose context ended
  returns, and the host reads what is written. A host that stops reading
  is `PluginHost`'s subject.
- `ResultSet`: a closed stream's read returns, the end is recorded, a fetch
  that can move does. Rows need never arrive.
- `StreamBar`: each tail's goroutine goes on and a read whose context is cancelled
  returns. Redrawing has strong fairness, as its tick competes with handlers in the
  UI queue and is never starved. The broker need never send.
- `Workspace`: every tab's goroutine and every dial goes on (a dial has
  `testTimeout`), a ping returns (it has a timeout), queued callbacks run when the UI is
  not waiting. The monitor's timer owes no tick, the server no answer to a statement. A dial is
  taken to end, though what it reads from the keychain is not bounded by its context.
- `Vault`, `ExplorerTree`, `PendingEdits`: none; their properties are safety. A keychain may never answer.
- `QuerySession`: what goes on by itself (`Goes`): goroutines, the window's work, the two minutes of a
  transaction. A server answers in its own time, or never, unless the context of what it was asked is cancelled. One condition
  serves for all of them, as none of these steps recurs for ever.
- `Autosave`: the writer takes its steps, each write ending in its five seconds, the timer of a throttled keep
  fires and the window does what it asks. Whoever types may do so without a pause. A write may always fail; `KeptInTime` says so. Landings of saves are owed nothing.

## 5. What is proved

Every invariant the runs check, and those of the modules' own that no run needs, for every value of the constants that meets the assumptions
stated in the modelled module (sizes are positive naturals, bounds are naturals, requests are finitely many, a tree's parents lead to its root, the marker values are not data). TLC evaluates the same assumptions in every run.
Eight modules hold the proofs. Components that meet in the window share one, which extends each of them; what is proved of
one uses nothing of the other, and their specifications are not composed. For that, modules that are proved about together have no name in common:
`HostSpec`, `BarSpec`, `WorkspaceSpec`, `CacheSpec` are what is `Spec` elsewhere.

**`Browse_proofs`, the tree.** `AnswersHold`, `FilterHolds`, `DrawingHolds`, `BadgesHold`, for any tree, any number of loads, badge reads and refreshes.
`Above` is the least set of places closed under taking parents, and `Closure` all that is ever needed of it: what holds of a node's parent and
passes from a place to its parent holds of everything above (`Outwards` and the lemmas after it). The invariant is `Types` and five parts. `Lists`: only a loaded
branch lists anything, only what is its own and is there. `Rooted`: whatever is there is listed by its branch; that is what keeps entries from being left
outside the tree when `dropDescendants` walks it. `Followed` is why generations are enough: a load that may still answer is of a generation past, or
is the one its branch waits for and was asked for since the last refresh. `Marked` says the same of a badge and the read it waits
for. `Drawn`: with no refresh pending, what is drawn of a branch is what the tree has, or the refresh under way has yet to ask that branch or one
above it (`Unasked`). The case in which a node dropped was listed again over a load of before is set apart by `revived`, as in
section 6; without that exception what `Followed` says is false.

**`Browse_proofs`, the connection.** `LinkTypes`, `NoLeak` and `ClosedStaysClosed`. Neither of the last two is
inductive. `OneDial` says that the dial callers wait on is the only one under way, that it is
for a connection that is not open, and that a number not dialled yet has no
monitor; so a landing overwrites no open connection. `Silenced` says that a connection whose
pool is being closed, or that was said to be closed, has a monitor that is done. `ClosedStaysClosed` is an action
property, from the invariant before the step.

**`Browse_proofs`, the schema cache.** `CacheTypeCorrect`: whatever name a request resolves to, by
the chain of `Resolve`, `Container` and `MissingKey`, is a key the cache has. `Freshness`: nothing in the cache
was read before the last `Invalidate`. That is not inductive, since a load in flight
may be older; `FreshInv` adds that no load's generation is ahead of the cache's, and
that a load of the current generation which has read, has read since the
last refresh (`ReadSince`). `MarksAreServed`: a key marked as loading has a load of this
generation under that key at work. A landing may take the mark of another load, never leave one
without a load.

**`Streams_proofs`, a result.** `TypeCorrect`, `EndsOnce`, `NoLostWakeUp` and
`ImplementsContract`. The argument for wake-ups is arithmetic: `Bookkeeping` says
that rows minus the current batch is a multiple of the announcement size, and
`NotYet` that a fetch holding the present channel wanted more rows than there were at the last
announcement. Nothing is assumed of the pages. Where one ends on a mark, as the grid's do, two marks being an announcement apart
(`MarksApart`), a page that is complete has been announced; where it does not, as an export's, the wait may last until the next. `ImplementsContract` maps
every step to a step of `FetchContract` or a stutter, under the same invariant.

**`Streams_proofs`, a log.** `HoldsTheLast`: ring, start and length together are exactly the last records
of the stream, for every size of ring and any number of records. The lemmas
`SlotsTurned` and `SlotsDiffer` are the arithmetic of the ring; `Window` is the
invariant per tail, and `BarStep` shows that whatever the bar does is at most one
step of one tail. `PauseCostsOne` and `ReleasedAfterReading` follow from `Held` and
`LetGo`, which say what the goroutine may be holding when the flag is set.

**`Plugin_proofs`, the host.** `HostTypeCorrect`, in which no channel outgrows its size, `HostClosedOnce`,
`HostInOrder` and `HostKeepsPromise`. That no channel is closed
twice (`ClosedOnce`, which no run checks since it is proved) is by `Apart`: a registered call is in the table, or with one finish that has yet to close it, or closed, and in one of those only; a call
not made yet is in none (`Untold`), so that registering it keeps them apart. `InOrder` as the run checks it speaks of the numbers in the pipe as
a set; `InPlace` says of one request that each number from the next one out to the last one said is on a line, no other is, and they stand in order; `Ordered` says so
of whoever waits until the process is reaped. `HostKeepsPromise` maps every step of the host to a step of `Conversation` or a stutter.
`InOrder` is too weak for that, since a caller goes on reading after `finish` has taken its call out of the table:
`InTurn`, the part of `InPlace` about the lines already out of the pipe, holds of every request at all times, because the later lines of a call
no longer waited for are dropped where they are read, and because nothing is left to read once the process is reaped (`Reaped`).
`Untold` gives that nothing is said of a request before it is made.

**`Plugin_proofs`, the plugin.** All of the module's safety properties. `AnswersAll`, that the plugin returns
only when every request it was sent has had its ending, takes four facts together: `CountInv`, that
`busy` is the number of goroutines at work; `InputOver`, that nothing is left to read once
the loop gives up; `Queued`, that a request sent and not started waits in the input, once; and
`OneEnding`, that a goroutine that is through wrote its ending. `Queued` is what makes the others
inductive: a line that named a request already started would start it, and end it, twice.

**`GridModel_proofs`.** All of the module's properties. `RowsAreCurrent` rests on `Times`: no
fetch is ahead of the generation, and one of the present generation (`Underway`) carries the present source, unless
`SetFetcher` is between its two steps, and an answer no older than the last refresh. `StaysBounded` needs
both of its conjuncts: only because the order knows every resident page does the eviction
find enough to drop. `EvictedToFits` shows that the place where the eviction stops
exists, `CutInTwo` and `TouchKeeps` that neither a cut nor a touch loses a page from
the order. `MarkedIsFetched` is by `Marks`, which names the one fetch of each mark; `EndHidesNothing`
by `Counts` and `Tallied`, which say what an answer's length, and a count under way, mean as long as the data has not changed again, and
`ShortPageReachesTheEnd`.

**`QuerySession_proofs`.** `SessionTypes`, `ShownHolds`, `CutHolds`, for any number of scripts of any length. `Placed` says where each goroutine may be in its
script, `OneRun` that only the current run's goroutine runs or has results queued for the window; with `Current` that makes what is shown the current run's.
`CutHolds` says that a result on show which stopped short was cut off by somebody else, never by the script itself. `InOrder`: a script's results come in its order, and
only its last one is left open, the others being read whole before the next statement is sent. `Accounted`: whatever is on its way to the window, or there,
and was cut short, is in the history of what others cut off.

**`PendingEdits_proofs`.** `KeptHolds`, `ReviewedHolds`, `InsertedOnceHolds`, `FillsHolds`, for any table and any number of edits and reviews. Each has a strengthening of its own over
`Types`: `ReviewedFirst` says of the changes under review what the property says of those written; `Keeps` compares what is
pending with the changeset that a sheet or a write has in hand; `Once` adds that a row still pending was not inserted; `FillRight` says
which rows each fill under way has read, place by place. `Filled` (a fill, value by value) and `Left` (the new rows less those a commit wrote) are
recursive functions over the naturals. That they satisfy their definitions, and what they leave alone, is proved by least
counterexample over sets of numbers (`Least`, `Induction`).

**`Vault_proofs`.** `VaultTypes`, `VaultStillReads`, `VaultSealed`, `VaultLastSaved`, for any number of jobs, connections and secrets. The invariant `IInv` has five parts beside types. `Shape`: what each kind of
vault never holds, and what is sealed and not stored yet. `Phases`: what each kind of job is at, and that a
save that overlaps one is known to. `Alone`: where no jobs have overlapped, which of the two locks, the file's and the vault's, is where at each stage of the one there is, and
that what it has sealed is sealed by its lock. `Reading`: while a lock comes off, whatever is still sealed is still to be
written back, and with the key that the file still names; secrets a save has written and the settings do not name yet
(`Flying`) count as well, since the settings may name them next, and so does what is sealed and on its way. `Sealing` is the like for a lock going on. The window's
steps that write are proved together from what one does to any one secret (`Written`): it is as it was, or gone, or as the save had sealed it.
For `VaultLastSaved`, `Promising` says which values a save in hand has made uncertain and what they were, `Lasting` that what it would put
back, and what any job has read and will write back, are the values promised. That part needs nothing of `crossed`: jobs that overlap
each write what was saved.

**`Autosave_proofs`.** `TypeCorrect`, `DiskHasLastWord`, `CleanTabsAreStored`. `Turns` says that a buffer with
a word waiting has its turn, once, so that taking a turn loses no word; `Words` says of each buffer that its last
word, waiting, being written or on disk, is the tab's unsaved text, unless a keep is still due, the last write failed or
the tab was reopened as it was before. For the mark, `Marks` says of a
buffer whose saves, deletes and returns never overlapped that one of them at most is under way, that a stored save is
what the query holds, and that an unmarked tab has the text of a save under way; the overlap itself is `raced`, which is set as the
second of two begins.

**What the liveness properties rest on.** That something happens in the end is the work of fairness, and TLC's to check. That whoever waits
waits for something that is under way, or has happened, is safety, and proved for every value of the constants. Each was checked by TLC on
the instance of its run first. The mutant that breaks the liveness property violates the invariant too, but for three that rule out
other mistakes: a tail left without its Close (`NoTailIsLost`), a count not reset for the next tail (`NothingDrawnAhead`), a result handed
on after the session was closed (`ClosedHolds`).

| Theorem | What waits, and for what | Rests on it |
|---|---|---|
| `PopupWaitsForSomething` | A popup that lacks a key was told of a landing, or a load of its generation is under way for that key (`BeginServes`, `SameMissing`). | `Answered` |
| `HostForgetsNobody` | Once the end of a conversation was seen, a caller that waits has its channel closed or in the hands of the one `finish` that closes it (`InOnePlace`, `FinishesOnce`). | `EveryoneIsTold` |
| `NoTailIsLost`, `NoTailOversleeps` | A tail that was made is the bar's or was asked to close; one asleep was neither resumed nor closed. | `TailsAreReleased` |
| `NothingDrawnAhead` | What counts as drawn has arrived on the tail the bar has now, so a redraw is due until all is drawn. | `RecordsAreDrawn` |
| `WaitsForAnAnswer` | A tab that waits for a connection waits for the dial under way, or one that has answered. | `ConnectReturns` |
| `DisconnectWaitsForTheGone` | The window closing a connection waits for the sessions in use while the connection is still open to all, and then for a monitor told to stop and sessions on their way out, none in use. | `DisconnectEndsIfLanded` |
| `RowSaysWhatIsSo` | A row shows the connection as it is, or a drawing is due, or word of the change is on its way. | `LostIsDrawn` |
| `ClosedTabIsClosing`, `ClosedHolds` | A closed tab has somebody closing what it was given; when that is done nothing is held, and whatever reads was told to stop. | `ClosedIsReleased` |
| `TypedIsOnItsWay` | Unsaved text has a write due, a turn with a writer that is awake, is being written, or is on disk. | `KeptInTime` |

The parts that make them inductive: for the connection, `Serving` (the lock names whoever is at the server, `LockIsUsed`; one result streams, and none under the
lock of a statement, `OneStreams`; both are `ConnectionIsShared`) and `Ending` (how far `Close` has come says what is closed, and `Tracked` that no reading is outside
what `Close` sees: a result handed over once the session is closed is closed at once). For the writer of scratch text, `Alert`: it
sleeps neither on a word nor on having been told to end. `QuitLosesNothing` follows from the same invariant. For the bar, `Waits`, with which `BarTypeCorrect` holds
of all its variables; that no more counts are under way than objects were browsed again is by cardinality (`Counts`).

What is only model-checked: the liveness properties themselves (`Answered`, `Delivered`,
`EveryoneIsTold`, `Ends`, `CancelEnds`, `CloseEndsReading`, the liveness half of `MeetsContract`,
`RecordsAreDrawn`, `TailsAreReleased`, `ConnectReturns`, `DisconnectEndsIfLanded`, `LostIsDrawn`, `StopEnds`, `ClosedIsReleased`, `KeptInTime`), since the
proof system handles neither fairness nor `ENABLED`; and the counterexamples of section 6. The prover loses its arithmetic in modules with recursive
operators, so none is declared here: recursion is a recursive function or a fold. The library's induction
schemes take an operator as a parameter and cannot be used, hence the proofs by least counterexample.

## 6. Where code and words disagree

Statements of the repository that the code does not keep. Each is stated in its module, and the configuration named
shows TLC's counterexample: `tlc -config X.cfg M`, with `PluginHost` or `Autosave` for `M` as they are, `MCWorkspace` and the like for the others.
A configuration with several statements has all but one commented out, to be taken one at a time.

| Configuration | Statement | What the code does |
|---|---|---|
| `PluginHostRefuted` | `AbandonedLineIsDropped` | A caller that gives up while its channel is full stops the one reader of a plugin for ever (`internal/plugin/host.go:167`); the comment above says such a line is dropped. |
| `PluginHostRefuted` | `NoSendOnClosed` | `finish`, called by `Close` or `write`, closes a channel the reader is about to send on: a panic that nothing recovers. |
| `ResultSetExport` | `WaitsForMissingRows` | An export of a result still being read waits for the announcement after its page, with the page there. |
| `GridModelKept` | `KeptUntilCounted` | A total counted for an earlier source is kept when the new one cannot count or its count fails; a pipeline that makes more documents than its collection has is drawn cut off there (`internal/ui/shell/pipeline.go:143`). |
| `StreamBarFailed` | `FailureIsSaid` | A stream that fails after its last record was drawn is never said to have failed; `redraw` looks for new records only. |
| `StreamBarReread` | `GridReadsTheTail` | A sort or filter that answers while a log is followed gives the grid the log, and the bar goes on saying it follows. |
| `WorkspaceHeld` | `DisconnectEnds` | Disconnecting while a session waits in the UI's queue to be stored waits on the UI goroutine for something in its own queue. It needs a pool that waits for what it lent, as pgx's does. |
| `WorkspaceBusy` | `NeverOnTheNetwork` | Disconnecting closes sessions on the UI goroutine before it cancels the contexts of their tabs, and waits for a statement until the server first answers it. |
| `WorkspaceEdited` | `SettingsInForce` | A connection edited while it is being dialled lands with the settings it had and stays. |
| `VaultRefuted` | `PassphraseOutlived` | Changing a passphrase saves the new lock before the secrets are sealed with it: stopped there, they are read by no passphrase. |
| `VaultRefuted` | `SessionOverwritesNothing` | A portable vault keeps a password in the session after it was sealed, answers with it after it was changed, and writes it over the new one at the next lock or the next save whose settings cannot be written. |
| `VaultRefuted` | `UnreadIsPutBack` | A save takes any error of reading the old password for there being none, and deletes it when its settings cannot be written. |
| `VaultRefuted` | `DroppedLock` | A lock put on while one is being taken off is taken out of the settings by the job before, with secrets sealed by it. |
| `VaultRefuted` | `SealedMeansSealed` | Such a lock may seal with none, or be written over by a secret in the open that was on its way, and says "Sealed". |
| `ExplorerRevived` | `AlwaysCurrent` | A node dropped and listed again starts its generation over; a load of before is taken for its own. |
| `QuerySessionRefuted` | `WindowComesBack` | The window's sync asks for the transaction under the lock a slow statement holds: the window stops, Stop with it. |
| `QuerySessionRefuted` | `ShortMeansEnd` | A result whose stream was closed under it counts as ended: its rows are shown as all there are. |
| `PendingEditsRefuted` | `NothingForgotten` | What is edited while a changeset is written is forgotten with it and counted as committed. |
| `PendingEditsRefuted` | `FillsTheSelected` | A fill takes places when it starts and uses them after a read; a row that came or went meanwhile moves them. |
| `AutosaveRefuted` | `SavesInTurn` | Two saves of one query write on goroutines of their own, in either order; the tab then has no mark and the query the older text. |
| `AutosaveRefuted` | `ReopensAsLeft` | A workspace come back to reads the store before the writer is done, and reopens a tab with an older text. |

The runs of section 3 check the same modules with those cases set apart by a history variable (`kept`, `overtaken`, `raced`,
`behind`, `revived`, `late`, `astray`, `crossed`, `changed`, `misread`) or a condition, so that what does hold is checked beside them.

Met while modelling, in the models, and without a run of their own:

- `GridModel`: an empty page beyond the end of a table that shrank sets the total
  to where that page starts, although the rows end before it. A page's last use
  can be entered twice, since `Row` decides under the read lock and acts after: a page
  may then be evicted as it lands, and is fetched again.
- `SchemaCache`: a stale load takes away the mark of the load that replaced it,
  which costs one read too many.
- `PluginServe`: a cancel read before `begin` has registered its request is lost, and a request
  that registers after the end of the input is missed by `cancelAll` (`Missed`).
- `StreamBar`: a late row count writes over the bar's line.
- `Workspace`: `OnStatus` keeps one callback and every window sets it, so a second
  window silences the first. The model has one window.
- `StreamBar` and `QuerySession`: a reread once begun is not ended by Stop (`StopEnds` says so), and a
  `rowStream`, "Not safe for concurrent use", is closed from another goroutine than the one that reads it.
- `Vault`: `setAll`, refused half way, deletes the keys it has written, those that had a value before among them.
  A `RemoveVaultLock` that fails
  leaves the lock off in memory and on in the file; tried again it returns no error and the window says the lock is off. A save
  from the window during `RemoveVaultLock` stays sealed by the lock removed, and one during `LockVault` is
  overwritten by the value read before it (`astray`).
- `Autosave`: a crash between a saved query's deletion and its landing loses the text of a tab that has it open.

## 7. What is not modelled, and why

Inside modelled components:

- what lines of the plugin protocol say beyond the request they are about and whether they end it; rows shown first
  and statistics of the grid; the seek dialog of the stream bar;
- `Workspace`: `Delete` and `CloseAll`, which close as `Disconnect` does, the tunnel under a connection, a second window;
- `Vault`: folders and order, which touch no secret; `SetSession`, which only tests call, testing, the forms, the rest of the settings file. `heldSecrets` reads
  all secrets in one step, so that no save or job falls between two of its reads; it would be one that overlaps it all the same;
- `ExplorerTree`: marks, selection, ranking of what the filter finds, drawing;
- `QuerySession`: sheets are modal and one transaction is asked for at a time, as the window's guards have it; the goroutines that
  run a statement and forward its result are one; history, parameters, questions before a production write, and a transaction a failed statement leaves behind. The connection
  is PostgreSQL's; the MySQL and SQLite sessions lock alike;
- `PendingEdits`: several columns of a row, a block pasted, which of two values for one cell has to stand (the one that lands last counts as meant), rows duplicated, a key chosen, the words of the statements;
- `Autosave`: the session's own key, the question for a name before a first save, panes, a power loss (the store
  is written by a transaction of the local database), stopping the writer to restore a backup.

Time is never a number: a timeout is a step that may happen.

Hazards met in code that has no module, beside those `PROJECT.json` lists: filtering pages of a table others write to
(`internal/app/filtered.go`), the numbers of refused rows against a loader that batches
(`internal/transfer/load.go`), files put in place by renames with a crash between (`internal/app/backup.go`), two copies that
start at once (`internal/single`), a tunnel closed while a hop is dialled, and a meter that stops measuring and cannot say so.

The rest is in section 1.2 and `PROJECT.json`. Drivers are adapters whose
behaviour is that of servers outside the repository; parsers, formatters and
layouts are functions of their input that the repository's tests exercise and fuzz; dialogs and drawing
run on one goroutine and share nothing. Components of section 1.1 without a module are
the plan below.

## 8. The plan

Written so far: `SchemaCache`, `GridModel`, `Conversation`, `PluginHost`, `PluginServe`, `FetchContract`
and `ResultSet`, `Tail` and `StreamBar`, `Workspace`, `Vault`, `ExplorerTree`, `QuerySession`, `PendingEdits`, `Autosave`.

Left, in this order:

1. `Restore`: staged files, renames, a crash between any two. *Old or new, never both or neither.*
2. Compositions: `PluginWire` (host, pipes and library together, against an abstract
   request with rows, one ending and a cancel); the grid over a result set and over a tail.
3. `Meter`, `SingleInstance`; `Workspace` with a second window and deletion.
4. Filtered rows as a second implementation of `FetchContract`; the loader's contract.

Proofs: the safety of every module is proved; left are the vault as a store that changes in one step, and the theorems of the compositions.

A theorem is worth stating where the argument is one a reader would not see at once: an
invariant that needs another to be inductive, or arithmetic that no instance settles. A proof is kept in steps that the provers find
in a tenth of the time they are allowed, so that it is found on a slower machine too.
