# OmniFlow backend: TLA+ verification project

OmniFlow (`src/`, Go) is the backend of a personal file library: libraries of
files and directories kept as rows of a node tree in PostgreSQL, file contents in
one or several S3-compatible object stores, login sessions in Redis. This project
models the parts whose correctness depends on the order of steps taken by
several requests, background workers and a store that may fail, checks them with
TLC on small instances and proves the central facts with TLAPS for every size.

## 1. Inventory

All HTTP handlers run concurrently, in any number of server processes. A use case
(`internal/usecase`) calls repositories (`internal/repository/postgres`), which join
the transaction of the context if `WithinTx` opened one and otherwise run one
statement at a time in PostgreSQL's READ COMMITTED. Object stores and the database
share no transaction: an object call and a row change are always two steps, and
either may fail with the other done, or be done with the answer lost.

| Component | State | Operations | Interacts with | Hard behaviour | What makes it correct |
|---|---|---|---|---|---|
| Upload sessions (`usecase/upload_session*.go`, `impl/uploadsession`) | `upload_sessions` row (status, claim, lease, receipt), object, multipart upload, presigned URLs | Init, sign, list, renew, Complete, status, Abort, janitor sweep | object store, nodes, storage registry | claims and leases against concurrent requests, retries, lost answers, crashes, late PUTs | one node per session, its object is never removed, answers agree, everything abandoned is reclaimed |
| Storage migration (`usecase/migration*.go`, `impl/migration`) | `migration_tasks` (status, counters), `migration_task_items`, source and target objects | Enqueue, Cancel, worker tick, swap, fail, aggregate | `storage_objects`, `node_files`, two stores | several workers, cancel racing the last item, crash of a worker, unknown commit | each item ends once, counters equal the items, a verdict is true, a file's row is live and its object exists |
| File content replacement (`usecase/directory.go`, `impl/node/node_write.go`) and node copy (`node_copy.go`) | `storage_objects` row of a file, its object | conditional and unconditional replace, copy of a subtree | migration, object store | unknown commit, replace racing a migration, objects copied inside a transaction | the binding names an existing object, content is replaced only as it was seen, nothing is left behind |
| Node tree and recycle bin (`usecase/node.go`, `impl/node`) | `nodes` (parent, name, sort order, deleted_at) | create, move, rename, delete, restore, hard delete, clear, repair, sort | every other component's nodes | two moves under disjoint locks, delete against create, restore of nested deletions | a tree under the root, nothing live is purged, the repair heals, siblings are listed as asked |
| Conditional batch rename (`node_rename_batch.go`) | mutation receipts, node names | rename batch, replay, status | node tree | swaps of names inside one batch, replays, lost answers | carried out once, on the files as they were approved |
| Tags and node tag delta (`usecase/tag.go`, `node_tag_delta.go`) | `tags`, `node_tag_rel`, the copy of it in `view_meta` | create, update, delete; add and remove with locks; metadata update; warm-up of archives | nodes | a rule no unique index states, two places for one fact | names and targets unique, both places agree, only bindable tags are bound |
| Login sessions (`usecase/auth.go`, `redis/session`) | a Redis hash per user | login, check, logout, expiry | middleware | several commands per operation, repeated commands | a session ends by logout or in time |
| Storage registry, routing and watcher (`internal/storage`) | `storage.yaml`, table of configurations, table of stores, the provider recorded with a file | five edits, reload, file watcher; lookup by alias, spelling or type; routing rules | every user of a store | table replaced while another reload builds, or between two lookups | stores, table and file agree; a file is found where it was written |
| User preferences | a row with a revision | get, conditional put | - | concurrent revisions, lost answers | a register whose content is never overwritten unseen |
| Users (`usecase/user.go`) | row, avatar object | avatar, profile, registration, password | object store | unknown outcome of the update | the avatar exists |
| Browser bookmarks, browser file mappings | rows | tree operations and import; CRUD by extension | - | checks and writes without a common lock | every bookmark is shown, an extension has one mapping |
| Libraries, metadata and search queries, archives | rows of others | pages after an id, after a cursor, at an offset | nodes | rows change between pages | every steady row is listed once |
| Resource monitor | derived counts, samples | breakdown, dashboard, distribution, probes, samples | nodes, objects, stores | several statements, shared objects, loops of directories | the parts add up |
| Command-line client (`transport/cli`) | the upload it carries out, the session file | `upload file`; one or several requests per other command; login and logout | HTTP interface | goroutines, signals, an unknown outcome; two processes save one file | what it reports is true, the file can be read |
| HTTP transport (`transport/http`) | - | 98 routes: binding, session, dry-run flag, reply | every use case | a flag that passes four layers | a dry run changes nothing and says so |
| Bootstrap, config, generated queries, reset tool | - | - | - | - | - |

`PROJECT.json` lists every component with its sources and status, and under
`hazards` each thing that is hard to test, at its line.

## 2. Plan

| Order | Module | Models | Proofs | Status |
|---|---|---|---|---|
| 1 | `UploadSession`, `UploadOutcome` | direct upload and its abstract promise | `UploadSessionSafety`, `UploadSessionRefinement` | done, proved |
| 2 | `StorageMigration` | task and item state machines, worker pool, Cancel, crashes | `StorageMigrationSafety` | done, proved |
| 3 | `NodeTree` | the tree statement by statement | `NodeTreeProofs` | done, proved |
| 4 | `FileContent` | content replacement, copy and migration of the same files | `StorageProofs` | done, proved |
| 5 | `RenameBatch`, `Tagging`, `UserPreferences` with `PreferenceRegister` | receipts; tags of a node; the preferences as a register | `RequestProofs` | done, proved |
| 6 | `LoginSessions`, `FileMappings`, `UserAvatar`, `StorageRegistry`, `BrowserBookmarks` | the smaller services | `RequestProofs` (the first two), `StorageProofs` (the next two), `NodeTreeProofs` | done, proved |
| 7 | `UploadClient` on top of `UploadOutcome` | the command-line upload | `RequestProofs` | done, proved |
| 8 | `SiblingOrder`, `Listings`, `ResourceReport` | the numbers that order siblings; what is read in several statements | `ListingProofs` | done, proved |
| 9 | `HttpApi`, `CliCommands`, `CommandLine` | routes and handlers, commands and their requests, processes with a session file | `RequestProofs` | done, proved |
| 10 | `StorageRouting` | names, rules and what is recorded with a file | `StorageProofs` | done, proved |
| 11 | `MCServices` | steps 3 to 10 in one run | `ServicesProofs` | done, proved |

Left to TLC: the liveness properties (section 7).

`MCServices` composes the modules of steps 3 to 10 into one run. Abstract
specifications: `UploadOutcome`, which `UploadSession` implements and `UploadClient`
uses as its server, and `PreferenceRegister`, which `UserPreferences` implements.

## 3. Uploads

### Model and code

`UploadSession` models `usecase/upload_session.go`, `upload_session_completion.go` and
`impl/uploadsession/repository.go`.

| Variables | Code |
|---|---|
| `status`, `opId`, `lease`, `receipt` | the `upload_sessions` row: `status`, `client_operation_id`, `expires_at`, `completed_node_id`/`completion_result` |
| `object`, `multipart`, `url` | the object under the session's key, the multipart upload, the youngest presigned URL that still works |
| `madeBy` | the rows of `nodes`, each with the session that made it |
| `pc`, `target`, `op` | an HTTP request being served: where its handler is, its session, its operation id |
| `sweepPc`, `sweepAge`, `duePending`, `dueCommitted`, `sweepCur` | a janitor's sweep and the snapshot it works from |
| `replies` | history: the answers clients received |

A handler or a sweep takes one action per statement, transaction or store call. Init
is `InitUpload`, `CreateRow`, `UndoMultipart`; sign, list and renew are `LoadSession`,
`RenewLease`; Complete is `StartComplete`, `ReplayReceipt`, `ClaimCompletion`,
`CheckTarget`, `CompleteMultipartUpload`, `StatObject`, `CommitNode`, `ReleaseClaim`;
Abort is `ClaimAbort`, `CheckAbortProvider`, `AbortMultipart`, `AbortDeleteObject`,
`AbortDeleteRow`; the janitor has `SweepStart` to `SweepEnd`. `Put` is a client with a
presigned URL, `Die` the end of a request anywhere (crash or cancelled context), and
store calls and transactions may fail, before or after they took effect. Requests are
retries of each other: any request may name any session and any operation.

Time is relative. `lease[s]` is the time left until `expires_at`, `Tick` lets one unit
pass and stops counting where no comparison of the code can tell the difference, so
no clock is bounded and no behaviour is cut off.

`UploadOutcome` is the promise: a session is opened, and then decided once, as one
node whose object stays or as discarded; only a discarded session's object may be
removed. `Phase` in `UploadSession` is the refinement mapping.

### Runs

| Run | Instance | Shows |
|---|---|---|
| `upload_multi` | one multipart session, 3 requests, 2 operation ids, 1 janitor | types, the safety properties that concern one session, `UploadOutcome` |
| `upload_two` | two single-PUT sessions of one actor, one shared operation id, 2 requests, 1 janitor | the unique index decides which session the operation belongs to, until its receipt is swept |
| `upload_live` | one multipart session, 1 request, 1 janitor, fairness | cleanups end, abandoned sessions are reclaimed, receipts expire |
| `upload_reclaim` (violated) | one multipart session | finding 1 |
| `upload_retry` (violated) | one multipart session, 2 requests | finding 2 |

Bounds. All state but the unique index is per session, so one session with several
requests meets every race; two sessions are needed only for the index. Three requests
are the smallest number with two completions of one operation and an intruder. The
time-outs are 1 or 2 units: the code compares only lease against zero and against the
minimum lease, and the proofs hold for every value. A sweep lists one row
(`SweepLimit` = 1), so that in `upload_two` a sweep takes the older of two sessions. The
live run has one session: that rows whose provider keeps failing do not keep others from
being listed is not checked. Two node ids are one
more than the promise allows. Symmetry is over requests, node ids and operations (with two
sessions of one actor also over the sessions), and is not used with liveness.

Fairness. `Tick` and every janitor step that gets through are strongly fair: the
janitor wakes every five minutes for ever and each sweep has its own deadline, so a
step that keeps becoming possible is tried again and again, and the database and the
store are assumed to answer again and again. `SweepEnd` is weakly fair (60 s
deadline). Nothing is assumed of requests.

### Proofs

`UploadSessionSafety` proves the types (`TypeInv` adds to `TypeOK` which operation a
request carries at which step, and that a committed row is a complete receipt) and `IInv`. `CommittedObjectPresent` is not inductive: it
needs to know that whoever may remove the object works on a session no completion can
win any more. `Doomed` and `Taken` name that, and the steps of `IInv` say who has
established it: an abort that can still give its claim back is alone on its session
(`AbortInHand`), past that point the session is lost for good (`AbortPastReturn`,
`SweepPastReturn`), and a completion that has seen the object can commit only while
it is there (`StatHolds`). The properties of one state follow from `IInv`;
`JanitorRespectsLease` and `ReceiptKept` follow from a description of how one step may
change one row; `OperationHasOneResult` has an invariant of its own about all sessions
of an actor. `UploadSessionRefinement` proves `Spec => OutcomeSpec`: a step changes
what is seen of at most one session, and each such change is a step of
`UploadOutcome`.

Assumptions: the operation ids of clients never equal the internal ones, ids of nodes
and sessions differ from the null values, time-outs are naturals, upload ids and keys
are fresh (uuids).

## 4. Storage migration

### Model and code

`StorageMigration` models `usecase/migration.go`, `migration_worker.go` and
`impl/migration`.

| Variables | Code |
|---|---|
| `taskStatus`, `progress` | `migration_tasks.status` and its three counters |
| `itemStatus`, `source` | `migration_task_items.status`, `storage_object_id` with `source_key` |
| `bind` | `node_files.storage_object_id`, all rows that share an object as one file |
| `row`, `object` | `storage_objects` (none, live, soft-deleted) and the object in its store |
| `enqueue`, `cancel` | where the two handlers are |
| `pc`, `cur`, `verdict` | a worker: its step, its item, the status it is about to write |
| `uncertain` | history: swaps that committed although the worker got an error |

An item's copy is named by the item (target keys are fresh uuids), so what one task
has moved, another can move on. Enqueue is `Enumerate`, `CreateTask`, `CreateItems`:
`CreateTaskWithItems` asks its caller for a transaction (repository.go:72-74) and
Enqueue does not open one, so the two inserts are two steps. Cancel is `StartCancel`,
`CancelTask`, `SkipPendingItems`. A worker claims (`ClaimNextItem`), reads the task
(`LoadTask`), copies, verifies, swaps in one transaction (`SwapReference` within
`Swap`), deletes the source, or goes through the error paths (`MarkOrphan`,
`MarkItemSkipped`, `CountSkipped`, `DeleteCopy`, `MarkItemFailed`, `CountFailed`), and
aggregates in two statements (`CountItems`, `EndTask`). Store calls may fail in every
instance; with `Faults`, every database call may fail with its effect or without it,
and a worker may die at any step.

### Runs

| Run | Instance | Shows |
|---|---|---|
| `migration_overlap` | 2 tasks to two providers that list the same file, 2 workers, faults | the safety properties |
| `migration_live` | 1 task, 3 files, 2 workers, no faults, fairness | the task ends whoever comes last; verdicts; cancellation |
| `migration_binding` (violated) | 1 task, 1 file, 1 worker, faults | finding 3 |
| `migration_terminal` (violated) | 1 task, 1 file, 1 worker | finding 4 |

Bounds. Files interact only through tasks that list the same one, and items of one
task only through the counters and the aggregation; the first instance has the first,
the second has the second, with one item more than workers so that pending, running
and ended items coexist. Two tasks of two files exceed the time limit; the theorems
cover them. Symmetry is over workers, and not used with liveness.

Fairness. Each worker is weakly fair: it polls every 5 s as long as the server runs,
the work on an item has a context of 30 minutes, and the two deletions, which run
without a deadline (migration.go:390, :395), are assumed to return. Liveness is checked without faults because the code has no
recovery: an item whose worker died stays `running` and is never claimed again, and
then its task never ends.

### Proofs

`StorageMigrationSafety` proves `TypeOK` and `IInv`, whose parts are: a row comes with the swap of its item and goes with the swap of an item
that has it as its source (`StoreInv`), items are queued with a source and skipped
only before anything was copied (`ItemInv`), and what a worker has established about
its item at each step (`WorkerInv`, `WorkerOwnsItem`). A worker's step leaves the items
of the others alone, except that `DeleteSource` may delete the object of another item;
that item has moved, so nobody is about to swap it. On top of it:

- `VerdictsAreSound`: the count and the status are separate statements. What makes a
  verdict true (`Holds`) is stable under every step, so it is still true when it is
  written and ever after.
- `CanceledItemsStay`: a temporal property, from the stable predicate `Stopped`.
- `NoCopyIsStray`: every object that an item lists is still bound to a file, or one
  of the items that list it has moved (`SourceInv`).
- `ProgressIsHonest`: the counters are compared with the number of items that moved or
  were given up. `CountInv` says what each counter lacks while a worker is between
  settling its item and counting it; a step changes the sets whose cardinalities are
  compared by one item at most.

Assumptions: files, items and the null values differ. A subtree has finitely many files
(`FilesAssumption`, needed for the counters alone); tasks and workers may be any number.

## 5. The other services

`MCServices` is one run (`services`) over sixteen components that share no state. The
variable `focus` says which of them runs, the others stand still in one state, so the
state space is the sum of sixteen spaces and not their product; the invariants of all
are checked in all of them. Some of its properties join what two components promise
in one sentence (`TreesStayWhole`, `ObjectsBacked`, `UniqueKept`, `ReadsTrue`,
`OrderAsAsked`, `SessionsSound`, `ProvidersSound`); the parts are defined in the modules. Deadlock is not checked, because
the bounds below end every behaviour. No fairness is assumed: all properties here are
safety properties. In each module an action is one statement, transaction, Redis
command or store call of the named function; `map` in `PROJECT.json` gives the lines.

Several properties exclude a race which the code does not, by a history variable
(`raced`, `bmRaced`, `excused`, `astray`, `crossed`, `staleMeta`, `broken`, `changed`,
`sound`, `torn`, `calm`). Each says precisely when the promise is lost, and everything else is still
checked in all interleavings; section 6 lists what happens then.

| Module | Code | Properties |
|---|---|---|
| `NodeTree` | create, rename, move, delete, restore, purge, clear, repair | `TreeStaysWhole`, `LiveNeverPurged`, `RepairHeals` |
| `FileContent` | replacement, copy, migration of the same files | `BoundObjectExists`, `NoUnseenContentOverwritten`, `NothingLeaks` |
| `RenameBatch` | batch rename, receipts, status | `CarriedOutOnce`, `OnlyAsApproved` |
| `LoginSessions` | login, logout, expiry | `SessionsEnd` |
| `UserPreferences` | Get, Upsert | `PreferencesAreRegister` (refines `PreferenceRegister`) |
| `UserAvatar` | avatar upload, profile update | `AvatarBacked` |
| `StorageRegistry` | five edits, watcher, reload | `RegistrySound` |
| `StorageRouting` | Get, ProviderConfigByAlias, Resolve and their callers | `FoundWhereWritten` |
| `BrowserBookmarks` | create, move, delete, import | `BookmarksShown` |
| `Tagging` | tag CRUD, tag delta, metadata update, warm-up | `TagsUnique`, `MetaAgrees`, `DeltaBindsBindable` |
| `UploadClient` | `of upload file` | `ToldTheTruth` |
| `SiblingOrder` | `sort_order`, renumbering, sort by name | `MovesPlaceAsAsked`, `SortsByName`, `NamesInNaturalOrder` |
| `FileMappings` | create, update, delete | `MappingsUnique` |
| `ResourceReport` | breakdown and dashboard | `ReportAddsUp` |
| `Listings` | Scroll, BrowseNodeMetadata, ListArchiveCards | `ListedOnce` |
| `HttpApi`, `CliCommands`, `CommandLine` | routes, handlers, commands, session file | `AnswersTrue`, `SessionFileWhole` |

**Node tree.** `node` is the table, `call` what a request has read, `pend` what its
transaction has written. A mutation reads (`...Begin`, `...Check`) and writes later
(`...Write`), so that every other request may come in between; transactions that write
more than once (a create that first repairs the tree, the clear of the recycle bin)
keep their writes in `pend` and others wait for the rows. `HardDeleteTree` finds a node in
the recycle bin, lists what is below it and deletes, in three statements that hold no
row before the last: `PurgeBegin`, `PurgeList`, `PurgeWrite`, and for each topmost node
of a clear `ClearFind`, `PurgeList`, `ClearWrite`. Advisory locks are taken
where `lockMoveScope` (`MoveScope`) and `LockSiblingNameScope` take them, and the unique
index on visible names decides at the write. The run starts from a chain of three directories,
the same chain in the recycle bin, an older root in the recycle bin beside a live one,
and an empty table; two clients and three calls suffice to delete, restore and purge the same subtree while something else runs.
A batch of moves is one transaction per node in the model, a rename inside a move is
checked but not written, as in the code.

**File content and copy.** Requests replace the content of a file with or without an
expected content or copy it, and a migration moves it to another provider. Every
upload and deletion may fail with or without effect, the commit may be unknown and the
server may die anywhere; `CopyUndo` and `ReplaceCleanup` are the deferred clean-ups. Two
files (one of them migrating), two requests and two providers contain every pair of
operations on one file and a copy of one file over another.

**Batch rename.** The client approves a batch on a listing (`Approve`), sends it more
than once, also as a dry run, and other requests rename the files meanwhile (`Touch`).
Two files with three names allow a swap and a cycle through a free name; two operation
ids allow a mix-up of receipts.

**Login sessions.** `hash` is the Redis hash of a user and `expiring` says whether the
key has a time-to-live: Redis loses it with the last field, which is what makes the
sequences of commands hard. Login is HGETALL, HSET, EXPIRE; logout is HDEL, HLEN, then DEL or
EXPIRE. Three tokens and two requests contain a logout of the last token against a
login.

**Preferences, avatar, mappings, bookmarks.** `UserPreferences` implements
`PreferenceRegister`: a device changes the preferences only if it has seen the version
it replaces, with unique-index conflicts, conditional updates, dry runs and lost
answers. `UserAvatar` is upload, UpdateByID, deletion of the old object, with a lost
answer and the profile update that writes the same column. `FileMappings` checks and
writes without a lock, and the index decides. `BrowserBookmarks` checks the target of a
move by walking up (`WalkEnds`, `WalkMeets`) and writes later.

**Storage registry.** `conf` and `store` are the table and its stores, `disk` the file,
`armed` the debounce timer of the watcher. An edit copies the table (`EditBegin`),
truncates and writes the file, and builds and swaps (`EditBuild`, `Swap`); the watcher
does the same from the file and may read it torn. Two aliases, three connections (one
of a type the factory refuses) and two edits allow a removal against an update.

**Storage routing.** `inForce` says what each alias connects to, `placing` follows one
file: a rule is picked (`Route`) and its provider looked up in a second step
(`RouteGet`, as in `Resolve`); an upload session or a migration records the name as it was
asked for and looks it up again at each use (`SessionAsks`, `SessionPut`,
`SessionComplete`); a first content looks a name up twice, once for the store and once
for the alias to record (`ContentAsks`, `ContentFirst`). Any valid table may come into
force between two steps (`Reloaded`, one step because of `RegistrySound`). Three aliases,
of which two are spellings of the type of all providers and the third is not, two more
names and two places contain every way a name can lead to a provider.

**Tagging.** One node, two tags with two names and one target key, two requests at a time: a
tag is created or changed under its advisory locks, deleted, disabled; a delta locks
the node's row and the tags (FOR SHARE); a metadata update writes the same two places;
a warm-up of archives writes back metadata it read before.

**Upload command.** The two goroutines of `runUploadFile`: the main one sends init, URLs
and parts in batches, complete, and on an outcome it cannot know the status query;
the signal goroutine cancels the context and aborts; `sync.Once` lets one of them
send the abort and the other wait. The server is `UploadOutcome`, whose actions take
effect when a request is handled, before, after or without an answer. Three parts in
batches of two give a full batch and a rest.

**Order of siblings.** The numbers are scaled down (steps of 8 and 3 for 1024 and 15,
the limit 65 for the 32-bit maximum), which keeps what the code compares: the smallest
gap, the order of the steps, the limit at which a directory is renumbered before a node
is appended, and the wrap of a 32-bit number (`Wrapped`), which a creation does not check
for. The run starts with small numbers and with numbers that are nearly used up.

A move is one transaction of many statements, and so is a name sort; `job` holds what each
has read, what it is to write (`plan`, `todo`) and what it has written without committing
(`done`), so that sorts, creations, deletions, restores and moves to other directories
come in between. A move in front of a node reads that node (`TargetRead`) and the largest
number below its own (`LeftRead`); when the gap is used up it lists the directory
(`ListSiblings`), writes it row by row (`RowWrite`) and reads both again. A move to the end
reads the largest number (`MaxOrderRead`). The node is written last (`NodeWrite`). A name
sort lists the directory and plans the numbers (`SortStarts`), then writes row by row. A
statement sees what is committed and what its own transaction wrote (`SeenBy`), and waits
for a row another one has written (`HeldByOther`). `lockMoveScope` excludes other moves into
or within the directory (`MoveUnderWay`), and nothing else; a move away holds the lock of
the directory it read the node in, which need not be this one any more, and is not
excluded. `Shift`, the last resort of `resolveMoveSortOrder`, is one statement that waits for
all rows it will write before it writes any. A deadlock of row locks ends with one of the
transactions rolled back (`RollBack`).

`MovesPlaceAsAsked` compares what is committed before and after a move: the siblings that
were here from its first statement to its last and were written by no sort in between
keep their order, and the node is in front of the one named, or last, among them (`known`
in `job`; a node that is written by a sort, deleted or moved away leaves it). Of the
others it says nothing, because the code gives them no place: a sort between two reads of a move, or a
restore with an old number, does leave the node elsewhere. `SortsByName` says that a sort
leaves what it listed, and what is still there, in the order of the names, whatever ran
meanwhile. That it can rests on `naturalCompare` being an order, which `NamesInNaturalOrder`
says of a set of names. `unicode.IsDigit` accepts the digits of every script and the
comparison takes their runs by length first, while other characters are compared by code
point; so "99" comes before "a", "a" before an Arabic-Indic 0, and that before "99". Both
properties therefore ask that no character of the names lies between two of their digits
(`DigitsTogether`), and for other names a sort is any arrangement (`SortPlans`). A character is
its code point less that of 0; `DigitChars` and `LowerOf` are constants for
`unicode.IsDigit` and `unicode.ToLower`, of which only what `CharactersAssumption` says is
used: digits are their own lower case and that of nothing else. The run has
the ten ASCII digits, one Arabic-Indic digit, letters and their capitals.

Four nodes, two transactions and two operations contain a sort or a restore within a
move, two moves of which one waits, a renumbering that others interrupt, and a creation
over the end of the numbers; a fifth node only lengthens the renumbering. A batch of
moves is a sequence of single moves, which commit one by one in the model; names do not
change while a sort runs; spaces around names and the case of extensions are left out.

**Reports.** A tree of two directories, two files and two objects, over every
assignment of types, parents, states and objects, so that two files may share an
object in different collections and an object may have no file. `ReadLibraries` is the
first statement, `ReadCategories` or `ReadMatrix` the second; one change may come before,
between or after them, also one that makes a loop of directories, which the walk up
cuts off (64 in the code, 3 here; more than the directories there are). Rows of
`node_files` go with their node.

**Listings.** A client follows a listing from its start to its end: libraries and nodes
after the last id (`After`), archive cards at an offset (`Cards`, `Slice`), while a row
is made, removed, changed or sorted. Metadata pages carry a cursor that names its
query, and a client may change its filter on the way. A page of nodes may contain one
that was deleted while the page was put together (`QueryMetadata` reads further
statements); its length is that of the first statement. Three rows and pages of two
give a full page and a rest.

**Calls.** `HttpApi` has every route with its handler, and for each handler which parts of
the request it takes in which order (each may refuse it), whether it reads the flag of
a dry run and marks the reply, and what its use case does: it reads, changes what a dry
run rolls back, or changes it in any case, maybe finding nothing to do. From this
`Requested` gives the replies a request may get. `CliCommands` has the methods of the
client, the requests each command sends one after the other, and the tree of words that
leads to a command. So the four layers that a flag passes (tree, client, handler, use
case) are described separately, as in the code, and `AnswersTrue` compares the first
with the last: a command or a request of another client, with or without the flag,
against what has changed when the reply comes. A change is a statement that writes a row,
an object or a file, if only the values it had. Whether a use case without the flag
always writes when it succeeds is an entry of the table: a replayed batch rename
(node_rename_batch.go:118-131) and an update of a node or a user without an effective
field (node.go:568, user.go:294) succeed without, and so do deletes whose DELETE or UPDATE
finds no row left. `CommandLine` runs the commands as
processes: each reads the session file or the environment (`Start`), sends request after
request (`Serve`, `Heard`), and a login or a logout at last replaces the session file
(`SaveBegin`, `SaveWrite`, `SaveRename`, which follow an open file through the rename of
another process); `Stop` is a kill, a lost request or reply, or a failed write, at any
point. Two processes with one command each, with a user who has logged in before or
not, contain every pair of a login, a logout and any other command. A path has no or one
segment, since the walk makes the same request for each. Logins and logouts on the
server are single steps here and several in `LoginSessions`; of two commands that run at
the same time one logs in or out (`Overlap`), as others share nothing; the work of a use case is
one step here and the subject of its own module. The upload command is in `UploadClient`.

### Bounds

Requests, providers, operations, tag names and preferences are the same few
model values in all components, which lets one symmetry group serve all of them.
Two requests at a time are enough for every race between a check and a write; the
numbers of calls (`MaxCalls`, `MaxTagCalls`, `MaxMarkCalls`, `MaxMappingCalls`,
`MaxOrderSteps`, `MaxSessions`, `MaxEdits`, `MaxTouches`, `MaxReportSteps`, `MaxListSteps`) leave room for
a set-up, the race, and a step that meets its result. The run visits more
than half a million states. The theorems hold for every value of these constants.

### Proofs

For each component an invariant is proved that implies its property and is kept by
every step. The property alone never is: what a request read or checked in one step
must still hold when it writes in a later one, so the invariant says of each step what
its request relies on.

`StorageProofs`:

- *Files* (`ContentInv`). An object key is known for one node only (`KeysOwned`) and
  belongs to its request until that commits (`KeysFresh`); a replacement that holds the
  node's row has read what the node is bound to, unless a migration has moved it since
  (`LockHolds`); whoever deletes an object has unbound it before (`KeysRetired`); what is to
  be bound is in its store (`ObjectsReady`); and each object in a store is bound or in the
  hands of somebody who will bind or delete it (`ObjectsMinded`), which is `NothingLeaks`.
- *Avatars* (`AvatarInv`): nobody has seen the key of an upload before its row was written,
  the object it is about to bind is in the store, and the one it deletes was replaced.
- *Routing* (`RoutingInv`): a rule that was just picked names a provider there is, and what
  was looked up leads there until the next reload (`PlacingGrounded`). An alias comes first
  in a lookup, and a name leads to one provider at most.
- *Registry* (`RegistryInv`): every store in force was built from the configuration it
  belongs to, also those in a table that is still being built, and two edits have not crossed
  in the file unless `crossed` says so.

`RequestProofs`:

- *Batches* (`BatchInv`): of the requests with one operation id one is past its lock, and
  the rows it holds are as it checked them; versions count updates (`VersionsBounded`).
- *Logins* (`AuthInv`): a token is made by one login, and a hash with tokens expires or is
  about to be told to.
- *Preferences*: `PrefSpec` implies `PreferencesAreRegister`, step by step with the mapping of
  the run; `PrefInv` says which write follows which version.
- *Tags* (`TaggingInv`): two saves under way never hold the same name or target, and what
  the holder of the node's lock has checked still holds.
- *Mappings* (`MappingInv`), and the *upload command* (`UploadInv`): what came back from the
  server is so, and what was reported follows from it.
- *Command line* (`CliInv`, `CliTypes`): while no two processes save at once, the one that
  saves has the temporary file for itself. Tokens that are saved are tokens that were made.
- *Answers* (`AnswersTrue`): first the tables. Handlers that read the flag of a dry run
  have a use case that simulates (`FlagObeyed`), and those that change something in any
  case are listed with their routes (`Committers`, `CommitPaths`). So whatever is asked, a
  reply that is marked comes from a request that did nothing, and a success of a use case
  that cannot succeed without writing has written (`ReplyTrue`, `CallTrue`). Each command of the tree is a sequence
  of such requests, and one with the flag that is not in `DryRunGaps` sends none that can
  do anything (`LineSound`, `LinesSound`). Nothing about the tables is assumed. Then the
  processes (`AnswerInv`): what is left to be sent is the end of what the line asks for
  (`LeftOver`), and what has changed so far is what the replies said.

`NodeTreeProofs`. That live nodes form a tree is a statement about paths, which are data
of any length; it is proved in the form `NoRing`: of any nonempty set of live rows there
is one whose parent is not in the set. The recursive queries of the code (subtree, path
to the root) are the least sets closed under children or parents (`LevelsLeast`,
`LevelsClosed`), and what would be an induction on their levels is a smallest
counterexample (`WFMin` of the library). `WholeInv` says what each call relies on:
a move that was checked knows a set of live rows that leads up to the root from its
target and does not contain what is moved (`MoveSound`); a delete has listed all that is
below what it deletes (`DeleteSound`), a restore comes back under live rows (`RestoreSound`),
a create or a repair has a root that is live, and two moves that have made their checks
hold no lock in common (`MovesApart`). A purge and a clear rely on nothing: what they delete
is in the recycle bin, no live node is below such a row, and without a restore beside
them none comes to be. A step of one call keeps what the others rely on, unless the two kinds of
calls endanger each other (`Endangers`). `TreeInv` does without an assumption about the
initial table: rows are written by one transaction at a time, so what a purge has listed
stays in the recycle bin until then (`LiveNeverPurged`), and a repair that runs alone has
listed all that is broken (`RepairHeals`). `MarkInv` is the same for bookmarks.

`ListingProofs`:

- *Order of siblings* (`OrderInv`): one move is under way at a time, and its `known` are rows
  of the directory that no sort has written, so what its transaction sees of them (`SeenBy`) differs
  from what is committed only by its own renumbering. A renumbering that is partly written
  has written the first rows of its list; when it is done, the known ones are in the order
  they had, a step apart. At the write, the number read for the node lies behind every
  known one before the target and in front of the target, or behind all. The commit then
  does what `MovesPlaceAsAsked` says (`MovesArePlaced`); a sort's plan is fixed when it
  starts and is what stands when it commits (`SortIsByName`).
- *Order of names* (`NaturalOrderOfNames`): the recursion of `CompareFrom` looks only at later
  positions, so it has a solution (`ComparedFrom`), and both positions are always the same,
  since runs of digits that compare as equal are equally long. At a position two names have
  a run of digits or a character each; runs are ordered by `KeyBefore` (number of
  significant digits, first digit that differs, length), and tokens by that or by code
  point, which is an order because no character lies between the digits (`DigitsTogether`)
  (`TokensTransitive`). What would be an induction from the end of the names is a largest
  counterexample (`NoLastPosition`). With it, `NameBefore` is a strict total order of the
  nodes and the sort lists them by it (`SortIsByName`).
- *Listings* (`ListInv`): with keys, what a client has got is what there is up to the last
  one it got (`GotUpTo`), and a page in hand is what follows (`PageHeld`); for cards, the
  pages got are the first cards as long as nothing listed has changed (`CardsInv`). Rows in
  order are enumerations of finite sets, and a page is the next part of one.
- *Reports* (`ReportInv`): the sums of the code are folds. A fold over a set is shown to be
  the one solution of its recursion, and so equal to the number of units of its members
  (`Amount`); then sums of parts are cardinalities of disjoint unions.

`ServicesProofs`: `ServicesSpec` implies the specification of each component, and with it
all that is proved of them: every invariant of the run, the types (`ServicesTyped`)
included, and every action property.

Assumptions, evaluated by TLC in the run: the numbers that bound a model are naturals;
null values and built-in names are no values of a user (`AvatarBuiltin`,
`PreferenceNoValue`, `TagNoTarget`, `ContentMakers`); sets over which the code counts or
sums are finite (`BatchBounds`, `ReportBounds`, `RoutingAliases`); there are at least as many
names as files in a batch (`BatchNames`); a directory has few enough nodes to be renumbered below the limit
(`OrderStepsAssumption`: about two million with the numbers of the code); a digit is its own lower case
and that of nothing else (`CharactersAssumption`); no collection
is called UNCLASSIFIED, since the SQL gives every unknown type another name
(breakdown_sql.go:222-229); the libraries of the run are whole at the start
(`TreesWholeAtStart`); and the names of nodes are sequences of characters
(`SiblingNamesAssumption`).

### Violated runs

`tree_moves` (violated) starts `NodeTree` from two branches and lets two moves overlap:
finding 5. `calls_dry_run` (violated) runs `CommandLine` alone with two processes:
finding 6.

## 6. Findings

1. `upload_reclaim`: a failed `AbortMultipartUpload` does not keep the row, so the
   parts of a multipart upload are orphaned, against
   `docs/architecture/upload-direct-design.md:63`, `:87` and `:89`.
2. `upload_retry`: a retry that joins its own claim goes ahead without the minimum
   lease of `upload-direct-design.md:68`. Safety does not depend on it: the commit
   looks at the claim again.
3. `migration_binding`: `processItem` takes every error of the swap transaction for a
   rollback (migration.go:389) and deletes the copy. If the COMMIT took effect and its
   answer was lost, the files are bound to that copy, against
   `storage-migration-design.md:39` and `:109`. The source object is still in its
   store then, under a soft-deleted row.
4. `migration_terminal`: `UpdateTaskStatus` overwrites final states, against
   `storage-migration-design.md:28` and `:73`; completed becomes canceled, and a task
   canceled while its last item runs becomes completed or failed.
5. `tree_moves`: two moves whose four parents differ lock nothing in common
   (node_write.go:770); each passes the check "cannot move node under descendant" and
   together they make a cycle that no listing reaches.
6. `calls_dry_run`: `fs archive batch-set-built-in-type --dry-run` ("preview only, do not
   commit changes", command_fs.go:697) is carried out, because the handler
   (node_mutation.go:166) never reads the flag, against
   `docs/progress/cli-dry-run-master-plan.md:36`, `:38` and `:80`. The other command with
   this gap is one that resolves a path: asking for the root of a library creates or
   repairs it, also on the way to a dry run. `AnswersTrue` names these two requests
   (`DryRunGaps`) and holds for all others.

Seen while modelling, and not checked by a run of their own:

- Migration: the task status `running` of `storage-migration-design.md:32` is never
  written; items skipped by Cancel are not counted in `skipped_objects`; an item whose
  task cannot be read is neither counted nor aggregated; two tasks that list one object
  make two copies, of which one is used by nobody (`NoStrayCopy` says that this is the
  only way). A swap between the read and the update of a content replacement loses the
  new content, although the call succeeds.
- Content: two first replacements of one file that are routed to different providers
  leave the first one's object behind (directory.go:326-328).
- Tree: a create, move, restore or repair that overlaps the delete of its parent leaves
  a live node in a deleted directory until the library's next repair. Two repairs with
  different roots, after an older root was restored, put each root below the other, and no
  later repair undoes it; a move of a root against a repair can do the same. A purge or a
  clear that has listed a node which is then restored, gets a child and is deleted again
  with it, may purge the node after a second restore has listed both, which leaves the
  child live under a purged node. `Endangers` names the pairs of mutations that can do
  this, some of them wider than the race: any overlap of a purge, a clear or a delete with a
  restore, of moves without a common lock, of repairs with different roots, of a repair with
  a move of its root, and of a delete with what puts a node into a directory it has
  listed. By the theorem `TreeIsWhole` the tree stays whole as long as no such pair has
  overlapped. The policy
  `replace` is accepted and treated like `auto_rename` (node_name_conflict.go:48-66).
- Batch rename: `mapRenameBatchError` (237-245) reports conflicts of the operation id
  or of the approved snapshot as "name already exists".
- Order: a node moved in front of itself goes to the end of its directory
  (node.go:833-836), which `docs/progress/go-api-contract-status.md:158` calls a no-op
  ("beforeNode 自指 no-op"). Deletions, creations and restores leave equal numbers; a move in front of a
  node then lands in front of all that share its number. A name sort between the reads and the
  write of a move leaves the moved node at its old neighbours' numbers, among nodes that
  have new ones. A creation adds 15 without
  looking at the limit, so that near 2^31 a new node gets a negative number and is listed
  first. `naturalCompare` takes digits of every script for digits and compares their
  runs by length first, so that names of several scripts compare in a circle: "99" before
  "a", "a" before U+0660 (an Arabic-Indic 0), and U+0660 before "99" (node_sort.go:94-125).
- Login: a logout's DEL can remove the token of a login that came after its HLEN; a
  repeated HSET can bring back a token that was logged out; a repeated HDEL answers
  Unauthorized; a change of the password ends no session.
- Users: registration looks for the name and inserts without a transaction or unique
  index; a lost answer of UpdateByID makes the upload delete the object the row names
  (user.go:481-484), and overlapping avatar uploads leave objects behind.
- Bookmarks: two moves can make a loop, and `ensureMoveTarget` (510-518) then never
  ends for a target below it.
- Tags: the warm-up writes back stale `view_meta` (node_archive_warmup.go:235); the
  metadata update checks tags without the share lock of the delta.
- Registry: `providerConfigEqual` ignores the public endpoint (registry.go:321-329), so a
  store keeps the old one; the file is saved before the reload accepts it
  (storage_config.go:393-409); of two edits at once one is lost; a file replaced by
  rename is no longer watched (watcher.go:26).
- Routing: an upload session or a migration that names a type or another spelling
  records it as it is (upload_session.go:525, migration.go:88), although
  `docs/progress/go-api-contract-status.md:141` says that the alias is persisted; a
  provider added later under that name, or as the second of that type, then takes the
  file away. A reload between the two lookups of a first content (directory.go:262 and
  :272) records another provider than the one written to.
- Calls: two logins at once share `cli.json.tmp` (config.go:80) and may leave a mixed or
  empty file or fail with the file renamed away; a logout may overwrite the session that
  a login has just saved (command_auth.go:173). `PATCH /nodes` answers success and does
  nothing (node_mutation.go).
- Command line: an init whose answer is lost leaves a session that only the janitor
  ends; a signal during init is heard after it; "uncertain" may end the process while
  an abort is on its way.
- Reports: a change between the two statements makes the parts disagree; breakdown and
  dashboard may put a shared object into different collections, since the latter also
  prefers a known kind of file.
- Listings: cards may repeat or be missed when cards of earlier pages, or anything
  between count and page, changes.

## 7. What is proved, only checked, not modelled

| | Proved for every size (TLAPS) | Checked on small instances only (TLC) |
|---|---|---|
| Uploads | types, all safety properties, both action properties that hold, the refinement | `CleanupCompletes`, `AbandonedReclaimed`, `ReceiptsExpire` |
| Migration | types, all safety properties, `CancelStops` | `TasksEnd` |
| The other services | types, all safety properties and action properties, the refinement of the preferences | |

The inductive invariants `IInv` were checked with TLC on the instances of the runs
before they were proved; they are no property of a run any more. Liveness under
fairness is out of the prover's reach. The properties of the six violated runs are false, so there is nothing to
prove about them.

Not modelled, with the reasons in `PROJECT.json`: the object store adapter (thin calls,
modelled at its callers), wiring, configuration, the reset tool, and generated code.
Partly modelled components name what is left out. Throughout, authorization, audit,
logging, wording, byte counts and content types are left out unless a property is about
them.

About 8500 of the repository's lines are generated query and model code. Of the rest,
what is not mapped mostly converts rows, checks single fields, prints tables or
assembles SELECTs whose result no later step depends on. What is left that changes
state and is in no model but as a step of `CommandLine`: registration and password
changes (single checks and updates; the missing unique index is noted above), libraries
(single row operations) and the updates of single fields of a node or a bookmark.
