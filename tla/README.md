# A TLA+ model of NookDB

NookDB is an embedded document database: a Rust core on top of the redb
key-value store, a Node binding (napi), a TypeScript API with reactive queries,
an Electron bridge and a React hook. These modules model the parts of it whose
correctness depends on order and interleaving, check them on small instances
with TLC, and prove the main safety properties for every value of the constants
with TLAPS. Paths below are relative to `src/`; `core` is
`crates/nookdb-core/src`, `napi` is `crates/nookdb-napi/src`, `ts` is
`packages/nookdb/src`.

## 1. The system

| Component | State | Operations | What is hard | What makes it correct |
|---|---|---|---|---|
| Document store (`core/storage.rs`, `core/index/engine.rs`) | redb tables `entries` and `index_entries` | put, delete, index entry put/delete, equality lookup, unique check, raw put and clear for restore | rows and entries are kept in step by hand; an overwrite leaves the old entries; restore writes no entries | every document has its entries; unique values are unique |
| Collections (`core/collection.rs`) | none | find (id, index, scan), find_one, count, insert, delete, and insert and delete inside an open transaction | the index path is two read transactions; delete reads its victims before, or outside, its write transaction | a fast path loses nothing a scan finds; races leave the index covering |
| Database (`core/database.rs`) | the redb file, the notifier | read, write (commit, rollback), add_observer | one writer, readers on snapshots; change-set collected by hand | the change-set names all that changed; a failed closure leaves nothing |
| Notifier (`core/notify.rs`) | weak references to observers | add, dispatch, remove on drop | dispatch on the committing thread after the lock is released: dispatches overtake each other | every observer registered sees each commit once |
| Reactive engine (`core/live.rs`) | subscriptions with dirty flags, wake flag and condition variable, shutdown flag, a worker thread | register, cancel, on_commit, worker loop, Drop | lost wakeups, a commit during a recompute, cancellation and closing while the worker runs, join in Drop | final states are not lost, snapshots never go back, Drop ends |
| Backup (`core/backup.rs`, `ts/backup.ts`) | a file with header, entries and checksum, and its temporary file | write to the temporary file, sync and rename; restore into an empty or overwritten database | crash or I/O error between steps, a file damaged from outside, two backups to one path | the file is one whole backup or absent; a restore brings back a whole one or nothing |
| Migrations (`core/migrate.rs`) | a ledger of applied versions, an entry of the database | list, run | runners side by side, crashes, restores | no recorded version is forgotten |
| Keys (`core/codec`, `core/index/engine.rs`) | none | composite keys of rows and index entries, bounds of ranges | prefixes: nothing is length-prefixed | a scan reads one collection, a lookup one value |
| Schema (`core/schema`) | the compiled schema | compile, hash, validate a document | the hash is fed the parts one after the other | a document that validates has its indexed values; different schemas hash differently |
| Query options (`core/query.rs`) | none | sort, offset, limit, count | ties, missing values, numbers of two kinds | a total order; pages partition the result |
| Node binding (`napi/database.rs`, `napi/live.rs`) | handle, table of buffered transactions, table of live sinks | open, typed operations, begin/buffer/commit/rollback, live, live_cancel, close, backup, restore | calls in flight at close; each call on its own pool thread | nothing starts after close, tables do not leak |
| TypeScript database (`ts/database.ts`, `ts/collection.ts`) | flags of the open transaction | transaction, update loop, collections in a transaction | reads in a transaction see the committed store | all of a transaction or nothing |
| TypeScript live query (`ts/live.ts`) | latest value, subscribers, iterators, flags | subscribe, async iteration, dispose, emissions, failure | registration resolves after emissions or dispose | one subscription cancelled once, latest value kept |
| Electron bridge (`packages/electron/src`) | pending calls and sinks in the renderer; greeting, subscriptions and live queries per port in the host | connect, query, subscribe, cancel, disconnect, drain, close | handlers that await while the port or the host goes away; answers out of order | answers say what happened, both ends keep the same queries, calls settle, nothing is kept for a dead port |
| Errors, licence check, React hook, CLI, loader, docs, benchmarks | - | - | - | not modelled |

How they interact. A TypeScript call crosses the binding and runs on a blocking
pool thread, where it opens redb transactions through `Database`. Readers work
on the snapshot of the moment they begin; redb admits one writer. After a commit
`Database::write` hands the change-set to the notifier on the same thread; the
reactive engine's observer marks the touched subscriptions and wakes the worker,
which runs the query like any reader and passes the result through a
thread-safe function to the JavaScript loop, where `LiveQuery` stores it and
calls its subscribers. In Electron the host holds the `LiveQuery` and forwards
each snapshot over a message port to a `LiveQuery` in the renderer. A backup
reads like any reader and writes beside the database; a restore is one write
transaction.

## 2. Modules

| Module | Models | Extends |
|---|---|---|
| `DocStore` | pure operators on one collection's store: filters, candidates, fetch, put, delete, restore | - |
| `Collection` | callers of the binding interleaving at database transactions; transactions, update loop, backup, restore | `DocStore` |
| `UniqueStore` | abstract: write transactions on documents, without an index | `DocStore` |
| `MCCollection` | values for TLC | `Collection` |
| `CollectionProofs` | lemmas on `DocStore`, type correctness, inductive invariant, safety theorems, refinement of `UniqueStore` | `Collection`, `TLAPS` |
| `Live` | committing threads, register, cancel, worker, Drop | - |
| `LiveFeed` | abstract: what the consumer of a live query is given, without marks, worker or wake flag | - |
| `MCLive` | values for TLC | `Live` |
| `LiveProofs` | type correctness, inductive invariant, safety theorems, refinement of `LiveFeed` | `Live`, `TLAPS` |
| `LiveQuery` | the consumer's handle: event loop callbacks, listeners, iterators | - |
| `MCLiveQuery` | values for TLC | `LiveQuery` |
| `LiveQueryProofs` | type correctness, inductive invariant, safety theorems | `LiveQuery`, `TLAPS` |
| `Handle` | an open database: calls in flight, tables of transactions and subscriptions, close | - |
| `MCHandle` | values for TLC | `Handle` |
| `HandleProofs` | type correctness, inductive invariant, safety theorems | `Handle`, `TLAPS` |
| `Backup` | backup files, restores and the migration ledger over a disk that crashes | - |
| `MCBackup` | values for TLC | `Backup` |
| `BackupProofs` | type correctness, inductive invariant, safety theorems | `Backup`, `TLAPS` |
| `Keyspace` | pure operators: keys of the two tables as bytes, their order and ranges | - |
| `KeyspaceProofs` | what the ranges contain, for all byte strings | `Keyspace`, `TLAPS` |
| `DocSchema` | pure operators: compiling a schema, its hash, validating documents | `Keyspace` |
| `QueryOptions` | pure operators: sort, offset, limit | `DocSchema` |
| `TypedStore` | several collections of one schema in the two tables, with the ledger | `QueryOptions` |
| `MCTypedStore` | values for TLC | `TypedStore` |
| `TypedStoreProofs` | inductive invariant, scans, lookups, sorts and pages, the hash read back | `TypedStore`, `KeyspaceProofs` |
| `Bridge` | the Electron bridge over one port: renderer, port, host | - |
| `MCBridge` | values for TLC | `Bridge` |
| `BridgeProofs` | type correctness, inductive invariant, safety theorems | `Bridge`, `TLAPS` |

### DocStore and Collection

A store is a record: `docs` is the `entries` table (a document, or `NoDoc`, for
each id), `idx` the `index_entries` table as triples (field, value, id), `raw`
a history component, the ids whose row was last written by a restore. A document
is a function from fields to opaque values. The bytes of a key are abstracted to
the triple they encode.

`Collection` gives each caller a place (`pc`) and splits its call where the code
splits it into database transactions: `LookupIndex` and `FetchRows` are the two
reads of `Collection::candidates`, `ReadOnce` the id path and the scan,
`BeginWrite` to `Commit` or `Abort` is `Database::write` with the operations of
the closure as steps of their own on the private store `work`. `Deliver` says
what becomes of a result: returned, deleted, or rewritten by an update.
`OpenTransaction`, `TxInsert`, `TxDelete`, `TxUpdate`, `MergeOne`,
`CommitTransaction` and `ThrowInCallback` are `db.transaction(cb)` with its
buffer; its reads and the victims of its deletes come from the committed store.
A conflicting insert leaves only `Abort` enabled; `Abort` also stands for every
other failure of the closure. `Backup` and `Restore` copy all rows; a restore is
one write transaction without index entries and without a change-set.

`UniqueStore` is what callers may rely on: a write transaction runs its
operations one by one on a draft of the documents and commits it whole or not at
all; an insert that succeeds met no document with its unique value; a buffered
delete removes what matched in the committed documents. It knows no index, no
candidates and no read transactions. `Collection!Store` instantiates it on the
documents of `db` and `work`, with the operations the lock's holder has still to
run as its script; restored documents are the exception the code makes.

Abstracted: validation (a failure like any other), sort/offset/limit (a find
reads what it reads before it shapes it), several collections (their rows and
entries have disjoint keys, which `TypedStore` checks), documents' bytes.

### Live

One step per critical section. `Commit` makes the new version of the touched
collections visible; `Dispatch` collects the observers; `Mark` is `on_commit`
under the lock of the table; `SetWake` and `Notify` are the two halves of
`wake_worker`. The worker's places follow `worker_loop` line by line:
`CheckWake` (sleep or consume the flag), `CheckShutdown`, `Drain`, `TakeItem`,
`CheckCancelled`, `RecomputeLookup`, `RecomputeFetch`, `CheckSink`, `Deliver`,
`Reap`. `StartRegister` to `Insert` is `register`; `BeginDrop` to `DropJoin` is
`Drop`, which begins only when no call holds the engine. `CloseSink` is
`mark_closed`.

A collection's contents are a version number, the number of commits that touched
it. A snapshot is the pair of versions its two reads saw, because a recompute
uses the two-transaction index path; `Collection` says what such a pair may
contain.

`LiveFeed` is the engine as its consumers see it: they ask, get a first snapshot
with everything that was committed before they asked, then newer ones, and leave,
after which one more may come that was being computed. `Phase` maps the tables and
the worker's place to how far a subscription is; `since` holds the version at the
call of `live` until the insertion. Two snapshots that are equal are one to the
feed, and it does not say when they come: `StaleIsPending` and `CommitsAreSeen` do.

### LiveQuery

JavaScript runs one callback at a time, but a callback calls the consumer's
functions, and those may call the query again. So a callback of `ts/live.ts`
that tells the listeners is several steps: `Resolve`, `Reject` or `Receive`
begins a delivery, `Tell` calls one listener, `EndDelivery` serves the iterators
and, after an error, disposes; between the calls the consumer's own actions
(`Subscribe`, `Unsubscribe`, `CallDispose`, `Iterate`, `NextSnapshot`, `Return`)
are enabled, and `Throw` is an exception of the listener called last. `Idle`
says that no delivery is running. The engine is `Register` and `Emit`; the queue
`mail` of the thread-safe function and the promise `registration` are
independent of each other, as they are in the event loop.

A snapshot is the version the engine computed. From `Live` comes what `Emit`
assumes: the initial snapshot is taken before the subscription is inserted, and
emissions do not go back; after a cancellation at most one emission is still under
way (`Live!ImplementsFeed`). Listeners are called in any order, a superset
of the insertion order of a JavaScript `Set`. `heard`, `used` and `cut` are
history.

### Handle

JavaScript's thread runs `Transaction`, `CallbackReturns`, `CallbackThrows`,
`Settle`, `Close` and `LiveCancel`, and makes the calls (`CallUse`, `CallLive`,
`CallOp`). Every other method of `JsDatabase` is an `async fn`, a task of a
multi-threaded runtime, and is split where it takes and leaves a lock:
`GrantBegin` and `InsertState` are `begin_write_txn`, `Push` or `RefuseOp` is
`tx_insert` and `tx_delete_many`, `TakeState` and `Replay` are
`commit_write_txn`, `DiscardState` is `rollback_write_txn`; `AcquireEngine`,
`Register` and `Enter` are `live`; `CheckHandle` is what `tx_find` does before
it calls `find`; `Acquire` and `Finish` stand for all operations that clone the
database and work on the blocking pool.

The reference counts are predicates: `EngineHeld` and `DatabaseHeld` name who
has a clone, and `DropEngine` and `ReleaseFile` are the drop of the last one.
`txStates` is the table itself, from handles, which are numbers, to sequences of
operations. An operation may be called without being awaited, and through the
proxy of a transaction that is over. `after` (what had been acknowledged when an
operation was called) and `late` (the `live` calls that close cut across) are
history. A call that has ended is not told apart by its outcome, except for
transactions. `close` may be called again (`ts/database.ts:256` has no guard):
`CloseOpen` and `CloseClosed` are its two branches. The second removes what is
left in the registry, entries of late registrations, without closing a sink;
`forgotten`, history too, remembers whose.

### Backup

A file is a sequence of frames: header with the schema's hash, entries,
sentinel, checksum. CRC32 is taken to tell apart any two contents, so a checksum
is the sequence it covers. `dir` says which inode `<path>` and `<path>.tmp`
name, `pastDirs` which directories a crash may bring back, `synced` which
contents would survive it. `CreateTmp`, `ListEntries`, `WriteFrame`, `Sync` and
`Rename` are the steps of `backup_to_path`, and `FailBackup` is an I/O error at
any of them: the temporary file stays, and the next `CreateTmp` empties it.
`ReadBackup` reads and checks a whole file, `ApplyBackup` is the write
transaction of the restore. `Commit` and `Migrate` are users of the database;
the ledger is one of its entries, so a restore brings back the one that was
backed up. `FlushDirectory`, `Damage` and `Crash` are the disk's. Transactions
of redb are taken to be atomic and durable. `origin` (what a file was written
from) and `damaged` are history.

### Keyspace, DocSchema, QueryOptions, TypedStore

`DocStore` takes for granted that keys stand for triples and that a filter finds
what it says. These modules say why, one call at a time. `Keyspace` has keys as
byte strings, `Before` as the order of redb, and the bounds the code computes
for a collection and for an index value. `DocSchema` compiles a descriptor
(names, field types, indexes), hashes what results and validates documents;
`QueryOptions` compares, sorts and cuts. `TypedStore` keeps `entries` and `index`
as functions from byte keys: `insert`, `delete` and the candidates are those of
`core/collection.rs`, `record` writes the ledger into the same table. The
histories `held` and `recorded` hold what should be there. Text is its
bytes in UTF-8, whose length is the number of its characters (`Chars`); a
regular expression is the set of strings it matches, a number an integer or a
float of which only the halves are told apart; `Exact` stands for 2^53, beyond
which a float has no longer every integer. The text serde writes for a number is
the parameter `Text`: any function from numbers to strings without NUL. A
descriptor is what serde reads (`IsDescriptor`), a document a JSON object whose
arrays are seen only by the validation (`IsDocument`), a stable sort the list in
which each document goes behind those that are `Ahead` of it.

### Bridge

Each end is an event loop; the port keeps order and loses what is posted to an
end that is closed. The renderer is `RpcDispatcher` (`call`, `closed`),
`remoteLiveNative` (`sinks`) and the `LiveQuery` of each subscription (`view`);
`Connect` to `ReceiveEmit` are its turns. The host is one `PortState`
(`helloSeen`, `drained`, `subs`) with a handler for each call that is between
two awaits (`handler`): `RouteHello`, `RouteCall` and `RouteCancel` take an
envelope, `AllowQuery`, `AllowSubscribe` and `Deny` are the authorizer's answer,
`Dispatch` runs the operation, `Subscribed` is the timer that answers a
subscription, `Throw` any exception in between. `Snapshot` and `Fail` are the
host's own live queries. `PortClosed` and `CloseHost` both drain; only the first
comes with a closed port. The database is a version number. `ran` (operations
that took place) and `late` (subscriptions being made when the port was drained)
are history.

## 3. Runs

| Run | Question | Bounds |
|---|---|---|
| `CollectionRaces` | Do two callers doing everything leave the index covering, unique values unique, the fast paths complete and the change-sets true, and does it all look like `UniqueStore`? | 2 ids, 1 unique field with 2 values, 2 callers, 2 buffered operations |
| `CollectionReplay` | Does it look like `UniqueStore` with a unique and a plain index, for transactions that delete what they have themselves rewritten, and around a restore? | 2 ids, 2 fields, 1 caller, 2 operations, 1 restore |
| `CollectionFalseConflict` | Does a conflict mean that a document has the value? No | as `CollectionRaces` |
| `LiveProgress` | Is a wakeup ever lost, is a stale subscription always pending, do commits reach subscribers, does Drop end, are closed sinks removed, does it all look like `LiveFeed`? | 1 subscription, 2 writers, 2 commits |
| `LiveRegisterRace` | Has a consumer the latest state when all is quiet? Not if a commit fell inside its registration | 1 subscription, 1 writer |
| `LiveQuerySafety` | With consumers that come, go, dispose and throw anywhere, does anything leak, wait for ever, miss a snapshot or hear one too many? | 2 listeners, 2 iterators, 3 snapshots or errors |
| `LiveQueryOverwritten` | Does `.value` hold the latest snapshot? Not if an emission overtakes the promise of the registration | 1 listener, 2 snapshots |
| `HandleLifecycle` | With operations not awaited or too late, live queries and closes at any moment: is anything acknowledged lost, left in a table, cut off from its file, or kept for ever? | 2 transactions, 2 buffered operations, 1 typed operation, 1 live query |
| `BackupFaults` | With errors, crashes and damage at any step, is the file at the path always a whole backup, does a restore bring back a whole one, and does the ledger keep what was recorded? | 1 key, 1 value, 1 version, 2 schema hashes, 1 backup and 1 restore at a time, 2 inodes, 1 damaged file |
| `BackupSharedTmp` | Is it still a whole backup when two are written to one path? No | the same with 2 backups at a time, no damage |
| `TypedStore` | Do scans and lookups by bytes find exactly what they should, is a sort a total order that pages partition, do different schemas hash differently? | 2 collections, one named as a prefix of the other, 13 descriptors of which 7 compile, 13 documents, 7 sorts, 2 page sizes |
| `BridgeSession` | Do answers say what happened, do both ends keep the same queries with the same contents, is a dead port let go of, do calls settle? | 2 queries, 1 subscription, 3 versions |

Why the bounds are enough. Two ids and two values are what a unique conflict, an
overwrite by another value and a stale entry need; the properties of the store
quantify over pairs of documents at most. Two callers give every pair of
operations every interleaving; a third only repeats one of them, and the proofs
are for any number. Two buffered operations are what an update's delete and
insert need. For the engine, two writers are what overtaking dispatches need and
two commits what a commit inside a recompute after a first one needs. In a
delivery two listeners are one that was told and one that was not; two iterators
are one that waits and one that comes after the end; three envelopes are the
initial one, one before or after it, and one after an error. For the handle, two
transactions are one and its successor or its rival, two operations have an
order. A file with one entry has every kind of frame and an end to be cut at;
two inodes are the backup and its successor. Ids and values of `TypedStore`
include the empty string, the bytes 0 and 1 next to the separator and the
numbers at the end of the exact range. On the bridge a second query is what
answers out of order need; three versions are the first snapshot, one before and
one after the answer. The proofs remove the bounds for safety.

Deadlock is checked for `Collection`, `Backup` and `TypedStore`. `Live` may stop:
when the engine has been dropped, or all commits of the bound have been made and
the worker sleeps; so may `LiveQuery`, when all was delivered and the consumer
wants nothing more, and `Handle` and `Bridge`, when the calls of the bound have
ended.

Fairness (`Live!Fairness`): weak fairness of each committing thread once it has
committed, of each registration once begun, of the worker and of Drop once
begun. They are threads that hold no lock while they wait for another, and the
scheduler runs a runnable thread; on the condition variable the worker is
runnable only when notified. Nothing is assumed of those who decide to commit,
register, cancel, close or drop, nor of spurious wakeups. `Handle!FairSpec`:
tasks on the pool run and the loop handles their answers. A transaction's
callback is the consumer's and may never end, so `FileIsReleased` and
`FlagIsReleased` say what happens unless it runs for ever. `Bridge!FairSpec`:
both loops handle what has arrived, the port delivers, the authorizer answers
and so does the database. Nothing is assumed of consumers, of closing and of
commits. `CallsSettle` leaves out a port the host drained and left open: a
comment at `packages/electron/src/renderer/index.ts:15` says that calls over it
hang.

## 4. Proofs

All statements are for any number of ids, fields, values, filters, callers,
collections, subscriptions, writers, listeners, iterators, calls, keys, files,
readers and crashes, from the named assumptions `SchemaAssumption`,
`CallerAssumption`, `LiveAssumption`, `QueryAssumption`, `HandleAssumption`,
`BackupAssumption`, `BridgeAssumption` and `StoreAssumption` (typing of the
constants, that the markers for "none" are not values, for backups that there are
finitely many keys, and for typed stores that no text of a number has a NUL).

`CollectionProofs`. `TypeCorrect` is proved first. The invariants the runs check
are not inductive: `Invariant` proves the strengthening `IInv`, which says the
same of the private store `work` of the open write transaction as of the
committed one (`StoresGood`), that the lock's holder is the caller in its write
closure (`WriterKnown`), that `work` differs from the committed store only in
touched ids (`WriterSeesCommitted`), that the history of an open query ends in
the current store (`QueriesTracked`), and what a lookup found so far
(`StableMatchesFound`). From it follow `IndexAlwaysCovers`, `UniqueIndexesHold`,
`FastPathsLoseNothing`, `StableMatchesAreFound`, `WriterReadsItsBase`, and, as
an action property, `CommitsAreReported`. The heart is in the lemmas of
`DocStore`'s operators: a put and a delete by victims' stale values both preserve
"covered and duplicate-free", because the row goes with the entries. `Restore`
is part of the specification, so everything is proved around restores too.

`LiveProofs`. `NoLostWakeup` is inductive as it stands, given the types
(`WakeupsAreNotLost`). `StaleIsPending` needs `Bookkeeping` (an event is held
only between commit and mark, drained work only inside a pass, a subscription in
the worker's hands has been registered) and `InOrder` (what the worker is
computing is no older than what the consumer has, and no newer than the
committed version), which also gives `SnapshotsNeverGoBack`. `SeenOnceQuiet`
combines them: with every thread at rest nothing can be pending, so the consumer
has the last state committed after its insertion. The registration race is
outside that statement, as it must be. `LiveImplementsFeed` is the refinement:
most steps are stutters, because they change neither a table the consumer knows of
nor whether a snapshot is being computed for one who has left (`Unnoticed`). The
rest maps by `InOrder`, which also knows that a first snapshot is no older than the
call, and by `Bookkeeping`, which knows that what the worker reaps was closed.

`LiveQueryProofs`. None of the invariants is inductive. `Reach` relates the
registration to the handle: once resolved it is attached or has cancelled, which
is what a `dispose` in between must not break; `NobodyLeft` empties the
listeners with `dispose`; `Terminal` keeps track of an error from its arrival to
`dispose`; `InStep` says it of the listeners a running delivery has already
called; `Drivers` ties each iterator to its driver. They give `NothingLeaks`,
`FailureIsTerminal`, `ListenersStayInStep`, `NobodyWaitsForever` and
`TheGoneHearNothing`.

`HandleProofs`. `TxPlaces` says which places a transaction may be in for its
handle to be in the table, that a transaction in progress has the flag, and that
handles are not used twice; it gives `OneAtATime`. `TxContents` adds that every
buffer holds exactly the acknowledged operations of its transaction, in an order
that respects what was awaited, so that taking it loses nothing and keeps the
order (`NothingAcknowledgedIsLost`). `FileKept` follows the clones: a handle has an
engine, an engine or a buffer has a file (`FileStaysForWork`). `LivePlaces` says
what a registration under way must carry for `RegistryStaysInStep`: if close has
run, it is one of those that had the engine then, so that whatever a second close
forgets is `late`. That the engine's table is empty once the engine is gone needs
the rest of the invariant: a registration keeps the engine alive from
`AcquireEngine` to `Register`.

The last part of `CollectionProofs` is a refinement
(`CollectionImplementsStore`). Initial states map to the initial state and every step to a step of `UniqueStore` or a stutter, from
`IInv`: an insert maps because the entries cover the documents, so a check of
the entries is a check of the documents; a buffered delete because the index loses
nothing and the re-filtering adds nothing; everything callers do outside their
write transaction is a stutter.

`KeyspaceProofs`. The bounds of a range are a prefix followed by the separator
and by the byte after it; `RangeIsPrefix` shows that the keys between them are
those that begin with prefix and separator. If collection names, fields and
values have no NUL these parts of a key can be read back, so a scan reads one
collection (`ScanReadsOneCollection`) and a lookup one value
(`LookupReadsOneValue`), whichever other names and values begin with them and
whatever the ids.

`TypedStoreProofs`. The invariant the other theorems follow from (`IInv`,
`StoreInvariant`) says of the tables what TLC sees only in their reads: the
schema is one that compiled; `held` has validated documents, one for each id
(`HeldOK`); the rows are exactly theirs, under their keys, and the ledger
(`RowsOK`); every held document has its entries, and every other entry is left
over from a document that could be in the collection, and leads to its id
(`IndexOK`); a unique value belongs to one document (`UniqueOK`). `TypeOK` alone is not inductive: a delete must not take the entry
of another document, and that two documents never share a row or an entry is a
fact about keys (`RowsTellApart`, `EntriesTellApart`). An entry left by an
overwrite may lead to a row that has another value by now, or to none; the
filter that follows removes it, so stale entries add nothing and
(`CandidatesAreHeld`) hide nothing. From `IInv` follow `StoreTypes`,
`ScansAreExact` (a table read in the order of its keys is the collection in the
order of its ids) and `LookupsFindTheMatching`.

`LookupsFindEachOnce` needs a hypothesis, `IndexedNulFree`: a value with a NUL
may have the entries of another value and id in its range, and a row may be
found under both keys. The code accepts this limitation at
`core/index/engine.rs:20`. `SortsAreTotal` and `PagesAreAPartition` assume
`MixedExact`: a float and an integer are compared as floats
(`core/query.rs:162`), which is no order beyond 2^53. TLC evaluates both
hypotheses on the values it is given (`ValueAssumption`); neither says anything
of how documents are stored or sorted. The order of two documents is that of the
first key that tells them apart (`FirstTold`), each key compares by a total
preorder (`ValuesOrder`, `KeyOrder`), and the id breaks ties (`DocsOrder`), so
the ranks that sorting assigns are a permutation (`RanksNumber`,
`SortedInOrder`) and pages are cut from one list (`NoGaps`).

`HashesTellApart`. What is fed to the hash can be read back: `Tells` says of two
words that whoever reads one knows which it is and where it ends, whatever
follows; strings come after their length (`FeedTells`), optional bounds after a
mark (`OptionTells`), the marks of arrays end in another one (`TypeTells`), lists
come after their number (`ListTells`), and `TellsBoth` puts such words one behind
the other. The number of collections is not fed, but no collection feeds
nothing, so the end of the stream tells it (`NoMoreWords`). Induction over lists
is done by least counterexamples (`LeastNat`), since the induction theorems of
the library cannot be instantiated; the same way `FlattenFront` unfolds the
recursion of `FlattenSeq`. SHA-256 is taken to be injective.

`BackupProofs`. `LedgerKept` needs types only. The other two theorems assume
`OneWriter`, at most one backup at a time: the code does not ensure it, and
`BackupSharedTmp` shows that it is needed. `WholeBackups` speaks of the directory
of now, but a crash may bring back an older one and cut off what was not synced,
so `PathsComplete` says it of every directory a crash may bring back; `Apart`
keeps the file a backup writes from being one of those; `Underway` says that the
temporary file has what was written so far, and is synced when it is renamed;
`ReadersKnow` says that a restore holds the whole of what it read, and
that nobody writes into it. A damaged file is refused because the checksum of an
image occurs nowhere but at its end (`ImageChecksum`), whatever else was put in.

`BridgeProofs`. `Session` is inductive by itself: the greeting comes first
(`HelloOnce`, `Greeted`), a call is routed once and after it was made
(`Routing`), an answer under way is true (`Honest`: a later step does
not make it false, since what is done stays done), and what the drain left is
`late`. It gives `CallsAreToldTheTruth` and `DrainLetsGo`. That both ends are in
step when nothing is under way (`EndsStayInStep`) follows from `Following`, which
relates, for each subscription of a port that is up, what the two ends hold to
the envelopes between them: before the answer the host's query has sent nothing
(`Unanswered`), the answer comes before all emissions (`Answering`), once it is
there the two ends differ only by a cancellation under way (`Answered`), and the
last envelope under way, or else the view, has the host's snapshot (`Current`).

Theorems of definitions no run lists, which strengthen what the runs show:
`FastPathsLoseNothing`, `WriterReadsItsBase`, `SeenOnceQuiet`, `SnapshotsNeverGoBack`,
`FailureIsTerminal`, `DrainLetsGo`, `LookupsFindTheMatching` (which has no
hypothesis on NULs).

Only model-checked: the liveness properties (liveness under fairness and ENABLED
are beyond the proof system) and the violations. What `check_value` does with an
array of any depth is not the subject of a theorem: indexed and sorted fields are
scalars, which is all the proofs need.

## 5. Where the code and its documentation disagree

Four runs end in a violation that a comment or document contradicts: an insert
that conflicts with no document, a commit that a new live query never shows, a
snapshot overwritten by an older one, a backup emptied by another. PROJECT.json
quotes each line. Beyond them the models admit, and no run repeats, of the store:
index entries left by an overwrite survive the delete of the document (the cause
of the false conflicts); an index find may return a set of documents that no
committed state contained; a restore writes no index entries, so lookups do not
find what it brought back, and no change-set, so live queries do not hear of it;
an update writes back a document that was deleted after it was read; a value with
a NUL may be found under another one (a comment at `core/index/engine.rs:20`
accepts this); a database reopened with a new index has no entries for its
documents; beyond 2^53 integers and floats that compare as equal need not be
equal among themselves (`core/query.rs:162`).

Of live queries and the handle: a snapshot may be delivered just after its
subscription was cancelled (the handle ignores it); a listener that throws ends
the delivery for those after it, and in an error's delivery leaves the query
failed but not disposed; a `for await` that begins after the query ended waits
for ever once it has had the last value; a transaction that was begun before
close still takes operations and commits after it (the table has its own clone,
as a comment at `napi/database.rs:96` wants, while the one at 857 says that
subsequent calls fail); operations of one transaction that are not awaited may
be replayed in another order than they were called in; a `live` call that close
cuts across leaves an entry in the registry until it is cancelled, or until a
second close removes it without closing its sink; then it can no longer be
cancelled, and stays in the engine as long as another `live` call holds that.

Of the bridge: a subscription that was being made when its port was drained is
registered afterwards and never disposed of; a host query that fails before the
timer fires is answered as a success with `[]`, and the renderer never hears of
the failure; a remote update is several calls (`renderer/proxy.ts:60` says so),
each of which may be the last.

## 6. Not modelled, and the plan

Not modelled at all: formatting of errors, licence verification, CLI, React hook,
native loader, documentation site, benchmarks and the crash test worker: they
keep no state that steps of two actors share. Of the modelled parts: projection,
which shapes one document; the TypeScript builders of a schema and the reading of
JSON; the opening and creation of the file, whose steps are not modelled and
whose result is what each `Init` stands for; several observers of the notifier and panics in them (the program
registers one); the preload script, which hands the port on; the bytes of a
document, taken to decode to what was encoded; a reopening with another schema.

Planned: a remote update as a composition of `Bridge`'s calls and `Collection`'s
transactions.

