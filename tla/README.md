# Isar Plus in TLA+

Isar Plus is an embedded object database for Dart and Flutter. Its core is the
Rust crate `packages/isar_core`, which drives one of two storage engines: the
*native* engine on MDBX and the *SQLite* engine. `packages/isar_core_ffi`
exposes the core as a C interface; `packages/isar_plus` is the Dart API on top.
This directory models the parts of that stack where state, order, failure and
concurrency decide correctness. TLC checks the models on small instances, and
TLAPS proves most of the invariants for every instance.

Paths below are relative to the repository. `core/`, `native/` and `sqlite/`
are directories of `packages/isar_core/src`, and `impl/` is
`packages/isar_plus/lib/src/impl`.

## The system

| Component | Code | State it keeps | Operations |
|---|---|---|---|
| Native collection and indexes | `native/native_collection.rs`, `native_index.rs`, `native_insert.rs`, `native_delete.rs`, `native_instance.rs` | one MDBX database of objects by id, one database of (key, id) entries per index, the in-memory counter `auto_increment` | put, update, delete, clear, query_update, query_delete, an insert session of n saves, auto_increment |
| Native write transaction | `native/native_txn.rs`, `native/mdbx/txn.rs` | the MDBX transaction, a change set, a "broken" mark | begin, guard, commit, abort, drop |
| Watchers | `core/watcher.rs` | per collection four lists (collection, object, query, detailed); per transaction a `ChangeSet` | watch, stop, register_change, register_all, notify_watchers |
| SQLite transactions | `sqlite/sqlite_txn.rs`, `sqlite_instance.rs`, `sqlite_insert.rs` | `write_mutex` (shared), `txn_active` (per isolate), the flag of a `SQLiteTxn`, the connection | begin, guard, commit, abort, insert sessions |
| Instance registry | `native/native_open.rs`, `native_instance.rs`, `sqlite/sqlite_open.rs` | the map `INSTANCES` and its lock, reference counts, a connection pool, the database files | open, get, close, delete, compact |
| Dart transactions | `impl/isar_impl.dart`, `impl/isar_collection_impl.dart`, `isar_core_ffi/src/{txn,insert}.rs` | the transaction pointer and who owns it | read, write, readAsync, writeAsync, openAsync, close, putAll |
| Native query execution | `native/query/*` | an iterator over a cursor, the distinct keys seen, what is left to skip and to take | find, count, aggregates, offset, limit, sort, distinct |
| Native filters | `native/native_query_builder.rs`, `native/query/native_filter.rs` | none | conditions turned into bounds, and evaluated |
| Dart query builder | `packages/isar_plus/lib/src/query_builder.dart`, `query_extensions.dart` | the filter so far, the pending operator, the pending negation | conditions, and, or, not, group, object, anyOf, allOf |
| Schema migration | `core/schema.rs`, `native/schema_manager.rs`, `sqlite/schema_manager.rs` | the stored schemas (native), the tables themselves (SQLite) | find_changes, perform_migration: one transaction per collection (native), one in all (SQLite) |
| Object layout, index keys, wildcard matching | `native/isar_serializer.rs`, `native/isar_deserializer.rs`, `native/index_key.rs`, `core/fast_wild_match.rs` | none, but objects keep the layout they were written with | writing, reading, encoding, matching |
| SQLite tables | `sqlite/sql.rs`, `sqlite/sqlite_insert.rs`, `sqlite/sqlite3.rs` | tables and indexes; the update hook of a connection | batched INSERT OR REPLACE, UPDATE, DELETE, monitor_changes |
| SQL of queries, JSON, code generator, web, inspector | `sqlite/sql.rs`, `core/ser.rs`, ... | none that outlives a call | conversion |

How they interact. A Dart isolate calls the C interface with raw pointers: an
instance it shares with others, and a transaction it owns. Some C functions
*borrow* the transaction (`get`, `delete`, `clear`, queries), some *consume* it
(`isar_plus_insert`, commit, abort). Isolates share the instance registry (a
global map under a parking_lot lock), the watcher lists (atomically swapped
vectors) and, in the SQLite engine, the write mutex. MDBX serialises native
write transactions itself. Watchers call back into Dart after a commit.
`openAsync`, `readAsync` and `writeAsync` start a second isolate that opens or
gets the same instance by its id.

What is hard, and what the models are aimed at:

* A put is a series of writes to several databases. It evicts holders of its
  unique keys, each of which has entries in all other indexes. Any write can
  fail half way, the caller may swallow the error and commit, and the process
  may die.
* Lists of watchers change while another isolate is between two steps of a put.
* In SQLite the mutex, the flag, the transaction object and SQLite's own state
  are four views of "a transaction is open" that have to end together on every
  path, including those where Dart no longer has a pointer.
* Reference counts decide who closes the environment and who may delete its
  file. They are read once without the lock and once with it.
* Offset, limit and distinct are counted by lazy iterators, null is an integer or
  no string at all depending on the type, and bounds are excluded by arithmetic
  on them.
* Compaction replaces the database file, and a crash may come at any point of it.
* A migration never rewrites objects: what was written under one schema is read,
  updated and indexed under all later ones, and an opening may be cut short
  between any two of its transactions.
* The SQLite engine stores no schema and derives the old one from names and
  types of tables, columns and indexes.

What makes each part correct is stated as the properties in the tables below;
`PROJECT.json` lists every hazard with its line and the properties that cover it.

## Modules

| Module | Models | Uses |
|---|---|---|
| `TxnMap` | what a collection promises: a transactional map in which a put evicts what shares a unique key with it | |
| `NativeStore` | one native collection, its indexes, the write transaction, the insert session, restart | implements `TxnMap` by a refinement mapping |
| `NativeStoreProofs` | the theorems about `NativeStore`, last that it implements `TxnMap` | extends it and `TLAPS` |
| `Watchers`, `WatchersProofs` | watcher lists, the change set, and the calls that put, delete and clear make on them | the data of `TxnMap`, per collection |
| `SQLiteSession`, `SQLiteSessionProofs` | isolates running read() and write() on the SQLite engine: Dart layer, C interface, transaction, mutex, registry and pool | |
| `Instances`, `InstancesProofs` | native instances in one process: registry, counts, close, delete, compaction, openAsync and asynchronous transactions | |
| `WildMatch` | `fast_wild_match`, and what a pattern means | |
| `NativeFilter` | conditions on integers and strings: the bounds they become, their evaluation, and what they mean | `WildMatch` |
| `NativeQuery` | the iterators and aggregates of the native engine over one snapshot | `Accepts` is given by `NativeFilter` in `MCNativeQuery` |
| `NativeQueryProofs` | the theorems about `NativeQuery` | extends it and `TLAPS` |
| `QueryBuilder` | the fluent Dart builder and how a chain of calls becomes one filter | |
| `QueryBuilderProofs` | the theorem about it | extends it and `TLAPS` |
| `SchemaChanges` | schemas and `find_changes`, which both engines use | |
| `NativeObject`, `IndexKey` | the layout of an object, written and read; the key of an object in an index | |
| `NativeMigration` | openings of a native database with changing schemas, and its objects and index entries | `SchemaChanges`, `IndexKey` |
| `NativeMigrationProofs` | the theorems about it: schemas and databases, objects and index entries | extends it and `TLAPS` |
| `SQLiteStore` | openings of a SQLite database, its rows, the insert session and the update hook | `SchemaChanges` |
| `SQLiteStoreProofs` | the theorems about it | extends it and `TLAPS` |
| `MC...` | the small instances for TLC | the module they are named for |

### NativeStore

`disk` is what the last commit left; `objects` and `entries` are the write
transaction's private copy of it. `txn` is `"broken"` once `guard` has seen an
error. A put is not atomic: `call` is its program counter. `PutStart` removes
the old object's index entries, `PutIndex` handles one index
(`NativeIndex::create_for_object`: evict the holder of a unique key through
`NativeCollection::delete`, add the entry), `PutFinish` raises the counter and
writes the object. `OperationFails` can interrupt it between any two of these
writes. `CommitBroken` is the commit of a broken transaction: MDBX undoes it and
answers `MDBX_RESULT_TRUE`, which `mdbx_result` takes for success, so the caller
gets Ok; on the data it does what an abort does. `query_update` and
`query_delete` collect their ids first (`bulk`) and
visit them one at a time, so an id may have been evicted before its turn.
`remaining` counts down an insert session, which owns the transaction;
`InsertFinishEarly` is `InsertIncomplete`, which drops it. `Crash` may come at
any point, and `Open` rebuilds `auto_increment` from the last key.

`KeyOf` and `HasNull` stand for `create_key`: properties only ask whether two
keys are equal and whether one contains null. `MustEvict` ignores null keys as
the code does. `Succ` wraps as a 64-bit integer does in a release build.

The mapping to `TxnMap` shows a put as done from its first write on: `View`
already lacks the objects it has yet to evict (`Doomed`).

### Watchers

The lists are `watching` with, for each watcher, the set `ahead` of those that
were before it in its list: order matters because `mark_watchers_changed` stops
at the first watcher that is already registered. `changeSet` has the registered
watchers, the log of detailed changes and the detailed listeners; `sent` is
what the last commit delivered. A put reads the lists when it starts
(`PutStart`: is the old object needed?), again when it registers its change, and
again for every eviction. `Watch` and `Stop` may happen between any two steps.

`CommitBroken` is the commit of a transaction one of whose calls has failed. Its
data are undone, but the code that MDBX returns counts as success, and
`NativeTxn::commit` goes on to notify the watchers of what was registered. In a
broken transaction MDBX refuses every further call; most of them are refused
before they register anything, `clear` only after it has marked all watchers
(`ClearRefused`).

`Detect` is `ChangeDetector::detect_changes`. It compares two objects field by field
as the text it reads of them, and returns no update for two that give the same:
of a list it reads only the length, numbers that are not finite are null, and of a
JSON text in a field named `value` only the inner value counts. The constant
`Shown` is what it reads of an object, and objects for which it is the same are
`Alike`; objects it cannot tell apart are different objects all the same.

### SQLiteSession

`pc` is where each isolate is. `txn` is its `SQLiteTxn` with its flag, `conn`
its connection (inside BEGIN or not, with how many uncommitted rows), `mutex`
the owner of `write_mutex`. Rows are counted, not told apart. The C interface
shows in which actions take the transaction away: `InsertBegin` gives it to the
session, `Dropped` loses it. `AbortFreed` is the second abort that `write()`
issues after a commit that failed: the pointer has been freed, so the process
dies or the freed memory still holds the transaction. Both outcomes are taken,
and `faults` records it; the isolate stops there, since nothing after undefined
behaviour can be said of the program.

SQLite itself is external: BEGIN fails inside a transaction, COMMIT and
ROLLBACK fail outside one, a statement outside one commits by itself, and a
severe error may roll back at once.

### Instances

Each isolate has two holders, its main thread and its helper; `place` is what
each does. `StrongCount` is `Arc::strong_count`: one for every holder and one for
the registry. `CloseCheck` is the look at the count without the lock;
`CloseRemove`, `CloseDelete` and `CloseKept` are the look under it. `disk` is
the number of writes in the file, `copy` the file `.isar.compact`. Holding the
lock from `OpenNew` to `OpenDone` is what `open_instance` does. After a compaction
`open_native` calls itself: `Reopen` makes the second environment. MDBX is
external: it refuses a file that this process has open, and refuses to copy
onto a file that exists.

`DeleteDatabase` removes the file at any moment, because `delete_database_files`
looks neither at the registry nor at its lock. An environment that is open keeps
the file that has no name any more: it is in `gone`, with what is written to it from
then on, until the environment is closed. An opening in the meantime shares the
registered instance, and with it the file that is gone; once the entry is
removed (`"detached"`) the next one makes a new file. Windows does not remove a file
that is open; the step need not be taken.

### NativeQuery and NativeFilter

`Ask` builds the iterator. `ScanReject`, `ScanSkip`, `ScanReturn` and `ScanStop`
are the ways one turn of the loop in `next()` of the two unsorted iterators ends;
`Receive` is what the consumer does with the object: the loop of `_findAll`,
`Iterator::count`, or the body of an aggregate. `CollectStep` and `SortResults`
are the sorted iterator, which does its work at once. `sort_unstable_by` may
leave equal objects in any order, so `SortResults` takes any (`Orders`).
Values are ranks in the order of their type with null where the code has it,
and the hash that stands for a distinct key is taken to be injective.

In `NativeFilter` integers are 0..`MaxInt` with 0 for the least, which is null.
Strings are sequences of code points; `MAX_STRING` is the last one alone, and
the strings of objects do not contain it. The gap of the surrogates is left out.
`IntMeans` and `StringMeans` are the reference.

### QueryBuilder

`builders` holds the builder of the query and those of the groups whose
callbacks have not returned, each with `filter`, `filterGroupAnd` and
`filterNot`; `after` is the static type of the builder, which decides whether
`and()` and `or()` may be called. A filter is represented by the kind of its
root and the meaning of each part below it, because `addFilterCondition` looks
no deeper, and a meaning is a set of objects, an object being the set of
conditions it meets. `said` records the words of the chain; `Said` gives them
their meaning: alternatives between `or()`, each a conjunction.

### NativeMigration, NativeObject, IndexKey

`info`, `dbs` and `entries` are the file: the stored schemas, the objects of each
collection, the entries of each index. `OpenStart` is the first transaction of
`perform_migration`, `MigrateCollection` the transaction of one collection,
`DeleteRemoved` the last one; `Interrupted` may follow any of them. `existing`
is the copy of the stored schemas the whole migration works with, read before
any of them changes. `cols` are the `NativeCollection`s: the properties in the
application's order with the offsets they have in the layout.

An object is its header and its cells. Integers, offsets, lengths and characters
are all one cell wide, and a cell is a number whatever it is read as; with that
the arithmetic of offsets is the code's, and reading a string's length where an
offset is expected gives what it would give in bytes. `Panic` is a slice out of
range: the process dies (`WriteDies`). Put, update and delete are one step each
here; their inner steps are `NativeStore`'s subject.

`truth`, `written` and `stretched` are what the application knows: the values it
gave, the objects written since an index was made, the objects to which update
gave a larger header.

### SQLiteStore

`disk` and `work` are the committed database and the transaction's copy. A
statement is an operator from database to database that is `Failed` where SQLite
refuses it: a column that an index is on cannot be dropped, an index that does
not exist cannot be dropped, a unique index cannot be created over duplicates.
The statements of one kind that a migration executes, all its `DROP INDEX` for
example, are one operator: they touch different columns or indexes, so they give
the same in any order, and fail if one of them does. `Verified` is what
`IsarSchema::verify` asks of a schema. The code generator enforces it, and no
call of the core does, so it is an assumption about `Schemas` and no guard.
`ReadColSchema` is how the engine learns the old schema. Names of tables and
indexes are sequences of the parts between underscores, because
`read_col_schema` takes the last such part. `Save` counts down `batch` and
`remaining` as `SQLiteInsert::save` does and executes a full statement when
objects are left.
The engine does not quote names. `Lower` is the case of names as SQLite sees it,
`Refused` the names it does not take at all: keywords, and those it reserves. The
statements compare names by `Fold` and refuse those of `Refused`, while the engine's
own comparisons (`NewTable`, `UpdateTable`, `ReadColSchema`) tell case apart, as
`perform_migration` and `find_changes` do. `sql_data_type` reads declared types
without case.
`hook` is the collection that the update hook reports to: `insert` leaves it
installed, `query_update` and `query_delete` clear it. `meant` is what the
objects would be if every object were written alone.

## Runs

Every run finishes in about two and a half minutes with two workers.

| Run | Instance | Shows |
|---|---|---|
| `native_store` | ids 1..3, four objects, two unique indexes and a plain one, null keys, updates that succeed and that are illegal, batches of at most 2 | `DiskIndexesAgree`, `DiskKeysUnique`, `ViewConsistent`, `CounterAboveIds`, `ImplementsTxnMap` |
| `watchers` | ids 1..2, three objects, two of them alike to the change detector and in conflict, one watcher of each kind, logs of up to 2 entries before an operation | `SteadyWatchersTold`, `OnlyWritesTold`, `LogReplays` |
| `sqlite_session` | two isolates, callbacks of two statements | `ReturnedMeansAll`, `ThrewMeansNothing`, `WritersHoldMutex`, `HeldMeansRegistered`, `NothingLeftBehind`, `WritersGetTheirTurn` |
| `instances` | two isolates with helpers, two commits, one crash | `HeldMeansRegistered`, `InstanceHasItsFile`, `CommittedSurvives`, `AsyncOpenEnds` |
| `native_query` | four ids, six snapshots of objects with a nullable integer, a byte and a nullable string; all conditions over null and four integers, over null and six strings, with and without case, and wildcard patterns against strings with a character of two bytes; 135 combinations of sort, distinct, offset and limit for each of three filters | `FiltersExact`, `FindIsWindow`, `SortedFindIsWindow`, `CountAgrees`, `ExtremesAgree`, `SumsAgree` |
| `query_builder` | chains of three conditions, two levels of groups | `PrecedenceHolds` |
| `native_migration` | two collections, three versions of the schemas, three openings, three writes, an empty file or one of an older file version | `ObjectsReadBack`, `IndexesListTheWritten`, `FileIsAsWanted`, `SlotsAreKept`, `OnlyEqualReplaced` |
| `sqlite_store` | five collections, two of them named alike but for case, five versions of the schemas, three openings, putAll of up to three objects, four parameters per statement | `RowsAreMeant`, `TablesAsWanted`, `OnlyDuplicatesFail`, `WatchedWritesTold` |
| `added_property_not_empty` | as `native_migration` | violation of `NewPropertiesEmpty` |
| `composite_index_reopen` | one collection with an index over two properties | violation of `ReopenSucceeds` |
| `failed_insert_keeps_mutex` | as `sqlite_session` | violation of `MutexBelongsToWriter` |
| `nobody_closes` | two isolates, no crash | violation of `LastCloseCloses` |

Why the bounds are enough.

* `native_store`: object v2 shares its first unique key with v1 and its second
  with v3, so with three ids one put evicts two objects through different
  indexes, and a bulk update can evict an object that is still on its list. The
  plain index gives all objects one key, so entries that differ only in their
  id occur. Both properties of v4 are null. The largest integer is 4, one above
  every id; the proof covers every set of ids below the largest integer.
* `watchers`: two ids are enough for an eviction, one watcher of each kind for
  every list, and `MaxLog` = 2 lets an object change twice and be followed by
  another operation in one transaction. `MaxLog` bounds the start of operations;
  each of them adds at most one entry per id beyond it. Of the three objects two
  are alike, so an update is reported, or is not, or follows one of the other
  kind; nothing in the instance tells these two from each other, which is why
  they may be exchanged (`MCSymmetry`). There are 7.9 million states. The run has
  one collection and one watcher in a list; more of both are left to the theorems.
* `sqlite_session`: two isolates are enough to compete for the mutex, to race
  at closing, and to find a connection the other left in the pool. Two
  statements (`MaxOps`) allow one that succeeds before or after one that fails.
* `instances`: with their helpers two isolates are four holders. Two writes
  (`MaxWrites`) allow one before and one after a compaction; one crash
  (`MaxCrashes`) leaves a partial or a complete copy behind, and later opens meet it.
  Deletions are not bounded: they come between any two steps, the copy and the
  rename of a compaction included. There are 147 375 states.

* `native_query`: the snapshots hold duplicates of every distinct key, nulls,
  the greatest integer and holes between the ids; offsets and limits of up to 2
  cut windows at both ends of up to four objects. Conditions are checked against
  all strings of up to two of three characters, one the capital of another.
* `native_migration`: three openings let a property be dropped and come back, or
  an interrupted opening be followed by one with a third schema. The versions
  drop, add, retype and reorder properties, redefine an index, make one unique
  over two properties, and turn a collection into an embedded one. Three writes
  allow an object of one version to be updated under another and evicted by a
  third. Strings have one or two characters, so that a shorter value is written
  over a longer one, and a value can equal the beginning of another.
* `sqlite_store`: with four parameters (`MaxParams`) a statement holds two objects of one
  property or one of two, so three objects need up to three statements; the
  collection with four properties fits none. The schemas retype a property under
  an index, make an index unique over data that may hold duplicates, and use an
  embedded type with the name of a data type but for case. A property changes its
  case between two versions, a collection is named like another one but for case,
  and a property has a name that SQLite refuses. One list has a collection
  with watchers and one without, so writes of both follow each other in one
  transaction. There are 145 695 states.
* `query_builder`: three conditions are the least with which precedence and
  grouping can go wrong; two levels of groups let a group begin with a group.

Fairness. `NativeStore`, `Watchers`, `NativeQuery`, `QueryBuilder`, `NativeMigration`
and `SQLiteStore` state safety only. In `SQLiteSession`
weak fairness of `Proceed` says that threads are scheduled and that callbacks
end, and strong fairness of `Acquire` that a waiting thread gets the mutex in
the end: parking_lot hands a lock over fairly every half millisecond. Nobody is
required to start a transaction or to close. In `Instances` strong fairness of
`Proceed` covers the steps of calls that have begun, under the same lock, and
that of `Answer` the event loop of an isolate. The isolates need not start or
close anything. `WritersGetTheirTurn` and `AsyncOpenEnds` are the liveness
properties under it.

`SQLiteSession` runs with deadlock checking off: the system really stops when
the mutex is lost (`begin_txn` failed, or a putAll failed) or the process has
crashed in `AbortFreed`. `WritersGetTheirTurn` says that it stops for no other
reason. `QueryBuilder` has it off because a chain ends, `NativeMigration` and
`SQLiteStore` because `MaxOpens` and `MaxWrites` bound them.

Every property of a passing run has a mutant in `PROJECT.json`: an operator
beside the original (`PutStartKeepsEntries`, `CloseRemoveUnchecked`, ...) that
puts a plausible bug into one action, with which the property fails.

## Proofs

Eight modules hold theorems. All of them are about every value of the constants:
any schema, any finite number of isolates, any number of watchers in a list, chains
and groups of any length and depth.

### The native store

`NativeStoreProofs` proves, for any ids, objects, schema and update functions:

* `TypeCorrect`: `Spec => []TypeOK`.
* `IndexesAgreeWithObjects`, `UniqueIndexesHold`, `TransactionViewConsistent`:
  `DiskIndexesAgree`, `DiskKeysUnique` and `ViewConsistent` always hold.
* `AutoIncrementFresh`: `CounterAboveIds` always holds.
* `StoreImplementsMap`: `Spec => ImplementsTxnMap`, that is, every step of the
  store is a step of `TxnMap` or leaves the map as it is.

None of the three consistency properties is inductive: in the middle of a put
the indexes do not agree with the objects. `InductiveInv` adds what is true
then. The committed databases are consistent; between calls so is the
transaction; and in a put at index n (`MidPut`) the databases are those of the
collection without the object being put, plus its entries in the indexes before
n, and no stored object conflicts with it in those indexes. `PutIndexInductive`
is the heart of it: the first holder found under a unique key is the only one
without null parts, and deleting it in every index restores the form. A broken
transaction needs nothing, since all its data are undone, also by a commit. The refinement uses the
same invariant: the first write of a put is the map's put, and each of its later
writes takes away what the map has already lost.

Hypotheses. `StoreAssumption` types the constants. The consistency theorems and
the refinement assume `NullKeysApart`: in a unique index a key with a null part
differs from one without. Without it they are false: `create_for_object` would
evict by an object without nulls one that has them. `AutoIncrementFresh` assumes
that the largest integer is not an id, because `id + 1` wraps. TLC's instance
satisfies `NullKeysApart` and the assumption on ids.

### Watchers

`SteadyTold` and `OnlyTheWrittenTold` prove `SteadyWatchersTold` and `OnlyWritesTold`.
The run has one watcher per list; the theorem has any number, which matters
because `mark_watchers_changed` stops at the first watcher of a list that is
marked already. `FromTheFront` says why that is right for the watchers that were
in place before the transaction: lists are marked from the front, so if one that
was ahead of w when w joined is marked, then w is. The rest of `IInv` says that
what the transaction changed is in `written`, that collection and object
watchers of what is in `written` are marked, and that query watchers are marked
for every match that is stored or about to be.

`OnlyWritesTold` is about both kinds of commit. What a broken transaction tells is
what its calls registered before they failed, and `written` has what these calls
were asked to write: a watcher may hear of a change that was undone, never of one
that another transaction registered.

`TypeCorrect` and `LogsReplay` prove `TypeOK` and `LogReplays`, for any `Shown`:
what the log says of an object and what the object is are `Alike`, and no entry is
missing but between objects that are. More cannot be said of this detector. Ids are integers and
there are finitely many, as the 64-bit ids of the code: `clear` logs the stored
ones in order. In `LogInv` the log's last entry about an object does not say
what the object is but what it will be (`Meant`) once the put in progress has stored
its object, because a put registers its change first and then deletes, and
reports, what it evicts. A put can report what it changes because it has read the
old object whenever a detailed watcher was in place at its start (`OldRead`);
for a watcher that joins later this is false. `LastConcat`
says what two logs in a row say, `DetectSays` and `ClearSays` what the calls add.

### SQLite transactions

`SQLiteSessionProofs` proves the five safety properties of `SQLiteSession`. They are
not inductive one by one. The invariant says of each isolate on its own (`Own`)
what its books are (`Books`: what its statements reported, what is pending in the
connection, what is durable), which transaction it has at each place (`Place`),
that a connection outside a transaction has no rows, and that outside a write
neither the mutex nor an open connection is left until one of the named faults has
happened; `Pooled` says the same of the connections in the pool. Most steps are
those of one isolate, and `Fair` is what all of them have in common: the others
stay as they are, faults are never forgotten, the registry keeps its entry
while another isolate needs it, and the mutex changes hands only to or from
the isolate that moves. So each action has to be looked at for its own isolate
only. `OnlyHolder` is the counting argument behind the look at the reference
count under the lock: a count of two leaves nobody else.

### Instances

`InstancesProofs` proves the safety properties of `Instances` with three additions.
`OpenerAlone`: whoever is opening has the lock, nobody holds the instance, and
between the copy and the rename of a compaction the copy has what the open
environment has. `GoneInUse`: a file that deleteDatabase took away belongs to an
environment that is open, and none is at its path. `Partners`: while its helper
opens, an isolate waits and opens nothing itself, so a failure of the helper ends
no other opening.

`FilesStayWhileUsed` does not say that the file is there whoever deletes it, which is
not so. It says that closing with deletion and compaction, the two operations that
do look at the registry, never take it from an open environment: if it is missing,
`gone` says that deleteDatabase removed it. `CompactionKeepsWrites` says that the file
at the path has what was committed to it since it was last deleted; a compaction that
brings a deleted file back starts that count again with what it brings.

Assumption of this and of the SQLite transactions: the set of isolates is finite,
which counting needs.

### Native queries

`NativeQueryProofs` proves, for any collection and any query with an offset, a limit, a
sort order and distinct properties of any length:

* `FindReturnsWindow`: `FindIsWindow`, of the lazy iterators.
* `SortedFindReturnsWindow`: `SortedFindIsWindow`, of the sorted iterator.
* `CountsAgree`, `ExtremesFound`, `SumsRight`: `CountAgrees`, `ExtremesAgree`,
  `SumsAgree`, of the aggregates.
* `TypeCorrect`: `TypeOK`.

What a query returns can be said only when it is done; `Loop` is what is true
after any number of turns. The ids behind the cursor are less than those ahead
(`InOrder`). The hashes are the keys of the first objects that were passed, and the
number of these is what skip and take have been counted down by (`Counters`). So
an object is rejected exactly if it does not match or is no first (`NextObject`),
and the place of an object that is not is one more than that number: it is
skipped or returned as its place says (`WindowFacts`). The result so far, the
count, the extreme and the sum are those of the first objects passed
(`Answered`). `Ended` adds why the loop stops: at the end of the cursor, or, for a
find with a limit, when it has passed offset + limit of them.

A sorted find is a fact about lists. `Distinct` keeps, of a list in any order that
the comparison allows, one object for each key (`Representatives`), and each is at
the place of the least object with its key. The map from representatives to first
objects and back is injective both ways, so there are as many, and no more come
before one than its place (`Places`); a window keeps that (`WindowAnswers`). The proof
does not need the order to be total, which it is not.

A sum over a set is a recursive function that takes elements as CHOOSE picks
them. `SumExists` shows that there is such a function, `SumFirst` that a sum may
begin with any element, and `TotalNext` that one more object adds its value.

`QueryAssumption` types the constants. Values that are not null lie between the
ends of their type, where the search for an extreme starts (`aggregate.rs`);
offset and limit are no less than 0, and the ids are finitely many.

### The query builder

`QueryBuilderProofs` proves `ChainsMeanWhatTheySay`: `PrecedenceHolds` always holds.
That a filter means what was written is not inductive, because the next and()
joins only the last part of an Or. `Matches` says which part that is: the last
part of the Or is the last alternative of the chain and the other parts are the
earlier alternatives, or the filter is the last alternative and there is no
other, or the chain is one group of alternatives (`Leading`), which or() leaves
right and and() takes apart. `OneMoreAlternative` and `OneMoreCondition` say what one
more word does to the alternatives, and `OneMorePart` that `addFilterCondition` does
the same to the parts. `BuilderAssumption` says only that the bounds are numbers and
that null is no filter.

### Schema migration

`NativeMigrationProofs` is about the schemas and the databases of a native file, and
about what its objects and indexes hold, for any collections, properties, lists of
schemas, objects, numbers of openings and of writes.

* `FileAsWanted`: `FileIsAsWanted`, for any number of openings interrupted anywhere.
* `SlotsKept`: `SlotsAreKept`, that a slot of a layout never changes its type or
  its property.
* `TypeCorrect`: `TypeOK`.
* `ReadBack`: `ObjectsReadBack`, that every object reads as it was written, under
  all later versions of its schema.
* `IndexesAgree`: `IndexesListTheWritten`.

`SchemaInv` says how far an opening is (`Progress`: the schemas before `step` are
stored and have their collection), that the other stored schemas are still what
was read at the start (`ReadIsStored`), which is why the migration may work with
its copy, and that the databases are those of the stored schemas (`Databases`).
`MergedSlots` is the fact about `find_changes` and `migrate_collection` it rests on:
the merged layout has the old slots first, each with its type and with its name
or none, and one slot for each property of the new schema.

`ObjectsInv` says of every object, but for those in `stretched`, that it is `Sound`
and reads as the application left it. An object is sound under a layout if it is
no wider than the layout and `Strung`: every slot with a name that refers to a
string refers to one behind the static section and in the object, and no two of
these strings overlap. Without it nothing could be said of a write: `update_dynamic` writes a
shorter string over the old one, and where two slots shared it the other would
change. `Written` and `Rewritten` show that a write to one slot keeps an object
sound, puts the value there and leaves what every other slot reads (`Wrote`).
`MigratedObject` shows that an object stays sound under the merged layout, reads
the same in each property that stays, and null in the others, because these get
a new slot at the end of the layout, beyond the object's header.
An update that gives an object a larger header breaks exactly this, which is why
`stretched` objects are left out and finding 3 exists.

`IndexInv` says that an index has one entry for each object written since it was
made, under the key (`KeyOf`) that the layout gives the object. `KeptKey` shows that a
migration changes no key of an index it keeps: `find_changes` drops an index over
a property that is retyped, so all its properties stay.

`MigrationAssumption` has the hypotheses. Schemas pass `IsarSchema::verify`: names
of properties and of indexes are unique, an index is over properties that exist, an
embedded collection has none. The code generator enforces this; the core has the
check but does not call it when a database opens. The stored schemas a database
may start with are of the same kind, with slots that have no name. A list names a
collection once. The integer that means null is no integer an object is given.

### The SQLite tables

`SQLiteStoreProofs` proves all properties of the run `sqlite_store`, for any schemas,
objects, parameters per statement, numbers of openings and of writes:

* `WatchedAreTold`: `WatchedWritesTold`. It is inductive as it stands, because an
  operation replaces the hook before it writes.
* `OnlyDuplicates`: `OnlyDuplicatesFail`, that no statement of `update_table` is in the
  way of another. The exception, `Unnameable`, is about the names that are asked for
  and those in the file, not about what the migration does with them: a column that
  comes back in another case is dropped first and is no exception.
* `AsWantedAlways`: `TablesAsWanted`.
* `AsMeantAlways`: `RowsAreMeant`.

The last three come from one invariant, `StoreInv`, which TLC has checked on the
instance of the run. They speak of an open database or a failed opening; the
invariant says what is true in between and on disk.

* The engine stores no schema, so what it reads back must be a schema. `DbInv` says
  that every table is `Made` as one of the schemas an application may open with
  wants it: its columns are that schema's properties in some order, its indexes
  are that schema's, and the unique ones hold. `NamesApart`, a part of it, says that
  SQLite can tell all names in the database apart, so that dropping an index drops
  that one and no other.
* `Migrating` says how far an opening is: the tables of the schemas before `step` are
  made as they are wanted, with their rows `Carried` over from the committed
  database, and the other tables are still as they were.
* `Agrees` says that rows and what the application knows are the same, but for the
  properties whose type is misread.

`Updated` is the heart of the migration: run on a table that is made as an old
schema wants it, the four kinds of statements either fail, and then over duplicate
rows, or leave the table as the new schema wants it with the rows carried over. It
needs that an index over a column that goes has gone before (`NewIndexes`), and that
what stays and what is added are the new properties, once each (`NewColumns`).
`SavedInserts` is the heart of the insert session: after any number of calls of
`save` the rows of the statements that were executed, followed by those bound to
the statement under way, are those of the objects saved so far, one after the
other. `ReplaceAgrees` shows that a row is replaced in the table exactly when it is
in what the application means, although the two may differ in misread properties:
those are embedded objects, and no index is over one.

Hypotheses. `SQLiteStoreAssumption` types the bounds, says that a list of schemas
names a collection once and that every schema is `Verified`. The last three theorems
also assume `DeclarationsApart`:

* The name of an index has one part. Without it they are false, and that is
  finding 4. TLC's instance of `sqlite_store` satisfies it, that of
  `composite_index_reopen` does not.
* The joined name of an index is no table's name; SQLite would refuse the second.
* Two versions of a collection do not give a property different types that are
  declared alike but for case, as an embedded type named "Text" and a string are: the
  migration would take them for the same and keep the column.

About names that SQLite refuses or cannot tell apart they assume nothing.

### Induction

`AddProperties`, the writer's loop, `Distinct` and sums are recursive functions,
and the theorems of the library about induction and recursion take an operator as a
parameter, which the provers cannot instantiate. `Least` or `LeastOf`, `Upward` and
`Recursion` state them for a set in place of the predicate, from the library's fact
that the finite sets are well-founded under inclusion. `Named`, `Distinct`, `InsertRows` and
`Saved` are written with such functions, because the prover has no facts about
`SelectSeq`, `SetToSortSeq` and folds.

### What is only model-checked

* Liveness (`WritersGetTheirTurn`, `AsyncOpenEnds`), which is beyond the prover.
* `OnlyEqualReplaced` of `NativeMigration`: that the bytes of different keys differ is a
  fact about a recursive encoding.
* `FiltersExact` of `NativeFilter` and `WildMatch`: the comparison of strings and the
  matching of patterns are recursive operators.

## Findings

Four runs end in a violation of a sentence the repository says about itself:

1. A putAll that fails in the SQLite engine leaves the write mutex locked
   (`failed_insert_keeps_mutex`).
2. Two isolates that close at once may both leave the closing to the other
   (`nobody_closes`).
3. In the native engine `update` of an object that was written before a property
   was added gives the property a value: the object gets the header of the new
   layout, and its old dynamic data lies where the property is read
   (`added_property_not_empty`). If the property is a string, reading it may panic.
4. A SQLite database with an index over several properties, under its default
   name, cannot be opened a second time (`composite_index_reopen`).

Behaviour worth knowing that contradicts no document, or that the models name
as the exception of a property:

* `clear` does not reset the auto increment counter, although the documentation
  of `IsarCollection.clear` says so.
* A watcher that joins a list during a transaction in which an earlier one of
  the list is registered already hears nothing of that transaction
  (`mark_watchers_changed` stops there), and a detailed watcher that starts in
  the middle of a put may see an update as an insert. `SteadyWatchersTold` and
  `LogReplays` are about watchers in place before the transaction.
* In the native engine an exclusive bound on a string loses strings:
  `lessThan("b")` becomes "at most a" and misses "az", `greaterThan("a")` becomes
  "at least b". Without case the bound is raised before it is folded.
* Committing a native transaction after one of its calls has failed answers Ok
  although nothing is stored (`native/mdbx/mod.rs:43`), and its watchers are notified
  of changes that were undone (`native/native_txn.rs:92`), while `watchers.mdx:15` has
  them notified "after a transaction commits successfully and the target actually
  changes". It happens when the callback of `write()` swallows an error.
* The change detector misses updates that leave the length of a list, or the inner
  value of a JSON text in a field named `value`, as it was, and those between numbers
  that are not finite and null; detailed watchers are not told of them
  (`core/change_detector.rs:163`, `:229`, `:262`). `LogReplays` is up to that.
* `Isar.deleteDatabase` of a database that is open removes the file under the
  instance (`native/native_delete.rs:9`): what is committed to it afterwards is lost
  when it closes, and if it comes while a compaction is at work, the database is
  back. The test "should throw if database is open"
  (`isar_plus_test/test/delete_database_test.dart:44`) accepts that nothing is thrown.
* The SQLite engine does not quote names (`sqlite/sql.rs:15`). An application that
  renames the collection `user` to `User`, has properties `name` and `Name`, or a
  property `order`, cannot open its database. `OnlyDuplicatesFail` names this as its
  exception.
* `min` and `max` find nothing if all values are the greatest or the least of
  the type, from which the search starts.
* Aggregates ignore the sort order, so with distinct they may pick other
  representatives than a sorted find does.
* Stored dates are in microseconds and `aggregate` reads them as milliseconds.
* `.not().anyOf([])` leaves the negation pending for the next condition.
* `begin_txn` of the SQLite engine keeps the mutex when BEGIN fails.
* When SQLite rolls back on its own (disk full), the ROLLBACK of `guard` fails
  and the transaction stays "active": later statements commit one by one.
* After a commit that fails `write()` aborts the freed transaction.
* A plain close releases the lock of `INSTANCES` before the environment is
  dropped; an open in between is refused by MDBX.
* A `.compact` copy left by a crash makes every later compaction fail, and with
  it the open that asked for it. `deleteFromDisk` does not remove the copy.
* An object whose id is the largest 64-bit integer wraps the counter.
* Keys of composite string indexes are concatenated without a separator: ("ab",
  "c") and ("a", "bc") have one key, and a put of one evicts the other if the
  index is unique. Null is the string of the character 0, and the empty string
  that of the character 1. These are the exceptions of `OnlyEqualReplaced`.
* The native engine does not fill an index that is added to a collection with
  objects (`migrate_collection` ignores `_add_indexes`): older objects enter it
  when they are written next, and until then do not keep a unique key.
* `verify` of a schema is never called when a database is opened. Databases of
  native indexes are named `_collection_index`, so two collections with
  underscores in their names may share one.
* Two collections of the SQLite engine whose joined names are equal compete for
  one index name. An embedded type named like a data type ("Json", "text", in any case) is
  misread, and its column is dropped and added again, empty, at every opening.
  A collection with more than 998 properties accepts no object.
* The hook of a SQLite insert stays: in the same transaction an insert into a
  collection without watchers is reported to those of the collection before.
  Rows that make way for another in a unique index, and those of a cleared
  collection, are reported to no basic watcher.
* If a putAll of the SQLite engine holds one id twice, both detailed changes are
  relative to the object before the call.
* `?` in a pattern stands for one byte, while `queries.mdx` has it for one
  character; `FiltersExact` names strings with longer characters as its exception.
* A put that takes an object out of a query's result does not notify the query's
  watchers: only the new object is matched (`native_collection.rs:166`), while
  `watchers.mdx` promises "Get notified when query results change".
* Detailed changes of one collection go to the detailed watchers of every
  collection written by the same transaction (`core/watcher.rs:199`).
* `write()` commits when its callback has returned, for an asynchronous callback
  with its future: an error thrown in it later comes after the commit
  (`impl/isar_impl.dart:341`), while `transactions.mdx` has all changes rolled back.
* A group of alternatives at the start of a chain is taken apart by the next
  condition: `group(a or b).and().c` means `a or (b and c)`
  (`query_builder.dart:86`). `PrecedenceHolds` names it as its exception.

## Not modelled

* Calls that throw before they reach the C interface (a write inside a write, a
  closed instance), because they change nothing; closing an instance inside a
  callback; killing an isolate in the middle of a call.
* More than one database per process: registry entries do not interact.
* The cursor pool and buffer cache of `NativeTxn`: they carry no state that a
  later call can see.
* What a detailed change says about fields (`core/change_detector.rs`); how the
  detector reads an object is the constant `Shown`.
* Limits of SQLite (columns of a table, length of a statement) and a disk that
  fails while a database is opened; columns whose definition SQLite reads as
  something else than a column, as one named `constraint`.
* Floats, bools, lists and nested objects in the layout of objects and in keys;
  the SQL of queries and the bindings of SQLite's C interface; JSON: conversion
  without state.
* Code generation, the web bindings and the inspector.
* Third-party code. The C and C++ files of the repository are the vendored
  amalgamations of SQLite and SQLite3MultipleCiphers in
  `packages/sqlite-wasm-rs` and generated window runners of the example and test
  applications. The database's own logic is Rust and Dart, and that is what the
  modules model; SQLite and MDBX are external, and every place where the models
  rely on them is marked so in `PROJECT.json`.

## Plan

Done: `TxnMap`, `NativeStore`, `Watchers`, `SQLiteSession` and `Instances` with their
proofs; `NativeQuery` with its proofs, `NativeFilter` and `WildMatch`; `QueryBuilder`
with its proof; `NativeMigration` with `SchemaChanges`, `NativeObject` and `IndexKey`, and its
proofs; `SQLiteStore` with its proofs.

What would come next:

1. The queries of the SQLite engine against those of the native one: three-valued
   logic over null, collation, GROUP BY for distinct.
2. `NativeMigration` composed with `Instances`: two isolates that open the same
   file with different schemas.
3. Lists and nested objects in `NativeObject`, whose updates move dynamic data too.
