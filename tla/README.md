# atinyvectors in TLA+

A specification of the state-changing core of atinyvectors: the catalog of
spaces, versions and vector indexes, the id cache in front of it, access tokens,
the store of vectors with its FAISS indexes, the schema and its migrations,
snapshots and their restoration, and metadata, filters and documents. TLC checks
small instances; TLAPS proves, for every size, every property that a passing run checks but
one, which is liveness (`SomeCallEnds`); among them what the filters mean and the refinements.

Paths below are relative to the repository.

## The system

atinyvectors is a C++ library. Host threads call it through the C API (`capi/`)
or directly. Everything is a process-wide singleton on top of one SQLite
connection; there are no background threads.

| Part | State | Operations | Calls |
|---|---|---|---|
| SpaceManager, VersionManager, VectorIndexManager (`src/impl/SpaceImpl.cpp`, `VersionImpl.cpp`, `VectorIndexImpl.cpp`) | tables Space, Version, VectorIndex | add, update, delete, queries | IdCache::clean, FaissIndexLRUCache::clean |
| IdCache (`src/impl/IdCacheImpl.cpp`) | eight maps, four mutexes, pools of sparse vectors | lookups that fill the maps, clean, clearSpaceNameCache | the tables, RbacTokenManager |
| RbacTokenManager, RbacTokenService | table RbacToken; rbacTokenCache in IdCache | issue, look up, update, delete, purge | IdCache |
| VectorManager (`src/impl/VectorManagerImpl.cpp`) | tables Vector, VectorValue; the list of indexes to flush | addVector, flush, updateVector, deleteVector | FaissIndexLRUCache, FaissIndexManager |
| FaissIndexLRUCache, FaissIndexManager (`src/impl/algo/`) | a list and a map of index managers; per manager a FAISS index, the flag `indexLoaded` and a file | get, clean; restore, load, save, add, search | the tables, IdCache |
| SnapshotManager, SnapshotService (`src/impl/SnapshotImpl.cpp`) | table Snapshot, zip files, backups and index files in the data directory | create, restore, delete, cleanupStorage | FaissIndexManager, IdCache, DatabaseManager |
| DatabaseManager (`src/impl/DatabaseManagerImpl.cpp`) | the connection, table info | open, migrate, reset | SQL scripts in `db/` |
| SpaceService, VersionService, VectorService, SearchService | none | JSON in, manager calls, JSON out | all managers |
| VectorMetadataManager, BM25Manager, RerankService | tables VectorMetadata and BM25 | inserts, deletions, filterVectors, queryVectors, scores | FilterManager |
| FilterManager (`src/impl/filter/`, `parser/`) | none | a filter's text to an SQL condition | PlanParser, SQLBuilderVisitor |
| SparseDataPool, Config, C API | an allocator; environment variables; none | | |

What is hard here: the cache is read without locks and cleaned at different
points of the manager calls; the four mutexes are taken in two orders; the
tables, the memory and the index files are three copies of the vectors that are
brought in step at different times; an exception rolls the tables back and
nothing else; a restore replaces the database under caches and files that other
threads go on using; `upsert` is many transactions; a filter is parsed twice, by
two grammars; numbers (`unique_id`) are reused while ids are not. `PROJECT.json`
lists every such hazard at its line with the properties that cover it.

## The modules

| Module | Models |
|---|---|
| `Tables` | functions as tables and maps: `Put`, `Drop` |
| `Selection` | abstract: owners with at most one chosen item |
| `Catalog` | Space, Version, VectorIndex and their managers; implements `Selection` twice |
| `CatalogProofs` | theorems about `Catalog` and `IdCache` |
| `IdCache` | `Catalog` and the cache, one call at a time |
| `IdCacheThreads` | `IdCache` with the calls cut into their steps, several threads, the mutexes |
| `ThreadProofs` | theorems about `IdCacheThreads` |
| `Services` | SpaceService and VersionService: chains of lookups and manager calls of several clients, over `IdCache` |
| `ServicesProofs` | theorems about `Services` |
| `Rbac` | the tokens, their cache, several threads, the clock |
| `RbacProofs` | theorems about `Rbac` |
| `VectorStore` | the vectors of one version: tables, managers, LRU cache, files, crashes |
| `StoreProofs` | theorems about `VectorStore` |
| `Database` | DatabaseManager: the schema over installations, restarts, resets and releases |
| `Snapshot` | `Database` with spaces, caches and files: createSnapshot, restoreSnapshot, cleanupStorage and what runs between their steps |
| `SnapshotProofs` | theorems about `Database` and `Snapshot` |
| `Filter` | FilterManager: parser, visitor, and SQLite's reading of the result |
| `Upserts` | upsert, deletions and ranking over the tables Vector, VectorMetadata and BM25 |
| `FilterProofs` | theorems about `Filter` |
| `Documents` | filtered searches and listings of these tables; over `Filter` and `Upserts` |
| `UpsertProofs` | theorems about `Upserts` and `Documents` |
| `MC*` | instances for TLC |

`IdCacheThreads` and `Services` extend `IdCache`, which extends `Catalog`. `VectorStore` has its
own view of the VectorIndex table, the set of live ids, since nothing else of a
row matters there. `Rbac` shares only `clean()` and `cacheMutex` with the others
and declares its own. `Snapshot` extends `Database` and reduces the catalog to spaces
with one version and one index; `Documents` extends `Filter` and `Upserts`, which take any result
of a search and any embedding, as these are `VectorStore`'s.

### Catalog

A table is a function from live ids to the columns the behaviour depends on; an
AUTOINCREMENT counter stands beside each. Each action is one manager call with
all its statements, because each runs in one transaction (assuming that no
other thread writes at the same time through the shared connection: see *Not modelled*). Foreign keys are declared
and never enforced (there is no PRAGMA), so callers pass ids of rows that may be
gone; deleting a version leaves its indexes as orphans, as in the code. Rows with
equal `created_time_utc` tie in `ORDER BY ... LIMIT 1` and the clock may be set
back; `updateVersion` and `updateVectorIndex` write whatever creation time their object has. The
heir of a deleted default is any most recent row.

`Selection` says what an `is_default` column promises; `VersionSelection` and
`IndexSelection` are the refinement mappings, and `VersionsAreASelection` and
`IndexesAreASelection` check every step against it. The mapping takes *the*
default of a group, so the refinement leans on `OneDefaultVersion` and
`OneDefaultIndex`, which the same runs check.

### IdCache and IdCacheThreads

The six maps that name ids are variables under their names in
`include/IdCache.hpp`. In `IdCache` a call is one action. Renaming a space
(`updateSpace`), moving an index (`updateVectorIndex`) and deleting one
(`deleteVectorIndex`) are things the managers can do and no service does: the
service `updateSpace` calls the first two with the name and the version it has
read. These calls do not touch the cache, so its entries would outlive what they
name. They are left out of `Next`, and the properties are about the calls that remain.

In `IdCacheThreads` a call is a record with its place `pc`; a step is one find,
query, fill or acquisition. A query under a mutex shares the step of the
acquisition, as none of the tables is protected by a mutex. The finds of
`forwardCache`, `reverseCache`, `spaceNameCache` and the index maps run outside
the mutexes and race with the fills: the model gives such a find the map before
or after the write. That a racing `std::map` may also crash is not modelled.
`workload` is chosen at the start and never changes: with `"any"` each thread may start
any call, with `"names"` only the lookups by name, while versions are added and whole spaces
deleted, which is where `DeletedSpaceForgotten` is stated. `ThreadSpec` has both,
`NamesSpec` the second.

Two threads can block each other for good: `getVectorIndexId` holds
`vectorIndexCacheMutex` and wants `cacheMutex`, `clean` the other way round. The lookup
may be that of `createSnapshot` (`SnapshotImpl.cpp:241`), the `clean` that of `restoreSnapshot`
(`SnapshotImpl.cpp:278`). No fairness makes these calls end. The runs of threads state
`CHECK_DEADLOCK FALSE` for this and because the bounds stop inserts;
`OnlyIndexLookupDeadlocks` says that there is no second such pair, and `SomeCallEnds` that nothing else
holds all threads up: one of the calls they are in ends.

What the model also shows, without a property of its own: `getSpaceId` and
`fetchByVersionIdFromDb` query outside the mutex that protects their fill, so an
overlapping `deleteSpace` or `deleteVersion` can leave an entry of a deleted row.

### Services

A service call is a record with its next step (`pc`) and what it has found so far:
the ids of a space, a version and an index, and a default flag. A step is one
lookup or manager call of `IdCache`, atomic as there; `IdCacheThreads` cuts them
further. An exception ends the chain where it is. A request for
`createSpace` is the list of indexes it asks for, each of which is added as the
default or not: the dense index, the sparse one and the first of the others are
each added as the default, and the last of them keeps the flag. `updateSpace` reads an index, and writes the whole row
back in another transaction. For an index under the key `indexes` it does so through a
pointer to a destroyed object: the model takes "as read" and "no row is
written" for the outcomes. Whether the version has vectors, which makes `updateSpace` refuse,
is left open.

`alone` is a history variable: no other client wrote since this client's call
began. It separates what a call guarantees by itself (`CreatedResolves`,
`DefaultIndexKept`) from what holds in any interleaving (`FoundStillNamed`).

What the model also shows, without a property of its own, as no doc or test
promises otherwise: two clients, or one client after all versions of a space were
deleted, create two spaces of one name; `deleteSpace` between two steps of
`createSpace` leaves a version and indexes without a space; two `updateSpace`
calls that overlap during a `createSpace` leave a version without a default index;
a space whose `createSpace` failed at its first index counts as existing for ever.

### Rbac

`deleted` and `revoked` are history variables. One permission stands for the eight
columns, which are read and written together. `IntProduct` is
`expireDays * 24 * 60 * 60` in an `int`, wrapped as x86 builds do; the instance has
a day of one second and an `int` of -3..2 so that it overflows. The clock may
move either way. `updateToken` is a read, a write and a second lookup "to update
the cache", which finds the old entry there; so after an update the old permissions
are served until the entry goes.

### VectorStore

An embedding is a model value and an index a bag of `<<unique_id, embedding>>`;
what a search looks for is abstracted, so a search is judged by the bag it looks
in. A call is a chain of operations on a *store* (LRU list, managers, files and
the rows its transaction sees) with a flag for an exception, after which the
rest of the chain does not run. An exception in `addVector` rolls the rows back
and keeps everything else. A wrong dimension, the other way a value can fail, is
represented by an index that does not exist.
`Torn` stands for no index: a null pointer in memory, a file that
was truncated and not written. A crash ends the process between calls, or inside
`saveIndex` after it has truncated the file.

`capacity` is the size of the LRU cache, which the environment sets once
(`Capacities`). With room for every index (`RoomForAll`) `StoreSpec` only adds, flushes,
searches and saves, and `SearchExact` says what searches find; with less room it has
every call, evictions and crashes. `GrowSpec` is the part that only adds, for the
two promises of the tests that eviction and snapshots break.

### Database

`schema` is what migrations can tell apart: whether there is a table Space, a table
info, a row in it, and which scripts the tables have. Release *r* ships the
scripts 1..*r* and a `reset.sql` with all of them. `Open` is `getInstance` with the
`migrate` it runs, one transaction, so that a process that ends inside it leaves the
schema as it was. `Repeatable` is the set of scripts that succeed on a schema that
has them. A database starts empty or as one from before info existed (`BeforeInfo`).

The version is recorded by an UPDATE, which finds no row in a database that
`reset.sql` has just made: a new installation has no recorded version, and no later
release changes it. `OpenedIsCurrent` is therefore about databases that have one.

### Snapshot

One thread is inside `createSnapshot` or `restoreSnapshot` (`call`), cut where other calls
can be seen: the backup of the database, the saving of each index it lists, the
archive; the cleaning of `IdCache`, that of the index managers, the unzipping, the replacement of the database,
which may fail (`CopyFails`) when the unzip has already overwritten files. Calls
of other threads (`Overlapping`), crashes, restarts, resets and new releases come in
between. A space stands for its one version and that version's one index. A lookup or `clean()` of `IdCache` is a part of
a step, without its mutexes: a call that waits for one stays where it is, perhaps for good, and nothing is said here
about what must happen. `cleanupStorage` is a part of the first step: it removes the directories of spaces that are not in
`spaceIdCache`, and as nothing in the library calls `getSpaceId`, also those of live
spaces; `CreateLosesNothing` says that a search finds their vectors all the same.

History are, of a restore, `pristine` (no backup lay in the data directory when it began),
`alone` (nobody overlapped it), `wanted` and `exact` (what the archive has); of a snapshot, `exact` (the
indexes saved as the backup has them) and `kept` (no index manager was dropped since it
began); and `mixed` (a call was answered during a restore, from when it had cleaned `IdCache`). `kept` matters because `deleteSpace`
of any space drops the index managers of all: an index that a running `createSnapshot` has already saved is then
created anew by the next write, and its file, rewritten without what was in memory, goes into the archive
with less than the backup has. The instance, with one vector, does not tell; the
proof did. What the model shows without a property of its own: a second restore may
bring back the backup an earlier one unpacked, as the first `backup_*.db` of the
directory is taken; index files the snapshot did not list survive a restore and are
found by the ids it issues again; a second snapshot within a minute
overwrites the first.

### Filter, Upserts and Documents

`Filter` has three steps: `PlanParser` by precedence climbing over a list of tokens,
the SQL tokens `SQLBuilderVisitor` writes, and SQLite's reading of them with its own
precedences. Only the first two are code of the repository: `Reader`, `Exists` and `Value` stand for
SQLite, as the conditions are used. A metadata condition is one token, as the visitor wraps it in
`EXISTS (...)`.

The parser is a function from a call (what it has on its left, the tokens it has still to read, the least
precedence it takes) to what that call returns, for each depth of calls inside it: `Parser[d]` makes its inner calls by
`Parser[d - 1]`, and `toSQL` starts with a depth that is enough for the tokens there are, two calls for each. The visitor
makes the text of a node from those of its parts and from nothing around them, so the
model applies it when the parser makes the node instead of walking a tree afterwards: a node is the token
it is about and its text. `Formulas` is the list of the filters callers write: each names its parts by their
places in it, which come before its own (`FilterAssumption`). `Written` writes a formula with the
parentheses the parser needs, and `Means` is the set of metadata it is true of, numbers compared as
texts. `FilterAgrees` compares the two. (`Once` only makes TLC compute a table once.)

What the model shows without a property of its own: `NOT` binds tighter than `>` and `IN`
in the parser, so `NOT age > 30` never selects anything; `!=` needs a row with
another value, and a vector without metadata never matches; `visitParens` drops
the parentheses around a comparison of parentheses; what follows a complete
expression is ignored; `a == 1 + 2` is `(a == 1) + 2`.

`Upserts` has `upsert` as a loop over the items of a request (`sent`, of which it is at number
`at`): a vector, the deletion of its metadata, one transaction for each new row, the document; any of them may throw (`Fail`), as
`BEGIN` does when another thread is inside its own transaction on the shared
connection. Deletions of vectors and spaces come in between. `given` and `mixed` are history:
what each vector was sent, and which vectors two overlapping upserts have written. `rerank` is the
set of results `std::sort` may give, as it leaves equal ones in any order.

What it shows without a property of its own: `filterVectors` looks up a
`unique_id` in all versions; a document is inserted with every upsert and listings
show the oldest, while the score is that of the last; `deleteVector` leaves metadata
and documents behind, which no later vector inherits as ids are not reused.

## The runs

| Run | Instance | Shows |
|---|---|---|
| `catalog` | 1 name, 1 clock reading, 2 spaces, 3 versions, 2 indexes | the invariants of the catalog and both halves of the refinement |
| `services` | 2 clients, 2 names, 2 spaces, 2 versions, 2 indexes, one index per `updateSpace` | ids stay what they were found as; calls that nobody overlaps do what they report |
| `id_cache` | 2 names, 2 spaces, 3 versions, 1 index | no stale entry when calls do not overlap |
| `threads` | 2 threads, 1 name, 2 spaces, one at a time (`NamesSpaces`), 2 versions, 1 index; 1 space and 1 version with any calls (`AnySpaces`, `AnyVersions`) | mutexes are released on every path; only one pair can deadlock; one of two calls ends otherwise; a lookup that overlaps `deleteSpace` leaves nothing behind |
| `threads_default` | as above, 1 space | **violated**: a stale default version |
| `rbac` | 2 threads, 1 token string, 2 rows, clock 0..2 | revoked tokens stay revoked; the purge takes expired tokens only |
| `rbac_delete` | 1 thread | **violated**: a deleted token still works |
| `store` | 2 indexes, room for 1 or 2, 2 vectors, 1 embedding | rebuilds and unique_ids over crashes, failures, evictions; exact searches where there is room |
| `store_evict` | 2 indexes, room for 1, 3 vectors, 2 embeddings | **violated**: a vector is lost by eviction |
| `store_snapshot` | the same | **violated**: a snapshot empties an index |
| `snapshot` | 1 name, 1 vector, 1 archive, 1 space id, 1 backup left behind, 2 releases | a first restore is exact, every release opens what is left, nothing is lost |
| `documents` | 2 keys, 2 values, 2 versions, 2 unique_ids, 2 threads, 3 upserts of 2 requests, 2 vectors, 2 documents | filters mean what they say; metadata never mix; the latest document ranks |

**Fairness and deadlock.** The library has no scheduler or background work, a host may
stop calling it at any time, and `std::mutex` promises no fairness: a thread may
be passed over for ever by others. What the host's scheduler gives is that while some
call can go on, one does. `FairThreadSpec` of `IdCacheThreads` is weak fairness of that
(`SomeStep`: a step of a call, of whichever thread) and nothing else. `SomeCallEnds` follows: when all
threads are inside calls, one of the calls ends, unless an index lookup and a `clean()` block each
other (`LookupBlocksClean`). A mutex that a thrown exception or a `return` keeps, a thread that
asks for a mutex it has, a circle of other calls, a call that goes round: each would break it. No other run assumes
fairness. `snapshot` least of all: its calls make those lookups and cleanings. `snapshot` checks
deadlock; the other runs state `CHECK_DEADLOCK FALSE`, because the bounds on inserts end their
behaviours and because of the deadlock of the threads.

Why the bounds are enough: every hazard of the catalog needs at most three rows
in one group (a default, an heir, a competitor) or two groups. The names of spaces matter only where the cache is. One clock reading
makes every choice of an heir a tie, so that any row may be chosen: distinct
readings only exclude some of these. Two spaces allow
two names as well as one name twice. In the cache three versions allow a number
to be reused in each space; the second thread's call is the one that interferes
and a third would only repeat it. In the store two indexes are the least that
evict each other, and two vectors the least for a reused `unique_id`. Two clients are the least that overlap.
With any calls, liveness is checked on one space and one version: which mutexes a call takes, in which order and on which path, depends on whether
what it asks for is in a map and in a table, and both are so and not so with one row; `ThreadProofs` has the other three
properties, and what `SomeCallEnds` rests on, for every number. Stale entries need a second version, or a second space of the name, which the lookups by name have. Two spaces
of one name at the same time are in `services` and `id_cache`; with two of them here the run was made once, with the same result (962,867 states).
`createSpace` is begun only while a space can still be inserted, `createVersion`
while a version can. In the snapshots one space id is reused as soon as a restore sets
the counter back, one archive name is overwritten by the second snapshot of a minute, and two
releases let a restore bring back the schema of the older. In the documents
two versions are the least for a filter to leave its version, two keys for metadata to
mix, formulas go up to three operators deep with every operator under every other, two requests for upserts to overlap, the third upsert for a vector written
again after that, and 9 and 12 are in another order as texts.

Larger instances that were checked once, with the same results: the catalog with two
clock readings and 2 spaces, 3 versions, 1 index or 1 space, 3 versions, 2
indexes, and with 3 indexes and one reading (0.24 million states); the services with one more index in
a request (0.59 million states); the cache with two indexes (1.04 million states); the store with two
embeddings (1.57 million states); the snapshots with two names (3.5 million states) and in memory (1.12
million states).

## What the violations say

* `threads_default`: `addVersion` cleans the cache first (`VersionImpl.cpp:69`) and
  commits afterwards. A lookup in between caches the old default again.
* `rbac_delete`: `deleteToken` does not touch `rbacTokenCache`.
* `store_evict`: `addVectorData` does not write the file that `loadIndex` prefers
  to the tables.
* `store_snapshot`: `createSnapshot` saves a manager that was never loaded.

## Proofs

Each proof module uses the assumptions of the module it is about and of those that one
extends, and nothing else. The theorems hold for every value of the constants that satisfies them.

`CatalogProofs`, from `BoundsAssumption` and `TimesAssumption`:

* `CatalogTypeCorrect`: `[]CatalogTypeOK`. The invariant is inductive. It is
  the conjunction of one part per table, and each part is preserved by its own
  lemma, which needs the part of the table its rows refer to.
* `OneDefaultVersionCorrect`, `OneDefaultIndexCorrect`, `UidCorrect`. Not inductive alone: a new id
  must be unused, which is the bound of the type invariant. `AddVersionRows`,
  `AddVectorIndexRows` and their siblings say what an action does to the
  rows, column by column; the steps use only these.
* `DeadIdsCorrect`: `DeadIdsStayDead`, from the counters.
* `DefaultVersionKeptCorrect`: `DefaultVersionKept`. When the default is deleted there
  is a most recent row among the rest (`HeirExists`). Its proof takes a least counterexample by the
  well-foundedness of `<`, as the induction theorems that take an operator
  cannot be used.

Also in `CatalogProofs`, on `IdCache`: `VersionLookupsCorrect`, `DefaultLookupsCorrect`,
`IndexLookupsCorrect`. The invariant is `CacheInv`: the three properties together, because
`getVectorIndexId` caches an index for a version it may have found in the cache;
the catalog's types, because a new row must not replace one that is cached; and
`SpacesIssued`, which makes every call of the services a call the managers allow, so that the
catalog's lemmas apply. Each call either cleans the maps, adds to the tables, or
caches what it has just read.

`ThreadProofs`, from `NobodyIsNoThread` and `BoundsAssumption`: `MutexesCorrect` and `DeadlockCorrect`, for
any number of threads. `MutexesMatchCalls` is made inductive by what each call is between two
steps (`CallOK`): which lookup it makes for which, and that the mutexes a cleaning
call still wants are a tail of the list in the code. `MoveKeepsInv` reduces
every step to two facts about the place it goes to. `DeadlockCorrect` follows
from `HoldAndWait`: the only calls that wait while they hold something are the index lookup and
the cleaning calls, and two of the latter both need `cacheMutex` first.

`RbacProofs`, from `NumbersAssumption` and `NobodyAssumption`: `TypeCorrect`, `RevokedCorrect`,
`PurgeCorrect`. `RevokedStaysRevoked` needs `RbacInv`: a row a thread has read keeps its id
and token as long as the row exists, ids are never issued twice, and a thread that is about to fill
the cache holds `cacheMutex`, so that `clean()` cannot come between its query and its fill.

`SnapshotProofs`, on `Database` alone, from `ReleaseAssumption`: `RecordCorrect`, `OpenableCorrect`,
`OpenedIsCurrentCorrect`. The invariant `DbInv` adds to `VersionRecordsScripts` that no recorded version exceeds the
installed release; without it a release could meet scripts it does not know.
`MigratedSchema` says what `migrate` makes of a schema.

The refinement, in `CatalogProofs`: `VersionsSelect` and `IndexesSelect`. The initial tables
are an initial `Selection`, and every step of the managers is a step of `Selection` or a stutter: each kind of
change (a row is added, deleted, chosen, moved, or none of this) is one lemma about the mapping, which
leans on the invariant that an owner has one chosen item at most.

`ThreadProofs` also has `DeletedSpaceForgottenCorrect`, for any number of threads. The property
excludes the time in which a `clean()` is under way (`CleanComing`), so the proof is about
how that time ends. `clean()` takes all four mutexes in a row and clears when it has them (`AllHeld`): no other
call is then inside a scope, so none has read something it has not cached yet. Before
and after, `NamesInv` holds: what the maps answer is what the tables have, and what a lookup has in its hands,
a key or an id, is still there. A deletion breaks this and is always followed by a `clean()` of the same
thread. It needs the catalog's invariants, hence also `BoundsAssumption` and `TimesAssumption`.

`ServicesProofs`, from the assumptions of `CatalogProofs` and `ServicesAssumption`: `ServicesTypeCorrect`,
`FoundStillNamedCorrect`, `CreatedResolvesCorrect`, `DefaultIndexKeptCorrect`. `ServicesInv` is `CacheInv`, the
types and `CallsOK`: the ids in a call's hands were issued, so that no later row can take them, and
as long as they have a row it is the one the call asked for. The two properties of calls that nobody overlaps
follow a single call from step to step: `AloneUndisturbed` says that such a call's tables change by its own steps only.

`StoreProofs`, from `StoreAssumption`: `StoreTypeCorrect`, `UidNamesOneVectorCorrect`,
`FirstAddReindexesCorrect`, `AddedIsSearchableCorrect`, `SearchExactCorrect`. A call of the store is a chain
of operations, so the proof has one lemma for each of them (`GetFacts`, `RestoredFacts`,
`LoadedFacts`, `AppendedFacts`, `InsertedFacts`, `SavedFacts`): which index it touches, when it fails, what the list, the
map, the file and the rows are afterwards. `addVector` and `flush` run over lists of any
length; `AddedSoFar` is what has been done after some of the values, and `Upto` carries it to the last,
by a least counterexample. An index that `addVector` brings into memory, perhaps after a value of the same call
evicted it, gets the rows before the new value is inserted and then that value
(`RowsOfOne`, where it matters that a `unique_id` names one vector). `SearchExact` needs `GrownInv`: while
vectors are only added and there is room, an index in memory has exactly the rows, what is not marked
loaded has them in its file too, as `loadIndex` will read that instead, and an index not in memory has no rows.
That `get` evicts nothing then is the pigeonhole principle for the LRU list (`ListHasRoom`). The
assumption says that `Torn` is no bag, and that a request has one value for an index.

`SnapshotProofs`, on `Snapshot`, from `SnapAssumption` and `ReleaseAssumption`: `SnapTypeCorrect`,
`CachesOfThisDatabaseCorrect`, the three properties of `Database` with restores, `FirstRestoreExactCorrect`,
`RestoredIsSearchableCorrect`, `CreateLosesNothingCorrect`. `SnapInv` has four parts: types, with `DbInv` of the live
database; `Archived`, that every backup, in the data directory or in an archive, has `DbInv` of a release not later than the
installed one, and that what an archive calls exact is so; `CallOK`, that what a running snapshot has saved is in the files and
also in memory, where a write will find it; `CachesOK`, that the caches are of the present database.

`UpsertProofs`, from `UpsertAssumption`: `DocsTypeCorrect`, `UpsertsStayWholeCorrect`, `LatestDocRanksCorrect`.
`UpsertInv` says of a vector that no overlapping upserts wrote that its metadata are within what one request
gave (`Whole`), of every id issued that its last document is the last it was given, also when the vector is gone
(`LatestDocs`), and that a version has a `unique_id` once. The half of `UpsertsStayWhole` about an upsert that returns needs
`Progress`, which says after any number of steps what an upsert nobody overlaps has done so far: the vectors of the items before
`at` have the last metadata sent for them, those of the item in hand lack the rows still to be added. It is inductive
because two items with one `unique_id` have one vector and others have others (`OneVector`).

Also in `UpsertProofs`, with `FilterAssumption` and `RowsAssumption`: `FilterAgreesCorrect` and `ListingsStayInVersionCorrect`.
Neither follows from `UpsertInv`: a listing takes the rows of its version, so the proof has to know
that the rows of a vector are of the version the vector is in, although `deleteVector` leaves its rows behind and an
upsert writes them long after it has found its vector. `VersionsInv` adds to `UpsertInv` that the rows of a
live vector carry its version (`RowVersions`) and that so does the call an upsert is in
(`CallVersions`). A new vector has an id that nothing refers to yet, and no other step moves one (`VectorsKept`).

`FilterProofs`, from `FilterAssumption`: `FiltersSelectWhatTheyMean`, for any number of formulas of any size. It is what
`FilterAgrees` says of filters, and `UpsertProofs` uses it.

* A recursive function is what its definition says of it only when there is such a function: for `Parser`, `Reader`,
  `Written` and `Means` this is proved first (`ParserUnfolds` and so on). There is one up to every depth,
  by a least depth that has none, and no other, so that these make up the whole.
* The parser and SQLite's reading, call by call (`ReadsParens`, `ReadsNot`, `ReadsOperator`, `ReadsNoMore`, ...; `SqlReadsParens`, ...):
  what a call gives at *any* depth of two calls for each token or more, which makes the depth vanish from all that follows.
* A text that reads right in one place may not do so in another. `Reads`, of an SQL text, says that it has its value wherever
  it stands, as the right side of an operator that binds less than `=`, and after a comparison; `Stands` and `Parses` say such things of
  a filter's text. For each thing the visitor writes (`SaysNot`, `SaysLogical`, `SaysEqual`, ...) and each form callers
  write (`NotParses`, `BothParse`, `EqualParses`, ...) there is a lemma that the whole reads right if the parts do. What
  `visitParens` leaves out, and the missing parentheses around what `visitEquality` writes, matter here: `=` is
  associative for 0 and 1, so the text means the same.
* `RightAll`: every formula's text becomes an SQL text that says what the formula means, by a least place in `Formulas` where
  it does not. `WhereReads` puts "outer AND" before it.

The tables of every other module go through histories the managers allow: `CachedCatalog` (`IdCache`), `ThreadsCatalog`
(`IdCacheThreads`) and `ServicesCatalog` (`Services`) prove `... => CatalogSpec`, so the theorems about `Catalog`, its refinement of
`Selection` included, hold of them too. With the identity as the mapping this is about the steps. The work is in `ThreadsCatalog`: a call
inserts a version long after it has read the id of its space, while other threads delete the space, so
`TablesInv` says of every call that is to commit, or will when it has cleaned the cache, that the id was issued (`CommitsIssued`).

`SomeCallEnds` is liveness and stays with TLC: TLAPS has neither `ENABLED` nor induction over a measure here. What makes it
true is proved, in `ThreadProofs`, for any number of threads: `SomeCallIsFree`, that whenever threads are inside calls one of them waits for
nobody, unless a lookup and a `clean()` block each other (a mutex is held by a call that is in its scope; who holds one mutex and wants
another is the index lookup or a cleaning call, and of these none but that pair can form a circle: `WantsMutexes`, `HolderWaits`); and `CallsShorten`, that each step of a
call leaves it less of the at most twenty steps `Left` counts. The step from the two to `SomeCallEnds` is only model-checked.

Also in `SnapshotProofs`, what holds of the steps of a call whether or not the next one comes: `RestoreFindsBackup`, that the
backup a restore is to copy back is there when it looks for it, and `CallsShorten`, that each step of a
`createSnapshot` or `restoreSnapshot` ends it or leaves less of it, one space of the list or one stage of a restore, and no other step gives it more.

One proof attempt corrected the model: `kept`, above. Another changed its form: the parser was recursive in a way TLAPS
cannot see into, and is now a function of the depth. Only model-checked: `SomeCallEnds`.

## Not modelled

* The JSON of the services and the C API's conversions, the names and settings of indexes.
* Statements of one thread that another thread's rollback on the shared SQLite connection
  undoes. That a second `BEGIN` throws is `Fail` in `Upserts`.
* The table Snapshot, which no service reads; an unzip that a crash cuts short.
* In filters: arithmetic, `LIKE`, JSON identifiers, constants on the left, lexical errors. In listings:
  `total_count` (which ignores the filter) and pages (which can repeat vectors).
* SparseDataPool: what can go wrong there is a dangling pointer, whose outcomes no state
  of the models tells apart. Config: constants here.
* Scores beyond their order, distances, FAISS graphs: pure computations.

## Plan

1. Done: `Catalog`, `IdCache`, `IdCacheThreads`, `Services`, `Rbac`, `VectorStore`, `Database`, `Snapshot`,
   `Filter`, `Upserts`, `Documents`; a theorem for every property that is not liveness.
2. Open: two threads on one connection, with a rollback that takes another thread's
   statements; `VectorStore` and `Snapshot` as refinements of a store without caches and files.
