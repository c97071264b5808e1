------------------------------- MODULE Snapshot -------------------------------
(***************************************************************************)
(* SnapshotManager and SnapshotService over a database that is opened,      *)
(* written, restarted and upgraded: the steps of createSnapshot and         *)
(* restoreSnapshot in one thread, and the calls other threads make between  *)
(* them.                                                                    *)
(*                                                                         *)
(* A space stands for its one version and that version's one index, which   *)
(* has its id: the three are inserted together.  Vectors are only added.    *)
(* The LRU cache has room for every index (VectorStore has the evictions).  *)
(* A lookup of IdCache or a clean() is a part of one step here: its mutexes *)
(* are in IdCacheThreads.  A call that waits for one stays where it is, for *)
(* good if it is deadlocked, so nothing is said here about what must happen. *)
(* Not modelled: the table Snapshot, which no service reads; the archives   *)
(* inside an archive; an unzip that a crash cuts short.                     *)
(***************************************************************************)
EXTENDS Database, Tables, FiniteSets

CONSTANTS
    Names,         \* of spaces
    Vectors,
    FileNames,     \* of archives: a name is the minute a snapshot was taken in
    MaxSpace,      \* bound: the ids of spaces
    MaxExtracted,  \* bound: restores, while as many backups lie in the data directory
    NoCall

ASSUME SnapAssumption == MaxSpace \in Nat \ {0}

VARIABLES
    space,     \* id -> [name, vectors]: the rows
    seq,       \* AUTOINCREMENT counter
    ids,       \* IdCache: name -> id, as found by the lookups by name
    spaceIdCache,   \* the names getSpaceId was asked for
    manager,   \* FaissIndexLRUCache: id -> [name, entries, indexLoaded]
    file,      \* index files: <<name, id>> -> entries
    extracted, \* the backup_*.db in the data directory
    archives,  \* snapshot/: file name -> archive
    call,      \* the createSnapshot or restoreSnapshot under way
    mixed      \* history: a call was answered while a restore was under way

content   == <<schema, space, seq>>
cacheVars == <<ids, spaceIdCache, manager>>
disk      == <<file, extracted, archives>>
snapVars  == <<dbVars, space, seq, cacheVars, disk, call, mixed>>

SpaceId == 1..MaxSpace
Path    == Names \X SpaceId

(* What backupDatabase() copies, and what an archive holds. *)
Backup == [schema |-> schema, space |-> space, seq |-> seq]
Becomes(b) == schema' = b.schema /\ space' = b.space /\ seq' = b.seq

(* A call another thread makes while a snapshot or a restore is under way:  *)
(* the latter is no longer alone, the former may lose its index managers.   *)
Noted ==
    call' = IF call = NoCall THEN NoCall
            ELSE IF call.pc = "save" THEN [call EXCEPT !.kept = @ /\ DOMAIN manager \subseteq DOMAIN manager']
            ELSE [call EXCEPT !.alone = FALSE]
IsRestoring == call # NoCall /\ call.pc \in {"clean", "unzip", "copy"}
Mixing == mixed' = (mixed \/ IsRestoring)

----------------------------------------------------------------------------
(* IdCache and the index managers. *)

LiveNamed(n) == {i \in DOMAIN space : space[i].name = n}
Resolved(n)  == IF n \in DOMAIN ids THEN {ids[n]} ELSE LiveNamed(n)

Manager(i) ==
    IF i \in DOMAIN manager THEN manager[i]
    ELSE [name |-> space[i].name, entries |-> {}, indexLoaded |-> FALSE]
PathOf(m, i) == <<m.name, i>>

(* restoreVectorsToIndex: an empty index is filled from the rows and saved, *)
(* which leaves its file the same as the index.                             *)
Rebuilt(m, i) == IF m.entries = {} THEN [m EXCEPT !.entries = space[i].vectors] ELSE m

(* loadIndex: from the file, or from the rows if there is none. *)
Loaded(m, i) ==
    IF m.indexLoaded THEN m
    ELSE [m EXCEPT !.indexLoaded = TRUE,
                   !.entries = IF PathOf(m, i) \in DOMAIN file THEN file[PathOf(m, i)]
                               ELSE space[i].vectors]

(* What a search of a live index goes through. *)
Searched(i) == Loaded(Manager(i), i).entries

----------------------------------------------------------------------------
(* The calls of other threads. *)

createSpaceUncounted(n) ==   \* faulty variant: the counter stays
    /\ up /\ seq < MaxSpace
    /\ release < MaxRelease
    /\ Resolved(n) = {}
    /\ space' = Put(space, seq + 1, [name |-> n, vectors |-> {}])
    /\ ids' = Empty /\ spaceIdCache' = {}
    /\ UNCHANGED <<schema, release, up, seq, manager, disk>>
(* createSpace: IdCache::clean comes with the insertion of the version. *)
createSpace(n) ==
    /\ up /\ seq < MaxSpace
    /\ release < MaxRelease   \* bound: spaces of the last release are not looked at
    /\ Resolved(n) = {}
    /\ seq' = seq + 1
    /\ space' = Put(space, seq + 1, [name |-> n, vectors |-> {}])
    /\ ids' = Empty /\ spaceIdCache' = {}
    /\ UNCHANGED <<schema, release, up, manager, disk>>

(* deleteSpace: the files stay. *)
deleteSpace(i) ==
    /\ up /\ i \in DOMAIN space
    /\ space' = Drop(space, {i})
    /\ ids' = Empty /\ spaceIdCache' = {} /\ manager' = Empty
    /\ UNCHANGED <<schema, release, up, seq, disk>>

(* upsert of a new vector: restoreVectorsToIndex, INSERT, addVectorData; an  *)
(* index that was not loaded is empty here, and loads what was just saved.  *)
(* An id of a row that is gone makes the call throw.                        *)
upsert(n, v) ==
    /\ up
    /\ \E i \in Resolved(n) \cap DOMAIN space :
         LET m     == Manager(i)
             built == Rebuilt(m, i)
         IN  /\ v \notin space[i].vectors
             /\ space' = [space EXCEPT ![i].vectors = @ \cup {v}]
             /\ manager' = Put(manager, i, [built EXCEPT !.entries = @ \cup {v}, !.indexLoaded = TRUE])
             /\ file' = IF m.entries = {} THEN Put(file, PathOf(m, i), built.entries) ELSE file
             /\ ids' = Put(ids, n, i)
    /\ UNCHANGED <<schema, release, up, seq, spaceIdCache, extracted, archives>>

(* search: loadIndex saves what it has rebuilt. *)
search(n) ==
    /\ up
    /\ \E i \in Resolved(n) \cap DOMAIN space :
         /\ manager' = Put(manager, i, Loaded(Manager(i), i))
         /\ file' = IF Manager(i).indexLoaded THEN file
                    ELSE Put(file, PathOf(Manager(i), i), Searched(i))
         /\ ids' = Put(ids, n, i)
    /\ UNCHANGED <<dbVars, space, seq, spaceIdCache, extracted, archives>>

(* IdCache::getSpaceId *)
getSpaceId(n) ==
    /\ up /\ LiveNamed(n) # {}
    /\ spaceIdCache' = spaceIdCache \cup {n}
    /\ UNCHANGED <<dbVars, space, seq, ids, manager, disk>>

(* SnapshotServiceManager::deleteSnapshot *)
deleteSnapshot(f) ==
    /\ up /\ f \in DOMAIN archives
    /\ archives' = Drop(archives, {f})
    /\ UNCHANGED <<dbVars, space, seq, cacheVars, file, extracted>>

deleteSnapshots ==
    /\ up /\ archives # Empty
    /\ archives' = Empty
    /\ UNCHANGED <<dbVars, space, seq, cacheVars, file, extracted>>

----------------------------------------------------------------------------
(* createSnapshot(f, listed) *)

(* cleanupStorage() removes the directories of the names that are not in    *)
(* spaceIdCache: getSpaceExists looks nowhere else.                         *)
Unused == {p \in DOMAIN file : p[1] \notin spaceIdCache}
Emptied == [p \in DOMAIN file |-> IF p \in Unused THEN {} ELSE file[p]]   \* faulty variant
CleanedUp == Drop(file, Unused)

(* Every requested space must be there; the database is copied first ... *)
BeginCreate(f, listed) ==
    /\ up /\ call = NoCall
    /\ \A n \in listed : Resolved(n) # {}
    /\ \E found \in [listed -> SpaceId] :
         /\ \A n \in listed : found[n] \in Resolved(n)
         /\ ids' = [n \in listed \cup DOMAIN ids |-> IF n \in listed THEN found[n] ELSE ids[n]]
    /\ file' = CleanedUp
    /\ call' = [pc |-> "save", file |-> f, listed |-> listed, backup |-> Backup,
                exact |-> {}, kept |-> TRUE]
    /\ UNCHANGED <<dbVars, space, seq, spaceIdCache, manager, extracted, archives, mixed>>

(* ... then the index of each listed version is saved, loaded or not ... *)
SaveIndex(n) ==
    /\ up /\ call # NoCall /\ call.pc = "save" /\ n \in call.listed
    /\ \E i \in Resolved(n) :
         \/ /\ i \notin DOMAIN space \cup DOMAIN manager
            /\ call' = NoCall
            /\ UNCHANGED <<manager, file, ids>>
         \/ /\ i \in DOMAIN space \cup DOMAIN manager
            /\ LET m == Manager(i)
                   b == call.backup
               IN  /\ manager' = Put(manager, i, m)
                   /\ file' = Put(file, PathOf(m, i), m.entries)
                   /\ call' = [call EXCEPT
                        !.listed = @ \ {n},
                        !.exact = (@ \ {i}) \cup {k \in {i} \cap DOMAIN b.space :
                                                        m.name = b.space[k].name
                                                        /\ m.entries = b.space[k].vectors}]
            /\ ids' = Put(ids, n, i)
    /\ UNCHANGED <<dbVars, space, seq, spaceIdCache, extracted, archives, mixed>>

(* ... or not found any more, which ends the call. *)
LoseIndex(n) ==
    /\ up /\ call # NoCall /\ call.pc = "save" /\ n \in call.listed
    /\ Resolved(n) = {}
    /\ call' = NoCall
    /\ UNCHANGED <<dbVars, space, seq, cacheVars, disk, mixed>>

(* zipDirectoryAndDatabase: the backup and the whole data directory, with   *)
(* the live database file and the backups that restores have left there.    *)
Zip ==
    /\ up /\ call # NoCall /\ call.pc = "save" /\ call.listed = {}
    /\ archives' = Put(archives, call.file,
                       [backup |-> call.backup, live |-> Backup, file |-> file,
                        extracted |-> extracted, exact |-> IF call.kept THEN call.exact ELSE {}])
    /\ call' = NoCall
    /\ UNCHANGED <<dbVars, space, seq, cacheVars, file, extracted, mixed>>

----------------------------------------------------------------------------
(* restoreSnapshot(f) *)

(* The caches are cleaned first, IdCache before the index managers; the     *)
(* former may have been filled again by the time the latter are dropped.    *)
Restoring(pc, f) ==
    [pc |-> pc, file |-> f, alone |-> TRUE,
     pristine |-> extracted = {} /\ archives[f].extracted = {}]
BeginUncleaned(f) ==   \* faulty variant: IdCache is forgotten
    /\ up /\ call = NoCall
    /\ f \in DOMAIN archives
    /\ Cardinality(extracted) <= MaxExtracted
    /\ call' = Restoring("clean", f)
    /\ UNCHANGED <<dbVars, space, seq, cacheVars, disk, mixed>>
BeginRestore(f) ==
    /\ up /\ call = NoCall
    /\ f \in DOMAIN archives
    /\ Cardinality(extracted) <= MaxExtracted
    /\ ids' = Empty /\ spaceIdCache' = {}
    /\ call' = Restoring("clean", f)
    /\ UNCHANGED <<dbVars, space, seq, manager, disk, mixed>>

CleanManagers ==
    /\ up /\ call # NoCall /\ call.pc = "clean"
    /\ manager' = Empty
    /\ call' = [call EXCEPT !.pc = "unzip"]
    /\ mixed' = ~call.alone
    /\ UNCHANGED <<dbVars, space, seq, ids, spaceIdCache, disk>>

(* unzipToDirectory overwrites files and removes none; the live database is *)
(* one of them, unless it is in memory.                                     *)
Completed(a)   == Merged(file, a.file)   \* faulty variant: a file that is there is kept
Overwritten(a) == Merged(a.file, file)
Unzip ==
    /\ up /\ call # NoCall /\ call.pc = "unzip"
    /\ IF call.file \notin DOMAIN archives
       THEN call' = NoCall /\ UNCHANGED <<content, file, extracted>>
       ELSE LET a == archives[call.file]
            IN  /\ file' = Overwritten(a)
                /\ extracted' = extracted \cup a.extracted \cup {a.backup}
                /\ IF InMemory THEN UNCHANGED content ELSE Becomes(a.live)
                /\ call' = [pc |-> "copy", alone |-> call.alone, pristine |-> call.pristine,
                            wanted |-> a.backup, exact |-> a.exact]
    /\ UNCHANGED <<release, up, cacheVars, archives, mixed>>

(* findBackupFile: any of the backup files, then copied over the database. *)
TrustUnzipped ==   \* faulty variant: the database file was unzipped already
    /\ up /\ call # NoCall /\ call.pc = "copy"
    /\ call' = NoCall
    /\ UNCHANGED <<content, release, up, cacheVars, disk, mixed>>
CopyBack ==
    /\ up /\ call # NoCall /\ call.pc = "copy"
    /\ \E b \in extracted : Becomes(b)
    /\ call' = NoCall
    /\ UNCHANGED <<release, up, cacheVars, disk, mixed>>

(* The backup does not open, or its copy is not done in one step: the call   *)
(* throws, with the files and, if it is a file, the database of the archive. *)
CopyFails ==
    /\ up /\ call # NoCall /\ call.pc = "copy"
    /\ call' = NoCall
    /\ UNCHANGED <<content, release, up, cacheVars, disk, mixed>>

----------------------------------------------------------------------------
(* The process starts and ends; reset() is called on a new database only. *)

Start ==
    /\ Open
    /\ IF NeedsReset(schema) THEN space' = Empty /\ seq' = 0 ELSE UNCHANGED <<space, seq>>
    /\ UNCHANGED <<cacheVars, disk, call, mixed>>

Reset ==
    /\ reset
    /\ seq = 0
    /\ space' = Empty /\ seq' = 0
    /\ UNCHANGED <<cacheVars, disk, call, mixed>>

Crash ==
    /\ Exit
    /\ IF InMemory THEN space' = Empty /\ seq' = 0 ELSE UNCHANGED <<space, seq>>
    /\ ids' = Empty /\ spaceIdCache' = {} /\ manager' = Empty
    /\ call' = NoCall /\ mixed' = FALSE
    /\ UNCHANGED disk

Install == Upgrade /\ UNCHANGED <<space, seq, cacheVars, disk, call, mixed>>

----------------------------------------------------------------------------
SnapInit ==
    /\ DbInit
    /\ \/ schema = NoTables /\ space = Empty /\ seq = 0
       \/ /\ schema = BeforeInfo
          /\ \E n \in Names : space = Put(Empty, 1, [name |-> n, vectors |-> {}])
          /\ seq = 1
    /\ ids = Empty /\ spaceIdCache = {} /\ manager = Empty
    /\ file = Empty /\ extracted = {} /\ archives = Empty
    /\ call = NoCall /\ mixed = FALSE

Overlapping ==
    /\ \/ \E n \in Names : createSpace(n) \/ search(n) \/ getSpaceId(n)
       \/ \E n \in Names, v \in Vectors : upsert(n, v)
       \/ \E f \in FileNames : deleteSnapshot(f)
       \/ \E i \in SpaceId : deleteSpace(i)
       \/ deleteSnapshots
    /\ Noted
    /\ Mixing

Create ==
    \/ \E f \in FileNames, listed \in SUBSET Names : BeginCreate(f, listed)
    \/ \E n \in Names : SaveIndex(n) \/ LoseIndex(n)
    \/ Zip

Restore ==
    \/ \E f \in FileNames : BeginRestore(f)
    \/ CleanManagers \/ Unzip \/ CopyBack \/ CopyFails

SnapNext == Overlapping \/ Create \/ Restore \/ Start \/ Reset \/ Crash \/ Install
SnapSpec == SnapInit /\ [][SnapNext]_snapVars

----------------------------------------------------------------------------
(* Properties. *)

IsSpaces(f) ==
    /\ DOMAIN f \subseteq SpaceId
    /\ \A i \in DOMAIN f : f[i] \in [name : Names, vectors : SUBSET Vectors]
IsBackup(b) == b.schema \in Schema /\ IsSpaces(b.space) /\ DOMAIN b.space \subseteq 1..b.seq
IsFiles(f)  == DOMAIN f \subseteq Path /\ \A p \in DOMAIN f : f[p] \subseteq Vectors

SnapTypeOK ==
    /\ DbTypeOK
    /\ IsBackup(Backup)
    /\ \A n \in DOMAIN ids : n \in Names /\ ids[n] \in SpaceId
    /\ spaceIdCache \subseteq Names
    /\ \A i \in DOMAIN manager :
         i \in SpaceId /\ manager[i] \in [name : Names, entries : SUBSET Vectors, indexLoaded : BOOLEAN]
    /\ IsFiles(file)
    /\ \A b \in extracted : IsBackup(b)
    /\ \A f \in DOMAIN archives :
         /\ f \in FileNames /\ IsBackup(archives[f].backup) /\ IsBackup(archives[f].live)
         /\ IsFiles(archives[f].file) /\ archives[f].exact \subseteq SpaceId
    /\ call # NoCall => call.pc \in {"save", "clean", "unzip", "copy"} /\ up

(* The first restore into a data directory gives the rows of the archive    *)
(* that was asked for, whatever was written, deleted or upgraded since, and *)
(* also when other threads write between its steps (SnapshotTest.cpp:177    *)
(* "Verify that the data is restored correctly").  A later one may find the *)
(* backup an earlier one has left.                                          *)
FirstRestoreExact == [][CopyBack /\ call.pristine => Backup' = call.wanted]_snapVars

(* An index that was saved as the backup has it is, after such a restore,   *)
(* searched exactly: no file or cache entry of the time in between answers, *)
(* nor does a write that overlapped the snapshot.  Except that deleteSpace  *)
(* drops all index managers: an upsert after it rebuilds and saves an index *)
(* from rows the backup does not have.                                      *)
RestoredIsSearchable ==
    [][CopyBack /\ call.pristine /\ call.alone =>
         \A i \in call.exact : Searched(i)' = space'[i].vectors]_snapVars

(* No step of createSnapshot takes a vector out of what searches find, save *)
(* for an index it saves without having loaded it (SnapshotHasVectors of    *)
(* VectorStore): not the directories cleanupStorage removes, of live spaces *)
(* too, nor the indexes it saves while others write.                        *)
CreateLosesNothing ==
    [][Create => \A i \in DOMAIN space :
          \/ i \in DOMAIN manager' /\ ~manager'[i].indexLoaded
          \/ Searched(i) \cap space[i].vectors \subseteq Searched(i)']_snapVars

(* Unless a call was answered while a restore was under way, what IdCache   *)
(* and the index managers hold is of the database that is there now.        *)
CachesOfThisDatabase ==
    ~mixed =>
        /\ \A n \in DOMAIN ids : ids[n] \in DOMAIN space /\ space[ids[n]].name = n
        /\ \A i \in DOMAIN manager : i \in DOMAIN space /\ space[i].name = manager[i].name
=============================================================================
