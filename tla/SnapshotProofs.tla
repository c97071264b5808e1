---------------------------- MODULE SnapshotProofs ----------------------------
(***************************************************************************)
(* What Database promises, whichever scripts can be repeated, and Snapshot  *)
(* with it: snapshots and restores between the calls of other threads,      *)
(* crashes and upgrades, for every number of spaces, vectors, archives and  *)
(* releases.                                                                *)
(***************************************************************************)
EXTENDS Snapshot, TLAPS

----------------------------------------------------------------------------
(* The database alone.                                                      *)

DbInv == DbTypeOK /\ VersionRecordsScripts /\ schema.recorded \subseteq 1..release

(* migrate() turns a schema that its record describes into another one. *)
LEMMA MigratedSchema ==
    ASSUME NEW s \in Schema, NEW r \in 1..MaxRelease, MaxRelease \in Nat,
           \A v \in s.recorded : s.scripts = 1..v,
           s.recorded # {} => s.info,
           ~s.info => s.scripts = {},
           s.recorded \subseteq 1..r
    PROVE  LET m == Migrated(s, r)
           IN  /\ m \in Schema
               /\ \A v \in m.recorded : m.scripts = 1..v
               /\ m.recorded # {} => m.info
               /\ ~m.info => m.scripts = {}
               /\ m.recorded \subseteq 1..r
               /\ s.recorded # {} => m.recorded = {r}
<1>1. CASE NeedsReset(s)
  BY <1>1 DEF Migrated, NeedsReset, ResetSql, Schema
<1>2. CASE IsUnversioned(s)
  <2>1. Migrated(s, r) = [space |-> s.space, info |-> s.info, recorded |-> {}, scripts |-> s.scripts]
    BY <1>2 DEF Migrated, IsUnversioned, NeedsReset, Recorded
  <2>2. Migrated(s, r) \in Schema
    BY <2>1 DEF Schema
  <2>3. s.info /\ s.recorded = {}
    BY <1>2 DEF IsUnversioned
  <2> QED
    BY <2>1, <2>2, <2>3
<1>3. CASE ~NeedsReset(s) /\ ~IsUnversioned(s)
  <2>1. CASE Todo(s, r) = {}
    <3>1. Migrated(s, r) = s
      BY <1>3, <2>1 DEF Migrated
    <3>2. ASSUME NEW v \in s.recorded
          PROVE  v = r
      <4>1. v \in 1..r
        OBVIOUS
      <4>2. SUFFICES ASSUME v # r PROVE FALSE
        OBVIOUS
      <4>3. PICK u \in s.recorded : ~(r > u)
        BY <2>1 DEF Todo
      <4>4. u \in 1..r /\ 1..u = 1..v
        BY <4>3
      <4>5. u \in 1..u /\ v \in 1..v
        BY <4>1, <4>4
      <4> QED
        BY <4>1, <4>2, <4>3, <4>4, <4>5
    <3>3. s.recorded # {} => s.recorded = {r}
      BY <3>2
    <3> QED
      BY <3>1, <3>3
  <2>2. CASE Todo(s, r) # {}
    <3> DEFINE m == Migrated(s, r)
    <3>1. m = Recorded(WithScripts(s, Todo(s, r)), r)
      BY <1>3, <2>2 DEF Migrated
    <3>2. Todo(s, r) \subseteq 1..r
      BY DEF Todo
    <3>3. /\ m.space = s.space
          /\ m.info = (s.info \/ 1 \in Todo(s, r))
          /\ m.recorded = IF s.recorded = {} THEN {} ELSE {r}
          /\ m.scripts = s.scripts \cup Todo(s, r)
          /\ m = [space |-> m.space, info |-> m.info, recorded |-> m.recorded, scripts |-> m.scripts]
      BY <3>1 DEF Recorded, WithScripts
    <3>4. s.space \in BOOLEAN /\ m.info \in BOOLEAN
      BY <3>3 DEF Schema
    <3>5. m.recorded \in SUBSET (1..MaxRelease)
      BY <3>3
    <3>6. m.scripts \in SUBSET (1..MaxRelease)
      BY <3>2, <3>3 DEF Schema
    <3>7. m \in Schema
      BY <3>3, <3>4, <3>5, <3>6 DEF Schema
    <3>8. ASSUME NEW v \in m.recorded
          PROVE  m.scripts = 1..v
      <4>1. v = r /\ s.recorded # {}
        BY <3>3
      <4>2. PICK u \in s.recorded : TRUE
        BY <4>1
      <4>3. s.scripts = 1..u /\ u \in 1..MaxRelease
        BY <4>2 DEF Schema
      <4>4. PICK k \in Todo(s, r) : TRUE
        BY <2>2
      <4>5. k \in 1..r /\ k > u
        BY <4>2, <4>4 DEF Todo
      <4>6. \A x \in s.recorded : x = u
        <5> SUFFICES ASSUME NEW x \in s.recorded PROVE x = u
          OBVIOUS
        <5>1. 1..x = 1..u /\ x \in 1..MaxRelease
          BY <4>2, <4>3 DEF Schema
        <5>2. x \in 1..x /\ u \in 1..u
          BY <5>1, <4>3
        <5> QED
          BY <5>1, <5>2, <4>3
      <4>7. Todo(s, r) = {j \in 1..r : j > u}
        BY <4>2, <4>6 DEF Todo
      <4>8. 1..u \cup {j \in 1..r : j > u} = 1..r
        BY <4>3, <4>5
      <4> QED
        BY <3>3, <4>1, <4>3, <4>7, <4>8
    <3>9. m.recorded # {} => m.info
      BY <3>3
    <3>10. ~m.info => m.scripts = {}
      <4>1. SUFFICES ASSUME ~s.info, 1 \notin Todo(s, r) PROVE FALSE
        BY <3>3
      <4>2. s.recorded = {}
        BY <4>1
      <4>3. Todo(s, r) = 1..r
        BY <4>2 DEF Todo
      <4> QED
        BY <4>1, <4>3
    <3>11. m.recorded \subseteq 1..r /\ (s.recorded # {} => m.recorded = {r})
      BY <3>3
    <3> QED
      BY <3>7, <3>8, <3>9, <3>10, <3>11
  <2> QED
    BY <2>1, <2>2
<1> QED
  BY <1>1, <1>2, <1>3

(* The record of a database is right, whatever happened to it. *)
LEMMA DbInvStep == DbInv /\ [DbNext]_dbVars => DbInv'
<1> USE ReleaseAssumption
<1> SUFFICES ASSUME DbInv, [DbNext]_dbVars PROVE DbInv'
  OBVIOUS
<1> USE DEF DbInv, DbTypeOK, VersionRecordsScripts
<1>1. CASE Open
  <2>1. up' \in BOOLEAN
    BY <1>1, Zenon DEF Open, Migratable, NeedsReset, IsUnversioned, RunsCleanly
  <2>2. release' = release
    BY <1>1 DEF Open
  <2>3. CASE up'
    <3>1. schema' = Migrated(schema, release)
      BY <1>1, <2>3 DEF Open
    <3> QED
      BY <2>1, <2>2, <3>1, MigratedSchema
  <2>4. CASE ~up'
    <3>1. schema' = schema
      BY <1>1, <2>4 DEF Open
    <3> QED
      BY <2>1, <2>2, <3>1
  <2> QED
    BY <2>3, <2>4
<1>2. CASE reset
  <2>1. schema' = [space |-> TRUE, info |-> TRUE, recorded |-> {release}, scripts |-> 1..release]
    BY <1>2 DEF reset, ResetSql
  <2>2. {release} \in SUBSET (1..MaxRelease) /\ 1..release \in SUBSET (1..MaxRelease)
    OBVIOUS
  <2>3. schema' \in Schema
    BY <2>1, <2>2 DEF Schema
  <2>4. schema'.recorded = {release} /\ schema'.scripts = 1..release /\ schema'.info
    BY <2>1
  <2> QED
    BY <1>2, <2>3, <2>4 DEF reset
<1>3. CASE Exit
  <2>1. NoTables \in Schema /\ NoTables.recorded = {} /\ NoTables.scripts = {}
    BY DEF NoTables, Schema
  <2> QED
    BY <1>3, <2>1 DEF Exit
<1>4. CASE Upgrade
  BY <1>4 DEF Upgrade
<1>5. CASE UNCHANGED dbVars
  BY <1>5 DEF dbVars
<1> QED
  BY <1>1, <1>2, <1>3, <1>4, <1>5 DEF DbNext

(* A database that was never opened records no script and has none.         *)
LEMMA DbInvInit == DbInit => DbInv
<1>1. /\ NoTables \in Schema /\ NoTables.recorded = {} /\ NoTables.scripts = {}
      /\ BeforeInfo \in Schema /\ BeforeInfo.recorded = {} /\ BeforeInfo.scripts = {}
  BY DEF NoTables, BeforeInfo, Schema
<1> QED
  BY <1>1, ReleaseAssumption DEF DbInit, DbInv, DbTypeOK, VersionRecordsScripts

(* Whatever was installed, ended, reset and started, the version recorded   *)
(* in info tells exactly which scripts the tables have.                     *)
THEOREM RecordCorrect == DbSpec => []VersionRecordsScripts
<1>1. DbInv => VersionRecordsScripts
  BY DEF DbInv
<1> QED
  BY <1>1, DbInvInit, DbInvStep, PTL DEF DbSpec

(* Recorded scripts never exceed the release, so that none is missing.      *)
LEMMA InvOpens == DbInv => Openable
<1> SUFFICES ASSUME DbInv, NEW r \in release..MaxRelease PROVE Migratable(schema, r)
  BY DEF Openable
<1>1. r \in 1..MaxRelease /\ MaxRelease \in Nat
  BY ReleaseAssumption DEF DbInv, DbTypeOK
<1>2. CASE ~schema.info
  <2>1. schema.scripts = {}
    BY <1>2 DEF DbInv, VersionRecordsScripts
  <2> QED
    BY <2>1 DEF Migratable, RunsCleanly
<1>3. CASE schema.recorded # {}
  <2>1. PICK v \in schema.recorded : schema.scripts = 1..v
    BY <1>3 DEF DbInv, VersionRecordsScripts
  <2>2. v \in 1..MaxRelease
    BY <2>1 DEF DbInv, DbTypeOK, Schema
  <2>3. \A k \in Todo(schema, r) : k > v /\ k \in 1..r
    BY <2>1 DEF Todo
  <2>4. Todo(schema, r) \cap schema.scripts = {}
    BY <1>1, <2>1, <2>2, <2>3
  <2> QED
    BY <2>4 DEF Migratable, RunsCleanly
<1> QED
  BY <1>2, <1>3 DEF Migratable, IsUnversioned

(* No history makes a database that this or a later release cannot open:    *)
(* migrate() never repeats a script that fails when it is repeated.         *)
THEOREM OpenableCorrect == DbSpec => []Openable
  BY InvOpens, DbInvInit, DbInvStep, PTL DEF DbSpec

(* A database with a row in info has, once a release has opened it, exactly *)
(* the scripts of that release, and says so.                                *)
THEOREM OpenedIsCurrentCorrect == DbSpec => OpenedIsCurrent
<1>1. DbInv /\ [DbNext]_dbVars =>
        [~up /\ up' /\ schema.recorded # {} =>
            schema'.scripts = 1..release /\ schema'.recorded = {release}]_dbVars
  <2> SUFFICES ASSUME DbInv, DbNext, ~up, up', schema.recorded # {}
               PROVE  schema'.scripts = 1..release /\ schema'.recorded = {release}
    BY DEF dbVars
  <2>1. Open
    BY DEF DbNext, reset, Exit, Upgrade
  <2>2. schema' = Migrated(schema, release)
    BY <2>1 DEF Open
  <2> QED
    BY <2>2, MigratedSchema, ReleaseAssumption DEF DbInv, DbTypeOK, VersionRecordsScripts
<1> QED
  BY <1>1, DbInvInit, DbInvStep, PTL DEF DbSpec, OpenedIsCurrent

----------------------------------------------------------------------------
(* Backups, archives and files.                                             *)

GoodSchema(s, r) ==
    /\ s \in Schema
    /\ \A v \in s.recorded : s.scripts = 1..v
    /\ s.recorded # {} => s.info
    /\ ~s.info => s.scripts = {}
    /\ s.recorded \subseteq 1..r

GoodRows(rows, counter) ==
    /\ counter \in 0..MaxSpace
    /\ IsSpaces(rows)
    /\ DOMAIN rows \subseteq 1..counter

(* A database that some release up to r has written. *)
GoodBackup(b, r) ==
    /\ b = [schema |-> b.schema, space |-> b.space, seq |-> b.seq]
    /\ GoodSchema(b.schema, r)
    /\ GoodRows(b.space, b.seq)

(* The files of the spaces in X hold what backup b has of them. *)
ExactIn(X, b, files) ==
    \A i \in X :
        /\ i \in DOMAIN b.space
        /\ <<b.space[i].name, i>> \in DOMAIN files
        /\ files[<<b.space[i].name, i>>] = b.space[i].vectors

GoodArchive(a, r) ==
    /\ GoodBackup(a.backup, r) /\ GoodBackup(a.live, r)
    /\ \A b \in a.extracted : GoodBackup(b, r)
    /\ IsFiles(a.file)
    /\ ExactIn(a.exact, a.backup, a.file)

(* What a release has written, a later one may read. *)
LEMMA LaterRelease ==
    ASSUME NEW r \in Nat, NEW later \in Nat, r <= later
    PROVE  /\ \A b : GoodBackup(b, r) => GoodBackup(b, later)
           /\ \A a : GoodArchive(a, r) => GoodArchive(a, later)
<1>1. \A b : GoodBackup(b, r) => GoodBackup(b, later)
  BY DEF GoodBackup, GoodSchema
<1> QED  BY <1>1 DEF GoodArchive

(* Put and Drop on index files and on rows. *)
LEMMA PutFile ==
    ASSUME NEW f, IsFiles(f), NEW p \in Path, NEW e \in SUBSET Vectors
    PROVE  /\ IsFiles(Put(f, p, e))
           /\ DOMAIN Put(f, p, e) = DOMAIN f \cup {p}
           /\ Put(f, p, e)[p] = e
           /\ \A q \in DOMAIN f : q # p => Put(f, p, e)[q] = f[q]
BY DEF IsFiles, Put

(* unzipToDirectory: the files of the archive win. *)
LEMMA OverwrittenFiles ==
    ASSUME NEW a, IsFiles(a.file), IsFiles(file)
    PROVE  /\ IsFiles(Overwritten(a))
           /\ DOMAIN Overwritten(a) = DOMAIN file \cup DOMAIN a.file
           /\ \A p \in DOMAIN a.file : Overwritten(a)[p] = a.file[p]
BY DEF IsFiles, Overwritten, Merged

(* The record of a database is right. *)
LEMMA DatabaseParts ==
    DbInv <=> GoodSchema(schema, release) /\ release \in 1..MaxRelease /\ up \in BOOLEAN
BY DEF DbInv, DbTypeOK, VersionRecordsScripts, GoodSchema

----------------------------------------------------------------------------
(* The invariant.                                                           *)

ManagerRecord == [name : Names, entries : SUBSET Vectors, indexLoaded : BOOLEAN]

(* An index that was not loaded is empty. *)
GoodManagers(m) ==
    \A i \in DOMAIN m :
        /\ i \in SpaceId /\ m[i] \in ManagerRecord
        /\ ~m[i].indexLoaded => m[i].entries = {}

Typed ==
    /\ DbInv
    /\ GoodRows(space, seq)
    /\ \A n \in DOMAIN ids : n \in Names /\ ids[n] \in SpaceId
    /\ spaceIdCache \subseteq Names
    /\ GoodManagers(manager)
    /\ IsFiles(file)

Archived ==
    /\ \A b \in extracted : GoodBackup(b, release)
    /\ \A f \in DOMAIN archives : f \in FileNames /\ GoodArchive(archives[f], release)

(* createSnapshot under way: until deleteSpace drops the index managers,    *)
(* the saved indexes X are in their files as backup b has them, and a write *)
(* to a space that was empty then is in its manager.                        *)
Held(X, b, files, managers, rows) ==
    /\ ExactIn(X, b, files)
    /\ \A i \in X :
         /\ i \in DOMAIN managers /\ managers[i].name = b.space[i].name
         /\ b.space[i].vectors \subseteq managers[i].entries
    /\ \A i \in DOMAIN b.space \cap DOMAIN rows :
         b.space[i].vectors = {} /\ rows[i].vectors # {}
           => i \in DOMAIN managers /\ managers[i].entries # {}
SavedExactly(k) == Held(k.exact, k.backup, file, manager, space)

Saving(k) ==
    /\ k = [pc |-> "save", file |-> k.file, listed |-> k.listed, backup |-> k.backup,
            exact |-> k.exact, kept |-> k.kept]
    /\ k.file \in FileNames /\ k.listed \subseteq Names /\ k.kept \in BOOLEAN
    /\ GoodBackup(k.backup, release) /\ k.backup.seq <= seq
    /\ k.exact \subseteq DOMAIN k.backup.space
    /\ k.kept => SavedExactly(k)

(* restoreSnapshot under way, before and after unzipToDirectory. *)
Unzipping(k) ==
    /\ k = [pc |-> k.pc, file |-> k.file, alone |-> k.alone, pristine |-> k.pristine]
    /\ k.pc \in {"clean", "unzip"}
    /\ k.file \in FileNames /\ k.alone \in BOOLEAN /\ k.pristine \in BOOLEAN
    /\ k.pristine => /\ extracted = {}
                     /\ k.file \in DOMAIN archives => archives[k.file].extracted = {}
    /\ k.pc = "unzip" /\ k.alone => ~mixed

Copying(k) ==
    /\ k = [pc |-> "copy", alone |-> k.alone, pristine |-> k.pristine,
            wanted |-> k.wanted, exact |-> k.exact]
    /\ k.alone \in BOOLEAN /\ k.pristine \in BOOLEAN
    /\ GoodBackup(k.wanted, release) /\ k.wanted \in extracted
    /\ k.pristine => extracted = {k.wanted}
    /\ k.alone => ~mixed /\ ExactIn(k.exact, k.wanted, file)

CallOK == call # NoCall => up /\ (Saving(call) \/ Unzipping(call) \/ Copying(call))

(* No cache entry survives into a restore nobody overlaps, or into another  *)
(* process.                                                                 *)
JustCleaned   == call # NoCall /\ call.pc = "clean" /\ call.alone
CachesDropped == call # NoCall /\ call.pc \in {"unzip", "copy"}
CachesOK ==
    /\ CachesOfThisDatabase
    /\ ~up \/ (CachesDropped /\ ~mixed) => DOMAIN ids = {} /\ DOMAIN manager = {}
    /\ JustCleaned => DOMAIN ids = {}

SnapInv == Typed /\ Archived /\ CallOK /\ CachesOK

----------------------------------------------------------------------------
(* The database.                                                            *)

(* The rows that calls, restores and resets leave are of a database that    *)
(* some release has written, and no release goes back.                      *)
LEMMA DatabaseStep ==
    ASSUME Typed, Archived, SnapNext
    PROVE  /\ DbInv' /\ GoodRows(space', seq')
           /\ release \in Nat /\ release' \in Nat /\ release <= release'
<1> DEFINE Goal == /\ DbInv' /\ GoodRows(space', seq')
                   /\ release \in Nat /\ release' \in Nat /\ release <= release'
<1>0. /\ DbInv /\ GoodRows(space, seq) /\ release \in 1..MaxRelease /\ MaxRelease \in Nat
      /\ up \in BOOLEAN /\ release <= release /\ release \in Nat
  BY DatabaseParts, ReleaseAssumption DEF Typed
<1>1. ASSUME UNCHANGED dbVars PROVE DbInv' /\ release' \in Nat /\ release <= release'
  BY <1>0, <1>1, DbInvStep DEF dbVars
<1>2. ASSUME DbNext PROVE DbInv' /\ release' \in Nat /\ release <= release'
  <2>1. DbInv'
    BY <1>0, <1>2, DbInvStep
  <2> QED  BY <1>0, <1>2, <2>1 DEF DbNext, Open, reset, Exit, Upgrade
<1>3. GoodRows(Empty, 0)
  BY SnapAssumption DEF GoodRows, IsSpaces, Empty
<1>4. ASSUME UNCHANGED <<dbVars, space, seq>> PROVE Goal
  BY <1>0, <1>1, <1>4
<1>5. ASSUME NEW b, GoodBackup(b, release), Becomes(b), UNCHANGED <<release, up>> PROVE Goal
  <2>1. schema' = b.schema /\ space' = b.space /\ seq' = b.seq
    BY <1>5 DEF Becomes
  <2>2. GoodSchema(schema', release') /\ GoodRows(space', seq')
    BY <1>5, <2>1 DEF GoodBackup
  <2>3. DbInv'
    BY <1>0, <1>5, <2>2 DEF DbInv, DbTypeOK, VersionRecordsScripts, GoodSchema
  <2> QED  BY <1>0, <1>5, <2>2, <2>3
<1>6. ASSUME NEW n \in Names, createSpace(n) PROVE Goal
  <2>1. /\ space' = Put(space, seq + 1, [name |-> n, vectors |-> {}])
        /\ seq' = seq + 1 /\ seq < MaxSpace /\ UNCHANGED dbVars
    BY <1>6 DEF createSpace, dbVars
  <2>2. [name |-> n, vectors |-> {}] \in [name : Names, vectors : SUBSET Vectors]
    OBVIOUS
  <2>3. GoodRows(space', seq')
    BY <1>0, <2>1, <2>2, SnapAssumption DEF GoodRows, IsSpaces, SpaceId, Put
  <2> QED  BY <1>0, <1>1, <2>1, <2>3
<1>7. ASSUME NEW i, deleteSpace(i) PROVE Goal
  <2>1. space' = Drop(space, {i}) /\ seq' = seq /\ UNCHANGED dbVars
    BY <1>7 DEF deleteSpace, dbVars
  <2>2. GoodRows(space', seq')
    BY <1>0, <2>1 DEF GoodRows, IsSpaces, Drop, Restrict
  <2> QED  BY <1>0, <1>1, <2>1, <2>2
<1>8. ASSUME NEW n, NEW v \in Vectors, upsert(n, v) PROVE Goal
  <2>1. PICK i \in DOMAIN space : space' = [space EXCEPT ![i].vectors = @ \cup {v}]
    BY <1>8 DEF upsert
  <2>2. seq' = seq /\ UNCHANGED dbVars
    BY <1>8 DEF upsert, dbVars
  <2>3. GoodRows(space', seq')
    BY <1>0, <2>1, <2>2 DEF GoodRows, IsSpaces
  <2> QED  BY <1>0, <1>1, <2>2, <2>3
<1>9. ASSUME Overlapping PROVE Goal
  BY <1>4, <1>6, <1>7, <1>8, <1>9
     DEF Overlapping, search, getSpaceId, deleteSnapshot, deleteSnapshots
<1>10. ASSUME Create PROVE Goal
  BY <1>4, <1>10 DEF Create, BeginCreate, SaveIndex, LoseIndex, Zip
<1>11. ASSUME Unzip PROVE Goal
  <2>1. CASE UNCHANGED content
    BY <1>4, <1>11, <2>1 DEF Unzip, content, dbVars
  <2>2. CASE call.file \in DOMAIN archives /\ Becomes(archives[call.file].live)
    BY <1>5, <1>11, <2>2 DEF Unzip, Archived, GoodArchive
  <2> QED  BY <1>11, <2>1, <2>2 DEF Unzip
<1>12. ASSUME CopyBack PROVE Goal
  BY <1>5, <1>12 DEF CopyBack, Archived
<1>13. ASSUME CleanManagers \/ CopyFails \/ \E f \in FileNames : BeginRestore(f) PROVE Goal
  BY <1>4, <1>13 DEF BeginRestore, CleanManagers, CopyFails, content, dbVars
<1>14. ASSUME Start \/ Reset \/ Crash \/ Install PROVE Goal
  <2>1. DbNext
    BY <1>14 DEF Start, Reset, Crash, Install, DbNext
  <2>2. (space' = Empty /\ seq' = 0) \/ UNCHANGED <<space, seq>>
    BY <1>14 DEF Start, Reset, Crash, Install
  <2>3. GoodRows(space', seq')
    BY <1>0, <1>3, <2>2
  <2> QED  BY <1>0, <1>2, <2>1, <2>3
<1> HIDE DEF Goal
<1>15. Goal
  BY <1>9, <1>10, <1>11, <1>12, <1>13, <1>14 DEF SnapNext, Restore
<1> QED  BY <1>15 DEF Goal

----------------------------------------------------------------------------
(* The index managers and their files.                                      *)

(* Whatever a manager is asked for, it is of a live space or a cached one.  *)
LEMMA ManagerTypes ==
    ASSUME Typed, NEW i, i \in DOMAIN space \cup DOMAIN manager
    PROVE  /\ i \in SpaceId
           /\ Manager(i) \in ManagerRecord
           /\ ~Manager(i).indexLoaded => Manager(i).entries = {}
           /\ PathOf(Manager(i), i) \in Path
           /\ i \in DOMAIN manager => Manager(i) = manager[i]
           /\ i \notin DOMAIN manager => Manager(i).name = space[i].name /\ Manager(i).entries = {}
                                         /\ ~Manager(i).indexLoaded
<1>1. CASE i \in DOMAIN manager
  <2>1. Manager(i) = manager[i]
    BY <1>1 DEF Manager
  <2>2. i \in SpaceId /\ manager[i] \in ManagerRecord
        /\ (~manager[i].indexLoaded => manager[i].entries = {})
    BY <1>1 DEF Typed, GoodManagers
  <2> QED  BY <1>1, <2>1, <2>2 DEF PathOf, Path, ManagerRecord
<1>2. CASE i \notin DOMAIN manager
  <2>1. Manager(i) = [name |-> space[i].name, entries |-> {}, indexLoaded |-> FALSE]
    BY <1>2 DEF Manager
  <2>2. i \in SpaceId /\ space[i] \in [name : Names, vectors : SUBSET Vectors]
    BY <1>2 DEF Typed, GoodRows, IsSpaces
  <2> QED  BY <1>2, <2>1, <2>2 DEF PathOf, Path, ManagerRecord
<1> QED  BY <1>1, <1>2

(* Loading or rebuilding an index changes its entries only. *)
LEMMA LoadedManager ==
    ASSUME Typed, NEW i \in DOMAIN space, NEW m \in ManagerRecord, PathOf(m, i) \in Path
    PROVE  /\ Loaded(m, i) \in ManagerRecord
           /\ Loaded(m, i).indexLoaded /\ Loaded(m, i).name = m.name
           /\ m.indexLoaded => Loaded(m, i) = m
           /\ ~m.indexLoaded => Loaded(m, i).entries =
                IF PathOf(m, i) \in DOMAIN file THEN file[PathOf(m, i)] ELSE space[i].vectors
           /\ Rebuilt(m, i) \in ManagerRecord
           /\ Rebuilt(m, i).name = m.name
           /\ Rebuilt(m, i).entries = IF m.entries = {} THEN space[i].vectors ELSE m.entries
<1>1. space[i].vectors \in SUBSET Vectors
  BY DEF Typed, GoodRows, IsSpaces
<1>2. PathOf(m, i) \in DOMAIN file => file[PathOf(m, i)] \in SUBSET Vectors
  BY DEF Typed, IsFiles
<1>3. m = [name |-> m.name, entries |-> m.entries, indexLoaded |-> m.indexLoaded]
  BY DEF ManagerRecord
<1>4. CASE m.indexLoaded
  BY <1>1, <1>4 DEF ManagerRecord, Loaded, Rebuilt
<1>5. CASE ~m.indexLoaded
  BY <1>1, <1>2, <1>5 DEF ManagerRecord, Loaded, Rebuilt
<1> QED  BY <1>4, <1>5

(* What upsert does to the rows, the manager and the file of a space.       *)
Upserted(i, v) ==
    /\ i \in DOMAIN space
    /\ space' = [space EXCEPT ![i].vectors = @ \cup {v}]
    /\ DOMAIN manager' = DOMAIN manager \cup {i}
    /\ \A k \in DOMAIN manager : k # i => manager'[k] = manager[k]
    /\ manager'[i] \in ManagerRecord /\ manager'[i].indexLoaded
    /\ manager'[i].name = Manager(i).name
    /\ v \in manager'[i].entries /\ Manager(i).entries \subseteq manager'[i].entries
    /\ file' = IF Manager(i).entries = {} THEN Put(file, PathOf(Manager(i), i), space[i].vectors)
               ELSE file

(* upsert, field by field. *)
LEMMA UpsertRows ==
    ASSUME Typed, NEW n, NEW v \in Vectors, upsert(n, v)
    PROVE  \E i \in Resolved(n) : Upserted(i, v) /\ ids' = Put(ids, n, i)
<1>1. PICK i \in Resolved(n) \cap DOMAIN space :
        LET m     == Manager(i)
            built == Rebuilt(m, i)
        IN  /\ space' = [space EXCEPT ![i].vectors = @ \cup {v}]
            /\ manager' = Put(manager, i, [built EXCEPT !.entries = @ \cup {v}, !.indexLoaded = TRUE])
            /\ file' = IF m.entries = {} THEN Put(file, PathOf(m, i), built.entries) ELSE file
            /\ ids' = Put(ids, n, i)
  BY DEF upsert
<1> DEFINE m == Manager(i)
           built == Rebuilt(m, i)
           new == [built EXCEPT !.entries = @ \cup {v}, !.indexLoaded = TRUE]
<1>2. m \in ManagerRecord /\ PathOf(m, i) \in Path
  BY <1>1, ManagerTypes
<1>3. built \in ManagerRecord /\ built.name = m.name
      /\ built.entries = IF m.entries = {} THEN space[i].vectors ELSE m.entries
  BY <1>1, <1>2, LoadedManager
<1>4. manager' = Put(manager, i, new)
      /\ file' = IF m.entries = {} THEN Put(file, PathOf(m, i), built.entries) ELSE file
  BY <1>1
<1> HIDE DEF m, built
<1>5. new \in ManagerRecord /\ new.indexLoaded /\ new.name = m.name
      /\ v \in new.entries /\ m.entries \subseteq new.entries
  BY <1>3 DEF ManagerRecord
<1> HIDE DEF new
<1>6. /\ DOMAIN manager' = DOMAIN manager \cup {i} /\ manager'[i] = new
      /\ \A k \in DOMAIN manager : k # i => manager'[k] = manager[k]
  BY <1>4 DEF Put
<1> QED  BY <1>1, <1>3, <1>4, <1>5, <1>6 DEF Upserted, m

(* A search loads the index of a space it has resolved, and saves it. *)
SearchedIn(i) ==
    /\ i \in DOMAIN space
    /\ DOMAIN manager' = DOMAIN manager \cup {i}
    /\ \A k \in DOMAIN manager : k # i => manager'[k] = manager[k]
    /\ manager'[i] = Loaded(Manager(i), i)
    /\ file' = IF Manager(i).indexLoaded THEN file
               ELSE Put(file, PathOf(Manager(i), i), Searched(i))

(* search, field by field. *)
LEMMA SearchRows ==
    ASSUME Typed, NEW n, search(n)
    PROVE  \E i \in Resolved(n) : SearchedIn(i) /\ ids' = Put(ids, n, i)
<1>1. PICK i \in Resolved(n) \cap DOMAIN space :
         /\ manager' = Put(manager, i, Loaded(Manager(i), i))
         /\ file' = IF Manager(i).indexLoaded THEN file
                    ELSE Put(file, PathOf(Manager(i), i), Searched(i))
         /\ ids' = Put(ids, n, i)
  BY DEF search
<1> QED  BY <1>1 DEF SearchedIn, Put

(* createSnapshot saves the index of a listed name, or the call ends. *)
SavedIndex(i) ==
    /\ i \in DOMAIN space \cup DOMAIN manager
    /\ DOMAIN manager' = DOMAIN manager \cup {i}
    /\ \A k \in DOMAIN manager : k # i => manager'[k] = manager[k]
    /\ manager'[i] = Manager(i)
    /\ file' = Put(file, PathOf(Manager(i), i), Manager(i).entries)

(* The saved index is exact if the backup has its name and its vectors. *)
ExactNow(i) == {k \in {i} \cap DOMAIN call.backup.space :
                    /\ Manager(i).name = call.backup.space[k].name
                    /\ Manager(i).entries = call.backup.space[k].vectors}
SavedCall(i, n) ==
    call' = [call EXCEPT !.listed = @ \ {n}, !.exact = (@ \ {i}) \cup ExactNow(i)]

(* SaveIndex, field by field. *)
LEMMA SaveIndexRows ==
    ASSUME NEW n, SaveIndex(n)
    PROVE  \/ call' = NoCall /\ UNCHANGED <<manager, file, ids>>
           \/ \E i \in Resolved(n) : SavedIndex(i) /\ SavedCall(i, n) /\ ids' = Put(ids, n, i)
<1>1. CASE call' = NoCall /\ UNCHANGED <<manager, file, ids>>
  BY <1>1
<1>2. CASE \E i \in Resolved(n) :
             /\ i \in DOMAIN space \cup DOMAIN manager
             /\ manager' = Put(manager, i, Manager(i))
             /\ file' = Put(file, PathOf(Manager(i), i), Manager(i).entries)
             /\ SavedCall(i, n)
             /\ ids' = Put(ids, n, i)
  BY <1>2 DEF SavedIndex, Put
<1> QED  BY <1>1, <1>2 DEF SaveIndex, SavedCall, ExactNow

(* A name resolves to an id that is a row's or a cached one. *)
LEMMA ResolvedTypes ==
    ASSUME Typed, NEW n, NEW i \in Resolved(n)
    PROVE  /\ i \in SpaceId
           /\ n \in DOMAIN ids => i = ids[n]
           /\ n \notin DOMAIN ids => i \in DOMAIN space /\ space[i].name = n /\ n \in Names
<1>1. CASE n \in DOMAIN ids
  BY <1>1 DEF Resolved, Typed
<1>2. CASE n \notin DOMAIN ids
  BY <1>2 DEF Resolved, LiveNamed, Typed, GoodRows, IsSpaces
<1> QED  BY <1>1, <1>2

(* The caches and files keep their types. *)
LEMMA TypedStep ==
    ASSUME SnapInv, SnapNext
    PROVE  Typed'
<1> DEFINE Ids == \A n \in DOMAIN ids : n \in Names /\ ids[n] \in SpaceId
           Names4 == spaceIdCache \subseteq Names
           Goal == Ids' /\ Names4' /\ GoodManagers(manager') /\ IsFiles(file')
<1>0. /\ Typed /\ Archived /\ CallOK /\ Ids /\ Names4 /\ GoodManagers(manager) /\ IsFiles(file)
      /\ IsSpaces(space)
  BY DEF SnapInv, Typed, GoodRows
<1>1. ASSUME NEW n \in Names, NEW i \in SpaceId, ids' = Put(ids, n, i) PROVE Ids'
  BY <1>0, <1>1 DEF Put
<1>2. ASSUME ids' = ids PROVE Ids'
  BY <1>0, <1>2
<1>3. ASSUME DOMAIN ids' = {}, DOMAIN manager' = {}, spaceIdCache' = {}, IsFiles(file') PROVE Goal
  BY <1>3 DEF GoodManagers
<1>4. ASSUME NEW i \in SpaceId, DOMAIN manager' = DOMAIN manager \cup {i},
             \A k \in DOMAIN manager : k # i => manager'[k] = manager[k],
             manager'[i] \in ManagerRecord,
             ~manager'[i].indexLoaded => manager'[i].entries = {}
      PROVE  GoodManagers(manager')
  BY <1>0, <1>4 DEF GoodManagers
<1>e. DOMAIN Empty = {}
  BY DEF Empty
<1>5. ASSUME UNCHANGED <<cacheVars, file>> PROVE Goal
  BY <1>0, <1>5 DEF cacheVars
<1>6. ASSUME NEW n \in Names, createSpace(n) PROVE Goal
  BY <1>0, <1>e, <1>6 DEF createSpace, disk
<1>7. ASSUME NEW i, deleteSpace(i) PROVE Goal
  BY <1>0, <1>3, <1>e, <1>7 DEF deleteSpace, disk
<1>8. ASSUME NEW n \in Names, NEW v \in Vectors, upsert(n, v) PROVE Goal
  <2>1. PICK i \in Resolved(n) : Upserted(i, v) /\ ids' = Put(ids, n, i)
    BY <1>0, <1>8, UpsertRows
  <2>2. i \in DOMAIN space /\ i \in SpaceId /\ space[i].vectors \in SUBSET Vectors
    BY <1>0, <2>1, ResolvedTypes DEF Upserted, IsSpaces
  <2>3. PathOf(Manager(i), i) \in Path
    BY <1>0, <2>2, ManagerTypes
  <2>4. IsFiles(file')
    BY <1>0, <2>1, <2>2, <2>3, PutFile DEF Upserted
  <2>5. GoodManagers(manager')
    BY <1>4, <2>1, <2>2 DEF Upserted
  <2> QED  BY <1>0, <1>1, <1>8, <2>1, <2>2, <2>4, <2>5 DEF upsert
<1>9. ASSUME NEW n \in Names, search(n) PROVE Goal
  <2>1. PICK i \in Resolved(n) : SearchedIn(i) /\ ids' = Put(ids, n, i)
    BY <1>0, <1>9, SearchRows
  <2>2. i \in DOMAIN space /\ i \in SpaceId
    BY <1>0, <2>1, ResolvedTypes DEF SearchedIn
  <2>3. PathOf(Manager(i), i) \in Path /\ Manager(i) \in ManagerRecord
    BY <1>0, <2>2, ManagerTypes
  <2>4. Loaded(Manager(i), i) \in ManagerRecord /\ Loaded(Manager(i), i).indexLoaded
    BY <1>0, <2>2, <2>3, LoadedManager
  <2>5. Searched(i) \in SUBSET Vectors
    BY <2>4 DEF Searched, ManagerRecord
  <2>6. IsFiles(file')
    BY <1>0, <2>1, <2>3, <2>5, PutFile DEF SearchedIn
  <2>7. GoodManagers(manager')
    BY <1>4, <2>1, <2>2, <2>4 DEF SearchedIn
  <2> QED  BY <1>0, <1>1, <1>9, <2>1, <2>2, <2>6, <2>7 DEF search
<1>10. ASSUME NEW n \in Names, getSpaceId(n) PROVE Goal
  BY <1>0, <1>10 DEF getSpaceId, disk
<1>11. ASSUME deleteSnapshots \/ \E f \in FileNames : deleteSnapshot(f) PROVE Goal
  BY <1>5, <1>11 DEF deleteSnapshots, deleteSnapshot
<1>12. ASSUME NEW f \in FileNames, NEW listed \in SUBSET Names, BeginCreate(f, listed) PROVE Goal
  <2>1. PICK found \in [listed -> SpaceId] :
           ids' = [n \in listed \cup DOMAIN ids |-> IF n \in listed THEN found[n] ELSE ids[n]]
    BY <1>12 DEF BeginCreate
  <2>2. Ids'
    BY <1>0, <2>1
  <2>3. IsFiles(file')
    BY <1>0, <1>12 DEF BeginCreate, CleanedUp, Drop, Restrict, IsFiles
  <2> QED  BY <1>0, <1>12, <2>2, <2>3 DEF BeginCreate
<1>13. ASSUME NEW n \in Names, SaveIndex(n) PROVE Goal
  <2>1. CASE UNCHANGED <<manager, file, ids>>
    BY <1>0, <1>13, <2>1 DEF SaveIndex
  <2>2. CASE \E i \in Resolved(n) : SavedIndex(i) /\ ids' = Put(ids, n, i)
    <3>1. PICK i \in Resolved(n) : SavedIndex(i) /\ ids' = Put(ids, n, i)
      BY <2>2
    <3>2. /\ i \in SpaceId /\ PathOf(Manager(i), i) \in Path /\ Manager(i) \in ManagerRecord
          /\ ~Manager(i).indexLoaded => Manager(i).entries = {}
      BY <1>0, <3>1, ManagerTypes DEF SavedIndex
    <3>3. Manager(i).entries \in SUBSET Vectors
      BY <3>2 DEF ManagerRecord
    <3>4. IsFiles(file')
      BY <1>0, <3>1, <3>2, <3>3, PutFile DEF SavedIndex
    <3>5. GoodManagers(manager')
      BY <1>4, <3>1, <3>2 DEF SavedIndex
    <3> QED  BY <1>0, <1>1, <1>13, <3>1, <3>2, <3>4, <3>5 DEF SaveIndex
  <2> QED  BY <1>13, <2>1, <2>2, SaveIndexRows
<1>14. ASSUME Zip \/ \E n \in Names : LoseIndex(n) PROVE Goal
  BY <1>5, <1>14 DEF Zip, LoseIndex, disk
<1>15. ASSUME CleanManagers \/ \E f \in FileNames : BeginRestore(f) PROVE Goal
  BY <1>0, <1>e, <1>15 DEF BeginRestore, CleanManagers, disk, GoodManagers
<1>16. ASSUME Unzip PROVE Goal
  <2>1. IsFiles(file')
    <3>1. CASE file' = file
      BY <1>0, <3>1
    <3>2. CASE call.file \in DOMAIN archives /\ file' = Overwritten(archives[call.file])
      <4>1. IsFiles(archives[call.file].file)
        BY <1>0, <3>2 DEF Archived, GoodArchive
      <4> QED  BY <1>0, <3>2, <4>1, OverwrittenFiles
    <3> QED  BY <1>16, <3>1, <3>2 DEF Unzip
  <2> QED  BY <1>0, <1>16, <2>1 DEF Unzip, cacheVars
<1>17. ASSUME CopyBack \/ CopyFails \/ Start \/ Reset \/ Install PROVE Goal
  BY <1>5, <1>17 DEF CopyBack, CopyFails, Start, Reset, Install, disk
<1>18. ASSUME Crash PROVE Goal
  BY <1>0, <1>3, <1>e, <1>18 DEF Crash, disk
<1> HIDE DEF Goal
<1>19. Goal
  BY <1>6, <1>7, <1>8, <1>9, <1>10, <1>11, <1>12, <1>13, <1>14, <1>15, <1>16, <1>17, <1>18
     DEF SnapNext, Overlapping, Create, Restore
<1> QED  BY <1>0, <1>19, DatabaseStep DEF Goal, Typed

----------------------------------------------------------------------------
(* The archives.                                                            *)

(* A call of createSnapshot holds what it will write. *)
LEMMA CallToSave ==
    ASSUME CallOK, call # NoCall, call.pc = "save"
    PROVE  up /\ Saving(call)
BY DEF CallOK, Unzipping, Copying

(* The parts of restoreSnapshot. *)
LEMMA CallToUnzip ==
    ASSUME CallOK, call # NoCall, call.pc \in {"clean", "unzip"}
    PROVE  up /\ Unzipping(call)
BY DEF CallOK, Saving, Copying

(* The same after unzipToDirectory. *)
LEMMA CallToCopy ==
    ASSUME CallOK, call # NoCall, call.pc = "copy"
    PROVE  up /\ Copying(call)
BY DEF CallOK, Saving, Unzipping

(* What is in the archives and was taken out of them are databases some     *)
(* release has written, with the files the saved indexes have.              *)
LEMMA ArchivedStep ==
    ASSUME SnapInv, SnapNext
    PROVE  Archived'
<1> DEFINE Goal == /\ \A b \in extracted' : GoodBackup(b, release)
                   /\ \A f \in DOMAIN archives' : f \in FileNames /\ GoodArchive(archives'[f], release)
<1>0. Typed /\ Archived /\ CallOK
  BY DEF SnapInv
<1>1. release \in Nat /\ release' \in Nat /\ release <= release'
  BY <1>0, DatabaseStep
<1>2. ASSUME UNCHANGED <<extracted, archives>> PROVE Goal
  BY <1>0, <1>2 DEF Archived
<1>3. ASSUME NEW f, deleteSnapshot(f) PROVE Goal
  BY <1>0, <1>3 DEF deleteSnapshot, Archived, Drop, Restrict
<1>4. ASSUME deleteSnapshots PROVE Goal
  BY <1>0, <1>4 DEF deleteSnapshots, Archived, Empty
<1>5. ASSUME Zip PROVE Goal
  <2> DEFINE a == [backup |-> call.backup, live |-> Backup, file |-> file,
                   extracted |-> extracted, exact |-> IF call.kept THEN call.exact ELSE {}]
  <2>1. archives' = Put(archives, call.file, a) /\ extracted' = extracted
    BY <1>5 DEF Zip
  <2>2. Saving(call)
    BY <1>0, <1>5, CallToSave DEF Zip
  <2>3. GoodBackup(Backup, release)
    BY <1>0, DatabaseParts DEF Backup, GoodBackup, Typed
  <2>4. ExactIn(a.exact, call.backup, file)
    BY <2>2 DEF Saving, SavedExactly, Held, ExactIn
  <2>5. GoodArchive(a, release)
    BY <1>0, <2>2, <2>3, <2>4 DEF GoodArchive, Archived, Typed, Saving
  <2> HIDE DEF a
  <2> QED  BY <1>0, <2>1, <2>2, <2>5 DEF Archived, Put, Saving
<1>6. ASSUME Unzip PROVE Goal
  <2>1. CASE UNCHANGED extracted
    BY <1>2, <1>6, <2>1 DEF Unzip
  <2>2. CASE /\ call.file \in DOMAIN archives
             /\ extracted' = extracted \cup archives[call.file].extracted \cup {archives[call.file].backup}
    <3>1. GoodArchive(archives[call.file], release)
      BY <1>0, <2>2 DEF Archived
    <3>2. archives' = archives
      BY <1>6 DEF Unzip
    <3> QED  BY <1>0, <2>2, <3>1, <3>2 DEF Archived, GoodArchive
  <2> QED  BY <1>6, <2>1, <2>2 DEF Unzip
<1> HIDE DEF Goal
<1>7. Goal
  BY <1>2, <1>3, <1>4, <1>5, <1>6
     DEF SnapNext, Overlapping, Create, Restore, createSpace, deleteSpace, upsert, search,
         getSpaceId, disk, BeginCreate, SaveIndex, LoseIndex, BeginRestore, CleanManagers, CopyBack,
         CopyFails, Start, Reset, Crash, Install
<1> QED  BY <1>1, <1>7, LaterRelease DEF Goal, Archived

----------------------------------------------------------------------------
(* The caches.                                                              *)

(* Caches that were of this database are of the new one when they are empty *)
(* or keep to its rows; a call that fills them during a restore is noted.   *)
LEMMA CachesStep ==
    ASSUME SnapInv, SnapNext
    PROVE  CachesOK'
<1> DEFINE Mine(rows, f, m) ==
             /\ \A n \in DOMAIN f : f[n] \in DOMAIN rows /\ rows[f[n]].name = n
             /\ \A i \in DOMAIN m : i \in DOMAIN rows /\ rows[i].name = m[i].name
           Nothing(f, m) == DOMAIN f = {} /\ DOMAIN m = {}
           Goal == /\ mixed' \/ Mine(space', ids', manager')
                   /\ ~up' \/ (CachesDropped' /\ ~mixed') => Nothing(ids', manager')
                   /\ JustCleaned' => DOMAIN ids' = {}
<1>0. /\ Typed /\ CallOK /\ GoodRows(space, seq)
      /\ mixed \/ Mine(space, ids, manager)
      /\ ~up \/ (CachesDropped /\ ~mixed) => Nothing(ids, manager)
      /\ JustCleaned => DOMAIN ids = {}
  BY DEF SnapInv, CachesOK, CachesOfThisDatabase, Typed
<1>e. DOMAIN Empty = {}
  BY DEF Empty
<1>1. ASSUME Nothing(ids', manager') PROVE Goal
  BY <1>1
<1>2. ASSUME UNCHANGED <<space, ids, manager, up, call, mixed>> PROVE Goal
  BY <1>0, <1>2 DEF CachesDropped, JustCleaned
<1>3. ASSUME Overlapping PROVE Goal
  <2>1. up /\ up' = up
    BY <1>3
       DEF Overlapping, createSpace, search, getSpaceId, upsert, deleteSnapshot, deleteSpace,
           deleteSnapshots, dbVars
  <2>0. mixed' = (mixed \/ IsRestoring)
    BY <1>3 DEF Overlapping, Mixing
  <2>2. (CachesDropped' => IsRestoring) /\ ~JustCleaned'
    <3>1. CASE call = NoCall
      BY <1>3, <3>1 DEF Overlapping, Noted, CachesDropped, JustCleaned
    <3>2. CASE call # NoCall /\ call.pc = "save"
      <4>1. Saving(call)
        BY <1>0, <3>2, CallToSave
      <4>2. call'.pc = "save"
        BY <1>3, <3>2, <4>1 DEF Overlapping, Noted, Saving
      <4> QED  BY <4>2 DEF CachesDropped, JustCleaned
    <3>3. CASE call # NoCall /\ call.pc # "save"
      <4>1. IsRestoring /\ {"pc", "alone"} \subseteq DOMAIN call
        BY <1>0, <3>3 DEF CallOK, Saving, Unzipping, Copying, IsRestoring
      <4>2. call' = [call EXCEPT !.alone = FALSE]
        BY <1>3, <3>3 DEF Overlapping, Noted
      <4>3. ~call'.alone
        BY <4>1, <4>2
      <4> QED  BY <4>1, <4>3 DEF JustCleaned
    <3> QED  BY <3>1, <3>2, <3>3
  <2>3. SUFFICES ASSUME ~mixed, ~IsRestoring PROVE Mine(space', ids', manager')
    BY <2>0, <2>1, <2>2
  <2>4. Mine(space, ids, manager)
    BY <1>0, <2>3
  <2>5. ASSUME NEW n \in Names, createSpace(n) PROVE Mine(space', ids', manager')
    <3>1. DOMAIN ids' = {} /\ manager' = manager /\ space' = Put(space, seq + 1, [name |-> n, vectors |-> {}])
      BY <1>e, <2>5 DEF createSpace
    <3>2. seq + 1 \notin DOMAIN space
      BY <1>0, SnapAssumption DEF GoodRows
    <3> QED  BY <2>4, <3>1, <3>2 DEF Put
  <2>6. ASSUME NEW i, deleteSpace(i) PROVE Mine(space', ids', manager')
    BY <1>e, <2>6 DEF deleteSpace
  <2>7. ASSUME NEW n, NEW i \in Resolved(n) PROVE i \in DOMAIN space /\ space[i].name = n
    BY <1>0, <2>4, <2>7, ResolvedTypes
  <2>8. ASSUME NEW n \in Names, NEW v \in Vectors, upsert(n, v) PROVE Mine(space', ids', manager')
    <3>1. PICK i \in Resolved(n) : Upserted(i, v) /\ ids' = Put(ids, n, i)
      BY <1>0, <2>8, UpsertRows
    <3>2. i \in DOMAIN space /\ space[i].name = n /\ Manager(i).name = space[i].name
      BY <1>0, <2>4, <2>7, <3>1, ManagerTypes
    <3>3. /\ DOMAIN space' = DOMAIN space
          /\ \A k \in DOMAIN space : space'[k].name = space[k].name
      BY <1>0, <3>1 DEF Upserted, GoodRows, IsSpaces
    <3> QED  BY <2>4, <3>1, <3>2, <3>3 DEF Upserted, Put
  <2>9. ASSUME NEW n \in Names, search(n) PROVE Mine(space', ids', manager')
    <3>1. PICK i \in Resolved(n) : SearchedIn(i) /\ ids' = Put(ids, n, i)
      BY <1>0, <2>9, SearchRows
    <3>2. /\ i \in DOMAIN space /\ space[i].name = n /\ Manager(i).name = space[i].name
          /\ Manager(i) \in ManagerRecord /\ PathOf(Manager(i), i) \in Path
      BY <1>0, <2>4, <2>7, <3>1, ManagerTypes
    <3>3. Loaded(Manager(i), i).name = space[i].name
      BY <1>0, <3>2, LoadedManager
    <3>4. space' = space
      BY <2>9 DEF search
    <3> QED  BY <2>4, <3>1, <3>2, <3>3, <3>4 DEF SearchedIn, Put
  <2>10. ASSUME UNCHANGED <<space, ids, manager>> PROVE Mine(space', ids', manager')
    BY <2>4, <2>10
  <2> HIDE DEF Mine
  <2> QED
    BY <1>3, <2>5, <2>6, <2>8, <2>9, <2>10
       DEF Overlapping, getSpaceId, deleteSnapshot, deleteSnapshots, cacheVars
<1>4. ASSUME NEW f, NEW listed, BeginCreate(f, listed) PROVE Goal
  <2>1. /\ UNCHANGED <<space, manager, mixed, up>> /\ up /\ call'.pc = "save"
    BY <1>4 DEF BeginCreate, dbVars
  <2>2. PICK found :
          /\ \A n \in listed : found[n] \in Resolved(n)
          /\ ids' = [n \in listed \cup DOMAIN ids |-> IF n \in listed THEN found[n] ELSE ids[n]]
    BY <1>4 DEF BeginCreate
  <2>3. CASE mixed
    BY <2>1, <2>3 DEF CachesDropped, JustCleaned
  <2>4. CASE ~mixed
    <3>1. Mine(space, ids, manager)
      BY <1>0, <2>4
    <3>2. \A n \in listed : found[n] \in DOMAIN space /\ space[found[n]].name = n
      BY <1>0, <2>2, <3>1, ResolvedTypes
    <3> QED  BY <2>1, <2>2, <3>1, <3>2 DEF CachesDropped, JustCleaned
  <2> QED  BY <2>3, <2>4
<1>5. ASSUME NEW n, SaveIndex(n) PROVE Goal
  <2>1. /\ UNCHANGED <<space, mixed, up>> /\ up /\ ~CachesDropped' /\ ~JustCleaned'
    <3>1. Saving(call)
      BY <1>0, <1>5, CallToSave DEF SaveIndex
    <3>2. ~CachesDropped' /\ ~JustCleaned'
      <4>1. call' = NoCall \/ \E X, Y : call' = [call EXCEPT !.listed = X, !.exact = Y]
        BY <1>5 DEF SaveIndex
      <4>2. ASSUME NEW X, NEW Y, call' = [call EXCEPT !.listed = X, !.exact = Y] PROVE call'.pc = "save"
        <5>1. call'.pc = call.pc
          BY <3>1, <4>2 DEF Saving
        <5> QED  BY <1>5, <5>1 DEF SaveIndex
      <4> QED  BY <4>1, <4>2 DEF CachesDropped, JustCleaned
    <3> QED  BY <1>5, <3>2 DEF SaveIndex, dbVars
  <2>2. CASE UNCHANGED <<ids, manager>>
    BY <1>0, <2>1, <2>2
  <2>3. CASE \E i \in Resolved(n) : SavedIndex(i) /\ ids' = Put(ids, n, i)
    <3>1. PICK i \in Resolved(n) : SavedIndex(i) /\ ids' = Put(ids, n, i)
      BY <2>3
    <3>2. CASE mixed
      BY <2>1, <3>2
    <3>3. CASE ~mixed
      <4>1. Mine(space, ids, manager)
        BY <1>0, <3>3
      <4>2. i \in DOMAIN space /\ space[i].name = n /\ Manager(i).name = space[i].name
        BY <1>0, <3>1, <4>1, ResolvedTypes, ManagerTypes
      <4> QED  BY <2>1, <3>1, <4>1, <4>2 DEF SavedIndex, Put
    <3> QED  BY <3>2, <3>3
  <2> QED  BY <1>5, <2>2, <2>3, SaveIndexRows
<1>6. ASSUME Zip \/ \E n \in Names : LoseIndex(n) PROVE Goal
  BY <1>0, <1>6 DEF Zip, LoseIndex, CachesDropped, JustCleaned, dbVars, cacheVars
<1>7. ASSUME Crash PROVE Goal
  BY <1>1, <1>e, <1>7 DEF Crash
<1>8. ASSUME Unzip \/ CopyBack \/ CopyFails PROVE Goal
  <2>1. CachesDropped /\ UNCHANGED <<ids, manager, mixed, up>> /\ up
    BY <1>8 DEF Unzip, CopyBack, CopyFails, CachesDropped, cacheVars
  <2>2. ~JustCleaned'
    <3>1. call' = NoCall \/ \E b, e : call' = [pc |-> "copy", alone |-> call.alone,
                             pristine |-> call.pristine, wanted |-> b, exact |-> e]
      BY <1>8 DEF Unzip, CopyBack, CopyFails
    <3> QED  BY <3>1 DEF JustCleaned
  <2>3. CASE mixed
    BY <2>1, <2>2, <2>3
  <2>4. CASE ~mixed
    BY <1>0, <1>1, <2>1, <2>4
  <2> QED  BY <2>3, <2>4
<1>13. ASSUME NEW f, BeginRestore(f) PROVE Goal
  <2>1. /\ UNCHANGED <<space, manager, mixed, up>> /\ up /\ DOMAIN ids' = {}
        /\ call'.pc = "clean"
    BY <1>e, <1>13 DEF BeginRestore, Restoring, dbVars
  <2> QED  BY <1>0, <2>1 DEF CachesDropped
<1>14. ASSUME CleanManagers PROVE Goal
  <2>1. /\ UNCHANGED <<ids, up>> /\ up /\ DOMAIN manager' = {} /\ mixed' = ~call.alone
        /\ call # NoCall /\ call.pc = "clean" /\ call' = [call EXCEPT !.pc = "unzip"]
    BY <1>e, <1>14 DEF CleanManagers, dbVars
  <2>2. Unzipping(call)
    BY <1>0, <2>1, CallToUnzip
  <2>3. call'.pc = "unzip"
    BY <2>1, <2>2 DEF Unzipping
  <2>4. CASE call.alone
    BY <1>0, <1>1, <2>1, <2>4 DEF JustCleaned
  <2>5. CASE ~call.alone
    BY <2>1, <2>3, <2>5 DEF JustCleaned
  <2> QED  BY <2>4, <2>5
<1>9. ASSUME Start PROVE Goal
  BY <1>0, <1>1, <1>9 DEF Start, Open, cacheVars
<1>10. ASSUME Reset PROVE Goal
  <2>1. DOMAIN space' = {} /\ seq = 0 /\ UNCHANGED <<ids, manager, mixed, up, call>> /\ up
    BY <1>e, <1>10 DEF Reset, reset, cacheVars
  <2>2. GoodRows(space, 0)
    BY <1>0, <2>1
  <2>3. DOMAIN space = {}
    <3>1. DOMAIN space \subseteq 1..0
      BY <2>2 DEF GoodRows
    <3>2. 1..0 = {}
      OBVIOUS
    <3> QED  BY <3>1, <3>2
  <2> QED  BY <1>0, <2>1, <2>3 DEF CachesDropped, JustCleaned
<1>11. ASSUME Install PROVE Goal
  BY <1>2, <1>11 DEF Install, Upgrade, cacheVars
<1> HIDE DEF Goal
<1>12. Goal
  BY <1>3, <1>4, <1>5, <1>6, <1>7, <1>8, <1>9, <1>10, <1>11, <1>13, <1>14
     DEF SnapNext, Create, Restore
<1> QED  BY <1>12 DEF Goal, CachesOK, CachesOfThisDatabase

----------------------------------------------------------------------------
(* The calls.                                                               *)

(* What an upsert adds to a saved index stays out of its file, unless the   *)
(* index is empty: then the space was, and is, empty too.                   *)
LEMMA HeldUpsert ==
    ASSUME Typed, NEW X, NEW b, X \subseteq DOMAIN b.space,
           Held(X, b, file, manager, space), NEW i, NEW v, Upserted(i, v)
    PROVE  Held(X, b, file', manager', space')
<1>1. /\ i \in DOMAIN space /\ DOMAIN space' = DOMAIN space
      /\ \A k \in DOMAIN space : k # i => space'[k] = space[k]
  BY DEF Upserted
<1>2. PathOf(Manager(i), i) \in Path /\ Manager(i) \in ManagerRecord
      /\ (i \in DOMAIN manager => Manager(i) = manager[i])
      /\ (i \notin DOMAIN manager => Manager(i).entries = {})
  BY <1>1, ManagerTypes
<1>3. space[i].vectors \in SUBSET Vectors
  BY <1>1 DEF Typed, GoodRows, IsSpaces
<1>4. ASSUME NEW k \in X
      PROVE  /\ <<b.space[k].name, k>> \in DOMAIN file'
             /\ file'[<<b.space[k].name, k>>] = b.space[k].vectors
  <2>1. /\ k \in DOMAIN b.space /\ k \in DOMAIN manager /\ manager[k].name = b.space[k].name
        /\ b.space[k].vectors \subseteq manager[k].entries
        /\ <<b.space[k].name, k>> \in DOMAIN file
        /\ file[<<b.space[k].name, k>>] = b.space[k].vectors
    BY <1>4 DEF Held, ExactIn
  <2>2. CASE Manager(i).entries # {}
    BY <2>1, <2>2 DEF Upserted
  <2>3. CASE Manager(i).entries = {}
    <3>1. file' = Put(file, PathOf(Manager(i), i), space[i].vectors)
      BY <2>3 DEF Upserted
    <3>2. CASE k # i
      BY <2>1, <3>1, <3>2 DEF Put, PathOf
    <3>3. CASE k = i
      <4>1. b.space[i].vectors = {} /\ PathOf(Manager(i), i) = <<b.space[i].name, i>>
        BY <1>2, <2>1, <2>3, <3>3 DEF PathOf
      <4>2. space[i].vectors = {}
        BY <1>1, <1>2, <2>1, <2>3, <3>3, <4>1 DEF Held
      <4> QED  BY <2>1, <3>1, <3>3, <4>1, <4>2 DEF Put
    <3> QED  BY <3>2, <3>3
  <2> QED  BY <2>2, <2>3
<1>5. ASSUME NEW k \in X
      PROVE  /\ k \in DOMAIN manager' /\ manager'[k].name = b.space[k].name
             /\ b.space[k].vectors \subseteq manager'[k].entries
  BY <1>2, <1>5 DEF Held, Upserted
<1>6. ASSUME NEW k \in DOMAIN b.space \cap DOMAIN space',
             b.space[k].vectors = {}, space'[k].vectors # {}
      PROVE  k \in DOMAIN manager' /\ manager'[k].entries # {}
  <2>1. CASE k = i
    BY <2>1 DEF Upserted
  <2>2. CASE k # i
    BY <1>1, <1>6, <2>2 DEF Held, Upserted
  <2> QED  BY <2>1, <2>2
<1> QED  BY <1>4, <1>5, <1>6 DEF Held, ExactIn

(* A search saves an index it has loaded from its file.                     *)
LEMMA HeldSearch ==
    ASSUME Typed, NEW X, NEW b, X \subseteq DOMAIN b.space,
           Held(X, b, file, manager, space), NEW i, SearchedIn(i), space' = space
    PROVE  Held(X, b, file', manager', space')
<1>1. i \in DOMAIN space
  BY DEF SearchedIn
<1>2. PathOf(Manager(i), i) \in Path /\ Manager(i) \in ManagerRecord
      /\ (i \in DOMAIN manager => Manager(i) = manager[i])
      /\ (~Manager(i).indexLoaded => Manager(i).entries = {})
  BY <1>1, ManagerTypes
<1>3. /\ Loaded(Manager(i), i).name = Manager(i).name
      /\ Manager(i).indexLoaded => Loaded(Manager(i), i) = Manager(i)
      /\ ~Manager(i).indexLoaded => Loaded(Manager(i), i).entries =
           IF PathOf(Manager(i), i) \in DOMAIN file THEN file[PathOf(Manager(i), i)]
           ELSE space[i].vectors
  BY <1>1, <1>2, LoadedManager
<1>4. ASSUME NEW k \in X
      PROVE  /\ <<b.space[k].name, k>> \in DOMAIN file'
             /\ file'[<<b.space[k].name, k>>] = b.space[k].vectors
             /\ k \in DOMAIN manager' /\ manager'[k].name = b.space[k].name
             /\ b.space[k].vectors \subseteq manager'[k].entries
  <2>1. /\ k \in DOMAIN b.space /\ k \in DOMAIN manager /\ manager[k].name = b.space[k].name
        /\ b.space[k].vectors \subseteq manager[k].entries
        /\ <<b.space[k].name, k>> \in DOMAIN file
        /\ file[<<b.space[k].name, k>>] = b.space[k].vectors
    BY <1>4 DEF Held, ExactIn
  <2>2. CASE k # i
    BY <2>1, <2>2 DEF SearchedIn, Put, PathOf
  <2>3. CASE k = i /\ Manager(i).indexLoaded
    BY <1>2, <1>3, <2>1, <2>3 DEF SearchedIn
  <2>4. CASE k = i /\ ~Manager(i).indexLoaded
    <3>1. /\ b.space[i].vectors = {} /\ PathOf(Manager(i), i) = <<b.space[i].name, i>>
      BY <1>2, <2>1, <2>4 DEF PathOf
    <3>2. Searched(i) = {}
      BY <1>3, <2>1, <2>4, <3>1 DEF Searched
    <3> QED  BY <1>2, <1>3, <2>1, <2>4, <3>1, <3>2 DEF SearchedIn, Put
  <2> QED  BY <2>2, <2>3, <2>4
<1>5. ASSUME NEW k \in DOMAIN b.space \cap DOMAIN space,
             b.space[k].vectors = {}, space[k].vectors # {}
      PROVE  k \in DOMAIN manager' /\ manager'[k].entries # {}
  <2>1. k \in DOMAIN manager /\ manager[k].entries # {}
    BY <1>5 DEF Held
  <2>2. CASE k # i
    BY <2>1, <2>2 DEF SearchedIn
  <2>3. CASE k = i
    BY <1>2, <1>3, <2>1, <2>3 DEF SearchedIn
  <2> QED  BY <2>2, <2>3
<1> QED  BY <1>4, <1>5 DEF Held, ExactIn

(* No call of another thread but a deleteSpace that drops index managers    *)
(* changes what is held.                                                    *)
LEMMA HeldOverlapping ==
    ASSUME Typed, NEW X, NEW b, GoodBackup(b, release), b.seq <= seq, X \subseteq DOMAIN b.space,
           Held(X, b, file, manager, space), Overlapping, DOMAIN manager \subseteq DOMAIN manager'
    PROVE  Held(X, b, file', manager', space')
<1>1. ASSUME UNCHANGED <<file, manager, space>> PROVE Held(X, b, file', manager', space')
  BY <1>1
<1>2. ASSUME NEW n \in Names, createSpace(n) PROVE Held(X, b, file', manager', space')
  <2>1. /\ UNCHANGED <<file, manager>>
        /\ space' = Put(space, seq + 1, [name |-> n, vectors |-> {}])
    BY <1>2 DEF createSpace, disk
  <2>2. seq + 1 \notin DOMAIN b.space
    <3>1. DOMAIN b.space \subseteq 1..b.seq /\ b.seq \in 0..MaxSpace /\ seq \in 0..MaxSpace
      BY DEF GoodBackup, GoodRows, Typed
    <3> QED  BY <3>1, SnapAssumption
  <2> QED  BY <2>1, <2>2 DEF Held, Put
<1>3. ASSUME NEW i, deleteSpace(i) PROVE Held(X, b, file', manager', space')
  <2>1. DOMAIN manager = {} /\ file' = file /\ manager' = Empty /\ space' = Drop(space, {i})
    <3>1. DOMAIN Empty = {}
      BY DEF Empty
    <3> QED  BY <1>3, <3>1 DEF deleteSpace, disk
  <2>2. X = {}
    BY <2>1 DEF Held
  <2>3. \A k \in DOMAIN b.space \cap DOMAIN space' : ~(b.space[k].vectors = {} /\ space'[k].vectors # {})
    BY <2>1 DEF Held, Drop, Restrict
  <2> QED  BY <2>1, <2>2, <2>3 DEF Held, ExactIn
<1>4. ASSUME NEW n, NEW v \in Vectors, upsert(n, v) PROVE Held(X, b, file', manager', space')
  BY <1>4, UpsertRows, HeldUpsert
<1>5. ASSUME NEW n, search(n) PROVE Held(X, b, file', manager', space')
  BY <1>5, SearchRows, HeldSearch DEF search
<1> QED
  BY <1>1, <1>2, <1>3, <1>4, <1>5
     DEF Overlapping, getSpaceId, deleteSnapshot, deleteSnapshots, cacheVars, disk

(* createSnapshot holds what it has begun with, and adds what it saves.     *)
LEMMA HeldSave ==
    ASSUME Typed, NEW X, NEW b, Held(X, b, file, manager, space), NEW i, SavedIndex(i), space' = space,
           NEW now, now = {k \in {i} \cap DOMAIN b.space :
                             Manager(i).name = b.space[k].name
                             /\ Manager(i).entries = b.space[k].vectors}
    PROVE  Held((X \ {i}) \cup now, b, file', manager', space')
<1>1. \A k \in now : k = i /\ k \in DOMAIN b.space /\ Manager(i).name = b.space[i].name
                     /\ Manager(i).entries = b.space[i].vectors
  OBVIOUS
<1>2. ASSUME NEW k \in (X \ {i}) \cup now
      PROVE  /\ k \in DOMAIN b.space
             /\ <<b.space[k].name, k>> \in DOMAIN file'
             /\ file'[<<b.space[k].name, k>>] = b.space[k].vectors
             /\ k \in DOMAIN manager' /\ manager'[k].name = b.space[k].name
             /\ b.space[k].vectors \subseteq manager'[k].entries
  <2>1. CASE k # i
    <3>1. k \in X
      BY <1>1, <1>2, <2>1
    <3> QED  BY <2>1, <3>1 DEF Held, ExactIn, SavedIndex, Put, PathOf
  <2>2. CASE k = i
    <3>1. k \in now
      BY <1>2, <2>2
    <3> QED  BY <1>1, <2>2, <3>1 DEF SavedIndex, Put, PathOf
  <2> QED  BY <2>1, <2>2
<1>3. ASSUME NEW k \in DOMAIN b.space \cap DOMAIN space,
             b.space[k].vectors = {}, space[k].vectors # {}
      PROVE  k \in DOMAIN manager' /\ manager'[k].entries # {}
  <2>1. k \in DOMAIN manager /\ manager[k].entries # {}
    BY <1>3 DEF Held
  <2>2. k = i => Manager(i) = manager[i]
    BY <2>1 DEF Manager
  <2> QED  BY <2>1, <2>2 DEF SavedIndex
<1> HIDE DEF Held
<1>4. ExactIn((X \ {i}) \cup now, b, file')
  BY <1>2 DEF ExactIn
<1> QED  BY <1>2, <1>3, <1>4 DEF Held

(* What other threads do to a createSnapshot under way.                     *)
LEMMA SavingOverlapped ==
    ASSUME SnapInv, Overlapping, call # NoCall, call.pc = "save", call' # NoCall,
           release' = release, seq \in Nat, seq' \in Nat, seq <= seq'
    PROVE  Saving(call)'
<1>0. Typed /\ CallOK /\ Saving(call)
  BY CallToSave DEF SnapInv
<1>1. call' = [call EXCEPT !.kept = @ /\ DOMAIN manager \subseteq DOMAIN manager']
  BY DEF Overlapping, Noted
<1>2. PICK gone \in BOOLEAN : gone = (DOMAIN manager \subseteq DOMAIN manager')
  OBVIOUS
<1>3. call' = [call EXCEPT !.kept = @ /\ gone]
  BY <1>1, <1>2
<1>4. call' = [pc |-> "save", file |-> call.file, listed |-> call.listed, backup |-> call.backup,
               exact |-> call.exact, kept |-> call.kept /\ gone]
  BY <1>0, <1>3 DEF Saving
<1>5. /\ call'.pc = "save" /\ call'.file = call.file /\ call'.listed = call.listed
      /\ call'.backup = call.backup /\ call'.exact = call.exact
      /\ call'.kept = (call.kept /\ gone)
      /\ call' = [pc |-> "save", file |-> call'.file, listed |-> call'.listed, backup |-> call'.backup,
                  exact |-> call'.exact, kept |-> call'.kept]
  BY <1>4
<1>6. ASSUME call'.kept PROVE Held(call.exact, call.backup, file', manager', space')
  <2>1. call.kept /\ DOMAIN manager \subseteq DOMAIN manager'
    BY <1>2, <1>5, <1>6
  <2> QED  BY <1>0, <2>1, HeldOverlapping DEF Saving, SavedExactly
<1>7. GoodBackup(call.backup, release') /\ call.backup.seq <= seq'
  <2>1. call.backup.seq \in Int /\ call.backup.seq <= seq
    BY <1>0, SnapAssumption DEF Saving, GoodBackup, GoodRows
  <2> QED  BY <1>0, <2>1 DEF Saving
<1>8. call'.kept \in BOOLEAN
  BY <1>0, <1>5 DEF Saving
<1> QED  BY <1>0, <1>5, <1>6, <1>7, <1>8 DEF Saving, SavedExactly

(* What they do to a restoreSnapshot under way: it is no longer alone.      *)
LEMMA RestoringOverlapped ==
    ASSUME SnapInv, Overlapping, call # NoCall, call.pc # "save", release' = release
    PROVE  Unzipping(call)' \/ Copying(call)'
<1>0. Archived /\ CallOK /\ (Unzipping(call) \/ Copying(call))
  BY DEF SnapInv, CallOK, Saving
<1>1. call' = [call EXCEPT !.alone = FALSE]
  BY DEF Overlapping, Noted
<1>2. extracted' = extracted
      /\ (archives' = archives \/ \E S : archives' = Drop(archives, S) \/ archives' = Empty)
  BY DEF Overlapping, createSpace, deleteSpace, upsert, search, getSpaceId, deleteSnapshot,
         deleteSnapshots, disk
<1>3. \A f \in DOMAIN archives' : f \in DOMAIN archives /\ archives'[f] = archives[f]
  <2>1. CASE archives' = archives
    BY <2>1
  <2>2. ASSUME NEW S, archives' = Drop(archives, S)
        PROVE  \A f \in DOMAIN archives' : f \in DOMAIN archives /\ archives'[f] = archives[f]
    BY <2>2 DEF Drop, Restrict
  <2>3. CASE archives' = Empty
    BY <2>3 DEF Empty
  <2> QED  BY <1>2, <2>1, <2>2, <2>3
<1>4. CASE Unzipping(call)
  <2>1. call' = [pc |-> call.pc, file |-> call.file, alone |-> FALSE, pristine |-> call.pristine]
    <3>1. call = [pc |-> call.pc, file |-> call.file, alone |-> call.alone, pristine |-> call.pristine]
      BY <1>4 DEF Unzipping
    <3>2. PICK no : no = FALSE
      OBVIOUS
    <3>3. [call EXCEPT !.alone = no] =
            [pc |-> call.pc, file |-> call.file, alone |-> no, pristine |-> call.pristine]
      BY <3>1
    <3> QED  BY <1>1, <3>2, <3>3
  <2>2. /\ call'.pc = call.pc /\ call'.file = call.file /\ call'.alone = FALSE
        /\ call'.pristine = call.pristine
        /\ call' = [pc |-> call'.pc, file |-> call'.file, alone |-> call'.alone,
                    pristine |-> call'.pristine]
    BY <2>1
  <2> QED  BY <1>2, <1>3, <1>4, <2>2 DEF Unzipping
<1>5. CASE Copying(call)
  <2>1. call' = [pc |-> "copy", alone |-> FALSE, pristine |-> call.pristine,
                 wanted |-> call.wanted, exact |-> call.exact]
    <3>1. call = [pc |-> "copy", alone |-> call.alone, pristine |-> call.pristine,
                  wanted |-> call.wanted, exact |-> call.exact]
      BY <1>5 DEF Copying
    <3>2. PICK no : no = FALSE
      OBVIOUS
    <3>3. [call EXCEPT !.alone = no] =
            [pc |-> "copy", alone |-> no, pristine |-> call.pristine,
             wanted |-> call.wanted, exact |-> call.exact]
      BY <3>1
    <3> QED  BY <1>1, <3>2, <3>3
  <2>2. /\ call'.alone = FALSE /\ call'.pristine = call.pristine /\ call'.wanted = call.wanted
        /\ call' = [pc |-> "copy", alone |-> call'.alone, pristine |-> call'.pristine,
                    wanted |-> call'.wanted, exact |-> call'.exact]
    BY <2>1
  <2> QED  BY <1>2, <1>5, <2>2 DEF Copying
<1> QED  BY <1>0, <1>4, <1>5

(* unzipToDirectory leaves the backup to copy, and the files it has.        *)
LEMMA UnzippedCall ==
    ASSUME SnapInv, Unzip
    PROVE  call' = NoCall \/ Copying(call)'
<1>0. Typed /\ Archived /\ Unzipping(call)
  BY CallToUnzip DEF SnapInv, Unzip
<1>1. CASE call.file \notin DOMAIN archives
  BY <1>1 DEF Unzip
<1>2. CASE call.file \in DOMAIN archives
  <2>1. PICK a : a = archives[call.file]
    OBVIOUS
  <2>2. GoodArchive(a, release)
    BY <1>0, <1>2, <2>1 DEF Archived
  <2>3. /\ file' = Overwritten(a) /\ release' = release /\ mixed' = mixed
        /\ extracted' = extracted \cup a.extracted \cup {a.backup}
        /\ call' = [pc |-> "copy", alone |-> call.alone, pristine |-> call.pristine,
                    wanted |-> a.backup, exact |-> a.exact]
    BY <1>2, <2>1 DEF Unzip
  <2>4. /\ call'.alone = call.alone /\ call'.pristine = call.pristine /\ call'.wanted = a.backup
        /\ call'.exact = a.exact
        /\ call' = [pc |-> "copy", alone |-> call'.alone, pristine |-> call'.pristine,
                    wanted |-> call'.wanted, exact |-> call'.exact]
    BY <2>3
  <2>5. ExactIn(a.exact, a.backup, file')
    <3>1. IsFiles(a.file) /\ ExactIn(a.exact, a.backup, a.file) /\ IsFiles(file)
      BY <1>0, <2>2 DEF GoodArchive, Typed
    <3>2. DOMAIN file' = DOMAIN file \cup DOMAIN a.file /\ \A p \in DOMAIN a.file : file'[p] = a.file[p]
      BY <2>3, <3>1, OverwrittenFiles
    <3> QED  BY <3>1, <3>2 DEF ExactIn
  <2>6. call.pristine => extracted' = {a.backup}
    BY <1>0, <1>2, <2>1, <2>3 DEF Unzipping
  <2>7. GoodBackup(a.backup, release') /\ a.backup \in extracted'
    BY <2>2, <2>3 DEF GoodArchive
  <2>8. /\ call.alone \in BOOLEAN /\ call.pristine \in BOOLEAN
        /\ call.alone => ~mixed'
    BY <1>0, <2>3 DEF Unzipping, Unzip
  <2> HIDE DEF GoodBackup, ExactIn
  <2> QED  BY <2>4, <2>5, <2>6, <2>7, <2>8 DEF Copying
<1> QED  BY <1>1, <1>2

(* Every call goes on, or ends.                                             *)
LEMMA CallKept ==
    ASSUME SnapInv, SnapNext
    PROVE  CallOK'
<1> DEFINE Goal == call' # NoCall => up' /\ (Saving(call)' \/ Unzipping(call)' \/ Copying(call)')
<1>0. /\ Typed /\ Archived /\ CallOK
      /\ call # NoCall => up /\ (Saving(call) \/ Unzipping(call) \/ Copying(call))
  BY DEF SnapInv, CallOK
<1>s. seq \in Nat /\ seq' \in Nat
  <2>1. GoodRows(space, seq) /\ GoodRows(space', seq')
    BY <1>0, DatabaseStep DEF Typed
  <2> QED  BY <2>1, SnapAssumption DEF GoodRows
<1>1. ASSUME call' = NoCall PROVE Goal
  BY <1>1
<1>2. ASSUME Overlapping PROVE Goal
  <2>1. up' = up /\ release' = release
    BY <1>2
       DEF Overlapping, createSpace, search, getSpaceId, upsert, deleteSnapshot, deleteSpace,
           deleteSnapshots, dbVars
  <2>2. seq <= seq'
    <3>1. seq' = seq \/ seq' = seq + 1
      BY <1>2
         DEF Overlapping, createSpace, search, getSpaceId, upsert, deleteSnapshot, deleteSpace,
             deleteSnapshots, dbVars
    <3> QED  BY <1>s, <3>1
  <2>3. call = NoCall => call' = NoCall
    BY <1>2 DEF Overlapping, Noted
  <2> QED
    BY <1>0, <1>2, <1>s, <2>1, <2>2, <2>3, SavingOverlapped, RestoringOverlapped
<1>3. ASSUME NEW f \in FileNames, NEW listed \in SUBSET Names, BeginCreate(f, listed) PROVE Goal
  <2>1. call' = [pc |-> "save", file |-> f, listed |-> listed, backup |-> Backup,
                 exact |-> {}, kept |-> TRUE]
        /\ UNCHANGED <<dbVars, space, seq>> /\ up
    BY <1>3 DEF BeginCreate
  <2>2. GoodBackup(Backup, release) /\ Backup.seq = seq /\ Backup.space = space
    BY <1>0, DatabaseParts DEF Backup, GoodBackup, Typed
  <2>3. Held({}, Backup, file', manager', space')
    BY <2>1, <2>2 DEF Held, ExactIn
  <2>4. /\ call'.file = f /\ call'.listed = listed /\ call'.backup = Backup
        /\ call'.exact = {} /\ call'.kept = TRUE
        /\ call' = [pc |-> "save", file |-> call'.file, listed |-> call'.listed,
                    backup |-> call'.backup, exact |-> call'.exact, kept |-> call'.kept]
    BY <2>1
  <2>5. Saving(call)'
    BY <1>s, <2>1, <2>2, <2>3, <2>4 DEF Saving, SavedExactly, dbVars
  <2> QED  BY <2>1, <2>5 DEF dbVars
<1>4. ASSUME NEW n, SaveIndex(n) PROVE Goal
  <2>1. Saving(call) /\ up' = up /\ release' = release /\ space' = space /\ seq' = seq /\ up
    BY <1>0, <1>4, CallToSave DEF SaveIndex, dbVars
  <2>2. CASE call' = NoCall
    BY <1>1, <2>2
  <2>3. CASE \E i \in Resolved(n) : SavedIndex(i) /\ SavedCall(i, n)
    <3>1. PICK i : SavedIndex(i) /\ SavedCall(i, n)
      BY <2>3
    <3>2. PICK now : now = ExactNow(i)
      OBVIOUS
    <3>3. call' = [pc |-> "save", file |-> call.file, listed |-> call.listed \ {n},
                   backup |-> call.backup, exact |-> (call.exact \ {i}) \cup now, kept |-> call.kept]
      <4>1. PICK X : X = (call.exact \ {i}) \cup now
        OBVIOUS
      <4>2. PICK left : left = call.listed \ {n}
        OBVIOUS
      <4>3. call' = [call EXCEPT !.listed = left, !.exact = X]
        BY <3>1, <3>2, <4>1, <4>2 DEF SavedCall
      <4>4. call = [pc |-> "save", file |-> call.file, listed |-> call.listed,
                    backup |-> call.backup, exact |-> call.exact, kept |-> call.kept]
        BY <2>1 DEF Saving
      <4>5. call' = [pc |-> "save", file |-> call.file, listed |-> left,
                     backup |-> call.backup, exact |-> X, kept |-> call.kept]
        <5>1. PICK c : c = [call EXCEPT !.listed = left]
          OBVIOUS
        <5>2. c = [pc |-> "save", file |-> call.file, listed |-> left,
                   backup |-> call.backup, exact |-> call.exact, kept |-> call.kept]
          BY <4>4, <5>1
        <5>3. [c EXCEPT !.exact = X] =
                [pc |-> "save", file |-> call.file, listed |-> left,
                 backup |-> call.backup, exact |-> X, kept |-> call.kept]
          BY <5>2
        <5> QED  BY <4>3, <5>1, <5>3
      <4> QED  BY <4>1, <4>2, <4>5
    <3>4. /\ call'.file = call.file /\ call'.listed = call.listed \ {n} /\ call'.backup = call.backup
          /\ call'.exact = (call.exact \ {i}) \cup now /\ call'.kept = call.kept
          /\ call' = [pc |-> "save", file |-> call'.file, listed |-> call'.listed,
                      backup |-> call'.backup, exact |-> call'.exact, kept |-> call'.kept]
      BY <3>3
    <3>5. call.kept => Held((call.exact \ {i}) \cup now, call.backup, file', manager', space')
      BY <1>0, <2>1, <3>1, <3>2, HeldSave DEF Saving, SavedExactly, ExactNow
    <3>6. now \subseteq DOMAIN call.backup.space
      BY <3>2 DEF ExactNow
    <3>7. Saving(call)'
      BY <2>1, <3>4, <3>5, <3>6 DEF Saving, SavedExactly
    <3> QED  BY <2>1, <3>7
  <2> QED  BY <1>4, <2>2, <2>3, SaveIndexRows
<1>5. ASSUME NEW f \in FileNames, BeginRestore(f) PROVE Goal
  <2>1. call' = [pc |-> "clean", file |-> f, alone |-> TRUE,
                 pristine |-> extracted = {} /\ archives[f].extracted = {}]
        /\ extracted' = extracted /\ archives' = archives /\ up' = up /\ up
    BY <1>5 DEF BeginRestore, Restoring, disk, dbVars
  <2>2. /\ call'.pc = "clean" /\ call'.file = f /\ call'.alone = TRUE
        /\ call'.pristine = (extracted = {} /\ archives[f].extracted = {})
        /\ call' = [pc |-> call'.pc, file |-> call'.file, alone |-> call'.alone,
                    pristine |-> call'.pristine]
    BY <2>1
  <2> QED  BY <2>1, <2>2 DEF Unzipping
<1>11. ASSUME CleanManagers PROVE Goal
  <2>1. Unzipping(call) /\ up /\ up' = up
    BY <1>0, <1>11, CallToUnzip DEF CleanManagers, dbVars
  <2>2. call' = [pc |-> "unzip", file |-> call.file, alone |-> call.alone, pristine |-> call.pristine]
    <3>1. call = [pc |-> call.pc, file |-> call.file, alone |-> call.alone, pristine |-> call.pristine]
      BY <2>1 DEF Unzipping
    <3>2. PICK new : new = "unzip"
      OBVIOUS
    <3>3. [call EXCEPT !.pc = new] =
            [pc |-> new, file |-> call.file, alone |-> call.alone, pristine |-> call.pristine]
      BY <3>1
    <3> QED  BY <1>11, <3>2, <3>3 DEF CleanManagers
  <2>3. /\ call'.pc = "unzip" /\ call'.file = call.file /\ call'.alone = call.alone
        /\ call'.pristine = call.pristine
        /\ call' = [pc |-> call'.pc, file |-> call'.file, alone |-> call'.alone,
                    pristine |-> call'.pristine]
    BY <2>2
  <2>4. extracted' = extracted /\ archives' = archives /\ mixed' = ~call.alone
    BY <1>11 DEF CleanManagers, disk
  <2>5. Unzipping(call)'
    BY <2>1, <2>3, <2>4 DEF Unzipping
  <2> QED  BY <2>1, <2>5
<1>6. ASSUME Unzip PROVE Goal
  BY <1>6, UnzippedCall DEF Unzip
<1>7. ASSUME Zip \/ CopyBack \/ CopyFails \/ Crash \/ \E n \in Names : LoseIndex(n) PROVE Goal
  BY <1>1, <1>7 DEF Zip, CopyBack, CopyFails, Crash, LoseIndex
<1>8. ASSUME Start \/ Install PROVE Goal
  BY <1>0, <1>8 DEF Start, Install, Open, Upgrade
<1>9. ASSUME Reset PROVE Goal
  <2>1. /\ UNCHANGED <<call, mixed, release, up, file, extracted, archives, manager>> /\ up
        /\ seq = 0 /\ seq' = 0 /\ DOMAIN space' = {}
    BY <1>9 DEF Reset, reset, cacheVars, disk, Empty
  <2>2. ASSUME Saving(call) PROVE Saving(call)'
    <3>1. call.kept => Held(call.exact, call.backup, file, manager, space')
      BY <2>1, <2>2 DEF Saving, SavedExactly, Held
    <3> QED  BY <2>1, <2>2, <3>1 DEF Saving, SavedExactly
  <2>3. ASSUME Unzipping(call) PROVE Unzipping(call)'
    BY <2>1, <2>3 DEF Unzipping
  <2>4. ASSUME Copying(call) PROVE Copying(call)'
    BY <2>1, <2>4 DEF Copying
  <2> QED  BY <1>0, <2>1, <2>2, <2>3, <2>4
<1> HIDE DEF Goal
<1>10. Goal
  BY <1>2, <1>3, <1>4, <1>5, <1>6, <1>7, <1>8, <1>9, <1>11 DEF SnapNext, Create, Restore
<1> QED  BY <1>10 DEF Goal, CallOK

----------------------------------------------------------------------------
(* The invariant holds.                                                     *)

(* A new data directory, with or without a database of before the table     *)
(* info, is right.                                                          *)
LEMMA SnapInvInit == SnapInit => SnapInv
<1> SUFFICES ASSUME SnapInit PROVE SnapInv
  OBVIOUS
<1>1. DbInv /\ ~up /\ call = NoCall
  BY DbInvInit DEF SnapInit, DbInit
<1>e. DOMAIN Empty = {}
  BY DEF Empty
<1>2. GoodRows(space, seq)
  <2>1. CASE space = Empty /\ seq = 0
    BY <1>e, <2>1, SnapAssumption DEF GoodRows, IsSpaces
  <2>2. ASSUME NEW n \in Names, space = Put(Empty, 1, [name |-> n, vectors |-> {}]), seq = 1
        PROVE  GoodRows(space, seq)
    <3>1. DOMAIN space = {1} /\ space[1] = [name |-> n, vectors |-> {}]
      BY <1>e, <2>2 DEF Put
    <3>2. space[1] \in [name : Names, vectors : SUBSET Vectors]
      BY <3>1
    <3> QED  BY <2>2, <3>1, <3>2, SnapAssumption DEF GoodRows, IsSpaces, SpaceId
  <2> QED  BY <2>1, <2>2 DEF SnapInit
<1>3. Typed
  BY <1>1, <1>2, <1>e DEF SnapInit, Typed, GoodManagers, IsFiles
<1>4. Archived /\ CallOK /\ CachesOK
  BY <1>1, <1>e DEF SnapInit, Archived, CallOK, CachesOK, CachesOfThisDatabase,
                        CachesDropped, JustCleaned
<1> QED  BY <1>3, <1>4 DEF SnapInv

(* It is inductive. *)
LEMMA SnapInvStep == SnapInv /\ [SnapNext]_snapVars => SnapInv'
<1>1. ASSUME SnapInv, SnapNext PROVE SnapInv'
  BY <1>1, TypedStep, ArchivedStep, CallKept, CachesStep DEF SnapInv
<1>2. ASSUME SnapInv, UNCHANGED snapVars PROVE SnapInv'
  <2>1. UNCHANGED <<schema, release, up, space, seq, ids, spaceIdCache, manager, file, extracted,
                    archives, call, mixed>>
    BY <1>2 DEF snapVars, dbVars, cacheVars, disk
  <2>2. Typed'
    BY <1>2, <2>1 DEF SnapInv, Typed, DbInv, DbTypeOK, VersionRecordsScripts
  <2>3. Archived'
    BY <1>2, <2>1 DEF SnapInv, Archived
  <2>4. CallOK'
    BY <1>2, <2>1 DEF SnapInv, CallOK, Saving, SavedExactly, Unzipping, Copying
  <2>5. CachesOK'
    BY <1>2, <2>1 DEF SnapInv, CachesOK, CachesOfThisDatabase, CachesDropped, JustCleaned
  <2> QED  BY <2>2, <2>3, <2>4, <2>5 DEF SnapInv
<1> QED  BY <1>1, <1>2

----------------------------------------------------------------------------
(* The invariants of the runs.                                              *)

(* A database that a release has written has the type of one. *)
LEMMA BackupTypes ==
    ASSUME NEW b, NEW r, GoodBackup(b, r)
    PROVE  IsBackup(b)
BY DEF GoodBackup, GoodSchema, GoodRows, IsBackup

(* The rows, caches, files, archives and calls have their types whatever is *)
(* saved, restored, overlapped, killed and upgraded.                        *)
THEOREM SnapTypeCorrect == SnapSpec => []SnapTypeOK
<1>1. SnapInv => SnapTypeOK
  <2> SUFFICES ASSUME SnapInv PROVE SnapTypeOK
    OBVIOUS
  <2>1. Typed /\ Archived /\ CallOK
    BY DEF SnapInv
  <2>2. GoodBackup(Backup, release)
    BY <2>1, DatabaseParts DEF Backup, GoodBackup, Typed
  <2>3. IsBackup(Backup)
    BY <2>2, BackupTypes
  <2>4. \A b \in extracted : IsBackup(b)
    BY <2>1, BackupTypes DEF Archived
  <2>5. ASSUME NEW f \in DOMAIN archives
        PROVE  /\ f \in FileNames /\ IsBackup(archives[f].backup) /\ IsBackup(archives[f].live)
               /\ IsFiles(archives[f].file) /\ archives[f].exact \subseteq SpaceId
    <3>1. f \in FileNames /\ GoodArchive(archives[f], release)
      BY <2>1 DEF Archived
    <3>2. IsBackup(archives[f].backup) /\ IsBackup(archives[f].live)
      BY <3>1, BackupTypes DEF GoodArchive
    <3>3. archives[f].exact \subseteq SpaceId
      BY <3>1, <3>2 DEF GoodArchive, ExactIn, IsBackup, IsSpaces
    <3> QED  BY <3>1, <3>2, <3>3 DEF GoodArchive
  <2>6. call # NoCall => call.pc \in {"save", "clean", "unzip", "copy"} /\ up
    <3> SUFFICES ASSUME call # NoCall PROVE call.pc \in {"save", "clean", "unzip", "copy"} /\ up
      OBVIOUS
    <3>1. up /\ (Saving(call) \/ Unzipping(call) \/ Copying(call))
      BY <2>1 DEF CallOK
    <3>2. Saving(call) => call.pc = "save"
      BY DEF Saving
    <3>3. Unzipping(call) => call.pc \in {"clean", "unzip"}
      BY DEF Unzipping
    <3>4. Copying(call) => call.pc = "copy"
      BY DEF Copying
    <3> QED  BY <3>1, <3>2, <3>3, <3>4
  <2> QED
    BY <2>1, <2>3, <2>4, <2>5, <2>6
       DEF SnapTypeOK, Typed, DbInv, GoodManagers, ManagerRecord
<1> QED  BY <1>1, SnapInvInit, SnapInvStep, PTL DEF SnapSpec

(* What IdCache and the index managers hold is of the database that is      *)
(* there now, unless a call was answered while a restore was under way.     *)
THEOREM CachesOfThisDatabaseCorrect == SnapSpec => []CachesOfThisDatabase
<1>1. SnapInv => CachesOfThisDatabase
  BY DEF SnapInv, CachesOK
<1> QED  BY <1>1, SnapInvInit, SnapInvStep, PTL DEF SnapSpec

(* A restore puts back a database some release has written: the recorded    *)
(* version tells which scripts its tables have.                             *)
THEOREM RestoredRecordCorrect == SnapSpec => []VersionRecordsScripts
<1>1. SnapInv => VersionRecordsScripts
  BY DEF SnapInv, Typed, DbInv
<1> QED  BY <1>1, SnapInvInit, SnapInvStep, PTL DEF SnapSpec

(* The installed release and the later ones can open what a restore, a      *)
(* crash or an upgrade has left.                                            *)
THEOREM RestoredOpenableCorrect == SnapSpec => []Openable
<1>1. SnapInv => Openable
  BY InvOpens DEF SnapInv, Typed
<1> QED  BY <1>1, SnapInvInit, SnapInvStep, PTL DEF SnapSpec

(* The process opens a database with a row in info, restored ones too, at   *)
(* the schema of the installed release.                                     *)
THEOREM RestoredIsCurrentCorrect == SnapSpec => OpenedIsCurrent
<1>1. SnapInv /\ [SnapNext]_snapVars =>
        [~up /\ up' /\ schema.recorded # {} =>
            schema'.scripts = 1..release /\ schema'.recorded = {release}]_dbVars
  <2> SUFFICES ASSUME SnapInv, [SnapNext]_snapVars, ~up, up', schema.recorded # {}
               PROVE  schema'.scripts = 1..release /\ schema'.recorded = {release}
    OBVIOUS
  <2>1. Open
    BY DEF snapVars, dbVars, SnapNext, Overlapping, createSpace, search, getSpaceId, upsert,
           deleteSnapshot, deleteSpace, deleteSnapshots, Create, BeginCreate, SaveIndex, LoseIndex,
           Zip, Restore, BeginRestore, CleanManagers, Unzip, CopyBack, CopyFails, Start, Reset, reset, Crash, Exit, Install,
           Upgrade
  <2>2. schema' = Migrated(schema, release)
    BY <2>1 DEF Open
  <2> QED
    BY <2>2, MigratedSchema, ReleaseAssumption
       DEF SnapInv, Typed, DbInv, DbTypeOK, VersionRecordsScripts
<1> QED  BY <1>1, SnapInvInit, SnapInvStep, PTL DEF SnapSpec, OpenedIsCurrent

----------------------------------------------------------------------------
(* The action properties of the runs.                                       *)

(* The first restore into a data directory gives the rows of the archive    *)
(* that was asked for, whatever other threads write between its steps.      *)
THEOREM FirstRestoreExactCorrect == SnapSpec => FirstRestoreExact
<1>1. SnapInv /\ [SnapNext]_snapVars => [CopyBack /\ call.pristine => Backup' = call.wanted]_snapVars
  <2> SUFFICES ASSUME SnapInv, CopyBack, call.pristine PROVE Backup' = call.wanted
    OBVIOUS
  <2>1. Copying(call)
    BY CallToCopy DEF SnapInv, CopyBack
  <2>2. extracted = {call.wanted} /\ GoodBackup(call.wanted, release)
    BY <2>1 DEF Copying
  <2>3. Becomes(call.wanted)
    BY <2>2 DEF CopyBack
  <2> QED  BY <2>2, <2>3 DEF Becomes, Backup, GoodBackup
<1> QED  BY <1>1, SnapInvInit, SnapInvStep, PTL DEF SnapSpec, FirstRestoreExact

(* Loading an index changes its entries as written. *)
LEMMA LoadedEntries ==
    ASSUME NEW m \in ManagerRecord, NEW e \in SUBSET Vectors
    PROVE  [m EXCEPT !.indexLoaded = TRUE, !.entries = e].entries = e
BY DEF ManagerRecord

(* An index that was saved as the backup has it is searched exactly after   *)
(* the first restore: no manager is cached, and its file is the archive's.  *)
THEOREM RestoredIsSearchableCorrect == SnapSpec => RestoredIsSearchable
<1>1. SnapInv /\ [SnapNext]_snapVars =>
        [CopyBack /\ call.pristine /\ call.alone =>
           \A i \in call.exact : Searched(i)' = space'[i].vectors]_snapVars
  <2> SUFFICES ASSUME SnapInv, CopyBack, call.pristine, call.alone, NEW i \in call.exact
               PROVE  Searched(i)' = space'[i].vectors
    OBVIOUS
  <2>1. Copying(call) /\ Typed /\ CachesOK
    BY CallToCopy DEF SnapInv, CopyBack
  <2>2. /\ extracted = {call.wanted} /\ GoodBackup(call.wanted, release)
        /\ ~mixed /\ ExactIn(call.exact, call.wanted, file)
    BY <2>1 DEF Copying
  <2>3. space' = call.wanted.space
    BY <2>2 DEF CopyBack, Becomes
  <2>4. DOMAIN manager' = {} /\ file' = file
    BY <2>1, <2>2 DEF CopyBack, CachesOK, CachesDropped, cacheVars, disk
  <2>5. PICK m : m = [name |-> space'[i].name, entries |-> {}, indexLoaded |-> FALSE]
    OBVIOUS
  <2>6. Manager(i)' = m
    BY <2>4, <2>5 DEF Manager
  <2>7. /\ <<space'[i].name, i>> \in DOMAIN file'
        /\ file'[<<space'[i].name, i>>] = space'[i].vectors /\ i \in DOMAIN space'
    BY <2>2, <2>3, <2>4 DEF ExactIn
  <2>8. space'[i] \in [name : Names, vectors : SUBSET Vectors]
    BY <2>2, <2>3, <2>7 DEF GoodBackup, GoodRows, IsSpaces
  <2>9. m \in ManagerRecord /\ ~m.indexLoaded /\ m.name = space'[i].name
    BY <2>5, <2>8 DEF ManagerRecord
  <2>10. Searched(i)' = [m EXCEPT !.indexLoaded = TRUE, !.entries = space'[i].vectors].entries
    BY <2>6, <2>7, <2>9 DEF Searched, Loaded, PathOf
  <2> QED  BY <2>8, <2>9, <2>10, LoadedEntries
<1> QED  BY <1>1, SnapInvInit, SnapInvStep, PTL DEF SnapSpec, RestoredIsSearchable

(* What a search of a live index finds: the entries of a loaded manager, or *)
(* its file, or the rows.                                                   *)
LEMMA SearchedValue ==
    ASSUME Typed, NEW i \in DOMAIN space
    PROVE  Searched(i) = IF Manager(i).indexLoaded THEN Manager(i).entries
                         ELSE IF PathOf(Manager(i), i) \in DOMAIN file THEN file[PathOf(Manager(i), i)]
                         ELSE space[i].vectors
<1>1. PathOf(Manager(i), i) \in Path /\ Manager(i) \in ManagerRecord
  BY ManagerTypes
<1> QED  BY <1>1, LoadedManager DEF Searched

(* The same after a step. *)
LEMMA SearchedNext ==
    ASSUME Typed', NEW i \in DOMAIN space', NEW m, m = Manager(i)'
    PROVE  Searched(i)' = IF m.indexLoaded THEN m.entries
                          ELSE IF <<m.name, i>> \in DOMAIN file' THEN file'[<<m.name, i>>]
                          ELSE space'[i].vectors
<1>1. /\ space'[i] \in [name : Names, vectors : SUBSET Vectors]
      /\ IsFiles(file') /\ GoodManagers(manager') /\ i \in SpaceId
  BY DEF Typed, GoodRows, IsSpaces
<1>2. m \in ManagerRecord
  BY <1>1 DEF Manager, GoodManagers, ManagerRecord
<1>3. CASE m.indexLoaded
  BY <1>3 DEF Searched, Loaded
<1>4. ASSUME ~m.indexLoaded, NEW e \in SUBSET Vectors,
             e = IF <<m.name, i>> \in DOMAIN file' THEN file'[<<m.name, i>>] ELSE space'[i].vectors
      PROVE  Searched(i)' = e
  <2>1. Searched(i)' = [m EXCEPT !.indexLoaded = TRUE, !.entries = e].entries
    BY <1>4 DEF Searched, Loaded, PathOf
  <2> QED  BY <1>2, <2>1, LoadedEntries
<1>5. <<m.name, i>> \in DOMAIN file' => file'[<<m.name, i>>] \in SUBSET Vectors
  BY <1>1 DEF IsFiles
<1> QED  BY <1>1, <1>3, <1>4, <1>5

(* cleanupStorage() removes files of live spaces too, and the indexes that  *)
(* createSnapshot saves need not be loaded: what was found and is in the    *)
(* rows is still found, but for an index that is saved without having been  *)
(* loaded.                                                                  *)
THEOREM CreateLosesNothingCorrect == SnapSpec => CreateLosesNothing
<1>1. SnapInv /\ [SnapNext]_snapVars =>
        [Create => \A i \in DOMAIN space :
            \/ i \in DOMAIN manager' /\ ~manager'[i].indexLoaded
            \/ Searched(i) \cap space[i].vectors \subseteq Searched(i)']_snapVars
  <2> SUFFICES ASSUME SnapInv, SnapNext, Create, NEW i \in DOMAIN space,
                      i \in DOMAIN manager' => manager'[i].indexLoaded
               PROVE  Searched(i) \cap space[i].vectors \subseteq Searched(i)'
    BY DEF SnapNext
  <2>1. Typed /\ Typed'
    BY TypedStep DEF SnapInv
  <2>2. space' = space
    BY DEF Create, BeginCreate, SaveIndex, LoseIndex, Zip
  <2>3. PICK m : m = Manager(i)
    OBVIOUS
  <2>4. m \in ManagerRecord /\ (~m.indexLoaded => m.entries = {})
        /\ (i \in DOMAIN manager => m = manager[i])
    BY <2>1, <2>3, ManagerTypes
  <2>5. Searched(i) = IF m.indexLoaded THEN m.entries
                      ELSE IF <<m.name, i>> \in DOMAIN file THEN file[<<m.name, i>>]
                      ELSE space[i].vectors
    BY <2>1, <2>3, SearchedValue DEF PathOf
  <2>6. ASSUME Manager(i)' = m,
               m.indexLoaded \/ \A p \in DOMAIN file' : p = <<m.name, i>> => p \in DOMAIN file /\ file'[p] = file[p]
        PROVE  Searched(i) \cap space[i].vectors \subseteq Searched(i)'
    <3>1. Searched(i)' = IF m.indexLoaded THEN m.entries
                         ELSE IF <<m.name, i>> \in DOMAIN file' THEN file'[<<m.name, i>>]
                         ELSE space'[i].vectors
      BY <2>1, <2>2, <2>6, SearchedNext
    <3> QED  BY <2>2, <2>5, <2>6, <3>1
  <2>7. ASSUME manager' = manager PROVE Manager(i)' = m
    BY <2>2, <2>3, <2>7 DEF Manager
  <2>8. ASSUME NEW f, NEW listed, BeginCreate(f, listed)
        PROVE  Searched(i) \cap space[i].vectors \subseteq Searched(i)'
    <3>1. \A p \in DOMAIN file' : p \in DOMAIN file /\ file'[p] = file[p]
      BY <2>8 DEF BeginCreate, CleanedUp, Drop, Restrict
    <3> QED  BY <2>6, <2>7, <2>8, <3>1 DEF BeginCreate
  <2>9. ASSUME UNCHANGED <<manager, file>>
        PROVE  Searched(i) \cap space[i].vectors \subseteq Searched(i)'
    BY <2>6, <2>7, <2>9
  <2>10. ASSUME NEW n, NEW k, SavedIndex(k)
         PROVE  Searched(i) \cap space[i].vectors \subseteq Searched(i)'
    <3>1. CASE k = i
      <4>1. Manager(i)' = m /\ m.indexLoaded
        BY <2>3, <2>10, <3>1 DEF SavedIndex, Manager
      <4> QED  BY <2>6, <4>1
    <3>2. CASE k # i
      <4>1. Manager(i)' = m
        BY <2>2, <2>3, <2>10, <3>2 DEF SavedIndex, Manager
      <4>2. \A p \in DOMAIN file' : p = <<m.name, i>> => p \in DOMAIN file /\ file'[p] = file[p]
        BY <2>10, <3>2 DEF SavedIndex, Put, PathOf
      <4> QED  BY <2>6, <4>1, <4>2
    <3> QED  BY <3>1, <3>2
  <2> QED
    BY <2>8, <2>9, <2>10, SaveIndexRows DEF Create, LoseIndex, Zip, cacheVars, disk
<1> QED  BY <1>1, SnapInvInit, SnapInvStep, PTL DEF SnapSpec, CreateLosesNothing

----------------------------------------------------------------------------
(* The steps of a call. *)

(* Whatever other threads delete, write or migrate after the unzip, the      *)
(* backup of the archive that was asked for is in the data directory when    *)
(* findBackupFile looks for it.                                              *)
THEOREM RestoreFindsBackup == SnapSpec => [](call # NoCall /\ call.pc = "copy" => call.wanted \in extracted)
<1>1. SnapInv => (call # NoCall /\ call.pc = "copy" => call.wanted \in extracted)
  BY CallToCopy DEF SnapInv, Copying
<1>2. QED  BY <1>1, SnapInvInit, SnapInvStep, PTL DEF SnapSpec

(* What a call does itself, once it is under way. *)
OwnStep ==
    \/ CleanManagers \/ Unzip \/ CopyBack \/ CopyFails \/ Zip
    \/ \E n \in Names : SaveIndex(n) \/ LoseIndex(n)

FurtherOn ==
    \/ call.pc = "clean" /\ call'.pc = "unzip"
    \/ call.pc = "unzip" /\ call'.pc = "copy"
    \/ call.pc = "save" /\ call'.pc = "save" /\ call'.listed \subseteq call.listed /\ call'.listed # call.listed

Shortened ==
    call # NoCall /\ call' # NoCall =>
        /\ OwnStep => FurtherOn
        /\ \/ FurtherOn
           \/ call'.pc = call.pc /\ (call.pc = "save" => call'.listed = call.listed)

(* A step of the call itself ends it or brings it further.                   *)
LEMMA OwnStepShortens ==
    ASSUME CallOK, call # NoCall, call' # NoCall, OwnStep
    PROVE  FurtherOn
<1>1. CASE Unzip
  <2>1. PICK k : k = [pc |-> "copy", alone |-> call.alone, pristine |-> call.pristine,
                      wanted |-> archives[call.file].backup, exact |-> archives[call.file].exact]
    OBVIOUS
  <2>2. call.pc = "unzip" /\ call' = k
    BY <1>1, <2>1 DEF Unzip
  <2>3. QED  BY <2>1, <2>2 DEF FurtherOn
<1>2. ASSUME NEW n \in Names, SaveIndex(n)
      PROVE  FurtherOn
  <2>1. PICK k : k = call
    OBVIOUS
  <2>2. /\ k.pc = "save" /\ n \in k.listed
        /\ {"pc", "listed", "exact"} \subseteq DOMAIN k
    <3>1. call.pc = "save" /\ n \in call.listed
      BY <1>2 DEF SaveIndex
    <3>2. Saving(call)
      BY <3>1, CallToSave
    <3>3. QED  BY <2>1, <3>1, <3>2 DEF Saving
  <2>3. PICK e : call' = [k EXCEPT !.listed = @ \ {n}, !.exact = e]
    <3>1. PICK i : SavedCall(i, n)
      BY <1>2, SaveIndexRows
    <3>2. PICK e : e = (call.exact \ {i}) \cup ExactNow(i)
      OBVIOUS
    <3>3. QED  BY <2>1, <3>1, <3>2 DEF SavedCall
  <2>4. call'.pc = "save" /\ call'.listed = k.listed \ {n}
    BY <2>1, <2>2, <2>3
  <2>5. QED  BY <2>1, <2>2, <2>4 DEF FurtherOn
<1>3. CASE CleanManagers
  <2>1. PICK k : k = call
    OBVIOUS
  <2>2. k.pc = "clean" /\ call' = [k EXCEPT !.pc = "unzip"]
    BY <1>3, <2>1 DEF CleanManagers
  <2>3. "pc" \in DOMAIN k
    BY <2>1, <2>2, CallToUnzip DEF Unzipping
  <2>4. QED  BY <2>1, <2>2, <2>3 DEF FurtherOn
<1>4. QED  BY <1>1, <1>2, <1>3 DEF OwnStep, CopyBack, CopyFails, Zip, LoseIndex

(* Nor does any other step take a call back.                                 *)
LEMMA OthersLeaveCall ==
    ASSUME CallOK, call # NoCall, call' # NoCall, Overlapping \/ Start \/ Reset \/ Install
    PROVE  call'.pc = call.pc /\ (call.pc = "save" => call'.listed = call.listed)
<1>1. CASE Overlapping
  <2>1. PICK k : k = call
    OBVIOUS
  <2>2. Noted
    BY <1>1 DEF Overlapping
  <2>3. CASE k.pc = "save"
    <3>1. {"pc", "listed", "kept"} \subseteq DOMAIN k
      BY <2>1, <2>3 DEF CallOK, Saving, Unzipping, Copying
    <3>2. PICK b : call' = [k EXCEPT !.kept = b]
      BY <2>1, <2>2, <2>3 DEF Noted
    <3>3. QED  BY <2>1, <3>1, <3>2
  <2>4. CASE k.pc # "save"
    <3>1. "pc" \in DOMAIN k
      BY <2>1, <2>4 DEF CallOK, Saving, Unzipping, Copying
    <3>2. call' = [k EXCEPT !.alone = FALSE]
      BY <2>1, <2>2, <2>4 DEF Noted
    <3>3. QED  BY <2>1, <2>4, <3>1, <3>2
  <2>5. QED  BY <2>3, <2>4
<1>2. CASE Start \/ Reset \/ Install
  BY <1>2 DEF Start, Reset, Install
<1>3. QED  BY <1>1, <1>2

(* Which steps a call takes: its own bring it further, the others do not.    *)
LEMMA CallMoves ==
    ASSUME CallOK, call # NoCall, call' # NoCall, SnapNext
    PROVE  Shortened
<1>1. CASE Overlapping \/ Start \/ Reset \/ Install
  BY <1>1, OthersLeaveCall, OwnStepShortens DEF Shortened
<1>2. CASE Create \/ Restore
  BY <1>2, OwnStepShortens DEF Create, Restore, BeginCreate, BeginRestore, OwnStep, Shortened
<1>3. CASE Crash
  BY <1>3 DEF Crash
<1>4. QED  BY <1>1, <1>2, <1>3 DEF SnapNext

(* Each step of a createSnapshot or restoreSnapshot that is under way ends   *)
(* it, or leaves it strictly less to do (one listed space fewer, one stage   *)
(* of the restore fewer), and no step of another thread gives it more: a     *)
(* call takes at most one step for each listed space and one more, or three. *)
(* Whether the next one comes is a matter of the mutexes of IdCache.         *)
THEOREM CallsShorten == SnapSpec => [][Shortened]_snapVars
<1>1. SnapInv /\ [SnapNext]_snapVars => [Shortened]_snapVars
  BY CallMoves DEF SnapInv, Shortened, snapVars
<1>2. QED  BY <1>1, SnapInvInit, SnapInvStep, PTL DEF SnapSpec

=============================================================================
