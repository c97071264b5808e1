----------------------------- MODULE VectorStore -----------------------------
(***************************************************************************)
(* The vectors of one version: the Vector and VectorValue tables            *)
(* (VectorManager), the FAISS index each vector index has in memory         *)
(* (FaissIndexManager), the index files on disk and the LRU cache that      *)
(* decides which indexes are in memory (FaissIndexLRUCache).                *)
(*                                                                         *)
(* An embedding is a model value and an index is a bag of <<unique_id,      *)
(* embedding>>: what is searched for is abstracted, so a search is given    *)
(* by the bag it searches.  One caller at a time; a crash loses what is in  *)
(* memory and keeps the database and the files.                             *)
(***************************************************************************)
EXTENDS Naturals, Sequences, SequencesExt, Bags, Tables

CONSTANTS
    Embeddings,
    Capacities,  \* hnswIndexCacheCapacity: what the environment may set it to
    MaxIndex,    \* bound: rows ever inserted into VectorIndex
    MaxVector,   \* bound: rows ever inserted into Vector, and unique_ids asked for
    MaxEntries,  \* bound: entries of an index before it gets another
    Requests,    \* the lists of values callers pass, each [index, embedding]
    Torn         \* no index: a manager's null pointer, a file cut short or empty

ASSUME StoreAssumption ==
    /\ Capacities \subseteq Nat \ {0}
    /\ MaxIndex \in Nat /\ MaxVector \in Nat /\ MaxEntries \in Nat
    /\ Requests \subseteq Seq([index : 1..MaxIndex, embedding : Embeddings])
    /\ \A list \in Requests : \A x, y \in DOMAIN list : list[x].index = list[y].index => x = y
    /\ \A S \in SUBSET ((1..MaxVector) \X Embeddings) : SetToBag(S) # Torn

VARIABLES
    capacity,   \* the one it set, read once
    indexes,    \* ids of the live rows of VectorIndex
    indexSeq,   \* AUTOINCREMENT counters
    vectorSeq,
    vector,     \* Vector and its VectorValue rows: id -> [uid, deleted, values]
    cacheList,  \* the LRU list, most recently used first
    manager,    \* cacheMap: index id -> [entries, a bag or Torn; indexLoaded]
    file,       \* index id -> the bag in its file, or Torn
    pending     \* VectorManager::_cachedVectorIndexIds

tables    == <<indexes, indexSeq, vectorSeq, vector>>
memory    == <<cacheList, manager, pending>>
storeVars == <<tables, memory, file, capacity>>

IndexId  == 1..MaxIndex
VectorId == 1..MaxVector
Uid      == 1..MaxVector

(* The values of a vector: index id -> embedding. *)
Values == UNION {[I -> Embeddings] : I \in SUBSET IndexId}
ValuesOf(list) ==
    [i \in {list[x].index : x \in DOMAIN list} |->
        (CHOOSE x \in Range(list) : x.index = i).embedding]

----------------------------------------------------------------------------
(* FaissIndexLRUCache and FaissIndexManager.  A call is a chain of          *)
(* operations on a store: what the program has in memory and on disk, the   *)
(* vectors its transaction sees, and whether everything went well so far.   *)
(* After an exception (ok is FALSE) the rest of the chain does not run.     *)

Store(vectors) ==
    [list |-> cacheList, manager |-> manager, file |-> file, vector |-> vectors, ok |-> TRUE]

Failed(st) == [st EXCEPT !.ok = FALSE]

(* SELECT ... FROM VectorValue JOIN Vector WHERE vectorIndexId = i AND deleted = 0 *)
Rows(vectors, i) ==
    SetToBag({<<vectors[v].uid, vectors[v].values[i]>> :
                 v \in {w \in DOMAIN vectors :
                          ~vectors[w].deleted /\ i \in DOMAIN vectors[w].values}})

EvictedFromList(st) ==   \* faulty variant: the map keeps it
    IF Len(st.list) < capacity THEN st ELSE [st EXCEPT !.list = Front(@)]
Evicted(st) ==
    IF Len(st.list) < capacity THEN st
    ELSE [st EXCEPT !.list = Front(@), !.manager = Drop(@, {Last(st.list)})]

(* get(i): room is made before the row of the index is looked up. *)
Get(st, i) ==
    IF i \in Range(st.list)
    THEN [st EXCEPT !.list = <<i>> \o RemoveAt(@, CHOOSE x \in DOMAIN @ : @[x] = i)]
    ELSE IF i \notin indexes THEN Failed(Evicted(st))
    ELSE [Evicted(st) EXCEPT
             !.list = <<i>> \o @,
             !.manager = Put(@, i, [entries |-> EmptyBag, indexLoaded |-> FALSE])]

(* saveIndex: with no index to write, the file it has truncated stays empty. *)
Saved(st, i) == [st EXCEPT !.file = Put(@, i, st.manager[i].entries)]

(* restoreVectorsToIndex(): an index that has entries is left alone. *)
Restored(st, i) ==
    IF ~st.ok \/ st.manager[i].entries \notin {EmptyBag, Torn} THEN st
    ELSE IF i \notin indexes THEN Failed(st)
    ELSE Saved([st EXCEPT !.manager[i].entries = Rows(st.vector, i)], i)

(* loadIndex(), where indexNeedsUpdate(): the file is read if there is one. *)
(* The old index is dropped first, and nothing replaces it after a failure. *)
LoadedEachTime(st, i) ==   \* faulty variant: indexLoaded is not set
    IF ~st.ok \/ st.manager[i].indexLoaded THEN st
    ELSE LET reset == [st EXCEPT !.manager[i].entries = Torn]
         IN  IF i \notin DOMAIN st.file THEN Restored(reset, i)
             ELSE IF st.file[i] = Torn THEN Failed(reset)
             ELSE [st EXCEPT !.manager[i].entries = st.file[i]]
Loaded(st, i) ==
    IF ~st.ok \/ st.manager[i].indexLoaded THEN st
    ELSE LET reset == [st EXCEPT !.manager[i].entries = Torn]
             read  == IF i \notin DOMAIN st.file THEN Restored(reset, i)
                      ELSE IF st.file[i] = Torn THEN Failed(reset)
                      ELSE [st EXCEPT !.manager[i].entries = st.file[i]]
         IN  [read EXCEPT !.manager[i].indexLoaded = read.ok]

(* addVectorData(embedding, uid) *)
AppendedUnloaded(st, i, uid, e) ==   \* faulty variant: loadIndex is left to the search
    IF ~st.ok THEN st
    ELSE [st EXCEPT !.manager[i].entries = @ (+) SetToBag({<<uid, e>>})]
Appended(st, i, uid, e) ==
    LET loaded == Loaded(st, i)
    IN  IF ~loaded.ok THEN loaded
        ELSE [loaded EXCEPT !.manager[i].entries = @ (+) SetToBag({<<uid, e>>})]

(* INSERT INTO VectorValue *)
Inserted(st, v, i, e) ==
    IF st.ok THEN [st EXCEPT !.vector[v].values = Put(@, i, e)] ELSE st

(* What the calls leave: the tables only if the transaction commits. *)
Leaves(st) ==
    /\ cacheList' = st.list
    /\ manager' = st.manager
    /\ file' = st.file
Commits(st) == vector' = IF st.ok THEN st.vector ELSE vector

----------------------------------------------------------------------------
(* VectorManager. *)

(* unique_id 0 asks for the next one. *)
IsCountUid(u) == u = 1 + Cardinality(DOMAIN vector)   \* faulty variant: COUNT(*) + 1
IsNextUid(u) ==
    /\ \A v \in DOMAIN vector : vector[v].uid < u
    /\ u = 1 \/ \E v \in DOMAIN vector : u = vector[v].uid + 1

(* The row a vector is written to: the one that has its unique_id, if any. *)
IsRow(v, u) ==
    \/ v \in DOMAIN vector /\ vector[v].uid = u
    \/ /\ \A w \in DOMAIN vector : vector[w].uid # u
       /\ v = vectorSeq + 1 /\ v <= MaxVector

Written(v, u) == Put(vector, v, [uid |-> u, deleted |-> FALSE, values |-> Empty])

(* The index in memory with what the database has, if it was not there. *)
Refreshed(st, i) == IF st.ok THEN Restored(Get(st, i), i) ELSE st

(* One value of addVector with autoflush: x is [index, embedding]. *)
InsertedFirst(st, v, x) ==   \* faulty variant: the row before the index
    LET row == Inserted(IF st.ok THEN Get(st, x.index) ELSE st, v, x.index, x.embedding)
    IN  Appended(Restored(row, x.index), x.index, st.vector[v].uid, x.embedding)
AddedValue(st, v, x) ==
    Appended(Inserted(Refreshed(st, x.index), v, x.index, x.embedding),
             x.index, st.vector[v].uid, x.embedding)

Added(v, uid, values) ==
    LET run[n \in 0..Len(values)] ==
            IF n = 0 THEN Store(Written(v, uid)) ELSE AddedValue(run[n - 1], v, values[n])
    IN  run[Len(values)]

(* addVector(vector, true): on an exception the tables are rolled back, and *)
(* what the indexes and the files were given stays.                         *)
AddVector(u, values) ==
    \E v \in VectorId, uid \in Uid :
        /\ IF u = 0 THEN IsNextUid(uid) /\ v = vectorSeq + 1 ELSE uid = u /\ IsRow(v, uid)
        /\ LET end == Added(v, uid, values)
           IN  /\ Leaves(end)
               /\ Commits(end)
               /\ vectorSeq' = IF end.ok /\ v > vectorSeq THEN v ELSE vectorSeq
        /\ UNCHANGED <<indexes, indexSeq, pending>>

(* addVector(vector, false): the indexes are left to flush(). *)
AddVectorLater(u, values) ==
    \E v \in VectorId, uid \in Uid :
        /\ IF u = 0 THEN IsNextUid(uid) /\ v = vectorSeq + 1 ELSE uid = u /\ IsRow(v, uid)
        /\ vector' = Put(vector, v, [uid |-> uid, deleted |-> FALSE, values |-> ValuesOf(values)])
        /\ vectorSeq' = IF v > vectorSeq THEN v ELSE vectorSeq
        /\ pending' = pending \o [x \in DOMAIN values |-> values[x].index]
        /\ UNCHANGED <<indexes, indexSeq, cacheList, manager, file>>

(* flush(): an exception leaves the list as it was. *)
Flushed ==
    LET run[n \in 0..Len(pending)] ==
            IF n = 0 THEN Store(vector) ELSE Refreshed(run[n - 1], pending[n])
    IN  run[Len(pending)]
flush ==
    LET end == Flushed
    IN  /\ Leaves(end)
        /\ pending' = IF end.ok THEN <<>> ELSE pending
        /\ UNCHANGED tables

(* updateVector and deleteVector write the tables only. *)
UpdateVector(v, deleted, values) ==
    /\ v \in DOMAIN vector
    /\ vector' = [vector EXCEPT ![v].deleted = deleted, ![v].values = values]
    /\ UNCHANGED <<indexes, indexSeq, vectorSeq, memory, file>>

DeleteVector(v) ==
    /\ v \in DOMAIN vector
    /\ vector' = Drop(vector, {v})
    /\ UNCHANGED <<indexes, indexSeq, vectorSeq, memory, file>>

----------------------------------------------------------------------------
(* The other callers. *)

(* SearchServiceManager::search, for an index id found in IdCache. *)
search(i) ==
    /\ LET got == Get(Store(vector), i) IN Leaves(Loaded(got, i))
    /\ UNCHANGED <<tables, pending>>

(* SnapshotManager::createSnapshot saves the index of each version. *)
SaveIndex(i) ==
    /\ i \in indexes
    /\ Leaves(Saved(Get(Store(vector), i), i))
    /\ UNCHANGED <<tables, pending>>

(* VectorIndexManager::addVectorIndex and deleteVectorIndex *)
AddIndex ==
    /\ indexSeq < MaxIndex
    /\ indexSeq' = indexSeq + 1
    /\ indexes' = indexes \cup {indexSeq + 1}
    /\ UNCHANGED <<vector, vectorSeq, memory, file>>

DeleteIndex(i) ==
    /\ i \in indexes
    /\ indexes' = indexes \ {i}
    /\ UNCHANGED <<indexSeq, vector, vectorSeq, memory, file>>

(* SpaceManager::deleteSpace: the rows go and the cache is cleaned; the     *)
(* files stay.                                                              *)
DeleteSpace ==
    /\ indexes' = {}
    /\ vector' = Empty
    /\ cacheList' = <<>>
    /\ manager' = Empty
    /\ UNCHANGED <<indexSeq, vectorSeq, file, pending>>

(* The process ends and starts again, between two calls ... *)
Crash ==
    /\ cacheList' = <<>>
    /\ manager' = Empty
    /\ pending' = <<>>
    /\ UNCHANGED <<tables, file>>

(* ... or inside saveIndex(), which truncates the file before it writes it. *)
CrashWhileSaving ==
    /\ \E i \in indexes : file' = Put(file, i, Torn)
    /\ cacheList' = <<>>
    /\ manager' = Empty
    /\ pending' = <<>>
    /\ UNCHANGED tables

----------------------------------------------------------------------------
StoreInit ==
    /\ capacity \in Capacities
    /\ indexes = {} /\ indexSeq = 0
    /\ vector = Empty /\ vectorSeq = 0
    /\ cacheList = <<>> /\ manager = Empty /\ pending = <<>>
    /\ file = Empty

RoomForEntries ==
    \A i \in DOMAIN manager :
        manager[i].entries # Torn => BagCardinality(manager[i].entries) < MaxEntries

Write ==
    \/ /\ RoomForEntries
       /\ \E u \in 0..MaxVector, values \in Requests : AddVector(u, values)
    \/ \E u \in 0..MaxVector, values \in Requests :
         Len(pending) + Len(values) <= MaxIndex /\ AddVectorLater(u, values)
    \/ \E v \in VectorId, deleted \in BOOLEAN, values \in Requests :
         UpdateVector(v, deleted, ValuesOf(values))
    \/ \E v \in VectorId : DeleteVector(v)

Restructure == (\E i \in IndexId : DeleteIndex(i)) \/ DeleteSpace

Read == \E i \in 1..indexSeq : search(i) \/ SaveIndex(i)

(* New vectors for existing indexes. *)
Grow ==
    \E u \in 0..MaxVector, values \in Requests :
        /\ \A v \in DOMAIN vector : vector[v].uid # u
        /\ \A x \in DOMAIN values : values[x].index \in indexes
        /\ AddVector(u, values)

GrowNext ==
    /\ AddIndex \/ Grow \/ flush \/ Read
    /\ UNCHANGED capacity
GrowSpec == StoreInit /\ [][GrowNext]_storeVars

(* Bound: with room for every index, the other calls are not explored. *)
RoomForAll == capacity >= MaxIndex

StoreNext ==
    \/ GrowNext
    \/ /\ ~RoomForAll
       /\ Write \/ Restructure \/ Crash \/ CrashWhileSaving
       /\ UNCHANGED capacity
StoreSpec == StoreInit /\ [][StoreNext]_storeVars

----------------------------------------------------------------------------
(* Properties. *)

IsBag(b) == IsABag(b) /\ \A x \in DOMAIN b : x \in Uid \X Embeddings

StoreTypeOK ==
    /\ indexes \subseteq 1..indexSeq /\ indexSeq \in 0..MaxIndex
    /\ vectorSeq \in 0..MaxVector
    /\ DOMAIN vector \subseteq 1..vectorSeq
    /\ \A v \in DOMAIN vector : vector[v] \in [uid : Uid, deleted : BOOLEAN, values : Values]
    /\ Len(cacheList) <= capacity
    /\ IsInjective(cacheList)
    /\ DOMAIN manager = Range(cacheList)
    /\ Range(cacheList) \subseteq 1..indexSeq
    /\ \A i \in DOMAIN manager :
         /\ \/ IsBag(manager[i].entries)
            \/ manager[i].entries = Torn /\ ~manager[i].indexLoaded
         /\ manager[i].indexLoaded \in BOOLEAN
    /\ \A i \in DOMAIN file : file[i] = Torn \/ IsBag(file[i])
    /\ Range(pending) \subseteq IndexId

(* However unique_ids are asked for, updated, deleted and reused, one names  *)
(* one vector at most: a search result identifies what it found.             *)
UidNamesOneVector ==
    \A v, w \in DOMAIN vector : vector[v].uid = vector[w].uid => v = w

(* Adding a vector brings an index that was not in memory back in step with *)
(* the database, whatever state its file was left in by evictions, crashes,  *)
(* failed calls and updates, and enters each vector once: the rebuild runs  *)
(* after the old values are deleted and before the new one is inserted.     *)
FirstAddReindexes ==
    [][vector' # vector =>
         \A i \in DOMAIN manager' \ DOMAIN manager :
             manager'[i].entries = Rows(vector', i)]_storeVars

(* What addVector stored can be found from then on while its index stays in *)
(* memory: no later search replaces the index by its file.                  *)
AddedIsSearchable ==
    [][manager' # manager =>
         \A i \in DOMAIN manager', v \in DOMAIN vector' :
             /\ i \in DOMAIN vector'[v].values
             /\ v \in DOMAIN vector => vector[v] # vector'[v]
             => /\ manager'[i].indexLoaded
                /\ BagIn(<<vector'[v].uid, vector'[v].values[i]>>, manager'[i].entries)]_storeVars

Searched(i) == Loaded(Get(Store(vector), i), i)

(* While indexes stay in memory and vectors are only added, a search sees   *)
(* every vector of the database and nothing else, whichever of addVector,   *)
(* search, flush and saveIndex came first.                                  *)
SearchExact ==
    RoomForAll =>
        \A i \in indexes : Searched(i).ok /\ Searched(i).manager[i].entries = Rows(vector, i)

(* A vector that was added is found (FaissIndexManagerTest.cpp:178 "ensure  *)
(* the new vector is retrievable"), also when its index was evicted since.  *)
NewVectorRetrievable ==
    \A i \in indexes : Rows(vector, i) \sqsubseteq Searched(i).manager[i].entries

(* The index saved with a snapshot has every vector of the database         *)
(* (SnapshotServiceTest.cpp:174 "Validate that two results are returned").   *)
SnapshotHasVectors ==
    [][\A i \in indexes : SaveIndex(i) => Rows(vector, i) \sqsubseteq file'[i]]_storeVars
=============================================================================
