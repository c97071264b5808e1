--------------------------- MODULE ServicesProofs ---------------------------
(***************************************************************************)
(* Proofs about Services: what a chain of calls has found stays what it was *)
(* asked for, and createSpace does what it reports, for every number of     *)
(* clients, names, rows and indexes asked for.                              *)
(***************************************************************************)
EXTENDS Services, CatalogProofs, SequenceTheorems

----------------------------------------------------------------------------
(* What a step of a client does to the tables.                              *)

(* updateSpace writes an index back into the version it read it from.       *)
RewriteIndex(i, v, d) ==
    /\ \E t \in Times : UpdateVectorIndex(i, v, d, t)
    /\ i \in DOMAIN index => index[i].version = v

TablesEffect ==
    \/ UNCHANGED catalogVars
    \/ \E n \in Names : AddSpace(n)
    \/ \E s \in 1..spaceSeq : DeleteSpace(s)
    \/ \E s \in 1..spaceSeq, t \in Times : AddVersion(s, TRUE, t)
    \/ \E v \in 1..versionSeq : DeleteVersion(v)
    \/ \E v \in 1..versionSeq, d \in BOOLEAN, t \in Times : AddVectorIndex(v, d, t)
    \/ \E i \in 1..indexSeq, v \in 1..versionSeq, d \in BOOLEAN : RewriteIndex(i, v, d)

(* A row that was issued before the step is what it was, or gone.           *)
RowsKept ==
    /\ spaceSeq <= spaceSeq' /\ versionSeq <= versionSeq' /\ indexSeq <= indexSeq'
    /\ \A s \in 1..spaceSeq : s \in DOMAIN space' =>
         s \in DOMAIN space /\ space'[s] = space[s]
    /\ \A v \in 1..versionSeq : v \in DOMAIN version' =>
         /\ v \in DOMAIN version
         /\ version'[v].space = version[v].space
         /\ version'[v].uid = version[v].uid
    /\ \A i \in 1..indexSeq : i \in DOMAIN index' =>
         i \in DOMAIN index /\ index'[i].version = index[i].version

(* The effects are calls of the managers. *)
LEMMA EffectIsCatalogStep == TablesEffect => [CatalogNext]_catalogVars
BY DEF TablesEffect, CatalogNext, RewriteIndex

(* No effect changes the space or number of a version, the version of an    *)
(* index or the name of a space.                                            *)
LEMMA EffectKeepsRows ==
    ASSUME CatalogTypeOK, TablesEffect
    PROVE  RowsKept
<1>t. SpaceTypeOK /\ VersionTypeOK /\ IndexTypeOK
  BY TypeParts
<1>0. /\ spaceSeq \in Nat /\ versionSeq \in Nat /\ indexSeq \in Nat
      /\ spaceSeq + 1 \notin 1..spaceSeq
      /\ versionSeq + 1 \notin 1..versionSeq
      /\ indexSeq + 1 \notin 1..indexSeq
      /\ spaceSeq <= spaceSeq + 1 /\ versionSeq <= versionSeq + 1 /\ indexSeq <= indexSeq + 1
      /\ spaceSeq <= spaceSeq /\ versionSeq <= versionSeq /\ indexSeq <= indexSeq
  BY <1>t, BoundsAssumption DEF SpaceTypeOK, VersionTypeOK, IndexTypeOK
<1>1. CASE UNCHANGED catalogVars
  BY <1>0, <1>1 DEF catalogVars, RowsKept
<1>2. ASSUME NEW n, AddSpace(n) PROVE RowsKept
  <2>1. space' = Put(space, spaceSeq + 1, n) /\ spaceSeq' = spaceSeq + 1
    BY <1>2 DEF AddSpace, NextId
  <2>2. \A s \in 1..spaceSeq : s \in DOMAIN space' => s \in DOMAIN space /\ space'[s] = space[s]
    BY <1>0, <2>1 DEF Put
  <2> QED  BY <1>0, <1>2, <2>1, <2>2 DEF AddSpace, versionTable, indexTable, RowsKept
<1>3. ASSUME NEW s, DeleteSpace(s) PROVE RowsKept
  <2>1. SpaceDeleted(s)
    BY <1>3, DeleteSpaceRows
  <2>2. /\ DOMAIN space' \subseteq DOMAIN space
        /\ \A x \in DOMAIN space' : space'[x] = space[x]
        /\ UNCHANGED <<spaceSeq, versionSeq, indexSeq>>
    BY <1>3 DEF DeleteSpace, Drop, Restrict
  <2> QED  BY <1>0, <2>1, <2>2 DEF SpaceDeleted, RowsKept
<1>4. ASSUME NEW s, NEW t, AddVersion(s, TRUE, t) PROVE RowsKept
  <2>1. VersionAdded(s, TRUE)
    BY <1>t, <1>4, AddVersionRows
  <2>2. versionSeq' = versionSeq + 1 /\ UNCHANGED <<spaceTable, indexTable>>
    BY <1>4 DEF AddVersion
  <2> QED  BY <1>0, <2>1, <2>2 DEF VersionAdded, RowsKept, spaceTable, indexTable
<1>5. ASSUME NEW v, DeleteVersion(v) PROVE RowsKept
  <2>1. VersionDeleted(v)
    BY <1>t, <1>5, DeleteVersionRows
  <2>2. UNCHANGED <<versionSeq, spaceTable, indexTable>>
    BY <1>5 DEF DeleteVersion
  <2> QED  BY <1>0, <2>1, <2>2 DEF VersionDeleted, RowsKept, spaceTable, indexTable
<1>6. ASSUME NEW v, NEW d \in BOOLEAN, NEW t, AddVectorIndex(v, d, t) PROVE RowsKept
  <2>1. IndexAdded(v, d)
    BY <1>t, <1>6, AddVectorIndexRows
  <2>2. indexSeq' = indexSeq + 1 /\ UNCHANGED <<spaceTable, versionTable>>
    BY <1>6 DEF AddVectorIndex
  <2> QED  BY <1>0, <2>1, <2>2 DEF IndexAdded, RowsKept, spaceTable, versionTable
<1>7. ASSUME NEW i, NEW v, NEW d \in BOOLEAN, RewriteIndex(i, v, d) PROVE RowsKept
  <2>1. IndexUpdated(i, v, d) /\ (i \in DOMAIN index => index[i].version = v)
    BY <1>t, <1>7, UpdateVectorIndexRows DEF RewriteIndex
  <2>2. UNCHANGED <<indexSeq, spaceTable, versionTable>>
    BY <1>7 DEF RewriteIndex, UpdateVectorIndex
  <2> QED  BY <1>0, <2>1, <2>2 DEF IndexUpdated, RowsKept, spaceTable, versionTable
<1> QED  BY <1>1, <1>2, <1>3, <1>4, <1>5, <1>6, <1>7 DEF TablesEffect

(* A version still belongs to a space id that was issued.                   *)
LEMMA EffectKeepsIssued ==
    ASSUME CatalogTypeOK, SpacesIssued, TablesEffect
    PROVE  SpacesIssued'
<1>1. RowsKept
  BY EffectKeepsRows
<1>2. /\ spaceSeq \in Nat /\ versionSeq \in Nat /\ spaceSeq' \in Nat
      /\ DOMAIN version' \subseteq 1..versionSeq'
  <2>1. CatalogTypeOK'
    BY EffectIsCatalogStep, CatalogTypeStep
  <2> QED  BY <2>1, BoundsAssumption DEF CatalogTypeOK
<1>3. \A s \in 1..spaceSeq : s \in 1..spaceSeq'
  BY <1>1, <1>2 DEF RowsKept
<1>4. CASE \A v \in DOMAIN version' : v \in 1..versionSeq
  BY <1>1, <1>3, <1>4 DEF RowsKept, SpacesIssued
<1>5. ASSUME NEW s \in 1..spaceSeq, NEW t, AddVersion(s, TRUE, t) PROVE SpacesIssued'
  <2>1. VersionAdded(s, TRUE)
    BY <1>5, TypeParts, AddVersionRows
  <2> QED  BY <1>3, <2>1 DEF VersionAdded, SpacesIssued
<1>6. CASE versionSeq' = versionSeq
  BY <1>2, <1>4, <1>6
<1> QED
  BY <1>5, <1>6
     DEF TablesEffect, catalogVars, versionTable, AddSpace, DeleteSpace, DeleteVersion,
         AddVectorIndex, RewriteIndex, UpdateVectorIndex

----------------------------------------------------------------------------
(* What it does to the cache.                                               *)

(* updateSpace does not outdate the cache: the index stays in its version. *)
LEMMA RewriteKeepsLookups ==
    ASSUME LookupsCurrent, NEW i, NEW v, NEW d \in BOOLEAN,
           RewriteIndex(i, v, d), UNCHANGED cacheVars
    PROVE  Lookups'
<1>1. /\ DOMAIN index' = DOMAIN index
      /\ \A x \in DOMAIN index : index'[x].version = index[x].version
      /\ version' = version /\ space' = space
  <2>1. IndexUpdated(i, v, d) /\ (i \in DOMAIN index => index[i].version = v)
    BY TypeParts, UpdateVectorIndexRows DEF LookupsCurrent, RewriteIndex
  <2> QED  BY <2>1 DEF IndexUpdated, RewriteIndex, UpdateVectorIndex, spaceTable, versionTable
<1>2. /\ \A m : VersionsNamed(m)' = VersionsNamed(m)
      /\ \A w : KeysOf(w)' = KeysOf(w)
      /\ \A k : VersionsAt(k)' = VersionsAt(k)
  BY <1>1 DEF VersionsNamed, VersionsOf, SpacesNamed, KeysOf, VersionsAt
<1>3. VersionLookupsCurrent'
  BY <1>1, <1>2 DEF LookupsCurrent, Lookups, VersionLookupsCurrent, cacheVars, versionCaches
<1>4. DefaultLookupsCurrent'
  BY <1>1, <1>2 DEF LookupsCurrent, Lookups, DefaultLookupsCurrent, cacheVars
<1>5. IndexLookupsCurrent'
  BY <1>1, <1>2 DEF LookupsCurrent, Lookups, IndexLookupsCurrent, cacheVars, indexCaches
<1> QED  BY <1>3, <1>4, <1>5 DEF Lookups

(* A lookup inside a chain of calls, with its answer. *)
LEMMA ChainLookups ==
    ASSUME LookupsCurrent, NEW n, NEW r, NEW v, Resolves(n, r, v)
    PROVE  /\ Lookups' /\ UNCHANGED catalogVars
           /\ \E u \in Uids(n, r) : v \in VersionsAt(<<n, u>>)
<1>1. UNCHANGED catalogVars /\ UNCHANGED indexCaches
  BY DEF Resolves
<1>2. PICK u \in Uids(n, r) :
        spaceNameCache' = CachedDefault(n, r, u) /\ ResolveVersion(<<n, u>>, v)
  BY DEF Resolves
<1>3. v \in VersionsAt(<<n, u>>) /\ VersionLookupsCurrent'
  BY <1>1, <1>2, ResolvedVersion DEF LookupsCurrent, Lookups
<1>4. DefaultLookupsCurrent'
  BY <1>1, <1>2, ResolvedDefault DEF LookupsCurrent, Lookups, Uids, CachedDefault
<1>5. IndexLookupsCurrent'
  BY <1>1, SameLookups DEF LookupsCurrent, Lookups
<1> QED  BY <1>1, <1>2, <1>3, <1>4, <1>5 DEF Lookups

DefaultsNamed(n) == {v \in VersionsNamed(n) : version[v].dflt}

(* A name that does not resolve without a number has no default version:    *)
(* the cached number of a default is that of a version that exists.         *)
LEMMA FailedLookup ==
    ASSUME LookupsCurrent, NEW n, NEW r, Unresolved(n, r)
    PROVE  /\ Lookups' /\ UNCHANGED catalogVars
           /\ r = 0 => DefaultsNamed(n) = {}
<1>1. UNCHANGED catalogVars /\ UNCHANGED indexCaches /\ UNCHANGED versionCaches
  BY DEF Unresolved, NoVersion, versionCaches
<1>2. \/ Uids(n, r) = {} /\ UNCHANGED spaceNameCache
      \/ \E u \in Uids(n, r) :
           spaceNameCache' = CachedDefault(n, r, u) /\ VersionsAt(<<n, u>>) = {}
  BY DEF Unresolved, NoVersion
<1>3. DefaultLookupsCurrent'
  BY <1>1, <1>2, ResolvedDefault DEF LookupsCurrent, Lookups, Uids, CachedDefault
<1>4. VersionLookupsCurrent' /\ IndexLookupsCurrent'
  BY <1>1, SameLookups DEF LookupsCurrent, Lookups
<1>5. ASSUME r = 0, NEW v \in DefaultsNamed(n) PROVE FALSE
  <2>1. v \in VersionsNamed(n) /\ version[v].dflt
    BY <1>5 DEF DefaultsNamed
  <2>2. Uids(n, r) # {}
    BY <1>5, <2>1 DEF Uids, DefaultUids
  <2>3. PICK u \in DefaultUids(n) : VersionsAt(<<n, u>>) = {}
    BY <1>2, <1>5, <2>2 DEF Uids
  <2>4. \E w \in VersionsNamed(n) : version[w].uid = u
    BY <2>3 DEF DefaultUids, LookupsCurrent, Lookups, DefaultLookupsCurrent
  <2> QED  BY <2>3, <2>4 DEF VersionsAt
<1> QED  BY <1>1, <1>3, <1>4, <1>5 DEF Lookups

----------------------------------------------------------------------------
(* The calls.                                                               *)

CallRecord ==
    [pc : Steps \cup {"idle", "exists", "created"}, name : Names \cup {NoName},
     uid : 0..MaxVersion, space : 0..MaxSpace, version : 0..MaxVersion,
     index : 0..MaxIndex, dflt : BOOLEAN,
     todo : Seq({"default", "other", "update", "add"})]

(* What a call has found: FoundStillNamed of one client. *)
Found(self) ==
    /\ self.space \in DOMAIN space => space[self.space] = self.name
    /\ self.version \in DOMAIN version =>
         /\ self.uid # 0 => version[self.version].uid = self.uid
         /\ self.space # 0 /\ self.pc \in {"addIndex", "created"}
              => version[self.version].space = self.space
         /\ version[self.version].space \in DOMAIN space
              => space[version[self.version].space] = self.name
    /\ self.index \in DOMAIN index => index[self.index].version = self.version

(* The ids a call holds were issued, and it holds those its next step uses. *)
Issued(self) ==
    /\ self.space \in 0..spaceSeq
    /\ self.version \in 0..versionSeq
    /\ self.index \in 0..indexSeq
    /\ self.pc \in {"addFirstVersion", "addIndex", "deleteSpace", "addVersion"}
         => self.space # 0
    /\ self.pc \in {"addIndex", "deleteVersion", "update", "writeIndex"} => self.version # 0
    /\ self.pc = "writeIndex" => self.index # 0
    /\ self.pc \in {"addSpace", "addFirstVersion", "findDefault"}
         => self.uid = 0 /\ self.index = 0
    /\ self.pc \in {"addSpace", "findDefault"} => self.name \in Names
    /\ self.pc \in {"addSpace", "addFirstVersion"}
         => self.todo # <<>> /\ Head(self.todo) = "default"
    /\ self.pc \in {"addIndex", "writeIndex"} => self.todo # <<>>

CallsOK ==
    /\ call \in [Clients -> CallRecord]
    /\ \A c \in Clients : Found(call[c]) /\ Issued(call[c])

ClientStep(c) ==
    createSpace(c) \/ deleteSpaceNamed(c) \/ createVersion(c) \/ deleteByVersionId(c)
        \/ updateSpace(c)

(* What a step does to the tables and the cache, whoever takes it.          *)
Effect ==
    \/ UNCHANGED vars
    \/ \E n \in Names, r \in 0..MaxVersion, v \in VersionId : Resolves(n, r, v)
    \/ \E n \in Names, r \in 0..MaxVersion : Unresolved(n, r)
    \/ clean
    \/ \E n \in Names : addSpace(n)
    \/ \E s \in 1..spaceSeq : deleteSpace(s)
    \/ \E s \in 1..spaceSeq, t \in Times : addVersion(s, TRUE, t)
    \/ \E v \in 1..versionSeq : deleteVersion(v)
    \/ \E v \in 1..versionSeq, d \in BOOLEAN, t \in Times : addVectorIndex(v, d, t)
    \/ /\ \E i \in 1..indexSeq, v \in 1..versionSeq, d \in BOOLEAN : RewriteIndex(i, v, d)
       /\ UNCHANGED cacheVars

(* Every step of a call has one of these effects: the ids it passes to the  *)
(* managers were issued, and what it writes back is what it read.           *)
LEMMA StepHasEffect ==
    ASSUME CatalogTypeOK, CallsOK, NEW c \in Clients, ClientStep(c)
    PROVE  Effect
<1> DEFINE self == call[c]
<1>0. /\ self \in CallRecord /\ Found(self) /\ Issued(self)
      /\ spaceSeq \in Nat /\ versionSeq \in Nat /\ indexSeq \in Nat
      /\ 0 \in 0..MaxVersion
  BY BoundsAssumption DEF CallsOK, CatalogTypeOK
<1>1. ASSUME NEW n \in Names, NEW wanted, CheckName(c, n, wanted) PROVE Effect
  BY <1>0, <1>1 DEF CheckName, Effect
<1>2. ASSUME CreateRow(c) PROVE Effect
  BY <1>0, <1>2 DEF CreateRow, Effect, Issued
<1>3. ASSUME CreateFirstVersion(c) PROVE Effect
  <2>1. self.space \in 1..spaceSeq
    BY <1>0, <1>3 DEF CreateFirstVersion, Issued
  <2> QED  BY <1>3, <2>1 DEF CreateFirstVersion, Effect
<1>4. ASSUME CreateIndex(c) PROVE Effect
  <2>1. self.version \in 1..versionSeq
    BY <1>0, <1>4 DEF CreateIndex, Issued
  <2> QED  BY <1>4, <2>1 DEF CreateIndex, Effect
<1>5. ASSUME RejectIndex(c) PROVE Effect
  BY <1>5 DEF RejectIndex, Effect
<1>6. ASSUME NEW n, NEW pc, NEW todo, FindSpace(c, n, pc, todo) PROVE Effect
  BY <1>6 DEF FindSpace, Effect
<1>7. ASSUME RemoveSpace(c) PROVE Effect
  <2>1. self.space \in 1..spaceSeq
    BY <1>0, <1>7 DEF RemoveSpace, Issued
  <2> QED  BY <1>7, <2>1 DEF RemoveSpace, Effect
<1>8. ASSUME AddNewVersion(c) PROVE Effect
  <2>1. self.space \in 1..spaceSeq
    BY <1>0, <1>8 DEF AddNewVersion, Issued
  <2> QED  BY <1>8, <2>1 DEF AddNewVersion, Effect
<1>9. ASSUME NEW n \in Names, NEW r \in 0..MaxVersion, FindVersion(c, n, r) PROVE Effect
  BY <1>9 DEF FindVersion, Effect
<1>10. ASSUME RemoveVersion(c) PROVE Effect
  <2>1. self.version \in 1..versionSeq
    BY <1>0, <1>10 DEF RemoveVersion, Issued
  <2> QED  BY <1>10, <2>1 DEF RemoveVersion, Effect
<1>11. ASSUME FindDefault(c) PROVE Effect
  <2>1. self.name \in Names
    BY <1>0, <1>11 DEF FindDefault, Issued
  <2> QED  BY <1>0, <1>11, <2>1 DEF FindDefault, Effect
<1>12. ASSUME ReadIndex(c) PROVE Effect
  BY <1>12 DEF ReadIndex, Effect
<1>13. ASSUME WriteIndex(c) PROVE Effect
  <2>1. /\ self.index \in 1..indexSeq /\ self.version \in 1..versionSeq
        /\ self.dflt \in BOOLEAN
        /\ self.index \in DOMAIN index => index[self.index].version = self.version
    BY <1>0, <1>13 DEF WriteIndex, Issued, Found, CallRecord
  <2>2. CASE UNCHANGED vars
    BY <2>2 DEF Effect
  <2>3. CASE /\ \E t \in Times : UpdateVectorIndex(self.index, self.version, self.dflt, t)
             /\ UNCHANGED cacheVars
    <3>1. RewriteIndex(self.index, self.version, self.dflt)
      BY <2>1, <2>3 DEF RewriteIndex
    <3> QED  BY <2>1, <2>3, <3>1 DEF Effect
  <2> QED  BY <1>13, <2>2, <2>3 DEF WriteIndex
<1>14. ASSUME AddIndex(c) PROVE Effect
  <2>1. self.version \in 1..versionSeq
    BY <1>0, <1>14 DEF AddIndex, Issued
  <2> QED  BY <1>14, <2>1 DEF AddIndex, Effect
<1>15. ASSUME RejectUpdate(c) PROVE Effect
  BY <1>15 DEF RejectUpdate, Effect
<1>16. ASSUME WriteSpace(c) PROVE Effect
  <2>1. CASE UNCHANGED vars
    BY <2>1 DEF Effect
  <2>2. CASE UpdateSpace(self.space, self.name) /\ UNCHANGED cacheVars
    <3>1. space[self.space] = self.name /\ space = [s \in DOMAIN space |-> space[s]]
      BY <1>0, <2>2 DEF UpdateSpace, Found, CatalogTypeOK
    <3>2. space' = space
      BY <2>2, <3>1 DEF UpdateSpace
    <3> QED
      BY <2>2, <3>2 DEF UpdateSpace, Effect, vars, catalogVars, versionTable, indexTable
  <2> QED  BY <1>16, <2>1, <2>2 DEF WriteSpace
<1> QED
  BY <1>1, <1>2, <1>3, <1>4, <1>5, <1>6, <1>7, <1>8, <1>9, <1>10, <1>11, <1>12, <1>13,
     <1>14, <1>15, <1>16
     DEF ClientStep, createSpace, deleteSpaceNamed, createVersion, deleteByVersionId,
         updateSpace

(* Its effect on the tables. *)
LEMMA EffectOnTables == Effect => TablesEffect
<1> SUFFICES ASSUME Effect PROVE TablesEffect
  OBVIOUS
<1>1. CASE UNCHANGED vars
  BY <1>1 DEF vars, TablesEffect
<1>2. CASE /\ \E i \in 1..indexSeq, v \in 1..versionSeq, d \in BOOLEAN : RewriteIndex(i, v, d)
           /\ UNCHANGED cacheVars
  BY <1>2 DEF TablesEffect
<1> QED
  BY <1>1, <1>2
     DEF Effect, TablesEffect, Resolves, Unresolved, clean, addSpace, deleteSpace, addVersion,
         deleteVersion, addVectorIndex

(* Its effect on the maps. *)
LEMMA EffectKeepsLookups ==
    ASSUME LookupsCurrent, Effect
    PROVE  Lookups'
<1>1. CASE UNCHANGED vars
  BY <1>1, SameLookups DEF vars, cacheVars, LookupsCurrent, Lookups
<1>2. CASE Cleaned
  BY <1>2, CleanedLookups DEF Lookups
<1>3. CASE /\ \E i \in 1..indexSeq, v \in 1..versionSeq, d \in BOOLEAN : RewriteIndex(i, v, d)
           /\ UNCHANGED cacheVars
  BY <1>3, RewriteKeepsLookups
<1> QED
  BY <1>1, <1>2, <1>3, ChainLookups, FailedLookup, AddSpaceStep, AddIndexStep
     DEF Effect, clean, deleteSpace, addVersion, deleteVersion

(* The maps keep their types. *)
LEMMA EffectKeepsCacheTypes ==
    ASSUME CatalogTypeOK, CacheTypeOK, Effect
    PROVE  CacheTypeOK'
<1>0. /\ version \in [DOMAIN version -> VersionRow]
      /\ DOMAIN version \subseteq VersionId
      /\ \A r \in 0..MaxVersion : r # 0 => r \in VersionId
  BY BoundsAssumption DEF CatalogTypeOK, VersionId
<1>1. ASSUME NEW n \in Names, NEW r \in 0..MaxVersion, NEW u \in Uids(n, r)
      PROVE  u \in VersionId
  BY <1>0, <1>1 DEF Uids, DefaultUids, VersionsNamed, VersionsOf, VersionRow, CacheTypeOK
<1>2. CASE UNCHANGED cacheVars
  BY <1>2 DEF cacheVars, versionCaches, indexCaches, CacheTypeOK
<1>3. CASE Cleaned
  <2>1. DOMAIN Empty = {} /\ Empty = [x \in {} |-> 0]
    BY DEF Empty
  <2> QED  BY <1>3, <2>1 DEF Cleaned, CacheTypeOK
<1>4. ASSUME NEW n \in Names, NEW r \in 0..MaxVersion, NEW u \in Uids(n, r),
             spaceNameCache' = CachedDefault(n, r, u), UNCHANGED <<indexCaches, spaceIdCache>>,
             \/ UNCHANGED versionCaches
             \/ \E v \in VersionId : CacheVersion(v, <<n, u>>)
      PROVE  CacheTypeOK'
  <2>1. u \in VersionId /\ <<n, u>> \in Key
    BY <1>1 DEF Key
  <2>2. /\ DOMAIN spaceNameCache' \subseteq Names
        /\ spaceNameCache' \in [DOMAIN spaceNameCache' -> VersionId]
    BY <1>4, <2>1 DEF CachedDefault, Put, CacheTypeOK
  <2>3. /\ DOMAIN forwardCache' \subseteq Key
        /\ forwardCache' \in [DOMAIN forwardCache' -> VersionId]
        /\ DOMAIN reverseCache' \subseteq VersionId
        /\ reverseCache' \in [DOMAIN reverseCache' -> Key]
    <3>1. CASE UNCHANGED versionCaches
      BY <3>1 DEF versionCaches, CacheTypeOK
    <3>2. ASSUME NEW v \in VersionId, NEW k \in Key, k = <<n, u>>, CacheVersion(v, k)
          PROVE  <2>3!1 /\ <2>3!2 /\ <2>3!3 /\ <2>3!4
      BY <3>2 DEF CacheVersion, Put, CacheTypeOK
    <3> QED  BY <1>4, <2>1, <3>1, <3>2
  <2> QED  BY <1>4, <2>2, <2>3 DEF indexCaches, CacheTypeOK
<1>5. ASSUME NEW n \in Names, NEW r \in 0..MaxVersion, NEW v \in VersionId, Resolves(n, r, v)
      PROVE  CacheTypeOK'
  BY <1>4, <1>5 DEF Resolves, ResolveVersion
<1>6. ASSUME NEW n \in Names, NEW r \in 0..MaxVersion, Unresolved(n, r)
      PROVE  CacheTypeOK'
  <2>1. CASE UNCHANGED spaceNameCache
    BY <1>2, <1>6, <2>1 DEF Unresolved, NoVersion, cacheVars, versionCaches
  <2>2. CASE \E u \in Uids(n, r) : spaceNameCache' = CachedDefault(n, r, u) /\ NoVersion(<<n, u>>)
    BY <1>4, <1>6, <2>2 DEF Unresolved, NoVersion
  <2> QED  BY <1>6, <2>1, <2>2 DEF Unresolved
<1> QED
  BY <1>2, <1>3, <1>5, <1>6
     DEF Effect, vars, clean, addSpace, deleteSpace, addVersion, deleteVersion, addVectorIndex

----------------------------------------------------------------------------
(* What the calls hold. *)

(* Whatever a step does to the tables, what a call has found is still what  *)
(* it was asked for: the rows issued by then stay themselves or go, and no  *)
(* new row gets one of their ids.                                           *)
LEMMA HeldStaysFound ==
    ASSUME CatalogTypeOK, CatalogTypeOK', SpacesIssued, RowsKept,
           NEW self, Found(self), Issued(self)
    PROVE  Found(self)' /\ Issued(self)'
<1>0. /\ spaceSeq \in Nat /\ versionSeq \in Nat /\ indexSeq \in Nat
      /\ spaceSeq' \in Nat /\ versionSeq' \in Nat /\ indexSeq' \in Nat
      /\ 0 \notin DOMAIN space' /\ 0 \notin DOMAIN version' /\ 0 \notin DOMAIN index'
  BY BoundsAssumption DEF CatalogTypeOK
<1>1. Issued(self)'
  BY <1>0 DEF Issued, RowsKept
<1>2. ASSUME self.space \in DOMAIN space' PROVE space'[self.space] = self.name
  <2>1. self.space \in 1..spaceSeq
    BY <1>0, <1>2 DEF Issued
  <2> QED  BY <1>2, <2>1 DEF RowsKept, Found
<1>3. ASSUME self.version \in DOMAIN version'
      PROVE  /\ self.uid # 0 => version'[self.version].uid = self.uid
             /\ self.space # 0 /\ self.pc \in {"addIndex", "created"}
                  => version'[self.version].space = self.space
             /\ version'[self.version].space \in DOMAIN space'
                  => space'[version'[self.version].space] = self.name
  <2>1. self.version \in 1..versionSeq
    BY <1>0, <1>3 DEF Issued
  <2>2. /\ self.version \in DOMAIN version
        /\ version'[self.version].space = version[self.version].space
        /\ version'[self.version].uid = version[self.version].uid
    BY <1>3, <2>1 DEF RowsKept
  <2>3. version[self.version].space \in 1..spaceSeq
    BY <2>2 DEF SpacesIssued
  <2> QED  BY <2>2, <2>3 DEF RowsKept, Found
<1>4. ASSUME self.index \in DOMAIN index' PROVE index'[self.index].version = self.version
  <2>1. self.index \in 1..indexSeq
    BY <1>0, <1>4 DEF Issued
  <2> QED  BY <1>4, <2>1 DEF RowsKept, Found
<1> QED  BY <1>1, <1>2, <1>3, <1>4 DEF Found

(* The record of a client that runs no call holds nothing. *)
LEMMA NoCallOK ==
    ASSUME CatalogTypeOK
    PROVE  NoCall \in CallRecord /\ Found(NoCall) /\ Issued(NoCall)
<1>1. /\ spaceSeq \in Nat /\ versionSeq \in Nat /\ indexSeq \in Nat
      /\ 0 \notin DOMAIN space /\ 0 \notin DOMAIN version /\ 0 \notin DOMAIN index
  BY BoundsAssumption DEF CatalogTypeOK
<1>2. <<>> \in Seq({"default", "other", "update", "add"})
  OBVIOUS
<1> QED  BY <1>1, <1>2, BoundsAssumption DEF NoCall, CallRecord, Found, Issued

(* Requests are sequences. *)
LEMMA RequestTypes ==
    /\ \A w \in Wanted :
         /\ w \in Seq({"default", "other", "update", "add"})
         /\ w # <<>> /\ Head(w) = "default"
    /\ \A u \in Updates : u \in Seq({"default", "other", "update", "add"})
<1>1. ASSUME NEW sparse \in {<<>>, <<"default">>}, NEW m \in 0..MaxExtra
      PROVE  LET w == <<"default">> \o sparse \o [k \in 1..m |-> IF k = 1 THEN "default" ELSE "other"]
             IN  /\ w \in Seq({"default", "other", "update", "add"})
                 /\ w # <<>> /\ Head(w) = "default"
  <2> DEFINE S == {"default", "other", "update", "add"}
             named == [k \in 1..m |-> IF k = 1 THEN "default" ELSE "other"]
  <2>1. m \in Nat
    BY ServicesAssumption
  <2>2. named \in Seq(S)
    BY <2>1
  <2>3. <<"default">> \o sparse \in Seq(S) /\ Len(<<"default">> \o sparse) >= 1
        /\ (<<"default">> \o sparse)[1] = "default"
    <3>1. sparse \in Seq(S) /\ Len(sparse) \in Nat
      <4>1. CASE sparse = <<>>
        BY <4>1
      <4>2. CASE sparse = <<"default">>
        <5>1. <<"default">> \in Seq(S) /\ Len(<<"default">>) = 1
          OBVIOUS
        <5> QED  BY <4>2, <5>1
      <4> QED  BY <4>1, <4>2
    <3>2. /\ <<"default">> \in Seq(S) /\ Len(<<"default">>) = 1
          /\ <<"default">>[1] = "default"
      OBVIOUS
    <3> QED  BY <3>1, <3>2
  <2> HIDE DEF named
  <2>4. <<"default">> \o sparse \o named \in Seq(S)
    BY <2>2, <2>3
  <2>5. Len(<<"default">> \o sparse \o named) = Len(<<"default">> \o sparse) + Len(named)
    BY <2>2, <2>3
  <2>6. (<<"default">> \o sparse \o named)[1] = "default"
    BY <2>2, <2>3
  <2>7. Len(named) \in Nat
    BY <2>2
  <2> QED  BY <2>3, <2>4, <2>5, <2>6, <2>7 DEF named
<1>2. \A m \in 1..MaxUpdates : m \in Nat
  BY ServicesAssumption
<1>3. ASSUME NEW w \in Wanted
      PROVE  /\ w \in Seq({"default", "other", "update", "add"})
             /\ w # <<>> /\ Head(w) = "default"
  <2>1. PICK sparse \in {<<>>, <<"default">>}, m \in 0..MaxExtra :
          w = <<"default">> \o sparse \o [k \in 1..m |-> IF k = 1 THEN "default" ELSE "other"]
    BY DEF Wanted
  <2> QED  BY <1>1, <2>1
<1> QED  BY <1>2, <1>3 DEF Updates

(* What is left of a request when its first index is done. *)
LEMMA RestOfRequest ==
    ASSUME NEW self \in CallRecord, self.todo # <<>>
    PROVE  /\ Tail(self.todo) \in Seq({"default", "other", "update", "add"})
           /\ Len(self.todo) # 1 => Tail(self.todo) # <<>>
<1> DEFINE S == {"default", "other", "update", "add"}
           todo == self.todo
<1>1. todo \in Seq(S) /\ todo # <<>>
  BY DEF CallRecord
<1> HIDE DEF S, todo
<1>2. /\ Tail(todo) \in Seq(S) /\ Len(Tail(todo)) = Len(todo) - 1
      /\ Len(todo) \in Nat /\ Len(<<>>) = 0
  BY <1>1, HeadTailProperties
<1>3. Tail(todo) = <<>> => Len(todo) = 1
  <2> SUFFICES ASSUME Tail(todo) = <<>> PROVE Len(todo) = 1
    OBVIOUS
  <2>1. Len(Tail(todo)) = 0
    BY <1>2, Zenon
  <2> QED  BY <1>2, <2>1
<1> QED  BY <1>2, <1>3 DEF S, todo

(* The version a lookup inside a chain answers has the name and number it   *)
(* was asked for.                                                           *)
LEMMA AnswerNamed ==
    ASSUME LookupsCurrent, NEW n, NEW r, NEW v, Resolves(n, r, v)
    PROVE  /\ v \in DOMAIN version
           /\ version[v].space \in DOMAIN space /\ space[version[v].space] = n
           /\ r # 0 => version[v].uid = r
<1>1. PICK u \in Uids(n, r) : v \in VersionsAt(<<n, u>>)
  BY ChainLookups
<1> QED  BY <1>1 DEF VersionsAt, VersionsNamed, VersionsOf, SpacesNamed, Uids

(* A step of a client changes its own call, and the others' only in that    *)
(* they are no longer alone once it has changed a table.                    *)
LEMMA OnlyItsOwnCall ==
    ASSUME CallsOK, alone \in [Clients -> BOOLEAN], NEW c \in Clients, ClientStep(c)
    PROVE  /\ call' = [call EXCEPT ![c] = call'[c]]
           /\ alone' \in [Clients -> BOOLEAN]
           /\ alone'[c] => call'[c].pc = "idle" \/ alone[c] \/ call[c].pc \in {"idle", "exists", "created"}
           /\ \A d \in Clients \ {c} :
                alone'[d] => \/ call'[d].pc = "idle"
                             \/ alone[d] /\ catalogVars' = catalogVars
<1> DEFINE Goal == /\ call' = [call EXCEPT ![c] = call'[c]]
                   /\ alone' \in [Clients -> BOOLEAN]
                   /\ alone'[c] => \/ call'[c].pc = "idle" \/ alone[c]
                                   \/ call[c].pc \in {"idle", "exists", "created"}
                   /\ \A d \in Clients \ {c} :
                        alone'[d] => \/ call'[d].pc = "idle"
                                     \/ alone[d] /\ catalogVars' = catalogVars
<1>0. call \in [Clients -> CallRecord]
  BY DEF CallsOK
<1>1. ASSUME NEW r, Begin(c, r), UNCHANGED catalogVars PROVE Goal
  BY <1>0, <1>1 DEF Begin
<1>2. ASSUME NEW r, Continue(c, r) PROVE Goal
  BY <1>0, <1>2 DEF Continue
<1> HIDE DEF Goal
<1>3. ASSUME NEW n, NEW w, CheckName(c, n, w) PROVE Goal
  BY <1>1, <1>3 DEF CheckName, Resolves, Unresolved
<1>4. ASSUME NEW n, NEW pc, NEW todo, FindSpace(c, n, pc, todo) PROVE Goal
  BY <1>1, <1>4 DEF FindSpace, vars
<1>5. ASSUME NEW n, NEW r, FindVersion(c, n, r) PROVE Goal
  BY <1>1, <1>5 DEF FindVersion, Resolves, Unresolved
<1>6. Goal
  BY <1>2, <1>3, <1>4, <1>5
     DEF ClientStep, createSpace, deleteSpaceNamed, createVersion, deleteByVersionId,
         updateSpace, CreateRow, CreateFirstVersion, CreateIndex, RejectIndex, RemoveSpace,
         AddNewVersion, RemoveVersion, FindDefault, ReadIndex, WriteIndex, AddIndex,
         RejectUpdate, WriteSpace, Leave
<1> QED  BY <1>6 DEF Goal

(* The record a step leaves its client with.                                *)
LEMMA OwnCallStaysOK ==
    ASSUME CacheInv, CallsOK, CatalogTypeOK', RowsKept, NEW c \in Clients, ClientStep(c),
           NEW r, r = call'[c]
    PROVE  r \in CallRecord /\ Found(r)' /\ Issued(r)'
<1> DEFINE Goal == r \in CallRecord /\ Found(r)' /\ Issued(r)'
<1>s. PICK self : self = call[c]
  OBVIOUS
<1>0. /\ self \in CallRecord /\ Found(self) /\ Issued(self)
      /\ CatalogTypeOK /\ SpacesIssued /\ LookupsCurrent
      /\ call \in [Clients -> CallRecord]
  BY <1>s DEF CallsOK, CacheInv, LookupsCurrent, Lookups
<1>k. Found(self)' /\ Issued(self)'
  BY <1>0, HeldStaysFound
<1>n. /\ spaceSeq \in 0..MaxSpace /\ versionSeq \in 0..MaxVersion /\ indexSeq \in 0..MaxIndex
      /\ spaceSeq' \in 0..MaxSpace /\ versionSeq' \in 0..MaxVersion /\ indexSeq' \in 0..MaxIndex
      /\ spaceSeq \in Nat /\ versionSeq \in Nat /\ indexSeq \in Nat
      /\ spaceSeq' \in Nat /\ versionSeq' \in Nat /\ indexSeq' \in Nat
      /\ MaxSpace \in Nat /\ MaxVersion \in Nat /\ MaxIndex \in Nat
      /\ 0 \notin DOMAIN space' /\ 0 \notin DOMAIN version' /\ 0 \notin DOMAIN index'
      /\ DOMAIN space \subseteq 1..spaceSeq /\ DOMAIN version \subseteq 1..versionSeq
      /\ DOMAIN index \subseteq 1..indexSeq
  BY <1>0, BoundsAssumption DEF CatalogTypeOK
<1>e. <<>> \in Seq({"default", "other", "update", "add"})
  OBVIOUS
<1>1. ASSUME NEW n \in Names, NEW w \in Wanted, CheckName(c, n, w) PROVE Goal
  <2>1. \/ r = [NoCall EXCEPT !.pc = "exists", !.name = n]
        \/ r = [NoCall EXCEPT !.pc = "addSpace", !.name = n, !.todo = w]
    BY <1>0, <1>1 DEF CheckName, Begin
  <2>2. \/ r.pc = "exists"
        \/ r.pc = "addSpace" /\ r.todo = w
    BY <2>1 DEF NoCall
  <2>3. r.name = n /\ r.uid = 0 /\ r.space = 0 /\ r.version = 0 /\ r.index = 0
    BY <2>1 DEF NoCall
  <2>4. w \in Seq({"default", "other", "update", "add"}) /\ w # <<>> /\ Head(w) = "default"
    BY RequestTypes
  <2>5. r \in CallRecord
    <3>1. NoCall \in CallRecord
      BY <1>0, NoCallOK
    <3>2. "addSpace" \in Steps
      BY DEF Steps
    <3>3. CASE r = [NoCall EXCEPT !.pc = "exists", !.name = n]
      BY <3>1, <3>3 DEF CallRecord
    <3>4. CASE r = [NoCall EXCEPT !.pc = "addSpace", !.name = n, !.todo = w]
      BY <2>4, <3>1, <3>2, <3>4 DEF CallRecord
    <3> QED  BY <2>1, <3>3, <3>4
  <2>6. Found(r)'
    BY <1>n, <2>2, <2>3 DEF Found
  <2>7. Issued(r)'
    BY <1>n, <2>2, <2>3, <2>4 DEF Issued
  <2> QED  BY <2>5, <2>6, <2>7
<1>2. ASSUME Leave(c) \/ Begin(c, NoCall) PROVE Goal
  <2>1. r = NoCall
    BY <1>0, <1>2 DEF Leave, Continue, Begin
  <2>2. NoCall \in CallRecord
    BY <1>0, NoCallOK
  <2>3. Found(NoCall)' /\ Issued(NoCall)'
    BY <1>n DEF NoCall, Found, Issued
  <2> QED  BY <2>1, <2>2, <2>3 DEF NoCall
<1>3. ASSUME NEW n \in Names, NEW pc \in Steps, pc \in {"deleteSpace", "addVersion", "findDefault"},
             NEW todo \in Seq({"default", "other", "update", "add"}),
             FindSpace(c, n, pc, todo)
      PROVE  Goal
  <2>1. PICK s \in SpacesNamed(n) :
          r = [NoCall EXCEPT !.pc = pc, !.name = n, !.space = s, !.todo = todo]
    BY <1>0, <1>3 DEF FindSpace, Begin
  <2>2. /\ s \in DOMAIN space /\ s \in 1..spaceSeq /\ space[s] = n /\ UNCHANGED vars
    BY <1>n, <1>3 DEF SpacesNamed, FindSpace
  <2>3. /\ r.pc = pc /\ r.name = n /\ r.space = s /\ r.todo = todo /\ r.uid = 0
        /\ r.version = 0 /\ r.index = 0
    BY <2>1 DEF NoCall
  <2>4. r \in CallRecord
    <3>1. NoCall \in CallRecord /\ s \in 0..MaxSpace
      BY <1>0, <1>n, <2>2, NoCallOK
    <3> QED  BY <1>3, <2>1, <3>1 DEF CallRecord
  <2>5. s \in DOMAIN space' => space'[s] = n
    BY <2>2 DEF vars, catalogVars
  <2>6. Found(r)'
    BY <1>n, <1>3, <2>3, <2>5 DEF Found
  <2>7. s \in 0..spaceSeq' /\ s # 0
    BY <1>n, <2>2 DEF vars, catalogVars
  <2>8. Issued(r)'
    BY <1>n, <1>3, <2>3, <2>7 DEF Issued
  <2> QED  BY <2>4, <2>6, <2>8
<1>4. ASSUME CreateRow(c) PROVE Goal
  <2>1. /\ self.pc = "addSpace" /\ self.name \in Names
        /\ r = [self EXCEPT !.pc = "addFirstVersion", !.space = spaceSeq + 1]
        /\ spaceSeq' = spaceSeq + 1 /\ space' = Put(space, spaceSeq + 1, self.name)
    BY <1>0, <1>s, <1>4 DEF CreateRow, Continue, addSpace, AddSpace, NextId, Issued
  <2>2. /\ r.pc = "addFirstVersion" /\ r.space = spaceSeq + 1 /\ r \in CallRecord
        /\ r.name = self.name /\ r.uid = self.uid /\ r.version = self.version
        /\ r.index = self.index
    BY <1>0, <1>n, <2>1 DEF CallRecord, Steps
  <2>3. space'[r.space] = r.name
    BY <2>1, <2>2 DEF Put
  <2>4. Found(r)'
    BY <1>k, <2>2, <2>3 DEF Found
  <2>5. Issued(r)'
    BY <1>k, <1>n, <2>1, <2>2 DEF Issued
  <2> QED  BY <2>2, <2>4, <2>5
<1>5. ASSUME CreateFirstVersion(c) PROVE Goal
  <2>1. /\ self.pc = "addFirstVersion"
        /\ r = [self EXCEPT !.pc = "addIndex", !.version = versionSeq + 1]
        /\ versionSeq' = versionSeq + 1
        /\ VersionAdded(self.space, TRUE)
    BY <1>0, <1>s, <1>5, TypeParts, AddVersionRows
       DEF CreateFirstVersion, Continue, addVersion, AddVersion, NextId
  <2>2. /\ r.pc = "addIndex" /\ r.version = versionSeq + 1 /\ r \in CallRecord
        /\ r.name = self.name /\ r.uid = self.uid /\ r.space = self.space
        /\ r.index = self.index /\ r.todo = self.todo
    <3>1. versionSeq + 1 \in 0..MaxVersion
      BY <1>n, <2>1
    <3>2. self \in CallRecord /\ "addIndex" \in Steps
      BY <1>0 DEF Steps
    <3> QED  BY <2>1, <3>1, <3>2 DEF CallRecord
  <2>3. versionSeq + 1 \in DOMAIN version' /\ version'[r.version].space = r.space
    BY <2>1, <2>2 DEF VersionAdded
  <2>4. /\ r.uid = 0 /\ r.index = 0 /\ r.todo # <<>> /\ r.space # 0
    BY <1>0, <2>1, <2>2 DEF Issued
  <2>5. r.space \in DOMAIN space' => space'[r.space] = r.name
    BY <1>k, <2>2 DEF Found
  <2>6. Found(r)'
    BY <1>n, <2>3, <2>4, <2>5 DEF Found
  <2>7. r.space \in 0..spaceSeq' /\ r.version \in 0..versionSeq' /\ r.version # 0
    BY <1>k, <1>n, <2>1, <2>2 DEF Issued
  <2>8. Issued(r)'
    BY <1>n, <2>2, <2>4, <2>7 DEF Issued
  <2> QED  BY <2>2, <2>6, <2>8
<1>6. ASSUME CreateIndex(c) PROVE Goal
  <2>1. self.pc = "addIndex" /\ r = IndexDone(self) /\ self.todo # <<>>
    BY <1>0, <1>s, <1>6 DEF CreateIndex, Continue, Issued
  <2>2. /\ Tail(self.todo) \in Seq({"default", "other", "update", "add"})
        /\ Len(self.todo) # 1 => Tail(self.todo) # <<>>
    BY <1>0, <2>1, RestOfRequest
  <2>3. /\ r.pc = IF Len(self.todo) = 1 THEN "created" ELSE "addIndex"
        /\ r.todo = Tail(self.todo) /\ r \in CallRecord
        /\ r.name = self.name /\ r.uid = self.uid /\ r.space = self.space
        /\ r.version = self.version /\ r.index = self.index
    BY <1>0, <2>1, <2>2 DEF IndexDone, CallRecord, Steps
  <2>4. Found(r)'
    BY <1>k, <2>1, <2>3 DEF Found
  <2>5. Issued(r)'
    BY <1>k, <2>1, <2>2, <2>3 DEF Issued
  <2> QED  BY <2>3, <2>4, <2>5
<1>7. ASSUME NEW n \in Names, NEW u \in 0..MaxVersion, FindVersion(c, n, u) PROVE Goal
  <2>1. CASE Begin(c, NoCall)
    BY <1>2, <2>1
  <2>2. CASE \E v \in VersionId :
               /\ Resolves(n, u, v)
               /\ Begin(c, [NoCall EXCEPT !.pc = "deleteVersion", !.name = n, !.uid = u, !.version = v])
    <3>1. PICK v \in VersionId :
               /\ Resolves(n, u, v)
               /\ r = [NoCall EXCEPT !.pc = "deleteVersion", !.name = n, !.uid = u, !.version = v]
      BY <1>0, <2>2 DEF Begin
    <3>2. /\ v \in DOMAIN version
          /\ version[v].space \in DOMAIN space /\ space[version[v].space] = n
          /\ u # 0 => version[v].uid = u
          /\ UNCHANGED catalogVars
      BY <1>0, <3>1, AnswerNamed, ChainLookups
    <3>3. /\ r.pc = "deleteVersion" /\ r.name = n /\ r.space = 0 /\ r.uid = u
          /\ r.version = v /\ r.index = 0
      BY <3>1 DEF NoCall
    <3>4. r \in CallRecord
      <4>1. NoCall \in CallRecord /\ v \in 0..MaxVersion
        BY <1>0, <1>n, NoCallOK DEF VersionId
      <4> QED  BY <3>1, <4>1 DEF CallRecord, Steps
    <3>5. Found(r)'
      BY <1>n, <3>2, <3>3 DEF Found, catalogVars
    <3>6. v \in 0..versionSeq' /\ v # 0
      BY <1>n, <3>2 DEF catalogVars
    <3>7. Issued(r)'
      BY <1>n, <3>3, <3>6 DEF Issued
    <3> QED  BY <3>4, <3>5, <3>7
  <2> QED  BY <1>7, <2>1, <2>2 DEF FindVersion
<1>8. ASSUME FindDefault(c) PROVE Goal
  <2>1. CASE Leave(c)
    BY <1>2, <2>1
  <2>2. CASE \E v \in VersionId :
               /\ Resolves(call[c].name, 0, v)
               /\ Continue(c, [call[c] EXCEPT !.pc = "update", !.version = v])
    <3>1. PICK v \in VersionId :
               /\ Resolves(self.name, 0, v)
               /\ r = [self EXCEPT !.pc = "update", !.version = v]
      BY <1>0, <1>s, <2>2 DEF Continue
    <3>2. /\ v \in DOMAIN version
          /\ version[v].space \in DOMAIN space /\ space[version[v].space] = self.name
          /\ UNCHANGED catalogVars
      BY <1>0, <3>1, AnswerNamed, ChainLookups
    <3>3. /\ r.pc = "update" /\ r.name = self.name /\ r.space = self.space /\ r.uid = self.uid
          /\ r.version = v /\ r.index = self.index
      BY <1>0, <3>1 DEF CallRecord
    <3>8. r \in CallRecord
      <4>1. v \in 0..MaxVersion /\ "update" \in Steps
        BY <1>n DEF VersionId, Steps
      <4> QED  BY <1>0, <3>1, <4>1 DEF CallRecord
    <3>4. self.pc = "findDefault" /\ self.uid = 0 /\ self.index = 0
      BY <1>0, <1>s, <1>8 DEF FindDefault, Issued
    <3>5. Found(r)'
      BY <1>k, <1>n, <3>2, <3>3, <3>4 DEF Found, catalogVars
    <3>6. v \in 0..versionSeq' /\ v # 0
      BY <1>n, <3>2 DEF catalogVars
    <3>7. Issued(r)'
      BY <1>k, <3>3, <3>4, <3>6 DEF Issued
    <3> QED  BY <3>5, <3>7, <3>8
  <2> QED  BY <1>8, <2>1, <2>2 DEF FindDefault
<1>9. ASSUME ReadIndex(c) PROVE Goal
  <2>1. PICK i \in IndexesOf(self.version) :
          r = [self EXCEPT !.pc = "writeIndex", !.index = i, !.dflt = ReadFlag(i)]
    BY <1>0, <1>s, <1>9 DEF ReadIndex, Continue
  <2>2. /\ i \in DOMAIN index /\ i \in 1..indexSeq /\ index[i].version = self.version
        /\ ReadFlag(i) \in BOOLEAN /\ UNCHANGED vars /\ self.pc = "update"
    <3>1. index \in [DOMAIN index -> IndexRow]
      BY <1>0 DEF CatalogTypeOK
    <3> QED  BY <1>n, <1>s, <1>9, <3>1 DEF IndexesOf, ReadFlag, IndexRow, ReadIndex
  <2>3. /\ r.pc = "writeIndex" /\ r.name = self.name /\ r.space = self.space /\ r.uid = self.uid
        /\ r.version = self.version /\ r.index = i
    BY <1>0, <2>1 DEF CallRecord
  <2>7. r \in CallRecord
    <3>1. i \in 0..MaxIndex /\ "writeIndex" \in Steps
      BY <1>n, <2>2 DEF Steps
    <3> QED  BY <1>0, <2>1, <2>2, <3>1 DEF CallRecord
  <2>4. Found(r)'
    BY <1>k, <2>2, <2>3 DEF Found, vars, catalogVars
  <2>5. i \in 0..indexSeq' /\ i # 0
    BY <1>n, <2>2 DEF vars, catalogVars
  <2>8. self.todo # <<>> /\ r.todo = self.todo
    BY <1>0, <1>s, <1>9, <2>1 DEF ReadIndex, CallRecord
  <2>6. Issued(r)'
    BY <1>k, <2>2, <2>3, <2>5, <2>8 DEF Issued
  <2> QED  BY <2>4, <2>6, <2>7
<1>10. ASSUME WriteIndex(c) PROVE Goal
  <2>1. /\ self.pc = "writeIndex"
        /\ r = [self EXCEPT !.pc = "update", !.index = 0, !.dflt = FALSE, !.todo = Tail(@)]
    BY <1>0, <1>s, <1>10 DEF WriteIndex, Continue
  <2>2. Tail(self.todo) \in Seq({"default", "other", "update", "add"})
    BY <1>0, <2>1, RestOfRequest DEF Issued
  <2>3. /\ r.pc = "update" /\ r.name = self.name /\ r.space = self.space /\ r.uid = self.uid
        /\ r.version = self.version /\ r.index = 0
    BY <1>0, <2>1 DEF CallRecord
  <2>4. r \in CallRecord
    <3>1. 0 \in 0..MaxIndex /\ "update" \in Steps
      BY <1>n DEF Steps
    <3> QED  BY <1>0, <2>1, <2>2, <3>1 DEF CallRecord
  <2>5. Found(r)'
    BY <1>k, <1>n, <2>1, <2>3 DEF Found
  <2>6. Issued(r)'
    BY <1>k, <1>n, <2>1, <2>3 DEF Issued
  <2> QED  BY <2>4, <2>5, <2>6
<1>11. ASSUME AddIndex(c) PROVE Goal
  <2>1. /\ self.pc = "update" /\ self.todo # <<>>
        /\ r = [self EXCEPT !.todo = Tail(@)]
    BY <1>0, <1>s, <1>11 DEF AddIndex, Continue
  <2>2. Tail(self.todo) \in Seq({"default", "other", "update", "add"})
    BY <1>0, <2>1, RestOfRequest
  <2>3. /\ r.pc = "update" /\ r.name = self.name /\ r.space = self.space /\ r.uid = self.uid
        /\ r.version = self.version /\ r.index = self.index
    BY <1>0, <2>1 DEF CallRecord
  <2>4. r \in CallRecord
    BY <1>0, <2>1, <2>2 DEF CallRecord
  <2>5. Found(r)'
    BY <1>k, <2>1, <2>3 DEF Found
  <2>6. Issued(r)'
    BY <1>k, <2>1, <2>3 DEF Issued
  <2> QED  BY <2>4, <2>5, <2>6
<1>12. \A u \in Updates : u \in Seq({"default", "other", "update", "add"})
  BY RequestTypes
<1>13. CASE createSpace(c)
  BY <1>1, <1>2, <1>4, <1>5, <1>6, <1>13 DEF createSpace, RejectIndex
<1>14. CASE deleteSpaceNamed(c)
  BY <1>2, <1>3, <1>e, <1>14 DEF deleteSpaceNamed, RemoveSpace, Steps
<1>15. CASE createVersion(c)
  BY <1>2, <1>3, <1>e, <1>15 DEF createVersion, AddNewVersion, Steps
<1>16. CASE deleteByVersionId(c)
  BY <1>2, <1>7, <1>16 DEF deleteByVersionId, RemoveVersion
<1>17. CASE updateSpace(c)
  BY <1>2, <1>3, <1>8, <1>9, <1>10, <1>11, <1>12, <1>17
     DEF updateSpace, RejectUpdate, WriteSpace, Steps
<1> QED  BY <1>13, <1>14, <1>15, <1>16, <1>17 DEF ClientStep

----------------------------------------------------------------------------
(* The invariant of the chains of calls, and the first two theorems.        *)

ServicesInv ==
    /\ CacheInv
    /\ CacheTypeOK
    /\ CallsOK
    /\ alone \in [Clients -> BOOLEAN]

(* The maps and tables stay consistent whatever the clients interleave.     *)
LEMMA CacheInvKept ==
    ASSUME CacheInv, CacheTypeOK, Effect
    PROVE  CacheInv' /\ CacheTypeOK' /\ RowsKept
<1>1. CatalogTypeOK /\ SpacesIssued /\ LookupsCurrent /\ TablesEffect
  BY EffectOnTables DEF CacheInv, LookupsCurrent, Lookups
<1>2. CatalogTypeOK' /\ SpacesIssued' /\ RowsKept
  BY <1>1, EffectIsCatalogStep, CatalogTypeStep, EffectKeepsIssued, EffectKeepsRows
<1>3. Lookups' /\ CacheTypeOK'
  BY <1>1, EffectKeepsLookups, EffectKeepsCacheTypes
<1> QED  BY <1>2, <1>3 DEF CacheInv, Lookups

(* A step of one client keeps what it and every other client holds.         *)
LEMMA ServicesInvStep ==
    ServicesInv /\ [ServicesNext]_serviceVars => ServicesInv'
<1> SUFFICES ASSUME ServicesInv, [ServicesNext]_serviceVars PROVE ServicesInv'
  OBVIOUS
<1>0. /\ CacheInv /\ CacheTypeOK /\ CallsOK /\ alone \in [Clients -> BOOLEAN]
      /\ CatalogTypeOK /\ SpacesIssued /\ LookupsCurrent
  BY DEF ServicesInv, CacheInv, LookupsCurrent, Lookups
<1>1. ASSUME NEW c \in Clients, ClientStep(c) PROVE ServicesInv'
  <2>1. Effect
    BY <1>0, <1>1, StepHasEffect
  <2>2. CacheInv' /\ CacheTypeOK' /\ RowsKept /\ CatalogTypeOK'
    BY <1>0, <2>1, CacheInvKept DEF CacheInv
  <2>3. call' = [call EXCEPT ![c] = call'[c]] /\ alone' \in [Clients -> BOOLEAN]
    BY <1>0, <1>1, OnlyItsOwnCall
  <2>4. PICK r : r = call'[c]
    OBVIOUS
  <2>5. r \in CallRecord /\ Found(r)' /\ Issued(r)'
    BY <1>0, <1>1, <2>2, <2>4, OwnCallStaysOK
  <2>6. call' \in [Clients -> CallRecord]
    BY <1>0, <2>3, <2>4, <2>5 DEF CallsOK
  <2>7. ASSUME NEW d \in Clients PROVE Found(call[d])' /\ Issued(call[d])'
    <3>1. CASE d = c
      BY <2>4, <2>5, <3>1 DEF Found, Issued
    <3>2. CASE d # c
      <4>1. PICK self : self = call[d]
        OBVIOUS
      <4>2. self = call'[d]
        BY <1>0, <2>3, <3>2, <4>1 DEF CallsOK
      <4>3. Found(self) /\ Issued(self)
        BY <1>0, <4>1 DEF CallsOK
      <4>4. Found(self)' /\ Issued(self)'
        BY <1>0, <2>2, <4>3, HeldStaysFound
      <4> QED  BY <4>2, <4>4 DEF Found, Issued
    <3> QED  BY <3>1, <3>2
  <2> QED  BY <2>2, <2>3, <2>6, <2>7 DEF ServicesInv, CallsOK
<1>2. CASE UNCHANGED serviceVars
  <2>1. UNCHANGED vars /\ call' = call /\ alone' = alone
    BY <1>2 DEF serviceVars
  <2>2. CacheInv' /\ CacheTypeOK' /\ RowsKept /\ CatalogTypeOK'
    BY <1>0, <2>1, CacheInvKept DEF CacheInv, Effect
  <2>3. ASSUME NEW d \in Clients PROVE Found(call[d])' /\ Issued(call[d])'
    BY <1>0, <2>1 DEF vars, catalogVars, Found, Issued, CallsOK
  <2> QED  BY <1>0, <2>1, <2>2, <2>3 DEF ServicesInv, CallsOK
<1> QED  BY <1>1, <1>2 DEF ServicesNext, ClientStep

(* No client runs a call at the start. *)
LEMMA ServicesStart == ServicesInit => ServicesInv
<1> SUFFICES ASSUME ServicesInit PROVE ServicesInv
  OBVIOUS
<1>1. CacheInv
  BY CacheStart DEF ServicesInit
<1>2. CacheTypeOK
  <2>1. DOMAIN Empty = {} /\ Empty = [x \in {} |-> 0]
    BY DEF Empty
  <2> QED  BY <2>1 DEF ServicesInit, Init, CacheTypeOK
<1>3. CallsOK /\ alone \in [Clients -> BOOLEAN]
  <2>1. NoCall \in CallRecord /\ Found(NoCall) /\ Issued(NoCall)
    BY <1>1, NoCallOK DEF CacheInv
  <2> QED  BY <2>1 DEF ServicesInit, CallsOK
<1> QED  BY <1>1, <1>2, <1>3 DEF ServicesInv

(* It holds in every reachable state.                                       *)
LEMMA ServicesInvariant == ServicesSpec => []ServicesInv
BY ServicesStart, ServicesInvStep, PTL DEF ServicesSpec

(* Cache, calls and history keep their types, and createSpace waits for an  *)
(* index only while one is left to add.                                     *)
THEOREM ServicesTypeCorrect == ServicesSpec => []ServicesTypeOK
<1>1. ServicesInv => ServicesTypeOK
  BY DEF ServicesInv, ServicesTypeOK, CallsOK, CallRecord, Issued
<1> QED  BY <1>1, ServicesInvariant, PTL

(* What a call found under a name is what it was asked for, or gone, for as *)
(* long as it runs, whatever other clients delete and create again.         *)
THEOREM FoundStillNamedCorrect == ServicesSpec => []FoundStillNamed
<1>1. ServicesInv => FoundStillNamed
  BY DEF ServicesInv, CallsOK, Found, FoundStillNamed
<1> QED  BY <1>1, ServicesInvariant, PTL

----------------------------------------------------------------------------
(* What a call relies on while no other client has written since it began.  *)

Resting == {"idle", "exists", "created"}

Undisturbed(self) ==
    /\ self.pc = "exists" => DefaultsNamed(self.name) # {}
    /\ self.pc \in {"addSpace", "addFirstVersion"} => DefaultsNamed(self.name) = {}
    /\ self.pc \in {"addFirstVersion", "addIndex", "created"} => self.space \in DOMAIN space
    /\ self.pc \in {"addIndex", "created"} => DefaultsNamed(self.name) = {self.version}
    /\ self.pc = "addIndex"
         => Head(self.todo) = "default" \/ DefaultIndexes(self.version) # {}
    /\ self.pc = "created" => DefaultIndexes(self.version) # {}
    /\ self.pc = "writeIndex"
         => self.index \in DOMAIN index /\ index[self.index].dflt = self.dflt

AloneUndisturbed == \A c \in Clients : alone[c] => Undisturbed(call[c])

(* It depends on the tables only. *)
LEMMA SameTables ==
    ASSUME NEW self, Undisturbed(self), UNCHANGED catalogVars
    PROVE  Undisturbed(self)'
<1>1. space' = space /\ version' = version /\ index' = index
  BY DEF catalogVars
<1>2. /\ DefaultsNamed(self.name)' = DefaultsNamed(self.name)
      /\ DefaultIndexes(self.version)' = DefaultIndexes(self.version)
  BY <1>1 DEF DefaultsNamed, VersionsNamed, SpacesNamed, VersionsOf, DefaultIndexes, IndexesOf
<1> QED  BY <1>1, <1>2 DEF Undisturbed

(* A name that resolves has a default version. *)
LEMMA ResolvedHasDefault ==
    ASSUME LookupsCurrent, NEW n, NEW v, Resolves(n, 0, v)
    PROVE  DefaultsNamed(n)' # {}
<1>1. PICK u \in DefaultUids(n) : v \in VersionsAt(<<n, u>>)
  BY ChainLookups DEF Uids
<1>2. UNCHANGED catalogVars
  BY ChainLookups
<1>3. DefaultsNamed(n) # {}
  BY <1>1 DEF DefaultUids, DefaultsNamed, LookupsCurrent, Lookups, DefaultLookupsCurrent
<1> QED
  BY <1>2, <1>3 DEF catalogVars, DefaultsNamed, VersionsNamed, SpacesNamed, VersionsOf

(* A new space has no versions yet: no row points to an id before it is     *)
(* issued.                                                                  *)
LEMMA NewSpaceIsEmpty ==
    ASSUME CatalogTypeOK, SpacesIssued, NEW n, AddSpace(n), DefaultsNamed(n) = {}
    PROVE  spaceSeq + 1 \in DOMAIN space' /\ DefaultsNamed(n)' = {}
<1>1. /\ space' = Put(space, spaceSeq + 1, n) /\ version' = version
      /\ spaceSeq \in Nat
  BY BoundsAssumption DEF AddSpace, versionTable, CatalogTypeOK, NextId
<1>2. /\ spaceSeq + 1 \in DOMAIN space'
      /\ \A s \in DOMAIN space' : s # spaceSeq + 1 => s \in DOMAIN space /\ space'[s] = space[s]
  BY <1>1 DEF Put
<1>3. ASSUME NEW v \in DOMAIN version, version[v].dflt, version[v].space \in DOMAIN space',
             space'[version[v].space] = n
      PROVE  FALSE
  <2>1. version[v].space # spaceSeq + 1
    BY <1>1 DEF SpacesIssued
  <2>2. version[v].space \in DOMAIN space /\ space[version[v].space] = n
    BY <1>2, <1>3, <2>1
  <2> QED  BY <1>3, <2>2 DEF DefaultsNamed, VersionsNamed, SpacesNamed, VersionsOf
<1> QED  BY <1>1, <1>2, <1>3 DEF DefaultsNamed, VersionsNamed, SpacesNamed, VersionsOf

(* The first version of a space under a name without a default version is   *)
(* the default version of that name.                                        *)
LEMMA FirstVersionIsDefault ==
    ASSUME CatalogTypeOK, NEW s \in DOMAIN space, NEW n, n = space[s],
           NEW t, AddVersion(s, TRUE, t),
           DefaultsNamed(n) = {}
    PROVE  DefaultsNamed(n)' = {versionSeq + 1}
<1>1. VersionAdded(s, TRUE) /\ space' = space
  BY TypeParts, AddVersionRows DEF AddVersion, spaceTable
<1>2. ASSUME NEW v \in DOMAIN version', version'[v].dflt, version'[v].space \in DOMAIN space,
             space[version'[v].space] = n
      PROVE  v = versionSeq + 1
  <2> SUFFICES ASSUME v # versionSeq + 1 PROVE FALSE
    OBVIOUS
  <2>1. v \in DOMAIN version /\ version[v].dflt /\ version'[v].space = version[v].space
    BY <1>1, <1>2 DEF VersionAdded
  <2> QED  BY <1>2, <2>1 DEF DefaultsNamed, VersionsNamed, SpacesNamed, VersionsOf
<1>3. /\ versionSeq + 1 \in DOMAIN version' /\ version'[versionSeq + 1].dflt
      /\ version'[versionSeq + 1].space = s
  BY <1>1 DEF VersionAdded
<1>4. DefaultsNamed(n)' =
        {v \in DOMAIN version' : /\ version'[v].dflt
                                 /\ version'[v].space \in DOMAIN space
                                 /\ space[version'[v].space] = n}
  BY <1>1 DEF DefaultsNamed, VersionsNamed, SpacesNamed, VersionsOf
<1> QED  BY <1>2, <1>3, <1>4

(* An index added as the default is it, and one added as another leaves the *)
(* default where it is.                                                     *)
LEMMA AddedIndexKeepsDefault ==
    ASSUME CatalogTypeOK, NEW v, NEW d \in BOOLEAN, NEW t, AddVectorIndex(v, d, t)
    PROVE  /\ d \/ DefaultIndexes(v) # {} => DefaultIndexes(v)' # {}
           /\ \A w : DefaultIndexes(w) # {} => DefaultIndexes(w)' # {}
<1>1. IndexAdded(v, d)
  BY TypeParts, AddVectorIndexRows
<1>2. d => DefaultIndexes(v)' # {}
  BY <1>1 DEF IndexAdded, DefaultIndexes, IndexesOf
<1>3. ASSUME NEW w, NEW i \in DefaultIndexes(w), ~(d /\ w = v) PROVE DefaultIndexes(w)' # {}
  BY <1>1, <1>3 DEF IndexAdded, DefaultIndexes, IndexesOf
<1> QED  BY <1>2, <1>3

(* What a step of a call relies on, the next one can rely on.               *)
LEMMA OwnCallUndisturbed ==
    ASSUME CacheInv, CallsOK, NEW c \in Clients, ClientStep(c), NEW r, r = call'[c],
           r.pc = "idle" \/ call[c].pc \in Resting \/ Undisturbed(call[c])
    PROVE  Undisturbed(r)'
<1> DEFINE Goal == Undisturbed(r)'
           Relied == {"exists", "addSpace", "addFirstVersion", "addIndex", "created", "writeIndex"}
<1>s. PICK self : self = call[c]
  OBVIOUS
<1>0. /\ self \in CallRecord /\ Found(self) /\ Issued(self)
      /\ CatalogTypeOK /\ SpacesIssued /\ LookupsCurrent
      /\ call \in [Clients -> CallRecord]
  BY <1>s DEF CallsOK, CacheInv, LookupsCurrent, Lookups
<1>u. self.pc \in Steps /\ r.pc # "idle" => Undisturbed(self)
  BY <1>s DEF Resting, Steps, Undisturbed
<1>t. ASSUME r.pc \notin Relied PROVE Goal
  BY <1>t DEF Undisturbed
<1>1. ASSUME NEW n, NEW w, CheckName(c, n, w) PROVE Goal
  <2>1. CASE /\ \E v \in VersionId : Resolves(n, 0, v)
             /\ Begin(c, [NoCall EXCEPT !.pc = "exists", !.name = n])
    <3>1. r.pc = "exists" /\ r.name = n /\ DefaultsNamed(n)' # {}
      BY <1>0, <2>1, ResolvedHasDefault DEF Begin, NoCall
    <3> QED  BY <3>1 DEF Undisturbed
  <2>2. CASE /\ Unresolved(n, 0)
             /\ Begin(c, [NoCall EXCEPT !.pc = "addSpace", !.name = n, !.todo = w])
    <3>1. r.pc = "addSpace" /\ r.name = n /\ DefaultsNamed(n) = {} /\ UNCHANGED catalogVars
      BY <1>0, <2>2, FailedLookup DEF Begin, NoCall
    <3>2. DefaultsNamed(n)' = {}
      BY <3>1 DEF catalogVars, DefaultsNamed, VersionsNamed, SpacesNamed, VersionsOf
    <3> QED  BY <3>1, <3>2 DEF Undisturbed
  <2> QED  BY <1>1, <2>1, <2>2 DEF CheckName
<1>2. ASSUME Leave(c) \/ Begin(c, NoCall) PROVE Goal
  BY <1>0, <1>2, <1>t DEF Leave, Continue, Begin, NoCall
<1>3. ASSUME NEW n, NEW pc, pc \in {"deleteSpace", "addVersion", "findDefault"}, NEW todo,
             FindSpace(c, n, pc, todo)
      PROVE  Goal
  <2>1. r.pc = pc
    BY <1>0, <1>3 DEF FindSpace, Begin, NoCall
  <2> QED  BY <1>3, <1>t, <2>1
<1>4. ASSUME CreateRow(c) PROVE Goal
  <2>1. /\ self.pc = "addSpace" /\ AddSpace(self.name)
        /\ r = [self EXCEPT !.pc = "addFirstVersion", !.space = spaceSeq + 1]
    BY <1>0, <1>s, <1>4 DEF CreateRow, Continue, addSpace, NextId
  <2>2. r.pc = "addFirstVersion" /\ r.space = spaceSeq + 1 /\ r.name = self.name
    BY <1>0, <2>1 DEF CallRecord
  <2>3. DefaultsNamed(self.name) = {}
    BY <1>u, <2>1, <2>2 DEF Undisturbed, Steps
  <2>4. spaceSeq + 1 \in DOMAIN space' /\ DefaultsNamed(self.name)' = {}
    BY <1>0, <2>1, <2>3, NewSpaceIsEmpty
  <2> QED  BY <2>2, <2>4 DEF Undisturbed
<1>5. ASSUME CreateFirstVersion(c) PROVE Goal
  <2>1. /\ self.pc = "addFirstVersion"
        /\ \E t \in Times : AddVersion(self.space, TRUE, t)
        /\ r = [self EXCEPT !.pc = "addIndex", !.version = versionSeq + 1]
    BY <1>0, <1>s, <1>5 DEF CreateFirstVersion, Continue, addVersion, NextId
  <2>2. /\ r.pc = "addIndex" /\ r.version = versionSeq + 1 /\ r.name = self.name
        /\ r.space = self.space /\ r.todo = self.todo
    BY <1>0, <2>1 DEF CallRecord
  <2>3. /\ DefaultsNamed(self.name) = {} /\ self.space \in DOMAIN space
        /\ space[self.space] = self.name /\ Head(self.todo) = "default"
    BY <1>0, <1>u, <2>1, <2>2 DEF Undisturbed, Steps, Found, Issued
  <2>4. DefaultsNamed(self.name)' = {versionSeq + 1}
    BY <1>0, <2>1, <2>3, FirstVersionIsDefault
  <2>5. self.space \in DOMAIN space'
    BY <2>1, <2>3 DEF AddVersion, spaceTable
  <2> QED  BY <2>2, <2>3, <2>4, <2>5 DEF Undisturbed
<1>6. ASSUME CreateIndex(c) PROVE Goal
  <2>1. /\ self.pc = "addIndex" /\ r = IndexDone(self)
        /\ \E t \in Times : AddVectorIndex(self.version, Head(self.todo) = "default", t)
    BY <1>0, <1>s, <1>6 DEF CreateIndex, Continue, addVectorIndex
  <2>2. /\ r.pc \in {"addIndex", "created"} /\ r.name = self.name
        /\ r.space = self.space /\ r.version = self.version
    BY <1>0, <2>1 DEF IndexDone, CallRecord
  <2>3. /\ DefaultsNamed(self.name) = {self.version} /\ self.space \in DOMAIN space
        /\ Head(self.todo) = "default" \/ DefaultIndexes(self.version) # {}
    BY <1>u, <2>1, <2>2 DEF Undisturbed, Steps
  <2>4. space' = space /\ version' = version
    BY <2>1 DEF AddVectorIndex, spaceTable, versionTable
  <2>5. DefaultIndexes(self.version)' # {}
    <3>1. (Head(self.todo) = "default") \in BOOLEAN
      OBVIOUS
    <3> QED  BY <1>0, <2>1, <2>3, <3>1, AddedIndexKeepsDefault
  <2>6. DefaultsNamed(self.name)' = {self.version} /\ self.space \in DOMAIN space'
    BY <2>3, <2>4 DEF DefaultsNamed, VersionsNamed, SpacesNamed, VersionsOf
  <2> QED  BY <2>2, <2>5, <2>6 DEF Undisturbed
<1>7. ASSUME NEW n, NEW u, FindVersion(c, n, u) PROVE Goal
  <2>1. CASE Begin(c, NoCall)
    BY <1>2, <2>1
  <2>2. CASE \E v \in VersionId :
               Begin(c, [NoCall EXCEPT !.pc = "deleteVersion", !.name = n, !.uid = u, !.version = v])
    <3>1. r.pc = "deleteVersion"
      BY <1>0, <2>2 DEF Begin, NoCall
    <3> QED  BY <1>t, <3>1
  <2> QED  BY <1>7, <2>1, <2>2 DEF FindVersion
<1>8. ASSUME FindDefault(c) PROVE Goal
  <2>1. r = NoCall \/ \E v \in VersionId : r = [self EXCEPT !.pc = "update", !.version = v]
    BY <1>0, <1>s, <1>8 DEF FindDefault, Continue, Leave
  <2>2. r.pc = "idle" \/ r.pc = "update"
    <3>1. NoCall.pc = "idle"
      BY DEF NoCall
    <3>2. \A v : [self EXCEPT !.pc = "update", !.version = v].pc = "update"
      BY <1>0 DEF CallRecord
    <3> QED  BY <2>1, <3>1, <3>2
  <2> QED  BY <1>t, <2>2
<1>9. ASSUME ReadIndex(c) PROVE Goal
  <2>1. PICK i \in IndexesOf(self.version) :
          r = [self EXCEPT !.pc = "writeIndex", !.index = i, !.dflt = ReadFlag(i)]
    BY <1>0, <1>s, <1>9 DEF ReadIndex, Continue
  <2>2. r.pc = "writeIndex" /\ r.index = i /\ r.dflt = index[i].dflt
    BY <1>0, <2>1 DEF CallRecord, ReadFlag
  <2>3. i \in DOMAIN index /\ index' = index
    BY <1>9 DEF IndexesOf, ReadIndex, vars, catalogVars
  <2> QED  BY <2>2, <2>3 DEF Undisturbed
<1>10. ASSUME WriteIndex(c) \/ AddIndex(c) PROVE Goal
  <2>1. \/ r = [self EXCEPT !.pc = "update", !.index = 0, !.dflt = FALSE, !.todo = Tail(@)]
        \/ r = [self EXCEPT !.todo = Tail(@)] /\ self.pc = "update"
    BY <1>0, <1>s, <1>10 DEF WriteIndex, AddIndex, Continue
  <2>2. r.pc = "update"
    BY <1>0, <2>1 DEF CallRecord
  <2> QED  BY <1>t, <2>2
<1> HIDE DEF Goal, Relied
<1>11. ASSUME createSpace(c) PROVE Goal
  BY <1>1, <1>2, <1>4, <1>5, <1>6, <1>11 DEF createSpace, RejectIndex
<1>12. ASSUME deleteSpaceNamed(c) \/ createVersion(c) \/ deleteByVersionId(c) PROVE Goal
  BY <1>2, <1>3, <1>7, <1>12
     DEF deleteSpaceNamed, createVersion, deleteByVersionId, RemoveSpace, AddNewVersion,
         RemoveVersion
<1>13. ASSUME updateSpace(c) PROVE Goal
  BY <1>2, <1>3, <1>8, <1>9, <1>10, <1>13 DEF updateSpace, RejectUpdate, WriteSpace
<1>14. Goal
  BY <1>11, <1>12, <1>13 DEF ClientStep
<1> QED  BY <1>14 DEF Goal

(* So it holds of every call that nobody disturbs.                          *)
LEMMA AloneUndisturbedStep ==
    ServicesInv /\ AloneUndisturbed /\ [ServicesNext]_serviceVars => AloneUndisturbed'
<1> SUFFICES ASSUME ServicesInv, AloneUndisturbed, [ServicesNext]_serviceVars,
                    NEW d \in Clients, alone'[d], NEW r, r = call'[d]
             PROVE  Undisturbed(r)'
  BY DEF AloneUndisturbed, Undisturbed
<1>0. CacheInv /\ CallsOK /\ alone \in [Clients -> BOOLEAN] /\ call \in [Clients -> CallRecord]
  BY DEF ServicesInv, CallsOK
<1>1. ASSUME NEW c \in Clients, ClientStep(c) PROVE Undisturbed(r)'
  <2>1. /\ call' = [call EXCEPT ![c] = call'[c]]
        /\ alone'[c] => call'[c].pc = "idle" \/ alone[c] \/ call[c].pc \in Resting
        /\ d # c => \/ call'[d].pc = "idle"
                    \/ alone[d] /\ catalogVars' = catalogVars
    BY <1>0, <1>1, OnlyItsOwnCall DEF Resting
  <2>2. CASE d = c
    <3>1. r.pc = "idle" \/ call[c].pc \in Resting \/ Undisturbed(call[c])
      BY <2>1, <2>2 DEF AloneUndisturbed
    <3> QED  BY <1>0, <1>1, <2>2, <3>1, OwnCallUndisturbed
  <2>3. CASE d # c
    <3>1. r = call[d]
      BY <1>0, <2>1, <2>3
    <3>2. CASE r.pc = "idle"
      BY <3>2 DEF Undisturbed
    <3>3. CASE alone[d] /\ UNCHANGED catalogVars
      <4>1. Undisturbed(r)
        BY <3>1, <3>3 DEF AloneUndisturbed
      <4> QED  BY <3>3, <4>1, SameTables
    <3> QED  BY <2>1, <2>3, <3>2, <3>3
  <2> QED  BY <2>2, <2>3
<1>2. CASE UNCHANGED serviceVars
  <2>1. Undisturbed(r) /\ UNCHANGED catalogVars
    BY <1>2 DEF serviceVars, vars, AloneUndisturbed
  <2> QED  BY <2>1, SameTables
<1> QED  BY <1>1, <1>2 DEF ServicesNext, ClientStep

(* It holds in every reachable state. *)
LEMMA AloneInvariant == ServicesSpec => []AloneUndisturbed
<1>1. ServicesInit => AloneUndisturbed
  BY DEF ServicesInit, AloneUndisturbed, NoCall, Undisturbed
<1> QED  BY <1>1, AloneUndisturbedStep, ServicesInvariant, PTL DEF ServicesSpec

(* createSpace that nobody disturbed leaves a name that resolves to its     *)
(* version, with a default index, or found one that resolves: the bounds on *)
(* names, clients and indexes asked for play no part.                       *)
THEOREM CreatedResolvesCorrect == ServicesSpec => []CreatedResolves
<1>1. AloneUndisturbed => CreatedResolves
  BY DEF AloneUndisturbed, Undisturbed, CreatedResolves, DefaultsNamed
<1> QED  BY <1>1, AloneInvariant, PTL

----------------------------------------------------------------------------
(* The default index of a version.                                          *)

(* deleteSpace deletes the indexes of a version with all of its indexes.    *)
LEMMA DeleteSpaceKeepsDefaults ==
    ASSUME NEW s, DeleteSpace(s), NEW v,
           DefaultIndexes(v) # {}, IndexesOf(v)' # {}
    PROVE  DefaultIndexes(v)' # {}
<1>1. index' = Drop(index, UNION {IndexesOf(w) : w \in VersionsOf(s)})
  BY DEF DeleteSpace
<1> DEFINE gone == UNION {IndexesOf(w) : w \in VersionsOf(s)}
<1>2. /\ DOMAIN index' = DOMAIN index \ gone
      /\ \A i \in DOMAIN index' : index'[i] = index[i]
  BY <1>1 DEF Drop, Restrict
<1>3. \A i, j \in IndexesOf(v) : i \in gone => j \in gone
  BY DEF IndexesOf
<1> HIDE DEF gone
<1>4. PICK i \in DefaultIndexes(v) : TRUE
  OBVIOUS
<1>5. PICK j \in DOMAIN index' : index'[j].version = v
  BY DEF IndexesOf
<1>6. i \in DOMAIN index'
  BY <1>2, <1>3, <1>4, <1>5 DEF DefaultIndexes, IndexesOf
<1> QED  BY <1>2, <1>4, <1>6 DEF DefaultIndexes, IndexesOf

(* updateSpace writes back the flag the index has: it read it, and no other *)
(* client deleted or changed the row since.                                *)
LEMMA RewriteKeepsDefaults ==
    ASSUME CatalogTypeOK, NEW i, NEW w, NEW d \in BOOLEAN, RewriteIndex(i, w, d),
           i \in DOMAIN index, index[i].dflt = d,
           NEW v, DefaultIndexes(v) # {}
    PROVE  DefaultIndexes(v)' # {}
<1>1. IndexUpdated(i, w, d) /\ (i \in DOMAIN index => index[i].version = w)
  BY TypeParts, UpdateVectorIndexRows DEF RewriteIndex
<1>2. PICK x \in DefaultIndexes(v) : TRUE
  OBVIOUS
<1>3. x \in DOMAIN index /\ index[x].version = v /\ index[x].dflt
  BY <1>2 DEF DefaultIndexes, IndexesOf
<1>4. CASE d /\ v = w
  <2>1. i \in DOMAIN index' /\ index'[i].version = v /\ index'[i].dflt
    BY <1>1, <1>4 DEF IndexUpdated
  <2> QED  BY <2>1 DEF DefaultIndexes, IndexesOf
<1>5. CASE x = i
  BY <1>1, <1>3, <1>5 DEF IndexUpdated, DefaultIndexes, IndexesOf
<1>6. CASE x # i /\ ~(d /\ v = w)
  BY <1>1, <1>3, <1>6 DEF IndexUpdated, DefaultIndexes, IndexesOf
<1> QED  BY <1>4, <1>5, <1>6

(* A step of a call nobody disturbed leaves a version that had a default    *)
(* index with one, or with none at all.                                     *)
LEMMA OwnStepKeepsDefaults ==
    ASSUME CatalogTypeOK, CallsOK, NEW c \in Clients, ClientStep(c), Undisturbed(call[c]),
           NEW v, DefaultIndexes(v) # {}, IndexesOf(v)' # {}
    PROVE  DefaultIndexes(v)' # {}
<1> DEFINE Goal == DefaultIndexes(v)' # {}
<1>s. PICK self : self = call[c]
  OBVIOUS
<1>0. self \in CallRecord /\ Found(self) /\ Issued(self) /\ Undisturbed(self)
  BY <1>s DEF CallsOK
<1>1. ASSUME index' = index PROVE Goal
  BY <1>1 DEF DefaultIndexes, IndexesOf
<1>2. ASSUME CreateIndex(c) \/ AddIndex(c) PROVE Goal
  <2>1. PICK d \in BOOLEAN : \E t \in Times : AddVectorIndex(self.version, d, t)
    BY <1>s, <1>2 DEF CreateIndex, AddIndex, addVectorIndex
  <2> QED  BY <2>1, AddedIndexKeepsDefault
<1>3. ASSUME RemoveSpace(c) PROVE Goal
  <2>1. CASE UNCHANGED vars
    BY <1>1, <2>1 DEF vars, catalogVars
  <2>2. CASE DeleteSpace(self.space)
    BY <2>2, DeleteSpaceKeepsDefaults
  <2> QED  BY <1>s, <1>3, <2>1, <2>2 DEF RemoveSpace, deleteSpace
<1>4. ASSUME WriteIndex(c) PROVE Goal
  <2>1. CASE UNCHANGED vars
    BY <1>1, <2>1 DEF vars, catalogVars
  <2>2. CASE \E t \in Times : UpdateVectorIndex(self.index, self.version, self.dflt, t)
    <3>1. /\ self.dflt \in BOOLEAN
          /\ self.index \in DOMAIN index /\ index[self.index].dflt = self.dflt
          /\ RewriteIndex(self.index, self.version, self.dflt)
      BY <1>0, <1>s, <1>4, <2>2 DEF WriteIndex, Undisturbed, CallRecord, Found, RewriteIndex
    <3> QED  BY <3>1, RewriteKeepsDefaults
  <2> QED  BY <1>s, <1>4, <2>1, <2>2 DEF WriteIndex
<1>5. ASSUME UNCHANGED vars PROVE Goal
  BY <1>1, <1>5 DEF vars, catalogVars
<1>6. ASSUME UNCHANGED catalogVars PROVE Goal
  BY <1>1, <1>6 DEF catalogVars
<1>7. ASSUME WriteSpace(c) \/ CreateRow(c) \/ CreateFirstVersion(c) \/ AddNewVersion(c)
                 \/ RemoveVersion(c)
      PROVE  Goal
  BY <1>1, <1>7
     DEF WriteSpace, UpdateSpace, vars, catalogVars, indexTable, CreateRow, addSpace, AddSpace,
         CreateFirstVersion, AddNewVersion, addVersion, AddVersion, RemoveVersion,
         deleteVersion, DeleteVersion, clean
<1> HIDE DEF Goal
<1>8. ASSUME createSpace(c) PROVE Goal
  BY <1>2, <1>5, <1>6, <1>7, <1>8 DEF createSpace, CheckName, Resolves, Unresolved, RejectIndex
<1>9. ASSUME deleteSpaceNamed(c) \/ createVersion(c) \/ deleteByVersionId(c) PROVE Goal
  BY <1>3, <1>5, <1>6, <1>7, <1>9
     DEF deleteSpaceNamed, createVersion, deleteByVersionId, FindSpace, FindVersion, Resolves,
         Unresolved
<1>10. ASSUME updateSpace(c) PROVE Goal
  BY <1>2, <1>4, <1>5, <1>6, <1>7, <1>10
     DEF updateSpace, FindSpace, FindDefault, ReadIndex, RejectUpdate, Resolves, Unresolved
<1>11. Goal
  BY <1>8, <1>9, <1>10 DEF ClientStep
<1> QED  BY <1>11 DEF Goal

(* updateSpace and the other calls never take the default index from a      *)
(* version that keeps indexes, when no other client writes meanwhile.       *)
THEOREM DefaultIndexKeptCorrect == ServicesSpec => DefaultIndexKept
<1>1. ServicesInv /\ AloneUndisturbed /\ [ServicesNext]_serviceVars
        => [\A c \in Clients : alone[c] /\ call'[c] # call[c] =>
              \A v \in VersionId :
                 DefaultIndexes(v) # {} /\ IndexesOf(v)' # {}
                   => DefaultIndexes(v)' # {}]_serviceVars
  <2> SUFFICES ASSUME ServicesInv, AloneUndisturbed, ServicesNext,
                      NEW d \in Clients, alone[d], call'[d] # call[d],
                      NEW v \in VersionId, DefaultIndexes(v) # {}, IndexesOf(v)' # {}
               PROVE  DefaultIndexes(v)' # {}
    OBVIOUS
  <2>0. /\ CatalogTypeOK /\ CallsOK /\ alone \in [Clients -> BOOLEAN]
        /\ call \in [Clients -> CallRecord] /\ Undisturbed(call[d])
    BY DEF ServicesInv, CacheInv, CallsOK, AloneUndisturbed
  <2>1. PICK c \in Clients : ClientStep(c)
    BY DEF ServicesNext, ClientStep
  <2>2. c = d
    BY <2>0, <2>1, OnlyItsOwnCall
  <2> QED  BY <2>0, <2>1, <2>2, OwnStepKeepsDefaults
<1> QED  BY <1>1, ServicesInvariant, AloneInvariant, PTL DEF ServicesSpec, DefaultIndexKept

(* What the clients of the services do to the tables, in whatever order      *)
(* their calls interleave, is a history that the managers allow: so every    *)
(* theorem about the Catalog holds under the services as well.               *)
THEOREM ServicesCatalog == ServicesSpec => CatalogSpec
<1>1. ServicesInit => CatalogInit
  BY DEF ServicesInit, Init
<1>2. ServicesInv /\ [ServicesNext]_serviceVars => [CatalogNext]_catalogVars
  <2> SUFFICES ASSUME ServicesInv, [ServicesNext]_serviceVars
               PROVE  [CatalogNext]_catalogVars
    OBVIOUS
  <2>1. CASE UNCHANGED serviceVars
    BY <2>1 DEF serviceVars, vars
  <2>2. CASE ServicesNext
    <3>1. PICK c \in Clients : ClientStep(c)
      BY <2>2 DEF ServicesNext, ClientStep
    <3>2. Effect
      BY <3>1, StepHasEffect DEF ServicesInv, CacheInv
    <3>3. QED  BY <3>2, EffectOnTables, EffectIsCatalogStep
  <2>3. QED  BY <2>1, <2>2
<1>3. QED  BY <1>1, <1>2, ServicesInvariant, PTL DEF ServicesSpec, CatalogSpec

=============================================================================
