------------------------------ MODULE IdCache ------------------------------
(***************************************************************************)
(* The process-wide cache between external names (space name, unique_id)    *)
(* and row ids, composed with the catalog it caches.                        *)
(*                                                                         *)
(* Each action is one public call, run to its end: a lookup that misses     *)
(* reads the tables and fills the maps, a manager call cleans them or not   *)
(* as the code does.  The interleaving of two calls' own steps is the       *)
(* subject of IdCacheThreads.  rbacTokenCache is in Rbac; the pools of      *)
(* sparse vectors are left out; vectorIndexCache is never filled.           *)
(***************************************************************************)
EXTENDS Catalog

VARIABLES
    forwardCache,             \* <<space name, unique_id>> -> version id
    reverseCache,             \* version id -> <<space name, unique_id>>
    spaceNameCache,           \* space name -> unique_id of its default version
    vectorIndexForwardCache,  \* index id -> <<space name, unique_id>>
    vectorIndexReverseCache,  \* <<space name, unique_id>> -> index id
    spaceIdCache              \* space name -> space id

versionCaches == <<forwardCache, reverseCache>>
indexCaches   == <<vectorIndexForwardCache, vectorIndexReverseCache>>
cacheVars     == <<versionCaches, spaceNameCache, indexCaches, spaceIdCache>>
vars          == <<catalogVars, cacheVars>>

Key == Names \X VersionId

----------------------------------------------------------------------------
(* The queries a miss runs.  Each takes the first row it finds: which one   *)
(* is not specified when two spaces have the same name.                     *)

SpacesNamed(n) == {s \in DOMAIN space : space[s] = n}

(* V JOIN Space S ON V.spaceId = S.id: versions whose space row exists. *)
VersionsNamed(n) == UNION {VersionsOf(s) : s \in SpacesNamed(n)}

VersionsAt(k) == {v \in VersionsNamed(k[1]) : version[v].uid = k[2]}
KeysOf(v) ==
    {<<space[version[x].space], version[x].uid>> :
        x \in {y \in {v} \cap DOMAIN version : version[y].space \in DOMAIN space}}

(* The unique_ids a request may stand for; 0 asks for the default version.  *)
DefaultUids(n) ==
    IF n \in DOMAIN spaceNameCache THEN {spaceNameCache[n]}
    ELSE {version[v].uid : v \in {w \in VersionsNamed(n) : version[w].dflt}}
Uids(n, requested) == IF requested = 0 THEN DefaultUids(n) ELSE {requested}

CachedDefault(n, requested, u) ==
    IF requested = 0 THEN Put(spaceNameCache, n, u) ELSE spaceNameCache

----------------------------------------------------------------------------
(* Lookups.  A lookup that throws keeps what its earlier parts cached.      *)

CacheVersion(v, k) ==
    /\ forwardCache' = Put(forwardCache, k, v)
    /\ reverseCache' = Put(reverseCache, v, k)

CacheIndex(i, k) ==
    /\ vectorIndexForwardCache' = Put(vectorIndexForwardCache, i, k)
    /\ vectorIndexReverseCache' = Put(vectorIndexReverseCache, k, i)

(* The body of getVersionId for a known key: v is the answer. *)
ResolveVersion(k, v) ==
    \/ /\ k \in DOMAIN forwardCache
       /\ v = forwardCache[k]
       /\ UNCHANGED versionCaches
    \/ /\ k \notin DOMAIN forwardCache
       /\ v \in VersionsAt(k)
       /\ CacheVersion(v, k)

NoVersion(k) ==
    /\ k \notin DOMAIN forwardCache
    /\ VersionsAt(k) = {}
    /\ UNCHANGED versionCaches

getDefaultUniqueVersionId(n) ==
    /\ \E u \in DefaultUids(n) : spaceNameCache' = Put(spaceNameCache, n, u)
    /\ UNCHANGED <<catalogVars, versionCaches, indexCaches, spaceIdCache>>

(* getDefaultVersionId(n) is getVersionId(n, 0). *)
getVersionId(n, requested) ==
    /\ \E u \in Uids(n, requested) :
         /\ spaceNameCache' = CachedDefault(n, requested, u)
         /\ \/ \E v \in VersionId : ResolveVersion(<<n, u>>, v)
            \/ NoVersion(<<n, u>>)
    /\ UNCHANGED <<catalogVars, indexCaches, spaceIdCache>>

getVectorIndexId(n, requested) ==
    /\ \E u \in Uids(n, requested) :
         LET k == <<n, u>>
         IN  /\ spaceNameCache' = CachedDefault(n, requested, u)
             /\ \/ /\ k \in DOMAIN vectorIndexReverseCache
                   /\ UNCHANGED <<versionCaches, indexCaches>>
                \/ /\ k \notin DOMAIN vectorIndexReverseCache
                   /\ NoVersion(k)
                   /\ UNCHANGED indexCaches
                \/ /\ k \notin DOMAIN vectorIndexReverseCache
                   /\ \E v \in VersionId :
                        /\ ResolveVersion(k, v)
                        /\ IF DefaultIndexes(v) = {}
                           THEN UNCHANGED indexCaches
                           ELSE \E i \in DefaultIndexes(v) : CacheIndex(i, k)
    /\ UNCHANGED <<catalogVars, spaceIdCache>>

(* The body of getSpaceNameAndVersionUniqueId: k is the answer. *)
ResolveKey(v, k) ==
    \/ /\ v \in DOMAIN reverseCache
       /\ k = reverseCache[v]
       /\ UNCHANGED versionCaches
    \/ /\ v \notin DOMAIN reverseCache
       /\ k \in KeysOf(v)
       /\ CacheVersion(v, k)

getSpaceNameAndVersionUniqueId(v) ==
    /\ \E k \in Key : ResolveKey(v, k)
    /\ UNCHANGED <<catalogVars, spaceNameCache, indexCaches, spaceIdCache>>

(* Also records index i as the index of its version, default or not. *)
getSpaceNameAndVersionUniqueIdByVectorIndexId(i) ==
    /\ i \notin DOMAIN vectorIndexForwardCache
    /\ i \in DOMAIN index
    /\ \E k \in Key : ResolveKey(index[i].version, k) /\ CacheIndex(i, k)
    /\ UNCHANGED <<catalogVars, spaceNameCache, spaceIdCache>>

getSpaceId(n) ==
    /\ n \notin DOMAIN spaceIdCache
    /\ \E s \in SpacesNamed(n) : spaceIdCache' = Put(spaceIdCache, n, s)
    /\ UNCHANGED <<catalogVars, versionCaches, spaceNameCache, indexCaches>>

clearSpaceNameCache ==
    /\ spaceNameCache' = Empty
    /\ spaceIdCache' = Empty
    /\ UNCHANGED <<catalogVars, versionCaches, indexCaches>>

Cleaned ==
    /\ forwardCache' = Empty
    /\ reverseCache' = Empty
    /\ spaceNameCache' = Empty
    /\ vectorIndexForwardCache' = Empty
    /\ vectorIndexReverseCache' = Empty
    /\ spaceIdCache' = Empty

clean == Cleaned /\ UNCHANGED catalogVars

Lookup ==
    \/ \E n \in Names : getDefaultUniqueVersionId(n) \/ getSpaceId(n)
    \/ \E n \in Names, requested \in 0..MaxVersion :
         getVersionId(n, requested) \/ getVectorIndexId(n, requested)
    \/ \E v \in VersionId : getSpaceNameAndVersionUniqueId(v)
    \/ \E i \in IndexId : getSpaceNameAndVersionUniqueIdByVectorIndexId(i)
    \/ clearSpaceNameCache
    \/ clean
----------------------------------------------------------------------------
(* Manager calls, with what each does to the cache. *)

addSpace(n)      == AddSpace(n) /\ UNCHANGED cacheVars
deleteSpace(s)   == DeleteSpace(s) /\ Cleaned

(* Faulty variants: a manager call that forgets IdCache::clean. *)
AddVersionUncleaned(s, d, t) == AddVersion(s, d, t) /\ UNCHANGED cacheVars
DeleteVersionUncleaned(v)    == DeleteVersion(v) /\ UNCHANGED cacheVars

addVersion(s, d, t)     == AddVersion(s, d, t) /\ Cleaned
updateVersion(v, s, d, t) == UpdateVersion(v, s, d, t) /\ Cleaned
deleteVersion(v)        == DeleteVersion(v) /\ Cleaned
addVectorIndex(v, d, t) == AddVectorIndex(v, d, t) /\ UNCHANGED cacheVars

Init ==
    /\ CatalogInit
    /\ forwardCache = Empty
    /\ reverseCache = Empty
    /\ spaceNameCache = Empty
    /\ vectorIndexForwardCache = Empty
    /\ vectorIndexReverseCache = Empty
    /\ spaceIdCache = Empty

(* The calls the services make, on rows they have just found, and           *)
(* updateVersion.  Left out are updateSpace and updateVectorIndex, which    *)
(* the services call with the name and version they have read (see          *)
(* Services), and deleteVectorIndex, which none calls: they do not touch    *)
(* the cache, so a rename, a move or a deletion would outdate its entries.  *)
ManagerCall ==
    \/ \E n \in Names : addSpace(n)
    \/ \E s \in DOMAIN space : deleteSpace(s)
    \/ \E s \in DOMAIN space, d \in BOOLEAN, t \in Times : addVersion(s, d, t)
    \/ \E v \in DOMAIN version, d \in BOOLEAN, t \in Times :
         updateVersion(v, version[v].space, d, t)
    \/ \E v \in DOMAIN version : deleteVersion(v)
    \/ \E v \in DOMAIN version, d \in BOOLEAN, t \in Times : addVectorIndex(v, d, t)

Next == Lookup \/ ManagerCall
Spec == Init /\ [][Next]_vars

----------------------------------------------------------------------------
(* Properties. *)

CacheTypeOK ==
    /\ DOMAIN forwardCache \subseteq Key
    /\ forwardCache \in [DOMAIN forwardCache -> VersionId]
    /\ DOMAIN reverseCache \subseteq VersionId
    /\ reverseCache \in [DOMAIN reverseCache -> Key]
    /\ DOMAIN spaceNameCache \subseteq Names
    /\ spaceNameCache \in [DOMAIN spaceNameCache -> VersionId]
    /\ DOMAIN vectorIndexForwardCache \subseteq IndexId
    /\ vectorIndexForwardCache \in [DOMAIN vectorIndexForwardCache -> Key]
    /\ DOMAIN vectorIndexReverseCache \subseteq Key
    /\ vectorIndexReverseCache \in [DOMAIN vectorIndexReverseCache -> IndexId]
    /\ DOMAIN spaceIdCache \subseteq Names
    /\ spaceIdCache \in [DOMAIN spaceIdCache -> SpaceId]

(* A cached version id is one the database would still return for that name *)
(* and number, although numbers are reused and versions and spaces are      *)
(* deleted between the lookups: no service call answers from a dead entry.  *)
VersionLookupsCurrent ==
    /\ \A k \in DOMAIN forwardCache : forwardCache[k] \in VersionsAt(k)
    /\ \A v \in DOMAIN reverseCache : reverseCache[v] \in KeysOf(v)

(* Version 0 of a cached name still means a default version of that name,   *)
(* although addVersion, updateVersion and deleteVersion move the default.    *)
DefaultLookupsCurrent ==
    \A n \in DOMAIN spaceNameCache :
        \E v \in VersionsNamed(n) :
            version[v].dflt /\ version[v].uid = spaceNameCache[n]

(* A cached vector index exists and belongs to the version it is cached     *)
(* for, in both directions, although deleting a version leaves the rows of  *)
(* its indexes behind and deleting a space does not.                        *)
IndexLookupsCurrent ==
    /\ \A i \in DOMAIN vectorIndexForwardCache :
         i \in DOMAIN index /\ vectorIndexForwardCache[i] \in KeysOf(index[i].version)
    /\ \A k \in DOMAIN vectorIndexReverseCache :
         LET i == vectorIndexReverseCache[k]
         IN  i \in DOMAIN index /\ k \in KeysOf(index[i].version)
=============================================================================
