--------------------------- MODULE IdCacheThreads ---------------------------
(***************************************************************************)
(* IdCache called by several host threads: the steps of a lookup and of a   *)
(* manager call, the four mutexes, and what can happen in between.          *)
(*                                                                         *)
(* A step is one access to a map (a find, a fill), one query, or one        *)
(* acquisition of a mutex; a query run under a mutex shares its step with   *)
(* the acquisition, since nothing the query reads is protected by it.  The  *)
(* finds outside the mutexes are data races in C++: a find is given the     *)
(* value the map had before or after the write it races.  A manager's SQL   *)
(* transaction is one step.                                                 *)
(***************************************************************************)
EXTENDS IdCache, Sequences

CONSTANTS
    Threads,
    Nobody,       \* no thread
    AnySpaces,    \* bound: the spaces inserted where the host makes any calls ...
    AnyVersions,  \* ... and the versions
    NamesSpaces   \* bound: the spaces there are at a time where it looks up names

ASSUME NobodyIsNoThread == Nobody \notin Threads

VARIABLES
    mutex,     \* mutex -> the thread that holds it, or Nobody
    call,      \* thread -> the call it is in, and where
    workload   \* what the host calls, for good: "any", or lookups by "names", see ThreadNext

threadVars == <<vars, mutex, call, workload>>

Mutexes == {"cache", "spaceName", "vectorIndex", "spaceId"}
Idle    == [pc |-> "idle"]

Goto(t, c)    == call' = [call EXCEPT ![t] = c]
Lock(t, m)    == mutex[m] = Nobody /\ mutex' = [mutex EXCEPT ![m] = t]
Unlock(m)     == mutex' = [mutex EXCEPT ![m] = Nobody]
UnlockAll(t)  == mutex' = [m \in Mutexes |-> IF mutex[m] = t THEN Nobody ELSE mutex[m]]

(* An exception unwinds the call and every lock_guard in it. *)
ThrowLocked(t) == Goto(t, Idle) /\ UNCHANGED mutex   \* faulty variant: lock() and unlock() by hand
Throw(t) == Goto(t, Idle) /\ UnlockAll(t)

At(t, pc) == call[t].pc = pc

----------------------------------------------------------------------------
(* getDefaultUniqueVersionId, on the way to c.goal *)

WithKey(k, goal) ==
    CASE goal = "default" -> Idle
      [] goal = "version" -> [pc |-> "findVersion", key |-> k, goal |-> goal]
      [] goal = "index"   -> [pc |-> "findIndex", key |-> k]

FindDefault(t) ==
    /\ At(t, "findDefault")
    /\ LET c == call[t]
       IN  IF c.name \in DOMAIN spaceNameCache
           THEN Goto(t, WithKey(<<c.name, spaceNameCache[c.name]>>, c.goal))
           ELSE Goto(t, [c EXCEPT !.pc = "fetchDefault"])
    /\ UNCHANGED <<vars, mutex>>

FetchDefault(t) ==
    /\ At(t, "fetchDefault")
    /\ mutex["spaceName"] = Nobody
    /\ LET c    == call[t]
           uids == {version[v].uid : v \in {w \in VersionsNamed(c.name) : version[w].dflt}}
       IN  \/ /\ uids = {} /\ Throw(t)
           \/ \E u \in uids :
                /\ Lock(t, "spaceName")
                /\ Goto(t, [pc |-> "fillDefault", key |-> <<c.name, u>>, goal |-> c.goal])
    /\ UNCHANGED vars

FillDefault(t) ==
    /\ At(t, "fillDefault")
    /\ LET c == call[t]
       IN  /\ spaceNameCache' = Put(spaceNameCache, c.key[1], c.key[2])
           /\ Goto(t, WithKey(c.key, c.goal))
    /\ Unlock("spaceName")
    /\ UNCHANGED <<catalogVars, versionCaches, indexCaches, spaceIdCache>>

----------------------------------------------------------------------------
(* getVersionId.  Under getVectorIndexId the thread holds the mutex of the  *)
(* index maps all the while.                                                *)

WithVersion(c, v) ==
    IF c.goal = "index" THEN [pc |-> "fetchIndex", key |-> c.key, version |-> v] ELSE Idle

FindVersion(t) ==
    /\ At(t, "findVersion")
    /\ LET c == call[t]
       IN  IF c.key \in DOMAIN forwardCache
           THEN Goto(t, WithVersion(c, forwardCache[c.key]))
           ELSE Goto(t, [c EXCEPT !.pc = "fetchVersion"])
    /\ UNCHANGED <<vars, mutex>>

FetchUnlocked(t) ==   \* faulty variant: the mutex is taken by the fill only
    /\ At(t, "fetchVersion")
    /\ mutex["cache"] = Nobody
    /\ \E v \in VersionsAt(call[t].key) :
         Goto(t, [pc |-> "fillVersion", key |-> call[t].key, version |-> v, goal |-> call[t].goal])
    /\ UNCHANGED <<vars, mutex>>
FetchVersion(t) ==
    /\ At(t, "fetchVersion")
    /\ mutex["cache"] = Nobody
    /\ LET c == call[t]
       IN  \/ /\ VersionsAt(c.key) = {} /\ Throw(t)
           \/ \E v \in VersionsAt(c.key) :
                /\ Lock(t, "cache")
                /\ Goto(t, [pc |-> "fillVersion", key |-> c.key, version |-> v, goal |-> c.goal])
    /\ UNCHANGED vars

FillVersion(t) ==
    /\ At(t, "fillVersion")
    /\ CacheVersion(call[t].version, call[t].key)
    /\ Goto(t, WithVersion(call[t], call[t].version))
    /\ Unlock("cache")
    /\ UNCHANGED <<catalogVars, spaceNameCache, indexCaches, spaceIdCache>>

----------------------------------------------------------------------------
(* getVectorIndexId *)

FindIndex(t) ==
    /\ At(t, "findIndex")
    /\ Goto(t, IF call[t].key \in DOMAIN vectorIndexReverseCache THEN Idle
               ELSE [pc |-> "lockIndex", key |-> call[t].key])
    /\ UNCHANGED <<vars, mutex>>

LockIndex(t) ==
    /\ At(t, "lockIndex")
    /\ Lock(t, "vectorIndex")
    /\ Goto(t, [pc |-> "findVersion", key |-> call[t].key, goal |-> "index"])
    /\ UNCHANGED vars

FetchIndex(t) ==
    /\ At(t, "fetchIndex")
    /\ LET c == call[t]
       IN  \/ /\ DefaultIndexes(c.version) = {} /\ Throw(t)
           \/ \E i \in DefaultIndexes(c.version) :
                /\ Goto(t, [pc |-> "fillIndex", key |-> c.key, index |-> i])
                /\ UNCHANGED mutex
    /\ UNCHANGED vars

FillIndex(t) ==
    /\ At(t, "fillIndex")
    /\ CacheIndex(call[t].index, call[t].key)
    /\ Goto(t, Idle)
    /\ Unlock("vectorIndex")
    /\ UNCHANGED <<catalogVars, versionCaches, spaceNameCache, spaceIdCache>>

----------------------------------------------------------------------------
(* getSpaceNameAndVersionUniqueId: find, query and fill without a mutex;    *)
(* from getSpaceNameAndVersionUniqueIdByVectorIndexId with c.index, under   *)
(* the mutex of the index maps.                                             *)

WithVersionKey(c, k) ==
    IF c.goal = "index" THEN [pc |-> "fillIndex", key |-> k, index |-> c.index] ELSE Idle

FindKey(t) ==
    /\ At(t, "findKey")
    /\ LET c == call[t]
       IN  IF c.version \in DOMAIN reverseCache
           THEN Goto(t, WithVersionKey(c, reverseCache[c.version]))
           ELSE Goto(t, [c EXCEPT !.pc = "fetchKey"])
    /\ UNCHANGED <<vars, mutex>>

FetchKey(t) ==
    /\ At(t, "fetchKey")
    /\ LET c == call[t]
       IN  \/ /\ KeysOf(c.version) = {} /\ Throw(t)
           \/ \E k \in KeysOf(c.version) :
                /\ Goto(t, [c EXCEPT !.pc = "fillKey", !.key = k])
                /\ UNCHANGED mutex
    /\ UNCHANGED vars

FillKey(t) ==
    /\ At(t, "fillKey")
    /\ CacheVersion(call[t].version, call[t].key)
    /\ Goto(t, WithVersionKey(call[t], call[t].key))
    /\ UNCHANGED <<catalogVars, spaceNameCache, indexCaches, spaceIdCache, mutex>>

FindByIndex(t) ==
    /\ At(t, "findByIndex")
    /\ Goto(t, IF call[t].index \in DOMAIN vectorIndexForwardCache THEN Idle
               ELSE [call[t] EXCEPT !.pc = "lockByIndex"])
    /\ UNCHANGED <<vars, mutex>>

LockByIndex(t) ==
    /\ At(t, "lockByIndex")
    /\ mutex["vectorIndex"] = Nobody
    /\ LET i == call[t].index
       IN  IF i \in DOMAIN index
           THEN /\ Lock(t, "vectorIndex")
                /\ Goto(t, [pc |-> "findKey", version |-> index[i].version,
                            goal |-> "index", index |-> i, key |-> Nobody])
           ELSE Throw(t)
    /\ UNCHANGED vars

(* getSpaceId: the mutex protects the find and the fill, not the query. *)
FindSpaceHeld(t) ==   \* faulty variant: no block around the first lock_guard
    /\ At(t, "findSpace")
    /\ mutex["spaceId"] = Nobody
    /\ IF call[t].name \in DOMAIN spaceIdCache THEN Goto(t, Idle) /\ UNCHANGED mutex
       ELSE Goto(t, [call[t] EXCEPT !.pc = "fetchSpace"]) /\ Lock(t, "spaceId")
    /\ UNCHANGED vars
FindSpace(t) ==
    /\ At(t, "findSpace")
    /\ mutex["spaceId"] = Nobody
    /\ Goto(t, IF call[t].name \in DOMAIN spaceIdCache THEN Idle
               ELSE [call[t] EXCEPT !.pc = "fetchSpace"])
    /\ UNCHANGED <<vars, mutex>>

FetchSpace(t) ==
    /\ At(t, "fetchSpace")
    /\ LET n == call[t].name
       IN  \/ /\ SpacesNamed(n) = {} /\ Throw(t)
           \/ \E s \in SpacesNamed(n) :
                /\ Goto(t, [pc |-> "fillSpace", name |-> n, space |-> s])
                /\ UNCHANGED mutex
    /\ UNCHANGED vars

FillSpace(t) ==
    /\ At(t, "fillSpace")
    /\ mutex["spaceId"] = Nobody
    /\ spaceIdCache' = Put(spaceIdCache, call[t].name, call[t].space)
    /\ Goto(t, Idle)
    /\ UNCHANGED <<catalogVars, versionCaches, spaceNameCache, indexCaches, mutex>>

LookupStep(t) ==
    \/ FindDefault(t) \/ FetchDefault(t) \/ FillDefault(t)
    \/ FindVersion(t) \/ FetchVersion(t) \/ FillVersion(t)
    \/ FindIndex(t) \/ LockIndex(t) \/ FetchIndex(t) \/ FillIndex(t)
    \/ FindKey(t) \/ FetchKey(t) \/ FillKey(t)
    \/ FindByIndex(t) \/ LockByIndex(t)
    \/ FindSpace(t) \/ FetchSpace(t) \/ FillSpace(t)

----------------------------------------------------------------------------
(* clean() and clearSpaceNameCache(): take the mutexes one by one in the    *)
(* order of the code, clear, release all, go on with the rest of the call.  *)

Cleaning(next) ==
    [pc |-> "lock", want |-> <<"cache", "spaceName", "vectorIndex", "spaceId">>,
     clears |-> "all", next |-> next]
SpaceIdFirst ==   \* faulty variant: the other order
    [pc |-> "lock", want |-> <<"spaceId", "cache">>, clears |-> "names", next |-> Idle]
Clearing == [pc |-> "lock", want |-> <<"cache", "spaceId">>, clears |-> "names", next |-> Idle]

LockNext(t) ==
    /\ At(t, "lock")
    /\ call[t].want # <<>>
    /\ Lock(t, Head(call[t].want))
    /\ Goto(t, [call[t] EXCEPT !.want = Tail(@)])
    /\ UNCHANGED vars

Clear(t) ==
    /\ At(t, "lock")
    /\ call[t].want = <<>>
    /\ CASE call[t].clears = "all"   -> clean
         [] call[t].clears = "names" -> clearSpaceNameCache
    /\ Goto(t, call[t].next)
    /\ UnlockAll(t)

(* The transaction of a manager call whose clean() came before it: an id    *)
(* that is gone by now deletes nothing, and an INSERT may fail.             *)
InsertsVersion(c) ==
    /\ c.does = "addVersion"
    /\ workload = "any" => versionSeq < AnyVersions
    /\ \E now \in Times : AddVersion(c.id, TRUE, now)
RemovesVersion(c) == c.does = "deleteVersion" /\ c.id \in DOMAIN version /\ DeleteVersion(c.id)
Commit(t) ==
    /\ At(t, "commit")
    /\ LET c == call[t]
       IN  \/ InsertsVersion(c)
           \/ RemovesVersion(c)
           \/ /\ c.does = "deleteVersion" => c.id \notin DOMAIN version
              /\ UNCHANGED catalogVars
    /\ Goto(t, Idle)
    /\ UNCHANGED <<cacheVars, mutex>>

----------------------------------------------------------------------------
(* Calls begin. *)

Calls(t, C) == At(t, "idle") /\ UNCHANGED <<vars, mutex>> /\ \E c \in C : Goto(t, c)

FindByName(n, requested, goal) ==
    IF requested = 0 THEN [pc |-> "findDefault", name |-> n, goal |-> goal]
    ELSE WithKey(<<n, requested>>, goal)

LookUpNames(t) ==
    Calls(t, {FindByName(n, 0, "default") : n \in Names}
             \cup {FindByName(n, u, goal) :
                     n \in Names, u \in 0..MaxVersion, goal \in {"version", "index"}})

LookUpIds(t) ==
    Calls(t, {[pc |-> "findKey", version |-> v, goal |-> "key", key |-> Nobody] :
                  v \in 1..versionSeq}
             \cup {[pc |-> "findByIndex", index |-> i] : i \in 1..indexSeq})

LookUpSpaces(t) == Calls(t, {[pc |-> "findSpace", name |-> n] : n \in Names})

CleanCaches(t) == Calls(t, {Cleaning(Idle), Clearing})

AddAVersion(t) ==
    Calls(t, {Cleaning([pc |-> "commit", does |-> "addVersion", id |-> s]) : s \in DOMAIN space})
DeleteAVersion(t) ==
    Calls(t, {Cleaning([pc |-> "commit", does |-> "deleteVersion", id |-> v]) :
                 v \in DOMAIN version})

(* addSpace and addVectorIndex leave the cache alone. *)
Insert(t) ==
    /\ At(t, "idle")
    /\ \/ /\ workload = "any" => spaceSeq < AnySpaces
          /\ workload = "names" => Cardinality(DOMAIN space) < NamesSpaces
          /\ \E n \in Names : AddSpace(n)
       \/ \E v \in DOMAIN version, now \in Times : AddVectorIndex(v, TRUE, now)
    /\ UNCHANGED <<cacheVars, mutex, call>>

(* deleteSpace commits first and cleans afterwards. *)
RemoveSpace(t) ==
    /\ At(t, "idle")
    /\ \E s \in DOMAIN space : DeleteSpace(s)
    /\ Goto(t, Cleaning(Idle))
    /\ UNCHANGED <<cacheVars, mutex>>

ThreadInit ==
    /\ Init
    /\ mutex = [m \in Mutexes |-> Nobody]
    /\ call = [t \in Threads |-> Idle]
    /\ workload \in {"any", "names"}

CleanStep(t) == LockNext(t) \/ Clear(t)

Steps(t) == LookupStep(t) \/ CleanStep(t) \/ Commit(t)

(* Any call, or the lookups by name where only whole spaces are deleted. *)
AnyNext ==
    \E t \in Threads :
        \/ LookUpNames(t) \/ LookUpIds(t) \/ LookUpSpaces(t) \/ CleanCaches(t)
        \/ Insert(t) \/ AddAVersion(t) \/ DeleteAVersion(t) \/ RemoveSpace(t)
        \/ Steps(t)

NamesNext ==
    \E t \in Threads :
        \/ LookUpNames(t) \/ CleanCaches(t)
        \/ Insert(t) \/ AddAVersion(t) \/ RemoveSpace(t)
        \/ Steps(t)

ThreadNext ==
    /\ \/ workload = "any" /\ AnyNext
       \/ workload = "names" /\ NamesNext
    /\ UNCHANGED workload
ThreadSpec == ThreadInit /\ [][ThreadNext]_threadVars

(* Only the scheduling of the host: while some call can go on, one does.    *)
(* Which of two calls gets a mutex is up to std::mutex, which promises       *)
(* nothing, and no call has to begin.                                       *)
SomeStep == (\E t \in Threads : Steps(t)) /\ UNCHANGED workload
FairThreadSpec == ThreadSpec /\ WF_threadVars(SomeStep)

NamesSpec == (ThreadInit /\ workload = "names") /\ [][ThreadNext]_threadVars

----------------------------------------------------------------------------
(* Properties. *)

(* The mutexes a call holds where it is. *)
Holds(c) ==
    (IF c.pc = "fillDefault" THEN {"spaceName"} ELSE {})
    \cup (IF c.pc = "fillVersion" THEN {"cache"} ELSE {})
    \cup (IF \/ c.pc \in {"fetchIndex", "fillIndex"}
             \/ "goal" \in DOMAIN c /\ c.goal = "index"
                /\ c.pc \in {"findVersion", "fetchVersion", "fillVersion",
                             "findKey", "fetchKey", "fillKey"}
          THEN {"vectorIndex"} ELSE {})
    \cup (IF c.pc = "lock"
          THEN (IF c.clears = "all" THEN Mutexes ELSE {"cache", "spaceId"})
               \ {c.want[x] : x \in 1..Len(c.want)}
          ELSE {})

(* Every path out of a call, thrown or returned, releases what it took, and *)
(* no mutex is held by a call that is not inside its scope.                 *)
MutexesMatchCalls ==
    \A m \in Mutexes :
        /\ \A t \in Threads : mutex[m] = t <=> m \in Holds(call[t])
        /\ mutex[m] \in Threads \cup {Nobody}

(* The mutex a call is about to take. *)
Wants(c) ==
    CASE c.pc = "fetchDefault"                  -> {"spaceName"}
      [] c.pc = "fetchVersion"                  -> {"cache"}
      [] c.pc \in {"lockIndex", "lockByIndex"}  -> {"vectorIndex"}
      [] c.pc \in {"findSpace", "fillSpace"}    -> {"spaceId"}
      [] c.pc = "lock" /\ c.want # <<>>         -> {Head(c.want)}
      [] OTHER                                  -> {}

WaitsFor(t, u) == \E m \in Wants(call[t]) : mutex[m] = u

(* Two calls wait for each other in one case only: getVectorIndexId asks    *)
(* for cacheMutex inside vectorIndexCacheMutex and clean asks for them the  *)
(* other way round.  Every other pair of calls takes them in one order.     *)
OnlyIndexLookupDeadlocks ==
    \A t, u \in Threads :
        WaitsFor(t, u) /\ WaitsFor(u, t) =>
            \E a \in {t, u}, b \in {t, u} :
                /\ At(a, "fetchVersion") /\ call[a].goal = "index"
                /\ At(b, "lock") /\ Head(call[b].want) = "vectorIndex"

(* When all threads are inside calls, one of the calls ends, unless an index *)
(* lookup and a clean() wait for each other: no thread asks for a mutex it   *)
(* has, none that is needed is kept by a call that has ended, no third thread *)
(* closes a cycle, and no call goes round for ever.                         *)
AllInside == \A t \in Threads : ~At(t, "idle")
LookupBlocksClean ==
    \E t, u \in Threads :
        /\ WaitsFor(t, u) /\ At(t, "fetchVersion") /\ call[t].goal = "index"
        /\ WaitsFor(u, t) /\ At(u, "lock")
SomeCallEnds == AllInside ~> ~AllInside \/ LookupBlocksClean

CleanComing == \E t \in Threads : At(t, "lock") /\ call[t].clears = "all"

(* A lookup by name that overlaps deleteSpace leaves nothing behind: what   *)
(* it read before the commit is in the maps before clean() empties them,    *)
(* because query and fill share the mutex that clean() takes.               *)
DeletedSpaceForgotten ==
    workload = "names" =>
        CleanComing \/ (VersionLookupsCurrent /\ IndexLookupsCurrent)

Quiet == \A t \in Threads : call[t] = Idle

(* When no call is under way, version 0 of a cached name is its default     *)
(* version (SearchServiceTest.cpp:245 "unique_id is 0 for default version"). *)
DefaultCurrentWhenQuiet == Quiet => DefaultLookupsCurrent
=============================================================================
