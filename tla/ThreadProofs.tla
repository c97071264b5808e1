---------------------------- MODULE ThreadProofs ----------------------------
(***************************************************************************)
(* Proofs about IdCacheThreads, for every number of threads, names, spaces, *)
(* versions and indexes: which mutexes a call holds where it is, which      *)
(* calls can block each other, and what a lookup that overlaps deleteSpace  *)
(* leaves in the maps.                                                      *)
(***************************************************************************)
EXTENDS IdCacheThreads, CatalogProofs

(* What clean() and clearSpaceNameCache() still have to take. *)
ToClean == {<<"cache", "spaceName", "vectorIndex", "spaceId">>,
            <<"spaceName", "vectorIndex", "spaceId">>,
            <<"vectorIndex", "spaceId">>, <<"spaceId">>, <<>>}
ToClear == {<<"cache", "spaceId">>, <<"spaceId">>, <<>>}

(* The parts of a call that say which mutexes it holds. *)
Unlocked     == {"idle", "findDefault", "fetchDefault", "findIndex", "lockIndex",
                 "findByIndex", "lockByIndex", "findSpace", "fetchSpace", "fillSpace",
                 "commit"}
ForDefault   == {"findDefault", "fetchDefault", "fillDefault"}
ForVersion   == {"findVersion", "fetchVersion", "fillVersion"}
ForKey       == {"findKey", "fetchKey", "fillKey"}
InIndexScope == {"fetchIndex", "fillIndex"}

HasGoal(c, goals) == "goal" \in DOMAIN c /\ c.goal \in goals
CallOK(c) ==
    /\ "pc" \in DOMAIN c
    /\ c.pc \in Unlocked \cup {"fillDefault"} \cup ForVersion \cup ForKey
                  \cup InIndexScope \cup {"lock"}
    /\ c.pc \in ForDefault => HasGoal(c, {"default", "version", "index"})
    /\ c.pc \in ForVersion => HasGoal(c, {"version", "index"})
    /\ c.pc \in ForKey     => HasGoal(c, {"key", "index"})
    /\ c.pc = "lock" =>
         /\ {"want", "clears", "next"} \subseteq DOMAIN c
         /\ \/ c.clears = "all"   /\ c.want \in ToClean
            \/ c.clears = "names" /\ c.want \in ToClear
         /\ "pc" \in DOMAIN c.next /\ c.next.pc \in {"idle", "commit"}

ThreadInv ==
    /\ mutex \in [Mutexes -> Threads \cup {Nobody}]
    /\ DOMAIN call = Threads
    /\ \A t \in Threads : CallOK(call[t])
    /\ \A m \in Mutexes, t \in Threads : mutex[m] = t <=> m \in Holds(call[t])

----------------------------------------------------------------------------
(* The mutexes a call holds, by where it is. *)

(* Outside every scope a call holds nothing. *)
LEMMA HoldsNothing ==
    ASSUME NEW c, c.pc \in Unlocked
    PROVE  Holds(c) = {}
BY DEF Holds, Unlocked

(* The default's query and fill share spaceNameCacheMutex. *)
LEMMA HoldsSpaceName ==
    ASSUME NEW c, c.pc = "fillDefault"
    PROVE  Holds(c) = {"spaceName"}
BY DEF Holds

(* Between locking for an index and filling it, the index mutex is held. *)
LEMMA HoldsIndex ==
    ASSUME NEW c, c.pc \in InIndexScope
    PROVE  Holds(c) = {"vectorIndex"}
BY DEF Holds, InIndexScope

(* The lookups getVectorIndexId makes run inside the mutex it holds. *)
LEMMA HoldsForGoal ==
    ASSUME NEW c, "goal" \in DOMAIN c,
           c.pc \in {"findVersion", "fetchVersion"} \cup ForKey
    PROVE  Holds(c) = IF c.goal = "index" THEN {"vectorIndex"} ELSE {}
BY DEF Holds, ForKey

(* The fill of a version holds cacheMutex as well. *)
LEMMA HoldsCache ==
    ASSUME NEW c, "goal" \in DOMAIN c, c.pc = "fillVersion"
    PROVE  Holds(c) = {"cache"} \cup (IF c.goal = "index" THEN {"vectorIndex"} ELSE {})
BY DEF Holds

(* A call that is taking mutexes holds those it no longer wants. *)
LEMMA HoldsTaken ==
    ASSUME NEW c, c.pc = "lock"
    PROVE  Holds(c) = (IF c.clears = "all" THEN Mutexes ELSE {"cache", "spaceId"})
                        \ {c.want[x] : x \in 1..Len(c.want)}
BY DEF Holds

(* The elements of a short sequence. *)
LEMMA Elements ==
    ASSUME NEW a, NEW b, NEW c, NEW d
    PROVE  LET left(s) == {s[x] : x \in 1..Len(s)}
           IN  /\ left(<<a>>) = {a} /\ left(<<a, b>>) = {a, b}
               /\ left(<<a, b, c>>) = {a, b, c} /\ left(<<a, b, c, d>>) = {a, b, c, d}
               /\ left(<<>>) = {}
<1> DEFINE left(s) == {s[x] : x \in 1..Len(s)}
<1>1. 1..1 = {1} /\ 1..2 = {1, 2} /\ 1..3 = {1, 2, 3} /\ 1..4 = {1, 2, 3, 4} /\ 1..0 = {}
  OBVIOUS
<1>2. left(<<a>>) = {a}
  BY <1>1, Len(<<a>>) = 1
<1>3. left(<<a, b>>) = {a, b}
  <2> DEFINE s == <<a, b>>
  <2>1. Len(s) = 2 /\ s[1] = a /\ s[2] = b  OBVIOUS
  <2> HIDE DEF s
  <2> QED  BY <1>1, <2>1 DEF s
<1>4. left(<<a, b, c>>) = {a, b, c}
  <2> DEFINE s == <<a, b, c>>
  <2>1. Len(s) = 3 /\ s[1] = a /\ s[2] = b /\ s[3] = c  OBVIOUS
  <2> HIDE DEF s
  <2>2. {s[x] : x \in {1, 2, 3}} = {a, b, c}  BY <2>1
  <2> QED  BY <1>1, <2>1, <2>2 DEF s
<1>5. left(<<a, b, c, d>>) = {a, b, c, d}
  <2> DEFINE s == <<a, b, c, d>>
  <2>1. Len(s) = 4 /\ s[1] = a /\ s[2] = b /\ s[3] = c /\ s[4] = d  OBVIOUS
  <2> HIDE DEF s
  <2>2. {s[x] : x \in {1, 2, 3, 4}} = {a, b, c, d}  BY <2>1
  <2> QED  BY <1>1, <2>1, <2>2 DEF s
<1>6. left(<<>>) = {}
  OBVIOUS
<1> QED  BY <1>2, <1>3, <1>4, <1>5, <1>6

(* What is left to take, and that none of it is named twice. *)
LEMMA WantFacts ==
    ASSUME NEW w \in ToClean \cup ToClear, w # <<>>
    PROVE  LET left(s) == {s[x] : x \in 1..Len(s)}
           IN  /\ Head(w) \in Mutexes /\ Head(w) \in left(w)
               /\ left(Tail(w)) = left(w) \ {Head(w)}
               /\ w \in ToClean => Tail(w) \in ToClean
               /\ w \in ToClear => Tail(w) \in ToClear /\ Head(w) \in {"cache", "spaceId"}
<1> DEFINE left(s) == {s[x] : x \in 1..Len(s)}
<1>1. CASE w = <<"cache", "spaceName", "vectorIndex", "spaceId">>
  <2>1. /\ Head(w) = "cache" /\ Tail(w) = <<"spaceName", "vectorIndex", "spaceId">>
        /\ w \notin ToClear
    BY <1>1 DEF ToClear
  <2>2. left(w) = {"cache", "spaceName", "vectorIndex", "spaceId"}
    BY <1>1, Elements
  <2>3. left(Tail(w)) = {"spaceName", "vectorIndex", "spaceId"}
    <3> DEFINE v == Tail(w)
    <3>1. v = <<"spaceName", "vectorIndex", "spaceId">>
      BY <2>1
    <3> HIDE DEF v
    <3>2. left(v) = {"spaceName", "vectorIndex", "spaceId"}
      BY <3>1, Elements
    <3> QED  BY <3>2 DEF v
  <2> QED  BY <2>1, <2>2, <2>3 DEF ToClean, Mutexes
<1>2. CASE w = <<"spaceName", "vectorIndex", "spaceId">>
  <2>1. /\ Head(w) = "spaceName" /\ Tail(w) = <<"vectorIndex", "spaceId">>
        /\ w \notin ToClear
    BY <1>2 DEF ToClear
  <2>2. left(w) = {"spaceName", "vectorIndex", "spaceId"}
    BY <1>2, Elements
  <2>3. left(Tail(w)) = {"vectorIndex", "spaceId"}
    <3> DEFINE v == Tail(w)
    <3>1. v = <<"vectorIndex", "spaceId">>
      BY <2>1
    <3> HIDE DEF v
    <3>2. left(v) = {"vectorIndex", "spaceId"}
      BY <3>1, Elements
    <3> QED  BY <3>2 DEF v
  <2> QED  BY <2>1, <2>2, <2>3 DEF ToClean, Mutexes
<1>3. CASE w = <<"vectorIndex", "spaceId">>
  <2>1. Head(w) = "vectorIndex" /\ Tail(w) = <<"spaceId">> /\ w \notin ToClear
    BY <1>3 DEF ToClear
  <2>2. left(w) = {"vectorIndex", "spaceId"}
    BY <1>3, Elements
  <2>3. left(Tail(w)) = {"spaceId"}
    <3> DEFINE v == Tail(w)
    <3>1. v = <<"spaceId">>
      BY <2>1
    <3> HIDE DEF v
    <3>2. left(v) = {"spaceId"}
      BY <3>1, Elements
    <3> QED  BY <3>2 DEF v
  <2> QED  BY <2>1, <2>2, <2>3 DEF ToClean, Mutexes
<1>4. CASE w = <<"cache", "spaceId">>
  <2>1. Head(w) = "cache" /\ Tail(w) = <<"spaceId">> /\ w \notin ToClean
    BY <1>4 DEF ToClean
  <2>2. left(w) = {"cache", "spaceId"}
    BY <1>4, Elements
  <2>3. left(Tail(w)) = {"spaceId"}
    <3> DEFINE v == Tail(w)
    <3>1. v = <<"spaceId">>
      BY <2>1
    <3> HIDE DEF v
    <3>2. left(v) = {"spaceId"}
      BY <3>1, Elements
    <3> QED  BY <3>2 DEF v
  <2> QED  BY <2>1, <2>2, <2>3 DEF ToClear, Mutexes
<1>5. CASE w = <<"spaceId">>
  <2>1. Head(w) = "spaceId" /\ Tail(w) = <<>>
    BY <1>5
  <2>2. left(w) = {"spaceId"}
    BY <1>5, Elements
  <2>3. left(Tail(w)) = {}
    BY <2>1, Elements
  <2> QED  BY <2>1, <2>2, <2>3 DEF ToClean, ToClear, Mutexes
<1> QED  BY <1>1, <1>2, <1>3, <1>4, <1>5 DEF ToClean, ToClear

----------------------------------------------------------------------------
(* A thread goes on: what has to be shown of the place it goes to. *)

(* One thread moves; each mutex stays as it was, is taken, or is released,  *)
(* as the new place says.                                                   *)
LEMMA MoveKeepsInv ==
    ASSUME ThreadInv, NEW t \in Threads, NEW c, Goto(t, c), CallOK(c),
           mutex' \in [Mutexes -> Threads \cup {Nobody}],
           \A m \in Mutexes :
               \/ mutex'[m] = mutex[m] /\ (m \in Holds(c) <=> m \in Holds(call[t]))
               \/ mutex[m] = Nobody /\ mutex'[m] = t /\ m \in Holds(c)
               \/ mutex[m] = t /\ mutex'[m] = Nobody /\ m \notin Holds(c)
    PROVE  ThreadInv'
<1>1. /\ DOMAIN call' = Threads
      /\ call'[t] = c /\ \A u \in Threads \ {t} : call'[u] = call[u]
  BY DEF ThreadInv, Goto
<1>2. \A u \in Threads : CallOK(call'[u])
  BY <1>1 DEF ThreadInv
<1>3. \A m \in Mutexes, u \in Threads : mutex'[m] = u <=> m \in Holds(call'[u])
  <2> SUFFICES ASSUME NEW m \in Mutexes, NEW u \in Threads
               PROVE  mutex'[m] = u <=> m \in Holds(call'[u])
    OBVIOUS
  <2>1. CASE u = t
    BY <2>1, <1>1, NobodyIsNoThread DEF ThreadInv
  <2>2. CASE u # t
    BY <2>2, <1>1, NobodyIsNoThread DEF ThreadInv
  <2> QED  BY <2>1, <2>2
<1>4. (\A u \in Threads : CallOK(call[u]))' = \A u \in Threads : CallOK(call'[u])
  BY DEF CallOK, HasGoal
<1>5. (\A m \in Mutexes, u \in Threads : mutex[m] = u <=> m \in Holds(call[u]))'
        = \A m \in Mutexes, u \in Threads : mutex'[m] = u <=> m \in Holds(call'[u])
  BY DEF Holds, Mutexes
<1> QED  BY <1>1, <1>2, <1>3, <1>4, <1>5 DEF ThreadInv

(* A step that takes and releases nothing. *)
LEMMA KeepStep ==
    ASSUME ThreadInv, NEW t \in Threads, NEW c, Goto(t, c), CallOK(c),
           UNCHANGED mutex, Holds(c) = Holds(call[t])
    PROVE  ThreadInv'
<1>1. mutex' \in [Mutexes -> Threads \cup {Nobody}]
  BY DEF ThreadInv
<1>2. \A m \in Mutexes : mutex'[m] = mutex[m] /\ (m \in Holds(c) <=> m \in Holds(call[t]))
  OBVIOUS
<1> QED  BY <1>1, <1>2, MoveKeepsInv

(* A step that takes one mutex. *)
LEMMA LockStep ==
    ASSUME ThreadInv, NEW t \in Threads, NEW c, NEW m \in Mutexes,
           Goto(t, c), CallOK(c), Lock(t, m), Holds(c) = Holds(call[t]) \cup {m}
    PROVE  ThreadInv'
<1>1. mutex' \in [Mutexes -> Threads \cup {Nobody}]
  BY DEF ThreadInv, Lock
<1>2. \A k \in Mutexes :
        \/ mutex'[k] = mutex[k] /\ (k \in Holds(c) <=> k \in Holds(call[t]))
        \/ mutex[k] = Nobody /\ mutex'[k] = t /\ k \in Holds(c)
  BY DEF ThreadInv, Lock
<1> QED  BY <1>1, <1>2, MoveKeepsInv

(* A step that releases one mutex. *)
LEMMA UnlockStep ==
    ASSUME ThreadInv, NEW t \in Threads, NEW c, NEW m \in Mutexes,
           Goto(t, c), CallOK(c), Unlock(m),
           m \in Holds(call[t]), Holds(c) = Holds(call[t]) \ {m}
    PROVE  ThreadInv'
<1>1. mutex' \in [Mutexes -> Threads \cup {Nobody}]
  BY DEF ThreadInv, Unlock
<1>2. \A k \in Mutexes :
        \/ mutex'[k] = mutex[k] /\ (k \in Holds(c) <=> k \in Holds(call[t]))
        \/ mutex[k] = t /\ mutex'[k] = Nobody /\ k \notin Holds(c)
  BY DEF ThreadInv, Unlock
<1> QED  BY <1>1, <1>2, MoveKeepsInv

(* A step that releases all a thread holds, as an exception does. *)
LEMMA UnlockAllStep ==
    ASSUME ThreadInv, NEW t \in Threads, NEW c,
           Goto(t, c), CallOK(c), UnlockAll(t), Holds(c) = {}
    PROVE  ThreadInv'
<1>1. mutex' \in [Mutexes -> Threads \cup {Nobody}]
  BY DEF ThreadInv, UnlockAll
<1>2. \A k \in Mutexes :
        \/ mutex'[k] = mutex[k] /\ (k \in Holds(c) <=> k \in Holds(call[t]))
        \/ mutex[k] = t /\ mutex'[k] = Nobody /\ k \notin Holds(c)
  BY DEF ThreadInv, UnlockAll
<1> QED  BY <1>1, <1>2, MoveKeepsInv

(* The end of a call is a place like any other. *)
LEMMA IdleOK == CallOK(Idle) /\ Holds(Idle) = {}
<1>1. CallOK(Idle)
  BY DEF CallOK, Idle, Unlocked, ForDefault, ForVersion, ForKey, HasGoal
<1>2. Holds(Idle) = {}
  BY HoldsNothing DEF Idle, Unlocked
<1> QED  BY <1>1, <1>2

(* An exception leaves no mutex behind. *)
LEMMA ThrowStep ==
    ASSUME ThreadInv, NEW t \in Threads, Throw(t)
    PROVE  ThreadInv'
BY IdleOK, UnlockAllStep DEF Throw

----------------------------------------------------------------------------
(* The steps of the lookups. *)

(* The same call at another place. *)
LEMMA AtAnotherPlace ==
    ASSUME NEW c, "pc" \in DOMAIN c, NEW p
    PROVE  LET d == [c EXCEPT !.pc = p]
           IN  /\ d.pc = p /\ "pc" \in DOMAIN d
               /\ "goal" \in DOMAIN c => "goal" \in DOMAIN d /\ d.goal = c.goal
OBVIOUS

(* The lookup that follows once name and version number are known. *)
LEMMA WithKeyOK ==
    ASSUME NEW k, NEW goal \in {"default", "version", "index"}
    PROVE  CallOK(WithKey(k, goal)) /\ Holds(WithKey(k, goal)) = {}
<1> DEFINE find == [pc |-> "findVersion", key |-> k, goal |-> goal]
           same == [pc |-> "findIndex", key |-> k]
<1>1. CASE goal = "default"
  BY <1>1, IdleOK DEF WithKey
<1>2. CASE goal = "version"
  <2>1. WithKey(k, goal) = find
    BY <1>2 DEF WithKey
  <2>2. CallOK(find)
    BY <1>2 DEF CallOK, Unlocked, ForDefault, ForVersion, ForKey, HasGoal
  <2>3. Holds(find) = {}
    BY <1>2, HoldsForGoal
  <2> QED  BY <2>1, <2>2, <2>3
<1>3. CASE goal = "index"
  <2>1. WithKey(k, goal) = same
    BY <1>3 DEF WithKey
  <2>2. CallOK(same)
    BY DEF CallOK, Unlocked, ForDefault, ForVersion, ForKey
  <2>3. Holds(same) = {}
    BY HoldsNothing DEF Unlocked
  <2> QED  BY <2>1, <2>2, <2>3
<1> QED  BY <1>1, <1>2, <1>3

(* The lookup that follows once the version's id is known. *)
LEMMA WithVersionOK ==
    ASSUME NEW c, NEW v, c.goal \in {"version", "index"}
    PROVE  /\ CallOK(WithVersion(c, v))
           /\ Holds(WithVersion(c, v)) = IF c.goal = "index" THEN {"vectorIndex"} ELSE {}
<1> DEFINE fetch == [pc |-> "fetchIndex", key |-> c.key, version |-> v]
<1>1. CASE c.goal = "version"
  BY <1>1, IdleOK DEF WithVersion
<1>2. CASE c.goal = "index"
  <2>1. WithVersion(c, v) = fetch
    BY <1>2 DEF WithVersion
  <2>2. CallOK(fetch)
    BY DEF CallOK, Unlocked, ForDefault, ForVersion, ForKey, InIndexScope
  <2>3. Holds(fetch) = {"vectorIndex"}
    BY HoldsIndex DEF InIndexScope
  <2> QED  BY <1>2, <2>1, <2>2, <2>3
<1> QED  BY <1>1, <1>2

(* The fill that follows once an index's version is named. *)
LEMMA WithVersionKeyOK ==
    ASSUME NEW c, NEW k, c.goal \in {"key", "index"}
    PROVE  /\ CallOK(WithVersionKey(c, k))
           /\ Holds(WithVersionKey(c, k)) = IF c.goal = "index" THEN {"vectorIndex"} ELSE {}
<1> DEFINE fill == [pc |-> "fillIndex", key |-> k, index |-> c.index]
<1>1. CASE c.goal = "key"
  BY <1>1, IdleOK DEF WithVersionKey
<1>2. CASE c.goal = "index"
  <2>1. WithVersionKey(c, k) = fill
    BY <1>2 DEF WithVersionKey
  <2>2. CallOK(fill)
    BY DEF CallOK, Unlocked, ForDefault, ForVersion, ForKey, InIndexScope
  <2>3. Holds(fill) = {"vectorIndex"}
    BY HoldsIndex DEF InIndexScope
  <2> QED  BY <1>2, <2>1, <2>2, <2>3
<1> QED  BY <1>1, <1>2

(* getDefaultUniqueVersionId takes spaceNameCacheMutex for query and fill.  *)
LEMMA DefaultSteps ==
    ASSUME ThreadInv, NEW t \in Threads, FindDefault(t) \/ FetchDefault(t) \/ FillDefault(t)
    PROVE  ThreadInv'
<1> DEFINE c == call[t]
<1>1. CallOK(c)
  BY DEF ThreadInv
<1>2. c.pc \in ForDefault => c.goal \in {"default", "version", "index"} /\ "goal" \in DOMAIN c
  BY <1>1 DEF CallOK, HasGoal
<1>3. "pc" \in DOMAIN c
  BY <1>1 DEF CallOK
<1>4. CASE FindDefault(t)
  <2>1. c.pc = "findDefault" /\ UNCHANGED mutex
    BY <1>4 DEF FindDefault, At
  <2>2. Holds(c) = {}
    BY <2>1, HoldsNothing DEF Unlocked
  <2>3. CASE c.name \in DOMAIN spaceNameCache
    <3> DEFINE k == <<c.name, spaceNameCache[c.name]>>
    <3>1. Goto(t, WithKey(k, c.goal))
      BY <1>4, <2>3 DEF FindDefault
    <3>2. CallOK(WithKey(k, c.goal)) /\ Holds(WithKey(k, c.goal)) = {}
      BY <1>2, <2>1, WithKeyOK DEF ForDefault
    <3> QED  BY <2>1, <2>2, <3>1, <3>2, KeepStep
  <2>4. CASE c.name \notin DOMAIN spaceNameCache
    <3> DEFINE d == [c EXCEPT !.pc = "fetchDefault"]
    <3>1. Goto(t, d)
      BY <1>4, <2>4 DEF FindDefault
    <3>2. d.pc = "fetchDefault" /\ "pc" \in DOMAIN d /\ "goal" \in DOMAIN d /\ d.goal = c.goal
      BY <1>2, <1>3, <2>1, AtAnotherPlace DEF ForDefault
    <3>3. CallOK(d)
      <4> HIDE DEF d
      <4> QED  BY <1>2, <2>1, <3>2
               DEF CallOK, HasGoal, Unlocked, ForDefault, ForVersion, ForKey
    <3>4. Holds(d) = {}
      <4> HIDE DEF d
      <4> QED  BY <3>2, HoldsNothing DEF Unlocked
    <3> QED  BY <2>1, <2>2, <3>1, <3>3, <3>4, KeepStep
  <2> QED  BY <2>3, <2>4
<1>5. CASE FetchDefault(t)
  <2>1. c.pc = "fetchDefault"
    BY <1>5 DEF FetchDefault, At
  <2>2. Holds(c) = {}
    BY <2>1, HoldsNothing DEF Unlocked
  <2>3. CASE Throw(t)
    BY <2>3, ThrowStep
  <2>4. CASE ~Throw(t)
    <3>1. PICK u : /\ Lock(t, "spaceName")
                   /\ Goto(t, [pc |-> "fillDefault", key |-> <<c.name, u>>, goal |-> c.goal])
      BY <1>5, <2>4 DEF FetchDefault
    <3> DEFINE d == [pc |-> "fillDefault", key |-> <<c.name, u>>, goal |-> c.goal]
    <3>2. CallOK(d)
      BY <1>2, <2>1 DEF CallOK, HasGoal, Unlocked, ForDefault, ForVersion, ForKey
    <3>3. Holds(d) = {"spaceName"}
      BY HoldsSpaceName
    <3>4. "spaceName" \in Mutexes
      BY DEF Mutexes
    <3> HIDE DEF d
    <3>5. Goto(t, d)
      BY <3>1 DEF d
    <3> QED  BY <2>2, <3>1, <3>2, <3>3, <3>4, <3>5, LockStep
  <2> QED  BY <2>3, <2>4
<1>6. CASE FillDefault(t)
  <2>1. c.pc = "fillDefault" /\ Goto(t, WithKey(c.key, c.goal)) /\ Unlock("spaceName")
    BY <1>6 DEF FillDefault, At
  <2>2. Holds(c) = {"spaceName"}
    BY <2>1, HoldsSpaceName
  <2>3. CallOK(WithKey(c.key, c.goal)) /\ Holds(WithKey(c.key, c.goal)) = {}
    BY <1>2, <2>1, WithKeyOK DEF ForDefault
  <2> QED  BY <2>1, <2>2, <2>3, UnlockStep DEF Mutexes
<1> QED  BY <1>4, <1>5, <1>6

(* getVersionId takes cacheMutex for query and fill, inside the index mutex *)
(* or not.                                                                  *)
LEMMA VersionSteps ==
    ASSUME ThreadInv, NEW t \in Threads, FindVersion(t) \/ FetchVersion(t) \/ FillVersion(t)
    PROVE  ThreadInv'
<1> DEFINE c == call[t]
           scope == IF c.goal = "index" THEN {"vectorIndex"} ELSE {}
<1>1. CallOK(c)
  BY DEF ThreadInv
<1>2. c.pc \in ForVersion => c.goal \in {"version", "index"} /\ "goal" \in DOMAIN c
  BY <1>1 DEF CallOK, HasGoal
<1>3. "pc" \in DOMAIN c
  BY <1>1 DEF CallOK
<1>4. CASE FindVersion(t)
  <2>1. c.pc = "findVersion" /\ UNCHANGED mutex
    BY <1>4 DEF FindVersion, At
  <2>2. Holds(c) = scope
    BY <1>2, <2>1, HoldsForGoal DEF ForVersion
  <2>3. CASE c.key \in DOMAIN forwardCache
    <3> DEFINE d == WithVersion(c, forwardCache[c.key])
    <3>1. Goto(t, d)
      BY <1>4, <2>3 DEF FindVersion
    <3>2. CallOK(d) /\ Holds(d) = scope
      BY <1>2, <2>1, WithVersionOK DEF ForVersion
    <3> QED  BY <2>1, <2>2, <3>1, <3>2, KeepStep
  <2>4. CASE c.key \notin DOMAIN forwardCache
    <3> DEFINE d == [c EXCEPT !.pc = "fetchVersion"]
    <3>1. Goto(t, d)
      BY <1>4, <2>4 DEF FindVersion
    <3>2. d.pc = "fetchVersion" /\ "pc" \in DOMAIN d /\ "goal" \in DOMAIN d /\ d.goal = c.goal
      BY <1>2, <1>3, <2>1, AtAnotherPlace DEF ForVersion
    <3>3. CallOK(d)
      <4> HIDE DEF d
      <4> QED  BY <1>2, <2>1, <3>2
               DEF CallOK, HasGoal, Unlocked, ForDefault, ForVersion, ForKey
    <3>4. Holds(d) = scope
      <4> HIDE DEF d
      <4> QED  BY <3>2, HoldsForGoal
    <3> QED  BY <2>1, <2>2, <3>1, <3>3, <3>4, KeepStep
  <2> QED  BY <2>3, <2>4
<1>5. CASE FetchVersion(t)
  <2>1. c.pc = "fetchVersion"
    BY <1>5 DEF FetchVersion, At
  <2>2. Holds(c) = scope
    BY <1>2, <2>1, HoldsForGoal DEF ForVersion
  <2>3. CASE Throw(t)
    BY <2>3, ThrowStep
  <2>4. CASE ~Throw(t)
    <3>1. PICK v : /\ Lock(t, "cache")
                   /\ Goto(t, [pc |-> "fillVersion", key |-> c.key, version |-> v,
                               goal |-> c.goal])
      BY <1>5, <2>4 DEF FetchVersion
    <3> DEFINE d == [pc |-> "fillVersion", key |-> c.key, version |-> v, goal |-> c.goal]
    <3>2. CallOK(d)
      BY <1>2, <2>1 DEF CallOK, HasGoal, Unlocked, ForDefault, ForVersion, ForKey
    <3>3. Holds(d) = {"cache"} \cup scope
      BY HoldsCache
    <3>4. "cache" \in Mutexes
      BY DEF Mutexes
    <3> HIDE DEF d, scope
    <3>5. Goto(t, d)
      BY <3>1 DEF d
    <3>6. Holds(d) = Holds(call[t]) \cup {"cache"}
      BY <2>2, <3>3
    <3> QED  BY <3>1, <3>2, <3>4, <3>5, <3>6, LockStep
  <2> QED  BY <2>3, <2>4
<1>6. CASE FillVersion(t)
  <2> DEFINE d == WithVersion(c, c.version)
  <2>1. c.pc = "fillVersion" /\ Goto(t, d) /\ Unlock("cache")
    BY <1>6 DEF FillVersion, At
  <2>2. Holds(c) = {"cache"} \cup scope
    BY <1>2, <2>1, HoldsCache DEF ForVersion
  <2>3. CallOK(d) /\ Holds(d) = scope
    BY <1>2, <2>1, WithVersionOK DEF ForVersion
  <2>4. "cache" \in Holds(call[t]) /\ Holds(d) = Holds(call[t]) \ {"cache"}
    BY <2>2, <2>3
  <2> HIDE DEF d
  <2> QED  BY <2>1, <2>3, <2>4, UnlockStep DEF Mutexes
<1> QED  BY <1>4, <1>5, <1>6

(* getVectorIndexId holds the index mutex from LockIndex to FillIndex.      *)
LEMMA IndexSteps ==
    ASSUME ThreadInv, NEW t \in Threads,
           FindIndex(t) \/ LockIndex(t) \/ FetchIndex(t) \/ FillIndex(t)
    PROVE  ThreadInv'
<1> DEFINE c == call[t]
<1>1. CASE FindIndex(t)
  <2> DEFINE lock == [pc |-> "lockIndex", key |-> c.key]
  <2>1. Holds(c) = {}
    BY <1>1, HoldsNothing DEF FindIndex, At, Unlocked
  <2>2. CallOK(lock)
    BY DEF CallOK, Unlocked, ForDefault, ForVersion, ForKey
  <2>3. Holds(lock) = {}
    BY HoldsNothing DEF Unlocked
  <2>4. UNCHANGED mutex /\ (Goto(t, Idle) \/ Goto(t, lock))
    BY <1>1 DEF FindIndex
  <2> HIDE DEF lock
  <2> QED  BY <2>1, <2>2, <2>3, <2>4, IdleOK, KeepStep
<1>2. CASE LockIndex(t)
  <2> DEFINE find == [pc |-> "findVersion", key |-> c.key, goal |-> "index"]
  <2>1. Holds(c) = {} /\ Lock(t, "vectorIndex") /\ Goto(t, find)
    BY <1>2, HoldsNothing DEF LockIndex, At, Unlocked
  <2>2. CallOK(find)
    BY DEF CallOK, HasGoal, Unlocked, ForDefault, ForVersion, ForKey
  <2>3. Holds(find) = {"vectorIndex"}
    BY HoldsForGoal
  <2> HIDE DEF find
  <2> QED  BY <2>1, <2>2, <2>3, LockStep DEF Mutexes
<1>3. CASE FetchIndex(t)
  <2>1. CASE Throw(t)
    BY <2>1, ThrowStep
  <2>2. CASE ~Throw(t)
    <3>1. PICK i : Goto(t, [pc |-> "fillIndex", key |-> c.key, index |-> i]) /\ UNCHANGED mutex
      BY <1>3, <2>2 DEF FetchIndex
    <3> DEFINE fill == [pc |-> "fillIndex", key |-> c.key, index |-> i]
    <3>2. CallOK(fill)
      BY DEF CallOK, Unlocked, ForDefault, ForVersion, ForKey, InIndexScope
    <3>3. Holds(fill) = {"vectorIndex"}
      BY HoldsIndex DEF InIndexScope
    <3>4. Holds(c) = {"vectorIndex"}
      BY <1>3, HoldsIndex DEF FetchIndex, At, InIndexScope
    <3>5. Goto(t, fill)
      BY <3>1
    <3> HIDE DEF fill
    <3> QED  BY <3>1, <3>2, <3>3, <3>4, <3>5, KeepStep
  <2> QED  BY <2>1, <2>2
<1>4. CASE FillIndex(t)
  <2>1. Holds(c) = {"vectorIndex"} /\ Goto(t, Idle) /\ Unlock("vectorIndex")
    BY <1>4, HoldsIndex DEF FillIndex, At, InIndexScope
  <2> QED  BY <2>1, IdleOK, UnlockStep DEF Mutexes
<1> QED  BY <1>1, <1>2, <1>3, <1>4

(* The lookups of a version's name run with the mutexes their caller holds. *)
LEMMA KeySteps ==
    ASSUME ThreadInv, NEW t \in Threads, FindKey(t) \/ FetchKey(t) \/ FillKey(t)
    PROVE  ThreadInv'
<1> DEFINE c == call[t]
           scope == IF c.goal = "index" THEN {"vectorIndex"} ELSE {}
<1>1. CallOK(c) /\ c.pc \in ForKey
  BY DEF ThreadInv, FindKey, FetchKey, FillKey, At, ForKey
<1>2. c.goal \in {"key", "index"} /\ "goal" \in DOMAIN c /\ "pc" \in DOMAIN c
  BY <1>1 DEF CallOK, HasGoal
<1>3. Holds(c) = scope
  BY <1>1, <1>2, HoldsForGoal
<1>4. ASSUME NEW k, Goto(t, WithVersionKey(c, k)), UNCHANGED mutex
      PROVE  ThreadInv'
  <2>1. CallOK(WithVersionKey(c, k)) /\ Holds(WithVersionKey(c, k)) = scope
    BY <1>2, WithVersionKeyOK
  <2> QED  BY <1>3, <1>4, <2>1, KeepStep
<1>5. ASSUME NEW d, Goto(t, d), UNCHANGED mutex, d.pc \in {"fetchKey", "fillKey"},
             {"pc", "goal"} \subseteq DOMAIN d, d.goal = c.goal
      PROVE  ThreadInv'
  <2>1. CallOK(d)
    BY <1>2, <1>5 DEF CallOK, HasGoal, Unlocked, ForDefault, ForVersion, ForKey
  <2>2. Holds(d) = scope
    BY <1>5, HoldsForGoal DEF ForKey
  <2> QED  BY <1>3, <1>5, <2>1, <2>2, KeepStep
<1>6. CASE FindKey(t)
  <2>1. CASE c.version \in DOMAIN reverseCache
    BY <1>4, <1>6, <2>1 DEF FindKey
  <2>2. CASE c.version \notin DOMAIN reverseCache
    <3> DEFINE d == [c EXCEPT !.pc = "fetchKey"]
    <3>1. Goto(t, d) /\ UNCHANGED mutex
      BY <1>6, <2>2 DEF FindKey
    <3>2. d.pc = "fetchKey" /\ {"pc", "goal"} \subseteq DOMAIN d /\ d.goal = c.goal
      BY <1>2, AtAnotherPlace
    <3> HIDE DEF d
    <3> QED  BY <1>5, <3>1, <3>2
  <2> QED  BY <2>1, <2>2
<1>7. CASE FetchKey(t)
  <2>1. CASE Throw(t)
    BY <2>1, ThrowStep
  <2>2. CASE ~Throw(t)
    <3>1. PICK k : Goto(t, [c EXCEPT !.pc = "fillKey", !.key = k]) /\ UNCHANGED mutex
      BY <1>7, <2>2 DEF FetchKey
    <3> DEFINE d == [c EXCEPT !.pc = "fillKey", !.key = k]
    <3>2. d.pc = "fillKey" /\ {"pc", "goal"} \subseteq DOMAIN d /\ d.goal = c.goal
      BY <1>2
    <3>3. Goto(t, d)
      BY <3>1
    <3> HIDE DEF d
    <3> QED  BY <1>5, <3>1, <3>2, <3>3
  <2> QED  BY <2>1, <2>2
<1>8. CASE FillKey(t)
  BY <1>4, <1>8 DEF FillKey
<1> QED  BY <1>6, <1>7, <1>8

(* getSpaceNameAndVersionUniqueIdByVectorIndexId takes the index mutex      *)
(* unless the index is gone.                                                *)
LEMMA ByIndexSteps ==
    ASSUME ThreadInv, NEW t \in Threads, FindByIndex(t) \/ LockByIndex(t)
    PROVE  ThreadInv'
<1> DEFINE c == call[t]
<1>1. CallOK(c) /\ "pc" \in DOMAIN c
  BY DEF ThreadInv, CallOK
<1>2. Holds(c) = {}
  BY HoldsNothing DEF FindByIndex, LockByIndex, At, Unlocked
<1>3. CASE FindByIndex(t)
  <2> DEFINE d == [c EXCEPT !.pc = "lockByIndex"]
  <2>1. UNCHANGED mutex /\ (Goto(t, Idle) \/ Goto(t, d))
    BY <1>3 DEF FindByIndex
  <2>2. d.pc = "lockByIndex" /\ "pc" \in DOMAIN d
    BY <1>1, AtAnotherPlace
  <2> HIDE DEF d
  <2>3. CallOK(d)
    BY <2>2 DEF CallOK, Unlocked, ForDefault, ForVersion, ForKey
  <2>4. Holds(d) = {}
    BY <2>2, HoldsNothing DEF Unlocked
  <2> QED  BY <1>2, <2>1, <2>3, <2>4, IdleOK, KeepStep
<1>4. CASE LockByIndex(t)
  <2> DEFINE d == [pc |-> "findKey", version |-> index[c.index].version,
                   goal |-> "index", index |-> c.index, key |-> Nobody]
  <2>1. CASE Throw(t)
    BY <2>1, ThrowStep
  <2>2. CASE ~Throw(t)
    <3>1. Lock(t, "vectorIndex") /\ Goto(t, d)
      BY <1>4, <2>2 DEF LockByIndex
    <3>2. CallOK(d)
      BY DEF CallOK, HasGoal, Unlocked, ForDefault, ForVersion, ForKey
    <3>3. Holds(d) = {"vectorIndex"}
      BY HoldsForGoal DEF ForKey
    <3> HIDE DEF d
    <3> QED  BY <1>2, <3>1, <3>2, <3>3, LockStep DEF Mutexes
  <2> QED  BY <2>1, <2>2
<1> QED  BY <1>3, <1>4

(* getSpaceId holds its mutex within a step only.                           *)
LEMMA SpaceSteps ==
    ASSUME ThreadInv, NEW t \in Threads, FindSpace(t) \/ FetchSpace(t) \/ FillSpace(t)
    PROVE  ThreadInv'
<1> DEFINE c == call[t]
<1>1. CallOK(c) /\ "pc" \in DOMAIN c
  BY DEF ThreadInv, CallOK
<1>2. Holds(c) = {}
  BY HoldsNothing DEF FindSpace, FetchSpace, FillSpace, At, Unlocked
<1>3. CASE FindSpace(t)
  <2> DEFINE d == [c EXCEPT !.pc = "fetchSpace"]
  <2>1. UNCHANGED mutex /\ (Goto(t, Idle) \/ Goto(t, d))
    BY <1>3 DEF FindSpace
  <2>2. d.pc = "fetchSpace" /\ "pc" \in DOMAIN d
    BY <1>1, AtAnotherPlace
  <2> HIDE DEF d
  <2>3. CallOK(d)
    BY <2>2 DEF CallOK, Unlocked, ForDefault, ForVersion, ForKey
  <2>4. Holds(d) = {}
    BY <2>2, HoldsNothing DEF Unlocked
  <2> QED  BY <1>2, <2>1, <2>3, <2>4, IdleOK, KeepStep
<1>4. CASE FetchSpace(t)
  <2>1. CASE Throw(t)
    BY <2>1, ThrowStep
  <2>2. CASE ~Throw(t)
    <3>1. PICK s : Goto(t, [pc |-> "fillSpace", name |-> c.name, space |-> s]) /\ UNCHANGED mutex
      BY <1>4, <2>2 DEF FetchSpace
    <3> DEFINE d == [pc |-> "fillSpace", name |-> c.name, space |-> s]
    <3>2. CallOK(d)
      BY DEF CallOK, Unlocked, ForDefault, ForVersion, ForKey
    <3>3. Holds(d) = {}
      BY HoldsNothing DEF Unlocked
    <3>4. Goto(t, d)
      BY <3>1
    <3> HIDE DEF d
    <3> QED  BY <1>2, <3>1, <3>2, <3>3, <3>4, KeepStep
  <2> QED  BY <2>1, <2>2
<1>5. CASE FillSpace(t)
  BY <1>2, <1>5, IdleOK, KeepStep DEF FillSpace
<1> QED  BY <1>3, <1>4, <1>5

----------------------------------------------------------------------------
(* Cleaning and beginning a call. *)

(* clean() and clearSpaceNameCache() take the mutexes one by one and        *)
(* release them together.                                                   *)
LEMMA CleanSteps ==
    ASSUME ThreadInv, NEW t \in Threads, CleanStep(t)
    PROVE  ThreadInv'
<1> DEFINE c == call[t]
           left(s) == {s[x] : x \in 1..Len(s)}
           all == IF c.clears = "all" THEN Mutexes ELSE {"cache", "spaceId"}
<1>1. CallOK(c) /\ c.pc = "lock"
  BY DEF ThreadInv, CleanStep, LockNext, Clear, At
<1>2. /\ {"pc", "want", "clears", "next"} \subseteq DOMAIN c
      /\ \/ c.clears = "all"   /\ c.want \in ToClean
         \/ c.clears = "names" /\ c.want \in ToClear
      /\ "pc" \in DOMAIN c.next /\ c.next.pc \in {"idle", "commit"}
  BY <1>1 DEF CallOK
<1>3. Holds(c) = all \ left(c.want)
  BY <1>1, HoldsTaken
<1>4. CASE LockNext(t)
  <2> DEFINE m == Head(c.want)
             d == [c EXCEPT !.want = Tail(@)]
  <2>1. c.want # <<>> /\ Lock(t, m) /\ Goto(t, d)
    BY <1>4 DEF LockNext
  <2>2. /\ d.pc = "lock" /\ d.want = Tail(c.want) /\ d.clears = c.clears /\ d.next = c.next
        /\ {"pc", "want", "clears", "next"} \subseteq DOMAIN d
    BY <1>1, <1>2
  <2> DEFINE w == c.want
  <2>3. w \in ToClean \cup ToClear /\ w # <<>>
    BY <1>2, <2>1
  <2> HIDE DEF w
  <2>4. /\ Head(w) \in Mutexes /\ Head(w) \in left(w)
        /\ left(Tail(w)) = left(w) \ {Head(w)}
        /\ w \in ToClean => Tail(w) \in ToClean
        /\ w \in ToClear => Tail(w) \in ToClear /\ Head(w) \in {"cache", "spaceId"}
    BY <2>3, WantFacts
  <2>5. m = Head(w) /\ d.want = Tail(w) /\ c.want = w
    BY <2>2 DEF w
  <2> HIDE DEF d, m
  <2>6. CallOK(d)
    <3>1. d.pc = "lock" /\ {"want", "clears", "next"} \subseteq DOMAIN d /\ "pc" \in DOMAIN d
      BY <2>2
    <3>2. \/ d.clears = "all"   /\ d.want \in ToClean
          \/ d.clears = "names" /\ d.want \in ToClear
      BY <1>2, <2>2, <2>4, <2>5
    <3>3. "pc" \in DOMAIN d.next /\ d.next.pc \in {"idle", "commit"}
      BY <1>2, <2>2
    <3> QED  BY <3>1, <3>2, <3>3 DEF CallOK, ForDefault, ForVersion, ForKey
  <2>7. Holds(d) = all \ left(Tail(w))
    <3>1. Holds(d) = (IF d.clears = "all" THEN Mutexes ELSE {"cache", "spaceId"}) \ left(d.want)
      BY <2>2, HoldsTaken
    <3> HIDE DEF left
    <3> QED  BY <2>2, <2>5, <3>1
  <2>8. m \in all
    BY <1>2, <2>4, <2>5
  <2> HIDE DEF all, left
  <2>9. Holds(d) = Holds(call[t]) \cup {m}
    <3>1. Holds(d) = all \ (left(w) \ {m})
      BY <2>4, <2>5, <2>7
    <3>2. Holds(call[t]) = all \ left(w)
      BY <1>3, <2>5
    <3> QED  BY <2>8, <3>1, <3>2
  <2> QED  BY <2>1, <2>4, <2>5, <2>6, <2>9, LockStep
<1>5. CASE Clear(t)
  <2> DEFINE d == c.next
  <2>1. Goto(t, d) /\ UnlockAll(t)
    BY <1>5 DEF Clear
  <2>2. CallOK(d)
    BY <1>2 DEF CallOK, Unlocked, ForDefault, ForVersion, ForKey
  <2>3. Holds(d) = {}
    BY <1>2, HoldsNothing DEF Unlocked
  <2> QED  BY <2>1, <2>2, <2>3, UnlockAllStep
<1> QED  BY <1>4, <1>5 DEF CleanStep

(* A call that begins holds nothing.                                        *)
LEMMA BeginKeepsInv ==
    ASSUME ThreadInv, NEW t \in Threads, At(t, "idle"), NEW c, Goto(t, c), UNCHANGED mutex,
           CallOK(c), Holds(c) = {}
    PROVE  ThreadInv'
<1>1. Holds(call[t]) = {}
  BY HoldsNothing DEF At, Unlocked
<1> QED  BY <1>1, KeepStep

(* A call to clean() or clearSpaceNameCache() begins with no mutex.         *)
LEMMA CleaningOK ==
    ASSUME NEW next, "pc" \in DOMAIN next, next.pc \in {"idle", "commit"}
    PROVE  /\ CallOK(Cleaning(next)) /\ Holds(Cleaning(next)) = {}
           /\ CallOK(Clearing) /\ Holds(Clearing) = {}
<1> DEFINE left(s) == {s[x] : x \in 1..Len(s)}
<1>1. CallOK(Cleaning(next))
  BY DEF CallOK, Cleaning, ToClean, ForDefault, ForVersion, ForKey
<1>2. CallOK(Clearing)
  BY DEF CallOK, Clearing, ToClear, Idle, ForDefault, ForVersion, ForKey
<1>3. Holds(Cleaning(next)) = {}
  <2> DEFINE w == <<"cache", "spaceName", "vectorIndex", "spaceId">>
  <2>1. left(w) = Mutexes
    BY Elements DEF Mutexes
  <2>2. Cleaning(next).want = w /\ Cleaning(next).clears = "all" /\ Cleaning(next).pc = "lock"
    BY DEF Cleaning
  <2> HIDE DEF w
  <2>3. Holds(Cleaning(next)) = Mutexes \ left(w)
    BY <2>2, HoldsTaken
  <2> QED  BY <2>1, <2>3
<1>4. Holds(Clearing) = {}
  <2> DEFINE w == <<"cache", "spaceId">>
  <2>1. left(w) = {"cache", "spaceId"}
    BY Elements
  <2>2. Clearing.want = w /\ Clearing.clears = "names" /\ Clearing.pc = "lock"
    BY DEF Clearing
  <2> HIDE DEF w
  <2>3. Holds(Clearing) = {"cache", "spaceId"} \ left(w)
    BY <2>2, HoldsTaken
  <2> QED  BY <2>1, <2>3
<1> QED  BY <1>1, <1>2, <1>3, <1>4

(* Every call a host may begin begins without a mutex.                      *)
LEMMA BeginSteps ==
    ASSUME ThreadInv, NEW t \in Threads,
           \/ LookUpNames(t) \/ LookUpIds(t) \/ LookUpSpaces(t) \/ CleanCaches(t)
           \/ AddAVersion(t) \/ DeleteAVersion(t) \/ RemoveSpace(t)
    PROVE  ThreadInv'
<1>1. ASSUME NEW n, NEW u, NEW goal \in {"default", "version", "index"}
      PROVE  CallOK(FindByName(n, u, goal)) /\ Holds(FindByName(n, u, goal)) = {}
  <2> DEFINE find == [pc |-> "findDefault", name |-> n, goal |-> goal]
  <2>1. CASE u = 0
    <3>1. FindByName(n, u, goal) = find
      BY <2>1 DEF FindByName
    <3>2. CallOK(find)
      BY DEF CallOK, HasGoal, Unlocked, ForDefault, ForVersion, ForKey
    <3>3. Holds(find) = {}
      BY HoldsNothing DEF Unlocked
    <3> QED  BY <3>1, <3>2, <3>3
  <2>2. CASE u # 0
    BY <2>2, WithKeyOK DEF FindByName
  <2> QED  BY <2>1, <2>2
<1>2. CASE LookUpNames(t)
  <2>1. PICK n \in Names, u \in 0..MaxVersion, goal \in {"default", "version", "index"} :
          Goto(t, FindByName(n, u, goal)) /\ At(t, "idle") /\ UNCHANGED mutex
    BY <1>2, BoundsAssumption DEF LookUpNames, Calls
  <2> QED  BY <1>1, <2>1, BeginKeepsInv
<1>3. CASE LookUpIds(t)
  <2>1. PICK c \in {[pc |-> "findKey", version |-> v, goal |-> "key", key |-> Nobody] :
                       v \in 1..versionSeq}
                 \cup {[pc |-> "findByIndex", index |-> i] : i \in 1..indexSeq} :
          Goto(t, c) /\ At(t, "idle") /\ UNCHANGED mutex
    BY <1>3 DEF LookUpIds, Calls
  <2>2. \/ c.pc = "findKey" /\ {"pc", "goal"} \subseteq DOMAIN c /\ c.goal = "key"
        \/ c.pc = "findByIndex" /\ "pc" \in DOMAIN c
    OBVIOUS
  <2>3. CallOK(c)
    BY <2>2 DEF CallOK, HasGoal, Unlocked, ForDefault, ForVersion, ForKey
  <2>4. Holds(c) = {}
    BY <2>2, HoldsNothing, HoldsForGoal DEF Unlocked, ForKey
  <2> QED  BY <2>1, <2>3, <2>4, BeginKeepsInv
<1>4. CASE LookUpSpaces(t)
  <2>1. PICK n : Goto(t, [pc |-> "findSpace", name |-> n]) /\ At(t, "idle") /\ UNCHANGED mutex
    BY <1>4 DEF LookUpSpaces, Calls
  <2> DEFINE c == [pc |-> "findSpace", name |-> n]
  <2>2. CallOK(c)
    BY DEF CallOK, Unlocked, ForDefault, ForVersion, ForKey
  <2>3. Holds(c) = {}
    BY HoldsNothing DEF Unlocked
  <2> QED  BY <2>1, <2>2, <2>3, BeginKeepsInv
<1>5. "pc" \in DOMAIN Idle /\ Idle.pc \in {"idle", "commit"}
  BY DEF Idle
<1>6. CASE CleanCaches(t)
  <2>1. PICK c \in {Cleaning(Idle), Clearing} : Goto(t, c) /\ At(t, "idle") /\ UNCHANGED mutex
    BY <1>6 DEF CleanCaches, Calls
  <2>2. CallOK(c) /\ Holds(c) = {}
    BY <1>5, <2>1, CleaningOK
  <2> QED  BY <2>1, <2>2, BeginKeepsInv
<1>7. ASSUME NEW does, NEW id, At(t, "idle"), UNCHANGED mutex,
             Goto(t, Cleaning([pc |-> "commit", does |-> does, id |-> id]))
      PROVE  ThreadInv'
  <2> DEFINE next == [pc |-> "commit", does |-> does, id |-> id]
  <2>1. "pc" \in DOMAIN next /\ next.pc \in {"idle", "commit"}
    OBVIOUS
  <2> HIDE DEF next
  <2>2. CallOK(Cleaning(next)) /\ Holds(Cleaning(next)) = {}
    BY <2>1, CleaningOK
  <2>3. Goto(t, Cleaning(next))
    BY <1>7 DEF next
  <2> QED  BY <1>7, <2>2, <2>3, BeginKeepsInv
<1>8. CASE AddAVersion(t)
  <2>1. PICK s : /\ Goto(t, Cleaning([pc |-> "commit", does |-> "addVersion", id |-> s]))
                 /\ At(t, "idle") /\ UNCHANGED mutex
    BY <1>8 DEF AddAVersion, Calls
  <2> QED  BY <1>7, <2>1
<1>9. CASE DeleteAVersion(t)
  <2>1. PICK v : /\ Goto(t, Cleaning([pc |-> "commit", does |-> "deleteVersion", id |-> v]))
                 /\ At(t, "idle") /\ UNCHANGED mutex
    BY <1>9 DEF DeleteAVersion, Calls
  <2> QED  BY <1>7, <2>1
<1>10. CASE RemoveSpace(t)
  <2>1. Goto(t, Cleaning(Idle)) /\ At(t, "idle") /\ UNCHANGED mutex
    BY <1>10 DEF RemoveSpace
  <2>2. CallOK(Cleaning(Idle)) /\ Holds(Cleaning(Idle)) = {}
    BY <1>5, CleaningOK
  <2> QED  BY <2>1, <2>2, BeginKeepsInv
<1> QED  BY <1>2, <1>3, <1>4, <1>6, <1>8, <1>9, <1>10

(* The transaction of a manager call runs without a mutex.                  *)
LEMMA CommitStep ==
    ASSUME ThreadInv, NEW t \in Threads, Commit(t)
    PROVE  ThreadInv'
<1>1. Goto(t, Idle) /\ UNCHANGED mutex
  BY DEF Commit
<1>2. Holds(call[t]) = {}
  BY HoldsNothing DEF Commit, At, Unlocked
<1> QED  BY <1>1, <1>2, IdleOK, KeepStep

(* Where no thread moves, nothing changes hands.                            *)
LEMMA Unmoved ==
    ASSUME ThreadInv, UNCHANGED <<mutex, call>>
    PROVE  ThreadInv'
<1>1. mutex' = mutex /\ call' = call
  OBVIOUS
<1>2. (\A t \in Threads : CallOK(call[t]))' = \A t \in Threads : CallOK(call'[t])
  BY DEF CallOK, HasGoal
<1>3. (\A m \in Mutexes, t \in Threads : mutex[m] = t <=> m \in Holds(call[t]))'
        = \A m \in Mutexes, t \in Threads : mutex'[m] = t <=> m \in Holds(call'[t])
  BY DEF Holds, Mutexes
<1> QED  BY <1>1, <1>2, <1>3 DEF ThreadInv

(* No step of a call loses or invents a mutex.                              *)
LEMMA ThreadStep ==
    ASSUME ThreadInv, [ThreadNext]_threadVars
    PROVE  ThreadInv'
<1>1. CASE UNCHANGED threadVars
  BY <1>1, Unmoved DEF threadVars
<1>2. ASSUME NEW t \in Threads, LookupStep(t)
      PROVE  ThreadInv'
  BY <1>2, DefaultSteps, VersionSteps, IndexSteps, KeySteps, ByIndexSteps, SpaceSteps
     DEF LookupStep
<1>3. ASSUME NEW t \in Threads, Steps(t)
      PROVE  ThreadInv'
  BY <1>2, <1>3, CleanSteps, CommitStep DEF Steps
<1>4. ASSUME NEW t \in Threads, Insert(t)
      PROVE  ThreadInv'
  BY <1>4, Unmoved DEF Insert
<1>5. ASSUME AnyNext
      PROVE  ThreadInv'
  BY <1>3, <1>4, <1>5, BeginSteps DEF AnyNext
<1>6. ASSUME NamesNext
      PROVE  ThreadInv'
  BY <1>3, <1>4, <1>6, BeginSteps DEF NamesNext
<1> QED  BY <1>1, <1>5, <1>6 DEF ThreadNext

(* The invariant holds before any call.                                     *)
LEMMA ThreadStart == ThreadInit => ThreadInv
<1> SUFFICES ASSUME ThreadInit PROVE ThreadInv
  OBVIOUS
<1>1. \A t \in Threads : CallOK(call[t]) /\ Holds(call[t]) = {}
  BY IdleOK DEF ThreadInit
<1> QED  BY <1>1, NobodyIsNoThread DEF ThreadInit, ThreadInv

----------------------------------------------------------------------------
(* Every path out of a lookup or a cleaning call, thrown or returned,       *)
(* releases what it took (IdCacheImpl.cpp, all lock_guards).                *)
THEOREM MutexesCorrect == ThreadSpec => []MutexesMatchCalls
<1>1. ThreadInv => MutexesMatchCalls
  BY DEF ThreadInv, MutexesMatchCalls
<1>2. ThreadInv /\ [ThreadNext]_threadVars => ThreadInv'
  BY ThreadStep
<1> QED  BY ThreadStart, <1>1, <1>2, PTL DEF ThreadSpec

(* What a call that holds a mutex may be waiting for.                       *)
LEMMA HoldAndWait ==
    ASSUME NEW c, CallOK(c), NEW m \in Wants(c), Holds(c) # {}
    PROVE  \/ c.pc = "fetchVersion" /\ c.goal = "index" /\ m = "cache"
              /\ Holds(c) = {"vectorIndex"}
           \/ c.pc = "lock" /\ c.want # <<>> /\ m = Head(c.want)
              /\ m \notin Holds(c) /\ "cache" \in Holds(c)
<1>1. c.pc \in {"fetchDefault", "fetchVersion", "lockIndex", "lockByIndex", "findSpace",
                "fillSpace"} \/ (c.pc = "lock" /\ c.want # <<>>)
  BY DEF Wants
<1>2. c.pc \notin Unlocked
  BY HoldsNothing
<1>3. CASE c.pc = "fetchVersion"
  <2>1. "goal" \in DOMAIN c /\ m = "cache"
    BY <1>3 DEF CallOK, HasGoal, ForVersion, Wants
  <2> QED  BY <1>3, <2>1, HoldsForGoal
<1>4. CASE c.pc = "lock" /\ c.want # <<>>
  <2> DEFINE w == c.want
             left(s) == {s[x] : x \in 1..Len(s)}
             all == IF c.clears = "all" THEN Mutexes ELSE {"cache", "spaceId"}
  <2>1. m = Head(w)
    BY <1>4 DEF Wants
  <2>2. \/ c.clears = "all"   /\ w \in ToClean
        \/ c.clears = "names" /\ w \in ToClear
    BY <1>4 DEF CallOK
  <2>3. Holds(c) = all \ left(w)
    BY <1>4, HoldsTaken
  <2> HIDE DEF w
  <2>4. Head(w) \in left(w)
    BY <1>4, <2>2, WantFacts DEF w
  <2>5. "cache" \in all
    BY DEF Mutexes
  <2>6. "cache" \in Holds(c)
    <3>1. CASE w = <<"cache", "spaceName", "vectorIndex", "spaceId">>
      <4>1. left(w) = Mutexes
        BY <3>1, Elements DEF Mutexes
      <4> QED  BY <2>3, <4>1 DEF Mutexes
    <3>2. CASE w = <<"cache", "spaceId">>
      <4>1. left(w) = {"cache", "spaceId"}
        BY <3>2, Elements
      <4>2. c.clears = "names"
        BY <2>2, <3>2 DEF ToClean
      <4> QED  BY <2>3, <4>1, <4>2
    <3>3. CASE w \in {<<"spaceName", "vectorIndex", "spaceId">>,
                      <<"vectorIndex", "spaceId">>, <<"spaceId">>, <<>>}
      <4>1. left(w) \subseteq {"spaceName", "vectorIndex", "spaceId"}
        BY <3>3, Elements
      <4> HIDE DEF left, all
      <4> QED  BY <2>3, <2>5, <4>1
    <3> QED  BY <2>2, <3>1, <3>2, <3>3 DEF ToClean, ToClear
  <2> QED  BY <1>4, <2>1, <2>3, <2>4, <2>6 DEF w
<1> QED  BY <1>1, <1>2, <1>3, <1>4 DEF Unlocked

(* Nothing but the four mutexes is ever waited for.                         *)
LEMMA WantsMutexes ==
    ASSUME NEW c, CallOK(c)
    PROVE  Wants(c) \subseteq Mutexes
<1> SUFFICES ASSUME NEW m \in Wants(c)
             PROVE  m \in Mutexes
  OBVIOUS
<1>1. CASE c.pc = "lock" /\ c.want # <<>>
  <2>1. m = Head(c.want) /\ c.want \in ToClean \cup ToClear
    BY <1>1 DEF Wants, CallOK
  <2> QED  BY <1>1, <2>1, WantFacts
<1>2. CASE ~(c.pc = "lock" /\ c.want # <<>>)
  BY <1>2 DEF Wants, Mutexes
<1> QED  BY <1>1, <1>2

(* Two calls wait for each other in one case only: an index lookup inside   *)
(* vectorIndexCacheMutex (IdCacheImpl.cpp, getVectorIndexId) asks for       *)
(* cacheMutex while clean() asks for the two the other way round.           *)
THEOREM DeadlockCorrect == ThreadSpec => []OnlyIndexLookupDeadlocks
<1>1. ThreadInv => OnlyIndexLookupDeadlocks
  <2> SUFFICES ASSUME ThreadInv, NEW t \in Threads, NEW u \in Threads,
                      WaitsFor(t, u), WaitsFor(u, t)
               PROVE  \E a \in {t, u}, b \in {t, u} :
                        /\ At(a, "fetchVersion") /\ call[a].goal = "index"
                        /\ At(b, "lock") /\ Head(call[b].want) = "vectorIndex"
    BY DEF OnlyIndexLookupDeadlocks
  <2> DEFINE c == call[t]
             d == call[u]
  <2>1. CallOK(c) /\ CallOK(d)
    BY DEF ThreadInv
  <2>2. /\ \A k \in Mutexes : mutex[k] = t <=> k \in Holds(c)
        /\ \A k \in Mutexes : mutex[k] = u <=> k \in Holds(d)
    BY DEF ThreadInv
  <2>3. \A x : CallOK(x) => Wants(x) \subseteq Mutexes
    BY WantsMutexes
  <2>4. PICK m \in Wants(c) : mutex[m] = u
    BY DEF WaitsFor
  <2>5. PICK n \in Wants(d) : mutex[n] = t
    BY DEF WaitsFor
  <2>6. m \in Holds(d) /\ n \in Holds(c)
    BY <2>1, <2>2, <2>3, <2>4, <2>5
  <2> HIDE DEF c, d
  <2>7. \/ c.pc = "fetchVersion" /\ c.goal = "index" /\ m = "cache" /\ Holds(c) = {"vectorIndex"}
        \/ c.pc = "lock" /\ m = Head(c.want) /\ m \notin Holds(c) /\ "cache" \in Holds(c)
    BY <2>1, <2>6, HoldAndWait
  <2>8. \/ d.pc = "fetchVersion" /\ d.goal = "index" /\ n = "cache" /\ Holds(d) = {"vectorIndex"}
        \/ d.pc = "lock" /\ n = Head(d.want) /\ n \notin Holds(d) /\ "cache" \in Holds(d)
    BY <2>1, <2>6, HoldAndWait
  <2>9. ~("cache" \in Holds(c) /\ "cache" \in Holds(d) /\ m \notin Holds(c))
    <3>1. SUFFICES ASSUME "cache" \in Holds(c), "cache" \in Holds(d)
                   PROVE  m \in Holds(c)
      OBVIOUS
    <3>2. mutex["cache"] = t /\ mutex["cache"] = u
      BY <2>2, <3>1 DEF Mutexes
    <3>3. c = d
      BY <3>2 DEF c, d
    <3> QED  BY <2>6, <3>3
  <2>10. CASE c.pc = "fetchVersion" /\ c.goal = "index" /\ Holds(c) = {"vectorIndex"} /\ m = "cache"
    <3>1. n = "vectorIndex"
      BY <2>6, <2>10
    <3>2. d.pc = "lock" /\ Head(d.want) = "vectorIndex"
      BY <2>8, <3>1
    <3> QED  BY <2>10, <3>2 DEF At, c, d
  <2>11. CASE d.pc = "fetchVersion" /\ d.goal = "index" /\ Holds(d) = {"vectorIndex"} /\ n = "cache"
    <3>1. m = "vectorIndex"
      BY <2>6, <2>11
    <3>2. c.pc = "lock" /\ Head(c.want) = "vectorIndex"
      BY <2>7, <3>1
    <3> QED  BY <2>11, <3>2 DEF At, c, d
  <2> QED  BY <2>7, <2>8, <2>9, <2>10, <2>11
<1>2. ThreadInv /\ [ThreadNext]_threadVars => ThreadInv'
  BY ThreadStep
<1> QED  BY ThreadStart, <1>1, <1>2, PTL DEF ThreadSpec

----------------------------------------------------------------------------
(* What SomeCallEnds rests on, for every number of threads.                 *)

Waits(t) == \E u \in Threads : WaitsFor(t, u)

(* A call that holds a mutex and waits: it is an index lookup, or it is      *)
(* cleaning and has cacheMutex.                                             *)
LEMMA HolderWaits ==
    ASSUME ThreadInv, NEW u \in Threads, NEW k \in Mutexes, mutex[k] = u, Waits(u)
    PROVE  \E v \in Threads :
             /\ WaitsFor(u, v)
             /\ \/ At(u, "fetchVersion") /\ call[u].goal = "index" /\ k = "vectorIndex"
                   /\ mutex["cache"] = v
                \/ At(u, "lock") /\ mutex["cache"] = u
                   /\ \E m \in Mutexes : mutex[m] = v /\ m \notin Holds(call[u])
<1>1. PICK v \in Threads : WaitsFor(u, v)
  BY DEF Waits
<1>2. PICK m \in Wants(call[u]) : mutex[m] = v
  BY <1>1 DEF WaitsFor
<1> DEFINE c == call[u]
<1>3. CallOK(c) /\ \A x \in Mutexes : mutex[x] = u <=> x \in Holds(c)
  BY DEF ThreadInv
<1>4. k \in Holds(c) /\ m \in Wants(c) /\ m \in Mutexes
  BY <1>2, <1>3, WantsMutexes
<1>5. \/ c.pc = "fetchVersion" /\ c.goal = "index" /\ m = "cache" /\ Holds(c) = {"vectorIndex"}
      \/ c.pc = "lock" /\ m \notin Holds(c) /\ "cache" \in Holds(c)
  BY <1>3, <1>4, HoldAndWait
<1> HIDE DEF c
<1>6. CASE c.pc = "fetchVersion" /\ c.goal = "index" /\ m = "cache" /\ Holds(c) = {"vectorIndex"}
  BY <1>1, <1>2, <1>4, <1>6 DEF At, c
<1>7. CASE c.pc = "lock" /\ m \notin Holds(c) /\ "cache" \in Holds(c)
  <2>1. mutex["cache"] = u
    BY <1>3, <1>7 DEF Mutexes
  <2> QED  BY <1>1, <1>2, <1>4, <1>7, <2>1 DEF At, c
<1> QED  BY <1>5, <1>6, <1>7

(* However many threads are inside calls, they do not all wait, in any       *)
(* circle, unless getVectorIndexId and clean() wait for each other: one of   *)
(* them has all the mutexes its next step takes.                             *)
NotAllWait ==
    (\E t \in Threads : ~At(t, "idle"))
    => LookupBlocksClean \/ \E t \in Threads : ~At(t, "idle") /\ ~Waits(t)

THEOREM SomeCallIsFree == ThreadSpec => []NotAllWait
<1>1. ThreadInv => NotAllWait
  <2> SUFFICES ASSUME ThreadInv,
                      NEW t \in Threads, ~At(t, "idle"),
                      \A x \in Threads : ~At(x, "idle") => Waits(x)
               PROVE  LookupBlocksClean
    BY DEF NotAllWait
  <2>1. \A k \in Mutexes, x \in Threads : mutex[k] = x => Waits(x)
    <3> SUFFICES ASSUME NEW k \in Mutexes, NEW x \in Threads, mutex[k] = x
                 PROVE  ~At(x, "idle")
      OBVIOUS
    <3>1. Holds(call[x]) # {}
      BY DEF ThreadInv
    <3> QED  BY <3>1, HoldsNothing DEF At, Unlocked
  (* Somebody holds what t waits for; a waiting holder leads to a cleaner.  *)
  <2>2. \E c \in Threads : At(c, "lock") /\ mutex["cache"] = c /\ Waits(c)
    <3>1. PICK u \in Threads : WaitsFor(t, u)
      BY DEF Waits
    <3>2. PICK k \in Mutexes : mutex[k] = u
      BY <3>1, WantsMutexes DEF WaitsFor, ThreadInv
    <3>3. CASE At(u, "lock") /\ mutex["cache"] = u
      BY <2>1, <3>2, <3>3
    <3>4. CASE ~(At(u, "lock") /\ mutex["cache"] = u)
      <4>1. PICK v \in Threads : mutex["cache"] = v
        BY <2>1, <3>2, <3>4, HolderWaits
      <4>2. "cache" \in Mutexes
        BY DEF Mutexes
      <4>3. Waits(v) /\ "cache" # "vectorIndex"
        BY <2>1, <4>1, <4>2
      <4>4. At(v, "lock")
        BY <4>1, <4>2, <4>3, HolderWaits
      <4> QED  BY <4>1, <4>3, <4>4
    <3> QED  BY <3>3, <3>4
  <2>3. PICK c \in Threads : At(c, "lock") /\ mutex["cache"] = c /\ Waits(c)
    BY <2>2
  (* What the cleaner waits for is held by a lookup that waits for it.      *)
  <2>4. PICK w \in Threads, m \in Mutexes :
          WaitsFor(c, w) /\ mutex[m] = w /\ m \notin Holds(call[c])
    <3>1. "cache" \in Mutexes /\ ~At(c, "fetchVersion")
      BY <2>3 DEF Mutexes, At
    <3> QED  BY <2>3, <3>1, HolderWaits
  <2>5. w # c
    BY <2>4 DEF ThreadInv
  <2>6. PICK v \in Threads :
          WaitsFor(w, v) /\ At(w, "fetchVersion") /\ call[w].goal = "index" /\ mutex["cache"] = v
    BY <2>1, <2>3, <2>4, <2>5, HolderWaits
  <2> QED  BY <2>3, <2>4, <2>6 DEF LookupBlocksClean
<1>2. ThreadInv /\ [ThreadNext]_threadVars => ThreadInv'
  BY ThreadStep
<1> QED  BY ThreadStart, <1>1, <1>2, PTL DEF ThreadSpec

(* The steps a call has left at the most.                                   *)
Left(c) ==
    CASE c.pc = "findDefault"  -> 20
      [] c.pc = "fetchDefault" -> 19
      [] c.pc = "fillDefault"  -> 18
      [] c.pc = "findIndex"    -> 17
      [] c.pc = "lockIndex"    -> 16
      [] c.pc = "findVersion"  -> 15
      [] c.pc = "fetchVersion" -> 14
      [] c.pc = "fillVersion"  -> 13
      [] c.pc = "findByIndex"  -> 12
      [] c.pc = "lockByIndex"  -> 11
      [] c.pc = "findKey"      -> 10
      [] c.pc = "fetchKey"     -> 9
      [] c.pc = "fillKey"      -> 8
      [] c.pc = "fetchIndex"   -> 7
      [] c.pc = "fillIndex"    -> 6
      [] c.pc = "findSpace"    -> 5
      [] c.pc = "fetchSpace"   -> 4
      [] c.pc = "fillSpace"    -> 3
      [] c.pc = "lock"         -> 2 + Len(c.want)
      [] c.pc = "commit"       -> 1
      [] c.pc = "idle"         -> 0

Shorter(c, d) == Left(d) \in 0..(Left(c) - 1)

(* Left, place by place.                                                    *)
LEMMA LeftIs ==
    ASSUME NEW c
    PROVE  /\ c.pc = "lock" => Left(c) = 2 + Len(c.want)
           /\ c.pc = "findDefault" => Left(c) = 20
           /\ c.pc = "fetchDefault" => Left(c) = 19
           /\ c.pc = "fillDefault" => Left(c) = 18
           /\ c.pc = "findIndex" => Left(c) = 17
           /\ c.pc = "lockIndex" => Left(c) = 16
           /\ c.pc = "findVersion" => Left(c) = 15
           /\ c.pc = "fetchVersion" => Left(c) = 14
           /\ c.pc = "fillVersion" => Left(c) = 13
           /\ c.pc = "findByIndex" => Left(c) = 12
           /\ c.pc = "lockByIndex" => Left(c) = 11
           /\ c.pc = "findKey" => Left(c) = 10
           /\ c.pc = "fetchKey" => Left(c) = 9
           /\ c.pc = "fillKey" => Left(c) = 8
           /\ c.pc = "fetchIndex" => Left(c) = 7
           /\ c.pc = "fillIndex" => Left(c) = 6
           /\ c.pc = "findSpace" => Left(c) = 5
           /\ c.pc = "fetchSpace" => Left(c) = 4
           /\ c.pc = "fillSpace" => Left(c) = 3
           /\ c.pc = "commit" => Left(c) = 1
           /\ c.pc = "idle" => Left(c) = 0
BY DEF Left

(* A step of one call shortens that call, and leaves the others.            *)
LEMMA ShortensOne ==
    ASSUME ThreadInv, NEW t \in Threads, NEW d, Goto(t, d), Shorter(call[t], d)
    PROVE  \A u \in Threads : call'[u] # call[u] => Shorter(call[u], call'[u])
<1>1. call'[t] = d /\ \A u \in Threads : u # t => call'[u] = call[u]
  BY DEF Goto, ThreadInv
<1> QED  BY <1>1

(* The lookups go one way, through their finds, fetches and fills.          *)
LEMMA LookupShortens ==
    ASSUME ThreadInv, NEW t \in Threads, LookupStep(t)
    PROVE  \E d : Goto(t, d) /\ Shorter(call[t], d)
<1> DEFINE c == call[t]
           Goal == \E d : Goto(t, d) /\ Shorter(c, d)
<1>0. CallOK(c)
  BY DEF ThreadInv
<1>i. Idle.pc = "idle"
  BY DEF Idle
<1> HIDE DEF c
<1>g. ASSUME NEW d, Goto(t, d), Shorter(c, d) PROVE Goal
  BY <1>g
<1>t. ASSUME Throw(t), c.pc \in {"fetchDefault", "fetchVersion", "fetchIndex", "fetchKey",
                                  "lockByIndex", "fetchSpace"}
      PROVE  Goal
  BY <1>g, <1>i, <1>t, LeftIs DEF Throw, Shorter
<1> HIDE DEF Goal
<1>k. \A k, goal : goal \in {"default", "version", "index"} =>
        LET d == WithKey(k, goal) IN d.pc \in {"idle", "findVersion", "findIndex"}
  BY DEF WithKey, Idle
<1>v. \A v : HasGoal(c, {"version", "index"}) => WithVersion(c, v).pc \in {"idle", "fetchIndex"}
  BY DEF WithVersion, Idle, HasGoal
<1>w. \A k : HasGoal(c, {"key", "index"}) => WithVersionKey(c, k).pc \in {"idle", "fillIndex"}
  BY DEF WithVersionKey, Idle, HasGoal
<1>1. ASSUME FindDefault(t) \/ FetchDefault(t) \/ FillDefault(t) PROVE Goal
  <2>0. c.pc \in ForDefault => c.goal \in {"default", "version", "index"}
    BY <1>0 DEF CallOK, HasGoal
  <2>1. CASE FindDefault(t)
    <3>1. PICK d : Goto(t, d) /\ d.pc \in {"idle", "findVersion", "findIndex", "fetchDefault"}
      BY <1>0, <1>k, <2>0, <2>1 DEF FindDefault, At, c, ForDefault, CallOK
    <3> QED  BY <1>g, <2>1, <3>1, LeftIs DEF FindDefault, At, c, Shorter
  <2>2. CASE FetchDefault(t)
    <3>1. Throw(t) \/ \E k : Goto(t, [pc |-> "fillDefault", key |-> k, goal |-> c.goal])
      BY <2>2 DEF FetchDefault, c
    <3>2. c.pc = "fetchDefault"
      BY <2>2 DEF FetchDefault, At, c
    <3>3. ASSUME NEW d, Goto(t, d), d.pc = "fillDefault" PROVE Goal
      BY <1>g, <3>2, <3>3, LeftIs DEF Shorter
    <3> QED  BY <1>t, <3>1, <3>2, <3>3
  <2>3. CASE FillDefault(t)
    <3>1. PICK d : Goto(t, d) /\ d.pc \in {"idle", "findVersion", "findIndex"}
      BY <1>k, <2>0, <2>3 DEF FillDefault, At, c, ForDefault
    <3> QED  BY <1>g, <2>3, <3>1, LeftIs DEF FillDefault, At, c, Shorter
  <2> QED  BY <1>1, <2>1, <2>2, <2>3
<1>2. ASSUME FindVersion(t) \/ FetchVersion(t) \/ FillVersion(t) PROVE Goal
  <2>0. c.pc \in ForVersion => HasGoal(c, {"version", "index"})
    BY <1>0 DEF CallOK
  <2>1. CASE FindVersion(t)
    <3>1. PICK d : Goto(t, d) /\ d.pc \in {"idle", "fetchIndex", "fetchVersion"}
      BY <1>0, <1>v, <2>0, <2>1 DEF FindVersion, At, c, ForVersion, CallOK
    <3> QED  BY <1>g, <2>1, <3>1, LeftIs DEF FindVersion, At, c, Shorter
  <2>2. CASE FetchVersion(t)
    <3>1. \/ Throw(t)
          \/ \E v : Goto(t, [pc |-> "fillVersion", key |-> c.key, version |-> v, goal |-> c.goal])
      BY <2>2 DEF FetchVersion, c
    <3>2. c.pc = "fetchVersion"
      BY <2>2 DEF FetchVersion, At, c
    <3>3. ASSUME NEW d, Goto(t, d), d.pc = "fillVersion" PROVE Goal
      BY <1>g, <3>2, <3>3, LeftIs DEF Shorter
    <3> QED  BY <1>t, <3>1, <3>2, <3>3
  <2>3. CASE FillVersion(t)
    <3>1. PICK d : Goto(t, d) /\ d.pc \in {"idle", "fetchIndex"}
      BY <1>v, <2>0, <2>3 DEF FillVersion, At, c, ForVersion
    <3> QED  BY <1>g, <2>3, <3>1, LeftIs DEF FillVersion, At, c, Shorter
  <2> QED  BY <1>2, <2>1, <2>2, <2>3
<1>3. ASSUME FindIndex(t) \/ LockIndex(t) \/ FetchIndex(t) \/ FillIndex(t) PROVE Goal
  <2>1. CASE FindIndex(t)
    <3>1. PICK d : Goto(t, d) /\ d.pc \in {"idle", "lockIndex"}
      BY <1>i, <2>1 DEF FindIndex
    <3> QED  BY <1>g, <2>1, <3>1, LeftIs DEF FindIndex, At, c, Shorter
  <2>2. CASE LockIndex(t)
    <3>1. PICK d : Goto(t, d) /\ d.pc = "findVersion"
      BY <2>2 DEF LockIndex
    <3> QED  BY <1>g, <2>2, <3>1, LeftIs DEF LockIndex, At, c, Shorter
  <2>3. CASE FetchIndex(t)
    <3>1. Throw(t) \/ \E i : Goto(t, [pc |-> "fillIndex", key |-> c.key, index |-> i])
      BY <2>3 DEF FetchIndex, c
    <3>2. c.pc = "fetchIndex"
      BY <2>3 DEF FetchIndex, At, c
    <3>3. ASSUME NEW d, Goto(t, d), d.pc = "fillIndex" PROVE Goal
      BY <1>g, <3>2, <3>3, LeftIs DEF Shorter
    <3> QED  BY <1>t, <3>1, <3>2, <3>3
  <2>4. CASE FillIndex(t)
    BY <1>g, <1>i, <2>4, LeftIs DEF FillIndex, At, c, Shorter
  <2> QED  BY <1>3, <2>1, <2>2, <2>3, <2>4
<1>4. ASSUME FindKey(t) \/ FetchKey(t) \/ FillKey(t) PROVE Goal
  <2>0. c.pc \in ForKey => HasGoal(c, {"key", "index"})
    BY <1>0 DEF CallOK
  <2>1. CASE FindKey(t)
    <3>1. PICK d : Goto(t, d) /\ d.pc \in {"idle", "fillIndex", "fetchKey"}
      BY <1>0, <1>w, <2>0, <2>1 DEF FindKey, At, c, ForKey, CallOK
    <3> QED  BY <1>g, <2>1, <3>1, LeftIs DEF FindKey, At, c, Shorter
  <2>2. CASE FetchKey(t)
    <3>1. Throw(t) \/ \E k : Goto(t, [c EXCEPT !.pc = "fillKey", !.key = k])
      BY <2>2 DEF FetchKey, c
    <3>2. c.pc = "fetchKey" /\ \A k : [c EXCEPT !.pc = "fillKey", !.key = k].pc = "fillKey"
      BY <1>0, <2>2 DEF FetchKey, At, c, CallOK
    <3>3. ASSUME NEW d, Goto(t, d), d.pc = "fillKey" PROVE Goal
      BY <1>g, <3>2, <3>3, LeftIs DEF Shorter
    <3> QED  BY <1>t, <3>1, <3>2, <3>3
  <2>3. CASE FillKey(t)
    <3>1. PICK d : Goto(t, d) /\ d.pc \in {"idle", "fillIndex"}
      BY <1>w, <2>0, <2>3 DEF FillKey, At, c, ForKey
    <3> QED  BY <1>g, <2>3, <3>1, LeftIs DEF FillKey, At, c, Shorter
  <2> QED  BY <1>4, <2>1, <2>2, <2>3
<1>5. ASSUME FindByIndex(t) \/ LockByIndex(t) PROVE Goal
  <2>1. CASE FindByIndex(t)
    <3>1. PICK d : Goto(t, d) /\ d.pc \in {"idle", "lockByIndex"}
      BY <1>0, <1>i, <2>1 DEF FindByIndex, c, CallOK
    <3> QED  BY <1>g, <2>1, <3>1, LeftIs DEF FindByIndex, At, c, Shorter
  <2>2. CASE LockByIndex(t)
    <3>1. PICK d : Goto(t, d) /\ d.pc \in {"idle", "findKey"}
      BY <1>i, <2>2 DEF LockByIndex, Throw
    <3> QED  BY <1>g, <2>2, <3>1, LeftIs DEF LockByIndex, At, c, Shorter
  <2> QED  BY <1>5, <2>1, <2>2
<1>6. ASSUME FindSpace(t) \/ FetchSpace(t) \/ FillSpace(t) PROVE Goal
  <2>1. CASE FindSpace(t)
    <3>1. PICK d : Goto(t, d) /\ d.pc \in {"idle", "fetchSpace"}
      BY <1>0, <1>i, <2>1 DEF FindSpace, c, CallOK
    <3> QED  BY <1>g, <2>1, <3>1, LeftIs DEF FindSpace, At, c, Shorter
  <2>2. CASE FetchSpace(t)
    <3>1. Throw(t) \/ \E n, x : Goto(t, [pc |-> "fillSpace", name |-> n, space |-> x])
      BY <2>2 DEF FetchSpace
    <3>2. c.pc = "fetchSpace"
      BY <2>2 DEF FetchSpace, At, c
    <3>3. ASSUME NEW d, Goto(t, d), d.pc = "fillSpace" PROVE Goal
      BY <1>g, <3>2, <3>3, LeftIs DEF Shorter
    <3> QED  BY <1>t, <3>1, <3>2, <3>3
  <2>3. CASE FillSpace(t)
    BY <1>g, <1>i, <2>3, LeftIs DEF FillSpace, At, c, Shorter
  <2> QED  BY <1>6, <2>1, <2>2, <2>3
<1>7. Goal
  BY <1>1, <1>2, <1>3, <1>4, <1>5, <1>6 DEF LookupStep
<1> QED  BY <1>7 DEF Goal, c

(* clean() takes each mutex once.                                           *)
LEMMA CleanShortens ==
    ASSUME ThreadInv, NEW t \in Threads, CleanStep(t)
    PROVE  \E d : Goto(t, d) /\ Shorter(call[t], d)
<1> DEFINE c == call[t]
<1>0. CallOK(c) /\ c.pc = "lock"
  BY DEF ThreadInv, CleanStep, LockNext, Clear, At
<1>1. /\ c.pc = "lock" /\ {"pc", "want", "next"} \subseteq DOMAIN c
      /\ c.want \in ToClean \cup ToClear /\ c.next.pc \in {"idle", "commit"}
  BY <1>0 DEF CallOK
<1>2. Len(c.want) \in 0..4 /\ (c.want # <<>> => Len(Tail(c.want)) = Len(c.want) - 1)
  BY <1>1 DEF ToClean, ToClear
<1>3. CASE LockNext(t)
  <2>1. PICK d : Goto(t, d) /\ d = [c EXCEPT !.want = Tail(@)] /\ c.want # <<>>
    BY <1>3 DEF LockNext
  <2>2. d.pc = "lock" /\ d.want = Tail(c.want)
    BY <1>1, <2>1
  <2> QED  BY <1>1, <1>2, <2>1, <2>2, LeftIs DEF Shorter
<1>4. CASE Clear(t)
  <2>1. Goto(t, c.next)
    BY <1>4 DEF Clear
  <2> QED  BY <1>1, <1>2, <2>1, LeftIs DEF Shorter
<1> QED  BY <1>3, <1>4 DEF CleanStep

(* No call goes round: each of its steps, whatever the other threads did to  *)
(* the caches and the tables in between, brings it nearer to its end, which  *)
(* is twenty steps away at the most.                                        *)
THEOREM CallsShorten ==
    ThreadSpec => [][\A t \in Threads :
        ~At(t, "idle") /\ call'[t] # call[t] => Left(call'[t]) \in 0..(Left(call[t]) - 1)]_threadVars
<1>1. ThreadInv /\ [ThreadNext]_threadVars
        => [\A t \in Threads :
              ~At(t, "idle") /\ call'[t] # call[t]
              => Left(call'[t]) \in 0..(Left(call[t]) - 1)]_threadVars
  <2> DEFINE Goal == \A t \in Threads :
               ~At(t, "idle") /\ call'[t] # call[t] => Shorter(call[t], call'[t])
  <2> SUFFICES ASSUME ThreadInv, ThreadNext PROVE Goal
    BY DEF Shorter
  <2>1. ASSUME NEW t \in Threads, NEW d, Goto(t, d), At(t, "idle") PROVE Goal
    BY <2>1 DEF Goto, ThreadInv
  <2>2. ASSUME NEW t \in Threads, Steps(t) PROVE Goal
    <3>1. CASE Commit(t)
      <4>1. Goto(t, Idle) /\ call[t].pc = "commit"
        BY <3>1 DEF Commit, At
      <4>2. Shorter(call[t], Idle)
        BY <4>1, LeftIs DEF Shorter, Idle
      <4> QED  BY <4>1, <4>2, ShortensOne
    <3>2. CASE LookupStep(t)
      BY <3>2, LookupShortens, ShortensOne
    <3>3. CASE CleanStep(t)
      BY <3>3, CleanShortens, ShortensOne
    <3> QED  BY <2>2, <3>1, <3>2, <3>3 DEF Steps
  <2>3. ASSUME NEW t \in Threads, NEW C, Calls(t, C) PROVE Goal
    BY <2>1, <2>3 DEF Calls
  <2>4. ASSUME NEW t \in Threads, Insert(t) PROVE Goal
    BY <2>4 DEF Insert
  <2>5. ASSUME NEW t \in Threads, RemoveSpace(t) PROVE Goal
    BY <2>1, <2>5 DEF RemoveSpace
  <2>6. ASSUME NEW t \in Threads,
               LookUpNames(t) \/ LookUpIds(t) \/ LookUpSpaces(t) \/ CleanCaches(t)
                 \/ AddAVersion(t) \/ DeleteAVersion(t)
        PROVE  Goal
    BY <2>3, <2>6
       DEF LookUpNames, LookUpIds, LookUpSpaces, CleanCaches, AddAVersion, DeleteAVersion
  <2> QED  BY <2>2, <2>4, <2>5, <2>6 DEF ThreadNext, AnyNext, NamesNext
<1>2. ThreadInv /\ [ThreadNext]_threadVars => ThreadInv'
  BY ThreadStep
<1> QED  BY ThreadStart, <1>1, <1>2, PTL DEF ThreadSpec

----------------------------------------------------------------------------
(* Lookups by name and deletions of spaces (workload "names").              *)

IsPair(k) == k = <<k[1], k[2]>>

(* Where such a call may be, and what it has in hand there. *)
WithKeyInHand == {"fillDefault", "findVersion", "fetchVersion", "fillVersion", "findIndex",
                  "lockIndex", "fetchIndex", "fillIndex"}
NamesPc   == {"idle", "findDefault", "fetchDefault", "lock", "commit"} \cup WithKeyInHand
ForAdd(c) == c.pc = "commit" => c.does = "addVersion" /\ c.id \in 1..spaceSeq
NamesCall(c) ==
    /\ c.pc \in NamesPc
    /\ c.pc \in WithKeyInHand => {"pc", "key"} \subseteq DOMAIN c /\ IsPair(c.key)
    /\ ForAdd(c)
    /\ c.pc = "lock" => ForAdd(c.next)

(* What a call has read and is about to fill in is current. *)
Pending(c) ==
    /\ c.pc \in {"fillVersion", "fetchIndex"} => c.version \in VersionsAt(c.key)
    /\ c.pc = "fillIndex" =>
         c.index \in DOMAIN index /\ c.key \in KeysOf(index[c.index].version)

Answers == VersionLookupsCurrent /\ IndexLookupsCurrent

NamesInv ==
    workload = "names" =>
        /\ CatalogTypeOK /\ SpacesIssued
        /\ \A t \in Threads : NamesCall(call[t])
        /\ CleanComing \/ (Answers /\ \A t \in Threads : Pending(call[t]))

(* One thread moves. *)
LEMMA Moved ==
    ASSUME ThreadInv, NEW t \in Threads, NEW c, Goto(t, c)
    PROVE  call'[t] = c /\ \A u \in Threads : u # t => call'[u] = call[u]
BY DEF ThreadInv, Goto

(* Where a call has neither a key nor a commit in hand. *)
LEMMA EmptyHanded ==
    ASSUME NEW c, c.pc \in {"idle", "findDefault", "fetchDefault"}
    PROVE  NamesCall(c) /\ Pending(c)
BY DEF NamesCall, NamesPc, WithKeyInHand, ForAdd, Pending

(* Where it has a key and nothing read for it yet. *)
LEMMA KeyInHand ==
    ASSUME NEW c, c.pc \in {"fillDefault", "findVersion", "fetchVersion", "findIndex", "lockIndex"},
           {"pc", "key"} \subseteq DOMAIN c, IsPair(c.key)
    PROVE  NamesCall(c) /\ Pending(c)
BY DEF NamesCall, NamesPc, WithKeyInHand, ForAdd, Pending

(* Where it has read a version for its key. *)
LEMMA VersionInHand ==
    ASSUME NEW c, c.pc \in {"fillVersion", "fetchIndex"},
           {"pc", "key"} \subseteq DOMAIN c, IsPair(c.key)
    PROVE  NamesCall(c) /\ (c.version \in VersionsAt(c.key) => Pending(c))
BY DEF NamesCall, NamesPc, WithKeyInHand, ForAdd, Pending

(* The lookup that follows a default. *)
LEMMA WithKeyPlaced ==
    ASSUME NEW k, IsPair(k), NEW goal \in {"default", "version", "index"}
    PROVE  NamesCall(WithKey(k, goal)) /\ Pending(WithKey(k, goal))
<1> DEFINE find == [pc |-> "findVersion", key |-> k, goal |-> goal]
           same == [pc |-> "findIndex", key |-> k]
<1>1. NamesCall(find) /\ Pending(find)
  BY KeyInHand
<1>2. NamesCall(same) /\ Pending(same)
  BY KeyInHand
<1>3. NamesCall(Idle) /\ Pending(Idle)
  BY EmptyHanded DEF Idle
<1>4. WithKey(k, goal) \in {find, same, Idle}
  BY DEF WithKey
<1> QED  BY <1>1, <1>2, <1>3, <1>4

(* The lookup that follows a version. *)
LEMMA WithVersionPlaced ==
    ASSUME NEW c, NEW v, IsPair(c.key)
    PROVE  NamesCall(WithVersion(c, v)) /\ (v \in VersionsAt(c.key) => Pending(WithVersion(c, v)))
<1> DEFINE fetch == [pc |-> "fetchIndex", key |-> c.key, version |-> v]
<1>1. NamesCall(fetch) /\ (v \in VersionsAt(c.key) => Pending(fetch))
  BY VersionInHand
<1>2. NamesCall(Idle) /\ Pending(Idle)
  BY EmptyHanded DEF Idle
<1> QED  BY <1>1, <1>2 DEF WithVersion

(* The same call at another place, with the same key. *)
LEMMA SameKey ==
    ASSUME NEW c, {"pc", "key"} \subseteq DOMAIN c, NEW p
    PROVE  LET d == [c EXCEPT !.pc = p]
           IN  d.pc = p /\ {"pc", "key"} \subseteq DOMAIN d /\ d.key = c.key
OBVIOUS

(* A fill of what is current leaves the map current. *)
LEMMA FilledVersion ==
    ASSUME VersionLookupsCurrent, UNCHANGED catalogVars, NEW v, NEW k, IsPair(k),
           v \in VersionsAt(k), CacheVersion(v, k)
    PROVE  VersionLookupsCurrent'
<1>1. (\A j : VersionsAt(j)' = VersionsAt(j)) /\ (\A w : KeysOf(w)' = KeysOf(w))
  BY DEF catalogVars, VersionsAt, VersionsNamed, VersionsOf, SpacesNamed, KeysOf
<1>2. k \in KeysOf(v)
  BY BothDirections DEF IsPair
<1>3. \A j \in DOMAIN forwardCache' : forwardCache'[j] \in VersionsAt(j)
  BY DEF CacheVersion, Put, VersionLookupsCurrent
<1>4. \A w \in DOMAIN reverseCache' : reverseCache'[w] \in KeysOf(w)
  BY <1>2 DEF CacheVersion, Put, VersionLookupsCurrent
<1> QED  BY <1>1, <1>3, <1>4 DEF VersionLookupsCurrent

(* Each step of a lookup by name: it goes where it should, and what it      *)
(* reads or fills in is current if the maps and what it held were.          *)
Goes(t, c) ==
    /\ Goto(t, c) /\ NamesCall(c)
    /\ Answers /\ Pending(call[t]) => Answers' /\ Pending(c)

(* getDefaultUniqueVersionId fills its own map only. *)
LEMMA NamesDefault ==
    ASSUME ThreadInv, NEW t \in Threads, NamesCall(call[t]),
           FindDefault(t) \/ FetchDefault(t) \/ FillDefault(t)
    PROVE  \E c : Goes(t, c)
<1> DEFINE c == call[t]
<1>1. CallOK(c)
  BY DEF ThreadInv
<1>2. c.pc \in ForDefault => c.goal \in {"default", "version", "index"}
  BY <1>1 DEF CallOK, HasGoal
<1>3. "pc" \in DOMAIN c
  BY <1>1 DEF CallOK
<1>4. Answers => Answers'
  BY SameLookups
     DEF FindDefault, FetchDefault, FillDefault, vars, cacheVars, versionCaches, indexCaches, Answers
<1>5. SUFFICES \E d : Goto(t, d) /\ NamesCall(d) /\ Pending(d)
  BY <1>4 DEF Goes
<1>6. NamesCall(Idle) /\ Pending(Idle)
  BY EmptyHanded DEF Idle
<1>7. CASE FindDefault(t)
  <2>1. c.pc = "findDefault"
    BY <1>7 DEF FindDefault, At
  <2>2. CASE c.name \in DOMAIN spaceNameCache
    <3> DEFINE k == <<c.name, spaceNameCache[c.name]>>
    <3>1. Goto(t, WithKey(k, c.goal))
      BY <1>7, <2>2 DEF FindDefault
    <3>2. IsPair(k)
      BY DEF IsPair
    <3> HIDE DEF k
    <3> QED  BY <1>2, <2>1, <3>1, <3>2, WithKeyPlaced DEF ForDefault
  <2>3. CASE c.name \notin DOMAIN spaceNameCache
    <3> DEFINE d == [c EXCEPT !.pc = "fetchDefault"]
    <3>1. Goto(t, d)
      BY <1>7, <2>3 DEF FindDefault
    <3>2. d.pc = "fetchDefault"
      BY <1>3, AtAnotherPlace
    <3> HIDE DEF d
    <3> QED  BY <3>1, <3>2, EmptyHanded
  <2> QED  BY <2>2, <2>3
<1>8. CASE FetchDefault(t)
  <2>1. CASE Throw(t)
    BY <1>6, <2>1 DEF Throw
  <2>2. CASE ~Throw(t)
    <3>1. PICK u : Goto(t, [pc |-> "fillDefault", key |-> <<c.name, u>>, goal |-> c.goal])
      BY <1>8, <2>2 DEF FetchDefault
    <3> DEFINE d == [pc |-> "fillDefault", key |-> <<c.name, u>>, goal |-> c.goal]
    <3>2. d.pc = "fillDefault" /\ {"pc", "key"} \subseteq DOMAIN d /\ IsPair(d.key)
      BY DEF IsPair
    <3>3. Goto(t, d)
      BY <3>1
    <3> HIDE DEF d
    <3> QED  BY <3>2, <3>3, KeyInHand
  <2> QED  BY <2>1, <2>2
<1>9. CASE FillDefault(t)
  <2>1. c.pc = "fillDefault" /\ Goto(t, WithKey(c.key, c.goal))
    BY <1>9 DEF FillDefault, At
  <2>2. IsPair(c.key)
    BY <2>1 DEF NamesCall, WithKeyInHand
  <2> QED  BY <1>2, <2>1, <2>2, WithKeyPlaced DEF ForDefault
<1> QED  BY <1>7, <1>8, <1>9

(* getVersionId answers from a current entry or fills in what it has read.  *)
LEMMA NamesVersion ==
    ASSUME ThreadInv, NEW t \in Threads, NamesCall(call[t]),
           FindVersion(t) \/ FetchVersion(t) \/ FillVersion(t)
    PROVE  \E c : Goes(t, c)
<1> DEFINE c == call[t]
<1>1. c.pc \in {"findVersion", "fetchVersion", "fillVersion"}
  BY DEF FindVersion, FetchVersion, FillVersion, At
<1>2. {"pc", "key"} \subseteq DOMAIN c /\ IsPair(c.key)
  BY <1>1 DEF NamesCall, WithKeyInHand
<1>3. NamesCall(Idle) /\ Pending(Idle)
  BY EmptyHanded DEF Idle
<1>4. FindVersion(t) \/ FetchVersion(t) => (Answers => Answers')
  BY SameLookups DEF FindVersion, FetchVersion, vars, cacheVars, versionCaches, indexCaches, Answers
<1>5. CASE FindVersion(t)
  <2>1. CASE c.key \in DOMAIN forwardCache
    <3> DEFINE v == forwardCache[c.key]
    <3>1. Goto(t, WithVersion(c, v))
      BY <1>5, <2>1 DEF FindVersion
    <3>2. Answers => v \in VersionsAt(c.key)
      BY <2>1 DEF Answers, VersionLookupsCurrent
    <3> HIDE DEF v, c
    <3> QED  BY <1>2, <1>4, <1>5, <3>1, <3>2, WithVersionPlaced DEF Goes
  <2>2. CASE c.key \notin DOMAIN forwardCache
    <3> DEFINE d == [c EXCEPT !.pc = "fetchVersion"]
    <3>1. Goto(t, d)
      BY <1>5, <2>2 DEF FindVersion
    <3>2. d.pc = "fetchVersion" /\ {"pc", "key"} \subseteq DOMAIN d /\ d.key = c.key
      BY <1>2, SameKey
    <3> HIDE DEF d
    <3> QED  BY <1>2, <1>4, <1>5, <3>1, <3>2, KeyInHand DEF Goes
  <2> QED  BY <2>1, <2>2
<1>6. CASE FetchVersion(t)
  <2>1. CASE Throw(t)
    BY <1>3, <1>4, <1>6, <2>1 DEF Throw, Goes
  <2>2. CASE ~Throw(t)
    <3>1. PICK v \in VersionsAt(c.key) :
            Goto(t, [pc |-> "fillVersion", key |-> c.key, version |-> v, goal |-> c.goal])
      BY <1>6, <2>2 DEF FetchVersion
    <3> DEFINE d == [pc |-> "fillVersion", key |-> c.key, version |-> v, goal |-> c.goal]
    <3>2. d.pc = "fillVersion" /\ {"pc", "key"} \subseteq DOMAIN d /\ d.key = c.key /\ d.version = v
      OBVIOUS
    <3>3. Goto(t, d)
      BY <3>1
    <3> HIDE DEF d
    <3> QED  BY <1>2, <1>4, <1>6, <3>1, <3>2, <3>3, VersionInHand DEF Goes
  <2> QED  BY <2>1, <2>2
<1>7. CASE FillVersion(t)
  <2>1. /\ c.pc = "fillVersion" /\ CacheVersion(c.version, c.key)
        /\ Goto(t, WithVersion(c, c.version))
        /\ UNCHANGED catalogVars /\ UNCHANGED indexCaches
    BY <1>7 DEF FillVersion, At
  <2>2. Pending(c) => c.version \in VersionsAt(c.key)
    BY <2>1 DEF Pending
  <2>3. Answers /\ Pending(c) => Answers'
    BY <1>2, <2>1, <2>2, FilledVersion, SameLookups DEF Answers
  <2> HIDE DEF c
  <2> QED  BY <1>2, <2>1, <2>2, <2>3, WithVersionPlaced DEF Goes, c
<1> QED  BY <1>5, <1>6, <1>7

(* getVectorIndexId keeps its mutex from the version to the fill.           *)
LEMMA NamesIndex ==
    ASSUME ThreadInv, NEW t \in Threads, NamesCall(call[t]),
           FindIndex(t) \/ LockIndex(t) \/ FetchIndex(t) \/ FillIndex(t)
    PROVE  \E c : Goes(t, c)
<1> DEFINE c == call[t]
<1>1. c.pc \in {"findIndex", "lockIndex", "fetchIndex", "fillIndex"}
  BY DEF FindIndex, LockIndex, FetchIndex, FillIndex, At
<1>2. {"pc", "key"} \subseteq DOMAIN c /\ IsPair(c.key)
  BY <1>1 DEF NamesCall, WithKeyInHand
<1>3. NamesCall(Idle) /\ Pending(Idle)
  BY EmptyHanded DEF Idle
<1>4. FindIndex(t) \/ LockIndex(t) \/ FetchIndex(t) => (Answers => Answers')
  BY SameLookups
     DEF FindIndex, LockIndex, FetchIndex, vars, cacheVars, versionCaches, indexCaches, Answers
<1>5. CASE FindIndex(t)
  <2> DEFINE d == [pc |-> "lockIndex", key |-> c.key]
  <2>1. Goto(t, Idle) \/ Goto(t, d)
    BY <1>5 DEF FindIndex
  <2>2. NamesCall(d) /\ Pending(d)
    BY <1>2, KeyInHand
  <2> HIDE DEF d
  <2> QED  BY <1>3, <1>4, <1>5, <2>1, <2>2 DEF Goes
<1>6. CASE LockIndex(t)
  <2> DEFINE d == [pc |-> "findVersion", key |-> c.key, goal |-> "index"]
  <2>1. Goto(t, d)
    BY <1>6 DEF LockIndex
  <2>2. NamesCall(d) /\ Pending(d)
    BY <1>2, KeyInHand
  <2> HIDE DEF d
  <2> QED  BY <1>4, <1>6, <2>1, <2>2 DEF Goes
<1>7. CASE FetchIndex(t)
  <2>1. CASE Throw(t)
    BY <1>3, <1>4, <1>7, <2>1 DEF Throw, Goes
  <2>2. CASE ~Throw(t)
    <3>1. PICK i \in DefaultIndexes(c.version) :
            Goto(t, [pc |-> "fillIndex", key |-> c.key, index |-> i])
      BY <1>7, <2>2 DEF FetchIndex
    <3> DEFINE d == [pc |-> "fillIndex", key |-> c.key, index |-> i]
    <3>2. d.pc = "fillIndex" /\ {"pc", "key"} \subseteq DOMAIN d /\ d.key = c.key /\ d.index = i
      OBVIOUS
    <3>3. Goto(t, d) /\ c.pc = "fetchIndex"
      BY <1>7, <3>1 DEF FetchIndex, At
    <3>4. i \in DOMAIN index /\ index[i].version = c.version
      BY DEF DefaultIndexes, IndexesOf
    <3>5. Pending(c) => c.key \in KeysOf(c.version)
      BY <1>2, <3>3, BothDirections DEF Pending, IsPair
    <3> HIDE DEF d
    <3>6. NamesCall(d)
      BY <1>2, <3>2 DEF NamesCall, NamesPc, WithKeyInHand, ForAdd
    <3>7. Pending(c) => Pending(d)
      BY <3>2, <3>4, <3>5 DEF Pending
    <3> QED  BY <1>4, <1>7, <3>3, <3>6, <3>7 DEF Goes
  <2> QED  BY <2>1, <2>2
<1>8. CASE FillIndex(t)
  <2>1. /\ c.pc = "fillIndex" /\ CacheIndex(c.index, c.key) /\ Goto(t, Idle)
        /\ UNCHANGED catalogVars /\ UNCHANGED versionCaches
    BY <1>8 DEF FillIndex, At
  <2>2. Pending(c) => c.index \in DOMAIN index /\ c.key \in KeysOf(index[c.index].version)
    BY <2>1 DEF Pending
  <2>3. Answers /\ Pending(c) => Answers'
    BY <2>1, <2>2, CachedIndex, SameLookups DEF Answers
  <2> QED  BY <1>3, <2>1, <2>3 DEF Goes
<1> QED  BY <1>5, <1>6, <1>7, <1>8

----------------------------------------------------------------------------
(* Rows are added and none goes away: every answer stays one.               *)
Grown ==
    /\ \A k : VersionsAt(k) \subseteq VersionsAt(k)'
    /\ \A v : KeysOf(v) \subseteq KeysOf(v)'
    /\ \A i \in DOMAIN index : i \in DOMAIN index' /\ index'[i].version = index[i].version

(* Where a thread stands after a step, and the others with it. *)
MovesTo(t, c) == call'[t] = c /\ \A u \in Threads : u # t => call'[u] = call[u]

(* Tables nothing writes. *)
LEMMA SameGrown ==
    ASSUME UNCHANGED catalogVars
    PROVE  Grown
<1>1. /\ index' = index
      /\ \A j : VersionsAt(j)' = VersionsAt(j)
      /\ \A w : KeysOf(w)' = KeysOf(w)
  BY DEF catalogVars, VersionsAt, VersionsNamed, VersionsOf, SpacesNamed, KeysOf
<1> QED  BY <1>1 DEF Grown

(* Rows of versions and spaces that stay keep every answer. *)
LEMMA KeptRowsGrown ==
    ASSUME \A s \in DOMAIN space : s \in DOMAIN space' /\ space'[s] = space[s],
           \A v \in DOMAIN version :
               /\ v \in DOMAIN version'
               /\ version'[v].space = version[v].space
               /\ version'[v].uid = version[v].uid,
           \A i \in DOMAIN index : i \in DOMAIN index' /\ index'[i].version = index[i].version
    PROVE  Grown
<1>1. \A n : SpacesNamed(n) \subseteq SpacesNamed(n)'
  BY DEF SpacesNamed
<1>2. \A s : VersionsOf(s) \subseteq VersionsOf(s)'
  BY DEF VersionsOf
<1>3. \A n : VersionsNamed(n) \subseteq VersionsNamed(n)'
  BY <1>1, <1>2 DEF VersionsNamed
<1>4. \A k : VersionsAt(k) \subseteq VersionsAt(k)'
  <2> SUFFICES ASSUME NEW k, NEW v \in VersionsAt(k)
               PROVE  v \in VersionsAt(k)'
    OBVIOUS
  <2>1. v \in VersionsNamed(k[1])' /\ version[v].uid = k[2]
    BY <1>3 DEF VersionsAt
  <2>2. v \in DOMAIN version
    BY DEF VersionsAt, VersionsNamed, VersionsOf
  <2> QED  BY <2>1, <2>2 DEF VersionsAt
<1>5. \A v : KeysOf(v) \subseteq KeysOf(v)'
  BY DEF KeysOf
<1> QED  BY <1>4, <1>5 DEF Grown

(* addSpace, addVectorIndex and addVersion only add.                        *)
LEMMA AdditionsGrown ==
    ASSUME CatalogTypeOK,
           \/ \E n : AddSpace(n)
           \/ \E v, now : AddVectorIndex(v, TRUE, now)
           \/ \E s, now : AddVersion(s, TRUE, now)
    PROVE  Grown
<1>1. SpaceTypeOK /\ VersionTypeOK /\ IndexTypeOK
  BY TypeParts
<1>2. CASE \E n : AddSpace(n)
  <2>1. PICK n : AddSpace(n)
    BY <1>2
  <2>2. /\ space' = Put(space, spaceSeq + 1, n) /\ version' = version /\ index' = index
    BY <2>1 DEF AddSpace, NextId, versionTable, indexTable
  <2>3. spaceSeq + 1 \notin DOMAIN space
    BY BoundsAssumption DEF CatalogTypeOK
  <2>4. \A s \in DOMAIN space : s \in DOMAIN space' /\ space'[s] = space[s]
    BY <2>2, <2>3 DEF Put
  <2> QED  BY <2>2, <2>4, KeptRowsGrown
<1>3. CASE \E v, now : AddVectorIndex(v, TRUE, now)
  <2>1. PICK v, now : AddVectorIndex(v, TRUE, now)
    BY <1>3
  <2>2. IndexAdded(v, TRUE)
    BY <1>1, <2>1, AddVectorIndexRows
  <2>3. version' = version /\ space' = space
    BY <2>1 DEF AddVectorIndex, spaceTable, versionTable
  <2> QED  BY <2>2, <2>3, KeptRowsGrown DEF IndexAdded
<1>4. CASE \E s, now : AddVersion(s, TRUE, now)
  <2>1. PICK s, now : AddVersion(s, TRUE, now)
    BY <1>4
  <2>2. VersionAdded(s, TRUE)
    BY <1>1, <2>1, AddVersionRows
  <2>3. index' = index /\ space' = space
    BY <2>1 DEF AddVersion, spaceTable, indexTable
  <2> QED  BY <2>2, <2>3, KeptRowsGrown DEF VersionAdded
<1> QED  BY <1>2, <1>3, <1>4

(* Maps that stay as they are stay current when rows are added.             *)
LEMMA GrownAnswers ==
    ASSUME Answers, Grown, UNCHANGED versionCaches, UNCHANGED indexCaches
    PROVE  Answers'
<1>1. VersionLookupsCurrent'
  BY DEF Answers, Grown, VersionLookupsCurrent, versionCaches
<1>2. IndexLookupsCurrent'
  BY DEF Answers, Grown, IndexLookupsCurrent, indexCaches
<1> QED  BY <1>1, <1>2 DEF Answers

(* So does what a call has in hand. *)
LEMMA GrownPending ==
    ASSUME NEW c, Pending(c), Grown
    PROVE  Pending(c)'
BY DEF Pending, Grown

(* A space id that was issued stays issued. *)
LEMMA GrownCall ==
    ASSUME NEW c, NamesCall(c), spaceSeq \in Nat, spaceSeq' \in Nat, spaceSeq <= spaceSeq'
    PROVE  NamesCall(c)'
<1>1. 1..spaceSeq \subseteq (1..spaceSeq)'
  OBVIOUS
<1> QED  BY <1>1 DEF NamesCall, ForAdd

(* The calls after a step in which one thread moved. *)
LEMMA CallsAfter ==
    ASSUME \A u \in Threads : NamesCall(call[u]),
           spaceSeq \in Nat, spaceSeq' \in Nat, spaceSeq <= spaceSeq',
           NEW t \in Threads, NEW c, MovesTo(t, c), NamesCall(c)
    PROVE  (\A u \in Threads : NamesCall(call[u]))'
<1> SUFFICES ASSUME NEW u \in Threads PROVE NamesCall(call[u])'
  OBVIOUS
<1>1. PICK d : d = call'[u]
  OBVIOUS
<1>2. NamesCall(d)
  BY <1>1 DEF MovesTo
<1>3. NamesCall(d)'
  BY <1>2, GrownCall
<1> QED  BY <1>1, <1>3 DEF NamesCall, ForAdd

(* What they have in hand, when rows are only added. *)
LEMMA PendingAfter ==
    ASSUME \A u \in Threads : Pending(call[u]), Grown,
           NEW t \in Threads, NEW c, MovesTo(t, c), Pending(c)
    PROVE  (\A u \in Threads : Pending(call[u]))'
<1> SUFFICES ASSUME NEW u \in Threads PROVE Pending(call[u])'
  OBVIOUS
<1>1. PICK d : d = call'[u]
  OBVIOUS
<1>2. Pending(d)
  BY <1>1 DEF MovesTo
<1>3. Pending(d)'
  BY <1>2, GrownPending
<1> QED  BY <1>1, <1>3 DEF Pending

(* A step of a call that does not end a clean(), while rows are only added. *)
LEMMA NamesKept ==
    ASSUME NamesInv, workload = "names", workload' = workload,
           CatalogTypeOK', SpacesIssued', spaceSeq <= spaceSeq', Grown,
           NEW t \in Threads, NEW c, MovesTo(t, c), NamesCall(c),
           Answers /\ Pending(call[t]) => Answers' /\ Pending(c),
           At(t, "lock") /\ call[t].clears = "all" => c.pc = "lock" /\ c.clears = "all"
    PROVE  NamesInv'
<1>1. spaceSeq \in Nat /\ spaceSeq' \in Nat
  BY BoundsAssumption DEF NamesInv, CatalogTypeOK
<1>2. (\A u \in Threads : NamesCall(call[u]))'
  BY <1>1, CallsAfter DEF NamesInv
<1>3. CleanComing => CleanComing'
  BY DEF CleanComing, At, MovesTo
<1>4. Answers /\ (\A u \in Threads : Pending(call[u]))
        => Answers' /\ (\A u \in Threads : Pending(call[u]))'
  BY PendingAfter
<1> QED  BY <1>2, <1>3, <1>4 DEF NamesInv

(* The same for a step that writes no table.                                *)
LEMMA NamesGoes ==
    ASSUME ThreadInv, NamesInv, workload = "names", workload' = workload,
           UNCHANGED catalogVars, NEW t \in Threads, NEW c, Goes(t, c),
           At(t, "lock") /\ call[t].clears = "all" => c.pc = "lock" /\ c.clears = "all"
    PROVE  NamesInv'
<1>1. CatalogTypeOK /\ SpacesIssued
  BY DEF NamesInv
<1>2. CatalogTypeOK'
  BY <1>1, CatalogTypeStep
<1>3. SpacesIssued' /\ spaceSeq <= spaceSeq'
  BY <1>1, BoundsAssumption DEF SpacesIssued, CatalogTypeOK, catalogVars
<1>4. MovesTo(t, c)
  BY Moved DEF Goes, MovesTo
<1> QED  BY <1>2, <1>3, <1>4, SameGrown, NamesKept DEF Goes

----------------------------------------------------------------------------
(* The steps of the workload "names", one by one. *)

(* A step of a lookup.                                                      *)
LEMMA NamesLookup ==
    ASSUME ThreadInv, NamesInv, workload = "names", workload' = workload,
           NEW t \in Threads, LookupStep(t)
    PROVE  NamesInv'
<1>1. NamesCall(call[t])
  BY DEF NamesInv
<1>2. \/ FindDefault(t) \/ FetchDefault(t) \/ FillDefault(t)
      \/ FindVersion(t) \/ FetchVersion(t) \/ FillVersion(t)
      \/ FindIndex(t) \/ LockIndex(t) \/ FetchIndex(t) \/ FillIndex(t)
  BY <1>1 DEF LookupStep, NamesCall, NamesPc, WithKeyInHand, At, FindKey, FetchKey, FillKey,
              FindByIndex, LockByIndex, FindSpace, FetchSpace, FillSpace
<1>3. PICK c : Goes(t, c)
  BY <1>1, <1>2, NamesDefault, NamesVersion, NamesIndex
<1>4. UNCHANGED catalogVars
  BY <1>2 DEF FindDefault, FetchDefault, FillDefault, FindVersion, FetchVersion, FillVersion,
              FindIndex, LockIndex, FetchIndex, FillIndex, vars
<1>5. ~At(t, "lock")
  BY <1>2 DEF FindDefault, FetchDefault, FillDefault, FindVersion, FetchVersion, FillVersion,
              FindIndex, LockIndex, FetchIndex, FillIndex, At
<1> QED  BY <1>3, <1>4, <1>5, NamesGoes

(* A call that is taking mutexes, whatever it clears and does next.         *)
LEMMA CleaningPlaced ==
    ASSUME NEW c, c.pc = "lock", ForAdd(c.next)
    PROVE  NamesCall(c) /\ Pending(c)
BY DEF NamesCall, NamesPc, WithKeyInHand, ForAdd, Pending

(* A call begins. *)
LEMMA NamesBegin ==
    ASSUME ThreadInv, NamesInv, workload = "names", workload' = workload,
           NEW t \in Threads, LookUpNames(t) \/ CleanCaches(t) \/ AddAVersion(t)
    PROVE  NamesInv'
<1>1. UNCHANGED vars /\ ~At(t, "lock")
  BY DEF LookUpNames, CleanCaches, AddAVersion, Calls, At
<1>2. UNCHANGED catalogVars /\ (Answers => Answers')
  BY <1>1, SameLookups DEF vars, cacheVars, versionCaches, indexCaches, Answers
<1>3. SUFFICES \E c : Goto(t, c) /\ NamesCall(c) /\ Pending(c)
  BY <1>1, <1>2, NamesGoes DEF Goes
<1>4. ForAdd(Idle)
  BY DEF ForAdd, Idle
<1>5. CASE LookUpNames(t)
  <2>1. PICK c : /\ Goto(t, c)
                 /\ \E n \in Names :
                      \/ c = FindByName(n, 0, "default")
                      \/ \E u \in 0..MaxVersion, goal \in {"version", "index"} :
                           c = FindByName(n, u, goal)
    BY <1>5 DEF LookUpNames, Calls
  <2>2. PICK n \in Names, u \in 0..MaxVersion, goal \in {"default", "version", "index"} :
          c = FindByName(n, u, goal)
    BY <2>1, BoundsAssumption
  <2> DEFINE d == [pc |-> "findDefault", name |-> n, goal |-> goal]
             k == <<n, u>>
  <2>3. NamesCall(d) /\ Pending(d)
    BY EmptyHanded
  <2>4. IsPair(k)
    BY DEF IsPair
  <2>5. NamesCall(WithKey(k, goal)) /\ Pending(WithKey(k, goal))
    <3> HIDE DEF k
    <3> QED  BY <2>4, WithKeyPlaced
  <2>6. c = d \/ c = WithKey(k, goal)
    BY <2>2 DEF FindByName
  <2> HIDE DEF d, k
  <2> QED  BY <2>1, <2>3, <2>5, <2>6
<1>6. CASE CleanCaches(t)
  <2>1. Goto(t, Cleaning(Idle)) \/ Goto(t, Clearing)
    BY <1>6 DEF CleanCaches, Calls
  <2>2. Cleaning(Idle).pc = "lock" /\ Cleaning(Idle).next = Idle
    BY DEF Cleaning
  <2>3. Clearing.pc = "lock" /\ Clearing.next = Idle
    BY DEF Clearing
  <2> QED  BY <1>4, <2>1, <2>2, <2>3, CleaningPlaced
<1>7. CASE AddAVersion(t)
  <2>1. PICK s \in DOMAIN space :
          Goto(t, Cleaning([pc |-> "commit", does |-> "addVersion", id |-> s]))
    BY <1>7 DEF AddAVersion, Calls
  <2>2. s \in 1..spaceSeq
    BY DEF NamesInv, CatalogTypeOK
  <2> DEFINE add == [pc |-> "commit", does |-> "addVersion", id |-> s]
             c   == Cleaning(add)
  <2>3. ForAdd(add)
    BY <2>2 DEF ForAdd
  <2>4. c.pc = "lock" /\ c.next = add
    BY DEF Cleaning
  <2>5. Goto(t, c)
    BY <2>1
  <2> HIDE DEF add, c
  <2> QED  BY <2>3, <2>4, <2>5, CleaningPlaced
<1> QED  BY <1>5, <1>6, <1>7

(* The next mutex is taken. *)
LEMMA NamesLock ==
    ASSUME ThreadInv, NamesInv, workload = "names", workload' = workload,
           NEW t \in Threads, LockNext(t)
    PROVE  NamesInv'
<1> DEFINE c == call[t]
           d == [c EXCEPT !.want = Tail(c.want)]
<1>1. c.pc = "lock" /\ Goto(t, d) /\ UNCHANGED vars
  BY DEF LockNext, At
<1>2. {"pc", "want", "clears", "next"} \subseteq DOMAIN c /\ ForAdd(c.next)
  BY <1>1 DEF ThreadInv, CallOK, NamesInv, NamesCall
<1>3. d.pc = "lock" /\ d.clears = c.clears /\ d.next = c.next
  <2> HIDE DEF c
  <2> QED  BY <1>1, <1>2 DEF c
<1> HIDE DEF d
<1>4. NamesCall(d) /\ Pending(d)
  BY <1>2, <1>3, CleaningPlaced
<1>5. UNCHANGED catalogVars /\ (Answers => Answers')
  BY <1>1, SameLookups DEF vars, cacheVars, versionCaches, indexCaches, Answers
<1> QED  BY <1>1, <1>3, <1>4, <1>5, NamesGoes DEF Goes

(* clean() ends with all four mutexes in hand: no call has read a version   *)
(* or an index it has still to fill in.                                     *)
LEMMA AllHeld ==
    ASSUME ThreadInv, NEW t \in Threads, At(t, "lock"), call[t].clears = "all",
           call[t].want = <<>>
    PROVE  \A u \in Threads \ {t} :
               call[u].pc \notin {"fillVersion", "fetchIndex", "fillIndex"}
<1> SUFFICES ASSUME NEW u \in Threads \ {t},
                    call[u].pc \in {"fillVersion", "fetchIndex", "fillIndex"}
             PROVE  FALSE
  OBVIOUS
<1>1. {call[t].want[x] : x \in 1..Len(call[t].want)} = {}
  BY Elements
<1>2. Holds(call[t]) = Mutexes
  BY <1>1, HoldsTaken DEF At
<1>3. PICK m \in Mutexes : m \in Holds(call[u])
  <2>1. CASE call[u].pc = "fillVersion"
    <3>1. "goal" \in DOMAIN call[u]
      BY <2>1 DEF ThreadInv, CallOK, HasGoal, ForVersion
    <3> QED  BY <2>1, <3>1, HoldsCache DEF Mutexes
  <2>2. CASE call[u].pc \in {"fetchIndex", "fillIndex"}
    BY <2>2, HoldsIndex DEF InIndexScope, Mutexes
  <2> QED  BY <2>1, <2>2
<1>4. mutex[m] = t /\ mutex[m] = u
  BY <1>2, <1>3 DEF ThreadInv
<1> QED  BY <1>4

(* The maps are cleared and the mutexes released.                           *)
LEMMA NamesClear ==
    ASSUME ThreadInv, NamesInv, workload = "names", workload' = workload,
           NEW t \in Threads, Clear(t)
    PROVE  NamesInv'
<1>1. PICK c : c = call[t].next
  OBVIOUS
<1>2. /\ call[t].pc = "lock" /\ call[t].want = <<>> /\ Goto(t, c)
      /\ c.pc \in {"idle", "commit"} /\ ForAdd(c)
      /\ call[t].clears \in {"all", "names"}
  BY <1>1 DEF Clear, At, ThreadInv, CallOK, NamesInv, NamesCall
<1>3. NamesCall(c) /\ Pending(c)
  BY <1>2 DEF NamesCall, NamesPc, WithKeyInHand, Pending
<1>4. CASE call[t].clears = "names"
  <2>1. clearSpaceNameCache
    BY <1>4 DEF Clear
  <2>2. UNCHANGED catalogVars /\ (Answers => Answers')
    BY <2>1, SameLookups DEF clearSpaceNameCache, Answers
  <2> QED  BY <1>2, <1>3, <1>4, <2>2, NamesGoes DEF Goes
<1>5. CASE call[t].clears = "all"
  <2>1. Cleaned /\ UNCHANGED catalogVars
    BY <1>5 DEF Clear, clean
  <2>2. Answers'
    BY <2>1, CleanedLookups DEF Answers
  <2>3. MovesTo(t, c)
    BY <1>2, Moved DEF MovesTo
  <2>4. \A u \in Threads \ {t} : call[u].pc \notin {"fillVersion", "fetchIndex", "fillIndex"}
    BY <1>2, <1>5, AllHeld DEF At
  <2>5. (\A u \in Threads : Pending(call[u]))'
    <3> SUFFICES ASSUME NEW u \in Threads PROVE Pending(call[u])'
      OBVIOUS
    <3>1. call'[u].pc \notin {"fillVersion", "fetchIndex", "fillIndex"}
      BY <1>2, <2>3, <2>4 DEF MovesTo
    <3> QED  BY <3>1 DEF Pending
  <2>6. CatalogTypeOK /\ SpacesIssued /\ spaceSeq \in Nat
    BY BoundsAssumption DEF NamesInv, CatalogTypeOK
  <2>7. CatalogTypeOK'
    BY <2>1, <2>6, CatalogTypeStep
  <2>8. SpacesIssued' /\ spaceSeq' = spaceSeq
    BY <2>1, <2>6 DEF SpacesIssued, catalogVars
  <2>9. (\A u \in Threads : NamesCall(call[u]))'
    BY <1>3, <2>3, <2>6, <2>8, CallsAfter DEF NamesInv
  <2> QED  BY <2>2, <2>5, <2>7, <2>8, <2>9 DEF NamesInv
<1> QED  BY <1>2, <1>4, <1>5

(* The tables stay well typed when rows are added or a space is deleted.    *)
LEMMA NamesTables ==
    ASSUME CatalogTypeOK, SpacesIssued,
           \/ \E n \in Names : AddSpace(n)
           \/ \E v \in DOMAIN version, now \in Times : AddVectorIndex(v, TRUE, now)
           \/ \E s \in 1..spaceSeq, now \in Times : AddVersion(s, TRUE, now)
           \/ \E s \in DOMAIN space : DeleteSpace(s)
    PROVE  CatalogTypeOK' /\ SpacesIssued' /\ spaceSeq <= spaceSeq'
<1>1. SpaceTypeOK /\ VersionTypeOK
  BY TypeParts
<1>2. /\ DOMAIN space \subseteq 1..spaceSeq /\ DOMAIN version \subseteq 1..versionSeq
      /\ spaceSeq \in Nat /\ TRUE \in BOOLEAN
  BY BoundsAssumption DEF CatalogTypeOK
<1>3. CASE \E n \in Names : AddSpace(n)
  <2>1. CatalogNext
    BY <1>3 DEF CatalogNext
  <2>2. version' = version /\ spaceSeq' = spaceSeq + 1
    BY <1>3 DEF AddSpace, versionTable
  <2> QED  BY <1>2, <2>1, <2>2, CatalogTypeStep DEF SpacesIssued
<1>4. CASE \E v \in DOMAIN version, now \in Times : AddVectorIndex(v, TRUE, now)
  <2>1. CatalogNext
    BY <1>2, <1>4 DEF CatalogNext
  <2>2. version' = version /\ spaceSeq' = spaceSeq
    BY <1>4 DEF AddVectorIndex, spaceTable, versionTable
  <2> QED  BY <1>2, <2>1, <2>2, CatalogTypeStep DEF SpacesIssued
<1>5. CASE \E s \in 1..spaceSeq, now \in Times : AddVersion(s, TRUE, now)
  <2>1. PICK s \in 1..spaceSeq, now \in Times : AddVersion(s, TRUE, now)
    BY <1>5
  <2>2. CatalogNext
    BY <1>2, <2>1 DEF CatalogNext
  <2>3. VersionAdded(s, TRUE) /\ spaceSeq' = spaceSeq
    BY <1>1, <2>1, AddVersionRows DEF AddVersion, spaceTable
  <2>4. SpacesIssued'
    BY <2>3 DEF VersionAdded, SpacesIssued
  <2> QED  BY <1>2, <2>2, <2>3, <2>4, CatalogTypeStep
<1>6. CASE \E s \in DOMAIN space : DeleteSpace(s)
  <2>1. PICK s \in DOMAIN space : DeleteSpace(s)
    BY <1>6
  <2>2. CatalogNext
    BY <1>2, <2>1 DEF CatalogNext
  <2>3. SpaceDeleted(s) /\ spaceSeq' = spaceSeq
    BY <2>1, DeleteSpaceRows DEF DeleteSpace
  <2>4. SpacesIssued'
    BY <2>3 DEF SpaceDeleted, SpacesIssued
  <2> QED  BY <1>2, <2>2, <2>3, <2>4, CatalogTypeStep
<1> QED  BY <1>3, <1>4, <1>5, <1>6

(* addSpace and addVectorIndex, between the steps of other calls.           *)
LEMMA NamesInsert ==
    ASSUME ThreadInv, NamesInv, workload = "names", workload' = workload,
           NEW t \in Threads, Insert(t)
    PROVE  NamesInv'
<1>1. CatalogTypeOK /\ SpacesIssued
  BY DEF NamesInv
<1>2. \/ \E n \in Names : AddSpace(n)
      \/ \E v \in DOMAIN version, now \in Times : AddVectorIndex(v, TRUE, now)
  BY DEF Insert
<1>3. CatalogTypeOK' /\ SpacesIssued' /\ spaceSeq <= spaceSeq'
  BY <1>1, <1>2, NamesTables
<1>4. Grown
  BY <1>1, <1>2, AdditionsGrown
<1>5. Answers => Answers'
  BY <1>4, GrownAnswers DEF Insert, cacheVars
<1>6. MovesTo(t, call[t]) /\ NamesCall(call[t]) /\ ~At(t, "lock")
  BY DEF Insert, MovesTo, NamesInv, At
<1> QED
  <2>1. PICK c : c = call[t]
    OBVIOUS
  <2>2. Answers /\ Pending(call[t]) => Answers' /\ Pending(c)
    BY <1>5, <2>1
  <2> QED  BY <1>3, <1>4, <1>6, <2>1, <2>2, NamesKept

(* addVersion's transaction, after its clean(). *)
LEMMA NamesCommit ==
    ASSUME ThreadInv, NamesInv, workload = "names", workload' = workload,
           NEW t \in Threads, Commit(t)
    PROVE  NamesInv'
<1>1. /\ call[t].pc = "commit" /\ Goto(t, Idle) /\ UNCHANGED cacheVars
      /\ CatalogTypeOK /\ SpacesIssued
  BY DEF Commit, At, NamesInv
<1>2. call[t].does = "addVersion" /\ call[t].id \in 1..spaceSeq
  BY <1>1 DEF NamesInv, NamesCall, ForAdd
<1>3. NamesCall(Idle) /\ Pending(Idle)
  BY EmptyHanded DEF Idle
<1>4. UNCHANGED versionCaches /\ UNCHANGED indexCaches /\ ~At(t, "lock")
  BY <1>1 DEF cacheVars, At
<1>5. CASE UNCHANGED catalogVars
  <2>1. Answers => Answers'
    BY <1>4, <1>5, SameLookups DEF Answers
  <2> QED  BY <1>1, <1>3, <1>4, <1>5, <2>1, NamesGoes DEF Goes
<1>6. CASE ~UNCHANGED catalogVars
  <2>1. \E now \in Times : AddVersion(call[t].id, TRUE, now)
    BY <1>2, <1>6 DEF Commit, InsertsVersion, RemovesVersion
  <2>2. \E s \in 1..spaceSeq, now \in Times : AddVersion(s, TRUE, now)
    BY <1>2, <2>1
  <2>3. CatalogTypeOK' /\ SpacesIssued' /\ spaceSeq <= spaceSeq'
    BY <1>1, <2>2, NamesTables
  <2>4. Grown
    BY <1>1, <2>2, AdditionsGrown
  <2>5. Answers => Answers'
    BY <1>4, <2>4, GrownAnswers
  <2>6. MovesTo(t, Idle)
    BY <1>1, Moved DEF MovesTo
  <2> QED  BY <1>3, <1>4, <2>3, <2>4, <2>5, <2>6, NamesKept
<1> QED  BY <1>5, <1>6

(* deleteSpace's transaction: from here on its clean() is coming.           *)
LEMMA NamesRemove ==
    ASSUME ThreadInv, NamesInv, workload = "names", workload' = workload,
           NEW t \in Threads, RemoveSpace(t)
    PROVE  NamesInv'
<1>1. CatalogTypeOK /\ SpacesIssued
  BY DEF NamesInv
<1>2. (\E s \in DOMAIN space : DeleteSpace(s)) /\ Goto(t, Cleaning(Idle))
  BY DEF RemoveSpace
<1>3. CatalogTypeOK' /\ SpacesIssued' /\ spaceSeq <= spaceSeq'
  BY <1>1, <1>2, NamesTables
<1>4. MovesTo(t, Cleaning(Idle))
  BY <1>2, Moved DEF MovesTo
<1>5. /\ Cleaning(Idle).pc = "lock" /\ Cleaning(Idle).clears = "all"
      /\ Cleaning(Idle).next = Idle
  BY DEF Cleaning
<1>6. NamesCall(Cleaning(Idle))
  BY <1>5, CleaningPlaced DEF ForAdd, Idle
<1>7. spaceSeq \in Nat /\ spaceSeq' \in Nat
  BY <1>1, <1>3, BoundsAssumption DEF CatalogTypeOK
<1>8. (\A u \in Threads : NamesCall(call[u]))'
  BY <1>3, <1>4, <1>6, <1>7, CallsAfter DEF NamesInv
<1>9. CleanComing'
  BY <1>4, <1>5 DEF CleanComing, At, MovesTo
<1> QED  BY <1>3, <1>8, <1>9 DEF NamesInv

(* No step of the workload "names" leaves a stale entry that no clean() is  *)
(* about to remove.                                                         *)
LEMMA NamesStep ==
    ASSUME ThreadInv, NamesInv, [ThreadNext]_threadVars
    PROVE  NamesInv'
<1>1. CASE UNCHANGED threadVars
  <2>1. UNCHANGED catalogVars /\ UNCHANGED versionCaches /\ UNCHANGED indexCaches
        /\ call' = call /\ workload' = workload
    BY <1>1 DEF threadVars, vars, cacheVars
  <2>2. ASSUME workload = "names" PROVE NamesInv'
    <3>1. CatalogTypeOK' /\ SpacesIssued' /\ spaceSeq <= spaceSeq'
      BY <2>1, <2>2, CatalogTypeStep, BoundsAssumption
         DEF NamesInv, SpacesIssued, catalogVars, CatalogTypeOK
    <3>2. (\A u \in Threads : NamesCall(call[u]))'
      BY <2>1, <2>2 DEF NamesInv, NamesCall, ForAdd, catalogVars
    <3>3. Answers => Answers'
      BY <2>1, SameLookups DEF Answers
    <3>4. (\A u \in Threads : Pending(call[u])) => (\A u \in Threads : Pending(call[u]))'
      <4>1. Grown
        BY <2>1, SameGrown
      <4> QED  BY <2>1, <4>1 DEF Grown, Pending
    <3>5. CleanComing => CleanComing'
      BY <2>1 DEF CleanComing, At
    <3> QED  BY <2>2, <3>1, <3>2, <3>3, <3>4, <3>5 DEF NamesInv
  <2> QED  BY <2>1, <2>2 DEF NamesInv
<1>2. CASE workload' = "names" /\ ThreadNext
  <2>1. workload = "names" /\ workload' = workload /\ NamesNext
    BY <1>2 DEF ThreadNext
  <2> QED  BY <2>1, NamesLookup, NamesBegin, NamesLock, NamesClear, NamesInsert, NamesCommit,
              NamesRemove DEF NamesNext, Steps, CleanStep
<1>3. CASE workload' # "names"
  BY <1>3 DEF NamesInv
<1> QED  BY <1>1, <1>2, <1>3

(* Nothing is cached at the start.                                          *)
LEMMA NamesStart == ThreadInit => NamesInv
<1> SUFFICES ASSUME ThreadInit PROVE NamesInv
  OBVIOUS
<1>1. CacheInv
  BY CacheStart DEF ThreadInit
<1>2. \A t \in Threads : NamesCall(call[t]) /\ Pending(call[t])
  BY EmptyHanded DEF ThreadInit, Idle
<1> QED  BY <1>1, <1>2 DEF NamesInv, CacheInv, Answers

(* A lookup by name that overlaps deleteSpace leaves nothing behind in the  *)
(* maps once deleteSpace's clean() is done: getVersionId and                *)
(* getVectorIndexId hold the mutex that clean() takes from their query to   *)
(* their fill (IdCacheImpl.cpp), for any number of threads.                 *)
THEOREM DeletedSpaceForgottenCorrect == ThreadSpec => []DeletedSpaceForgotten
<1>1. NamesInv => DeletedSpaceForgotten
  BY DEF NamesInv, Answers, DeletedSpaceForgotten
<1>2. ThreadInv /\ [ThreadNext]_threadVars => ThreadInv'
  BY ThreadStep
<1>3. ThreadInv /\ NamesInv /\ [ThreadNext]_threadVars => NamesInv'
  BY NamesStep
<1> QED  BY ThreadStart, NamesStart, <1>1, <1>2, <1>3, PTL DEF ThreadSpec

----------------------------------------------------------------------------
(* What the threads do to the tables.                                       *)

(* A call that is to insert a version has the id of a space that was issued, *)
(* whatever became of the space while clean() took its mutexes.              *)
IssuedFor(c)  == c.pc = "commit" /\ c.does = "addVersion" => c.id \in 1..spaceSeq
CommitsIssued ==
    \A t \in Threads : IssuedFor(call[t]) /\ (call[t].pc = "lock" => IssuedFor(call[t].next))

TablesInv == ThreadInv /\ CatalogTypeOK /\ CommitsIssued

(* A lookup writes no table and goes nowhere near a commit.                  *)
LEMMA LookupStays ==
    ASSUME ThreadInv, NEW t \in Threads, LookupStep(t)
    PROVE  UNCHANGED catalogVars /\ \E c : Goto(t, c) /\ c.pc \notin {"lock", "commit"}
<1>1. PICK c : c = call[t]
  OBVIOUS
<1>2. /\ "pc" \in DOMAIN c
      /\ c.pc \in ForDefault => c.goal \in {"default", "version", "index"}
  BY <1>1 DEF ThreadInv, CallOK, HasGoal
<1>3. ASSUME NEW k, NEW goal \in {"default", "version", "index"}
      PROVE  WithKey(k, goal).pc \notin {"lock", "commit"}
  <2>1. WithKey(k, goal) \in {Idle, [pc |-> "findVersion", key |-> k, goal |-> goal], [pc |-> "findIndex", key |-> k]}
    BY <1>3 DEF WithKey
  <2>2. QED  BY <2>1 DEF Idle
<1>4. ASSUME NEW d, NEW v
      PROVE  /\ WithVersion(d, v).pc \notin {"lock", "commit"}
             /\ WithVersionKey(d, v).pc \notin {"lock", "commit"}
  <2>1. /\ WithVersion(d, v) \in {Idle, [pc |-> "fetchIndex", key |-> d.key, version |-> v]}
        /\ WithVersionKey(d, v) \in {Idle, [pc |-> "fillIndex", key |-> v, index |-> d.index]}
    BY DEF WithVersion, WithVersionKey
  <2>2. QED  BY <2>1 DEF Idle
<1>5. ASSUME Throw(t) \/ Goto(t, Idle)
      PROVE  \E d : Goto(t, d) /\ d.pc \notin {"lock", "commit"}
  <2>1. Goto(t, Idle) /\ Idle.pc \notin {"lock", "commit"}
    BY <1>5 DEF Throw, Idle
  <2>2. QED  BY <2>1
<1>6. ASSUME NEW p \in {"fetchDefault", "fetchVersion", "fetchKey", "lockByIndex", "fetchSpace"},
             Goto(t, [c EXCEPT !.pc = p])
      PROVE  \E d : Goto(t, d) /\ d.pc \notin {"lock", "commit"}
  <2>1. PICK d : d = [c EXCEPT !.pc = p]
    OBVIOUS
  <2>2. d.pc = p
    BY <1>2, <2>1
  <2>3. QED  BY <1>6, <2>1, <2>2
<1>7. CASE FindDefault(t) \/ FetchDefault(t) \/ FillDefault(t)
  <2>1. c.goal \in {"default", "version", "index"}
    BY <1>1, <1>2, <1>7 DEF FindDefault, FetchDefault, FillDefault, At, ForDefault
  <2>2. UNCHANGED catalogVars
    BY <1>7 DEF FindDefault, FetchDefault, FillDefault, vars
  <2>3. QED  BY <1>1, <1>3, <1>5, <1>6, <1>7, <2>1, <2>2 DEF FindDefault, FetchDefault, FillDefault
<1>8. CASE FindVersion(t) \/ FetchVersion(t) \/ FillVersion(t)
  <2>1. UNCHANGED catalogVars
    BY <1>8 DEF FindVersion, FetchVersion, FillVersion, vars
  <2>2. QED  BY <1>1, <1>4, <1>5, <1>6, <1>8, <2>1 DEF FindVersion, FetchVersion, FillVersion
<1>9. CASE FindIndex(t) \/ LockIndex(t) \/ FetchIndex(t) \/ FillIndex(t)
  <2>1. UNCHANGED catalogVars
    BY <1>9 DEF FindIndex, LockIndex, FetchIndex, FillIndex, vars
  <2>2. \/ Throw(t) \/ Goto(t, Idle)
        \/ \E d : /\ Goto(t, d)
                 /\ \/ \E k : \/ d = [pc |-> "lockIndex", key |-> k]
                             \/ d = [pc |-> "findVersion", key |-> k, goal |-> "index"]
                    \/ \E k, i : d = [pc |-> "fillIndex", key |-> k, index |-> i]
    <3>1. CASE FindIndex(t)
      BY <3>1 DEF FindIndex
    <3>2. CASE LockIndex(t)
      BY <3>2 DEF LockIndex
    <3>3. CASE FetchIndex(t)
      BY <3>3 DEF FetchIndex
    <3>4. CASE FillIndex(t)
      BY <3>4 DEF FillIndex
    <3>5. QED  BY <1>9, <3>1, <3>2, <3>3, <3>4
  <2>3. QED  BY <1>5, <2>1, <2>2
<1>10. CASE FindKey(t)
  <2>1. UNCHANGED catalogVars
    BY <1>10 DEF FindKey, vars
  <2>2. CASE c.version \in DOMAIN reverseCache
    <3>1. Goto(t, WithVersionKey(c, reverseCache[c.version]))
      BY <1>1, <1>10, <2>2 DEF FindKey
    <3>2. QED  BY <1>4, <2>1, <3>1
  <2>3. CASE c.version \notin DOMAIN reverseCache
    BY <1>1, <1>6, <1>10, <2>1, <2>3 DEF FindKey
  <2>4. QED  BY <2>2, <2>3
<1>14. CASE FillKey(t)
  <2>1. UNCHANGED catalogVars
    BY <1>14 DEF FillKey
  <2>2. QED  BY <1>1, <1>4, <1>14, <2>1 DEF FillKey
<1>15. CASE FindByIndex(t)
  <2>1. UNCHANGED catalogVars
    BY <1>15 DEF FindByIndex, vars
  <2>2. CASE c.index \in DOMAIN vectorIndexForwardCache
    BY <1>1, <1>5, <1>15, <2>1, <2>2 DEF FindByIndex
  <2>3. CASE c.index \notin DOMAIN vectorIndexForwardCache
    BY <1>1, <1>6, <1>15, <2>1, <2>3 DEF FindByIndex
  <2>4. QED  BY <2>2, <2>3
<1>16. CASE LockByIndex(t)
  <2>1. UNCHANGED catalogVars
    BY <1>16 DEF LockByIndex, vars
  <2>2. CASE Throw(t)
    BY <1>5, <2>1, <2>2
  <2>3. CASE ~Throw(t)
    <3>1. PICK d : d = [pc |-> "findKey", version |-> index[c.index].version,
                        goal |-> "index", index |-> c.index, key |-> Nobody]
      OBVIOUS
    <3>2. Goto(t, d)
      BY <1>1, <1>16, <2>3, <3>1 DEF LockByIndex
    <3>3. d.pc = "findKey"
      BY <3>1
    <3>4. QED  BY <2>1, <3>2, <3>3
  <2>4. QED  BY <2>2, <2>3
<1>11. CASE FetchKey(t)
  <2>1. UNCHANGED catalogVars
    BY <1>11 DEF FetchKey, vars
  <2>2. CASE Throw(t)
    BY <1>5, <2>1, <2>2
  <2>3. CASE ~Throw(t)
    <3>1. PICK k : Goto(t, [c EXCEPT !.pc = "fillKey", !.key = k])
      BY <1>1, <1>11, <2>3 DEF FetchKey
    <3>2. PICK d : d = [c EXCEPT !.pc = "fillKey", !.key = k]
      OBVIOUS
    <3>3. d.pc = "fillKey"
      BY <1>2, <3>2
    <3>4. QED  BY <2>1, <3>1, <3>2, <3>3
  <2>4. QED  BY <2>2, <2>3
<1>12. CASE FindSpace(t) \/ FetchSpace(t) \/ FillSpace(t)
  <2>1. UNCHANGED catalogVars
    BY <1>12 DEF FindSpace, FetchSpace, FillSpace, vars
  <2>2. QED  BY <1>1, <1>5, <1>6, <1>12, <2>1 DEF FindSpace, FetchSpace, FillSpace
<1>13. QED
  BY <1>7, <1>8, <1>9, <1>10, <1>11, <1>12, <1>14, <1>15, <1>16 DEF LookupStep

(* One call moves, to one that has an id that was issued.                    *)
LEMMA IssuedMoves ==
    ASSUME ThreadInv, CommitsIssued, spaceSeq \in Nat, spaceSeq' \in Nat, spaceSeq <= spaceSeq',
           NEW t \in Threads, NEW c, Goto(t, c),
           IssuedFor(c)', c.pc = "lock" => IssuedFor(c.next)'
    PROVE  CommitsIssued'
<1>1. call'[t] = c /\ \A u \in Threads : u # t => call'[u] = call[u]
  BY Moved
<1>2. \A d : IssuedFor(d) => IssuedFor(d)'
  BY DEF IssuedFor
<1>3. ASSUME NEW u \in Threads
      PROVE  IssuedFor(call[u])' /\ (call'[u].pc = "lock" => IssuedFor(call[u].next)')
  <2>1. CASE u = t
    BY <1>1, <2>1 DEF IssuedFor
  <2>2. CASE u # t
    <3>1. call'[u] = call[u] /\ IssuedFor(call[u]) /\ (call[u].pc = "lock" => IssuedFor(call[u].next))
      BY <1>1, <2>2 DEF CommitsIssued
    <3>2. QED  BY <1>2, <3>1 DEF IssuedFor
  <2>3. QED  BY <2>1, <2>2
<1>4. QED  BY <1>3 DEF CommitsIssued

LEMMA CleanIssued ==
    ASSUME TablesInv, NEW t \in Threads, CleanStep(t)
    PROVE  UNCHANGED catalogVars /\ CommitsIssued'
<1>1. PICK c : c = call[t]
  OBVIOUS
<1>2. CallOK(c) /\ c.pc = "lock" /\ IssuedFor(c.next)
  <2>1. CallOK(c)
    BY <1>1 DEF TablesInv, ThreadInv
  <2>2. c.pc = "lock"
    BY <1>1 DEF CleanStep, LockNext, Clear, At
  <2>3. QED  BY <1>1, <2>1, <2>2 DEF TablesInv, CommitsIssued
<1>s. spaceSeq \in Nat
  BY BoundsAssumption DEF TablesInv, CatalogTypeOK
<1>3. UNCHANGED catalogVars
  <2>1. CASE LockNext(t)
    BY <2>1 DEF LockNext, vars
  <2>2. CASE Clear(t)
    <3>1. c.clears = "all" \/ c.clears = "names"
      BY <1>2 DEF CallOK
    <3>2. CASE c.clears = "all"
      BY <1>1, <2>2, <3>2 DEF Clear, clean
    <3>3. CASE c.clears = "names"
      BY <1>1, <2>2, <3>3 DEF Clear, clearSpaceNameCache
    <3>4. QED  BY <3>1, <3>2, <3>3
  <2>3. QED  BY <2>1, <2>2 DEF CleanStep
<1>4. spaceSeq' = spaceSeq
  BY <1>3 DEF catalogVars, spaceTable
<1>5. CASE LockNext(t)
  <2>1. PICK d : d = [c EXCEPT !.want = Tail(c.want)]
    OBVIOUS
  <2>2. Goto(t, d)
    BY <1>1, <1>5, <2>1 DEF LockNext
  <2>3. d.pc = "lock" /\ d.next = c.next
    BY <1>2, <2>1 DEF CallOK
  <2>4. IssuedFor(d)' /\ IssuedFor(d.next)'
    BY <1>2, <1>4, <2>3 DEF IssuedFor
  <2>5. QED  BY <1>s, <1>3, <1>4, <2>2, <2>4, IssuedMoves DEF TablesInv
<1>6. CASE Clear(t)
  <2>1. PICK d : d = c.next
    OBVIOUS
  <2>2. Goto(t, d) /\ d.pc # "lock" /\ IssuedFor(d)'
    BY <1>1, <1>2, <1>4, <1>6, <2>1 DEF Clear, CallOK, IssuedFor
  <2>3. QED  BY <1>s, <1>3, <1>4, <2>2, IssuedMoves DEF TablesInv
<1>7. QED  BY <1>5, <1>6 DEF CleanStep

(* A call that begins has no commit before it, or one for a space it read.   *)
LEMMA BeginIssued ==
    ASSUME TablesInv, NEW t \in Threads,
           \/ LookUpNames(t) \/ LookUpIds(t) \/ LookUpSpaces(t)
           \/ CleanCaches(t) \/ AddAVersion(t) \/ DeleteAVersion(t)
    PROVE  UNCHANGED catalogVars /\ CommitsIssued'
<1>1. UNCHANGED catalogVars
  BY DEF LookUpNames, LookUpIds, LookUpSpaces, CleanCaches, AddAVersion, DeleteAVersion, Calls, vars
<1>2. spaceSeq \in Nat /\ spaceSeq' = spaceSeq /\ DOMAIN space \subseteq 1..spaceSeq
  BY <1>1, BoundsAssumption DEF TablesInv, CatalogTypeOK, catalogVars, spaceTable
<1>3. ASSUME NEW c, Goto(t, c), c.pc \notin {"lock", "commit"}
      PROVE  CommitsIssued'
  BY <1>2, <1>3, IssuedMoves DEF TablesInv, IssuedFor
<1>4. ASSUME NEW next, IssuedFor(next), Goto(t, Cleaning(next))
      PROVE  CommitsIssued'
  <2>1. PICK c : c = Cleaning(next)
    OBVIOUS
  <2>2. c.pc = "lock" /\ c.next = next
    BY <2>1 DEF Cleaning
  <2>3. IssuedFor(c)' /\ IssuedFor(c.next)'
    BY <1>2, <1>4, <2>2 DEF IssuedFor
  <2>4. QED  BY <1>2, <1>4, <2>1, <2>3, IssuedMoves DEF TablesInv
<1>5. CASE LookUpNames(t)
  <2>1. ASSUME NEW n, NEW u, NEW goal \in {"default", "version", "index"}
        PROVE  FindByName(n, u, goal).pc \notin {"lock", "commit"}
    <3>1. PICK k : k = <<n, u>>
      OBVIOUS
    <3>2. FindByName(n, u, goal)
            \in {Idle, [pc |-> "findVersion", key |-> k, goal |-> goal], [pc |-> "findIndex", key |-> k],
                 [pc |-> "findDefault", name |-> n, goal |-> goal]}
      BY <3>1 DEF FindByName, WithKey
    <3>3. QED  BY <3>2 DEF Idle
  <2>2. PICK c : /\ Goto(t, c)
                 /\ \/ c \in {FindByName(n, 0, "default") : n \in Names}
                    \/ c \in {FindByName(n, u, goal) :
                                 n \in Names, u \in 0..MaxVersion, goal \in {"version", "index"}}
    BY <1>5 DEF LookUpNames, Calls
  <2>3. c.pc \notin {"lock", "commit"}
    BY <2>1, <2>2
  <2>4. QED  BY <1>1, <1>3, <2>2, <2>3
<1>6. CASE LookUpIds(t)
  <2>1. PICK c : /\ Goto(t, c)
                 /\ \/ \E v : c = [pc |-> "findKey", version |-> v, goal |-> "key", key |-> Nobody]
                    \/ \E i : c = [pc |-> "findByIndex", index |-> i]
    BY <1>6 DEF LookUpIds, Calls
  <2>2. c.pc \notin {"lock", "commit"}
    BY <2>1
  <2>3. QED  BY <1>1, <1>3, <2>1, <2>2
<1>7. CASE LookUpSpaces(t)
  <2>1. PICK c : Goto(t, c) /\ \E n : c = [pc |-> "findSpace", name |-> n]
    BY <1>7 DEF LookUpSpaces, Calls
  <2>2. c.pc \notin {"lock", "commit"}
    BY <2>1
  <2>3. QED  BY <1>1, <1>3, <2>1, <2>2
<1>8. CASE CleanCaches(t)
  <2>1. PICK c : c = Clearing
    OBVIOUS
  <2>2. c.pc = "lock" /\ c.next = Idle
    BY <2>1 DEF Clearing
  <2>3. IssuedFor(Idle) /\ IssuedFor(c)' /\ IssuedFor(c.next)'
    BY <2>2 DEF IssuedFor, Idle
  <2>4. Goto(t, Cleaning(Idle)) \/ Goto(t, c)
    BY <1>8, <2>1 DEF CleanCaches, Calls
  <2>5. QED  BY <1>1, <1>2, <1>4, <2>3, <2>4, IssuedMoves DEF TablesInv
<1>9. CASE AddAVersion(t)
  <2>1. PICK s \in DOMAIN space : Goto(t, Cleaning([pc |-> "commit", does |-> "addVersion", id |-> s]))
    BY <1>9 DEF AddAVersion, Calls
  <2>2. IssuedFor([pc |-> "commit", does |-> "addVersion", id |-> s])
    BY <1>2 DEF IssuedFor
  <2>3. QED  BY <1>1, <1>4, <2>1, <2>2
<1>10. CASE DeleteAVersion(t)
  <2>1. PICK v : Goto(t, Cleaning([pc |-> "commit", does |-> "deleteVersion", id |-> v]))
    BY <1>10 DEF DeleteAVersion, Calls
  <2>2. IssuedFor([pc |-> "commit", does |-> "deleteVersion", id |-> v])
    BY DEF IssuedFor
  <2>3. QED  BY <1>1, <1>4, <2>1, <2>2
<1>11. QED  BY <1>5, <1>6, <1>7, <1>8, <1>9, <1>10

(* What commits is a transaction of the managers for an id that was issued.  *)
LEMMA CommitIssued ==
    ASSUME TablesInv, NEW t \in Threads, Commit(t)
    PROVE  [CatalogNext]_catalogVars /\ CommitsIssued'
<1>1. PICK c : c = call[t]
  OBVIOUS
<1>2. /\ c.pc = "commit" /\ IssuedFor(c) /\ Goto(t, Idle)
      /\ spaceSeq \in Nat /\ DOMAIN version \subseteq 1..versionSeq
  <2>1. c.pc = "commit" /\ Goto(t, Idle)
    BY <1>1 DEF Commit, At
  <2>2. IssuedFor(c)
    BY <1>1 DEF TablesInv, CommitsIssued
  <2>3. QED  BY <2>1, <2>2, BoundsAssumption DEF TablesInv, CatalogTypeOK
<1>3. [CatalogNext]_catalogVars /\ spaceSeq' = spaceSeq
  <2>1. CASE c.does = "addVersion" /\ \E now \in Times : AddVersion(c.id, TRUE, now)
    <3>1. c.id \in 1..spaceSeq
      BY <1>2, <2>1 DEF IssuedFor
    <3>2. QED  BY <2>1, <3>1 DEF CatalogNext, AddVersion, spaceTable
  <2>2. CASE c.id \in DOMAIN version /\ DeleteVersion(c.id)
    <3>1. c.id \in 1..versionSeq
      BY <1>2, <2>2
    <3>2. QED  BY <2>2, <3>1 DEF CatalogNext, DeleteVersion, spaceTable
  <2>3. CASE UNCHANGED catalogVars
    BY <2>3 DEF catalogVars, spaceTable
  <2>4. QED  BY <1>1, <2>1, <2>2, <2>3 DEF Commit, InsertsVersion, RemovesVersion
<1>4. IssuedFor(Idle)' /\ Idle.pc # "lock"
  BY DEF IssuedFor, Idle
<1>5. CommitsIssued'
  BY <1>2, <1>3, <1>4, IssuedMoves DEF TablesInv
<1>6. QED  BY <1>3, <1>5

(* A table written in one step, and the calls that go on as they were.       *)
LEMMA WriteIssued ==
    ASSUME TablesInv, NEW t \in Threads, Insert(t) \/ RemoveSpace(t)
    PROVE  CatalogNext /\ CommitsIssued'
<1>1. /\ spaceSeq \in Nat
      /\ DOMAIN space \subseteq 1..spaceSeq /\ DOMAIN version \subseteq 1..versionSeq
  BY BoundsAssumption DEF TablesInv, CatalogTypeOK
<1>2. CASE Insert(t)
  <2>1. CatalogNext /\ spaceSeq' \in {spaceSeq, spaceSeq + 1}
    <3>1. CASE \E n \in Names : AddSpace(n)
      BY <3>1 DEF CatalogNext, AddSpace
    <3>2. CASE \E v \in DOMAIN version, now \in Times : AddVectorIndex(v, TRUE, now)
      BY <1>1, <3>2 DEF CatalogNext, AddVectorIndex, spaceTable
    <3>3. QED  BY <1>2, <3>1, <3>2 DEF Insert
  <2>2. call' = call
    BY <1>2 DEF Insert
  <2>3. 1..spaceSeq \subseteq 1..spaceSeq'
    BY <1>1, <2>1
  <2>4. CommitsIssued'
    BY <2>2, <2>3 DEF TablesInv, CommitsIssued, IssuedFor
  <2>5. QED  BY <2>1, <2>4
<1>3. CASE RemoveSpace(t)
  <2>1. CatalogNext /\ spaceSeq' = spaceSeq
    BY <1>1, <1>3 DEF RemoveSpace, CatalogNext, DeleteSpace
  <2>2. PICK c : c = Cleaning(Idle)
    OBVIOUS
  <2>3. c.pc = "lock" /\ c.next = Idle
    BY <2>2 DEF Cleaning
  <2>4. IssuedFor(c)' /\ IssuedFor(c.next)'
    BY <2>3 DEF IssuedFor, Idle
  <2>5. Goto(t, c)
    BY <1>3, <2>2 DEF RemoveSpace
  <2>6. QED  BY <1>1, <2>1, <2>4, <2>5, IssuedMoves DEF TablesInv
<1>4. QED  BY <1>2, <1>3

LEMMA TablesKept ==
    TablesInv /\ [ThreadNext]_threadVars => [CatalogNext]_catalogVars /\ TablesInv'
<1> SUFFICES ASSUME TablesInv, [ThreadNext]_threadVars
             PROVE  [CatalogNext]_catalogVars /\ CommitsIssued'
  BY ThreadStep, CatalogTypeStep DEF TablesInv
<1>1. CASE UNCHANGED threadVars
  BY <1>1 DEF threadVars, vars, catalogVars, spaceTable, TablesInv, CommitsIssued, IssuedFor
<1>2. ASSUME NEW t \in Threads, LookupStep(t)
      PROVE  UNCHANGED catalogVars /\ CommitsIssued'
  <2>1. PICK c : UNCHANGED catalogVars /\ Goto(t, c) /\ c.pc \notin {"lock", "commit"}
    BY <1>2, LookupStays DEF TablesInv
  <2>2. spaceSeq \in Nat /\ spaceSeq' = spaceSeq
    BY <2>1, BoundsAssumption DEF TablesInv, CatalogTypeOK, catalogVars, spaceTable
  <2>3. IssuedFor(c)'
    BY <2>1 DEF IssuedFor
  <2>4. QED  BY <2>1, <2>2, <2>3, IssuedMoves DEF TablesInv
<1>3. CASE ThreadNext
  <2>1. PICK t \in Threads :
          \/ LookUpNames(t) \/ LookUpIds(t) \/ LookUpSpaces(t) \/ CleanCaches(t)
          \/ Insert(t) \/ AddAVersion(t) \/ DeleteAVersion(t) \/ RemoveSpace(t)
          \/ Steps(t)
    BY <1>3 DEF ThreadNext, AnyNext, NamesNext
  <2>2. CASE Steps(t)
    BY <1>2, <2>2, CleanIssued, CommitIssued DEF Steps
  <2>3. CASE Insert(t) \/ RemoveSpace(t)
    BY <2>3, WriteIssued
  <2>4. QED  BY <2>1, <2>2, <2>3, BeginIssued
<1>4. QED  BY <1>1, <1>3

(* However the steps of the threads' calls interleave, the tables go through *)
(* a history that the managers allow: a call whose clean() came before its   *)
(* transaction still deletes or inserts rows as that transaction would, and  *)
(* a space that is gone by then was issued once.  So the theorems about the  *)
(* Catalog hold with threads and caches too.                                 *)
THEOREM ThreadsCatalog == ThreadSpec => CatalogSpec
<1>1. ThreadInit => TablesInv /\ CatalogInit
  <2> SUFFICES ASSUME ThreadInit PROVE TablesInv /\ CatalogInit
    OBVIOUS
  <2>1. CatalogInit
    BY DEF ThreadInit, Init
  <2>2. CatalogTypeOK
    BY <2>1, BoundsAssumption DEF CatalogInit, CatalogTypeOK, Empty
  <2>3. CommitsIssued
    BY DEF ThreadInit, CommitsIssued, IssuedFor, Idle
  <2>4. QED  BY <2>1, <2>2, <2>3, ThreadStart DEF TablesInv
<1>2. QED  BY <1>1, TablesKept, PTL DEF ThreadSpec, CatalogSpec

=============================================================================
