-------------------------------- MODULE Rbac --------------------------------
(***************************************************************************)
(* Access tokens: the RbacToken table (RbacTokenManager), the token cache   *)
(* inside IdCache and the calls of RbacTokenService, made by several host   *)
(* threads.                                                                 *)
(*                                                                         *)
(* One permission column stands for the eight: they are read, written and   *)
(* cached together.  A call is atomic where the code holds cacheMutex or    *)
(* a transaction throughout; getRbacToken reads the table and fills the     *)
(* cache in two steps, since deleteToken and updateToken write the table    *)
(* without taking cacheMutex.                                               *)
(***************************************************************************)
EXTENDS Integers, Tables

CONSTANTS
    Threads,
    Tokens,       \* token strings
    Permissions,
    ExpireDays,   \* values callers pass as expire_days; 0 asks for the default
    DefaultDays,  \* Config::getDefaultTokenExpireDays()
    Day,          \* seconds in a day
    IntMax,       \* largest value of a C++ int
    MaxTime,      \* bound: the clock reads 0..MaxTime
    MaxToken      \* bound: rows ever inserted into RbacToken

ASSUME NumbersAssumption ==
    /\ ExpireDays \subseteq Nat
    /\ DefaultDays \in Nat /\ Day \in Nat \ {0} /\ IntMax \in Nat
    /\ MaxTime \in Nat /\ MaxToken \in Nat

VARIABLES
    rows,            \* RbacToken: id -> [id, token, perm, expire]
    seq,             \* AUTOINCREMENT counter
    now,             \* getCurrentTimeUTC(); the wall clock may be set back
    rbacTokenCache,  \* token -> the row last fetched for it
    cacheMutex,      \* the thread that holds it, or Nobody
    call,            \* thread -> the call it is in
    deleted,         \* tokens deleted and not issued again, ...
    revoked          \* ... and those of them whose deletion a clean() followed

tokenVars == <<rows, seq, now, rbacTokenCache, cacheMutex, call, deleted, revoked>>

CONSTANT Nobody
ASSUME NobodyAssumption == Nobody \notin Threads

RowId   == 1..MaxToken
Idle    == [pc |-> "idle"]
Expires == (-IntMax - 1)..(MaxTime + IntMax)

(* What updateToken's JSON may ask for: new permissions or a new expiry. *)
Change == [perm : Permissions] \cup [expire : 0..MaxTime]
Changed(row, c) ==
    IF "perm" \in DOMAIN c THEN [row EXCEPT !.perm = c.perm]
    ELSE [row EXCEPT !.expire = c.expire]

(* The product of two ints, wrapped as the build does on overflow. *)
IntProduct(a, b) ==
    LET width == 2 * IntMax + 2
        p == (a * b) % width
    IN  IF p > IntMax THEN p - width ELSE p

(* RbacToken::isExpire *)
isExpire(row) == now > row.expire

(* getTokenByToken: the rows it may return. *)
Found(k) == {r \in {rows[i] : i \in DOMAIN rows} : r.token = k /\ r.expire > now}

----------------------------------------------------------------------------
(* IdCache::getRbacToken, in a thread whose call goes on with "next".       *)

Return(t, row, next) ==
    call' = [call EXCEPT ![t] =
               IF next.pc = "write" THEN [next EXCEPT !.row = row] ELSE Idle]

Throw(t) == call' = [call EXCEPT ![t] = Idle]

(* It takes cacheMutex; a hit answers from the cache ... *)
Hit(t, k, next) ==
    /\ cacheMutex = Nobody
    /\ k \in DOMAIN rbacTokenCache
    /\ ~isExpire(rbacTokenCache[k])
    /\ Return(t, rbacTokenCache[k], next)
    /\ UNCHANGED <<rows, seq, now, rbacTokenCache, cacheMutex, deleted, revoked>>

(* ... an expired entry is erased, and a miss reads the table ... *)
FetchUnlocked(t, k, next) ==   \* faulty variant: the lock covers the find only
    /\ cacheMutex = Nobody
    /\ k \in DOMAIN rbacTokenCache => isExpire(rbacTokenCache[k])
    /\ rbacTokenCache' = Drop(rbacTokenCache, {k})
    /\ \E r \in Found(k) :
         call' = [call EXCEPT ![t] = [pc |-> "fill", row |-> r, next |-> next]]
    /\ UNCHANGED <<rows, seq, now, cacheMutex, deleted, revoked>>
Fetch(t, k, next) ==
    /\ cacheMutex = Nobody
    /\ k \in DOMAIN rbacTokenCache => isExpire(rbacTokenCache[k])
    /\ rbacTokenCache' = Drop(rbacTokenCache, {k})
    /\ \/ /\ \E r \in Found(k) :
               call' = [call EXCEPT ![t] = [pc |-> "fill", row |-> r, next |-> next]]
          /\ cacheMutex' = t
       \/ /\ Found(k) = {}
          /\ Throw(t)
          /\ UNCHANGED cacheMutex
    /\ UNCHANGED <<rows, seq, now, deleted, revoked>>

(* ... and fills the cache, before it releases the mutex. *)
Fill(t) ==
    /\ call[t].pc = "fill"
    /\ LET r == call[t].row
       IN  /\ rbacTokenCache' = Put(rbacTokenCache, r.token, r)
           /\ Return(t, r, call[t].next)
    /\ cacheMutex' = Nobody
    /\ UNCHANGED <<rows, seq, now, deleted, revoked>>

getRbacToken(t, k, next) == Hit(t, k, next) \/ Fetch(t, k, next)

----------------------------------------------------------------------------
(* Calls. *)

(* get...Permission(token) *)
getPermission(t, k) ==
    /\ call[t] = Idle
    /\ getRbacToken(t, k, Idle)

(* newToken: the caller may pass a token string, issued already or not. *)
newToken(t, k, p, days) ==
    /\ call[t] = Idle
    /\ seq < MaxToken
    /\ seq' = seq + 1
    /\ LET d == IF days = 0 THEN DefaultDays ELSE days
       IN  rows' = Put(rows, seq + 1,
                       [id |-> seq + 1, token |-> k, perm |-> p,
                        expire |-> now + IntProduct(d, Day)])
    /\ deleted' = deleted \ {k}
    /\ revoked' = revoked \ {k}
    /\ UNCHANGED <<now, rbacTokenCache, cacheMutex, call>>

(* updateToken reads the token through the cache ... *)
updateToken(t, k, c) ==
    /\ call[t] = Idle
    /\ getRbacToken(t, k, [pc |-> "write", change |-> c, row |-> Nobody])

(* ... writes the whole row back under its id, if the row still exists ...  *)
Replace(t) ==   \* faulty variant: INSERT OR REPLACE
    /\ call[t].pc = "write"
    /\ LET r == Changed(call[t].row, call[t].change)
       IN  /\ rows' = Put(rows, r.id, r)
           /\ call' = [call EXCEPT ![t] = [pc |-> "refresh", token |-> r.token]]
    /\ UNCHANGED <<seq, now, rbacTokenCache, cacheMutex, deleted, revoked>>
Write(t) ==
    /\ call[t].pc = "write"
    /\ LET r == Changed(call[t].row, call[t].change)
       IN  /\ rows' = IF r.id \in DOMAIN rows THEN [rows EXCEPT ![r.id] = r] ELSE rows
           /\ call' = [call EXCEPT ![t] = [pc |-> "refresh", token |-> r.token]]
    /\ UNCHANGED <<seq, now, rbacTokenCache, cacheMutex, deleted, revoked>>

(* ... and looks the token up again "to update the cache". *)
Refresh(t) ==
    /\ call[t].pc = "refresh"
    /\ getRbacToken(t, call[t].token, Idle)

(* deleteToken, with every row of that token string. *)
deleteToken(t, k) ==
    /\ call[t] = Idle
    /\ rows' = Drop(rows, {i \in DOMAIN rows : rows[i].token = k})
    /\ deleted' = deleted \cup {k}
    /\ UNCHANGED <<seq, now, rbacTokenCache, cacheMutex, call, revoked>>

(* RbacTokenManager::deleteAllExpireTokens *)
PurgeAtExpiry(t) ==   \* faulty variant: <= for <
    /\ call[t] = Idle
    /\ rows' = Drop(rows, {i \in DOMAIN rows : rows[i].expire <= now})
    /\ UNCHANGED <<seq, now, rbacTokenCache, cacheMutex, call, deleted, revoked>>
deleteAllExpireTokens(t) ==
    /\ call[t] = Idle
    /\ rows' = Drop(rows, {i \in DOMAIN rows : rows[i].expire < now})
    /\ UNCHANGED <<seq, now, rbacTokenCache, cacheMutex, call, deleted, revoked>>

(* IdCache::clean, called by every change of a version and by deleteSpace.  *)
clean(t) ==
    /\ call[t] = Idle
    /\ cacheMutex = Nobody
    /\ rbacTokenCache' = Empty
    /\ revoked' = revoked \cup deleted
    /\ UNCHANGED <<rows, seq, now, cacheMutex, call, deleted>>

SetClock ==
    /\ now' \in 0..MaxTime
    /\ UNCHANGED <<rows, seq, rbacTokenCache, cacheMutex, call, deleted, revoked>>

----------------------------------------------------------------------------
Init ==
    /\ rows = Empty /\ seq = 0
    /\ now = 0
    /\ rbacTokenCache = Empty
    /\ cacheMutex = Nobody
    /\ call = [t \in Threads |-> Idle]
    /\ deleted = {} /\ revoked = {}
Issue(t)  == \E k \in Tokens, p \in Permissions, d \in ExpireDays : newToken(t, k, p, d)
Look(t)   == \E k \in Tokens : getPermission(t, k)
Update(t) == \/ \E k \in Tokens, c \in Change : updateToken(t, k, c)
             \/ Write(t)
             \/ Refresh(t)
Revoke(t) == (\E k \in Tokens : deleteToken(t, k)) \/ deleteAllExpireTokens(t)

Next == SetClock \/ \E t \in Threads :
                      Issue(t) \/ Look(t) \/ Fill(t) \/ Update(t) \/ Revoke(t) \/ clean(t)
Spec == Init /\ [][Next]_tokenVars

----------------------------------------------------------------------------
(* Properties. *)

Row == [id : RowId, token : Tokens, perm : Permissions, expire : Expires]

TypeOK ==
    /\ seq \in 0..MaxToken
    /\ DOMAIN rows \subseteq 1..seq
    /\ \A i \in DOMAIN rows : rows[i] \in Row /\ rows[i].id = i
    /\ now \in 0..MaxTime
    /\ DOMAIN rbacTokenCache \subseteq Tokens
    /\ \A k \in DOMAIN rbacTokenCache : rbacTokenCache[k] \in Row
    /\ cacheMutex \in Threads \cup {Nobody}
    /\ \A t \in Threads : cacheMutex = t <=> call[t].pc = "fill"
    /\ revoked \subseteq deleted /\ deleted \subseteq Tokens

(* A token deleted before IdCache::clean and not issued again since is gone *)
(* for good: neither a lookup that was under way nor an update that had     *)
(* already read the row brings it back, in the table or in the cache.       *)
RevokedStaysRevoked ==
    \A k \in revoked :
        /\ k \notin DOMAIN rbacTokenCache
        /\ \A i \in DOMAIN rows : rows[i].token # k

(* A row that isExpire() would still accept leaves the table only by        *)
(* deleteToken: the purge uses its own comparison with the clock.           *)
OnlyExpiredArePurged ==
    [][\A i \in DOMAIN rows :
         ~isExpire(rows[i]) /\ i \notin DOMAIN rows'
         => \E t \in Threads : deleteToken(t, rows[i].token)]_tokenVars

Quiet == \A t \in Threads : call[t] = Idle

(* After deleteToken a lookup of the token throws                           *)
(* (RbacTokenServiceTest.DeleteToken).                                      *)
DeletedTokenThrows ==
    Quiet => \A k \in deleted :
               k \in DOMAIN rbacTokenCache => isExpire(rbacTokenCache[k])
=============================================================================
