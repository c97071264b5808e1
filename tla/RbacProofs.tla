----------------------------- MODULE RbacProofs -----------------------------
(***************************************************************************)
(* Proofs about Rbac, for every number of threads, tokens and rows, every   *)
(* clock and every width of an int.                                         *)
(***************************************************************************)
EXTENDS Rbac, TLAPS

(* What a thread's call is, between two steps. *)
Pending     == [pc : {"write"}, change : Change, row : {Nobody}]
NextCall    == {Idle} \cup Pending
FillCall    == [pc : {"fill"}, row : Row, next : NextCall]
WriteCall   == [pc : {"write"}, change : Change, row : Row]
RefreshCall == [pc : {"refresh"}, token : Tokens]
Call        == {Idle} \cup FillCall \cup WriteCall \cup RefreshCall

CallsOK == call \in [Threads -> Call]

(* A row somebody has read: its id was issued, and names the same token as  *)
(* long as it is in the table.                                              *)
Current(r) == r.id \in 1..seq /\ (r.id \in DOMAIN rows => rows[r.id].token = r.token)

(* The cache files a row under its token, and the tokens it has were not    *)
(* revoked; nor were those a lookup is about to put there.                  *)
CacheOK ==
    /\ \A k \in DOMAIN rbacTokenCache : rbacTokenCache[k].token = k /\ Current(rbacTokenCache[k])
    /\ \A k \in revoked : k \notin DOMAIN rbacTokenCache
HeldOK ==
    /\ \A t \in Threads : call[t].pc \in {"fill", "write"} => Current(call[t].row)
    /\ \A t \in Threads : call[t].pc = "fill" => call[t].row.token \notin revoked
DeletedOK == \A k \in deleted : \A i \in DOMAIN rows : rows[i].token # k

TypesOK == TypeOK /\ CallsOK
RbacInv == TypesOK /\ CacheOK /\ HeldOK /\ DeletedOK

----------------------------------------------------------------------------
(* The wrapped product of two ints is an int. *)
LEMMA ProductIsInt ==
    ASSUME NEW a \in Nat, NEW b \in Nat
    PROVE  IntProduct(a, b) \in (-IntMax - 1)..IntMax
<1> DEFINE width == 2 * IntMax + 2
           p == (a * b) % width
<1>1. width \in Nat \ {0} /\ IntMax \in Nat
  BY NumbersAssumption
<1>2. a * b \in Nat
  OBVIOUS
<1>3. p \in 0..(width - 1)
  <2> DEFINE n == a * b
  <2>1. n \in Nat  BY <1>2
  <2>2. n % width \in 0..(width - 1)
    <3> HIDE DEF n, width
    <3> QED  BY <1>1, <2>1
  <2>3. QED  BY <2>2
<1>4. IntProduct(a, b) = IF p > IntMax THEN p - width ELSE p
  BY DEF IntProduct
<1> HIDE DEF p
<1>5. QED  BY <1>1, <1>3, <1>4

(* What updateToken changes is neither the id nor the token. *)
LEMMA ChangedRow ==
    ASSUME NEW r \in Row, NEW c \in Change
    PROVE  /\ Changed(r, c) \in Row
           /\ Changed(r, c).id = r.id
           /\ Changed(r, c).token = r.token
<1>1. \A x \in 0..MaxTime : x \in Expires
  BY NumbersAssumption DEF Expires
<1>2. CASE c \in [perm : Permissions]
  BY <1>2 DEF Changed, Row
<1>3. CASE c \in [expire : 0..MaxTime]
  BY <1>1, <1>3 DEF Changed, Row
<1>4. QED  BY <1>2, <1>3 DEF Change

(* The new row of newToken is typed, whatever the product wraps to. *)
LEMMA NewRow ==
    ASSUME TypeOK, NEW k \in Tokens, NEW p \in Permissions, NEW days \in ExpireDays,
           seq < MaxToken
    PROVE  [id |-> seq + 1, token |-> k, perm |-> p,
            expire |-> now + IntProduct(IF days = 0 THEN DefaultDays ELSE days, Day)] \in Row
<1> DEFINE d == IF days = 0 THEN DefaultDays ELSE days
<1>1. d \in Nat /\ Day \in Nat
  BY NumbersAssumption
<1>2. IntProduct(d, Day) \in (-IntMax - 1)..IntMax
  <2> HIDE DEF d
  <2> QED  BY <1>1, ProductIsInt
<1> HIDE DEF d
<1>3. now \in 0..MaxTime /\ seq \in 0..MaxToken /\ IntMax \in Nat /\ MaxTime \in Nat /\ MaxToken \in Nat
  BY NumbersAssumption DEF TypeOK
<1>4. now + IntProduct(d, Day) \in Expires
  BY <1>2, <1>3 DEF Expires
<1>5. seq + 1 \in RowId
  BY <1>3 DEF RowId
<1>6. QED  BY <1>4, <1>5 DEF Row, d

----------------------------------------------------------------------------
(* The parts of getRbacToken. *)

Moved(t, pcs) ==
    /\ CallsOK'
    /\ call'[t].pc \in pcs
    /\ \A u \in Threads \ {t} : call'[u] = call[u]

(* A lookup's end leaves the thread idle, or holding the row to update. *)
LEMMA Returned ==
    ASSUME CallsOK, NEW t \in Threads, NEW r \in Row, NEW next \in NextCall, Return(t, r, next)
    PROVE  /\ Moved(t, {"idle", "write"})
           /\ call'[t].pc = "write" => call'[t].row = r
<1> DEFINE c == IF next.pc = "write" THEN [next EXCEPT !.row = r] ELSE Idle
<1>1. call' = [call EXCEPT ![t] = c]
  BY DEF Return
<1>2. c \in Call /\ c.pc \in {"idle", "write"} /\ (c.pc = "write" => c.row = r)
  <2>1. CASE next = Idle
    BY <2>1 DEF Idle, Call
  <2>2. CASE next \in Pending
    <3>1. [next EXCEPT !.row = r] \in WriteCall /\ [next EXCEPT !.row = r].row = r
      BY <2>2 DEF Pending, WriteCall
    <3>2. next.pc = "write"
      BY <2>2 DEF Pending
    <3>3. QED  BY <3>1, <3>2 DEF WriteCall, Call
  <2>3. QED  BY <2>1, <2>2 DEF NextCall
<1> HIDE DEF c
<1>3. QED  BY <1>1, <1>2 DEF CallsOK, Moved

(* An exception leaves the thread idle. *)
LEMMA Thrown ==
    ASSUME CallsOK, NEW t \in Threads, Throw(t)
    PROVE  Moved(t, {"idle"})
BY DEF Throw, CallsOK, Moved, Call, Idle

(* A miss leaves the thread with the row it has found. *)
LEMMA Fetched ==
    ASSUME CallsOK, NEW t \in Threads, NEW r \in Row, NEW next \in NextCall,
           call' = [call EXCEPT ![t] = [pc |-> "fill", row |-> r, next |-> next]]
    PROVE  Moved(t, {"fill"}) /\ call'[t].row = r
<1> DEFINE c == [pc |-> "fill", row |-> r, next |-> next]
<1>1. c \in Call /\ c.pc = "fill" /\ c.row = r
  BY DEF FillCall, Call
<1>2. call' = [call EXCEPT ![t] = c]
  OBVIOUS
<1> HIDE DEF c
<1>3. QED  BY <1>1, <1>2 DEF CallsOK, Moved

(* What a lookup has found in the table. *)
LEMMA FoundRow ==
    ASSUME TypeOK, NEW k, NEW r \in Found(k)
    PROVE  /\ r \in Row /\ r.token = k /\ Current(r)
           /\ \E i \in DOMAIN rows : rows[i] = r
BY DEF Found, TypeOK, Current

(* The steps a lookup can make when it takes the mutex. *)
LookedUp(t, k) ==
    /\ cacheMutex = Nobody
    /\ \/ /\ k \in DOMAIN rbacTokenCache
          /\ rbacTokenCache' = rbacTokenCache /\ cacheMutex' = Nobody
          /\ Moved(t, {"idle", "write"})
          /\ call'[t].pc = "write" => call'[t].row = rbacTokenCache[k]
       \/ /\ rbacTokenCache' = Drop(rbacTokenCache, {k}) /\ cacheMutex' = t
          /\ Moved(t, {"fill"}) /\ call'[t].row \in Found(k)
       \/ /\ rbacTokenCache' = Drop(rbacTokenCache, {k}) /\ cacheMutex' = Nobody
          /\ Moved(t, {"idle"})
    /\ UNCHANGED <<rows, seq, now, deleted, revoked>>

(* getRbacToken does one of them. *)
LEMMA LookUp ==
    ASSUME TypesOK, NEW t \in Threads, NEW k \in Tokens, NEW next \in NextCall,
           getRbacToken(t, k, next)
    PROVE  LookedUp(t, k)
<1>0. TypeOK /\ CallsOK
  BY DEF TypesOK
<1>1. CASE Hit(t, k, next)
  <2>1. /\ cacheMutex = Nobody /\ k \in DOMAIN rbacTokenCache
        /\ Return(t, rbacTokenCache[k], next)
        /\ UNCHANGED <<rows, seq, now, rbacTokenCache, cacheMutex, deleted, revoked>>
    BY <1>1 DEF Hit
  <2>2. rbacTokenCache[k] \in Row
    BY <1>0, <2>1 DEF TypeOK
  <2>3. QED  BY <1>0, <2>1, <2>2, Returned DEF LookedUp
<1>2. CASE Fetch(t, k, next)
  <2>1. /\ cacheMutex = Nobody
        /\ rbacTokenCache' = Drop(rbacTokenCache, {k})
        /\ UNCHANGED <<rows, seq, now, deleted, revoked>>
    BY <1>2 DEF Fetch
  <2>2. ASSUME NEW r \in Found(k), cacheMutex' = t,
               call' = [call EXCEPT ![t] = [pc |-> "fill", row |-> r, next |-> next]]
        PROVE  LookedUp(t, k)
    <3>1. r \in Row
      BY <1>0, FoundRow
    <3>2. Moved(t, {"fill"}) /\ call'[t].row = r
      <4> HIDE DEF NextCall
      <4> QED  BY <1>0, <2>2, <3>1, Fetched
    <3>3. QED  BY <2>1, <2>2, <3>2 DEF LookedUp
  <2>3. ASSUME Throw(t), UNCHANGED cacheMutex PROVE LookedUp(t, k)
    BY <1>0, <2>1, <2>3, Thrown DEF LookedUp
  <2>4. QED  BY <1>2, <2>2, <2>3 DEF Fetch
<1>3. QED  BY <1>1, <1>2 DEF getRbacToken

----------------------------------------------------------------------------
(* A lookup answers from the cache or is about to fill it with a row it has *)
(* read, of a token that was not revoked.                                   *)
LEMMA LookUpKeeps ==
    ASSUME RbacInv, NEW t \in Threads, NEW k \in Tokens, LookedUp(t, k),
           call[t].pc # "fill"
    PROVE  RbacInv'
<1>0. TypeOK /\ CallsOK /\ CacheOK /\ HeldOK /\ DeletedOK
  BY DEF RbacInv, TypesOK
<1>n. Nobody \notin Threads
  BY NobodyAssumption
<1>c. /\ DOMAIN rbacTokenCache' \subseteq DOMAIN rbacTokenCache
      /\ \A x \in DOMAIN rbacTokenCache' : rbacTokenCache'[x] = rbacTokenCache[x]
  BY DEF LookedUp, Drop, Restrict
<1>s. CallsOK' /\ \A u \in Threads \ {t} : call'[u] = call[u]
  BY DEF LookedUp, Moved
<1>u. rows' = rows /\ seq' = seq /\ now' = now /\ deleted' = deleted /\ revoked' = revoked
  BY DEF LookedUp
<1>m. /\ cacheMutex = Nobody
      /\ \/ cacheMutex' = t /\ call'[t].pc = "fill"
         \/ cacheMutex' = Nobody /\ call'[t].pc # "fill"
  BY DEF LookedUp, Moved
<1>1. TypeOK'
  <2>1. \A u \in Threads : cacheMutex' = u <=> call'[u].pc = "fill"
    BY <1>0, <1>n, <1>s, <1>m DEF TypeOK
  <2>2. cacheMutex' \in Threads \cup {Nobody}
    BY <1>m
  <2>3. /\ DOMAIN rbacTokenCache' \subseteq Tokens
        /\ \A x \in DOMAIN rbacTokenCache' : rbacTokenCache'[x] \in Row
    BY <1>0, <1>c DEF TypeOK
  <2>4. QED  BY <1>0, <1>u, <2>1, <2>2, <2>3 DEF TypeOK
<1>2. CacheOK'
  BY <1>0, <1>c, <1>u DEF CacheOK, Current
<1>3. HeldOK'
  <2>1. call'[t].pc \in {"fill", "write"} => Current(call'[t].row)
    BY <1>0, FoundRow DEF LookedUp, Moved, CacheOK
  <2>2. call'[t].pc = "fill" => call'[t].row.token \notin revoked
    <3> SUFFICES ASSUME call'[t].pc = "fill" PROVE call'[t].row.token \notin revoked
      OBVIOUS
    <3>1. call'[t].row \in Found(k)
      BY DEF LookedUp, Moved
    <3>2. call'[t].row.token \notin deleted
      BY <1>0, <3>1, FoundRow DEF DeletedOK
    <3>3. QED  BY <1>0, <3>2 DEF TypeOK
  <2>3. QED  BY <1>0, <1>s, <1>u, <2>1, <2>2 DEF HeldOK, Current
<1>4. DeletedOK'
  BY <1>0, <1>u DEF DeletedOK
<1>5. QED  BY <1>s, <1>1, <1>2, <1>3, <1>4 DEF RbacInv, TypesOK

(* fill: the row goes into the cache before clean() can have run, so its    *)
(* token was not revoked.                                                   *)
LEMMA FillKeeps ==
    ASSUME RbacInv, NEW t \in Threads, Fill(t)
    PROVE  RbacInv'
<1> DEFINE r == call[t].row
<1>0. TypeOK /\ CallsOK /\ CacheOK /\ HeldOK /\ DeletedOK
  BY DEF RbacInv, TypesOK
<1>n. Nobody \notin Threads
  BY NobodyAssumption
<1>1. call[t].pc = "fill" /\ cacheMutex = t /\ cacheMutex' = Nobody
  BY <1>0 DEF Fill, TypeOK
<1>2. call[t] \in FillCall
  BY <1>0, <1>1 DEF CallsOK, Call, Idle, WriteCall, RefreshCall
<1>3. r \in Row /\ r.token \in Tokens /\ call[t].next \in NextCall
  BY <1>2 DEF FillCall, Row
<1>4. Current(r) /\ r.token \notin revoked
  BY <1>0, <1>1 DEF HeldOK
<1>5. /\ rbacTokenCache' = Put(rbacTokenCache, r.token, r)
      /\ rows' = rows /\ seq' = seq /\ now' = now /\ deleted' = deleted /\ revoked' = revoked
      /\ Return(t, r, call[t].next)
  BY DEF Fill
<1>6. /\ Moved(t, {"idle", "write"})
      /\ call'[t].pc = "write" => call'[t].row = r
  BY <1>0, <1>3, <1>5, Returned
<1> HIDE DEF r
<1>c. /\ DOMAIN rbacTokenCache' = DOMAIN rbacTokenCache \cup {r.token}
      /\ rbacTokenCache'[r.token] = r
      /\ \A x \in DOMAIN rbacTokenCache : x # r.token => rbacTokenCache'[x] = rbacTokenCache[x]
  BY <1>5 DEF Put
<1>7. TypeOK'
  <2>1. \A u \in Threads : cacheMutex' = u <=> call'[u].pc = "fill"
    BY <1>0, <1>n, <1>1, <1>6 DEF TypeOK, Moved
  <2>2. /\ DOMAIN rbacTokenCache' \subseteq Tokens
        /\ \A x \in DOMAIN rbacTokenCache' : rbacTokenCache'[x] \in Row
    BY <1>0, <1>c, <1>3 DEF TypeOK
  <2>3. QED  BY <1>0, <1>1, <1>5, <2>1, <2>2 DEF TypeOK
<1>8. CacheOK'
  BY <1>0, <1>4, <1>5, <1>c DEF CacheOK, Current
<1>9. HeldOK'
  BY <1>0, <1>4, <1>5, <1>6 DEF HeldOK, Current, Moved
<1>10. DeletedOK'
  BY <1>0, <1>5 DEF DeletedOK
<1>11. QED  BY <1>6, <1>7, <1>8, <1>9, <1>10 DEF RbacInv, TypesOK, Moved

----------------------------------------------------------------------------
(* The other steps keep it too. *)

(* newToken: the id is new, so that it is nobody's row. *)
LEMMA NewTokenKeeps ==
    ASSUME RbacInv, NEW t \in Threads, NEW k \in Tokens, NEW p \in Permissions,
           NEW days \in ExpireDays, newToken(t, k, p, days)
    PROVE  RbacInv'
<1> DEFINE new == [id |-> seq + 1, token |-> k, perm |-> p,
                   expire |-> now + IntProduct(IF days = 0 THEN DefaultDays ELSE days, Day)]
<1>0. TypeOK /\ CallsOK /\ CacheOK /\ HeldOK /\ DeletedOK
  BY DEF RbacInv, TypesOK
<1>1. new \in Row /\ new.id = seq + 1 /\ new.token = k
  BY <1>0, NewRow DEF newToken
<1>2. /\ rows' = Put(rows, seq + 1, new) /\ seq' = seq + 1 /\ seq < MaxToken
      /\ deleted' = deleted \ {k} /\ revoked' = revoked \ {k}
      /\ now' = now /\ rbacTokenCache' = rbacTokenCache /\ cacheMutex' = cacheMutex /\ call' = call
  BY DEF newToken
<1> HIDE DEF new
<1>3. /\ DOMAIN rows' = DOMAIN rows \cup {seq + 1}
      /\ rows'[seq + 1] = new
      /\ seq \in Nat /\ seq + 1 \notin DOMAIN rows
      /\ \A i \in DOMAIN rows : rows'[i] = rows[i]
  BY <1>0, <1>2 DEF Put, TypeOK
<1>4. TypeOK'
  <2>1. seq' \in 0..MaxToken /\ DOMAIN rows' \subseteq 1..seq'
    BY <1>0, <1>2, <1>3, NumbersAssumption DEF TypeOK
  <2>2. \A i \in DOMAIN rows' : rows'[i] \in Row /\ rows'[i].id = i
    BY <1>0, <1>1, <1>3 DEF TypeOK
  <2>3. QED  BY <1>0, <1>2, <2>1, <2>2 DEF TypeOK
<1>5. \A r : Current(r) => Current(r)'
  BY <1>2, <1>3 DEF Current
<1>6. CacheOK' /\ HeldOK'
  BY <1>0, <1>2, <1>5 DEF CacheOK, HeldOK
<1>7. DeletedOK'
  BY <1>0, <1>1, <1>2, <1>3 DEF DeletedOK
<1>8. QED  BY <1>0, <1>2, <1>4, <1>6, <1>7 DEF RbacInv, TypesOK, CallsOK

(* updateToken's write: the row it replaces has the same token. *)
LEMMA WriteKeeps ==
    ASSUME RbacInv, NEW t \in Threads, Write(t)
    PROVE  RbacInv'
<1> DEFINE r == Changed(call[t].row, call[t].change)
           c == [pc |-> "refresh", token |-> r.token]
<1>0. TypeOK /\ CallsOK /\ CacheOK /\ HeldOK /\ DeletedOK
  BY DEF RbacInv, TypesOK
<1>1. call[t].pc = "write"
  BY DEF Write
<1>2. call[t] \in WriteCall
  BY <1>0, <1>1 DEF CallsOK, Call, Idle, FillCall, RefreshCall
<1>3. call[t].row \in Row /\ call[t].change \in Change
  BY <1>2 DEF WriteCall
<1>4. r \in Row /\ r.id = call[t].row.id /\ r.token = call[t].row.token
  BY <1>3, ChangedRow
<1>5. r.id \in DOMAIN rows => rows[r.id].token = r.token
  BY <1>0, <1>1, <1>4 DEF HeldOK, Current
<1>6. c \in Call /\ c.pc = "refresh"
  <2> HIDE DEF r
  <2>1. r.token \in Tokens
    BY <1>4 DEF Row
  <2>2. QED  BY <2>1 DEF Call, RefreshCall
<1>7. /\ rows' = IF r.id \in DOMAIN rows THEN [rows EXCEPT ![r.id] = r] ELSE rows
      /\ call' = [call EXCEPT ![t] = c]
      /\ seq' = seq /\ now' = now /\ rbacTokenCache' = rbacTokenCache
      /\ cacheMutex' = cacheMutex /\ deleted' = deleted /\ revoked' = revoked
  BY DEF Write
<1> HIDE DEF r, c
<1>8. /\ DOMAIN rows' = DOMAIN rows
      /\ \A i \in DOMAIN rows : rows'[i] = rows[i] \/ (i = r.id /\ rows'[i] = r)
      /\ \A i \in DOMAIN rows : rows'[i].token = rows[i].token
  BY <1>5, <1>7
<1>9. /\ CallsOK' /\ call'[t].pc = "refresh"
      /\ \A u \in Threads \ {t} : call'[u] = call[u]
  BY <1>0, <1>6, <1>7 DEF CallsOK
<1>10. TypeOK'
  <2>1. \A u \in Threads : cacheMutex' = u <=> call'[u].pc = "fill"
    BY <1>0, <1>1, <1>7, <1>9 DEF TypeOK
  <2>2. \A i \in DOMAIN rows' : rows'[i] \in Row /\ rows'[i].id = i
    BY <1>0, <1>4, <1>8 DEF TypeOK
  <2>3. QED  BY <1>0, <1>7, <1>8, <2>1, <2>2 DEF TypeOK
<1>11. \A x : Current(x) => Current(x)'
  BY <1>7, <1>8 DEF Current
<1>12. CacheOK' /\ HeldOK'
  BY <1>0, <1>7, <1>9, <1>11 DEF CacheOK, HeldOK
<1>13. DeletedOK'
  BY <1>0, <1>7, <1>8 DEF DeletedOK
<1>14. QED  BY <1>9, <1>10, <1>12, <1>13 DEF RbacInv, TypesOK

(* Rows that go leave everything else as it was. *)
LEMMA DropKeeps ==
    ASSUME RbacInv, NEW S, rows' = Drop(rows, S), NEW gone \in SUBSET Tokens,
           deleted' = deleted \cup gone, \A i \in DOMAIN rows : rows[i].token \in gone => i \in S,
           UNCHANGED <<seq, now, rbacTokenCache, cacheMutex, call, revoked>>
    PROVE  RbacInv'
<1>0. TypeOK /\ CallsOK /\ CacheOK /\ HeldOK /\ DeletedOK
  BY DEF RbacInv, TypesOK
<1>1. /\ DOMAIN rows' = DOMAIN rows \ S
      /\ \A i \in DOMAIN rows' : rows'[i] = rows[i]
  BY DEF Drop, Restrict
<1>2. TypeOK' /\ CallsOK'
  BY <1>0, <1>1 DEF TypeOK, CallsOK
<1>3. \A x : Current(x) => Current(x)'
  BY <1>1 DEF Current
<1>4. CacheOK' /\ HeldOK'
  BY <1>0, <1>3 DEF CacheOK, HeldOK
<1>5. DeletedOK'
  BY <1>0, <1>1 DEF DeletedOK
<1>6. QED  BY <1>2, <1>4, <1>5 DEF RbacInv, TypesOK

(* clean() holds cacheMutex: no lookup is between its query and its fill.   *)
LEMMA CleanKeeps ==
    ASSUME RbacInv, NEW t \in Threads, clean(t)
    PROVE  RbacInv'
<1>0. TypeOK /\ CallsOK /\ CacheOK /\ HeldOK /\ DeletedOK
  BY DEF RbacInv, TypesOK
<1>1. DOMAIN rbacTokenCache' = {}
  BY DEF clean, Empty
<1>2. TypeOK' /\ CallsOK' /\ CacheOK' /\ DeletedOK'
  BY <1>0, <1>1 DEF clean, TypeOK, CallsOK, CacheOK, DeletedOK
<1>3. \A u \in Threads : call[u].pc # "fill"
  BY <1>0, NobodyAssumption DEF clean, TypeOK
<1>4. HeldOK'
  BY <1>0, <1>3 DEF clean, HeldOK, Current
<1>5. QED  BY <1>2, <1>4 DEF RbacInv, TypesOK

(* No step breaks the invariant. *)
LEMMA RbacInvStep == RbacInv /\ [Next]_tokenVars => RbacInv'
<1> SUFFICES ASSUME RbacInv, [Next]_tokenVars PROVE RbacInv'
  OBVIOUS
<1>0. TypesOK /\ TypeOK /\ CallsOK
  BY DEF RbacInv, TypesOK
<1>1. ASSUME NEW t \in Threads, Issue(t) PROVE RbacInv'
  BY <1>1, NewTokenKeeps DEF Issue
<1>2. ASSUME NEW t \in Threads, Look(t) PROVE RbacInv'
  <2>1. PICK k \in Tokens : call[t] = Idle /\ getRbacToken(t, k, Idle)
    BY <1>2 DEF Look, getPermission
  <2>2. Idle \in NextCall /\ call[t].pc # "fill"
    BY <2>1 DEF NextCall, Idle
  <2>3. QED  BY <1>0, <2>1, <2>2, LookUp, LookUpKeeps
<1>3. ASSUME NEW t \in Threads, NEW k \in Tokens, NEW c \in Change, updateToken(t, k, c)
      PROVE  RbacInv'
  <2> DEFINE next == [pc |-> "write", change |-> c, row |-> Nobody]
  <2>1. call[t] = Idle /\ getRbacToken(t, k, next)
    BY <1>3 DEF updateToken
  <2>2. next \in NextCall /\ call[t].pc # "fill"
    BY <2>1 DEF NextCall, Pending, Idle
  <2> HIDE DEF next
  <2>3. QED  BY <1>0, <2>1, <2>2, LookUp, LookUpKeeps
<1>4. ASSUME NEW t \in Threads, Refresh(t) PROVE RbacInv'
  <2>1. call[t].pc = "refresh" /\ getRbacToken(t, call[t].token, Idle)
    BY <1>4 DEF Refresh
  <2>2. call[t] \in RefreshCall
    BY <1>0, <2>1 DEF CallsOK, Call, Idle, FillCall, WriteCall
  <2>3. call[t].token \in Tokens /\ Idle \in NextCall
    BY <2>2 DEF RefreshCall, NextCall
  <2>4. QED  BY <1>0, <2>1, <2>3, LookUp, LookUpKeeps
<1>5. ASSUME NEW t \in Threads, Update(t) PROVE RbacInv'
  BY <1>3, <1>4, <1>5, WriteKeeps DEF Update
<1>6. ASSUME NEW t \in Threads, NEW k \in Tokens, deleteToken(t, k) PROVE RbacInv'
  <2> DEFINE S == {i \in DOMAIN rows : rows[i].token = k}
  <2>1. rows' = Drop(rows, S) /\ deleted' = deleted \cup {k}
    BY <1>6 DEF deleteToken
  <2>2. UNCHANGED <<seq, now, rbacTokenCache, cacheMutex, call, revoked>>
    BY <1>6 DEF deleteToken
  <2>3. \A i \in DOMAIN rows : rows[i].token \in {k} => i \in S
    OBVIOUS
  <2> HIDE DEF S
  <2>4. QED  BY <2>1, <2>2, <2>3, DropKeeps
<1>7. ASSUME NEW t \in Threads, deleteAllExpireTokens(t) PROVE RbacInv'
  <2> DEFINE S == {i \in DOMAIN rows : rows[i].expire < now}
  <2>1. rows' = Drop(rows, S) /\ deleted' = deleted
    BY <1>7 DEF deleteAllExpireTokens
  <2>2. UNCHANGED <<seq, now, rbacTokenCache, cacheMutex, call, revoked>>
    BY <1>7 DEF deleteAllExpireTokens
  <2> HIDE DEF S
  <2>3. deleted' = deleted \cup {} /\ {} \in SUBSET Tokens
    BY <2>1
  <2>4. QED  BY <2>1, <2>2, <2>3, DropKeeps
<1>8. ASSUME NEW t \in Threads, Revoke(t) PROVE RbacInv'
  BY <1>6, <1>7, <1>8 DEF Revoke
<1>9. ASSUME SetClock PROVE RbacInv'
  BY <1>9 DEF SetClock, RbacInv, TypesOK, TypeOK, CallsOK, CacheOK, HeldOK, DeletedOK, Current
<1>10. ASSUME UNCHANGED tokenVars PROVE RbacInv'
  BY <1>10 DEF tokenVars, RbacInv, TypesOK, TypeOK, CallsOK, CacheOK, HeldOK, DeletedOK, Current
<1>11. QED
  BY <1>1, <1>2, <1>5, <1>8, <1>9, <1>10, FillKeeps, CleanKeeps DEF Next

(* It holds at first. *)
LEMMA RbacInvInit == Init => RbacInv
<1> SUFFICES ASSUME Init PROVE RbacInv
  OBVIOUS
<1>1. DOMAIN rows = {} /\ DOMAIN rbacTokenCache = {}
  BY DEF Init, Empty
<1>2. \A t \in Threads : call[t] = Idle /\ call[t].pc = "idle" /\ cacheMutex # t
  BY NobodyAssumption DEF Init, Idle
<1>3. QED
  BY <1>1, <1>2, NumbersAssumption
     DEF Init, RbacInv, TypesOK, TypeOK, CallsOK, CacheOK, HeldOK, DeletedOK, Call

----------------------------------------------------------------------------
(* Rows, cache and calls keep their types, and the mutex is held by the     *)
(* lookup between its query and its fill, whatever the threads do.          *)
THEOREM TypeCorrect == Spec => []TypeOK
<1>1. RbacInv => TypeOK
  BY DEF RbacInv, TypesOK
<1>2. QED  BY <1>1, RbacInvInit, RbacInvStep, PTL DEF Spec

(* However many threads look up, update and delete, a token deleted before  *)
(* clean() is not in the cache, nor in the table, until it is issued again. *)
THEOREM RevokedCorrect == Spec => []RevokedStaysRevoked
<1>1. RbacInv => RevokedStaysRevoked
  BY DEF RbacInv, TypesOK, TypeOK, CacheOK, DeletedOK, RevokedStaysRevoked
<1>2. QED  BY <1>1, RbacInvInit, RbacInvStep, PTL DEF Spec

(* What may leave the table in a step. *)
LEMMA PurgeStep ==
    ASSUME TypeOK, [Next]_tokenVars, NEW i \in DOMAIN rows,
           ~isExpire(rows[i]), i \notin DOMAIN rows'
    PROVE  \E t \in Threads : deleteToken(t, rows[i].token)
<1>1. rows[i].expire \in Int /\ now \in Int /\ ~(now > rows[i].expire)
  BY NumbersAssumption DEF TypeOK, Row, Expires, isExpire
<1>2. rows' # rows
  OBVIOUS
<1>3. ASSUME NEW t \in Threads, Issue(t) PROVE FALSE
  BY <1>3 DEF Issue, newToken, Put
<1>4. ASSUME NEW t \in Threads, NEW k, NEW next, getRbacToken(t, k, next) PROVE FALSE
  BY <1>2, <1>4 DEF getRbacToken, Hit, Fetch
<1>5. ASSUME NEW t \in Threads, Write(t) PROVE FALSE
  BY <1>5 DEF Write
<1>6. ASSUME NEW t \in Threads, NEW k \in Tokens, deleteToken(t, k) PROVE rows[i].token = k
  BY <1>6 DEF deleteToken, Drop, Restrict
<1>7. ASSUME NEW t \in Threads, deleteAllExpireTokens(t) PROVE FALSE
  BY <1>1, <1>7 DEF deleteAllExpireTokens, Drop, Restrict
<1>8. QED
  BY <1>2, <1>3, <1>4, <1>5, <1>6, <1>7
     DEF Next, Look, getPermission, Update, updateToken, Refresh, Revoke,
         Fill, clean, SetClock, tokenVars

(* Whatever the clock does, the purge takes no row that isExpire() accepts. *)
THEOREM PurgeCorrect == Spec => OnlyExpiredArePurged
<1>1. TypeOK /\ [Next]_tokenVars
        => [\A i \in DOMAIN rows :
              ~isExpire(rows[i]) /\ i \notin DOMAIN rows'
              => \E t \in Threads : deleteToken(t, rows[i].token)]_tokenVars
  BY PurgeStep
<1>2. QED  BY <1>1, TypeCorrect, PTL DEF Spec, OnlyExpiredArePurged
=============================================================================
