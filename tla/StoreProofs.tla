---------------------------- MODULE StoreProofs ----------------------------
(***************************************************************************)
(* Proofs about VectorStore, for every number of indexes, vectors and       *)
(* embeddings, every size of the LRU cache and every request.               *)
(***************************************************************************)
EXTENDS VectorStore, TLAPS, NaturalsInduction, WellFoundedInduction,
        FiniteSetTheorems, SequenceTheorems

(* The last of the LRU list is removed.                                     *)
LEMMA FrontOfList ==
    ASSUME NEW S, NEW list \in Seq(S), list # <<>>, IsInjective(list)
    PROVE  /\ Front(list) \in Seq(S) /\ IsInjective(Front(list))
           /\ Len(Front(list)) = Len(list) - 1
           /\ Last(list) \in Range(list)
           /\ Range(Front(list)) = Range(list) \ {Last(list)}
<1> DEFINE n == Len(list)
           f == Front(list)
<1>1. n \in Nat /\ n # 0 /\ DOMAIN list = 1..n /\ \A x \in 1..n : list[x] \in S
  BY EmptySeq, LenProperties, ElementOfSeq
<1>2. /\ f \in Seq(S) /\ Len(f) = n - 1
      /\ \A x \in 1..(n - 1) : f[x] = list[x]
  <2>1. f = SubSeq(list, 1, n - 1)
    BY DEF Front
  <2>2. \A x \in 1..(n - 1) : list[x] \in S
    BY <1>1
  <2> HIDE DEF f, n
  <2>3. /\ SubSeq(list, 1, n - 1) \in Seq(S)
        /\ Len(SubSeq(list, 1, n - 1)) = IF 1 <= n - 1 THEN n - 1 - 1 + 1 ELSE 0
        /\ \A x \in 1..(n - 1 - 1 + 1) : SubSeq(list, 1, n - 1)[x] = list[1 + x - 1]
    BY <1>1, <2>2, SubSeqProperties
  <2>4. QED  BY <1>1, <2>1, <2>3
<1>3. DOMAIN f = 1..(n - 1)
  BY <1>2, LenProperties
<1>4. IsInjective(f)
  BY <1>1, <1>2, <1>3 DEF IsInjective
<1>5. Last(list) = list[n] /\ list[n] \in Range(list)
  BY <1>1 DEF Last, Range
<1> HIDE DEF f, n
<1>6. ASSUME NEW y \in Range(f) PROVE y \in Range(list) \ {list[n]}
  <2>1. PICK x \in 1..(n - 1) : y = f[x]
    BY <1>3 DEF Range
  <2>2. x \in 1..n /\ n \in 1..n /\ x # n /\ y = list[x]
    BY <1>1, <1>2, <2>1
  <2>3. QED  BY <1>1, <2>2 DEF Range, IsInjective
<1>7. ASSUME NEW y \in Range(list) \ {list[n]} PROVE y \in Range(f)
  <2>1. PICK x \in 1..n : y = list[x]
    BY <1>1 DEF Range
  <2>2. x \in 1..(n - 1)
    BY <1>1, <2>1
  <2>3. QED  BY <1>2, <1>3, <2>1, <2>2 DEF Range
<1>8. Range(f) = Range(list) \ {list[n]}
  BY <1>6, <1>7
<1>9. QED  BY <1>2, <1>4, <1>5, <1>8 DEF f, n

(* An index is put in front of the LRU list.                                *)
IsCons(c, i, list) == c = <<i>> \o list

LEMMA ConsOfList ==
    ASSUME NEW S, NEW list \in Seq(S), IsInjective(list), NEW i \in S, i \notin Range(list),
           NEW c, IsCons(c, i, list)
    PROVE  /\ c \in Seq(S) /\ IsInjective(c)
           /\ Len(c) = Len(list) + 1
           /\ Range(c) = Range(list) \cup {i}
<1> DEFINE n == Len(list)
<1>1. n \in Nat /\ DOMAIN list = 1..n
  BY LenProperties
<1>9. PICK o : o = <<i>>
  OBVIOUS
<1>2. o \in Seq(S) /\ Len(o) = 1 /\ o[1] = i /\ c = o \o list
  BY <1>9 DEF IsCons
<1>3. c \in Seq(S) /\ Len(c) = n + 1
      /\ \A x \in 1..(n + 1) : c[x] = IF x <= 1 THEN i ELSE list[x - 1]
  <2>1. /\ c \in Seq(S) /\ Len(c) = Len(o) + Len(list)
        /\ \A x \in 1..(Len(o) + Len(list)) :
             c[x] = IF x <= Len(o) THEN o[x] ELSE list[x - Len(o)]
    BY <1>2, ConcatProperties
  <2>2. QED  BY <1>1, <1>2, <2>1
<1>4. Range(c) = Range(list) \cup {i}
  <2>1. \A y : y \in Range(c) <=> y = i \/ y \in Range(list)
    <3>1. DOMAIN c = 1..(n + 1)
      BY <1>1, <1>3, LenProperties
    <3>2. c[1] = i /\ \A x \in 2..(n + 1) : c[x] = list[x - 1]
      BY <1>1, <1>3
    <3>3. ASSUME NEW y \in Range(c) PROVE y = i \/ y \in Range(list)
      <4>1. PICK x \in 1..(n + 1) : y = c[x]
        BY <3>1 DEF Range
      <4>2. x = 1 \/ (x \in 2..(n + 1) /\ x - 1 \in DOMAIN list)
        BY <1>1
      <4>3. QED  BY <3>2, <4>1, <4>2 DEF Range
    <3>4. ASSUME NEW y \in Range(list) PROVE y \in Range(c)
      <4>1. PICK x \in DOMAIN list : y = list[x]
        BY DEF Range
      <4>2. x + 1 \in 2..(n + 1) /\ x + 1 \in 1..(n + 1) /\ (x + 1) - 1 = x
        <5>1. x \in 1..n
          BY <1>1
        <5> HIDE DEF n
        <5>2. QED  BY <1>1, <5>1
      <4>3. QED  BY <3>1, <3>2, <4>1, <4>2 DEF Range
    <3>5. i \in Range(c)
      <4>1. 1 \in 1..(n + 1)
        BY <1>1
      <4>2. QED  BY <3>1, <3>2, <4>1 DEF Range
    <3>6. QED  BY <3>3, <3>4, <3>5
  <2>2. QED  BY <2>1
<1>5. DOMAIN c = 1..(n + 1)
  BY <1>3, LenProperties
<1>6. ASSUME NEW x \in 1..(n + 1), NEW y \in 1..(n + 1), c[x] = c[y] PROVE x = y
  <2>1. \A z \in 1..(n + 1) : z # 1 => z - 1 \in DOMAIN list /\ c[z] = list[z - 1]
    BY <1>1, <1>3
  <2>2. c[1] = i
    BY <1>1, <1>3
  <2>3. \A z \in 1..(n + 1) : z # 1 => c[z] # i
    BY <2>1 DEF Range
  <2>4. CASE x = 1 \/ y = 1
    BY <1>6, <2>2, <2>3, <2>4
  <2>5. CASE x # 1 /\ y # 1
    <3>1. list[x - 1] = list[y - 1] /\ x - 1 \in DOMAIN list /\ y - 1 \in DOMAIN list
      BY <1>6, <2>1, <2>5
    <3>2. x - 1 = y - 1
      BY <3>1 DEF IsInjective
    <3>3. QED  BY <1>1, <3>2
  <2>6. QED  BY <2>4, <2>5
<1> HIDE DEF n
<1>7. IsInjective(c)
  BY <1>5, <1>6 DEF IsInjective
<1>8. QED  BY <1>3, <1>4, <1>7 DEF n

(* An index is taken out of the LRU list where it stands.                   *)
LEMMA RemovedFromList ==
    ASSUME NEW S, NEW list \in Seq(S), IsInjective(list), NEW i \in Range(list), NEW r,
           r = RemoveAt(list, CHOOSE x \in DOMAIN list : list[x] = i)
    PROVE  /\ r \in Seq(S) /\ IsInjective(r)
           /\ Len(r) = Len(list) - 1
           /\ Range(r) = Range(list) \ {i}
<1> DEFINE n == Len(list)
<1>1. n \in Nat /\ DOMAIN list = 1..n /\ \A x \in 1..n : list[x] \in S
  BY LenProperties, ElementOfSeq
<1>2. PICK p \in 1..n : list[p] = i /\ r = RemoveAt(list, p)
  <2>1. \E x \in DOMAIN list : list[x] = i
    BY DEF Range
  <2>2. QED  BY <1>1, <2>1
<1> HIDE DEF n
<1> DEFINE a == SubSeq(list, 1, p - 1)
           b == SubSeq(list, p + 1, n)
<1>3. r = a \o b
  BY <1>2 DEF RemoveAt, n
<1>4. a \in Seq(S) /\ Len(a) = p - 1 /\ \A x \in 1..(p - 1) : a[x] = list[x]
  <2>1. \A x \in 1..(p - 1) : list[x] \in S
    BY <1>1
  <2>2. /\ a \in Seq(S)
        /\ Len(a) = IF 1 <= p - 1 THEN p - 1 - 1 + 1 ELSE 0
        /\ \A x \in 1..(p - 1 - 1 + 1) : a[x] = list[1 + x - 1]
    BY <1>1, <2>1, SubSeqProperties
  <2> HIDE DEF a
  <2>3. QED  BY <1>1, <2>2
<1>5. b \in Seq(S) /\ Len(b) = n - p /\ \A x \in 1..(n - p) : b[x] = list[p + x]
  <2>1. \A x \in (p + 1)..n : list[x] \in S
    BY <1>1
  <2>2. /\ b \in Seq(S)
        /\ Len(b) = IF p + 1 <= n THEN n - (p + 1) + 1 ELSE 0
        /\ \A x \in 1..(n - (p + 1) + 1) : b[x] = list[p + 1 + x - 1]
    BY <1>1, <2>1, SubSeqProperties
  <2> HIDE DEF b
  <2>3. QED  BY <1>1, <2>2
<1> HIDE DEF a, b
<1> DEFINE old(x) == IF x < p THEN x ELSE x + 1
<1>6. r \in Seq(S) /\ Len(r) = n - 1 /\ \A x \in 1..(n - 1) : r[x] = list[old(x)]
  <2>1. /\ r \in Seq(S) /\ Len(r) = Len(a) + Len(b)
        /\ \A x \in 1..(Len(a) + Len(b)) : r[x] = IF x <= Len(a) THEN a[x] ELSE b[x - Len(a)]
    <3>1. a \in Seq(S) /\ b \in Seq(S)
      BY <1>4, <1>5
    <3>2. /\ a \o b \in Seq(S) /\ Len(a \o b) = Len(a) + Len(b)
          /\ \A x \in 1..(Len(a) + Len(b)) :
               (a \o b)[x] = IF x <= Len(a) THEN a[x] ELSE b[x - Len(a)]
      BY <3>1, ConcatProperties
    <3>3. QED  BY <1>3, <3>2, Zenon
  <2>2. ASSUME NEW x \in 1..(n - 1) PROVE r[x] = list[old(x)]
    <3>1. CASE x < p
      <4>1. x <= p - 1 /\ x \in 1..(p - 1) /\ x \in 1..(p - 1 + (n - p))
        BY <1>1, <3>1
      <4>2. QED  BY <1>4, <1>5, <2>1, <3>1, <4>1
    <3>2. CASE ~(x < p)
      <4>1. x - (p - 1) \in 1..(n - p) /\ ~(x <= p - 1) /\ x \in 1..(p - 1 + (n - p))
        BY <1>1, <3>2
      <4>4. r[x] = b[x - (p - 1)]
        BY <1>4, <1>5, <2>1, <4>1
      <4>2. p + (x - (p - 1)) = x + 1
        BY <1>1
      <4>3. QED  BY <1>5, <3>2, <4>1, <4>2, <4>4
    <3>3. QED  BY <3>1, <3>2
  <2>3. QED  BY <1>1, <1>4, <1>5, <2>1, <2>2
<1>7. DOMAIN r = 1..(n - 1)
  BY <1>6, LenProperties
<1>8. \A x \in 1..(n - 1) : old(x) \in 1..n /\ old(x) # p
  BY <1>1
<1>9. \A x \in 1..(n - 1), y \in 1..(n - 1) : old(x) = old(y) => x = y
  BY <1>1
<1>10. \A z \in 1..n : z # p => \E x \in 1..(n - 1) : old(x) = z
  <2> SUFFICES ASSUME NEW z \in 1..n, z # p PROVE \E x \in 1..(n - 1) : old(x) = z
    OBVIOUS
  <2>1. CASE z < p
    <3>1. z \in 1..(n - 1) /\ old(z) = z
      BY <1>1, <2>1
    <3>2. QED  BY <3>1
  <2>2. CASE z > p
    <3>1. z - 1 \in 1..(n - 1) /\ old(z - 1) = z
      BY <1>1, <2>2
    <3>2. QED  BY <3>1
  <2>3. QED  BY <1>1, <2>1, <2>2
<1> HIDE DEF old
<1>11. IsInjective(r)
  <2> SUFFICES ASSUME NEW x \in 1..(n - 1), NEW y \in 1..(n - 1), r[x] = r[y] PROVE x = y
    BY <1>7 DEF IsInjective
  <2>1. list[old(x)] = list[old(y)] /\ old(x) \in DOMAIN list /\ old(y) \in DOMAIN list
    BY <1>1, <1>6, <1>8
  <2>2. QED  BY <1>9, <2>1 DEF IsInjective
<1>12. ASSUME NEW y \in Range(r) PROVE y \in Range(list) \ {i}
  <2>1. PICK x \in 1..(n - 1) : y = r[x]
    BY <1>7 DEF Range
  <2>2. y = list[old(x)] /\ old(x) \in 1..n /\ old(x) # p
    BY <1>6, <1>8, <2>1
  <2>3. QED  BY <1>1, <1>2, <2>2 DEF Range, IsInjective
<1>13. ASSUME NEW y \in Range(list) \ {i} PROVE y \in Range(r)
  <2>1. PICK z \in 1..n : y = list[z]
    BY <1>1 DEF Range
  <2>2. PICK x \in 1..(n - 1) : old(x) = z
    BY <1>2, <1>10, <2>1
  <2>3. r[x] = y
    BY <1>6, <2>1, <2>2
  <2>4. QED  BY <1>7, <2>3 DEF Range
<1>14. Range(r) = Range(list) \ {i}
  BY <1>12, <1>13
<1>15. QED  BY <1>6, <1>11, <1>14 DEF n

(* A set of natural numbers has a least element.                            *)
LEMMA LeastNatural ==
    ASSUME NEW T \in SUBSET Nat, T # {}
    PROVE  \E m \in T : \A k \in T : m <= k
<1> DEFINE less == OpToRel(<, Nat)
<1>1. \E m \in T : \A k \in T : <<k, m>> \notin less
  <2>1. IsWellFoundedOn(less, Nat)
    BY NatLessThanWellFounded
  <2> HIDE DEF less
  <2>2. QED  BY <2>1, WFMin, Zenon
<1>2. \A k, m \in Nat : <<k, m>> \in less <=> k < m
  BY DEF OpToRel
<1> HIDE DEF less
<1>3. PICK m \in T : \A k \in T : <<k, m>> \notin less
  BY <1>1
<1>4. \A k \in T : m <= k
  <2> SUFFICES ASSUME NEW k \in T PROVE m <= k
    OBVIOUS
  <2>1. k \in Nat /\ m \in Nat /\ ~(k < m)
    BY <1>2, <1>3
  <2>2. QED  BY <2>1
<1>5. QED  BY <1>4

(* Induction over the values of a request: what holds before the first and  *)
(* after each holds after all of them.                                      *)
LEMMA Upto ==
    ASSUME NEW n \in Nat, NEW S, 0 \in S, \A k \in 0..n : k + 1 \in 0..n /\ k \in S => k + 1 \in S
    PROVE  n \in S
<1> DEFINE T == {k \in 0..n : k \notin S}
<1>1. T = {}
  <2> SUFFICES ASSUME T # {} PROVE FALSE
    OBVIOUS
  <2>1. T \in SUBSET Nat
    OBVIOUS
  <2>2. PICK m \in T : \A k \in T : m <= k
    <3> HIDE DEF T
    <3>1. QED  BY <2>1, LeastNatural
  <2>3. m \in 0..n /\ m # 0 /\ m \notin S
    OBVIOUS
  <2>4. m - 1 \in 0..n /\ (m - 1) + 1 = m
    BY <2>3
  <2>5. m - 1 \notin T
    BY <2>2, <2>3
  <2>6. QED  BY <2>3, <2>4, <2>5
<1>2. QED  BY <1>1

(* addVector with autoflush is a run over the values of the request.        *)
LEMMA AddedRun ==
    ASSUME NEW v, NEW uid, NEW values, Len(values) \in Nat
    PROVE  \E run : /\ run[0] = Store(Written(v, uid))
                    /\ \A n \in 1..Len(values) : run[n] = AddedValue(run[n - 1], v, values[n])
                    /\ Added(v, uid, values) = run[Len(values)]
<1> DEFINE N == Len(values)
           Next1(f, n) == IF n = 0 THEN Store(Written(v, uid))
                          ELSE AddedValue(f[n - 1], v, values[n])
           Good == {m \in 0..N : \E f : f = [n \in 0..m |-> Next1(f, n)]}
<1> USE DEF N
<1>1. 0 \in Good
  <2>1. PICK f : f = [n \in 0..0 |-> Store(Written(v, uid))]
    OBVIOUS
  <2>2. f = [n \in 0..0 |-> Next1(f, n)]
    BY <2>1
  <2>3. QED  BY <2>2
<1>2. ASSUME NEW k \in 0..N, k + 1 \in 0..N, k \in Good PROVE k + 1 \in Good
  <2>1. PICK f : f = [n \in 0..k |-> Next1(f, n)]
    BY <1>2
  <2>2. PICK x : x = AddedValue(f[k], v, values[k + 1])
    OBVIOUS
  <2>3. PICK g : g = [n \in 0..(k + 1) |-> IF n = k + 1 THEN x ELSE f[n]]
    OBVIOUS
  <2>4. \A n \in 0..(k + 1) : g[n] = Next1(g, n)
    <3> SUFFICES ASSUME NEW n \in 0..(k + 1) PROVE g[n] = Next1(g, n)
      OBVIOUS
    <3>1. CASE n = k + 1
      <4>1. g[n] = x /\ n # 0 /\ n - 1 = k /\ k \in 0..(k + 1) /\ k # k + 1
        BY <2>3, <3>1
      <4>2. g[n - 1] = f[k]
        BY <2>3, <4>1
      <4>3. QED  BY <2>2, <3>1, <4>1, <4>2
    <3>2. CASE n = 0
      <4>1. 0 \in 0..k /\ 0 # k + 1
        OBVIOUS
      <4>2. g[0] = f[0] /\ f[0] = Next1(f, 0)
        BY <2>1, <2>3, <4>1
      <4>3. QED  BY <3>2, <4>2
    <3>3. CASE n # 0 /\ n # k + 1
      <4>1. n \in 0..k /\ n - 1 \in 0..(k + 1) /\ n - 1 # k + 1
        BY <3>3
      <4>2. f[n] = Next1(f, n)
        BY <2>1, <4>1
      <4>3. g[n] = f[n] /\ g[n - 1] = f[n - 1]
        BY <2>3, <3>3, <4>1
      <4>4. QED  BY <3>3, <4>2, <4>3
    <3>4. QED  BY <3>1, <3>2, <3>3
  <2> HIDE DEF Next1
  <2>5. g = [n \in 0..(k + 1) |-> Next1(g, n)]
    BY <2>3, <2>4
  <2>6. QED  BY <1>2, <2>5
<1>3. N \in Good
  <2> HIDE DEF Good, N
  <2>1. QED  BY <1>1, <1>2, Upto DEF N
<1>4. PICK f : f = [n \in 0..N |-> Next1(f, n)]
  BY <1>3
<1> DEFINE run == CHOOSE g : g = [n \in 0..N |-> Next1(g, n)]
<1>5. run = [n \in 0..N |-> Next1(run, n)]
  <2> HIDE DEF Next1
  <2>1. QED  BY <1>4
<1>6. Added(v, uid, values) = run[N]
  BY DEF Added
<1> HIDE DEF run
<1>7. run[0] = Store(Written(v, uid))
  <2>1. run[0] = Next1(run, 0)
    <3> HIDE DEF Next1
    <3>1. QED  BY <1>5
  <2>2. QED  BY <2>1
<1>8. ASSUME NEW n \in 1..N PROVE run[n] = AddedValue(run[n - 1], v, values[n])
  <2>1. run[n] = Next1(run, n)
    <3> HIDE DEF Next1
    <3>1. QED  BY <1>5
  <2>2. QED  BY <2>1
<1>9. QED  BY <1>6, <1>7, <1>8

(* flush is a run over the indexes that are pending.                        *)
LEMMA FlushedRun ==
    ASSUME Len(pending) \in Nat
    PROVE  \E run : /\ run[0] = Store(vector)
                    /\ \A n \in 1..Len(pending) : run[n] = Refreshed(run[n - 1], pending[n])
                    /\ Flushed = run[Len(pending)]
<1> DEFINE N == Len(pending)
           Next1(f, n) == IF n = 0 THEN Store(vector)
                          ELSE Refreshed(f[n - 1], pending[n])
           Good == {m \in 0..N : \E f : f = [n \in 0..m |-> Next1(f, n)]}
<1> USE DEF N
<1>1. 0 \in Good
  <2>1. PICK f : f = [n \in 0..0 |-> Store(vector)]
    OBVIOUS
  <2>2. f = [n \in 0..0 |-> Next1(f, n)]
    BY <2>1
  <2>3. QED  BY <2>2
<1>2. ASSUME NEW k \in 0..N, k + 1 \in 0..N, k \in Good PROVE k + 1 \in Good
  <2>1. PICK f : f = [n \in 0..k |-> Next1(f, n)]
    BY <1>2
  <2>2. PICK x : x = Refreshed(f[k], pending[k + 1])
    OBVIOUS
  <2>3. PICK g : g = [n \in 0..(k + 1) |-> IF n = k + 1 THEN x ELSE f[n]]
    OBVIOUS
  <2>4. \A n \in 0..(k + 1) : g[n] = Next1(g, n)
    <3> SUFFICES ASSUME NEW n \in 0..(k + 1) PROVE g[n] = Next1(g, n)
      OBVIOUS
    <3>1. CASE n = k + 1
      <4>1. g[n] = x /\ n # 0 /\ n - 1 = k /\ k \in 0..(k + 1) /\ k # k + 1
        BY <2>3, <3>1
      <4>2. g[n - 1] = f[k]
        BY <2>3, <4>1
      <4>3. QED  BY <2>2, <3>1, <4>1, <4>2
    <3>2. CASE n = 0
      <4>1. 0 \in 0..k /\ 0 # k + 1
        OBVIOUS
      <4>2. g[0] = f[0] /\ f[0] = Next1(f, 0)
        BY <2>1, <2>3, <4>1
      <4>3. QED  BY <3>2, <4>2
    <3>3. CASE n # 0 /\ n # k + 1
      <4>1. n \in 0..k /\ n - 1 \in 0..(k + 1) /\ n - 1 # k + 1
        BY <3>3
      <4>2. f[n] = Next1(f, n)
        BY <2>1, <4>1
      <4>3. g[n] = f[n] /\ g[n - 1] = f[n - 1]
        BY <2>3, <3>3, <4>1
      <4>4. QED  BY <3>3, <4>2, <4>3
    <3>4. QED  BY <3>1, <3>2, <3>3
  <2> HIDE DEF Next1
  <2>5. g = [n \in 0..(k + 1) |-> Next1(g, n)]
    BY <2>3, <2>4
  <2>6. QED  BY <1>2, <2>5
<1>3. N \in Good
  <2> HIDE DEF Good, N
  <2>1. QED  BY <1>1, <1>2, Upto DEF N
<1>4. PICK f : f = [n \in 0..N |-> Next1(f, n)]
  BY <1>3
<1> DEFINE run == CHOOSE g : g = [n \in 0..N |-> Next1(g, n)]
<1>5. run = [n \in 0..N |-> Next1(run, n)]
  <2> HIDE DEF Next1
  <2>1. QED  BY <1>4
<1>6. Flushed = run[N]
  BY DEF Flushed
<1> HIDE DEF run
<1>7. run[0] = Store(vector)
  <2>1. run[0] = Next1(run, 0)
    <3> HIDE DEF Next1
    <3>1. QED  BY <1>5
  <2>2. QED  BY <2>1
<1>8. ASSUME NEW n \in 1..N PROVE run[n] = Refreshed(run[n - 1], pending[n])
  <2>1. run[n] = Next1(run, n)
    <3> HIDE DEF Next1
    <3>1. QED  BY <1>5
  <2>2. QED  BY <2>1
<1>9. QED  BY <1>6, <1>7, <1>8
----------------------------------------------------------------------------
(* What an operation leaves of a well-formed store is well-formed: the LRU  *)
(* list names each index in memory once, and no more than fit.              *)

Bounds ==
    /\ capacity \in Nat \ {0}
    /\ indexSeq \in 0..MaxIndex /\ indexes \subseteq 1..indexSeq

IsStore(st) ==
    /\ st = [list |-> st.list, manager |-> st.manager, file |-> st.file,
             vector |-> st.vector, ok |-> st.ok]
    /\ st.ok \in BOOLEAN
ListOK(list, managers) ==
    /\ list \in Seq(1..indexSeq) /\ IsInjective(list) /\ Len(list) <= capacity
    /\ DOMAIN managers = Range(list)
ManagerOK(m) ==
    /\ m = [entries |-> m.entries, indexLoaded |-> m.indexLoaded]
    /\ m.indexLoaded \in BOOLEAN
    /\ IsBag(m.entries) \/ (m.entries = Torn /\ ~m.indexLoaded)
ManagersOK(managers) == \A i \in DOMAIN managers : ManagerOK(managers[i])
FilesOK(files) == \A i \in DOMAIN files : files[i] = Torn \/ IsBag(files[i])
VectorsOK(vectors) ==
    \A v \in DOMAIN vectors : vectors[v] \in [uid : Uid, deleted : BOOLEAN, values : Values]

StoreOK(st) ==
    /\ IsStore(st)
    /\ ListOK(st.list, st.manager) /\ ManagersOK(st.manager)
    /\ FilesOK(st.file)
    /\ VectorsOK(st.vector)

(* Nothing of the other indexes is touched.                                 *)
OnlyAt(st, st2, i) ==
    /\ st2.list = st.list /\ st2.vector = st.vector
    /\ DOMAIN st2.manager = DOMAIN st.manager
    /\ \A j \in DOMAIN st.manager : j # i => st2.manager[j] = st.manager[j]
    /\ \A j : j # i => (j \in DOMAIN st2.file <=> j \in DOMAIN st.file)
    /\ \A j \in DOMAIN st.file : j # i => st2.file[j] = st.file[j]

New == [entries |-> EmptyBag, indexLoaded |-> FALSE]

(* The empty bag, and the bag of the rows of an index.                      *)
LEMMA BagsOK ==
    /\ IsBag(EmptyBag)
    /\ \A S : S \subseteq Uid \X Embeddings => IsBag(SetToBag(S))
    /\ \A b, u, e : IsBag(b) /\ u \in Uid /\ e \in Embeddings =>
          IsBag(b (+) SetToBag({<<u, e>>})) /\ BagIn(<<u, e>>, b (+) SetToBag({<<u, e>>}))
<1>1. \A S : S \subseteq Uid \X Embeddings => IsBag(SetToBag(S))
  BY DEF IsBag, IsABag, SetToBag
<1>2. IsBag(EmptyBag)
  BY <1>1 DEF EmptyBag
<1>3. ASSUME NEW b, NEW u, NEW e, IsBag(b), u \in Uid, e \in Embeddings
      PROVE  IsBag(b (+) SetToBag({<<u, e>>})) /\ BagIn(<<u, e>>, b (+) SetToBag({<<u, e>>}))
  <2>1. PICK c : c = SetToBag({<<u, e>>})
    OBVIOUS
  <2>2. DOMAIN c = {<<u, e>>} /\ c[<<u, e>>] = 1
    BY <2>1 DEF SetToBag
  <2>3. \A x \in DOMAIN b : b[x] \in Nat /\ b[x] > 0
    BY <1>3 DEF IsBag, IsABag
  <2>4. PICK d : d = b (+) c
    OBVIOUS
  <2>5. /\ d = [x \in DOMAIN d |-> d[x]]
        /\ DOMAIN d = DOMAIN b \cup {<<u, e>>}
        /\ \A x \in DOMAIN d : d[x] = (IF x \in DOMAIN b THEN b[x] ELSE 0)
                                      + (IF x \in DOMAIN c THEN c[x] ELSE 0)
    BY <2>2, <2>4 DEF (+)
  <2>6. \A x \in DOMAIN d : d[x] \in Nat /\ d[x] > 0
    BY <2>2, <2>3, <2>5
  <2>7. \A x \in DOMAIN d : x \in Uid \X Embeddings
    BY <1>3, <2>5 DEF IsBag
  <2>8. IsBag(d) /\ BagIn(<<u, e>>, d)
    BY <2>5, <2>6, <2>7 DEF IsBag, IsABag, BagIn, BagToSet
  <2>9. QED  BY <2>1, <2>4, <2>8
<1>4. QED  BY <1>1, <1>2, <1>3

(* The rows of an index are a bag.                                          *)
LEMMA RowsOK ==
    ASSUME NEW vectors, VectorsOK(vectors), NEW i
    PROVE  IsBag(Rows(vectors, i))
<1>1. PICK S : S = {<<vectors[v].uid, vectors[v].values[i]>> :
                      v \in {w \in DOMAIN vectors :
                               ~vectors[w].deleted /\ i \in DOMAIN vectors[w].values}}
  OBVIOUS
<1>2. ASSUME NEW v \in DOMAIN vectors, i \in DOMAIN vectors[v].values
      PROVE  vectors[v].uid \in Uid /\ vectors[v].values[i] \in Embeddings
  <2>1. vectors[v].uid \in Uid /\ vectors[v].values \in Values
    BY DEF VectorsOK
  <2>2. PICK I \in SUBSET IndexId : vectors[v].values \in [I -> Embeddings]
    BY <2>1 DEF Values
  <2>3. QED  BY <1>2, <2>1, <2>2
<1>3. S \subseteq Uid \X Embeddings
  BY <1>1, <1>2
<1>4. QED  BY <1>1, <1>3, BagsOK DEF Rows

(* FaissIndexLRUCache::get finds an index in memory as it is, or creates a  *)
(* manager without entries, in the place of the one it evicts when the      *)
(* cache is full.                                                           *)
LEMMA GetFacts ==
    ASSUME Bounds, NEW st, StoreOK(st), NEW i, NEW g, g = Get(st, i)
    PROVE  /\ StoreOK(g)
           /\ g.vector = st.vector /\ g.file = st.file
           /\ g.ok = (st.ok /\ (i \in DOMAIN st.manager \/ i \in indexes))
           /\ g.ok => i \in DOMAIN g.manager
           /\ DOMAIN g.manager \subseteq DOMAIN st.manager \cup {i}
           /\ \A j \in DOMAIN g.manager :
                g.manager[j] = IF j \in DOMAIN st.manager THEN st.manager[j] ELSE New
<1>0. PICK S : S = 1..indexSeq
  OBVIOUS
<1>1. /\ IsStore(st) /\ st.list \in Seq(S) /\ IsInjective(st.list)
      /\ Len(st.list) <= capacity /\ Len(st.list) \in Nat
      /\ DOMAIN st.manager = Range(st.list)
      /\ ManagersOK(st.manager) /\ FilesOK(st.file) /\ VectorsOK(st.vector)
  BY <1>0, LenProperties DEF StoreOK, ListOK
<1>2. CASE i \in Range(st.list)
  <2>1. PICK r : r = RemoveAt(st.list, CHOOSE x \in DOMAIN st.list : st.list[x] = i)
    OBVIOUS
  <2>2. /\ r \in Seq(S) /\ IsInjective(r)
        /\ Len(r) = Len(st.list) - 1 /\ Range(r) = Range(st.list) \ {i}
    <3>1. st.list \in Seq(S) /\ IsInjective(st.list) /\ i \in Range(st.list)
      BY <1>1, <1>2
    <3>2. PICK l : l = st.list
      OBVIOUS
    <3>3. /\ l \in Seq(S) /\ IsInjective(l) /\ i \in Range(l)
          /\ r = RemoveAt(l, CHOOSE x \in DOMAIN l : l[x] = i)
      BY <2>1, <3>1, <3>2
    <3>4. /\ r \in Seq(S) /\ IsInjective(r)
          /\ Len(r) = Len(l) - 1 /\ Range(r) = Range(l) \ {i}
      BY <3>3, RemovedFromList
    <3>5. QED  BY <3>2, <3>4
  <2>3. PICK c : c = <<i>> \o r
    OBVIOUS
  <2>4. i \in S
    BY <1>1, <1>2, RangeOfSeq
  <2>5. /\ c \in Seq(S) /\ IsInjective(c)
        /\ Len(c) = Len(r) + 1 /\ Range(c) = Range(r) \cup {i}
    <3>1. r \in Seq(S) /\ IsInjective(r) /\ i \in S /\ i \notin Range(r)
      BY <2>2, <2>4
    <3>2. IsCons(c, i, r)
      BY <2>3 DEF IsCons
    <3>3. QED  BY <3>1, <3>2, ConsOfList
  <2>6. g = [st EXCEPT !.list = c]
    BY <1>2, <2>1, <2>3 DEF Get
  <2>7. /\ IsStore(g) /\ g.list = c /\ g.manager = st.manager /\ g.file = st.file
        /\ g.vector = st.vector /\ g.ok = st.ok
    BY <1>1, <2>6 DEF IsStore
  <2>8. Range(c) = Range(st.list) /\ Len(c) = Len(st.list)
    BY <1>1, <1>2, <2>2, <2>5
  <2>9. StoreOK(g)
    BY <1>0, <1>1, <2>5, <2>7, <2>8 DEF StoreOK, ListOK
  <2>10. QED  BY <1>1, <1>2, <2>7, <2>9 DEF IsStore
<1>3. CASE i \notin Range(st.list)
  <2>1. PICK e : e = Evicted(st)
    OBVIOUS
  <2>2. /\ IsStore(e) /\ e.file = st.file /\ e.vector = st.vector /\ e.ok = st.ok
        /\ e.list \in Seq(S) /\ IsInjective(e.list) /\ Len(e.list) < capacity
        /\ Len(e.list) \in Nat
        /\ DOMAIN e.manager = Range(e.list) /\ DOMAIN e.manager \subseteq DOMAIN st.manager
        /\ \A j \in DOMAIN e.manager : e.manager[j] = st.manager[j]
    <3>1. CASE Len(st.list) < capacity
      <4>1. e = st
        BY <2>1, <3>1 DEF Evicted
      <4>2. QED  BY <1>1, <3>1, <4>1
    <3>2. CASE ~(Len(st.list) < capacity)
      <4>1. st.list # <<>>
        BY <1>1, <3>2 DEF Bounds
      <4>2. PICK f : f = Front(st.list)
        OBVIOUS
      <4>3. /\ f \in Seq(S) /\ IsInjective(f) /\ Len(f) = Len(st.list) - 1
            /\ Last(st.list) \in Range(st.list)
            /\ Range(f) = Range(st.list) \ {Last(st.list)}
        BY <1>1, <4>1, <4>2, FrontOfList
      <4>4. PICK d : d = Drop(st.manager, {Last(st.list)})
        OBVIOUS
      <4>5. DOMAIN d = DOMAIN st.manager \ {Last(st.list)}
            /\ \A j \in DOMAIN d : d[j] = st.manager[j]
        BY <4>4 DEF Drop, Restrict
      <4>6. e = [[st EXCEPT !.list = f] EXCEPT !.manager = d]
        BY <1>1, <2>1, <3>2, <4>2, <4>4 DEF Evicted, IsStore
      <4>7. /\ IsStore(e) /\ e.list = f /\ e.manager = d /\ e.file = st.file
            /\ e.vector = st.vector /\ e.ok = st.ok
        BY <1>1, <4>6 DEF IsStore
      <4>8. Len(f) < capacity /\ Len(f) \in Nat
        <5>1. Len(f) \in Nat
          BY <4>3, LenProperties
        <5>2. QED  BY <1>1, <4>3, <5>1 DEF Bounds
      <4>9. DOMAIN d = Range(f)
        BY <1>1, <4>3, <4>5
      <4>10. QED  BY <4>3, <4>5, <4>7, <4>8, <4>9
    <3>3. QED  BY <3>1, <3>2
  <2>3. CASE i \notin indexes
    <3>1. g = [e EXCEPT !.ok = FALSE]
      BY <1>3, <2>1, <2>3 DEF Get, Failed
    <3>2. /\ IsStore(g) /\ g.list = e.list /\ g.manager = e.manager /\ g.file = e.file
          /\ g.vector = e.vector /\ g.ok = FALSE
      BY <2>2, <3>1 DEF IsStore
    <3>3. ManagersOK(g.manager)
      BY <1>1, <2>2, <3>2 DEF ManagersOK
    <3>4. StoreOK(g)
      BY <1>0, <1>1, <2>2, <3>2, <3>3 DEF StoreOK, ListOK, Bounds
    <3>5. i \notin DOMAIN st.manager
      BY <1>1, <1>3
    <3>6. \A j \in DOMAIN g.manager : g.manager[j] = st.manager[j] /\ j \in DOMAIN st.manager
      BY <2>2, <3>2
    <3>7. QED  BY <2>2, <2>3, <3>2, <3>4, <3>5, <3>6
  <2>4. CASE i \in indexes
    <3>1. PICK c : c = <<i>> \o e.list
      OBVIOUS
    <3>2. i \notin Range(e.list) /\ i \in S
      BY <1>0, <1>1, <1>3, <2>2, <2>4 DEF Bounds
    <3>3. /\ c \in Seq(S) /\ IsInjective(c)
          /\ Len(c) = Len(e.list) + 1 /\ Range(c) = Range(e.list) \cup {i}
      <4>1. PICK l : l = e.list
        OBVIOUS
      <4>2. l \in Seq(S) /\ IsInjective(l) /\ i \in S /\ i \notin Range(l)
        BY <2>2, <3>2, <4>1
      <4>3. /\ c \in Seq(S) /\ IsInjective(c)
            /\ Len(c) = Len(l) + 1 /\ Range(c) = Range(l) \cup {i}
        <5>1. IsCons(c, i, l)
          BY <3>1, <4>1 DEF IsCons
        <5>2. QED  BY <4>2, <5>1, ConsOfList
      <4>4. QED  BY <4>1, <4>3
    <3>4. PICK m : m = Put(e.manager, i, New)
      OBVIOUS
    <3>5. /\ DOMAIN m = DOMAIN e.manager \cup {i} /\ m[i] = New
          /\ \A j \in DOMAIN m : j # i => m[j] = e.manager[j]
      BY <3>4 DEF Put
    <3>6. g = [[e EXCEPT !.list = c] EXCEPT !.manager = m]
      BY <1>3, <2>1, <2>2, <2>4, <3>1, <3>4 DEF Get, IsStore, New
    <3>7. /\ IsStore(g) /\ g.list = c /\ g.manager = m /\ g.file = e.file
          /\ g.vector = e.vector /\ g.ok = e.ok
      BY <2>2, <3>6 DEF IsStore
    <3>8. ManagerOK(New)
      BY BagsOK DEF ManagerOK, New
    <3>9. \A j \in DOMAIN m : j # i => m[j] = st.manager[j] /\ j \in DOMAIN st.manager
      BY <2>2, <3>5
    <3>10. ManagersOK(m)
      BY <1>1, <3>5, <3>8, <3>9 DEF ManagersOK
    <3>11. Len(c) <= capacity
      BY <2>2, <3>3 DEF Bounds
    <3>12. StoreOK(g)
      BY <1>0, <1>1, <2>2, <3>3, <3>5, <3>7, <3>10, <3>11 DEF StoreOK, ListOK
    <3>13. i \notin DOMAIN st.manager
      BY <1>1, <1>3
    <3>14. DOMAIN m \subseteq DOMAIN st.manager \cup {i} /\ i \in DOMAIN m
      BY <3>5, <3>9
    <3>15. \A j \in DOMAIN m : m[j] = IF j \in DOMAIN st.manager THEN st.manager[j] ELSE New
      BY <3>5, <3>9, <3>13
    <3>16. g.ok = st.ok /\ st.ok \in BOOLEAN
      BY <1>1, <2>2, <3>7 DEF IsStore
    <3>17. QED  BY <2>2, <2>4, <3>7, <3>12, <3>14, <3>15, <3>16
  <2>5. QED  BY <2>3, <2>4
<1>4. QED  BY <1>2, <1>3

(* restoreVectorsToIndex leaves an index that has entries, or fails, or     *)
(* gives it the rows and writes its file.                                   *)
LEMMA RestoredFacts ==
    ASSUME Bounds, NEW st, StoreOK(st), NEW i, st.ok => i \in DOMAIN st.manager,
           NEW r, r = Restored(st, i)
    PROVE  /\ StoreOK(r) /\ OnlyAt(st, r, i)
           /\ r.ok = (st.ok /\ (st.manager[i].entries \notin {EmptyBag, Torn} \/ i \in indexes))
           /\ ~r.ok => r.manager = st.manager /\ r.file = st.file
           /\ r.ok => \/ r = st /\ st.manager[i].entries \notin {EmptyBag, Torn}
                      \/ /\ st.manager[i].entries \in {EmptyBag, Torn}
                         /\ r.manager[i] = [entries |-> Rows(st.vector, i),
                                            indexLoaded |-> st.manager[i].indexLoaded]
                         /\ i \in DOMAIN r.file /\ r.file[i] = Rows(st.vector, i)
<1>1. /\ IsStore(st) /\ ListOK(st.list, st.manager)
      /\ ManagersOK(st.manager) /\ FilesOK(st.file) /\ VectorsOK(st.vector)
  BY DEF StoreOK
<1>2. OnlyAt(st, st, i)
  BY DEF OnlyAt
<1> st.ok \in BOOLEAN
  BY <1>1 DEF IsStore
<1>3. CASE ~st.ok
  <2>1. r = st
    BY <1>3 DEF Restored
  <2>2. QED  BY <1>2, <1>3, <2>1
<1>4. CASE st.ok /\ st.manager[i].entries \notin {EmptyBag, Torn}
  <2>1. r = st
    BY <1>4 DEF Restored
  <2>2. QED  BY <1>2, <1>4, <2>1
<1>5. CASE st.ok /\ st.manager[i].entries \in {EmptyBag, Torn} /\ i \notin indexes
  <2>1. r = [st EXCEPT !.ok = FALSE]
    BY <1>5 DEF Restored, Failed
  <2>2. /\ IsStore(r) /\ r.list = st.list /\ r.manager = st.manager /\ r.file = st.file
        /\ r.vector = st.vector /\ r.ok = FALSE
    BY <1>1, <2>1 DEF IsStore
  <2>3. StoreOK(r)
    BY <1>1, <2>2 DEF StoreOK
  <2>4. OnlyAt(st, r, i)
    BY <2>2 DEF OnlyAt
  <2>5. QED  BY <1>5, <2>2, <2>3, <2>4
<1>6. CASE st.ok /\ st.manager[i].entries \in {EmptyBag, Torn} /\ i \in indexes
  <2>1. PICK b : b = Rows(st.vector, i)
    OBVIOUS
  <2>2. IsBag(b)
    BY <1>1, <2>1, RowsOK
  <2>3. PICK m : m = [st.manager EXCEPT ![i].entries = b]
    OBVIOUS
  <2>4. i \in DOMAIN st.manager /\ ManagerOK(st.manager[i])
    BY <1>1, <1>6 DEF ManagersOK
  <2>5. /\ DOMAIN m = DOMAIN st.manager
        /\ m[i] = [entries |-> b, indexLoaded |-> st.manager[i].indexLoaded]
        /\ \A j \in DOMAIN m : j # i => m[j] = st.manager[j]
    <3>1. m[i] = [st.manager[i] EXCEPT !.entries = b]
      BY <2>3, <2>4
    <3>2. QED  BY <2>3, <2>4, <3>1 DEF ManagerOK
  <2>6. PICK f : f = Put(st.file, i, b)
    OBVIOUS
  <2>7. /\ DOMAIN f = DOMAIN st.file \cup {i} /\ f[i] = b
        /\ \A j \in DOMAIN f : j # i => f[j] = st.file[j]
    BY <2>6 DEF Put
  <2>8. r = [[st EXCEPT !.manager = m] EXCEPT !.file = f]
    <3>1. r = Saved([st EXCEPT !.manager[i].entries = b], i)
      BY <1>6, <2>1 DEF Restored
    <3>2. [st EXCEPT !.manager[i].entries = b] = [st EXCEPT !.manager = m]
      BY <1>1, <2>3 DEF IsStore
    <3>3. PICK s : s = [st EXCEPT !.manager = m]
      OBVIOUS
    <3>4. s.manager = m /\ s.file = st.file
      BY <1>1, <3>3 DEF IsStore
    <3>5. r = [s EXCEPT !.file = Put(s.file, i, s.manager[i].entries)]
      BY <3>1, <3>2, <3>3 DEF Saved
    <3>6. s.manager[i].entries = b
      BY <2>5, <3>4
    <3>7. QED  BY <2>6, <3>3, <3>4, <3>5, <3>6
  <2>9. /\ IsStore(r) /\ r.list = st.list /\ r.manager = m /\ r.file = f
        /\ r.vector = st.vector /\ r.ok = TRUE
    BY <1>1, <1>6, <2>8 DEF IsStore
  <2>10. ManagerOK(m[i])
    BY <2>2, <2>4, <2>5 DEF ManagerOK
  <2>11. ManagersOK(m) /\ FilesOK(f)
    BY <1>1, <2>2, <2>5, <2>7, <2>10 DEF ManagersOK, FilesOK
  <2>12. StoreOK(r)
    BY <1>1, <2>5, <2>9, <2>11 DEF StoreOK, ListOK
  <2>13. OnlyAt(st, r, i)
    BY <2>5, <2>7, <2>9 DEF OnlyAt
  <2>14. i \in DOMAIN f
    BY <2>7
  <2>15. QED  BY <1>6, <2>1, <2>5, <2>7, <2>9, <2>12, <2>13, <2>14
<1>7. QED  BY <1>3, <1>4, <1>5, <1>6

(* A manager's entries are replaced.                                        *)
LEMMA EntriesSet ==
    ASSUME NEW st, StoreOK(st), NEW i \in DOMAIN st.manager,
           NEW r, IsStore(r), r.list = st.list, r.file = st.file, r.vector = st.vector,
           NEW m, r.manager = m, DOMAIN m = DOMAIN st.manager,
           ManagerOK(m[i]),
           \A j \in DOMAIN m : j # i => m[j] = st.manager[j]
    PROVE  StoreOK(r) /\ OnlyAt(st, r, i)
<1>2. ManagersOK(m)
  BY DEF ManagersOK, StoreOK
<1>3. StoreOK(r)
  BY <1>2 DEF StoreOK, ListOK
<1>4. OnlyAt(st, r, i)
  BY DEF OnlyAt
<1>5. QED  BY <1>3, <1>4

(* Only an index was touched, and then again only that index.               *)
LEMMA OnlyAtTwice ==
    ASSUME NEW a, NEW b, NEW c, NEW i, OnlyAt(a, b, i), OnlyAt(b, c, i)
    PROVE  OnlyAt(a, c, i)
<1>1. \A j \in DOMAIN a.manager : j # i => c.manager[j] = a.manager[j]
  BY DEF OnlyAt
<1>2. \A j : j # i => (j \in DOMAIN c.file <=> j \in DOMAIN a.file)
  BY DEF OnlyAt
<1>3. \A j \in DOMAIN a.file : j # i => c.file[j] = a.file[j]
  BY DEF OnlyAt
<1>4. QED  BY <1>1, <1>2, <1>3 DEF OnlyAt

(* loadIndex reads the file if there is one and rebuilds the index if not,  *)
(* unless it did so before.                                                 *)
LEMMA LoadedFacts ==
    ASSUME Bounds, NEW st, StoreOK(st), NEW i, st.ok => i \in DOMAIN st.manager,
           NEW l, l = Loaded(st, i)
    PROVE  /\ StoreOK(l) /\ OnlyAt(st, l, i)
           /\ l.ok = (st.ok /\ \/ st.manager[i].indexLoaded
                               \/ IF i \in DOMAIN st.file THEN st.file[i] # Torn
                                  ELSE i \in indexes)
           /\ l.ok => /\ l.manager[i].indexLoaded /\ IsBag(l.manager[i].entries)
                      /\ IF st.manager[i].indexLoaded THEN l = st
                         ELSE IF i \in DOMAIN st.file
                              THEN l.file = st.file /\ l.manager[i].entries = st.file[i]
                              ELSE /\ l.manager[i].entries = Rows(st.vector, i)
                                   /\ i \in DOMAIN l.file /\ l.file[i] = Rows(st.vector, i)
<1>1. /\ IsStore(st) /\ ListOK(st.list, st.manager)
      /\ ManagersOK(st.manager) /\ FilesOK(st.file) /\ VectorsOK(st.vector)
  BY DEF StoreOK
<1>2. OnlyAt(st, st, i)
  BY DEF OnlyAt
<1> st.ok \in BOOLEAN
  BY <1>1 DEF IsStore
<1>3. CASE ~st.ok
  <2>1. l = st
    BY <1>3 DEF Loaded
  <2>2. QED  BY <1>2, <1>3, <2>1
<1>4. CASE st.ok /\ st.manager[i].indexLoaded
  <2>1. l = st
    BY <1>4 DEF Loaded
  <2>2. IsBag(st.manager[i].entries)
    BY <1>1, <1>4 DEF ManagersOK, ManagerOK
  <2>3. QED  BY <1>2, <1>4, <2>1, <2>2
<1>5. CASE st.ok /\ ~st.manager[i].indexLoaded
  <2>1. i \in DOMAIN st.manager /\ ManagerOK(st.manager[i])
    BY <1>1, <1>5 DEF ManagersOK
  <2>2. PICK t : t = [st EXCEPT !.manager[i].entries = Torn]
    OBVIOUS
  <2>3. PICK m : m = [st.manager EXCEPT ![i].entries = Torn]
    OBVIOUS
  <2>4. /\ IsStore(t) /\ t.list = st.list /\ t.manager = m /\ t.file = st.file
        /\ t.vector = st.vector /\ t.ok = TRUE
    BY <1>1, <1>5, <2>2, <2>3 DEF IsStore
  <2>5. /\ DOMAIN m = DOMAIN st.manager
        /\ m[i] = [entries |-> Torn, indexLoaded |-> FALSE]
        /\ \A j \in DOMAIN m : j # i => m[j] = st.manager[j]
    <3>1. m[i] = [st.manager[i] EXCEPT !.entries = Torn]
      BY <2>1, <2>3
    <3>2. st.manager[i].indexLoaded = FALSE
      BY <1>5, <2>1 DEF ManagerOK
    <3>3. m[i] = [entries |-> Torn, indexLoaded |-> FALSE]
      BY <2>1, <3>1, <3>2 DEF ManagerOK
    <3>4. QED  BY <2>1, <2>3, <3>3
  <2>6. StoreOK(t) /\ OnlyAt(st, t, i)
    <3>1. ManagerOK(m[i])
      BY <2>5 DEF ManagerOK
    <3>2. QED  BY <2>1, <2>4, <2>5, <3>1, EntriesSet
  <2> DEFINE read == IF i \notin DOMAIN t.file THEN Restored(t, i)
                     ELSE IF t.file[i] = Torn THEN Failed(t)
                     ELSE [st EXCEPT !.manager[i].entries = st.file[i]]
  <2>7. l = [read EXCEPT !.manager[i].indexLoaded = read.ok]
    BY <1>5, <2>2, <2>4 DEF Loaded
  <2>8. i \in DOMAIN t.manager /\ t.manager[i] = [entries |-> Torn, indexLoaded |-> FALSE]
    BY <2>1, <2>4, <2>5
  <2>9. ASSUME NEW r, r = read, IsStore(r), DOMAIN r.manager = DOMAIN st.manager,
               NEW b, r.manager[i] = [entries |-> b, indexLoaded |-> FALSE],
               OnlyAt(st, r, i), StoreOK(r), r.ok => IsBag(b)
        PROVE  /\ StoreOK(l) /\ OnlyAt(st, l, i) /\ l.ok = r.ok /\ l.file = r.file
               /\ l.manager[i] = [entries |-> b, indexLoaded |-> r.ok]
    <3>1. PICK n : n = [r.manager EXCEPT ![i].indexLoaded = r.ok]
      OBVIOUS
    <3>2. /\ DOMAIN n = DOMAIN r.manager
          /\ n[i] = [entries |-> b, indexLoaded |-> r.ok]
          /\ \A j \in DOMAIN n : j # i => n[j] = r.manager[j]
      <4>1. i \in DOMAIN r.manager
        BY <2>1, <2>9
      <4>2. n[i] = [r.manager[i] EXCEPT !.indexLoaded = r.ok]
        BY <3>1, <4>1
      <4>3. n[i] = [entries |-> b, indexLoaded |-> r.ok]
        BY <2>9, <4>2
      <4>4. QED  BY <3>1, <4>1, <4>3
    <3>3. /\ IsStore(l) /\ l.list = r.list /\ l.manager = n /\ l.file = r.file
          /\ l.vector = r.vector /\ l.ok = r.ok
      <4> HIDE DEF read
      <4>1. l = [r EXCEPT !.manager[i].indexLoaded = r.ok]
        BY <2>7, <2>9
      <4>2. QED  BY <2>9, <3>1, <4>1 DEF IsStore
    <3>4. IsBag(b) \/ (b = Torn /\ ~r.ok)
      <4>1. ManagerOK(r.manager[i])
        BY <2>1, <2>9 DEF StoreOK, ManagersOK
      <4>2. QED  BY <2>9, <4>1 DEF ManagerOK
    <3>5. StoreOK(l) /\ OnlyAt(r, l, i)
      <4>1. i \in DOMAIN r.manager /\ r.ok \in BOOLEAN
        BY <2>1, <2>9 DEF IsStore
      <4>2. StoreOK(r)
        BY <2>9
      <4>3. /\ IsStore(l) /\ l.list = r.list /\ l.file = r.file /\ l.vector = r.vector
            /\ l.manager = n /\ DOMAIN n = DOMAIN r.manager
            /\ ManagerOK(n[i])
            /\ \A j \in DOMAIN n : j # i => n[j] = r.manager[j]
        <5>1. ManagerOK(n[i])
          BY <3>2, <3>4, <4>1 DEF ManagerOK
        <5>2. QED  BY <3>2, <3>3, <5>1
      <4> HIDE DEF read
      <4>4. QED  BY <4>1, <4>2, <4>3, EntriesSet
    <3>6. OnlyAt(st, l, i)
      BY <2>9, <3>5, OnlyAtTwice
    <3>7. QED  BY <3>2, <3>3, <3>5, <3>6
  <2>10. CASE i \notin DOMAIN st.file
    <3>1. PICK r : r = Restored(t, i)
      OBVIOUS
    <3>2. /\ StoreOK(r) /\ OnlyAt(t, r, i)
          /\ r.ok = (i \in indexes)
          /\ ~r.ok => r.manager = t.manager /\ r.file = t.file
          /\ r.ok => /\ r.manager[i] = [entries |-> Rows(t.vector, i), indexLoaded |-> FALSE]
                     /\ i \in DOMAIN r.file /\ r.file[i] = Rows(t.vector, i)
      <4>1. /\ t.ok = TRUE /\ i \in DOMAIN t.manager /\ StoreOK(t)
            /\ t.manager[i].entries = Torn /\ t.manager[i].indexLoaded = FALSE
        BY <2>4, <2>6, <2>8
      <4> HIDE DEF read
      <4>2. /\ StoreOK(r) /\ OnlyAt(t, r, i)
            /\ r.ok = (t.ok /\ (t.manager[i].entries \notin {EmptyBag, Torn} \/ i \in indexes))
            /\ ~r.ok => r.manager = t.manager /\ r.file = t.file
            /\ r.ok => \/ r = t /\ t.manager[i].entries \notin {EmptyBag, Torn}
                       \/ /\ t.manager[i].entries \in {EmptyBag, Torn}
                          /\ r.manager[i] = [entries |-> Rows(t.vector, i),
                                             indexLoaded |-> t.manager[i].indexLoaded]
                          /\ i \in DOMAIN r.file /\ r.file[i] = Rows(t.vector, i)
        BY <3>1, <4>1, RestoredFacts
      <4>3. t.manager[i].entries \in {EmptyBag, Torn}
        BY <4>1
      <4>4. r.ok = (i \in indexes)
        BY <4>1, <4>2, <4>3
      <4>5. r.ok => /\ r.manager[i] = [entries |-> Rows(t.vector, i), indexLoaded |-> FALSE]
                    /\ i \in DOMAIN r.file /\ r.file[i] = Rows(t.vector, i)
        BY <4>1, <4>2, <4>3
      <4>6. QED  BY <4>2, <4>4, <4>5
    <3>3. r = read
      BY <2>4, <2>10, <3>1
    <3>4. PICK b : b = IF r.ok THEN Rows(t.vector, i) ELSE Torn
      OBVIOUS
    <3>5. OnlyAt(st, r, i) /\ IsStore(r)
      BY <2>6, <3>2, OnlyAtTwice DEF StoreOK
    <3>6. r.manager[i] = [entries |-> b, indexLoaded |-> FALSE] /\ (r.ok => IsBag(b))
      <4>1. IsBag(Rows(t.vector, i))
        BY <2>6, RowsOK DEF StoreOK
      <4>2. QED  BY <2>8, <3>2, <3>4, <4>1
    <3>7. DOMAIN r.manager = DOMAIN st.manager
      BY <3>5 DEF OnlyAt
    <3> HIDE DEF read
    <3>8. /\ StoreOK(l) /\ OnlyAt(st, l, i) /\ l.ok = r.ok /\ l.file = r.file
          /\ l.manager[i] = [entries |-> b, indexLoaded |-> r.ok]
      BY <2>9, <3>2, <3>3, <3>5, <3>6, <3>7
    <3>9. l.ok => l.manager[i].indexLoaded = TRUE /\ l.manager[i].entries = Rows(st.vector, i)
      BY <2>4, <3>4, <3>8
    <3>10. QED  BY <1>5, <2>4, <2>10, <3>2, <3>4, <3>6, <3>8, <3>9
  <2>11. CASE i \in DOMAIN st.file /\ st.file[i] = Torn
    <3>1. PICK r : r = [t EXCEPT !.ok = FALSE]
      OBVIOUS
    <3>2. /\ IsStore(r) /\ r.list = t.list /\ r.manager = t.manager /\ r.file = t.file
          /\ r.vector = t.vector /\ r.ok = FALSE
      BY <2>4, <3>1 DEF IsStore
    <3>3. StoreOK(r)
      BY <2>6, <3>2 DEF StoreOK
    <3>4. r = read
      BY <2>4, <2>11, <3>1 DEF Failed
    <3>5. OnlyAt(t, r, i)
      BY <3>2 DEF OnlyAt
    <3>6. OnlyAt(st, r, i)
      BY <2>6, <3>5, OnlyAtTwice
    <3>7. DOMAIN r.manager = DOMAIN st.manager
      BY <3>6 DEF OnlyAt
    <3>8. r.manager[i] = [entries |-> Torn, indexLoaded |-> FALSE]
      BY <2>8, <3>2
    <3> HIDE DEF read
    <3>9. /\ StoreOK(l) /\ OnlyAt(st, l, i) /\ l.ok = r.ok
      BY <2>9, <3>2, <3>3, <3>4, <3>6, <3>7, <3>8
    <3>10. QED  BY <1>5, <2>11, <3>2, <3>9
  <2>12. CASE i \in DOMAIN st.file /\ st.file[i] # Torn
    <3>1. PICK b : b = st.file[i]
      OBVIOUS
    <3>2. IsBag(b)
      BY <1>1, <2>12, <3>1 DEF FilesOK
    <3>3. PICK r : r = [st EXCEPT !.manager[i].entries = b]
      OBVIOUS
    <3>4. PICK n : n = [st.manager EXCEPT ![i].entries = b]
      OBVIOUS
    <3>5. /\ IsStore(r) /\ r.list = st.list /\ r.manager = n /\ r.file = st.file
          /\ r.vector = st.vector /\ r.ok = TRUE
      BY <1>1, <1>5, <3>3, <3>4 DEF IsStore
    <3>6. /\ DOMAIN n = DOMAIN st.manager
          /\ n[i] = [entries |-> b, indexLoaded |-> FALSE]
          /\ \A j \in DOMAIN n : j # i => n[j] = st.manager[j]
      <4>1. n[i] = [st.manager[i] EXCEPT !.entries = b]
        BY <2>1, <3>4
      <4>2. st.manager[i].indexLoaded = FALSE
        BY <1>5, <2>1 DEF ManagerOK
      <4>3. n[i] = [entries |-> b, indexLoaded |-> FALSE]
        BY <2>1, <4>1, <4>2 DEF ManagerOK
      <4>4. QED  BY <2>1, <3>4, <4>3
    <3>7. StoreOK(r) /\ OnlyAt(st, r, i)
      <4>1. ManagerOK(n[i])
        BY <3>2, <3>6 DEF ManagerOK
      <4>2. QED  BY <2>1, <3>5, <3>6, <4>1, EntriesSet
    <3>8. r = read
      BY <2>4, <2>12, <3>1, <3>3
    <3> HIDE DEF read
    <3>9. /\ StoreOK(l) /\ OnlyAt(st, l, i) /\ l.ok = r.ok /\ l.file = r.file
          /\ l.manager[i] = [entries |-> b, indexLoaded |-> r.ok]
      BY <2>9, <3>2, <3>5, <3>6, <3>7, <3>8
    <3>10. l.manager[i].indexLoaded = TRUE /\ l.manager[i].entries = b
      BY <3>5, <3>9
    <3>11. QED  BY <1>5, <2>12, <3>1, <3>2, <3>5, <3>9, <3>10
  <2>13. QED  BY <2>10, <2>11, <2>12
<1>6. QED  BY <1>3, <1>4, <1>5

(* addVectorData loads the index and enters one value.                      *)
LEMMA AppendedFacts ==
    ASSUME Bounds, NEW st, StoreOK(st), NEW i, st.ok => i \in DOMAIN st.manager,
           NEW u \in Uid, NEW e \in Embeddings,
           NEW l, l = Loaded(st, i), NEW a, a = Appended(st, i, u, e)
    PROVE  /\ StoreOK(a) /\ OnlyAt(st, a, i)
           /\ a.ok = l.ok /\ a.file = l.file
           /\ a.ok => /\ st.ok
                      /\ a.manager[i] = [entries |-> l.manager[i].entries (+) SetToBag({<<u, e>>}),
                                         indexLoaded |-> TRUE]
                      /\ BagIn(<<u, e>>, a.manager[i].entries)
<1>1. /\ StoreOK(l) /\ OnlyAt(st, l, i)
      /\ l.ok => st.ok /\ l.manager[i].indexLoaded /\ IsBag(l.manager[i].entries)
  <2>1. /\ StoreOK(l) /\ OnlyAt(st, l, i)
        /\ l.ok = (st.ok /\ \/ st.manager[i].indexLoaded
                            \/ IF i \in DOMAIN st.file THEN st.file[i] # Torn
                               ELSE i \in indexes)
        /\ l.ok => l.manager[i].indexLoaded /\ IsBag(l.manager[i].entries)
    BY LoadedFacts
  <2>2. l.ok => st.ok
    BY <2>1
  <2>3. QED  BY <2>1, <2>2
<1>2. CASE ~l.ok
  <2>1. a = l
    BY <1>2 DEF Appended
  <2>2. QED  BY <1>1, <1>2, <2>1
<1>3. CASE l.ok
  <2>1. IsStore(l) /\ i \in DOMAIN l.manager /\ ManagerOK(l.manager[i])
        /\ l.ok = TRUE /\ l.manager[i].indexLoaded = TRUE
    <3>1. IsStore(l) /\ i \in DOMAIN l.manager
      BY <1>1, <1>3 DEF StoreOK, OnlyAt
    <3>2. ManagerOK(l.manager[i])
      BY <1>1, <3>1 DEF StoreOK, ManagersOK
    <3>3. QED  BY <1>1, <1>3, <3>1, <3>2 DEF IsStore, ManagerOK
  <2>2. PICK b : b = l.manager[i].entries (+) SetToBag({<<u, e>>})
    OBVIOUS
  <2>3. IsBag(b) /\ BagIn(<<u, e>>, b)
    <3>1. PICK c : c = l.manager[i].entries
      OBVIOUS
    <3>2. IsBag(c)
      BY <1>1, <1>3, <3>1
    <3>3. QED  BY <2>2, <3>1, <3>2, BagsOK
  <2>4. PICK n : n = [l.manager EXCEPT ![i].entries = b]
    OBVIOUS
  <2>5. /\ DOMAIN n = DOMAIN l.manager
        /\ n[i] = [entries |-> b, indexLoaded |-> TRUE]
        /\ \A j \in DOMAIN n : j # i => n[j] = l.manager[j]
    <3>1. n[i] = [l.manager[i] EXCEPT !.entries = b]
      BY <2>1, <2>4
    <3>2. n[i] = [entries |-> b, indexLoaded |-> TRUE]
      BY <2>1, <3>1 DEF ManagerOK
    <3>3. QED  BY <2>1, <2>4, <3>2
  <2>6. a = [l EXCEPT !.manager = n]
    <3>1. a = [l EXCEPT !.manager[i].entries = @ (+) SetToBag({<<u, e>>})]
      BY <1>3 DEF Appended
    <3>2. [l EXCEPT !.manager[i].entries = @ (+) SetToBag({<<u, e>>})]
             = [l EXCEPT !.manager = n]
      BY <2>1, <2>2, <2>4 DEF IsStore
    <3>3. QED  BY <3>1, <3>2
  <2>7. /\ IsStore(a) /\ a.list = l.list /\ a.manager = n /\ a.file = l.file
        /\ a.vector = l.vector /\ a.ok = TRUE
    BY <2>1, <2>6 DEF IsStore
  <2>8. StoreOK(a) /\ OnlyAt(l, a, i)
    <3>1. ManagerOK(n[i])
      BY <2>3, <2>5 DEF ManagerOK
    <3>2. /\ StoreOK(l) /\ i \in DOMAIN l.manager /\ ManagerOK(n[i])
          /\ IsStore(a) /\ a.list = l.list /\ a.file = l.file /\ a.vector = l.vector
          /\ a.manager = n /\ DOMAIN n = DOMAIN l.manager
          /\ \A j \in DOMAIN n : j # i => n[j] = l.manager[j]
      BY <1>1, <2>1, <2>3, <2>5, <2>7, <3>1
    <3>3. QED  BY <3>2, EntriesSet
  <2>9. OnlyAt(st, a, i)
    BY <1>1, <2>8, OnlyAtTwice
  <2>10. a.manager[i] = [entries |-> b, indexLoaded |-> TRUE]
    BY <2>5, <2>7
  <2>11. a.manager[i].entries = b
    BY <2>10
  <2>12. QED  BY <1>1, <1>3, <2>1, <2>2, <2>3, <2>7, <2>8, <2>9, <2>10, <2>11
<1>4. QED  BY <1>2, <1>3

(* A vector has a value for an index, and nothing else is changed.          *)
Wrote(vectors, w, v, i, e) ==
    /\ DOMAIN w = DOMAIN vectors
    /\ \A x \in DOMAIN vectors : x # v => w[x] = vectors[x]
    /\ w[v].uid = vectors[v].uid /\ w[v].deleted = vectors[v].deleted
    /\ DOMAIN w[v].values = DOMAIN vectors[v].values \cup {i}
    /\ w[v].values[i] = e
    /\ \A j \in DOMAIN vectors[v].values : j # i => w[v].values[j] = vectors[v].values[j]

(* A value is written to the tables.                                        *)
LEMMA InsertedFacts ==
    ASSUME NEW st, StoreOK(st), NEW v \in DOMAIN st.vector, NEW i \in IndexId, NEW e \in Embeddings,
           NEW n, n = Inserted(st, v, i, e)
    PROVE  /\ StoreOK(n)
           /\ n.list = st.list /\ n.manager = st.manager /\ n.file = st.file /\ n.ok = st.ok
           /\ IF st.ok THEN Wrote(st.vector, n.vector, v, i, e) ELSE n.vector = st.vector
<1>1. CASE ~st.ok
  <2>1. n = st
    BY <1>1 DEF Inserted
  <2>2. QED  BY <1>1, <2>1
<1>2. CASE st.ok
  <2>1. PICK w : w = [st.vector EXCEPT ![v].values = Put(@, i, e)]
    OBVIOUS
  <2>2. n = [st EXCEPT !.vector = w]
    BY <1>2, <2>1 DEF Inserted, StoreOK, IsStore
  <2>3. /\ IsStore(n) /\ n.list = st.list /\ n.manager = st.manager /\ n.file = st.file
        /\ n.vector = w /\ n.ok = st.ok
    BY <1>2, <2>2 DEF StoreOK, IsStore
  <2>4. PICK p : p = Put(st.vector[v].values, i, e)
    OBVIOUS
  <2>5. st.vector[v] \in [uid : Uid, deleted : BOOLEAN, values : Values]
    BY DEF StoreOK, VectorsOK
  <2>6. p \in Values
    <3>1. PICK I \in SUBSET IndexId : st.vector[v].values \in [I -> Embeddings]
      BY <2>5 DEF Values
    <3>2. p \in [I \cup {i} -> Embeddings]
      BY <2>4, <3>1 DEF Put
    <3>3. I \cup {i} \in SUBSET IndexId
      OBVIOUS
    <3>4. QED  BY <3>2, <3>3 DEF Values
  <2>7. w[v] = [st.vector[v] EXCEPT !.values = p] /\ DOMAIN w = DOMAIN st.vector
        /\ \A x \in DOMAIN w : x # v => w[x] = st.vector[x]
    BY <2>1, <2>4
  <2>12. Wrote(st.vector, w, v, i, e)
    <3>1. /\ DOMAIN p = DOMAIN st.vector[v].values \cup {i} /\ p[i] = e
          /\ \A j \in DOMAIN st.vector[v].values : j # i => p[j] = st.vector[v].values[j]
      BY <2>4 DEF Put
    <3>2. w[v].uid = st.vector[v].uid /\ w[v].deleted = st.vector[v].deleted /\ w[v].values = p
      BY <2>5, <2>7
    <3>3. QED  BY <2>7, <3>1, <3>2 DEF Wrote
  <2>8. w[v] \in [uid : Uid, deleted : BOOLEAN, values : Values]
    BY <2>5, <2>6, <2>7
  <2>9. VectorsOK(w)
    BY <2>7, <2>8 DEF VectorsOK, StoreOK
  <2>10. StoreOK(n)
    BY <2>3, <2>9 DEF StoreOK
  <2>11. QED  BY <1>2, <2>3, <2>10, <2>12
<1>3. QED  BY <1>1, <1>2

(* An index that was not in memory gets the rows.                           *)
LEMMA RefreshedFacts ==
    ASSUME Bounds, NEW st, StoreOK(st), NEW i, NEW r, r = Refreshed(st, i)
    PROVE  /\ StoreOK(r) /\ r.vector = st.vector
           /\ r.ok => st.ok /\ i \in DOMAIN r.manager
           /\ DOMAIN r.manager \subseteq DOMAIN st.manager \cup {i}
           /\ \A j \in DOMAIN r.manager : j # i => r.manager[j] = st.manager[j]
           /\ r.ok /\ i \notin DOMAIN st.manager =>
                /\ r.manager[i] = [entries |-> Rows(st.vector, i), indexLoaded |-> FALSE]
                /\ i \in DOMAIN r.file /\ r.file[i] = Rows(st.vector, i)
<1>1. CASE ~st.ok
  <2>1. r = st
    BY <1>1 DEF Refreshed
  <2>2. QED  BY <1>1, <2>1
<1>2. CASE st.ok
  <2>1. PICK g : g = Get(st, i)
    OBVIOUS
  <2>2. /\ StoreOK(g) /\ g.vector = st.vector
        /\ g.ok => i \in DOMAIN g.manager
        /\ DOMAIN g.manager \subseteq DOMAIN st.manager \cup {i}
        /\ \A j \in DOMAIN g.manager :
             g.manager[j] = IF j \in DOMAIN st.manager THEN st.manager[j] ELSE New
    BY <2>1, GetFacts
  <2>3. r = Restored(g, i)
    BY <1>2, <2>1 DEF Refreshed
  <2>4. /\ StoreOK(r) /\ OnlyAt(g, r, i)
        /\ r.ok = (g.ok /\ (g.manager[i].entries \notin {EmptyBag, Torn} \/ i \in indexes))
        /\ r.ok => \/ r = g /\ g.manager[i].entries \notin {EmptyBag, Torn}
                   \/ /\ g.manager[i].entries \in {EmptyBag, Torn}
                      /\ r.manager[i] = [entries |-> Rows(g.vector, i),
                                         indexLoaded |-> g.manager[i].indexLoaded]
                      /\ i \in DOMAIN r.file /\ r.file[i] = Rows(g.vector, i)
    BY <2>2, <2>3, RestoredFacts
  <2>5. r.ok => g.ok
    BY <2>4
  <2>6. /\ r.vector = st.vector /\ DOMAIN r.manager = DOMAIN g.manager
        /\ \A j \in DOMAIN r.manager : j # i => r.manager[j] = g.manager[j]
    BY <2>2, <2>4 DEF OnlyAt
  <2>7. \A j \in DOMAIN r.manager : j # i => r.manager[j] = st.manager[j]
    BY <2>2, <2>6
  <2>8. ASSUME r.ok, i \notin DOMAIN st.manager
        PROVE  /\ r.manager[i] = [entries |-> Rows(st.vector, i), indexLoaded |-> FALSE]
               /\ i \in DOMAIN r.file /\ r.file[i] = Rows(st.vector, i)
    <3>1. g.manager[i] = New
      BY <2>2, <2>5, <2>8
    <3>2. g.manager[i].entries = EmptyBag /\ g.manager[i].indexLoaded = FALSE
      BY <3>1 DEF New
    <3>3. QED  BY <2>2, <2>4, <2>8, <3>2
  <2>9. QED  BY <1>2, <2>2, <2>4, <2>5, <2>6, <2>7, <2>8
<1>3. QED  BY <1>1, <1>2

(* It keeps the vectors.                                                    *)
LEMMA RefreshedKeeps ==
    ASSUME Bounds, NEW st, StoreOK(st), NEW i, NEW r, r = Refreshed(st, i)
    PROVE  StoreOK(r) /\ r.vector = st.vector
<1>1. CASE ~st.ok
  BY <1>1 DEF Refreshed
<1>2. CASE st.ok
  <2>1. PICK g : g = Get(st, i)
    OBVIOUS
  <2>2. StoreOK(g) /\ g.vector = st.vector /\ (g.ok => i \in DOMAIN g.manager)
    BY <2>1, GetFacts
  <2>3. r = Restored(g, i)
    BY <1>2, <2>1 DEF Refreshed
  <2>4. StoreOK(r) /\ OnlyAt(g, r, i)
    BY <2>2, <2>3, RestoredFacts
  <2>5. QED  BY <2>2, <2>4 DEF OnlyAt
<1>3. QED  BY <1>1, <1>2

(* One value of addVector: the index has it afterwards and is not read      *)
(* again; an index that was not in memory has the rows and this value.      *)
LEMMA AddedValueFacts ==
    ASSUME Bounds, NEW st, StoreOK(st), NEW v \in DOMAIN st.vector,
           NEW x, NEW i \in IndexId, NEW e \in Embeddings, x.index = i, x.embedding = e,
           NEW u, u = st.vector[v].uid, NEW a, a = AddedValue(st, v, x)
    PROVE  /\ StoreOK(a)
           /\ DOMAIN a.vector = DOMAIN st.vector /\ a.vector[v].uid = u
           /\ \A w \in DOMAIN st.vector : w # v => a.vector[w] = st.vector[w]
           /\ DOMAIN a.manager \subseteq DOMAIN st.manager \cup {i}
           /\ \A j \in DOMAIN a.manager : j # i => a.manager[j] = st.manager[j]
           /\ a.ok => /\ st.ok
                      /\ Wrote(st.vector, a.vector, v, i, e)
                      /\ a.manager[i].indexLoaded
                      /\ BagIn(<<u, e>>, a.manager[i].entries)
                      /\ i \notin DOMAIN st.manager =>
                           a.manager[i].entries = Rows(st.vector, i) (+) SetToBag({<<u, e>>})
<1>1. PICK r : r = Refreshed(st, i)
  OBVIOUS
<1>2. /\ StoreOK(r) /\ r.vector = st.vector
      /\ r.ok => st.ok /\ i \in DOMAIN r.manager
      /\ DOMAIN r.manager \subseteq DOMAIN st.manager \cup {i}
      /\ \A j \in DOMAIN r.manager : j # i => r.manager[j] = st.manager[j]
      /\ r.ok /\ i \notin DOMAIN st.manager =>
           /\ r.manager[i] = [entries |-> Rows(st.vector, i), indexLoaded |-> FALSE]
           /\ i \in DOMAIN r.file /\ r.file[i] = Rows(st.vector, i)
  BY <1>1, RefreshedFacts
<1>3. PICK n : n = Inserted(r, v, i, e)
  OBVIOUS
<1>4. v \in DOMAIN r.vector
  BY <1>2
<1>5. /\ StoreOK(n)
      /\ n.list = r.list /\ n.manager = r.manager /\ n.file = r.file /\ n.ok = r.ok
      /\ IF r.ok THEN Wrote(r.vector, n.vector, v, i, e) ELSE n.vector = r.vector
  BY <1>2, <1>3, <1>4, InsertedFacts
<1>6. /\ u \in Uid /\ DOMAIN n.vector = DOMAIN st.vector /\ n.vector[v].uid = u
      /\ \A w \in DOMAIN st.vector : w # v => n.vector[w] = st.vector[w]
  <2>1. st.vector[v] \in [uid : Uid, deleted : BOOLEAN, values : Values]
    BY DEF StoreOK, VectorsOK
  <2>2. CASE r.ok
    <3>1. Wrote(st.vector, n.vector, v, i, e)
      BY <1>2, <1>5, <2>2
    <3>2. QED  BY <2>1, <3>1 DEF Wrote
  <2>3. CASE ~r.ok
    BY <1>2, <1>5, <2>1, <2>3
  <2>4. QED  BY <2>2, <2>3
<1>7. a = Appended(n, i, u, e)
  BY <1>1, <1>3 DEF AddedValue
<1>8. n.ok => i \in DOMAIN n.manager
  BY <1>2, <1>5
<1>9. PICK l : l = Loaded(n, i)
  OBVIOUS
<1>10. /\ StoreOK(a) /\ OnlyAt(n, a, i)
       /\ a.ok = l.ok /\ a.file = l.file
       /\ a.ok => /\ n.ok
                  /\ a.manager[i] = [entries |-> l.manager[i].entries (+) SetToBag({<<u, e>>}),
                                     indexLoaded |-> TRUE]
                  /\ BagIn(<<u, e>>, a.manager[i].entries)
  BY <1>5, <1>6, <1>7, <1>8, <1>9, AppendedFacts
<1>11. /\ a.vector = n.vector /\ DOMAIN a.manager = DOMAIN r.manager
       /\ \A j \in DOMAIN a.manager : j # i => a.manager[j] = r.manager[j]
  BY <1>5, <1>10 DEF OnlyAt
<1>12. ASSUME a.ok, i \notin DOMAIN st.manager
       PROVE  a.manager[i].entries = Rows(st.vector, i) (+) SetToBag({<<u, e>>})
  <2>1. /\ r.manager[i] = [entries |-> Rows(st.vector, i), indexLoaded |-> FALSE]
        /\ i \in DOMAIN r.file /\ r.file[i] = Rows(st.vector, i)
    BY <1>2, <1>5, <1>10, <1>12
  <2>2. /\ n.manager[i].indexLoaded = FALSE
        /\ i \in DOMAIN n.file /\ n.file[i] = Rows(st.vector, i)
    BY <1>5, <2>1
  <2>3. l.ok => IF n.manager[i].indexLoaded THEN l = n
                ELSE IF i \in DOMAIN n.file
                     THEN l.file = n.file /\ l.manager[i].entries = n.file[i]
                     ELSE /\ l.manager[i].entries = Rows(n.vector, i)
                          /\ i \in DOMAIN l.file /\ l.file[i] = Rows(n.vector, i)
    BY <1>5, <1>8, <1>9, LoadedFacts
  <2>4. l.manager[i].entries = Rows(st.vector, i)
    BY <1>10, <1>12, <2>2, <2>3
  <2>5. QED  BY <1>10, <1>12, <2>4
<1>13. QED  BY <1>2, <1>5, <1>6, <1>10, <1>11, <1>12

----------------------------------------------------------------------------
(* Which vectors an index has.                                              *)
LEMMA RowsAreSet ==
    ASSUME NEW vectors, NEW i
    PROVE  \E R : /\ Rows(vectors, i) = SetToBag(R)
                  /\ \A y : y \in R <=>
                       \E x \in DOMAIN vectors :
                          /\ ~vectors[x].deleted /\ i \in DOMAIN vectors[x].values
                          /\ y = <<vectors[x].uid, vectors[x].values[i]>>
<1>1. PICK R : R = {<<vectors[v].uid, vectors[v].values[i]>> :
                      v \in {w \in DOMAIN vectors :
                               ~vectors[w].deleted /\ i \in DOMAIN vectors[w].values}}
  OBVIOUS
<1>2. \A y : y \in R <=>
         \E x \in DOMAIN vectors :
            /\ ~vectors[x].deleted /\ i \in DOMAIN vectors[x].values
            /\ y = <<vectors[x].uid, vectors[x].values[i]>>
  BY <1>1
<1>3. Rows(vectors, i) = SetToBag(R)
  BY <1>1 DEF Rows
<1>4. QED  BY <1>2, <1>3

(* The indexes a vector gets no value for keep their rows.                  *)
LEMMA RowsOfOthers ==
    ASSUME NEW vectors, VectorsOK(vectors), NEW v \in DOMAIN vectors, NEW i, NEW e,
           NEW w, Wrote(vectors, w, v, i, e), NEW j, j # i
    PROVE  Rows(w, j) = Rows(vectors, j)
<1>1. /\ DOMAIN w = DOMAIN vectors
      /\ \A x \in DOMAIN vectors : x # v => w[x] = vectors[x]
      /\ w[v].uid = vectors[v].uid /\ w[v].deleted = vectors[v].deleted
      /\ DOMAIN w[v].values = DOMAIN vectors[v].values \cup {i}
      /\ \A k \in DOMAIN vectors[v].values : k # i => w[v].values[k] = vectors[v].values[k]
  BY DEF Wrote
<1>2. PICK R : /\ Rows(vectors, j) = SetToBag(R)
               /\ \A y : y \in R <=>
                    \E x \in DOMAIN vectors :
                       /\ ~vectors[x].deleted /\ j \in DOMAIN vectors[x].values
                       /\ y = <<vectors[x].uid, vectors[x].values[j]>>
  BY RowsAreSet
<1>3. PICK Q : /\ Rows(w, j) = SetToBag(Q)
               /\ \A y : y \in Q <=>
                    \E x \in DOMAIN w :
                       /\ ~w[x].deleted /\ j \in DOMAIN w[x].values
                       /\ y = <<w[x].uid, w[x].values[j]>>
  BY RowsAreSet
<1>4. \A x \in DOMAIN vectors :
         /\ w[x].uid = vectors[x].uid /\ w[x].deleted = vectors[x].deleted
         /\ j \in DOMAIN w[x].values <=> j \in DOMAIN vectors[x].values
         /\ j \in DOMAIN vectors[x].values => w[x].values[j] = vectors[x].values[j]
  BY <1>1
<1>5. \A y : y \in Q <=> y \in R
  BY <1>1, <1>2, <1>3, <1>4
<1>6. Q = R
  BY <1>5
<1>7. QED  BY <1>2, <1>3, <1>6

(* The new entry is another than those the index has, as no other vector    *)
(* has its unique_id.                                                       *)
LEMMA RowsOfOne ==
    ASSUME NEW vectors, VectorsOK(vectors), NEW v \in DOMAIN vectors, NEW i, NEW e,
           ~vectors[v].deleted, i \notin DOMAIN vectors[v].values,
           \A x \in DOMAIN vectors : x # v => vectors[x].uid # vectors[v].uid,
           NEW w, Wrote(vectors, w, v, i, e),
           NEW u, u = vectors[v].uid
    PROVE  Rows(w, i) = Rows(vectors, i) (+) SetToBag({<<u, e>>})
<1>1. /\ DOMAIN w = DOMAIN vectors
      /\ \A x \in DOMAIN vectors : x # v => w[x] = vectors[x]
      /\ w[v].uid = vectors[v].uid /\ w[v].deleted = vectors[v].deleted
      /\ DOMAIN w[v].values = DOMAIN vectors[v].values \cup {i}
      /\ w[v].values[i] = e
  BY DEF Wrote
<1>2. PICK R : /\ Rows(vectors, i) = SetToBag(R)
               /\ \A y : y \in R <=>
                    \E x \in DOMAIN vectors :
                       /\ ~vectors[x].deleted /\ i \in DOMAIN vectors[x].values
                       /\ y = <<vectors[x].uid, vectors[x].values[i]>>
  BY RowsAreSet
<1>3. PICK Q : /\ Rows(w, i) = SetToBag(Q)
               /\ \A y : y \in Q <=>
                    \E x \in DOMAIN w :
                       /\ ~w[x].deleted /\ i \in DOMAIN w[x].values
                       /\ y = <<w[x].uid, w[x].values[i]>>
  BY RowsAreSet
<1>4. ASSUME NEW y \in Q PROVE y \in R \cup {<<u, e>>}
  <2>1. PICK x \in DOMAIN w : /\ ~w[x].deleted /\ i \in DOMAIN w[x].values
                              /\ y = <<w[x].uid, w[x].values[i]>>
    BY <1>3
  <2>2. QED  BY <1>1, <1>2, <2>1
<1>5. ASSUME NEW y \in R PROVE y \in Q /\ y # <<u, e>>
  <2>1. PICK x \in DOMAIN vectors : /\ ~vectors[x].deleted /\ i \in DOMAIN vectors[x].values
                                    /\ y = <<vectors[x].uid, vectors[x].values[i]>>
    BY <1>2
  <2>2. x # v
    BY <2>1
  <2>3. QED  BY <1>1, <1>3, <2>1, <2>2
<1>6. <<u, e>> \in Q
  BY <1>1, <1>3
<1>7. Q = R \cup {<<u, e>>} /\ <<u, e>> \notin R
  BY <1>4, <1>5, <1>6
<1>8. PICK z : z = <<u, e>>
  OBVIOUS
<1>9. SetToBag(R \cup {z}) = SetToBag(R) (+) SetToBag({z})
  <2>1. z \notin R
    BY <1>7, <1>8
  <2>2. PICK f, g : f = SetToBag(R) /\ g = SetToBag({z})
    OBVIOUS
  <2>3. DOMAIN f = R /\ DOMAIN g = {z} /\ g[z] = 1 /\ \A y \in R : f[y] = 1
    BY <2>2 DEF SetToBag
  <2>4. f (+) g = [y \in R \cup {z} |-> (IF y \in DOMAIN f THEN f[y] ELSE 0)
                                        + (IF y \in DOMAIN g THEN g[y] ELSE 0)]
    BY <2>3 DEF (+)
  <2>5. \A y \in R \cup {z} : (IF y \in DOMAIN f THEN f[y] ELSE 0)
                              + (IF y \in DOMAIN g THEN g[y] ELSE 0) = 1
    BY <2>1, <2>3
  <2>6. f (+) g = [y \in R \cup {z} |-> 1]
    BY <2>4, <2>5
  <2>7. QED  BY <2>2, <2>6 DEF SetToBag
<1>10. QED  BY <1>2, <1>3, <1>7, <1>8, <1>9

----------------------------------------------------------------------------
(* What addVector has made of the store after some values of the request,   *)
(* those of the indexes I: these have the vector, and an index it brought   *)
(* into memory has exactly the rows.                                        *)

StateOK ==
    /\ Bounds
    /\ ListOK(cacheList, manager) /\ ManagersOK(manager) /\ FilesOK(file)
    /\ VectorsOK(vector)

AddedSoFar(st, v, uid, I) ==
    /\ StoreOK(st)
    /\ DOMAIN st.vector = DOMAIN vector \cup {v}
    /\ \A w \in DOMAIN vector : w # v => st.vector[w] = vector[w]
    /\ st.vector[v].uid = uid
    /\ st.ok =>
         /\ ~st.vector[v].deleted /\ DOMAIN st.vector[v].values = I
         /\ \A i \in DOMAIN st.manager :
              /\ i \notin I => i \in DOMAIN manager
              /\ i \in I => /\ st.manager[i].indexLoaded
                            /\ BagIn(<<uid, st.vector[v].values[i]>>, st.manager[i].entries)
              /\ i \notin DOMAIN manager => st.manager[i].entries = Rows(st.vector, i)

NewUid(v, uid) == \A w \in DOMAIN vector : w # v => vector[w].uid # uid

(* addVector begins with the vector's row written and no value entered.     *)
LEMMA AddedStart ==
    ASSUME StateOK, NEW v, NEW uid \in Uid
    PROVE  AddedSoFar(Store(Written(v, uid)), v, uid, {})
<1>1. PICK st : st = Store(Written(v, uid))
  OBVIOUS
<1>2. PICK w : w = Written(v, uid)
  OBVIOUS
<1>3. /\ IsStore(st) /\ st.list = cacheList /\ st.manager = manager /\ st.file = file
      /\ st.vector = w /\ st.ok = TRUE
  BY <1>1, <1>2 DEF Store, IsStore
<1>4. /\ DOMAIN w = DOMAIN vector \cup {v}
      /\ w[v] = [uid |-> uid, deleted |-> FALSE, values |-> Empty]
      /\ \A x \in DOMAIN vector : x # v => w[x] = vector[x]
  BY <1>2 DEF Written, Put
<1>5. Empty \in Values /\ DOMAIN Empty = {}
  <2>1. Empty \in [{} -> Embeddings] /\ DOMAIN Empty = {}
    BY DEF Empty
  <2>2. QED  BY <2>1 DEF Values
<1>6. VectorsOK(w)
  <2>1. \A x \in DOMAIN vector : vector[x] \in [uid : Uid, deleted : BOOLEAN, values : Values]
    BY DEF StateOK, VectorsOK
  <2>2. w[v] \in [uid : Uid, deleted : BOOLEAN, values : Values]
    BY <1>4, <1>5
  <2>3. QED  BY <1>4, <2>1, <2>2 DEF VectorsOK
<1>7. StoreOK(st)
  BY <1>3, <1>6 DEF StoreOK, StateOK
<1>8. w[v].uid = uid /\ w[v].deleted = FALSE /\ DOMAIN w[v].values = {}
  BY <1>4, <1>5
<1>9. AddedSoFar(st, v, uid, {})
  BY <1>3, <1>4, <1>7, <1>8 DEF AddedSoFar
<1>10. QED  BY <1>1, <1>9

(* One more value of addVector.                                             *)
LEMMA AddedStep ==
    ASSUME StateOK, NEW v, NEW uid \in Uid, NewUid(v, uid),
           NEW st, NEW I, AddedSoFar(st, v, uid, I),
           NEW x, NEW i \in IndexId, NEW e \in Embeddings, x.index = i, x.embedding = e,
           i \notin I, NEW a, a = AddedValue(st, v, x)
    PROVE  AddedSoFar(a, v, uid, I \cup {i})
<1>1. /\ StoreOK(st) /\ v \in DOMAIN st.vector /\ uid = st.vector[v].uid
      /\ DOMAIN st.vector = DOMAIN vector \cup {v}
      /\ \A w \in DOMAIN vector : w # v => st.vector[w] = vector[w]
  BY DEF AddedSoFar
<1>2. /\ StoreOK(a)
      /\ DOMAIN a.vector = DOMAIN st.vector /\ a.vector[v].uid = uid
      /\ \A w \in DOMAIN st.vector : w # v => a.vector[w] = st.vector[w]
      /\ DOMAIN a.manager \subseteq DOMAIN st.manager \cup {i}
      /\ \A j \in DOMAIN a.manager : j # i => a.manager[j] = st.manager[j]
      /\ a.ok => /\ st.ok
                 /\ Wrote(st.vector, a.vector, v, i, e)
                 /\ a.manager[i].indexLoaded
                 /\ BagIn(<<uid, e>>, a.manager[i].entries)
                 /\ i \notin DOMAIN st.manager =>
                      a.manager[i].entries = Rows(st.vector, i) (+) SetToBag({<<uid, e>>})
  <2>1. Bounds
    BY DEF StateOK
  <2>2. QED  BY <1>1, <2>1, AddedValueFacts, SMTT(30)
<1>3. ASSUME a.ok
      PROVE  /\ ~a.vector[v].deleted /\ DOMAIN a.vector[v].values = I \cup {i}
             /\ \A j \in DOMAIN a.manager :
                  /\ j \notin I \cup {i} => j \in DOMAIN manager
                  /\ j \in I \cup {i} =>
                       /\ a.manager[j].indexLoaded
                       /\ BagIn(<<uid, a.vector[v].values[j]>>, a.manager[j].entries)
                  /\ j \notin DOMAIN manager => a.manager[j].entries = Rows(a.vector, j)
  <2>1. /\ ~st.vector[v].deleted /\ DOMAIN st.vector[v].values = I
        /\ \A j \in DOMAIN st.manager :
             /\ j \notin I => j \in DOMAIN manager
             /\ j \in I => /\ st.manager[j].indexLoaded
                           /\ BagIn(<<uid, st.vector[v].values[j]>>, st.manager[j].entries)
             /\ j \notin DOMAIN manager => st.manager[j].entries = Rows(st.vector, j)
    BY <1>2, <1>3 DEF AddedSoFar
  <2>2. /\ a.vector[v].deleted = st.vector[v].deleted
        /\ DOMAIN a.vector[v].values = DOMAIN st.vector[v].values \cup {i}
        /\ a.vector[v].values[i] = e
        /\ \A j \in DOMAIN st.vector[v].values : j # i => a.vector[v].values[j] = st.vector[v].values[j]
    BY <1>2, <1>3 DEF Wrote
  <2>3. VectorsOK(st.vector)
    BY <1>1 DEF StoreOK
  <2>4. ASSUME NEW j \in DOMAIN a.manager
        PROVE  /\ j \notin I \cup {i} => j \in DOMAIN manager
               /\ j \in I \cup {i} =>
                    /\ a.manager[j].indexLoaded
                    /\ BagIn(<<uid, a.vector[v].values[j]>>, a.manager[j].entries)
               /\ j \notin DOMAIN manager => a.manager[j].entries = Rows(a.vector, j)
    <3>1. CASE j # i
      <4>1. j \in DOMAIN st.manager /\ a.manager[j] = st.manager[j]
        BY <1>2, <2>4, <3>1
      <4>2. Rows(a.vector, j) = Rows(st.vector, j)
        <5>1. PICK m : m = st.vector
          OBVIOUS
        <5>2. PICK n : n = a.vector
          OBVIOUS
        <5>3. VectorsOK(m) /\ v \in DOMAIN m /\ Wrote(m, n, v, i, e)
          BY <1>1, <1>2, <1>3, <2>3, <5>1, <5>2
        <5>4. Rows(n, j) = Rows(m, j)
          BY <3>1, <5>3, RowsOfOthers
        <5>5. QED  BY <5>1, <5>2, <5>4
      <4>3. j \in I => a.vector[v].values[j] = st.vector[v].values[j]
        BY <2>1, <2>2, <3>1
      <4>4. QED  BY <2>1, <3>1, <4>1, <4>2, <4>3
    <3>2. CASE j = i
      <4>1. ASSUME i \notin DOMAIN manager PROVE a.manager[i].entries = Rows(a.vector, i)
        <5>1. i \notin DOMAIN st.manager
          BY <2>1, <4>1
        <5>2. a.manager[i].entries = Rows(st.vector, i) (+) SetToBag({<<uid, e>>})
          BY <1>2, <1>3, <5>1
        <5>3. PICK m : m = st.vector
          OBVIOUS
        <5>4. PICK n : n = a.vector
          OBVIOUS
        <5>5. \A w \in DOMAIN m : w # v => m[w].uid # m[v].uid
          BY <1>1, <5>3 DEF NewUid
        <5>6. /\ VectorsOK(m) /\ v \in DOMAIN m /\ Wrote(m, n, v, i, e)
              /\ ~m[v].deleted /\ i \notin DOMAIN m[v].values /\ uid = m[v].uid
          BY <1>1, <1>2, <1>3, <2>1, <2>3, <5>3, <5>4
        <5>7. Rows(n, i) = Rows(m, i) (+) SetToBag({<<uid, e>>})
          BY <5>5, <5>6, RowsOfOne
        <5>8. QED  BY <5>2, <5>3, <5>4, <5>7
      <4>2. QED  BY <1>2, <1>3, <2>2, <3>2, <4>1
    <3>3. QED  BY <3>1, <3>2
  <2>5. QED  BY <2>1, <2>2, <2>4
<1>4. \A w \in DOMAIN vector : w # v => a.vector[w] = vector[w]
  BY <1>1, <1>2
<1>5. DOMAIN a.vector = DOMAIN vector \cup {v}
  BY <1>1, <1>2
<1>6. QED  BY <1>2, <1>3, <1>4, <1>5 DEF AddedSoFar

(* ... and after all of them.                                               *)
LEMMA AddedFacts ==
    ASSUME StateOK, NEW v, NEW uid \in Uid, NewUid(v, uid), NEW values \in Requests
    PROVE  AddedSoFar(Added(v, uid, values), v, uid, {values[x].index : x \in 1..Len(values)})
<1>1. /\ values \in Seq([index : IndexId, embedding : Embeddings])
      /\ \A x, y \in DOMAIN values : values[x].index = values[y].index => x = y
  BY StoreAssumption DEF IndexId
<1>2. /\ Len(values) \in Nat /\ DOMAIN values = 1..Len(values)
      /\ \A x \in 1..Len(values) : values[x] \in [index : IndexId, embedding : Embeddings]
  BY <1>1, LenProperties, ElementOfSeq
<1>3. PICK run : /\ run[0] = Store(Written(v, uid))
                 /\ \A n \in 1..Len(values) : run[n] = AddedValue(run[n - 1], v, values[n])
                 /\ Added(v, uid, values) = run[Len(values)]
  BY <1>2, AddedRun
<1> DEFINE Seen(k) == {values[x].index : x \in 1..k}
           N == Len(values)
           Good == {k \in 0..N : AddedSoFar(run[k], v, uid, Seen(k))}
<1>4. 0 \in Good
  <2>1. Seen(0) = {}
    OBVIOUS
  <2>2. AddedSoFar(run[0], v, uid, {})
    BY <1>3, AddedStart
  <2>3. 0 \in 0..N
    BY <1>2
  <2> HIDE DEF Seen
  <2>4. QED  BY <2>1, <2>2, <2>3
<1>5. ASSUME NEW k \in 0..N, k + 1 \in 0..N, k \in Good PROVE k + 1 \in Good
  <2>1. k + 1 \in 1..N /\ (k + 1) - 1 = k /\ k \in Nat
    BY <1>2, <1>5
  <2>2. PICK x, i, e : x = values[k + 1] /\ i = x.index /\ e = x.embedding
    OBVIOUS
  <2>3. i \in IndexId /\ e \in Embeddings
    BY <1>2, <2>1, <2>2
  <2>4. i \notin Seen(k)
    BY <1>1, <1>2, <2>1, <2>2
  <2>5. Seen(k + 1) = Seen(k) \cup {i}
    <3>1. \A y : y \in 1..(k + 1) <=> y \in 1..k \/ y = k + 1
      BY <2>1
    <3>2. QED  BY <2>2, <3>1
  <2> HIDE DEF Seen
  <2>6. PICK st, a : st = run[k] /\ a = run[k + 1]
    OBVIOUS
  <2>7. PICK I : I = Seen(k)
    OBVIOUS
  <2>8. AddedSoFar(st, v, uid, I)
    BY <1>5, <2>6, <2>7
  <2>9. a = AddedValue(st, v, x)
    BY <1>3, <2>1, <2>2, <2>6
  <2>10. AddedSoFar(a, v, uid, I \cup {i})
    BY <2>2, <2>3, <2>4, <2>7, <2>8, <2>9, AddedStep
  <2>11. QED  BY <1>5, <2>5, <2>6, <2>7, <2>10
<1>6. N \in Good
  <2>1. N \in Nat
    BY <1>2
  <2> HIDE DEF Good, N
  <2>2. QED  BY <1>4, <1>5, <2>1, Upto
<1>7. QED  BY <1>3, <1>6

(* flush keeps the vectors.                                                 *)
LEMMA FlushedFacts ==
    ASSUME StateOK, pending \in Seq(IndexId)
    PROVE  StoreOK(Flushed) /\ Flushed.vector = vector
<1>1. Len(pending) \in Nat
  BY LenProperties
<1>2. PICK run : /\ run[0] = Store(vector)
                 /\ \A n \in 1..Len(pending) : run[n] = Refreshed(run[n - 1], pending[n])
                 /\ Flushed = run[Len(pending)]
  BY <1>1, FlushedRun
<1> DEFINE N == Len(pending)
           Good == {k \in 0..N : StoreOK(run[k]) /\ run[k].vector = vector}
<1>3. 0 \in Good
  <2>1. StoreOK(Store(vector)) /\ Store(vector).vector = vector
    BY DEF Store, StoreOK, IsStore, StateOK
  <2>2. QED  BY <1>1, <1>2, <2>1
<1>4. ASSUME NEW k \in 0..N, k + 1 \in 0..N, k \in Good PROVE k + 1 \in Good
  <2>1. k + 1 \in 1..N /\ (k + 1) - 1 = k
    BY <1>1, <1>4
  <2>2. PICK st, i, r : st = run[k] /\ i = pending[k + 1] /\ r = run[k + 1]
    OBVIOUS
  <2>3. r = Refreshed(st, i) /\ StoreOK(st) /\ st.vector = vector
    BY <1>2, <1>4, <2>1, <2>2
  <2>4. Bounds
    BY DEF StateOK
  <2>5. StoreOK(r) /\ r.vector = st.vector
    <3> HIDE DEF Good, N
    <3>1. StoreOK(st) /\ r = Refreshed(st, i)
      BY <2>3
    <3>2. QED  BY <2>4, <3>1, RefreshedKeeps
  <2>6. QED  BY <1>4, <2>2, <2>3, <2>5
<1>5. N \in Good
  <2> HIDE DEF Good, N
  <2>1. N \in Nat
    BY <1>1 DEF N
  <2>2. QED  BY <1>3, <1>4, <2>1, Upto
<1>6. QED  BY <1>2, <1>5

----------------------------------------------------------------------------
(* The invariant.                                                           *)

StoreInv ==
    /\ StateOK
    /\ vectorSeq \in 0..MaxVector /\ DOMAIN vector \subseteq 1..vectorSeq
    /\ pending \in Seq(IndexId)
    /\ UidNamesOneVector

(* What a chain of operations leaves.                                       *)
LEMMA Left ==
    ASSUME StateOK, NEW st, StoreOK(st), Leaves(st), UNCHANGED <<indexes, indexSeq, capacity>>,
           VectorsOK(vector')
    PROVE  StateOK'
<1>1. /\ cacheList' = st.list /\ manager' = st.manager /\ file' = st.file
      /\ indexes' = indexes /\ indexSeq' = indexSeq /\ capacity' = capacity
  BY DEF Leaves
<1>2. Bounds'
  BY <1>1 DEF StateOK, Bounds
<1>3. ListOK(cacheList, manager)'
  BY <1>1 DEF StoreOK, ListOK
<1>4. ManagersOK(manager)' /\ FilesOK(file)'
  BY <1>1 DEF StoreOK, ManagersOK, FilesOK, ManagerOK
<1>5. VectorsOK(vector)'
  BY DEF VectorsOK
<1>6. QED  BY <1>2, <1>3, <1>4, <1>5 DEF StateOK

(* What the memory loses when the process ends or a space is deleted.       *)
LEMMA Emptied ==
    ASSUME StateOK, cacheList' = <<>>, manager' = Empty, FilesOK(file'), VectorsOK(vector'),
           indexes' \subseteq indexes, UNCHANGED <<indexSeq, capacity>>
    PROVE  StateOK'
<1>1. Bounds'
  BY DEF StateOK, Bounds
<1>2. DOMAIN Empty = {} /\ Range(<<>>) = {} /\ Len(<<>>) = 0
  BY DEF Empty, Range
<1>3. ListOK(cacheList, manager)'
  <2>1. capacity' \in Nat
    BY <1>1 DEF Bounds
  <2>2. DOMAIN manager' = Range(cacheList')
    BY <1>2
  <2>3. cacheList' \in Seq(1..indexSeq') /\ IsInjective(cacheList') /\ Len(cacheList') <= capacity'
    BY <1>2, <2>1 DEF IsInjective
  <2>4. QED  BY <2>2, <2>3 DEF ListOK
<1>4. ManagersOK(manager)'
  BY <1>2 DEF ManagersOK
<1>5. FilesOK(file)' /\ VectorsOK(vector)'
  BY DEF FilesOK, VectorsOK
<1>6. QED  BY <1>1, <1>3, <1>4, <1>5 DEF StateOK

(* addVector with autoflush: a row no other row shares its unique_id with.  *)
LEMMA AddVectorFacts ==
    ASSUME StoreInv, NEW u, NEW values \in Requests, AddVector(u, values)
    PROVE  \E v, uid, st :
              /\ v \in VectorId /\ uid \in Uid
              /\ st = Added(v, uid, values)
              /\ v \in DOMAIN vector => vector[v].uid = u
              /\ NewUid(v, uid) /\ v \in DOMAIN vector \cup {vectorSeq + 1}
              /\ AddedSoFar(st, v, uid, {values[x].index : x \in 1..Len(values)})
              /\ Leaves(st) /\ Commits(st)
              /\ vectorSeq' = IF st.ok /\ v > vectorSeq THEN v ELSE vectorSeq
<1>1. PICK v \in VectorId, uid \in Uid :
        /\ IF u = 0 THEN IsNextUid(uid) /\ v = vectorSeq + 1 ELSE uid = u /\ IsRow(v, uid)
        /\ Leaves(Added(v, uid, values)) /\ Commits(Added(v, uid, values))
        /\ vectorSeq' = IF Added(v, uid, values).ok /\ v > vectorSeq THEN v ELSE vectorSeq
  BY DEF AddVector
<1>2. \A w \in DOMAIN vector : vector[w].uid \in Nat
  <2>1. \A w \in DOMAIN vector : vector[w] \in [uid : Uid, deleted : BOOLEAN, values : Values]
    BY DEF StoreInv, StateOK, VectorsOK
  <2>2. QED  BY <2>1 DEF Uid
<1>3. NewUid(v, uid) /\ v \in DOMAIN vector \cup {vectorSeq + 1}
  <2>1. CASE u = 0
    <3>1. \A w \in DOMAIN vector : vector[w].uid < uid
      BY <1>1, <2>1 DEF IsNextUid
    <3>2. QED  BY <1>1, <1>2, <2>1, <3>1 DEF NewUid, Uid
  <2>2. CASE u # 0
    <3>1. IsRow(v, uid)
      BY <1>1, <2>2
    <3>2. QED  BY <3>1 DEF IsRow, NewUid, StoreInv, UidNamesOneVector
  <2>3. QED  BY <2>1, <2>2
<1>4. PICK st : st = Added(v, uid, values)
  OBVIOUS
<1>5. AddedSoFar(st, v, uid, {values[x].index : x \in 1..Len(values)})
  BY <1>3, <1>4, AddedFacts DEF StoreInv
<1>6. v \in DOMAIN vector => vector[v].uid = u
  <2>1. vectorSeq + 1 \notin DOMAIN vector
    BY StoreAssumption DEF StoreInv
  <2>2. QED  BY <1>1, <2>1 DEF IsRow
<1>7. QED  BY <1>1, <1>3, <1>4, <1>5, <1>6

(* addVector with autoflush preserves the invariant.                        *)
LEMMA AddVectorInv ==
    ASSUME StoreInv, NEW u, NEW values \in Requests, AddVector(u, values), UNCHANGED capacity
    PROVE  StoreInv'
<1>1. PICK v, uid, st :
              /\ v \in VectorId /\ uid \in Uid
              /\ NewUid(v, uid) /\ v \in DOMAIN vector \cup {vectorSeq + 1}
              /\ AddedSoFar(st, v, uid, {values[x].index : x \in 1..Len(values)})
              /\ Leaves(st) /\ Commits(st)
              /\ vectorSeq' = IF st.ok /\ v > vectorSeq THEN v ELSE vectorSeq
  BY AddVectorFacts
<1>2. indexes' = indexes /\ indexSeq' = indexSeq /\ pending' = pending
  BY DEF AddVector
<1>3. /\ StoreOK(st)
      /\ DOMAIN st.vector = DOMAIN vector \cup {v}
      /\ \A w \in DOMAIN vector : w # v => st.vector[w] = vector[w]
      /\ st.vector[v].uid = uid
  BY <1>1 DEF AddedSoFar
<1>4. vector' = IF st.ok THEN st.vector ELSE vector
  BY <1>1 DEF Commits
<1>5. StateOK'
  <2>1. VectorsOK(vector')
    BY <1>3, <1>4 DEF StoreInv, StateOK, StoreOK, VectorsOK
  <2>2. QED  BY <1>1, <1>2, <1>3, <2>1, Left DEF StoreInv
<1>6. vectorSeq' \in 0..MaxVector /\ DOMAIN vector' \subseteq 1..vectorSeq'
  <2>1. MaxVector \in Nat /\ vectorSeq \in 0..MaxVector /\ DOMAIN vector \subseteq 1..vectorSeq
    BY StoreAssumption DEF StoreInv
  <2>2. CASE st.ok
    <3>1. v \in 1..MaxVector /\ DOMAIN vector' = DOMAIN vector \cup {v}
      BY <1>1, <1>3, <1>4, <2>2 DEF VectorId
    <3>2. CASE v > vectorSeq
      BY <1>1, <2>1, <2>2, <3>1, <3>2
    <3>3. CASE ~(v > vectorSeq)
      BY <1>1, <2>1, <2>2, <3>1, <3>3
    <3>4. QED  BY <3>2, <3>3
  <2>3. CASE ~st.ok
    BY <1>1, <1>4, <2>1, <2>3
  <2>4. QED  BY <2>2, <2>3
<1>7. UidNamesOneVector'
  BY <1>1, <1>3, <1>4 DEF UidNamesOneVector, NewUid, StoreInv
<1>8. pending' \in Seq(IndexId)
  BY <1>2 DEF StoreInv
<1>9. QED  BY <1>5, <1>6, <1>7, <1>8 DEF StoreInv

(* ValuesOf a request is typed, and a request's indexes are.                *)
LEMMA RequestOK ==
    ASSUME NEW values \in Requests
    PROVE  /\ ValuesOf(values) \in Values
           /\ Len(values) \in Nat /\ DOMAIN values = 1..Len(values)
           /\ [x \in DOMAIN values |-> values[x].index] \in Seq(IndexId)
<1>1. values \in Seq([index : IndexId, embedding : Embeddings])
  BY StoreAssumption DEF IndexId
<1>2. /\ Len(values) \in Nat /\ DOMAIN values = 1..Len(values)
      /\ \A x \in 1..Len(values) : values[x] \in [index : IndexId, embedding : Embeddings]
  BY <1>1, LenProperties, ElementOfSeq
<1>3. PICK I : I = {values[x].index : x \in DOMAIN values}
  OBVIOUS
<1>4. I \in SUBSET IndexId
  BY <1>2, <1>3
<1>5. ASSUME NEW i \in I
      PROVE  (CHOOSE x \in Range(values) : x.index = i).embedding \in Embeddings
  <2>1. PICK n \in DOMAIN values : values[n].index = i
    BY <1>3
  <2>2. values[n] \in Range(values)
    BY DEF Range
  <2>3. PICK c : c = CHOOSE x \in Range(values) : x.index = i
    OBVIOUS
  <2>4. c \in Range(values)
    BY <2>1, <2>2, <2>3
  <2>5. c \in [index : IndexId, embedding : Embeddings]
    BY <1>2, <2>4 DEF Range
  <2>6. QED  BY <2>3, <2>5
<1>6. ValuesOf(values) \in [I -> Embeddings]
  BY <1>3, <1>5 DEF ValuesOf
<1>7. ValuesOf(values) \in Values
  BY <1>4, <1>6 DEF Values
<1>8. [x \in DOMAIN values |-> values[x].index] \in Seq(IndexId)
  BY <1>2, SeqDef
<1>9. QED  BY <1>2, <1>7, <1>8

(* addVector without autoflush preserves it.                                *)
LEMMA AddVectorLaterInv ==
    ASSUME StoreInv, NEW u, NEW values \in Requests, AddVectorLater(u, values), UNCHANGED capacity
    PROVE  StoreInv'
<1>1. PICK v \in VectorId, uid \in Uid :
        /\ IF u = 0 THEN IsNextUid(uid) /\ v = vectorSeq + 1 ELSE uid = u /\ IsRow(v, uid)
        /\ vector' = Put(vector, v, [uid |-> uid, deleted |-> FALSE, values |-> ValuesOf(values)])
        /\ vectorSeq' = IF v > vectorSeq THEN v ELSE vectorSeq
        /\ pending' = pending \o [x \in DOMAIN values |-> values[x].index]
        /\ UNCHANGED <<indexes, indexSeq, cacheList, manager, file>>
  BY DEF AddVectorLater
<1>2. \A w \in DOMAIN vector : vector[w] \in [uid : Uid, deleted : BOOLEAN, values : Values]
  BY DEF StoreInv, StateOK, VectorsOK
<1>3. NewUid(v, uid)
  <2>1. CASE u = 0
    <3>1. \A w \in DOMAIN vector : vector[w].uid < uid /\ vector[w].uid \in Nat
      BY <1>1, <1>2, <2>1 DEF IsNextUid, Uid
    <3>2. QED  BY <3>1 DEF NewUid, Uid
  <2>2. CASE u # 0
    <3>1. IsRow(v, uid)
      BY <1>1, <2>2
    <3>2. QED  BY <3>1 DEF IsRow, NewUid, StoreInv, UidNamesOneVector
  <2>3. QED  BY <2>1, <2>2
<1>4. /\ DOMAIN vector' = DOMAIN vector \cup {v}
      /\ vector'[v] = [uid |-> uid, deleted |-> FALSE, values |-> ValuesOf(values)]
      /\ \A w \in DOMAIN vector : w # v => vector'[w] = vector[w]
  BY <1>1 DEF Put
<1>5. VectorsOK(vector')
  <2>1. vector'[v] \in [uid : Uid, deleted : BOOLEAN, values : Values]
    <3>1. PICK b : b = ValuesOf(values)
      OBVIOUS
    <3>2. b \in Values
      BY <3>1, RequestOK
    <3>3. [uid |-> uid, deleted |-> FALSE, values |-> b] \in
              [uid : Uid, deleted : BOOLEAN, values : Values]
      BY <3>2
    <3>4. QED  BY <1>4, <3>1, <3>3
  <2>2. QED  BY <1>2, <1>4, <2>1 DEF VectorsOK
<1>6. StateOK'
  <2>1. Bounds'
    BY <1>1 DEF StoreInv, StateOK, Bounds
  <2>2. ListOK(cacheList, manager)'
    BY <1>1 DEF StoreInv, StateOK, ListOK
  <2>3. ManagersOK(manager)' /\ FilesOK(file)'
    BY <1>1 DEF StoreInv, StateOK, ManagersOK, FilesOK, ManagerOK
  <2>4. VectorsOK(vector)'
    BY <1>5 DEF VectorsOK
  <2>5. QED  BY <2>1, <2>2, <2>3, <2>4 DEF StateOK
<1>7. vectorSeq' \in 0..MaxVector /\ DOMAIN vector' \subseteq 1..vectorSeq'
  <2>1. MaxVector \in Nat /\ vectorSeq \in 0..MaxVector /\ DOMAIN vector \subseteq 1..vectorSeq
    BY StoreAssumption DEF StoreInv
  <2>2. v \in 1..MaxVector
    BY DEF VectorId
  <2>3. CASE v > vectorSeq
    <3>1. vectorSeq' = v /\ DOMAIN vector' = DOMAIN vector \cup {v}
      BY <1>1, <1>4, <2>3
    <3>2. QED  BY <2>1, <2>2, <2>3, <3>1
  <2>4. CASE ~(v > vectorSeq)
    <3>1. vectorSeq' = vectorSeq /\ DOMAIN vector' = DOMAIN vector \cup {v}
      BY <1>1, <1>4, <2>4
    <3>2. QED  BY <2>1, <2>2, <2>4, <3>1
  <2>5. QED  BY <2>3, <2>4
<1>8. UidNamesOneVector'
  <2>1. vector'[v].uid = uid
    BY <1>4
  <2>2. QED  BY <1>3, <1>4, <2>1 DEF UidNamesOneVector, NewUid, StoreInv
<1>9. pending' \in Seq(IndexId)
  <2>1. pending \in Seq(IndexId)
    BY DEF StoreInv
  <2>2. QED  BY <1>1, <2>1, RequestOK, ConcatProperties
<1>10. QED  BY <1>6, <1>7, <1>8, <1>9 DEF StoreInv

(* The store a call begins with.                                            *)
LEMMA StoreStart ==
    ASSUME StateOK
    PROVE  /\ StoreOK(Store(vector)) /\ Store(vector).ok = TRUE
           /\ Store(vector).vector = vector /\ Store(vector).manager = manager
           /\ Store(vector).file = file
  BY DEF Store, StoreOK, IsStore, StateOK

(* saveIndex writes the entries of a manager to its file.                   *)
LEMMA SavedFacts ==
    ASSUME NEW st, StoreOK(st), NEW i \in DOMAIN st.manager, NEW s, s = Saved(st, i)
    PROVE  /\ StoreOK(s) /\ s.list = st.list /\ s.manager = st.manager
           /\ s.vector = st.vector /\ s.ok = st.ok
           /\ DOMAIN s.file = DOMAIN st.file \cup {i} /\ s.file[i] = st.manager[i].entries
           /\ \A j \in DOMAIN st.file : j # i => s.file[j] = st.file[j]
<1>1. PICK f : f = Put(st.file, i, st.manager[i].entries)
  OBVIOUS
<1>2. /\ DOMAIN f = DOMAIN st.file \cup {i} /\ f[i] = st.manager[i].entries
      /\ \A j \in DOMAIN st.file : j # i => f[j] = st.file[j]
  BY <1>1 DEF Put
<1>3. s = [st EXCEPT !.file = f]
  BY <1>1 DEF Saved, StoreOK, IsStore
<1>4. /\ IsStore(s) /\ s.list = st.list /\ s.manager = st.manager
      /\ s.vector = st.vector /\ s.ok = st.ok /\ s.file = f
  BY <1>3 DEF StoreOK, IsStore
<1>5. st.manager[i].entries = Torn \/ IsBag(st.manager[i].entries)
  BY DEF StoreOK, ManagersOK, ManagerOK
<1>6. FilesOK(f)
  BY <1>2, <1>5 DEF StoreOK, FilesOK
<1>7. StoreOK(s)
  BY <1>4, <1>6 DEF StoreOK
<1>8. QED  BY <1>2, <1>4, <1>7

(* A call that leaves the tables.                                           *)
LEMMA CallInv ==
    ASSUME StoreInv, NEW st, StoreOK(st), Leaves(st), UNCHANGED <<tables, capacity>>,
           pending' \in Seq(IndexId)
    PROVE  StoreInv'
<1>1. /\ vector' = vector /\ vectorSeq' = vectorSeq
      /\ UNCHANGED <<indexes, indexSeq, capacity>>
  BY DEF tables
<1>2. StateOK'
  <2>1. VectorsOK(vector')
    BY <1>1 DEF StoreInv, StateOK
  <2>2. QED  BY <1>1, <2>1, Left DEF StoreInv
<1>3. UidNamesOneVector'
  BY <1>1 DEF StoreInv, UidNamesOneVector
<1>4. QED  BY <1>1, <1>2, <1>3 DEF StoreInv

(* search preserves it.                                                     *)
LEMMA SearchInv ==
    ASSUME StoreInv, NEW i, search(i), UNCHANGED capacity
    PROVE  StoreInv'
<1>1. PICK st, g, l : st = Store(vector) /\ g = Get(st, i) /\ l = Loaded(g, i)
  OBVIOUS
<1>2. Bounds /\ StoreOK(st)
  BY <1>1, StoreStart DEF StoreInv, StateOK
<1>3. StoreOK(g) /\ (g.ok => i \in DOMAIN g.manager)
  <2>1. g = Get(st, i)
    BY <1>1
  <2>2. QED  BY <1>2, <2>1, GetFacts
<1>4. StoreOK(l)
  <2>1. l = Loaded(g, i)
    BY <1>1
  <2>2. QED  BY <1>2, <1>3, <2>1, LoadedFacts
<1>5. Leaves(l) /\ UNCHANGED <<tables, pending>>
  BY <1>1 DEF search
<1>6. QED  BY <1>4, <1>5, CallInv DEF StoreInv

(* createSnapshot's saveIndex preserves it.                                 *)
LEMMA SaveIndexInv ==
    ASSUME StoreInv, NEW i, SaveIndex(i), UNCHANGED capacity
    PROVE  StoreInv'
<1>1. PICK st, g, s : st = Store(vector) /\ g = Get(st, i) /\ s = Saved(g, i)
  OBVIOUS
<1>2. Bounds /\ StoreOK(st) /\ st.ok = TRUE
  BY <1>1, StoreStart DEF StoreInv, StateOK
<1>3. StoreOK(g) /\ i \in DOMAIN g.manager
  <2>1. g = Get(st, i) /\ i \in indexes
    BY <1>1 DEF SaveIndex
  <2>2. /\ StoreOK(g)
        /\ g.ok = (st.ok /\ (i \in DOMAIN st.manager \/ i \in indexes))
        /\ g.ok => i \in DOMAIN g.manager
    BY <1>2, <2>1, GetFacts
  <2>3. QED  BY <1>2, <2>1, <2>2
<1>4. StoreOK(s)
  <2>1. s = Saved(g, i)
    BY <1>1
  <2>2. QED  BY <1>3, <2>1, SavedFacts
<1>5. Leaves(s) /\ UNCHANGED <<tables, pending>>
  BY <1>1 DEF SaveIndex
<1>6. QED  BY <1>4, <1>5, CallInv DEF StoreInv

(* flush preserves it.                                                      *)
LEMMA FlushInv ==
    ASSUME StoreInv, flush, UNCHANGED capacity
    PROVE  StoreInv'
<1>1. PICK st : st = Flushed
  OBVIOUS
<1>2. StoreOK(st)
  BY <1>1, FlushedFacts DEF StoreInv
<1>3. Leaves(st) /\ UNCHANGED tables /\ (pending' = <<>> \/ pending' = pending)
  BY <1>1 DEF flush
<1>4. pending' \in Seq(IndexId)
  BY <1>3, EmptySeq DEF StoreInv
<1>5. QED  BY <1>2, <1>3, <1>4, CallInv

(* The rows of VectorIndex and of Vector are changed, the memory is not.    *)
LEMMA TablesInv ==
    ASSUME StoreInv, UNCHANGED <<memory, file, capacity, vectorSeq>>,
           VectorsOK(vector'), DOMAIN vector' \subseteq DOMAIN vector,
           \A v \in DOMAIN vector' : vector'[v].uid = vector[v].uid,
           indexSeq' \in indexSeq..MaxIndex, indexes' \subseteq 1..indexSeq'
    PROVE  StoreInv'
<1>1. /\ cacheList' = cacheList /\ manager' = manager /\ pending' = pending /\ file' = file
      /\ capacity' = capacity /\ vectorSeq' = vectorSeq
  BY DEF memory
<1>2. Bounds'
  BY <1>1 DEF StoreInv, StateOK, Bounds
<1>3. ListOK(cacheList, manager)'
  <2>1. cacheList' \in Seq(1..indexSeq')
    <3>1. PICK S, T, list : S = 1..indexSeq /\ T = 1..indexSeq' /\ list = cacheList
      OBVIOUS
    <3>2. list \in Seq(S)
      BY <3>1 DEF StoreInv, StateOK, ListOK
    <3>3. S \subseteq T
      BY <3>1 DEF StoreInv, StateOK, Bounds
    <3>4. list \in Seq(T)
      BY <3>2, <3>3, SeqMonotonic
    <3>5. QED  BY <1>1, <3>1, <3>4
  <2>2. QED  BY <1>1, <2>1 DEF StoreInv, StateOK, ListOK
<1>4. ManagersOK(manager)' /\ FilesOK(file)'
  BY <1>1 DEF StoreInv, StateOK, ManagersOK, FilesOK, ManagerOK
<1>5. VectorsOK(vector)'
  BY DEF VectorsOK
<1>6. vectorSeq' \in 0..MaxVector /\ DOMAIN vector' \subseteq 1..vectorSeq'
  BY <1>1 DEF StoreInv
<1>7. UidNamesOneVector'
  BY DEF UidNamesOneVector, StoreInv
<1>8. QED  BY <1>1, <1>2, <1>3, <1>4, <1>5, <1>6, <1>7 DEF StoreInv, StateOK

(* The memory is lost.                                                      *)
LEMMA LossInv ==
    ASSUME StoreInv, cacheList' = <<>>, manager' = Empty, FilesOK(file'),
           vector' = vector \/ vector' = Empty,
           indexes' \subseteq indexes, UNCHANGED <<indexSeq, vectorSeq, capacity>>,
           pending' = pending \/ pending' = <<>>
    PROVE  StoreInv'
<1>1. DOMAIN Empty = {}
  BY DEF Empty
<1>2. VectorsOK(vector') /\ DOMAIN vector' \subseteq DOMAIN vector
  BY <1>1 DEF StoreInv, StateOK, VectorsOK
<1>3. StateOK'
  BY <1>2, Emptied DEF StoreInv
<1>4. UidNamesOneVector'
  BY <1>1 DEF UidNamesOneVector, StoreInv
<1>5. pending' \in Seq(IndexId)
  BY EmptySeq DEF StoreInv
<1>6. vectorSeq' \in 0..MaxVector /\ DOMAIN vector' \subseteq 1..vectorSeq'
  BY <1>2 DEF StoreInv
<1>7. QED  BY <1>3, <1>4, <1>5, <1>6 DEF StoreInv

(* It holds when the program starts ...                                     *)
LEMMA StoreInitInv == StoreInit => StoreInv
<1> SUFFICES ASSUME StoreInit PROVE StoreInv
  OBVIOUS
<1>1. DOMAIN Empty = {} /\ Range(<<>>) = {} /\ Len(<<>>) = 0
  BY DEF Empty, Range
<1>2. Bounds
  BY StoreAssumption DEF StoreInit, Bounds
<1>3. ListOK(cacheList, manager)
  <2>1. capacity \in Nat /\ cacheList = <<>> /\ DOMAIN manager = {}
    BY <1>1, <1>2 DEF StoreInit, Bounds
  <2>2. cacheList \in Seq(1..indexSeq) /\ IsInjective(cacheList) /\ Len(cacheList) <= capacity
    BY <1>1, <2>1 DEF IsInjective
  <2>3. QED  BY <1>1, <2>1, <2>2 DEF ListOK
<1>4. ManagersOK(manager) /\ FilesOK(file) /\ VectorsOK(vector) /\ UidNamesOneVector
  BY <1>1 DEF StoreInit, ManagersOK, FilesOK, VectorsOK, UidNamesOneVector
<1>5. vectorSeq \in 0..MaxVector /\ DOMAIN vector \subseteq 1..vectorSeq
  BY <1>1, StoreAssumption DEF StoreInit
<1>6. pending \in Seq(IndexId)
  BY EmptySeq DEF StoreInit
<1>7. QED  BY <1>2, <1>3, <1>4, <1>5, <1>6 DEF StoreInv, StateOK

(* ... and every step preserves it.                                         *)
LEMMA StoreStep == StoreInv /\ [StoreNext]_storeVars => StoreInv'
<1> SUFFICES ASSUME StoreInv, [StoreNext]_storeVars PROVE StoreInv'
  OBVIOUS
<1>1. CASE UNCHANGED storeVars
  <2>1. /\ indexes' = indexes /\ indexSeq' = indexSeq /\ vectorSeq' = vectorSeq
        /\ vector' = vector /\ cacheList' = cacheList /\ manager' = manager
        /\ pending' = pending /\ file' = file /\ capacity' = capacity
    BY <1>1 DEF storeVars, tables, memory
  <2>2. QED  BY <2>1 DEF StoreInv, StateOK, Bounds, ListOK, ManagersOK, ManagerOK, FilesOK,
                         VectorsOK, UidNamesOneVector
<1>2. CASE AddIndex /\ UNCHANGED capacity
  <2>1. /\ UNCHANGED <<memory, file, capacity, vectorSeq>> /\ vector' = vector
        /\ indexSeq' = indexSeq + 1 /\ indexSeq < MaxIndex
        /\ indexes' = indexes \cup {indexSeq + 1}
    BY <1>2 DEF AddIndex
  <2>2. indexSeq' \in indexSeq..MaxIndex /\ indexes' \subseteq 1..indexSeq'
    <3>1. indexSeq \in 0..MaxIndex /\ indexes \subseteq 1..indexSeq /\ MaxIndex \in Nat
      BY StoreAssumption DEF StoreInv, StateOK, Bounds
    <3>2. \A i \in 1..indexSeq : i \in 1..(indexSeq + 1)
      BY <3>1
    <3>3. indexSeq + 1 \in 1..(indexSeq + 1) /\ indexSeq + 1 \in indexSeq..MaxIndex
      BY <2>1, <3>1
    <3>4. indexes \cup {indexSeq + 1} \subseteq 1..(indexSeq + 1)
      BY <3>1, <3>2, <3>3
    <3>5. indexSeq' = indexSeq + 1 /\ indexes' = indexes \cup {indexSeq + 1}
      BY <2>1
    <3>6. indexSeq' \in indexSeq..MaxIndex
      BY <3>3, <3>5
    <3>7. indexes' \subseteq 1..indexSeq'
      BY <3>4, <3>5
    <3>8. QED  BY <3>6, <3>7
  <2>3. VectorsOK(vector')
    BY <2>1 DEF StoreInv, StateOK
  <2>4. QED  BY <2>1, <2>2, <2>3, TablesInv
<1>3. CASE Grow /\ UNCHANGED capacity
  <2>1. PICK u \in 0..MaxVector, values \in Requests : AddVector(u, values)
    BY <1>3 DEF Grow
  <2>2. QED  BY <1>3, <2>1, AddVectorInv
<1>4. CASE flush /\ UNCHANGED capacity
  BY <1>4, FlushInv
<1>5. CASE Read /\ UNCHANGED capacity
  <2>1. PICK i \in 1..indexSeq : search(i) \/ SaveIndex(i)
    BY <1>5 DEF Read
  <2>2. QED  BY <1>5, <2>1, SearchInv, SaveIndexInv
<1>6. CASE Write /\ UNCHANGED capacity
  <2>1. CASE \E u \in 0..MaxVector, values \in Requests : AddVector(u, values)
    BY <1>6, <2>1, AddVectorInv
  <2>2. CASE \E u \in 0..MaxVector, values \in Requests : AddVectorLater(u, values)
    BY <1>6, <2>2, AddVectorLaterInv
  <2>3. ASSUME NEW v \in VectorId, NEW deleted \in BOOLEAN, NEW values \in Requests,
               UpdateVector(v, deleted, ValuesOf(values))
        PROVE  StoreInv'
    <3>1. PICK b : b = ValuesOf(values)
      OBVIOUS
    <3>2. b \in Values
      BY <3>1, RequestOK
    <3>3. /\ v \in DOMAIN vector
          /\ vector' = [vector EXCEPT ![v].deleted = deleted, ![v].values = b]
          /\ UNCHANGED <<indexes, indexSeq, vectorSeq, memory, file>>
      BY <2>3, <3>1 DEF UpdateVector
    <3>4. vector[v] \in [uid : Uid, deleted : BOOLEAN, values : Values]
      BY <3>3 DEF StoreInv, StateOK, VectorsOK
    <3>5. /\ DOMAIN vector' = DOMAIN vector
          /\ vector'[v] = [[vector[v] EXCEPT !.deleted = deleted] EXCEPT !.values = b]
          /\ \A w \in DOMAIN vector : w # v => vector'[w] = vector[w]
      BY <3>3
    <3>6. /\ vector'[v] \in [uid : Uid, deleted : BOOLEAN, values : Values]
          /\ vector'[v].uid = vector[v].uid
      BY <3>2, <3>4, <3>5
    <3>7. VectorsOK(vector') /\ \A w \in DOMAIN vector' : vector'[w].uid = vector[w].uid
      BY <3>5, <3>6 DEF VectorsOK, StoreInv, StateOK
    <3>8. indexSeq' \in indexSeq..MaxIndex /\ indexes' \subseteq 1..indexSeq'
      BY <3>3 DEF StoreInv, StateOK, Bounds
    <3>9. QED  BY <1>6, <3>3, <3>5, <3>7, <3>8, TablesInv
  <2>4. ASSUME NEW v \in VectorId, DeleteVector(v) PROVE StoreInv'
    <3>1. /\ vector' = Drop(vector, {v})
          /\ UNCHANGED <<indexes, indexSeq, vectorSeq, memory, file>>
      BY <2>4 DEF DeleteVector
    <3>2. /\ DOMAIN vector' = DOMAIN vector \ {v}
          /\ \A w \in DOMAIN vector' : vector'[w] = vector[w]
      BY <3>1 DEF Drop, Restrict
    <3>3. VectorsOK(vector')
      BY <3>2 DEF VectorsOK, StoreInv, StateOK
    <3>4. indexSeq' \in indexSeq..MaxIndex /\ indexes' \subseteq 1..indexSeq'
      BY <3>1 DEF StoreInv, StateOK, Bounds
    <3>5. QED  BY <1>6, <3>1, <3>2, <3>3, <3>4, TablesInv
  <2>5. QED  BY <1>6, <2>1, <2>2, <2>3, <2>4 DEF Write
<1>7. CASE Restructure /\ UNCHANGED capacity
  <2>1. ASSUME NEW i \in IndexId, DeleteIndex(i) PROVE StoreInv'
    <3>1. /\ UNCHANGED <<memory, file, capacity, vectorSeq>> /\ vector' = vector
          /\ indexSeq' = indexSeq /\ indexes' = indexes \ {i}
      BY <1>7, <2>1 DEF DeleteIndex
    <3>2. VectorsOK(vector')
      BY <3>1 DEF StoreInv, StateOK
    <3>4. /\ indexSeq \in 0..MaxIndex /\ MaxIndex \in Nat
          /\ indexes \subseteq 1..indexSeq
      BY StoreAssumption DEF StoreInv, StateOK, Bounds
    <3>5. indexSeq' \in indexSeq..MaxIndex /\ indexes' \subseteq 1..indexSeq'
      <4>1. indexSeq \in indexSeq..MaxIndex
        BY <3>4
      <4>2. QED  BY <3>1, <3>4, <4>1
    <3>3. QED  BY <3>1, <3>2, <3>5, TablesInv
  <2>2. CASE DeleteSpace
    <3>1. /\ cacheList' = <<>> /\ manager' = Empty /\ file' = file /\ vector' = Empty
          /\ indexes' = {} /\ pending' = pending /\ UNCHANGED <<indexSeq, vectorSeq, capacity>>
      BY <1>7, <2>2 DEF DeleteSpace
    <3>2. FilesOK(file')
      BY <3>1 DEF StoreInv, StateOK
    <3>3. QED  BY <3>1, <3>2, LossInv
  <2>3. QED  BY <1>7, <2>1, <2>2 DEF Restructure
<1>8. CASE Crash /\ UNCHANGED capacity
  <2>1. /\ cacheList' = <<>> /\ manager' = Empty /\ file' = file /\ vector' = vector
        /\ indexes' = indexes /\ pending' = <<>> /\ UNCHANGED <<indexSeq, vectorSeq, capacity>>
    BY <1>8 DEF Crash, tables
  <2>2. FilesOK(file')
    BY <2>1 DEF StoreInv, StateOK
  <2>3. QED  BY <2>1, <2>2, LossInv
<1>9. CASE CrashWhileSaving /\ UNCHANGED capacity
  <2>1. /\ cacheList' = <<>> /\ manager' = Empty /\ vector' = vector
        /\ indexes' = indexes /\ pending' = <<>> /\ UNCHANGED <<indexSeq, vectorSeq, capacity>>
    BY <1>9 DEF CrashWhileSaving, tables
  <2>2. PICK i \in indexes : file' = Put(file, i, Torn)
    BY <1>9 DEF CrashWhileSaving
  <2>3. FilesOK(file')
    BY <2>2 DEF StoreInv, StateOK, FilesOK, Put
  <2>4. QED  BY <2>1, <2>3, LossInv
<1>10. QED  BY <1>1, <1>2, <1>3, <1>4, <1>5, <1>6, <1>7, <1>8, <1>9 DEF StoreNext, GrowNext

(* So it holds in every state.                                              *)
LEMMA StoreInvariant == StoreSpec => []StoreInv
  BY StoreInitInv, StoreStep, PTL DEF StoreSpec

(* The type invariant: the cache never holds more indexes than fit nor one  *)
(* twice, a manager without entries was not loaded.                         *)
LEMMA StoreInvTypes == StoreInv => StoreTypeOK
<1> SUFFICES ASSUME StoreInv PROVE StoreTypeOK
  OBVIOUS
<1>1. /\ indexes \subseteq 1..indexSeq /\ indexSeq \in 0..MaxIndex
      /\ vectorSeq \in 0..MaxVector /\ DOMAIN vector \subseteq 1..vectorSeq
      /\ Len(cacheList) <= capacity /\ IsInjective(cacheList) /\ DOMAIN manager = Range(cacheList)
  BY DEF StoreInv, StateOK, Bounds, ListOK
<1>2. \A v \in DOMAIN vector : vector[v] \in [uid : Uid, deleted : BOOLEAN, values : Values]
  BY DEF StoreInv, StateOK, VectorsOK
<1>3. \A i \in DOMAIN file : file[i] = Torn \/ IsBag(file[i])
  BY DEF StoreInv, StateOK, FilesOK
<1>4. \A i \in DOMAIN manager :
         /\ \/ IsBag(manager[i].entries)
            \/ manager[i].entries = Torn /\ ~manager[i].indexLoaded
         /\ manager[i].indexLoaded \in BOOLEAN
  BY DEF StoreInv, StateOK, ManagersOK, ManagerOK
<1>5. Range(cacheList) \subseteq 1..indexSeq
  <2>1. PICK S, list : S = 1..indexSeq /\ list = cacheList
    OBVIOUS
  <2>2. list \in Seq(S)
    BY <2>1 DEF StoreInv, StateOK, ListOK
  <2>3. Range(list) \in SUBSET S
    BY <2>2, RangeOfSeq
  <2>4. QED  BY <2>1, <2>3
<1>6. Range(pending) \subseteq IndexId
  <2>1. PICK list : list = pending
    OBVIOUS
  <2>2. list \in Seq(IndexId)
    BY <2>1 DEF StoreInv
  <2>3. Range(list) \in SUBSET IndexId
    BY <2>2, RangeOfSeq
  <2>4. QED  BY <2>1, <2>3
<1>7. QED  BY <1>1, <1>2, <1>3, <1>4, <1>5, <1>6 DEF StoreTypeOK

(* Every state is typed.                                                    *)
THEOREM StoreTypeCorrect == StoreSpec => []StoreTypeOK
  BY StoreInvariant, StoreInvTypes, PTL

(* A unique_id names at most one vector.                                    *)
THEOREM UidNamesOneVectorCorrect == StoreSpec => []UidNamesOneVector
<1>1. StoreInv => UidNamesOneVector
  BY DEF StoreInv
<1>2. QED  BY <1>1, StoreInvariant, PTL

----------------------------------------------------------------------------
(* The steps that write vectors.                                            *)
LEMMA WritesVectors ==
    ASSUME StoreInv, StoreNext, vector' # vector
    PROVE  \/ \E u \in 0..MaxVector, values \in Requests : AddVector(u, values)
           \/ UNCHANGED <<cacheList, manager, file>>
           \/ vector' = Empty /\ manager' = Empty
<1>1. \/ GrowNext
      \/ Write \/ Restructure \/ Crash \/ CrashWhileSaving
  BY DEF StoreNext
<1>2. CASE GrowNext
  <2>1. AddIndex \/ Grow \/ flush \/ Read
    BY <1>2 DEF GrowNext
  <2>2. CASE AddIndex \/ flush \/ Read
    BY <2>2 DEF AddIndex, flush, Read, search, SaveIndex, tables
  <2>3. CASE Grow
    <3>1. PICK u \in 0..MaxVector, values \in Requests : AddVector(u, values)
      BY <2>3 DEF Grow
    <3>2. QED  BY <3>1
  <2>4. QED  BY <2>1, <2>2, <2>3
<1>3. CASE Write
  <2>1. CASE \E u \in 0..MaxVector, values \in Requests : AddVector(u, values)
    <3>1. PICK u \in 0..MaxVector, values \in Requests : AddVector(u, values)
      BY <2>1
    <3>2. QED  BY <3>1
  <2>2. CASE \E u \in 0..MaxVector, values \in Requests : AddVectorLater(u, values)
    BY <2>2 DEF AddVectorLater
  <2>3. CASE \E v \in VectorId, deleted \in BOOLEAN, values \in Requests :
               UpdateVector(v, deleted, ValuesOf(values))
    BY <2>3 DEF UpdateVector, memory
  <2>4. CASE \E v \in VectorId : DeleteVector(v)
    BY <2>4 DEF DeleteVector, memory
  <2>5. QED  BY <1>3, <2>1, <2>2, <2>3, <2>4 DEF Write
<1>4. CASE Restructure
  BY <1>4 DEF Restructure, DeleteIndex, DeleteSpace
<1>5. CASE Crash \/ CrashWhileSaving
  BY <1>5 DEF Crash, CrashWhileSaving, tables
<1>6. QED  BY <1>1, <1>2, <1>3, <1>4, <1>5

(* Only addVector both writes vectors and brings an index into memory.      *)
LEMMA FirstAddStep ==
    StoreInv /\ [StoreNext]_storeVars =>
        (vector' # vector =>
            \A i \in DOMAIN manager' \ DOMAIN manager :
                manager'[i].entries = Rows(vector', i))
<1> SUFFICES ASSUME StoreInv, [StoreNext]_storeVars, vector' # vector,
                    NEW i \in DOMAIN manager' \ DOMAIN manager
             PROVE  manager'[i].entries = Rows(vector', i)
  OBVIOUS
<1>1. StoreNext
  BY DEF storeVars, tables
<1>2. PICK u \in 0..MaxVector, values \in Requests : AddVector(u, values)
  <2>1. DOMAIN Empty = {}
    BY DEF Empty
  <2>2. QED  BY <1>1, <2>1, WritesVectors
<1>3. PICK v, uid, st :
        /\ v \in VectorId /\ uid \in Uid
        /\ AddedSoFar(st, v, uid, {values[x].index : x \in 1..Len(values)})
        /\ Leaves(st) /\ Commits(st)
  BY <1>2, AddVectorFacts
<1>4. st.ok /\ vector' = st.vector /\ manager' = st.manager
  BY <1>3 DEF Commits, Leaves
<1>5. st.manager[i].entries = Rows(st.vector, i)
  BY <1>3, <1>4 DEF AddedSoFar
<1>6. QED  BY <1>4, <1>5

(* An index that was not in memory has exactly the rows after an addVector, *)
(* whatever its file, its own earlier calls and crashes left.               *)
THEOREM FirstAddReindexesCorrect == StoreSpec => FirstAddReindexes
<1>1. StoreInv /\ [StoreNext]_storeVars =>
        [vector' # vector =>
            \A i \in DOMAIN manager' \ DOMAIN manager :
                manager'[i].entries = Rows(vector', i)]_storeVars
  BY FirstAddStep
<1>2. QED  BY <1>1, StoreInvariant, PTL DEF StoreSpec, FirstAddReindexes

(* Only addVector both writes vectors and touches the managers.             *)
LEMMA AddedSearchableStep ==
    StoreInv /\ [StoreNext]_storeVars =>
        (manager' # manager =>
            \A i \in DOMAIN manager', v \in DOMAIN vector' :
                /\ i \in DOMAIN vector'[v].values
                /\ v \in DOMAIN vector => vector[v] # vector'[v]
                => /\ manager'[i].indexLoaded
                   /\ BagIn(<<vector'[v].uid, vector'[v].values[i]>>, manager'[i].entries))
<1> SUFFICES ASSUME StoreInv, [StoreNext]_storeVars, manager' # manager,
                    NEW i \in DOMAIN manager', NEW v \in DOMAIN vector',
                    i \in DOMAIN vector'[v].values,
                    v \in DOMAIN vector => vector[v] # vector'[v]
             PROVE  /\ manager'[i].indexLoaded
                    /\ BagIn(<<vector'[v].uid, vector'[v].values[i]>>, manager'[i].entries)
  OBVIOUS
<1>1. StoreNext
  BY DEF storeVars, memory
<1>2. vector' # vector
  OBVIOUS
<1>3. PICK u \in 0..MaxVector, values \in Requests : AddVector(u, values)
  <2>1. DOMAIN Empty = {}
    BY DEF Empty
  <2>2. QED  BY <1>1, <1>2, <2>1, WritesVectors
<1>4. PICK w, uid, st :
        /\ w \in VectorId /\ uid \in Uid
        /\ AddedSoFar(st, w, uid, {values[x].index : x \in 1..Len(values)})
        /\ Leaves(st) /\ Commits(st)
  BY <1>3, AddVectorFacts
<1>5. st.ok /\ vector' = st.vector /\ manager' = st.manager
  BY <1>2, <1>4 DEF Commits, Leaves
<1>6. v = w
  BY <1>4, <1>5 DEF AddedSoFar
<1>7. /\ st.manager[i].indexLoaded
      /\ BagIn(<<uid, st.vector[v].values[i]>>, st.manager[i].entries)
      /\ st.vector[v].uid = uid
  BY <1>4, <1>5, <1>6 DEF AddedSoFar
<1>8. QED  BY <1>5, <1>7

(* What addVector stored is in the index it left in memory, which no later  *)
(* search replaces by its file.                                             *)
THEOREM AddedIsSearchableCorrect == StoreSpec => AddedIsSearchable
<1>1. StoreInv /\ [StoreNext]_storeVars =>
        [manager' # manager =>
            \A i \in DOMAIN manager', v \in DOMAIN vector' :
                /\ i \in DOMAIN vector'[v].values
                /\ v \in DOMAIN vector => vector[v] # vector'[v]
                => /\ manager'[i].indexLoaded
                   /\ BagIn(<<vector'[v].uid, vector'[v].values[i]>>, manager'[i].entries)]_storeVars
  BY AddedSearchableStep
<1>2. QED  BY <1>1, StoreInvariant, PTL DEF StoreSpec, AddedIsSearchable

----------------------------------------------------------------------------
(* While vectors are only added and the cache has room for every index:     *)
(* an index in memory has exactly the rows, and so has its file, from which *)
(* it may be read again, unless it has none; an index that is not in memory *)
(* has no rows yet.                                                         *)

InStep(st, i) ==
    IF i \in DOMAIN st.manager
    THEN /\ st.manager[i].entries = Rows(st.vector, i)
         /\ ~st.manager[i].indexLoaded =>
              IF i \in DOMAIN st.file THEN st.file[i] = st.manager[i].entries
              ELSE st.manager[i].entries = EmptyBag
    ELSE Rows(st.vector, i) = EmptyBag /\ i \notin DOMAIN st.file

AllInStep(st) == StoreOK(st) /\ st.ok /\ \A i \in IndexId : InStep(st, i)

Growing == Bounds /\ RoomForAll /\ indexes = 1..indexSeq

(* The rows of an index are not Torn.                                       *)
LEMMA RowsNotTorn ==
    ASSUME NEW vectors, VectorsOK(vectors), NEW i
    PROVE  Rows(vectors, i) # Torn
<1>1. PICK S : S = {<<vectors[v].uid, vectors[v].values[i]>> :
                      v \in {w \in DOMAIN vectors :
                               ~vectors[w].deleted /\ i \in DOMAIN vectors[w].values}}
  OBVIOUS
<1>2. ASSUME NEW v \in DOMAIN vectors, i \in DOMAIN vectors[v].values
      PROVE  vectors[v].uid \in Uid /\ vectors[v].values[i] \in Embeddings
  <2>1. vectors[v].uid \in Uid /\ vectors[v].values \in Values
    BY DEF VectorsOK
  <2>2. PICK I \in SUBSET IndexId : vectors[v].values \in [I -> Embeddings]
    BY <2>1 DEF Values
  <2>3. QED  BY <1>2, <2>1, <2>2
<1>3. S \in SUBSET ((1..MaxVector) \X Embeddings)
  BY <1>1, <1>2 DEF Uid
<1>4. SetToBag(S) # Torn
  BY <1>3, StoreAssumption
<1>5. QED  BY <1>1, <1>4 DEF Rows

(* A list that misses a number is shorter than the numbers are.             *)
LEMMA ListHasRoom ==
    ASSUME NEW n \in Nat, NEW list \in Seq(1..n), IsInjective(list),
           NEW i \in 1..n, i \notin Range(list)
    PROVE  Len(list) < n
<1>1. PICK D, T : D = 1..Len(list) /\ T = (1..n) \ {i}
  OBVIOUS
<1>2. Len(list) \in Nat /\ DOMAIN list = D /\ list = [x \in D |-> list[x]]
      /\ \A x \in D : list[x] \in 1..n
  BY <1>1, LenProperties, ElementOfSeq
<1>3. \A x \in D : list[x] \in T
  BY <1>1, <1>2 DEF Range
<1>4. list \in [D -> T]
  BY <1>2, <1>3
<1>5. list \in Injection(D, T)
  BY <1>4 DEF Injection
<1>6. IsFiniteSet(1..n) /\ Cardinality(1..n) = n
  <2>1. n \in Int /\ 1 \in Int
    OBVIOUS
  <2>2. IsFiniteSet(1..n) /\ Cardinality(1..n) = IF 1 > n THEN 0 ELSE n - 1 + 1
    BY <2>1, FS_Interval
  <2>3. QED  BY <2>2
<1>7. IsFiniteSet(T) /\ Cardinality(T) = n - 1
  BY <1>1, <1>6, FS_RemoveElement
<1>8. Cardinality(D) <= n - 1
  BY <1>5, <1>7, FS_Injection
<1>9. Cardinality(D) = Len(list)
  <2>1. PICK k : k = Len(list)
    OBVIOUS
  <2>2. k \in Int /\ 1 \in Int /\ k >= 0
    BY <1>2, <2>1
  <2>3. Cardinality(1..k) = IF 1 > k THEN 0 ELSE k - 1 + 1
    BY <2>2, FS_Interval
  <2>4. QED  BY <1>1, <2>1, <2>2, <2>3
<1>10. QED  BY <1>2, <1>8, <1>9

(* Every index has an id within the bounds.                                 *)
LEMMA IndexIds ==
    ASSUME Growing
    PROVE  indexes \subseteq IndexId
<1>1. indexSeq \in 0..MaxIndex /\ MaxIndex \in Nat /\ indexes \subseteq 1..indexSeq
  BY StoreAssumption DEF Growing, Bounds
<1>2. QED  BY <1>1 DEF IndexId

(* With room for every index, get evicts none.                              *)
LEMMA GetInStep ==
    ASSUME Growing, NEW st, AllInStep(st), NEW i \in indexes, NEW g, g = Get(st, i)
    PROVE  /\ AllInStep(g) /\ g.vector = st.vector /\ g.file = st.file
           /\ i \in DOMAIN g.manager
<1>1. /\ StoreOK(st) /\ st.ok /\ i \in IndexId /\ i \in 1..indexSeq
      /\ indexSeq \in Nat /\ indexSeq <= MaxIndex /\ MaxIndex <= capacity
      /\ MaxIndex \in Nat /\ capacity \in Nat
  BY StoreAssumption DEF AllInStep, Growing, Bounds, RoomForAll, IndexId
<1>2. /\ StoreOK(g) /\ g.vector = st.vector /\ g.file = st.file
      /\ g.ok = (st.ok /\ (i \in DOMAIN st.manager \/ i \in indexes))
      /\ g.ok => i \in DOMAIN g.manager
      /\ DOMAIN g.manager \subseteq DOMAIN st.manager \cup {i}
      /\ \A j \in DOMAIN g.manager :
           g.manager[j] = IF j \in DOMAIN st.manager THEN st.manager[j] ELSE New
  BY <1>1, GetFacts DEF Growing
<1>3. g.ok /\ i \in DOMAIN g.manager
  <2>1. g.ok \in BOOLEAN
    BY <1>2 DEF StoreOK, IsStore
  <2>2. g.ok
    BY <1>1, <1>2, <2>1
  <2>3. QED  BY <1>2, <2>2
<1>4. DOMAIN g.manager = DOMAIN st.manager \cup {i}
  <2>1. PICK list, n : list = st.list /\ n = indexSeq
    OBVIOUS
  <2>2. /\ list \in Seq(1..n) /\ IsInjective(list) /\ n \in Nat /\ i \in 1..n
        /\ DOMAIN st.manager = Range(list)
    BY <1>1, <2>1 DEF StoreOK, ListOK
  <2>3. CASE i \in Range(list)
    <3>1. g.manager = st.manager
      BY <1>1, <2>1, <2>3 DEF Get, StoreOK, IsStore
    <3>2. QED  BY <2>2, <2>3, <3>1
  <2>4. CASE i \notin Range(list)
    <3>1. Len(list) < n
      BY <2>2, <2>4, ListHasRoom
    <3>2. Len(list) < capacity
      <4>1. Len(list) \in Nat
        BY <2>2, LenProperties
      <4>2. QED  BY <1>1, <2>1, <3>1, <4>1
    <3>3. Evicted(st) = st
      BY <2>1, <3>2 DEF Evicted
    <3>4. g.manager = Put(st.manager, i, [entries |-> EmptyBag, indexLoaded |-> FALSE])
      BY <1>1, <2>1, <2>4, <3>3 DEF Get, StoreOK, IsStore
    <3>5. QED  BY <3>4 DEF Put
  <2>5. QED  BY <2>3, <2>4
<1>5. ASSUME NEW j \in IndexId PROVE InStep(g, j)
  <2>1. InStep(st, j)
    BY DEF AllInStep
  <2>2. CASE j \in DOMAIN st.manager
    <3>1. g.manager[j] = st.manager[j] /\ j \in DOMAIN g.manager
      BY <1>2, <1>4, <2>2
    <3>2. QED  BY <1>2, <2>1, <2>2, <3>1 DEF InStep
  <2>3. CASE j \notin DOMAIN st.manager /\ j = i
    <3>1. g.manager[j] = New
      BY <1>2, <1>3, <2>3
    <3>2. g.manager[j].entries = EmptyBag /\ g.manager[j].indexLoaded = FALSE
      BY <3>1 DEF New
    <3>3. QED  BY <1>2, <1>3, <2>1, <2>3, <3>2 DEF InStep
  <2>4. CASE j \notin DOMAIN st.manager /\ j # i
    BY <1>2, <1>4, <2>1, <2>4 DEF InStep
  <2>5. QED  BY <2>2, <2>3, <2>4
<1>6. QED  BY <1>2, <1>3, <1>5 DEF AllInStep

(* What touches one index leaves the others in step.                        *)
LEMMA OthersInStep ==
    ASSUME NEW a, NEW b, NEW i, OnlyAt(a, b, i), NEW j, j # i, InStep(a, j)
    PROVE  InStep(b, j)
<1>1. /\ b.vector = a.vector /\ DOMAIN b.manager = DOMAIN a.manager
      /\ j \in DOMAIN a.manager => b.manager[j] = a.manager[j]
      /\ j \in DOMAIN b.file <=> j \in DOMAIN a.file
      /\ j \in DOMAIN a.file => b.file[j] = a.file[j]
  BY DEF OnlyAt
<1>2. QED  BY <1>1 DEF InStep

(* restoreVectorsToIndex keeps them in step, and afterwards the file of an  *)
(* index that was not loaded has what the index has.                        *)
LEMMA RestoredInStep ==
    ASSUME Growing, NEW st, AllInStep(st), NEW i \in indexes, i \in DOMAIN st.manager,
           NEW r, r = Restored(st, i)
    PROVE  /\ AllInStep(r) /\ r.vector = st.vector /\ i \in DOMAIN r.manager
           /\ ~r.manager[i].indexLoaded =>
                i \in DOMAIN r.file /\ r.file[i] = r.manager[i].entries
<1>1. StoreOK(st) /\ st.ok /\ Bounds
  BY DEF AllInStep, Growing
<1>2. /\ StoreOK(r) /\ OnlyAt(st, r, i)
      /\ r.ok = (st.ok /\ (st.manager[i].entries \notin {EmptyBag, Torn} \/ i \in indexes))
      /\ r.ok => \/ r = st /\ st.manager[i].entries \notin {EmptyBag, Torn}
                 \/ /\ st.manager[i].entries \in {EmptyBag, Torn}
                    /\ r.manager[i] = [entries |-> Rows(st.vector, i),
                                       indexLoaded |-> st.manager[i].indexLoaded]
                    /\ i \in DOMAIN r.file /\ r.file[i] = Rows(st.vector, i)
  BY <1>1, RestoredFacts
<1>3. r.ok
  <2>1. r.ok \in BOOLEAN
    BY <1>2 DEF StoreOK, IsStore
  <2>2. QED  BY <1>1, <1>2, <2>1
<1>4. r.vector = st.vector /\ i \in DOMAIN r.manager /\ i \in IndexId
  BY <1>2, IndexIds DEF OnlyAt
<1>5. InStep(st, i)
  BY <1>4 DEF AllInStep
<1>6. /\ InStep(r, i)
      /\ ~r.manager[i].indexLoaded => i \in DOMAIN r.file /\ r.file[i] = r.manager[i].entries
  <2>1. CASE r = st /\ st.manager[i].entries \notin {EmptyBag, Torn}
    BY <1>4, <1>5, <2>1 DEF InStep
  <2>2. CASE /\ r.manager[i] = [entries |-> Rows(st.vector, i),
                                indexLoaded |-> st.manager[i].indexLoaded]
             /\ i \in DOMAIN r.file /\ r.file[i] = Rows(st.vector, i)
    <3>1. r.manager[i].entries = Rows(st.vector, i)
      BY <2>2
    <3>2. QED  BY <1>4, <2>2, <3>1 DEF InStep
  <2>3. QED  BY <1>2, <1>3, <2>1, <2>2
<1>7. ASSUME NEW j \in IndexId, j # i PROVE InStep(r, j)
  <2>1. InStep(st, j)
    BY DEF AllInStep
  <2>2. QED  BY <1>2, <1>7, <2>1, OthersInStep
<1>8. QED  BY <1>2, <1>3, <1>4, <1>6, <1>7 DEF AllInStep

(* loadIndex keeps them in step: what it reads from the file is what the    *)
(* index had.                                                               *)
LEMMA LoadedInStep ==
    ASSUME Growing, NEW st, AllInStep(st), NEW i \in indexes, i \in DOMAIN st.manager,
           NEW l, l = Loaded(st, i)
    PROVE  AllInStep(l) /\ l.vector = st.vector /\ l.manager[i].entries = Rows(st.vector, i)
<1>1. StoreOK(st) /\ st.ok /\ Bounds /\ VectorsOK(st.vector)
  BY DEF AllInStep, Growing, StoreOK
<1>2. /\ StoreOK(l) /\ OnlyAt(st, l, i)
      /\ l.ok = (st.ok /\ \/ st.manager[i].indexLoaded
                          \/ IF i \in DOMAIN st.file THEN st.file[i] # Torn
                             ELSE i \in indexes)
      /\ l.ok => /\ l.manager[i].indexLoaded
                 /\ IF st.manager[i].indexLoaded THEN l = st
                    ELSE IF i \in DOMAIN st.file
                         THEN l.file = st.file /\ l.manager[i].entries = st.file[i]
                         ELSE /\ l.manager[i].entries = Rows(st.vector, i)
                              /\ i \in DOMAIN l.file /\ l.file[i] = Rows(st.vector, i)
  BY <1>1, LoadedFacts
<1>3. i \in IndexId /\ l.vector = st.vector /\ i \in DOMAIN l.manager
  BY <1>2, IndexIds DEF OnlyAt
<1>4. InStep(st, i) /\ Rows(st.vector, i) # Torn
  BY <1>1, <1>3, RowsNotTorn DEF AllInStep
<1>5. l.ok
  <2>1. l.ok \in BOOLEAN
    BY <1>2 DEF StoreOK, IsStore
  <2>2. QED  BY <1>1, <1>2, <1>4, <2>1 DEF InStep
<1>6. l.manager[i].entries = Rows(st.vector, i)
  BY <1>2, <1>4, <1>5 DEF InStep
<1>7. InStep(l, i)
  BY <1>2, <1>3, <1>5, <1>6 DEF InStep
<1>8. ASSUME NEW j \in IndexId, j # i PROVE InStep(l, j)
  <2>1. InStep(st, j)
    BY DEF AllInStep
  <2>2. QED  BY <1>2, <1>8, <2>1, OthersInStep
<1>9. QED  BY <1>2, <1>3, <1>5, <1>6, <1>7, <1>8 DEF AllInStep

(* One more value of addVector.                                             *)
LEMMA AddedValueInStep ==
    ASSUME Growing, NEW st, AllInStep(st), NEW v \in DOMAIN st.vector,
           ~st.vector[v].deleted, NEW u, u = st.vector[v].uid,
           \A x \in DOMAIN st.vector : x # v => st.vector[x].uid # u,
           NEW x, NEW i \in indexes, NEW e \in Embeddings, x.index = i, x.embedding = e,
           i \notin DOMAIN st.vector[v].values,
           NEW a, a = AddedValue(st, v, x)
    PROVE  AllInStep(a)
<1>1. PICK g : g = Get(st, i)
  OBVIOUS
<1>2. AllInStep(g) /\ g.vector = st.vector /\ i \in DOMAIN g.manager
  BY <1>1, GetInStep
<1>3. PICK r : r = Restored(g, i)
  OBVIOUS
<1>4. /\ AllInStep(r) /\ r.vector = st.vector /\ i \in DOMAIN r.manager
      /\ ~r.manager[i].indexLoaded => i \in DOMAIN r.file /\ r.file[i] = r.manager[i].entries
  BY <1>2, <1>3, RestoredInStep
<1>5. r = Refreshed(st, i)
  BY <1>1, <1>3 DEF Refreshed, AllInStep
<1>6. PICK n : n = Inserted(r, v, i, e)
  OBVIOUS
<1>7. StoreOK(r) /\ r.ok /\ i \in IndexId /\ VectorsOK(st.vector) /\ u \in Uid /\ Bounds
  <2>1. StoreOK(r) /\ r.ok /\ StoreOK(st) /\ Bounds /\ i \in IndexId
    BY <1>4, IndexIds DEF AllInStep, Growing
  <2>2. VectorsOK(st.vector)
    BY <2>1 DEF StoreOK
  <2>3. u \in Uid
    BY <2>2 DEF VectorsOK
  <2>4. QED  BY <2>1, <2>2, <2>3
<1>8. /\ StoreOK(n) /\ n.manager = r.manager /\ n.file = r.file /\ n.ok
      /\ Wrote(st.vector, n.vector, v, i, e)
  <2>1. /\ StoreOK(n)
        /\ n.list = r.list /\ n.manager = r.manager /\ n.file = r.file /\ n.ok = r.ok
        /\ IF r.ok THEN Wrote(r.vector, n.vector, v, i, e) ELSE n.vector = r.vector
    <3>1. v \in DOMAIN r.vector /\ StoreOK(r) /\ i \in IndexId
      BY <1>4, <1>7
    <3>2. QED  BY <1>6, <3>1, InsertedFacts
  <2>2. QED  BY <1>4, <1>7, <2>1
<1>9. a = Appended(n, i, u, e)
  BY <1>5, <1>6 DEF AddedValue
<1>10. PICK l : l = Loaded(n, i)
  OBVIOUS
<1>11. /\ StoreOK(l) /\ OnlyAt(n, l, i)
       /\ l.ok = (n.ok /\ \/ n.manager[i].indexLoaded
                          \/ IF i \in DOMAIN n.file THEN n.file[i] # Torn
                             ELSE i \in indexes)
       /\ l.ok => IF n.manager[i].indexLoaded THEN l = n
                  ELSE IF i \in DOMAIN n.file
                       THEN l.file = n.file /\ l.manager[i].entries = n.file[i]
                       ELSE /\ l.manager[i].entries = Rows(n.vector, i)
                            /\ i \in DOMAIN l.file /\ l.file[i] = Rows(n.vector, i)
  BY <1>4, <1>7, <1>8, <1>10, LoadedFacts
<1>12. r.manager[i].entries = Rows(st.vector, i) /\ Rows(st.vector, i) # Torn
  <2>1. InStep(r, i)
    BY <1>4, <1>7 DEF AllInStep
  <2>2. QED  BY <1>4, <1>7, <2>1, RowsNotTorn DEF InStep
<1>13. l.ok
  <2>1. l.ok \in BOOLEAN
    BY <1>11 DEF StoreOK, IsStore
  <2>2. QED  BY <1>4, <1>8, <1>11, <1>12, <2>1
<1>14. l.manager[i].entries = Rows(st.vector, i)
  BY <1>4, <1>8, <1>11, <1>12, <1>13
<1>15. /\ StoreOK(a) /\ OnlyAt(n, a, i) /\ a.ok
       /\ a.manager[i].entries = Rows(st.vector, i) (+) SetToBag({<<u, e>>})
       /\ a.manager[i].indexLoaded
  <2>1. /\ StoreOK(a) /\ OnlyAt(n, a, i)
        /\ a.ok = l.ok
        /\ a.ok => /\ a.manager[i] = [entries |-> l.manager[i].entries (+) SetToBag({<<u, e>>}),
                                      indexLoaded |-> TRUE]
    <3>1. StoreOK(n) /\ (n.ok => i \in DOMAIN n.manager) /\ u \in Uid /\ Bounds
      BY <1>4, <1>7, <1>8
    <3>2. /\ StoreOK(a) /\ OnlyAt(n, a, i)
          /\ a.ok = l.ok /\ a.file = l.file
          /\ a.ok => /\ n.ok
                     /\ a.manager[i] = [entries |-> l.manager[i].entries (+) SetToBag({<<u, e>>}),
                                        indexLoaded |-> TRUE]
                     /\ BagIn(<<u, e>>, a.manager[i].entries)
      BY <1>9, <1>10, <3>1, AppendedFacts
    <3>3. QED  BY <3>2
  <2>2. a.ok
    <3>1. a.ok \in BOOLEAN
      BY <2>1 DEF StoreOK, IsStore
    <3>2. QED  BY <1>13, <2>1, <3>1
  <2>3. PICK b : b = Rows(st.vector, i) (+) SetToBag({<<u, e>>})
    OBVIOUS
  <2>4. a.manager[i] = [entries |-> b, indexLoaded |-> TRUE]
    BY <1>14, <2>1, <2>2, <2>3
  <2>5. QED  BY <2>1, <2>2, <2>3, <2>4
<1>16. InStep(a, i)
  <2>1. PICK m, w : m = st.vector /\ w = a.vector
    OBVIOUS
  <2>2. w = n.vector /\ i \in DOMAIN a.manager
    BY <1>4, <1>8, <1>15, <2>1 DEF OnlyAt
  <2>3. \A y \in DOMAIN m : y # v => m[y].uid # m[v].uid
    BY <2>1
  <2>4. /\ VectorsOK(m) /\ v \in DOMAIN m /\ Wrote(m, w, v, i, e)
        /\ ~m[v].deleted /\ i \notin DOMAIN m[v].values /\ u = m[v].uid
    BY <1>7, <1>8, <2>1, <2>2
  <2>5. Rows(w, i) = Rows(m, i) (+) SetToBag({<<u, e>>})
    BY <2>3, <2>4, RowsOfOne
  <2>6. QED  BY <1>15, <2>1, <2>2, <2>5 DEF InStep
<1>17. ASSUME NEW j \in IndexId, j # i PROVE InStep(a, j)
  <2>1. InStep(r, j)
    BY <1>4 DEF AllInStep
  <2>2. PICK m, w : m = st.vector /\ w = n.vector
    OBVIOUS
  <2>3. VectorsOK(m) /\ v \in DOMAIN m /\ Wrote(m, w, v, i, e)
    BY <1>7, <1>8, <2>2
  <2>4. Rows(w, j) = Rows(m, j)
    BY <1>17, <2>3, RowsOfOthers
  <2>5. InStep(n, j)
    BY <1>4, <1>8, <2>1, <2>2, <2>4 DEF InStep
  <2>6. QED  BY <1>15, <1>17, <2>5, OthersInStep
<1>18. QED  BY <1>15, <1>16, <1>17 DEF AllInStep

(* A vector without values gives no index a row.                            *)
LEMMA RowsOfNew ==
    ASSUME NEW v, v \notin DOMAIN vector, NEW uid, NEW w, w = Written(v, uid), NEW j
    PROVE  Rows(w, j) = Rows(vector, j)
<1>1. /\ DOMAIN w = DOMAIN vector \cup {v}
      /\ DOMAIN w[v].values = {}
      /\ \A x \in DOMAIN vector : w[x] = vector[x]
  BY DEF Written, Put, Empty
<1>2. PICK R : /\ Rows(vector, j) = SetToBag(R)
               /\ \A y : y \in R <=>
                    \E x \in DOMAIN vector :
                       /\ ~vector[x].deleted /\ j \in DOMAIN vector[x].values
                       /\ y = <<vector[x].uid, vector[x].values[j]>>
  BY RowsAreSet
<1>3. PICK Q : /\ Rows(w, j) = SetToBag(Q)
               /\ \A y : y \in Q <=>
                    \E x \in DOMAIN w :
                       /\ ~w[x].deleted /\ j \in DOMAIN w[x].values
                       /\ y = <<w[x].uid, w[x].values[j]>>
  BY RowsAreSet
<1>4. \A y : y \in Q <=> y \in R
  BY <1>1, <1>2, <1>3
<1>5. Q = R
  BY <1>4
<1>6. QED  BY <1>2, <1>3, <1>5

(* A new vector for existing indexes: every value is entered in its index,  *)
(* which keeps in step.                                                     *)
LEMMA AddedInStep ==
    ASSUME StateOK, Growing, AllInStep(Store(vector)),
           NEW v, v \notin DOMAIN vector, NEW uid \in Uid, NewUid(v, uid),
           NEW values \in Requests, \A x \in DOMAIN values : values[x].index \in indexes
    PROVE  AllInStep(Added(v, uid, values))
<1>1. /\ values \in Seq([index : IndexId, embedding : Embeddings])
      /\ \A x, y \in DOMAIN values : values[x].index = values[y].index => x = y
  BY StoreAssumption DEF IndexId
<1>2. /\ Len(values) \in Nat /\ DOMAIN values = 1..Len(values)
      /\ \A x \in 1..Len(values) : values[x] \in [index : IndexId, embedding : Embeddings]
  BY <1>1, LenProperties, ElementOfSeq
<1>3. PICK run : /\ run[0] = Store(Written(v, uid))
                 /\ \A n \in 1..Len(values) : run[n] = AddedValue(run[n - 1], v, values[n])
                 /\ Added(v, uid, values) = run[Len(values)]
  BY <1>2, AddedRun
<1> DEFINE Seen(k) == {values[x].index : x \in 1..k}
           N == Len(values)
           Good == {k \in 0..N : AddedSoFar(run[k], v, uid, Seen(k)) /\ AllInStep(run[k])}
<1>4. 0 \in Good
  <2>1. Seen(0) = {} /\ 0 \in 0..N
    BY <1>2
  <2>2. AddedSoFar(run[0], v, uid, {})
    BY <1>3, AddedStart
  <2>3. AllInStep(run[0])
    <3>1. PICK st, w : st = run[0] /\ w = Written(v, uid)
      OBVIOUS
    <3>2. StoreOK(st) /\ st = Store(w)
      BY <1>3, <2>2, <3>1 DEF AddedSoFar
    <3>3. st.manager = manager /\ st.file = file /\ st.vector = w /\ st.ok
      BY <3>2 DEF Store
    <3>4. ASSUME NEW j \in IndexId PROVE InStep(st, j)
      <4>1. PICK t : t = Store(vector)
        OBVIOUS
      <4>2. InStep(t, j)
        BY <4>1 DEF AllInStep
      <4>3. t.manager = manager /\ t.file = file /\ t.vector = vector
        BY <4>1 DEF Store
      <4>4. Rows(w, j) = Rows(vector, j)
        BY <3>1, RowsOfNew
      <4>5. QED  BY <3>3, <4>2, <4>3, <4>4 DEF InStep
    <3>5. QED  BY <3>1, <3>2, <3>3, <3>4 DEF AllInStep
  <2> HIDE DEF Seen
  <2>4. QED  BY <2>1, <2>2, <2>3
<1>5. ASSUME NEW k \in 0..N, k + 1 \in 0..N, k \in Good PROVE k + 1 \in Good
  <2>1. k + 1 \in 1..N /\ (k + 1) - 1 = k /\ k \in Nat
    BY <1>2, <1>5
  <2>2. PICK x, i, e : x = values[k + 1] /\ i = x.index /\ e = x.embedding
    OBVIOUS
  <2>3. i \in IndexId /\ e \in Embeddings /\ i \in indexes
    BY <1>2, <2>1, <2>2
  <2>4. i \notin Seen(k)
    BY <1>1, <1>2, <2>1, <2>2
  <2>5. Seen(k + 1) = Seen(k) \cup {i}
    <3>1. \A y : y \in 1..(k + 1) <=> y \in 1..k \/ y = k + 1
      BY <2>1
    <3>2. QED  BY <2>2, <3>1
  <2> HIDE DEF Seen
  <2>6. PICK st, a : st = run[k] /\ a = run[k + 1]
    OBVIOUS
  <2>7. PICK I : I = Seen(k)
    OBVIOUS
  <2>8. AddedSoFar(st, v, uid, I) /\ AllInStep(st)
    BY <1>5, <2>6, <2>7
  <2>9. a = AddedValue(st, v, x)
    BY <1>3, <2>1, <2>2, <2>6
  <2>10. AddedSoFar(a, v, uid, I \cup {i})
    BY <2>2, <2>3, <2>4, <2>7, <2>8, <2>9, AddedStep
  <2>11. AllInStep(a)
    <3>1. /\ v \in DOMAIN st.vector /\ uid = st.vector[v].uid
          /\ DOMAIN st.vector = DOMAIN vector \cup {v}
          /\ \A y \in DOMAIN vector : y # v => st.vector[y] = vector[y]
          /\ ~st.vector[v].deleted /\ DOMAIN st.vector[v].values = I
      BY <2>8 DEF AddedSoFar, AllInStep
    <3>2. \A y \in DOMAIN st.vector : y # v => st.vector[y].uid # uid
      BY <3>1 DEF NewUid
    <3>3. i \notin DOMAIN st.vector[v].values
      BY <2>4, <2>7, <3>1
    <3>4. QED  BY <2>2, <2>3, <2>8, <2>9, <3>1, <3>2, <3>3, AddedValueInStep
  <2>12. QED  BY <1>5, <2>5, <2>6, <2>7, <2>10, <2>11
<1>6. N \in Good
  <2>1. N \in Nat
    BY <1>2
  <2> HIDE DEF Good, N
  <2>2. QED  BY <1>4, <1>5, <2>1, Upto
<1>7. QED  BY <1>3, <1>6

(* The invariant of the growing store.                                      *)
GrownInv ==
    RoomForAll =>
        /\ indexes = 1..indexSeq /\ pending = <<>>
        /\ \A i \in IndexId : InStep(Store(vector), i)

(* The store a call begins with is in step.                                 *)
LEMMA GrownStart ==
    ASSUME StoreInv, GrownInv, RoomForAll
    PROVE  Growing /\ AllInStep(Store(vector)) /\ pending = <<>>
<1>1. StoreOK(Store(vector)) /\ Store(vector).ok
  BY DEF Store, StoreOK, IsStore, StateOK, StoreInv
<1>2. QED  BY <1>1 DEF GrownInv, Growing, AllInStep, StoreInv, StateOK

(* The theorem: a search reads an index that has exactly the rows.          *)
LEMMA GrownExact == StoreInv /\ GrownInv => SearchExact
<1> SUFFICES ASSUME StoreInv, GrownInv, RoomForAll, NEW i \in indexes
             PROVE  Searched(i).ok /\ Searched(i).manager[i].entries = Rows(vector, i)
  BY DEF SearchExact
<1>1. Growing /\ AllInStep(Store(vector))
  BY GrownStart
<1>2. PICK st, g, l : st = Store(vector) /\ g = Get(st, i) /\ l = Loaded(g, i)
  OBVIOUS
<1>3. AllInStep(st) /\ st.vector = vector
  BY <1>1, <1>2 DEF Store
<1>4. AllInStep(g) /\ g.vector = vector /\ i \in DOMAIN g.manager
  <2>1. AllInStep(g) /\ g.vector = st.vector /\ i \in DOMAIN g.manager
    BY <1>1, <1>2, <1>3, GetInStep
  <2>2. QED  BY <1>3, <2>1
<1>5. AllInStep(l) /\ l.manager[i].entries = Rows(vector, i)
  <2>1. AllInStep(l) /\ l.manager[i].entries = Rows(g.vector, i)
    BY <1>1, <1>2, <1>4, LoadedInStep
  <2>2. QED  BY <1>4, <2>1
<1>6. Searched(i) = l
  BY <1>2 DEF Searched
<1>7. QED  BY <1>5, <1>6 DEF AllInStep

(* What a chain of operations that keeps the indexes in step leaves.        *)
LEMMA LeftInStep ==
    ASSUME NEW st, AllInStep(st), Leaves(st), vector' = st.vector, Growing,
           UNCHANGED <<indexes, indexSeq>>, pending' = <<>>
    PROVE  GrownInv'
<1>1. cacheList' = st.list /\ manager' = st.manager /\ file' = st.file
  BY DEF Leaves
<1>2. PICK t : t = [list |-> st.list, manager |-> st.manager, file |-> st.file,
                    vector |-> st.vector, ok |-> TRUE]
  OBVIOUS
<1>3. Store(vector)' = t
  BY <1>1, <1>2 DEF Store
<1>4. ASSUME NEW i \in IndexId PROVE InStep(t, i)
  <2>1. InStep(st, i)
    BY DEF AllInStep
  <2>2. t.manager = st.manager /\ t.file = st.file /\ t.vector = st.vector
    BY <1>2
  <2>3. QED  BY <2>1, <2>2 DEF InStep
<1>5. \A i \in IndexId : InStep(Store(vector)', i)
  BY <1>3, <1>4
<1>6. indexes' = 1..indexSeq'
  BY DEF Growing
<1>7. QED  BY <1>5, <1>6 DEF GrownInv

(* saveIndex keeps them in step.                                            *)
LEMMA SavedInStep ==
    ASSUME Growing, NEW st, AllInStep(st), NEW i \in indexes, i \in DOMAIN st.manager,
           NEW s, s = Saved(st, i)
    PROVE  AllInStep(s) /\ s.vector = st.vector
<1>1. StoreOK(st) /\ st.ok
  BY DEF AllInStep
<1>2. StoreOK(s) /\ s.vector = st.vector /\ s.manager = st.manager /\ s.ok = st.ok
  <2>1. PICK f : f = Put(st.file, i, st.manager[i].entries)
    OBVIOUS
  <2>2. s = [st EXCEPT !.file = f]
    BY <2>1 DEF Saved
  <2>3. /\ IsStore(s) /\ s.list = st.list /\ s.manager = st.manager
        /\ s.vector = st.vector /\ s.ok = st.ok /\ s.file = f
    BY <1>1, <2>2 DEF StoreOK, IsStore
  <2>4. st.manager[i].entries = Torn \/ IsBag(st.manager[i].entries)
    BY <1>1 DEF StoreOK, ManagersOK, ManagerOK
  <2>5. FilesOK(f)
    BY <1>1, <2>1, <2>4 DEF StoreOK, FilesOK, Put
  <2>6. QED  BY <1>1, <2>3, <2>5 DEF StoreOK
<1>3. s.file = Put(st.file, i, st.manager[i].entries)
  BY <1>1 DEF Saved, StoreOK, IsStore
<1>4. ASSUME NEW j \in IndexId PROVE InStep(s, j)
  <2>1. InStep(st, j)
    BY DEF AllInStep
  <2>2. /\ j = i => j \in DOMAIN s.file /\ s.file[j] = st.manager[j].entries
        /\ j # i => /\ j \in DOMAIN s.file <=> j \in DOMAIN st.file
                    /\ j \in DOMAIN st.file => s.file[j] = st.file[j]
    BY <1>3 DEF Put
  <2>3. QED  BY <1>2, <2>1, <2>2 DEF InStep
<1>5. QED  BY <1>1, <1>2, <1>4 DEF AllInStep

(* They are in step when the program starts ...                             *)
LEMMA GrownInitInv == StoreInit => GrownInv
<1> SUFFICES ASSUME StoreInit PROVE GrownInv
  OBVIOUS
<1>1. indexes = 1..indexSeq /\ pending = <<>>
  BY DEF StoreInit
<1>2. DOMAIN Empty = {}
  BY DEF Empty
<1>3. ASSUME NEW i \in IndexId PROVE InStep(Store(vector), i)
  <2>1. PICK st : st = Store(vector)
    OBVIOUS
  <2>2. DOMAIN st.manager = {} /\ DOMAIN st.file = {} /\ DOMAIN st.vector = {}
    BY <1>2, <2>1 DEF StoreInit, Store
  <2>3. Rows(st.vector, i) = EmptyBag
    <3>1. PICK R : /\ Rows(st.vector, i) = SetToBag(R)
                   /\ \A y : y \in R <=>
                        \E x \in DOMAIN st.vector :
                           /\ ~st.vector[x].deleted /\ i \in DOMAIN st.vector[x].values
                           /\ y = <<st.vector[x].uid, st.vector[x].values[i]>>
      BY RowsAreSet
    <3>2. R = {}
      BY <2>2, <3>1
    <3>3. QED  BY <3>1, <3>2 DEF EmptyBag
  <2>4. QED  BY <2>1, <2>2, <2>3 DEF InStep
<1>4. QED  BY <1>1, <1>3 DEF GrownInv

(* The steps there are with room for every index.                           *)
LEMMA GrowStepInv ==
    ASSUME StoreInv, GrownInv, RoomForAll, GrowNext
    PROVE  GrownInv'
<1>1. Growing /\ AllInStep(Store(vector)) /\ pending = <<>>
  BY GrownStart
<1>2. PICK st0 : st0 = Store(vector)
  OBVIOUS
<1>3. AllInStep(st0) /\ st0.vector = vector
  BY <1>1, <1>2 DEF Store
<1>4. CASE AddIndex
  <2>1. indexes' = 1..indexSeq'
    <3>1. indexes = 1..indexSeq /\ indexSeq \in Nat
      BY <1>1 DEF Growing, Bounds
    <3>2. QED  BY <1>4, <3>1 DEF AddIndex
  <2>2. pending' = <<>> /\ Store(vector)' = st0
    BY <1>1, <1>2, <1>4 DEF AddIndex, memory, Store
  <2>3. \A i \in IndexId : InStep(Store(vector)', i)
    BY <1>3, <2>2 DEF AllInStep
  <2>4. QED  BY <2>1, <2>2, <2>3 DEF GrownInv
<1>5. CASE Grow
  <2>1. PICK u \in 0..MaxVector, values \in Requests :
          /\ \A w \in DOMAIN vector : vector[w].uid # u
          /\ \A x \in DOMAIN values : values[x].index \in indexes
          /\ AddVector(u, values)
    BY <1>5 DEF Grow
  <2>2. PICK v, uid, st :
          /\ v \in VectorId /\ uid \in Uid
          /\ st = Added(v, uid, values)
          /\ v \in DOMAIN vector => vector[v].uid = u
          /\ NewUid(v, uid)
          /\ Leaves(st) /\ Commits(st)
    BY <2>1, AddVectorFacts
  <2>3. v \notin DOMAIN vector
    BY <2>1, <2>2
  <2>4. AllInStep(st)
    BY <1>1, <2>1, <2>2, <2>3, AddedInStep DEF StoreInv
  <2>5. vector' = st.vector
    BY <2>2, <2>4 DEF Commits, AllInStep
  <2>6. UNCHANGED <<indexes, indexSeq>> /\ pending' = <<>>
    BY <1>1, <2>1 DEF AddVector
  <2>7. QED  BY <1>1, <2>2, <2>4, <2>5, <2>6, LeftInStep
<1>6. CASE flush
  <2>1. Len(pending) = 0
    BY <1>1
  <2>2. PICK run : run[0] = Store(vector) /\ Flushed = run[Len(pending)]
    BY <2>1, FlushedRun
  <2>3. Flushed = st0
    BY <1>2, <2>1, <2>2
  <2>4. Leaves(st0) /\ pending' = <<>> /\ UNCHANGED tables
    BY <1>3, <1>6, <2>3 DEF flush, AllInStep
  <2>5. vector' = st0.vector /\ UNCHANGED <<indexes, indexSeq>>
    BY <1>3, <2>4 DEF tables
  <2>6. QED  BY <1>1, <1>3, <2>4, <2>5, LeftInStep
<1>7. CASE Read
  <2>1. PICK i \in 1..indexSeq : search(i) \/ SaveIndex(i)
    BY <1>7 DEF Read
  <2>2. i \in indexes
    BY <1>1 DEF Growing
  <2>3. PICK g, l, s : g = Get(st0, i) /\ l = Loaded(g, i) /\ s = Saved(g, i)
    OBVIOUS
  <2>4. AllInStep(g) /\ g.vector = vector /\ i \in DOMAIN g.manager
    <3>1. AllInStep(g) /\ g.vector = st0.vector /\ i \in DOMAIN g.manager
      BY <1>1, <1>3, <2>2, <2>3, GetInStep
    <3>2. QED  BY <1>3, <3>1
  <2>5. CASE search(i)
    <3>1. AllInStep(l) /\ l.vector = g.vector
      BY <1>1, <2>2, <2>3, <2>4, LoadedInStep
    <3>2. Leaves(l) /\ UNCHANGED <<tables, pending>>
      BY <1>2, <2>3, <2>5 DEF search
    <3>3. vector' = l.vector /\ UNCHANGED <<indexes, indexSeq>> /\ pending' = <<>>
      BY <1>1, <2>4, <3>1, <3>2 DEF tables
    <3>4. QED  BY <1>1, <3>1, <3>2, <3>3, LeftInStep
  <2>6. CASE SaveIndex(i)
    <3>1. AllInStep(s) /\ s.vector = g.vector
      BY <1>1, <2>2, <2>3, <2>4, SavedInStep
    <3>2. Leaves(s) /\ UNCHANGED <<tables, pending>>
      BY <1>2, <2>3, <2>6 DEF SaveIndex
    <3>3. vector' = s.vector /\ UNCHANGED <<indexes, indexSeq>> /\ pending' = <<>>
      BY <1>1, <2>4, <3>1, <3>2 DEF tables
    <3>4. QED  BY <1>1, <3>1, <3>2, <3>3, LeftInStep
  <2>7. QED  BY <2>1, <2>5, <2>6
<1>8. QED  BY <1>4, <1>5, <1>6, <1>7 DEF GrowNext

(* ... and after every step.                                                *)
LEMMA GrownStep == StoreInv /\ GrownInv /\ [StoreNext]_storeVars => GrownInv'
<1> SUFFICES ASSUME StoreInv, GrownInv, [StoreNext]_storeVars PROVE GrownInv'
  OBVIOUS
<1>1. capacity' = capacity
  BY DEF StoreNext, GrowNext, storeVars
<1>2. CASE ~RoomForAll
  BY <1>1, <1>2 DEF RoomForAll, GrownInv
<1>3. CASE RoomForAll /\ StoreNext
  BY <1>3, GrowStepInv DEF StoreNext
<1>4. CASE UNCHANGED storeVars
  BY <1>4 DEF storeVars, tables, memory, GrownInv, RoomForAll, Store
<1>5. QED  BY <1>2, <1>3, <1>4

(* While vectors are only added and the cache has room for every index, a   *)
(* search reads exactly the vectors of the database.                        *)
THEOREM SearchExactCorrect == StoreSpec => []SearchExact
<1>1. StoreSpec => []GrownInv
  BY GrownInitInv, GrownStep, StoreInvariant, PTL DEF StoreSpec
<1>2. QED  BY <1>1, StoreInvariant, GrownExact, PTL
=============================================================================
