--------------------------- MODULE CatalogProofs ---------------------------
(***************************************************************************)
(* Proofs about Catalog and about IdCache, for every value of their         *)
(* constants: every number of names, spaces, versions and indexes.          *)
(***************************************************************************)
EXTENDS IdCache, WellFoundedInduction, TLAPS

USE DEF NextId

(* The conjunct of the type invariant about one table; the other tables'    *)
(* conjuncts do not mention its variables.                                  *)
SpaceTypeOK ==
    /\ spaceSeq \in 0..MaxSpace
    /\ DOMAIN space \subseteq 1..spaceSeq
    /\ space \in [DOMAIN space -> Names]

VersionTypeOK ==
    /\ versionSeq \in 0..MaxVersion
    /\ DOMAIN version \subseteq 1..versionSeq
    /\ version \in [DOMAIN version -> VersionRow]

IndexTypeOK ==
    /\ indexSeq \in 0..MaxIndex
    /\ DOMAIN index \subseteq 1..indexSeq
    /\ index \in [DOMAIN index -> IndexRow]

(* CatalogTypeOK by table. *)
LEMMA TypeParts == CatalogTypeOK <=> SpaceTypeOK /\ VersionTypeOK /\ IndexTypeOK
BY DEF CatalogTypeOK, SpaceTypeOK, VersionTypeOK, IndexTypeOK

----------------------------------------------------------------------------
(* Operators on tables. *)

(* Put sets one entry and keeps the others. *)
LEMMA PutDef ==
    ASSUME NEW f, NEW k, NEW v
    PROVE  /\ DOMAIN Put(f, k, v) = DOMAIN f \cup {k}
           /\ Put(f, k, v)[k] = v
           /\ \A x \in DOMAIN f : x # k => Put(f, k, v)[x] = f[x]
           /\ Put(f, k, v) = [x \in DOMAIN Put(f, k, v) |-> Put(f, k, v)[x]]
BY DEF Put

(* Drop removes the entries of S and keeps the others. *)
LEMMA DropDef ==
    ASSUME NEW f, NEW S
    PROVE  /\ DOMAIN Drop(f, S) = DOMAIN f \ S
           /\ \A x \in DOMAIN f \ S : Drop(f, S)[x] = f[x]
           /\ Drop(f, S) = [x \in DOMAIN Drop(f, S) |-> Drop(f, S)[x]]
BY DEF Drop, Restrict

(* Clearing the flag of some rows changes no other column. *)
LEMMA ClearedVersions ==
    ASSUME NEW table, table \in [DOMAIN table -> VersionRow], NEW S
    PROVE  /\ Cleared(table, S) \in [DOMAIN table -> VersionRow]
           /\ DOMAIN Cleared(table, S) = DOMAIN table
           /\ \A x \in DOMAIN table :
                /\ Cleared(table, S)[x].space = table[x].space
                /\ Cleared(table, S)[x].uid = table[x].uid
                /\ Cleared(table, S)[x].dflt <=> table[x].dflt /\ x \notin S
BY DEF Cleared, VersionRow

(* The same for the rows of VectorIndex. *)
LEMMA ClearedIndexes ==
    ASSUME NEW table, table \in [DOMAIN table -> IndexRow], NEW S
    PROVE  /\ Cleared(table, S) \in [DOMAIN table -> IndexRow]
           /\ DOMAIN Cleared(table, S) = DOMAIN table
           /\ \A x \in DOMAIN table :
                /\ Cleared(table, S)[x].version = table[x].version
                /\ Cleared(table, S)[x].dflt <=> table[x].dflt /\ x \notin S
BY DEF Cleared, IndexRow

HandedOn(table, rest, x, group) ==
    \/ \A y \in DOMAIN table \ {x} : (rest[y].dflt <=> table[y].dflt)
    \/ /\ table[x].dflt
       /\ \E h \in group \ {x} :
            \A y \in DOMAIN table \ {x} : (rest[y].dflt <=> table[y].dflt \/ y = h)

(* Deleting row x hands the flag to at most one row of its group, and only  *)
(* if x held it.                                                            *)
LEMMA DeletedVersion ==
    ASSUME NEW table, table \in [DOMAIN table -> VersionRow],
           NEW x \in DOMAIN table, NEW group \in SUBSET DOMAIN table,
           NEW rest \in DeletedRow(table, x, group)
    PROVE  /\ rest \in [DOMAIN table \ {x} -> VersionRow]
           /\ \A y \in DOMAIN table \ {x} :
                /\ rest[y].space = table[y].space
                /\ rest[y].uid = table[y].uid
           /\ HandedOn(table, rest, x, group)
<1> DEFINE left == Drop(table, {x})
           heirs == MostRecent(table, group \ {x})
<1>1. /\ left \in [DOMAIN table \ {x} -> VersionRow]
      /\ \A y \in DOMAIN table \ {x} : left[y] = table[y]
  BY DropDef DEF Drop, Restrict
<1>2. CASE table[x].dflt /\ heirs # {}
  <2>1. PICK h \in heirs : rest = [left EXCEPT ![h].dflt = TRUE]
    BY <1>2 DEF DeletedRow
  <2>2. h \in group \ {x} /\ h \in DOMAIN table \ {x}
    BY DEF MostRecent
  <2> HIDE DEF left, heirs
  <2>3. /\ rest \in [DOMAIN table \ {x} -> VersionRow]
        /\ \A y \in DOMAIN table \ {x} :
             /\ rest[y].space = table[y].space
             /\ rest[y].uid = table[y].uid
             /\ (rest[y].dflt <=> table[y].dflt \/ y = h)
    BY <1>1, <2>1, <2>2 DEF VersionRow
  <2>4. QED  BY <1>2, <2>2, <2>3 DEF HandedOn
<1>3. CASE ~(table[x].dflt /\ heirs # {})
  <2>1. rest = left
    BY <1>3 DEF DeletedRow
  <2>2. QED  BY <1>1, <2>1 DEF HandedOn
<1>4. QED  BY <1>2, <1>3

(* The same for the rows of VectorIndex. *)
LEMMA DeletedIndex ==
    ASSUME NEW table, table \in [DOMAIN table -> IndexRow],
           NEW x \in DOMAIN table, NEW group \in SUBSET DOMAIN table,
           NEW rest \in DeletedRow(table, x, group)
    PROVE  /\ rest \in [DOMAIN table \ {x} -> IndexRow]
           /\ \A y \in DOMAIN table \ {x} : rest[y].version = table[y].version
           /\ HandedOn(table, rest, x, group)
<1> DEFINE left == Drop(table, {x})
           heirs == MostRecent(table, group \ {x})
<1>1. /\ left \in [DOMAIN table \ {x} -> IndexRow]
      /\ \A y \in DOMAIN table \ {x} : left[y] = table[y]
  BY DropDef DEF Drop, Restrict
<1>2. CASE table[x].dflt /\ heirs # {}
  <2>1. PICK h \in heirs : rest = [left EXCEPT ![h].dflt = TRUE]
    BY <1>2 DEF DeletedRow
  <2>2. h \in group \ {x} /\ h \in DOMAIN table \ {x}
    BY DEF MostRecent
  <2> HIDE DEF left, heirs
  <2>3. /\ rest \in [DOMAIN table \ {x} -> IndexRow]
        /\ \A y \in DOMAIN table \ {x} :
             /\ rest[y].version = table[y].version
             /\ (rest[y].dflt <=> table[y].dflt \/ y = h)
    BY <1>1, <2>1, <2>2 DEF IndexRow
  <2>4. QED  BY <1>2, <2>2, <2>3 DEF HandedOn
<1>3. CASE ~(table[x].dflt /\ heirs # {})
  <2>1. rest = left
    BY <1>3 DEF DeletedRow
  <2>2. QED  BY <1>1, <2>1 DEF HandedOn
<1>4. QED  BY <1>2, <1>3
----------------------------------------------------------------------------
(* Type correctness, one lemma per table. *)

(* Every call keeps the rows of Space typed, and their ids issued. *)
LEMMA SpaceTypeStep ==
    SpaceTypeOK /\ [CatalogNext]_catalogVars => SpaceTypeOK'
<1> SUFFICES ASSUME SpaceTypeOK, [CatalogNext]_catalogVars PROVE SpaceTypeOK'
  OBVIOUS
<1> USE BoundsAssumption DEF SpaceTypeOK
<1>1. ASSUME NEW n \in Names, AddSpace(n) PROVE SpaceTypeOK'
  BY <1>1 DEF AddSpace, Put
<1>2. ASSUME NEW s \in 1..spaceSeq, NEW n \in Names, UpdateSpace(s, n) PROVE SpaceTypeOK'
  BY <1>2 DEF UpdateSpace
<1>3. ASSUME NEW s \in 1..spaceSeq, DeleteSpace(s) PROVE SpaceTypeOK'
  BY <1>3 DEF DeleteSpace, Drop, Restrict
<1>4. ASSUME UNCHANGED spaceTable PROVE SpaceTypeOK'
  BY <1>4 DEF spaceTable
<1>5. QED
  BY <1>1, <1>2, <1>3, <1>4
     DEF CatalogNext, catalogVars, spaceTable, AddVersion, UpdateVersion, DeleteVersion,
         AddVectorIndex, UpdateVectorIndex, DeleteVectorIndex

(* A version that exists belongs to an issued space id, so the group        *)
(* DeleteVersion promotes from and the rows DeleteSpace drops are typed.    *)
LEMMA VersionTypeStep ==
    SpaceTypeOK /\ VersionTypeOK /\ [CatalogNext]_catalogVars => VersionTypeOK'
<1> SUFFICES ASSUME SpaceTypeOK, VersionTypeOK, [CatalogNext]_catalogVars
             PROVE  VersionTypeOK'
  OBVIOUS
<1> USE BoundsAssumption, TimesAssumption
<1>s. \A s \in 1..spaceSeq : s \in SpaceId
  BY DEF SpaceTypeOK, SpaceId
<1>1. ASSUME NEW s \in 1..spaceSeq, NEW d \in BOOLEAN, NEW t \in Times, AddVersion(s, d, t)
      PROVE  VersionTypeOK'
  <2> DEFINE old == IF d THEN Cleared(version, VersionsOf(s)) ELSE version
  <2>1. old \in [DOMAIN version -> VersionRow]
    BY ClearedVersions DEF VersionTypeOK
  <2>2. PICK u \in VersionId :
          version' = Put(old, versionSeq + 1,
                         [space |-> s, uid |-> u, created |-> t,
                          dflt |-> d \/ DefaultVersions(s) = {}])
    BY <1>1 DEF AddVersion
  <2>3. [space |-> s, uid |-> u, created |-> t, dflt |-> d \/ DefaultVersions(s) = {}]
           \in VersionRow
    BY <1>s DEF VersionRow
  <2>4. /\ DOMAIN version' = DOMAIN version \cup {versionSeq + 1}
        /\ version' \in [DOMAIN version' -> VersionRow]
    <3> HIDE DEF old
    <3> QED  BY <2>1, <2>2, <2>3 DEF Put
  <2>5. versionSeq' = versionSeq + 1 /\ versionSeq' \in 0..MaxVersion
    BY <1>1 DEF AddVersion, VersionTypeOK
  <2>6. QED  BY <2>4, <2>5 DEF VersionTypeOK
<1>2. ASSUME NEW v \in 1..versionSeq, NEW s \in 1..spaceSeq, NEW d \in BOOLEAN,
             NEW t \in Times, UpdateVersion(v, s, d, t)
      PROVE  VersionTypeOK'
  <2> DEFINE others == IF d THEN Cleared(version, VersionsOf(s) \ {v}) ELSE version
  <2>1. others \in [DOMAIN version -> VersionRow]
    BY ClearedVersions DEF VersionTypeOK
  <2>2. version' = IF v \in DOMAIN version THEN [others EXCEPT ![v].created = t, ![v].dflt = d] ELSE others
    BY <1>2 DEF UpdateVersion
  <2> HIDE DEF others
  <2>3. version' \in [DOMAIN version -> VersionRow]
    BY <2>1, <2>2 DEF VersionRow
  <2>4. versionSeq' = versionSeq
    BY <1>2 DEF UpdateVersion
  <2>5. QED  BY <2>3, <2>4 DEF VersionTypeOK
<1>3. ASSUME NEW v \in 1..versionSeq, DeleteVersion(v) PROVE VersionTypeOK'
  <2> DEFINE group == VersionsOf(version[v].space)
  <2>1. version' \in DeletedRow(version, v, group) /\ v \in DOMAIN version
    BY <1>3 DEF DeleteVersion
  <2>2. group \in SUBSET DOMAIN version
    BY DEF VersionsOf
  <2>0. version \in [DOMAIN version -> VersionRow]
    BY DEF VersionTypeOK
  <2> HIDE DEF group
  <2>3. version' \in [DOMAIN version \ {v} -> VersionRow]
    BY <2>0, <2>1, <2>2, DeletedVersion
  <2>4. QED  BY <1>3, <2>3 DEF VersionTypeOK, DeleteVersion
<1>4. ASSUME NEW s \in 1..spaceSeq, DeleteSpace(s) PROVE VersionTypeOK'
  BY <1>4 DEF DeleteSpace, Drop, Restrict, VersionTypeOK
<1>5. ASSUME UNCHANGED versionTable PROVE VersionTypeOK'
  BY <1>5 DEF versionTable, VersionTypeOK
<1>6. QED
  BY <1>1, <1>2, <1>3, <1>4, <1>5
     DEF CatalogNext, catalogVars, versionTable, AddSpace, UpdateSpace,
         AddVectorIndex, UpdateVectorIndex, DeleteVectorIndex

(* An index row points to an issued version id, also after a move. *)
LEMMA IndexTypeStep ==
    VersionTypeOK /\ IndexTypeOK /\ [CatalogNext]_catalogVars => IndexTypeOK'
<1> SUFFICES ASSUME VersionTypeOK, IndexTypeOK, [CatalogNext]_catalogVars
             PROVE  IndexTypeOK'
  OBVIOUS
<1> USE BoundsAssumption, TimesAssumption
<1>v. \A v \in 1..versionSeq : v \in VersionId
  BY DEF VersionTypeOK, VersionId
<1>1. ASSUME NEW v \in 1..versionSeq, NEW d \in BOOLEAN, NEW t \in Times,
             AddVectorIndex(v, d, t)
      PROVE  IndexTypeOK'
  <2> DEFINE old == IF d THEN Cleared(index, IndexesOf(v)) ELSE index
             row == [version |-> v, created |-> t, dflt |-> d]
  <2>1. old \in [DOMAIN index -> IndexRow]
    BY ClearedIndexes DEF IndexTypeOK
  <2>2. index' = Put(old, indexSeq + 1, row)
    BY <1>1 DEF AddVectorIndex
  <2>3. row \in IndexRow
    BY <1>v DEF IndexRow
  <2>4. /\ DOMAIN index' = DOMAIN index \cup {indexSeq + 1}
        /\ index' \in [DOMAIN index' -> IndexRow]
    <3> HIDE DEF old, row
    <3> QED  BY <2>1, <2>2, <2>3 DEF Put
  <2>5. indexSeq' = indexSeq + 1 /\ indexSeq' \in 0..MaxIndex
    BY <1>1 DEF AddVectorIndex, IndexTypeOK
  <2>6. QED  BY <2>4, <2>5 DEF IndexTypeOK
<1>2. ASSUME NEW i \in 1..indexSeq, NEW v \in 1..versionSeq, NEW d \in BOOLEAN,
             NEW t \in Times, UpdateVectorIndex(i, v, d, t)
      PROVE  IndexTypeOK'
  <2> DEFINE others == IF d THEN Cleared(index, IndexesOf(v) \ {i}) ELSE index
  <2>1. others \in [DOMAIN index -> IndexRow]
    BY ClearedIndexes DEF IndexTypeOK
  <2>2. index' = IF i \in DOMAIN index
                 THEN [others EXCEPT ![i] = [version |-> v, created |-> t, dflt |-> d]] ELSE others
    BY <1>2 DEF UpdateVectorIndex
  <2> HIDE DEF others
  <2>3. index' \in [DOMAIN index -> IndexRow]
    BY <1>v, <2>1, <2>2 DEF IndexRow
  <2>4. indexSeq' = indexSeq
    BY <1>2 DEF UpdateVectorIndex
  <2>5. QED  BY <2>3, <2>4 DEF IndexTypeOK
<1>3. ASSUME NEW i \in 1..indexSeq, DeleteVectorIndex(i) PROVE IndexTypeOK'
  <2> DEFINE group == IndexesOf(index[i].version)
  <2>1. index' \in DeletedRow(index, i, group) /\ i \in DOMAIN index
    BY <1>3 DEF DeleteVectorIndex
  <2>2. group \in SUBSET DOMAIN index
    BY DEF IndexesOf
  <2>0. index \in [DOMAIN index -> IndexRow]
    BY DEF IndexTypeOK
  <2> HIDE DEF group
  <2>3. index' \in [DOMAIN index \ {i} -> IndexRow]
    BY <2>0, <2>1, <2>2, DeletedIndex
  <2>4. QED  BY <1>3, <2>3 DEF IndexTypeOK, DeleteVectorIndex
<1>4. ASSUME NEW s \in 1..spaceSeq, DeleteSpace(s) PROVE IndexTypeOK'
  BY <1>4 DEF DeleteSpace, Drop, Restrict, IndexTypeOK
<1>5. ASSUME UNCHANGED indexTable PROVE IndexTypeOK'
  BY <1>5 DEF indexTable, IndexTypeOK
<1>6. QED
  BY <1>1, <1>2, <1>3, <1>4, <1>5
     DEF CatalogNext, catalogVars, indexTable, AddSpace, UpdateSpace,
         AddVersion, UpdateVersion, DeleteVersion

(* The types of the three tables are kept together: each depends on the     *)
(* table its rows refer to.                                                 *)
LEMMA CatalogTypeStep == CatalogTypeOK /\ [CatalogNext]_catalogVars => CatalogTypeOK'
<1> SUFFICES ASSUME CatalogTypeOK, [CatalogNext]_catalogVars PROVE CatalogTypeOK'
  OBVIOUS
<1>1. SpaceTypeOK /\ VersionTypeOK /\ IndexTypeOK
  BY TypeParts
<1>2. SpaceTypeOK' /\ VersionTypeOK' /\ IndexTypeOK'
  BY <1>1, SpaceTypeStep, VersionTypeStep, IndexTypeStep
<1>3. QED
  BY <1>2 DEF CatalogTypeOK, SpaceTypeOK, VersionTypeOK, IndexTypeOK

(* The rows keep their types and no row has an id above the AUTOINCREMENT   *)
(* counter of its table, in every behaviour of the managers.                *)
THEOREM CatalogTypeCorrect == CatalogSpec => []CatalogTypeOK
<1>1. CatalogInit => CatalogTypeOK
  BY BoundsAssumption DEF CatalogInit, CatalogTypeOK, Empty
<1>2. QED  BY <1>1, CatalogTypeStep, PTL DEF CatalogSpec

----------------------------------------------------------------------------
(* What each action does to the rows of Version, column by column. *)

VersionAdded(s, d) ==
    /\ versionSeq + 1 \notin DOMAIN version
    /\ DOMAIN version' = DOMAIN version \cup {versionSeq + 1}
    /\ \A x \in DOMAIN version :
         /\ version'[x].space = version[x].space
         /\ version'[x].uid = version[x].uid
         /\ version'[x].dflt <=> version[x].dflt /\ ~(d /\ version[x].space = s)
    /\ version'[versionSeq + 1].space = s
    /\ IsNextUid(s, version'[versionSeq + 1].uid)
    /\ version'[versionSeq + 1].dflt <=> d \/ DefaultVersions(s) = {}

(* addVersion: one new row, the others at most lose the flag. *)
LEMMA AddVersionRows ==
    ASSUME VersionTypeOK, NEW s, NEW d \in BOOLEAN, NEW t, AddVersion(s, d, t)
    PROVE  VersionAdded(s, d)
<1> DEFINE old == IF d THEN Cleared(version, VersionsOf(s)) ELSE version
           picked == d \/ DefaultVersions(s) = {}
<1>1. PICK u \in VersionId :
        /\ IsNextUid(s, u)
        /\ version' = Put(old, versionSeq + 1,
                          [space |-> s, uid |-> u, created |-> t, dflt |-> picked])
  BY DEF AddVersion
<1> DEFINE new == [space |-> s, uid |-> u, created |-> t, dflt |-> picked]
<1>2. versionSeq + 1 \notin DOMAIN version
  BY DEF VersionTypeOK
<1>3. /\ DOMAIN old = DOMAIN version
      /\ \A x \in DOMAIN version :
           /\ old[x].space = version[x].space
           /\ old[x].uid = version[x].uid
           /\ old[x].dflt <=> version[x].dflt /\ ~(d /\ version[x].space = s)
  BY ClearedVersions DEF VersionTypeOK, VersionsOf
<1>4. new.space = s /\ new.uid = u /\ new.dflt = picked
  OBVIOUS
<1> HIDE DEF old, new, picked
<1>5. /\ DOMAIN version' = DOMAIN version \cup {versionSeq + 1}
      /\ version'[versionSeq + 1] = new
      /\ \A x \in DOMAIN version : version'[x] = old[x]
  <2>1. version' = Put(old, versionSeq + 1, new)
    BY <1>1 DEF new
  <2>2. QED  BY <1>2, <1>3, <2>1 DEF Put
<1>6. IsNextUid(s, version'[versionSeq + 1].uid)
  BY <1>1, <1>4, <1>5
<1>7. version'[versionSeq + 1].dflt <=> d \/ DefaultVersions(s) = {}
  BY <1>4, <1>5 DEF picked
<1>8. QED  BY <1>2, <1>3, <1>4, <1>5, <1>6, <1>7 DEF VersionAdded

VersionUpdated(v, s, d) ==
    /\ DOMAIN version' = DOMAIN version
    /\ v \in DOMAIN version => version[v].space = s /\ version'[v].dflt = d
    /\ \A x \in DOMAIN version :
         /\ version'[x].space = version[x].space
         /\ version'[x].uid = version[x].uid
         /\ x # v => (version'[x].dflt <=> version[x].dflt /\ ~(d /\ version[x].space = s))

(* updateVersion: no row comes or goes, only flags change. *)
LEMMA UpdateVersionRows ==
    ASSUME VersionTypeOK, NEW v, NEW s, NEW d \in BOOLEAN, NEW t, UpdateVersion(v, s, d, t)
    PROVE  VersionUpdated(v, s, d)
<1> DEFINE others == IF d THEN Cleared(version, VersionsOf(s) \ {v}) ELSE version
<1>1. version' = IF v \in DOMAIN version THEN [others EXCEPT ![v].created = t, ![v].dflt = d] ELSE others
  BY DEF UpdateVersion
<1>2. /\ others \in [DOMAIN version -> VersionRow]
      /\ \A x \in DOMAIN version :
           /\ others[x].space = version[x].space
           /\ others[x].uid = version[x].uid
           /\ x # v => (others[x].dflt <=> version[x].dflt /\ ~(d /\ version[x].space = s))
  BY ClearedVersions DEF VersionTypeOK, VersionsOf
<1>3. v \in DOMAIN version => version[v].space = s
  BY DEF UpdateVersion
<1> HIDE DEF others
<1>4. QED  BY <1>1, <1>2, <1>3 DEF VersionRow, VersionUpdated

VersionDeleted(v) ==
    /\ v \in DOMAIN version
    /\ DOMAIN version' = DOMAIN version \ {v}
    /\ \A x \in DOMAIN version' :
         /\ version'[x].space = version[x].space
         /\ version'[x].uid = version[x].uid
    /\ \/ \A x \in DOMAIN version' : (version'[x].dflt <=> version[x].dflt)
       \/ /\ version[v].dflt
          /\ \E h \in DOMAIN version' :
               /\ version[h].space = version[v].space
               /\ \A x \in DOMAIN version' :
                    (version'[x].dflt <=> version[x].dflt \/ x = h)

(* deleteVersion: one row goes, at most one heir gains the flag. *)
LEMMA DeleteVersionRows ==
    ASSUME VersionTypeOK, NEW v, DeleteVersion(v)
    PROVE  VersionDeleted(v)
<1> DEFINE group == VersionsOf(version[v].space)
<1>1. v \in DOMAIN version /\ version' \in DeletedRow(version, v, group)
  BY DEF DeleteVersion
<1>2. version \in [DOMAIN version -> VersionRow]
  BY DEF VersionTypeOK
<1>3. /\ group \in SUBSET DOMAIN version
      /\ \A h \in group : version[h].space = version[v].space
  BY DEF VersionsOf
<1> HIDE DEF group
<1>4. /\ version' \in [DOMAIN version \ {v} -> VersionRow]
      /\ \A y \in DOMAIN version \ {v} :
           /\ version'[y].space = version[y].space
           /\ version'[y].uid = version[y].uid
      /\ HandedOn(version, version', v, group)
  BY <1>1, <1>2, <1>3, DeletedVersion
<1>5. DOMAIN version' = DOMAIN version \ {v}
  BY <1>4
<1>6. QED  BY <1>1, <1>3, <1>4, <1>5 DEF HandedOn, VersionDeleted

SpaceDeleted(s) ==
    /\ DOMAIN version' = DOMAIN version \ VersionsOf(s)
    /\ DOMAIN index' \subseteq DOMAIN index
    /\ \A x \in DOMAIN version' : version'[x] = version[x]
    /\ \A i \in DOMAIN index' : index'[i] = index[i]

(* deleteSpace: rows go, the rest is unchanged. *)
LEMMA DeleteSpaceRows ==
    ASSUME NEW s, DeleteSpace(s)
    PROVE  SpaceDeleted(s)
<1>1. /\ version' = Drop(version, VersionsOf(s))
      /\ index' = Drop(index, UNION {IndexesOf(v) : v \in VersionsOf(s)})
  BY DEF DeleteSpace
<1>2. QED  BY <1>1 DEF Drop, Restrict, IndexesOf, VersionsOf, SpaceDeleted
----------------------------------------------------------------------------
(* At most one default version. *)

(* No call gives a space a second default version. *)
LEMMA OneDefaultVersionStep ==
    VersionTypeOK /\ OneDefaultVersion /\ [CatalogNext]_catalogVars => OneDefaultVersion'
<1> SUFFICES ASSUME VersionTypeOK, OneDefaultVersion, [CatalogNext]_catalogVars,
                    NEW v \in DOMAIN version', NEW w \in DOMAIN version',
                    version'[v].space = version'[w].space,
                    version'[v].dflt, version'[w].dflt
             PROVE  v = w
  BY DEF OneDefaultVersion
<1>1. ASSUME NEW s \in 1..spaceSeq, NEW d \in BOOLEAN, NEW t \in Times, AddVersion(s, d, t)
      PROVE  v = w
  (* A default row that was there keeps the flag only if the new row is in  *)
  (* another space or is not a default.                                     *)
  <2> DEFINE new == versionSeq + 1
  <2>0. VersionAdded(s, d)  BY <1>1, AddVersionRows
  <2>1. \A x \in DOMAIN version : version'[x].dflt /\ version'[new].dflt
                                  => version'[x].space # s
    <3> SUFFICES ASSUME NEW x \in DOMAIN version, version'[x].dflt, version'[new].dflt,
                        version'[x].space = s
                 PROVE  FALSE
      OBVIOUS
    <3>1. version[x].dflt /\ version[x].space = s /\ ~d
      BY <2>0 DEF VersionAdded
    <3>2. x \in DefaultVersions(s)
      BY <3>1 DEF DefaultVersions, VersionsOf
    <3>3. QED  BY <2>0, <3>1, <3>2 DEF VersionAdded
  <2>2. CASE v = new \/ w = new
    BY <2>0, <2>1, <2>2 DEF VersionAdded
  <2>3. CASE v # new /\ w # new
    BY <2>0, <2>3 DEF OneDefaultVersion, VersionAdded
  <2>4. QED  BY <2>2, <2>3
<1>2. ASSUME NEW u \in 1..versionSeq, NEW s \in 1..spaceSeq, NEW d \in BOOLEAN,
             NEW t \in Times, UpdateVersion(u, s, d, t)
      PROVE  v = w
  <2>1. VersionUpdated(u, s, d)  BY <1>2, UpdateVersionRows
  <2>2. QED  BY <2>1 DEF OneDefaultVersion, VersionUpdated
<1>3. ASSUME NEW u \in 1..versionSeq, DeleteVersion(u) PROVE v = w
  <2>1. VersionDeleted(u)  BY <1>3, DeleteVersionRows
  <2>2. CASE \A x \in DOMAIN version' : (version'[x].dflt <=> version[x].dflt)
    BY <2>1, <2>2 DEF OneDefaultVersion, VersionDeleted
  <2>3. ASSUME version[u].dflt,
               NEW h \in DOMAIN version',
               version[h].space = version[u].space,
               \A x \in DOMAIN version' : (version'[x].dflt <=> version[x].dflt \/ x = h)
        PROVE  v = w
    (* u was the default of its space, so h is now the only one. *)
    <3>1. \A x \in DOMAIN version' : version'[x].dflt /\ version[x].space = version[u].space
                                   => x = h
      BY <2>1, <2>3 DEF OneDefaultVersion, VersionDeleted
    <3>2. CASE v = h \/ w = h
      BY <2>1, <2>3, <3>1, <3>2 DEF VersionDeleted
    <3>3. CASE v # h /\ w # h
      BY <2>1, <2>3, <3>3 DEF VersionDeleted, OneDefaultVersion
    <3>4. QED  BY <3>2, <3>3
  <2>4. QED  BY <2>1, <2>2, <2>3 DEF VersionDeleted
<1>4. ASSUME NEW s \in 1..spaceSeq, DeleteSpace(s) PROVE v = w
  <2>1. SpaceDeleted(s)  BY <1>4, DeleteSpaceRows
  <2>2. QED  BY <2>1 DEF OneDefaultVersion, SpaceDeleted
<1>5. ASSUME UNCHANGED version PROVE v = w
  BY <1>5 DEF OneDefaultVersion
<1>6. QED
  BY <1>1, <1>2, <1>3, <1>4, <1>5
     DEF CatalogNext, catalogVars, versionTable, AddSpace, UpdateSpace,
         AddVectorIndex, UpdateVectorIndex, DeleteVectorIndex

(* No sequence of manager calls gives a space two default versions. *)
THEOREM OneDefaultVersionCorrect == CatalogSpec => []OneDefaultVersion
<1>1. CatalogInit => OneDefaultVersion
  BY DEF CatalogInit, OneDefaultVersion, Empty
<1>2. CatalogTypeOK => VersionTypeOK
  BY TypeParts
<1>3. QED
  BY <1>1, <1>2, OneDefaultVersionStep, CatalogTypeCorrect, PTL DEF CatalogSpec

----------------------------------------------------------------------------
(* A unique_id names one version of its space. *)

(* No call gives two versions of a space one unique_id. *)
LEMMA UidStep ==
    VersionTypeOK /\ UidNamesOneVersion /\ [CatalogNext]_catalogVars => UidNamesOneVersion'
<1> SUFFICES ASSUME VersionTypeOK, UidNamesOneVersion, [CatalogNext]_catalogVars,
                    NEW v \in DOMAIN version', NEW w \in DOMAIN version',
                    version'[v].space = version'[w].space,
                    version'[v].uid = version'[w].uid
             PROVE  v = w
  BY DEF UidNamesOneVersion
<1>1. ASSUME NEW s \in 1..spaceSeq, NEW d \in BOOLEAN, NEW t \in Times, AddVersion(s, d, t)
      PROVE  v = w
  (* The new row's number is above those of all the rows of its space. *)
  <2> DEFINE new == versionSeq + 1
  <2>0. VersionAdded(s, d)  BY <1>1, AddVersionRows
  <2>1. \A x \in DOMAIN version : version[x].space = s => version[x].uid # version'[new].uid
    <3> SUFFICES ASSUME NEW x \in DOMAIN version, version[x].space = s
                 PROVE  version[x].uid # version'[new].uid
      OBVIOUS
    <3>1. version[x].uid \in Nat
      BY DEF VersionTypeOK, VersionRow, VersionId
    <3>2. version[x].uid < version'[new].uid
      <4>1. IsNextUid(s, version'[new].uid)
        BY <2>0 DEF VersionAdded
      <4>2. x \in VersionsOf(s)
        BY DEF VersionsOf
      <4>3. QED  BY <4>1, <4>2 DEF IsNextUid
    <3>3. QED  BY <3>1, <3>2
  <2>2. CASE v = new \/ w = new
    BY <2>0, <2>1, <2>2 DEF VersionAdded
  <2>3. CASE v # new /\ w # new
    BY <2>0, <2>3 DEF UidNamesOneVersion, VersionAdded
  <2>4. QED  BY <2>2, <2>3
<1>2. ASSUME NEW u \in 1..versionSeq, NEW s \in 1..spaceSeq, NEW d \in BOOLEAN,
             NEW t \in Times, UpdateVersion(u, s, d, t)
      PROVE  v = w
  <2>1. VersionUpdated(u, s, d)  BY <1>2, UpdateVersionRows
  <2>2. QED  BY <2>1 DEF UidNamesOneVersion, VersionUpdated
<1>3. ASSUME NEW u \in 1..versionSeq, DeleteVersion(u) PROVE v = w
  <2>1. VersionDeleted(u)  BY <1>3, DeleteVersionRows
  <2>2. QED  BY <2>1 DEF UidNamesOneVersion, VersionDeleted
<1>4. ASSUME NEW s \in 1..spaceSeq, DeleteSpace(s) PROVE v = w
  <2>1. SpaceDeleted(s)  BY <1>4, DeleteSpaceRows
  <2>2. QED  BY <2>1 DEF UidNamesOneVersion, SpaceDeleted
<1>5. ASSUME UNCHANGED version PROVE v = w
  BY <1>5 DEF UidNamesOneVersion
<1>6. QED
  BY <1>1, <1>2, <1>3, <1>4, <1>5
     DEF CatalogNext, catalogVars, versionTable, AddSpace, UpdateSpace,
         AddVectorIndex, UpdateVectorIndex, DeleteVectorIndex

(* MAX(unique_id) + 1 never collides with a version that exists. *)
THEOREM UidCorrect == CatalogSpec => []UidNamesOneVersion
<1>1. CatalogInit => UidNamesOneVersion
  BY DEF CatalogInit, UidNamesOneVersion, Empty
<1>2. CatalogTypeOK => VersionTypeOK
  BY TypeParts
<1>3. QED
  BY <1>1, <1>2, UidStep, CatalogTypeCorrect, PTL DEF CatalogSpec
----------------------------------------------------------------------------
(* At most one default index.  What each action does to the rows of         *)
(* VectorIndex, column by column.                                           *)

IndexAdded(v, d) ==
    /\ indexSeq + 1 \notin DOMAIN index
    /\ DOMAIN index' = DOMAIN index \cup {indexSeq + 1}
    /\ \A x \in DOMAIN index :
         /\ index'[x].version = index[x].version
         /\ index'[x].dflt <=> index[x].dflt /\ ~(d /\ index[x].version = v)
    /\ index'[indexSeq + 1].version = v
    /\ index'[indexSeq + 1].dflt = d

(* addVectorIndex: one new row, the others at most lose the flag. *)
LEMMA AddVectorIndexRows ==
    ASSUME IndexTypeOK, NEW v, NEW d \in BOOLEAN, NEW t, AddVectorIndex(v, d, t)
    PROVE  IndexAdded(v, d)
<1> DEFINE old == IF d THEN Cleared(index, IndexesOf(v)) ELSE index
           new == [version |-> v, created |-> t, dflt |-> d]
<1>1. index' = Put(old, indexSeq + 1, new)
  BY DEF AddVectorIndex
<1>2. indexSeq + 1 \notin DOMAIN index
  BY DEF IndexTypeOK
<1>3. /\ DOMAIN old = DOMAIN index
      /\ \A x \in DOMAIN index :
           /\ old[x].version = index[x].version
           /\ old[x].dflt <=> index[x].dflt /\ ~(d /\ index[x].version = v)
  BY ClearedIndexes DEF IndexTypeOK, IndexesOf
<1>4. new.version = v /\ new.dflt = d
  OBVIOUS
<1> HIDE DEF old, new
<1>5. /\ DOMAIN index' = DOMAIN index \cup {indexSeq + 1}
      /\ index'[indexSeq + 1] = new
      /\ \A x \in DOMAIN index : index'[x] = old[x]
  BY <1>1, <1>2, <1>3 DEF Put
<1>6. QED  BY <1>2, <1>3, <1>4, <1>5 DEF IndexAdded

IndexUpdated(i, v, d) ==
    /\ DOMAIN index' = DOMAIN index
    /\ i \in DOMAIN index => index'[i].version = v /\ index'[i].dflt = d
    /\ \A x \in DOMAIN index \ {i} :
         /\ index'[x].version = index[x].version
         /\ index'[x].dflt <=> index[x].dflt /\ ~(d /\ index[x].version = v)

(* updateVectorIndex: one row may move, the others at most lose the flag. *)
LEMMA UpdateVectorIndexRows ==
    ASSUME IndexTypeOK, NEW i, NEW v, NEW d \in BOOLEAN, NEW t, UpdateVectorIndex(i, v, d, t)
    PROVE  IndexUpdated(i, v, d)
<1> DEFINE others == IF d THEN Cleared(index, IndexesOf(v) \ {i}) ELSE index
<1>1. index' = IF i \in DOMAIN index
               THEN [others EXCEPT ![i] = [version |-> v, created |-> t, dflt |-> d]] ELSE others
  BY DEF UpdateVectorIndex
<1>2. /\ others \in [DOMAIN index -> IndexRow]
      /\ \A x \in DOMAIN index \ {i} :
           /\ others[x].version = index[x].version
           /\ others[x].dflt <=> index[x].dflt /\ ~(d /\ index[x].version = v)
  BY ClearedIndexes DEF IndexTypeOK, IndexesOf
<1> HIDE DEF others
<1>3. QED  BY <1>1, <1>2 DEF IndexRow, IndexUpdated

IndexDeleted(i) ==
    /\ i \in DOMAIN index
    /\ DOMAIN index' = DOMAIN index \ {i}
    /\ \A x \in DOMAIN index' : index'[x].version = index[x].version
    /\ \/ \A x \in DOMAIN index' : (index'[x].dflt <=> index[x].dflt)
       \/ /\ index[i].dflt
          /\ \E h \in DOMAIN index' :
               /\ index[h].version = index[i].version
               /\ \A x \in DOMAIN index' : (index'[x].dflt <=> index[x].dflt \/ x = h)

(* deleteVectorIndex: one row goes, at most one heir gains the flag. *)
LEMMA DeleteVectorIndexRows ==
    ASSUME IndexTypeOK, NEW i, DeleteVectorIndex(i)
    PROVE  IndexDeleted(i)
<1> DEFINE group == IndexesOf(index[i].version)
<1>1. i \in DOMAIN index /\ index' \in DeletedRow(index, i, group)
  BY DEF DeleteVectorIndex
<1>2. index \in [DOMAIN index -> IndexRow]
  BY DEF IndexTypeOK
<1>3. /\ group \in SUBSET DOMAIN index
      /\ \A h \in group : index[h].version = index[i].version
  BY DEF IndexesOf
<1> HIDE DEF group
<1>4. /\ index' \in [DOMAIN index \ {i} -> IndexRow]
      /\ \A y \in DOMAIN index \ {i} : index'[y].version = index[y].version
      /\ HandedOn(index, index', i, group)
  BY <1>1, <1>2, <1>3, DeletedIndex
<1>5. DOMAIN index' = DOMAIN index \ {i}
  BY <1>4
<1>6. QED  BY <1>1, <1>3, <1>4, <1>5 DEF HandedOn, IndexDeleted

(* No call gives a version a second default index. *)
LEMMA OneDefaultIndexStep ==
    IndexTypeOK /\ OneDefaultIndex /\ [CatalogNext]_catalogVars => OneDefaultIndex'
<1> SUFFICES ASSUME IndexTypeOK, OneDefaultIndex, [CatalogNext]_catalogVars,
                    NEW i \in DOMAIN index', NEW j \in DOMAIN index',
                    index'[i].version = index'[j].version,
                    index'[i].dflt, index'[j].dflt
             PROVE  i = j
  BY DEF OneDefaultIndex
<1>1. ASSUME NEW v \in 1..versionSeq, NEW d \in BOOLEAN, NEW t \in Times, AddVectorIndex(v, d, t)
      PROVE  i = j
  <2>1. IndexAdded(v, d)  BY <1>1, AddVectorIndexRows
  <2>2. QED  BY <2>1 DEF OneDefaultIndex, IndexAdded
<1>2. ASSUME NEW k \in 1..indexSeq, NEW v \in 1..versionSeq, NEW d \in BOOLEAN,
             NEW t \in Times, UpdateVectorIndex(k, v, d, t)
      PROVE  i = j
  (* As a default, the moved row has taken the flag from its new siblings. *)
  <2>1. IndexUpdated(k, v, d)  BY <1>2, UpdateVectorIndexRows
  <2>2. CASE i = k \/ j = k
    BY <2>1, <2>2 DEF IndexUpdated
  <2>3. CASE i # k /\ j # k
    BY <2>1, <2>3 DEF OneDefaultIndex, IndexUpdated
  <2>4. QED  BY <2>2, <2>3
<1>3. ASSUME NEW k \in 1..indexSeq, DeleteVectorIndex(k) PROVE i = j
  <2>1. IndexDeleted(k)  BY <1>3, DeleteVectorIndexRows
  <2>2. CASE \A x \in DOMAIN index' : (index'[x].dflt <=> index[x].dflt)
    BY <2>1, <2>2 DEF OneDefaultIndex, IndexDeleted
  <2>3. ASSUME index[k].dflt,
               NEW h \in DOMAIN index',
               index[h].version = index[k].version,
               \A x \in DOMAIN index' : (index'[x].dflt <=> index[x].dflt \/ x = h)
        PROVE  i = j
    (* k was the default of its version, so h is now the only one. *)
    <3>1. \A x \in DOMAIN index' : index'[x].dflt /\ index[x].version = index[k].version
                                 => x = h
      BY <2>1, <2>3 DEF OneDefaultIndex, IndexDeleted
    <3>2. CASE i = h \/ j = h
      BY <2>1, <2>3, <3>1, <3>2 DEF IndexDeleted
    <3>3. CASE i # h /\ j # h
      BY <2>1, <2>3, <3>3 DEF IndexDeleted, OneDefaultIndex
    <3>4. QED  BY <3>2, <3>3
  <2>4. QED  BY <2>1, <2>2, <2>3 DEF IndexDeleted
<1>4. ASSUME NEW s \in 1..spaceSeq, DeleteSpace(s) PROVE i = j
  <2>1. SpaceDeleted(s)  BY <1>4, DeleteSpaceRows
  <2>2. QED  BY <2>1 DEF OneDefaultIndex, SpaceDeleted
<1>5. ASSUME UNCHANGED index PROVE i = j
  BY <1>5 DEF OneDefaultIndex
<1>6. QED
  BY <1>1, <1>2, <1>3, <1>4, <1>5
     DEF CatalogNext, catalogVars, indexTable, AddSpace, UpdateSpace,
         AddVersion, UpdateVersion, DeleteVersion

(* No sequence of manager calls gives a version two default indexes. *)
THEOREM OneDefaultIndexCorrect == CatalogSpec => []OneDefaultIndex
<1>1. CatalogInit => OneDefaultIndex
  BY DEF CatalogInit, OneDefaultIndex, Empty
<1>2. CatalogTypeOK => IndexTypeOK
  BY TypeParts
<1>3. QED
  BY <1>1, <1>2, OneDefaultIndexStep, CatalogTypeCorrect, PTL DEF CatalogSpec

----------------------------------------------------------------------------
(* What no step does. *)

DeadStayDead ==
    /\ \A s \in 1..spaceSeq : s \in DOMAIN space' => s \in DOMAIN space
    /\ \A v \in 1..versionSeq : v \in DOMAIN version' => v \in DOMAIN version
    /\ \A i \in 1..indexSeq : i \in DOMAIN index' => i \in DOMAIN index

(* No call inserts a row under an id that was issued before. *)
LEMMA DeadIdsStep == CatalogTypeOK /\ [CatalogNext]_catalogVars => DeadStayDead
<1> SUFFICES ASSUME CatalogTypeOK, [CatalogNext]_catalogVars PROVE DeadStayDead
  OBVIOUS
<1>t. SpaceTypeOK /\ VersionTypeOK /\ IndexTypeOK
  BY TypeParts
<1>0. /\ spaceSeq \in Nat /\ versionSeq \in Nat /\ indexSeq \in Nat
      /\ spaceSeq + 1 \notin 1..spaceSeq
      /\ versionSeq + 1 \notin 1..versionSeq
      /\ indexSeq + 1 \notin 1..indexSeq
  BY <1>t DEF SpaceTypeOK, VersionTypeOK, IndexTypeOK
<1>1. ASSUME NEW n \in Names, AddSpace(n) PROVE DeadStayDead
  BY <1>0, <1>1 DEF AddSpace, DeadStayDead, versionTable, indexTable, Put
<1>2. ASSUME NEW s, NEW n, UpdateSpace(s, n) PROVE DeadStayDead
  BY <1>2 DEF UpdateSpace, DeadStayDead, versionTable, indexTable
<1>3. ASSUME NEW s, DeleteSpace(s) PROVE DeadStayDead
  <2>1. SpaceDeleted(s)  BY <1>3, DeleteSpaceRows
  <2>2. DOMAIN space' \subseteq DOMAIN space
    BY <1>3 DEF DeleteSpace, Drop, Restrict
  <2>3. QED  BY <2>1, <2>2 DEF SpaceDeleted, DeadStayDead
<1>4. ASSUME NEW s, NEW d \in BOOLEAN, NEW t, AddVersion(s, d, t) PROVE DeadStayDead
  <2>1. VersionAdded(s, d)  BY <1>t, <1>4, AddVersionRows
  <2>2. QED  BY <1>0, <1>4, <2>1 DEF VersionAdded, AddVersion, DeadStayDead, spaceTable, indexTable
<1>5. ASSUME NEW v, NEW s, NEW d \in BOOLEAN, NEW t, UpdateVersion(v, s, d, t) PROVE DeadStayDead
  <2>1. VersionUpdated(v, s, d)  BY <1>t, <1>5, UpdateVersionRows
  <2>2. QED  BY <1>5, <2>1 DEF VersionUpdated, UpdateVersion, DeadStayDead, spaceTable, indexTable
<1>6. ASSUME NEW v, DeleteVersion(v) PROVE DeadStayDead
  <2>1. VersionDeleted(v)  BY <1>t, <1>6, DeleteVersionRows
  <2>2. QED  BY <1>6, <2>1 DEF VersionDeleted, DeleteVersion, DeadStayDead, spaceTable, indexTable
<1>7. ASSUME NEW v, NEW d \in BOOLEAN, NEW t, AddVectorIndex(v, d, t) PROVE DeadStayDead
  <2>1. IndexAdded(v, d)  BY <1>t, <1>7, AddVectorIndexRows
  <2>2. QED  BY <1>0, <1>7, <2>1 DEF IndexAdded, AddVectorIndex, DeadStayDead, spaceTable, versionTable
<1>8. ASSUME NEW i, NEW v, NEW d \in BOOLEAN, NEW t, UpdateVectorIndex(i, v, d, t) PROVE DeadStayDead
  <2>1. IndexUpdated(i, v, d)  BY <1>t, <1>8, UpdateVectorIndexRows
  <2>2. QED  BY <1>8, <2>1 DEF IndexUpdated, UpdateVectorIndex, DeadStayDead, spaceTable, versionTable
<1>9. ASSUME NEW i, DeleteVectorIndex(i) PROVE DeadStayDead
  <2>1. IndexDeleted(i)  BY <1>t, <1>9, DeleteVectorIndexRows
  <2>2. QED  BY <1>9, <2>1 DEF IndexDeleted, DeleteVectorIndex, DeadStayDead, spaceTable, versionTable
<1>10. ASSUME UNCHANGED catalogVars PROVE DeadStayDead
  BY <1>10 DEF catalogVars, DeadStayDead
<1>11. QED
  BY <1>1, <1>2, <1>3, <1>4, <1>5, <1>6, <1>7, <1>8, <1>9, <1>10 DEF CatalogNext

(* An id of a deleted row never names a row again: not of Space, Version or *)
(* VectorIndex.                                                             *)
THEOREM DeadIdsCorrect == CatalogSpec => DeadIdsStayDead
<1>1. CatalogTypeOK /\ [CatalogNext]_catalogVars
        => [/\ \A s \in 1..spaceSeq : s \in DOMAIN space' => s \in DOMAIN space
            /\ \A v \in 1..versionSeq : v \in DOMAIN version' => v \in DOMAIN version
            /\ \A i \in 1..indexSeq : i \in DOMAIN index' => i \in DOMAIN index]_catalogVars
  BY DeadIdsStep DEF DeadStayDead
<1>2. QED  BY <1>1, CatalogTypeCorrect, PTL DEF CatalogSpec, DeadIdsStayDead

(* A set of natural numbers has a least element. *)
LEMMA LeastNatural ==
    ASSUME NEW T \in SUBSET Nat, T # {}
    PROVE  \E m \in T : \A k \in T : m <= k
<1> DEFINE less == OpToRel(<, Nat)
<1>1. \E m \in T : \A k \in T : <<k, m>> \notin less
  <2>1. IsWellFoundedOn(less, Nat)
    BY NatLessThanWellFounded
  <2> HIDE DEF less
  <2>2. QED  BY <2>1, WFMin, Zenon
<1>2. \A k, m \in Nat : <<k, m>> \in less <=> k < m
  BY DEF OpToRel
<1> HIDE DEF less
<1>3. PICK m \in T : \A k \in T : <<k, m>> \notin less
  BY <1>1
<1>4. \A k \in T : m <= k
  <2> SUFFICES ASSUME NEW k \in T PROVE m <= k
    OBVIOUS
  <2>1. k \in Nat /\ m \in Nat
    OBVIOUS
  <2>2. ~(k < m)
    BY <1>2, <1>3, <2>1
  <2>3. QED  BY <2>1, <2>2
<1>5. QED  BY <1>4

(* ORDER BY created DESC LIMIT 1 finds a row of any group that has one: in  *)
(* a least counterexample n, row n or the heir of the others is the answer. *)
LEMMA HeirExists ==
    ASSUME NEW table, NEW N \in Nat, DOMAIN table \subseteq 1..N,
           \A x \in DOMAIN table : table[x].created \in Nat,
           NEW S \in SUBSET DOMAIN table, S # {}
    PROVE  MostRecent(table, S) # {}
<1> DEFINE Headless(T) == T # {} /\ \A x \in T : \E y \in T : table[y].created > table[x].created
           Bad == {n \in 0..N : \E T \in SUBSET (DOMAIN table \cap 1..n) : Headless(T)}
<1>1. Bad = {}
  <2> SUFFICES ASSUME Bad # {} PROVE FALSE
    OBVIOUS
  <2>1. PICK n \in Bad : \A k \in Bad : n <= k
    <3>1. Bad \in SUBSET Nat
      OBVIOUS
    <3> HIDE DEF Bad
    <3>2. QED  BY <3>1, LeastNatural
  <2>2. PICK T \in SUBSET (DOMAIN table \cap 1..n) : Headless(T)
    OBVIOUS
  <2>3. n \in 1..N
    BY <2>2
  <2>4. n - 1 \in 0..N /\ n - 1 \notin Bad
    BY <2>1, <2>3
  <2>5. \A U \in SUBSET (DOMAIN table \cap 1..(n-1)) : ~Headless(U)
    BY <2>4
  <2> DEFINE U == T \ {n}
  <2>6. U \in SUBSET (DOMAIN table \cap 1..(n-1))
    <3>1. \A y \in 1..n : y # n => y \in 1..(n-1)
      BY <2>3
    <3>2. QED  BY <3>1
  <2>7. ~Headless(U)
    BY <2>5, <2>6
  <2>8. CASE U = {}
    <3>1. T = {n}
      BY <2>2, <2>8
    <3>2. QED  BY <2>2, <3>1
  <2>9. CASE U # {}
    <3>1. PICK h \in U : \A y \in U : ~(table[y].created > table[h].created)
      BY <2>7, <2>9
    <3>2. h \in DOMAIN table /\ h \in T
      BY <2>6
    <3>3. n \in T /\ table[n].created > table[h].created
      BY <2>2, <3>1, <3>2
    <3>4. n \in DOMAIN table
      BY <3>3
    <3>5. PICK y \in T : table[y].created > table[n].created
      BY <2>2, <3>3
    <3>6. y \in DOMAIN table
      BY <3>5
    <3>7. y # n
      BY <3>4, <3>5
    <3>8. ~(table[y].created > table[h].created)
      BY <3>1, <3>5, <3>7
    <3>9. QED  BY <3>2, <3>3, <3>4, <3>5, <3>6, <3>8
  <2>10. QED  BY <2>8, <2>9
<1>2. ~Headless(S)
  <2>1. S \in SUBSET (DOMAIN table \cap 1..N) /\ N \in 0..N
    OBVIOUS
  <2>2. QED  BY <1>1, <2>1
<1>3. PICK h \in S : \A y \in S : ~(table[y].created > table[h].created)
  BY <1>2
<1>4. \A y \in S : table[y].created <= table[h].created
  BY <1>3
<1>5. QED  BY <1>4 DEF MostRecent

(* Deleting a default row leaves a default in a group that has other rows. *)
LEMMA HeirFound ==
    ASSUME VersionTypeOK, NEW x \in DOMAIN version, version[x].dflt,
           NEW s, s = version[x].space,
           VersionsOf(s) \ {x} # {},
           version' \in DeletedRow(version, x, VersionsOf(s))
    PROVE  \E y \in DOMAIN version' : version'[y].space = s /\ version'[y].dflt
<1> DEFINE heirs == MostRecent(version, VersionsOf(s) \ {x})
           left == Drop(version, {x})
<1>1. version \in [DOMAIN version -> VersionRow] /\ versionSeq \in Nat
  BY BoundsAssumption DEF VersionTypeOK
<1>2. \A y \in DOMAIN version : version[y].created \in Nat
  BY <1>1, TimesAssumption DEF VersionRow
<1>3. heirs # {}
  <2>1. VersionsOf(s) \ {x} \in SUBSET DOMAIN version
    BY DEF VersionsOf
  <2>2. DOMAIN version \subseteq 1..versionSeq
    BY DEF VersionTypeOK
  <2>3. QED  BY <1>1, <1>2, <2>1, <2>2, HeirExists
<1>4. heirs \subseteq VersionsOf(s) \ {x}
  BY DEF MostRecent
<1>5. PICK h \in heirs : version' = [left EXCEPT ![h].dflt = TRUE]
  BY <1>3 DEF DeletedRow
<1> HIDE DEF heirs
<1>6. h \in DOMAIN version \ {x} /\ version[h].space = s
  BY <1>4, <1>5 DEF VersionsOf
<1>7. /\ left \in [DOMAIN version \ {x} -> VersionRow]
      /\ left[h] = version[h]
  BY <1>1, <1>6, DropDef DEF Drop, Restrict
<1> HIDE DEF left
<1>8. h \in DOMAIN version' /\ version'[h].space = s /\ version'[h].dflt
  BY <1>5, <1>6, <1>7 DEF VersionRow
<1>9. QED  BY <1>8

DefaultKept(s) ==
    DefaultVersions(s) # {} /\ VersionsOf(s)' # {}
    => \/ DefaultVersions(s)' # {}
       \/ \E v \in 1..versionSeq, d \in BOOLEAN, t \in Times : UpdateVersion(v, s, d, t)

(* addVersion takes the flag only for the row that gets it, deleteVersion   *)
(* finds an heir while there is one, and other spaces keep what they have.  *)
LEMMA DefaultKeptStep ==
    ASSUME CatalogTypeOK, OneDefaultVersion, [CatalogNext]_catalogVars, NEW s \in SpaceId
    PROVE  DefaultKept(s)
<1> SUFFICES ASSUME NEW x \in DefaultVersions(s), VersionsOf(s)' # {}
             PROVE  \/ \E y \in DOMAIN version' : version'[y].space = s /\ version'[y].dflt
                    \/ \E v \in 1..versionSeq, d \in BOOLEAN, t \in Times : UpdateVersion(v, s, d, t)
  BY DEF DefaultKept, DefaultVersions, VersionsOf
<1>t. SpaceTypeOK /\ VersionTypeOK /\ IndexTypeOK
  BY TypeParts
<1>x. x \in DOMAIN version /\ version[x].space = s /\ version[x].dflt
  BY DEF DefaultVersions, VersionsOf
<1> DEFINE Has == \E y \in DOMAIN version' : version'[y].space = s /\ version'[y].dflt
<1>1. ASSUME NEW z, NEW d \in BOOLEAN, NEW t, AddVersion(z, d, t) PROVE Has
  <2>1. VersionAdded(z, d)  BY <1>t, <1>1, AddVersionRows
  <2>2. CASE d /\ z = s
    BY <2>1, <2>2 DEF VersionAdded
  <2>3. CASE ~(d /\ z = s)
    BY <1>x, <2>1, <2>3 DEF VersionAdded
  <2>4. QED  BY <2>2, <2>3
<1>2. ASSUME NEW v, NEW z, NEW d \in BOOLEAN, NEW t, UpdateVersion(v, z, d, t), z # s PROVE Has
  <2>1. VersionUpdated(v, z, d)  BY <1>t, <1>2, UpdateVersionRows
  <2>2. x # v
    BY <1>x, <1>2, <2>1 DEF VersionUpdated
  <2>3. QED  BY <1>x, <1>2, <2>1, <2>2 DEF VersionUpdated
<1>3. ASSUME NEW v, DeleteVersion(v) PROVE Has
  <2>1. VersionDeleted(v)  BY <1>t, <1>3, DeleteVersionRows
  <2>2. CASE v # x
    BY <1>x, <2>1, <2>2 DEF VersionDeleted
  <2>3. CASE v = x
    <3>1. version' \in DeletedRow(version, x, VersionsOf(s))
      BY <1>3, <1>x, <2>3 DEF DeleteVersion
    <3>2. PICK y \in VersionsOf(s) \ {x} : TRUE
      BY <2>1, <2>3 DEF VersionsOf, VersionDeleted
    <3>3. QED  BY <1>t, <1>x, <3>1, <3>2, HeirFound
  <2>4. QED  BY <2>2, <2>3
<1>4. ASSUME NEW z, DeleteSpace(z) PROVE Has
  <2>1. SpaceDeleted(z)  BY <1>4, DeleteSpaceRows
  <2>2. PICK y : y \in DOMAIN version' /\ version'[y].space = s
    BY DEF VersionsOf
  <2>3. z # s
    BY <2>1, <2>2 DEF SpaceDeleted, VersionsOf
  <2>4. QED  BY <1>x, <2>1, <2>3 DEF SpaceDeleted, VersionsOf
<1>5. ASSUME UNCHANGED version PROVE Has
  BY <1>5, <1>x
<1>6. QED
  BY <1>1, <1>2, <1>3, <1>4, <1>5
     DEF CatalogNext, catalogVars, versionTable, AddSpace, UpdateSpace,
         AddVectorIndex, UpdateVectorIndex, DeleteVectorIndex

(* A space that resolves without a version number goes on doing so while it *)
(* has versions, unless updateVersion clears the flag.                      *)
THEOREM DefaultVersionKeptCorrect == CatalogSpec => DefaultVersionKept
<1>1. CatalogTypeOK /\ OneDefaultVersion /\ [CatalogNext]_catalogVars
        => [\A s \in SpaceId :
              DefaultVersions(s) # {} /\ VersionsOf(s)' # {}
              => \/ DefaultVersions(s)' # {}
                 \/ \E v \in 1..versionSeq, d \in BOOLEAN, t \in Times : UpdateVersion(v, s, d, t)]_catalogVars
  BY DefaultKeptStep DEF DefaultKept
<1>2. QED
  BY <1>1, CatalogTypeCorrect, OneDefaultVersionCorrect, PTL DEF CatalogSpec, DefaultVersionKept

----------------------------------------------------------------------------
(* The catalog implements Selection.                                        *)

(* c maps every owner that has a flagged item to that item: there is only   *)
(* one such c, and only if no owner has two.                                *)
IsChoice(c, own, flagged, owners) ==
    /\ c = [o \in DOMAIN c |-> c[o]]
    /\ DOMAIN c \subseteq owners
    /\ \A o \in DOMAIN c : c[o] \in flagged /\ own[c[o]] = o
    /\ \A i \in flagged : own[i] \in DOMAIN c /\ c[own[i]] = i

(* The flags determine the choice. *)
LEMMA ChoiceUnique ==
    ASSUME NEW c, NEW d, NEW own, NEW flagged, NEW owners,
           IsChoice(c, own, flagged, owners), IsChoice(d, own, flagged, owners)
    PROVE  c = d
<1>1. DOMAIN c = DOMAIN d
  BY DEF IsChoice
<1>2. \A o \in DOMAIN c : c[o] = d[o]
  BY DEF IsChoice
<1>3. QED
  BY <1>1, <1>2 DEF IsChoice

(* Item i takes the flag of owner o. *)
LEMMA ChoicePut ==
    ASSUME NEW c, NEW own, NEW flagged, NEW owners, NEW own2, NEW flagged2,
           IsChoice(c, own, flagged, owners),
           NEW o \in owners, NEW i, i \in flagged2, own2[i] = o,
           i \in flagged => own[i] = o,
           \A j \in flagged2 \ {i} : j \in flagged /\ own2[j] = own[j] /\ own[j] # o,
           \A j \in flagged \ {i} : own[j] # o => j \in flagged2
    PROVE  IsChoice(Put(c, o, i), own2, flagged2, owners)
<1>1. /\ DOMAIN Put(c, o, i) = DOMAIN c \cup {o}
      /\ Put(c, o, i)[o] = i
      /\ \A p \in DOMAIN c : p # o => Put(c, o, i)[p] = c[p]
      /\ Put(c, o, i) = [p \in DOMAIN Put(c, o, i) |-> Put(c, o, i)[p]]
  BY DEF Put
<1> DEFINE e == Put(c, o, i)
<1> HIDE DEF e
<1>2. ASSUME NEW p \in DOMAIN e PROVE e[p] \in flagged2 /\ own2[e[p]] = p
  BY <1>1, <1>2 DEF e, IsChoice
<1>3. ASSUME NEW j \in flagged2 PROVE own2[j] \in DOMAIN e /\ e[own2[j]] = j
  BY <1>1, <1>3 DEF e, IsChoice
<1>4. QED  BY <1>1, <1>2, <1>3 DEF e, IsChoice

(* The owners in gone lose their flags. *)
LEMMA ChoiceDrop ==
    ASSUME NEW c, NEW own, NEW flagged, NEW owners, NEW own2, NEW flagged2, NEW gone,
           IsChoice(c, own, flagged, owners),
           \A j \in flagged2 : j \in flagged /\ own2[j] = own[j] /\ own[j] \notin gone,
           \A j \in flagged : own[j] \notin gone => j \in flagged2
    PROVE  IsChoice(Drop(c, gone), own2, flagged2, owners)
<1>1. /\ DOMAIN Drop(c, gone) = DOMAIN c \ gone
      /\ \A p \in DOMAIN c \ gone : Drop(c, gone)[p] = c[p]
      /\ Drop(c, gone) = [p \in DOMAIN Drop(c, gone) |-> Drop(c, gone)[p]]
  BY DropDef
<1> DEFINE e == Drop(c, gone)
<1> HIDE DEF e
<1>2. ASSUME NEW p \in DOMAIN e PROVE e[p] \in flagged2 /\ own2[e[p]] = p
  BY <1>1, <1>2 DEF e, IsChoice
<1>3. ASSUME NEW j \in flagged2 PROVE own2[j] \in DOMAIN e /\ e[own2[j]] = j
  BY <1>1, <1>3 DEF e, IsChoice
<1>4. QED  BY <1>1, <1>2, <1>3 DEF e, IsChoice

(* Flags that do not change hands. *)
LEMMA ChoiceKept ==
    ASSUME NEW c, NEW own, NEW flagged, NEW owners, NEW own2,
           IsChoice(c, own, flagged, owners),
           \A j \in flagged : own2[j] = own[j]
    PROVE  IsChoice(c, own2, flagged, owners)
BY DEF IsChoice

----------------------------------------------------------------------------
SpaceOf         == [v \in DOMAIN version |-> version[v].space]
FlaggedVersions == {v \in DOMAIN version : version[v].dflt}

(* The refinement mapping's choice is the one the flags determine. *)
LEMMA VersionChoice ==
    VersionTypeOK /\ OneDefaultVersion
    => IsChoice(DefaultVersionOf, SpaceOf, FlaggedVersions, SpaceId)
<1> SUFFICES ASSUME VersionTypeOK, OneDefaultVersion
             PROVE  IsChoice(DefaultVersionOf, SpaceOf, FlaggedVersions, SpaceId)
  OBVIOUS
<1>0. version \in [DOMAIN version -> VersionRow]
  BY DEF VersionTypeOK
<1>1. ASSUME NEW s \in SpaceId, NEW v \in DefaultVersions(s)
      PROVE  (CHOOSE x \in DefaultVersions(s) : TRUE) = v
  <2>1. \A x \in DefaultVersions(s) : x = v
    BY DEF DefaultVersions, VersionsOf, OneDefaultVersion
  <2>2. QED  BY <2>1
<1>2. DOMAIN DefaultVersionOf = {s \in SpaceId : DefaultVersions(s) # {}}
  BY DEF DefaultVersionOf
<1>3. ASSUME NEW v \in FlaggedVersions
      PROVE  /\ SpaceOf[v] \in DOMAIN DefaultVersionOf
             /\ DefaultVersionOf[SpaceOf[v]] = v
  <2>1. /\ v \in DOMAIN version /\ version[v].space \in SpaceId
        /\ SpaceOf[v] = version[v].space
    BY <1>0 DEF FlaggedVersions, VersionRow, SpaceOf
  <2>2. v \in DefaultVersions(version[v].space)
    BY <2>1 DEF FlaggedVersions, DefaultVersions, VersionsOf
  <2>3. version[v].space \in DOMAIN DefaultVersionOf
    BY <1>2, <2>1, <2>2
  <2>4. DefaultVersionOf[version[v].space] = CHOOSE x \in DefaultVersions(version[v].space) : TRUE
    BY <1>2, <2>3 DEF DefaultVersionOf
  <2>5. QED  BY <1>1, <2>1, <2>2, <2>3, <2>4
<1>4. ASSUME NEW s \in DOMAIN DefaultVersionOf
      PROVE  DefaultVersionOf[s] \in FlaggedVersions /\ SpaceOf[DefaultVersionOf[s]] = s
  <2>1. PICK v : s \in SpaceId /\ v \in DefaultVersions(s)
    BY <1>2
  <2>2. DefaultVersionOf[s] = v
    BY <1>1, <2>1 DEF DefaultVersionOf
  <2>3. QED  BY <2>1, <2>2 DEF DefaultVersions, VersionsOf, FlaggedVersions, SpaceOf
<1>5. DefaultVersionOf = [s \in DOMAIN DefaultVersionOf |-> DefaultVersionOf[s]]
  BY DEF DefaultVersionOf
<1>6. QED  BY <1>2, <1>3, <1>4, <1>5 DEF IsChoice


(* So it is in the state after a step. *)
LEMMA VersionChoiceNext ==
    (VersionTypeOK /\ OneDefaultVersion)'
    => IsChoice(DefaultVersionOf', SpaceOf', FlaggedVersions', SpaceId)
<1>1. (IsChoice(DefaultVersionOf, SpaceOf, FlaggedVersions, SpaceId))'
      <=> IsChoice(DefaultVersionOf', SpaceOf', FlaggedVersions', SpaceId)
  BY DEF IsChoice
<1>2. QED  BY <1>1, VersionChoice, PTL

(* The helpers of Tables are the same in the instance. *)
LEMMA VersionHelpers ==
    ASSUME NEW f, NEW k, NEW v, NEW S
    PROVE  /\ VersionSelection!Put(f, k, v) = Put(f, k, v)
           /\ VersionSelection!Drop(f, S) = Drop(f, S)
           /\ VersionSelection!Empty = Empty
BY DEF VersionSelection!Put, Put, VersionSelection!Drop, Drop, VersionSelection!Restrict, Restrict,
       VersionSelection!Empty, Empty

(* addVersion is Selection's Add: the first version of a space is chosen.   *)
LEMMA AddVersionSelects ==
    ASSUME VersionTypeOK, OneDefaultVersion, VersionTypeOK', OneDefaultVersion',
           NEW s \in SpaceId, NEW d \in BOOLEAN, NEW t, AddVersion(s, d, t)
    PROVE  VersionSelection!Add(versionSeq + 1, s, d)
<1> DEFINE i == versionSeq + 1
           c == DefaultVersionOf
<1>1. VersionAdded(s, d)
  BY AddVersionRows
<1>2. /\ IsChoice(c, SpaceOf, FlaggedVersions, SpaceId)
      /\ IsChoice(c', SpaceOf', FlaggedVersions', SpaceId)
  BY VersionChoice, VersionChoiceNext
<1>3. i \notin DOMAIN SpaceOf /\ SpaceOf' = Put(SpaceOf, i, s)
  BY <1>1 DEF VersionAdded, SpaceOf, Put
<1>4. s \notin DOMAIN c <=> DefaultVersions(s) = {}
  BY DEF DefaultVersionOf
<1>5. CASE d \/ s \notin DOMAIN c
  <2>1. /\ i \in FlaggedVersions' /\ SpaceOf'[i] = s
        /\ i \notin FlaggedVersions
        /\ \A j \in FlaggedVersions' \ {i} :
             j \in FlaggedVersions /\ SpaceOf'[j] = SpaceOf[j] /\ SpaceOf[j] # s
        /\ \A j \in FlaggedVersions \ {i} : SpaceOf[j] # s => j \in FlaggedVersions'
    BY <1>1, <1>4, <1>5 DEF VersionAdded, FlaggedVersions, SpaceOf, DefaultVersions, VersionsOf
  <2>2. IsChoice(Put(c, s, i), SpaceOf', FlaggedVersions', SpaceId)
    BY <1>2, <2>1, ChoicePut
  <2>3. c' = Put(c, s, i)
    BY <1>2, <2>2, ChoiceUnique
  <2>4. QED
    BY <1>3, <1>5, <2>3, VersionHelpers DEF VersionSelection!Add, SpaceOf
<1>6. CASE ~(d \/ s \notin DOMAIN c)
  <2>1. /\ FlaggedVersions' = FlaggedVersions
        /\ \A j \in FlaggedVersions : SpaceOf'[j] = SpaceOf[j]
    BY <1>1, <1>4, <1>6 DEF VersionAdded, FlaggedVersions, SpaceOf
  <2>2. c' = c
    BY <1>2, <2>1, ChoiceKept, ChoiceUnique
  <2>3. QED
    BY <1>3, <1>6, <2>2, VersionHelpers DEF VersionSelection!Add, SpaceOf
<1>7. QED  BY <1>5, <1>6

(* updateVersion is Assign, or Unchoose when its row is gone. *)
LEMMA UpdateVersionSelects ==
    ASSUME VersionTypeOK, OneDefaultVersion, VersionTypeOK', OneDefaultVersion',
           NEW v, NEW s \in SpaceId, NEW d \in BOOLEAN, NEW t, UpdateVersion(v, s, d, t)
    PROVE  \/ VersionSelection!Assign(v, s, d)
           \/ VersionSelection!Unchoose(s)
           \/ UNCHANGED VersionSelection!vars
<1> DEFINE c == DefaultVersionOf
           others == IF VersionSelection!Chooses(SpaceOf[v], v) THEN Drop(c, {SpaceOf[v]}) ELSE c
<1>1. VersionUpdated(v, s, d)
  BY UpdateVersionRows
<1>2. /\ IsChoice(c, SpaceOf, FlaggedVersions, SpaceId)
      /\ IsChoice(c', SpaceOf', FlaggedVersions', SpaceId)
  BY VersionChoice, VersionChoiceNext
<1>3. SpaceOf' = SpaceOf
  BY <1>1 DEF VersionUpdated, SpaceOf
<1>4. CASE v \in DOMAIN version
  <2>1. SpaceOf[v] = s /\ DOMAIN SpaceOf = DOMAIN version
    BY <1>1, <1>4 DEF VersionUpdated, SpaceOf
  <2>2. [SpaceOf EXCEPT ![v] = s] = SpaceOf
    BY <2>1 DEF SpaceOf
  <2>3. VersionSelection!Chooses(s, v) <=> v \in FlaggedVersions
    BY <1>2, <1>4, <2>1 DEF VersionSelection!Chooses, IsChoice
  <2>4. IsChoice(others, SpaceOf, FlaggedVersions \ {v}, SpaceId)
    <3>1. CASE v \in FlaggedVersions
      <4>1. \A j \in FlaggedVersions : SpaceOf[j] = s => j = v
        BY <1>2, <2>1, <3>1 DEF IsChoice
      <4>2. QED  BY <1>2, <2>1, <2>3, <3>1, <4>1, ChoiceDrop
    <3>2. CASE v \notin FlaggedVersions
      <4>1. FlaggedVersions \ {v} = FlaggedVersions
        BY <3>2
      <4>2. QED  BY <1>2, <2>1, <2>3, <3>2, <4>1
    <3>3. QED  BY <3>1, <3>2
  <2> HIDE DEF others
  <2>5. c' = IF d THEN Put(others, s, v) ELSE others
    <3>1. CASE d
      <4>1. /\ v \in FlaggedVersions'
            /\ \A j \in FlaggedVersions' \ {v} :
                 j \in FlaggedVersions \ {v} /\ SpaceOf[j] # s
            /\ \A j \in FlaggedVersions \ {v} : SpaceOf[j] # s => j \in FlaggedVersions'
        BY <1>1, <1>4, <3>1 DEF VersionUpdated, FlaggedVersions, SpaceOf
      <4>2. IsChoice(Put(others, s, v), SpaceOf, FlaggedVersions', SpaceId)
        BY <2>1, <2>4, <4>1, ChoicePut
      <4>3. QED  BY <1>2, <1>3, <3>1, <4>2, ChoiceUnique
    <3>2. CASE ~d
      <4>1. FlaggedVersions' = FlaggedVersions \ {v}
        BY <1>1, <1>4, <3>2 DEF VersionUpdated, FlaggedVersions
      <4>2. QED  BY <1>2, <1>3, <2>4, <3>2, <4>1, ChoiceUnique
    <3>3. QED  BY <3>1, <3>2
  <2>6. VersionSelection!Assign(v, s, d)
    BY <1>3, <1>4, <2>1, <2>2, <2>5, VersionHelpers
       DEF VersionSelection!Assign, SpaceOf, others
  <2>7. QED  BY <2>6
<1>5. CASE v \notin DOMAIN version /\ d
  <2>1. /\ \A j \in FlaggedVersions' : j \in FlaggedVersions /\ SpaceOf[j] # s
        /\ \A j \in FlaggedVersions : SpaceOf[j] # s => j \in FlaggedVersions'
    BY <1>1, <1>5 DEF VersionUpdated, FlaggedVersions, SpaceOf
  <2>2. IsChoice(Drop(c, {s}), SpaceOf, FlaggedVersions', SpaceId)
    BY <1>2, <2>1, ChoiceDrop
  <2>3. c' = Drop(c, {s})
    BY <1>2, <1>3, <2>2, ChoiceUnique
  <2>4. VersionSelection!Unchoose(s)
    BY <1>3, <2>3, VersionHelpers DEF VersionSelection!Unchoose, SpaceOf
  <2>5. QED  BY <2>4
<1>6. CASE v \notin DOMAIN version /\ ~d
  <2>1. FlaggedVersions' = FlaggedVersions
    BY <1>1, <1>6 DEF VersionUpdated, FlaggedVersions
  <2>2. c' = c
    BY <1>2, <1>3, <2>1, ChoiceUnique
  <2>3. QED  BY <1>3, <2>2 DEF VersionSelection!vars, SpaceOf
<1>7. QED  BY <1>4, <1>5, <1>6

(* deleteVersion is Remove: a chosen version hands the choice to a sibling  *)
(* whenever it has one.                                                     *)
LEMMA DeleteVersionSelects ==
    ASSUME VersionTypeOK, OneDefaultVersion, VersionTypeOK', OneDefaultVersion',
           NEW v, DeleteVersion(v)
    PROVE  VersionSelection!Remove(v)
<1> DEFINE c == DefaultVersionOf
           s == version[v].space
           siblings == VersionSelection!ItemsOf(SpaceOf[v]) \ {v}
<1>1. VersionDeleted(v)
  BY DeleteVersionRows
<1>2. /\ IsChoice(c, SpaceOf, FlaggedVersions, SpaceId)
      /\ IsChoice(c', SpaceOf', FlaggedVersions', SpaceId)
  BY VersionChoice, VersionChoiceNext
<1>3. v \in DOMAIN version /\ SpaceOf[v] = s /\ s \in SpaceId
  BY <1>1 DEF VersionDeleted, SpaceOf, VersionTypeOK, VersionRow
<1>4. SpaceOf' = Drop(SpaceOf, {v})
  BY <1>1 DEF VersionDeleted, SpaceOf, Drop, Restrict
<1>5. siblings = VersionsOf(s) \ {v}
  BY <1>3 DEF VersionSelection!ItemsOf, VersionsOf, SpaceOf
<1>6. VersionSelection!Chooses(s, v) <=> v \in FlaggedVersions
  BY <1>2, <1>3 DEF VersionSelection!Chooses, IsChoice
<1> HIDE DEF s, siblings
<1>7. CASE v \notin FlaggedVersions
  <2>1. /\ FlaggedVersions' = FlaggedVersions
        /\ \A j \in FlaggedVersions : SpaceOf'[j] = SpaceOf[j]
    BY <1>1, <1>3, <1>7 DEF VersionDeleted, FlaggedVersions, SpaceOf
  <2>2. c' = c
    BY <1>2, <2>1, ChoiceKept, ChoiceUnique
  <2>3. QED
    BY <1>3, <1>4, <1>6, <1>7, <2>2, VersionHelpers DEF VersionSelection!Remove, SpaceOf
<1>8. CASE v \in FlaggedVersions /\ siblings = {}
  <2>1. /\ \A j \in FlaggedVersions' :
             j \in FlaggedVersions /\ SpaceOf'[j] = SpaceOf[j] /\ SpaceOf[j] # s
        /\ \A j \in FlaggedVersions : SpaceOf[j] # s => j \in FlaggedVersions'
    <3>1. \A j \in DOMAIN version : version[j].space = s => j = v
      BY <1>5, <1>8 DEF VersionsOf
    <3>2. \A x \in DOMAIN version' : version'[x].dflt <=> version[x].dflt
      BY <1>1, <1>3, <3>1 DEF VersionDeleted, s
    <3>3. QED
      BY <1>1, <1>3, <3>1, <3>2 DEF VersionDeleted, FlaggedVersions, SpaceOf
  <2>2. IsChoice(Drop(c, {s}), SpaceOf', FlaggedVersions', SpaceId)
    BY <1>2, <2>1, ChoiceDrop
  <2>3. c' = Drop(c, {s})
    BY <1>2, <2>2, ChoiceUnique
  <2>4. QED
    BY <1>3, <1>4, <1>6, <1>8, <2>3, VersionHelpers
       DEF VersionSelection!Remove, SpaceOf, siblings
<1>9. CASE v \in FlaggedVersions /\ siblings # {}
  <2>1. PICK h \in DOMAIN version' : version'[h].space = s /\ version'[h].dflt
    <3>1. version[v].dflt
      BY <1>9 DEF FlaggedVersions
    <3>2. version' \in DeletedRow(version, v, VersionsOf(s))
      BY DEF DeleteVersion, s
    <3>3. QED  BY <1>3, <1>5, <1>9, <3>1, <3>2, HeirFound DEF s
  <2>2. h \in siblings
    BY <1>1, <1>5, <2>1 DEF VersionDeleted, VersionsOf
  <2>3. /\ h \in FlaggedVersions' /\ SpaceOf'[h] = s
        /\ h \in FlaggedVersions => SpaceOf[h] = s
        /\ \A j \in FlaggedVersions' \ {h} :
             j \in FlaggedVersions /\ SpaceOf'[j] = SpaceOf[j] /\ SpaceOf[j] # s
        /\ \A j \in FlaggedVersions \ {h} : SpaceOf[j] # s => j \in FlaggedVersions'
    <3>1. h \in FlaggedVersions' /\ SpaceOf'[h] = s /\ SpaceOf[h] = s
      BY <1>1, <2>1 DEF FlaggedVersions, SpaceOf, VersionDeleted
    <3>2. \A j \in FlaggedVersions' : SpaceOf'[j] = s => j = h
      BY <1>2, <3>1 DEF IsChoice
    <3>3. \A j \in DOMAIN version' : SpaceOf'[j] = SpaceOf[j]
      BY <1>1 DEF SpaceOf, VersionDeleted
    <3>4. \A j \in FlaggedVersions' \ {h} : j \in FlaggedVersions
      BY <1>1, <1>3, <3>2, <3>3 DEF FlaggedVersions, VersionDeleted, s, SpaceOf
    <3>5. \A j \in FlaggedVersions : SpaceOf[j] # s => j \in FlaggedVersions'
      BY <1>1, <1>3 DEF FlaggedVersions, VersionDeleted, SpaceOf
    <3>6. FlaggedVersions' \subseteq DOMAIN version'
      BY DEF FlaggedVersions
    <3>7. QED  BY <3>1, <3>2, <3>3, <3>4, <3>5, <3>6
  <2>4. IsChoice(Put(c, s, h), SpaceOf', FlaggedVersions', SpaceId)
    BY <1>2, <1>3, <2>3, ChoicePut
  <2>5. c' = Put(c, s, h)
    BY <1>2, <2>4, ChoiceUnique
  <2>6. QED
    BY <1>3, <1>4, <1>6, <1>9, <2>2, <2>5, VersionHelpers
       DEF VersionSelection!Remove, SpaceOf, siblings
<1>10. QED  BY <1>7, <1>8, <1>9

(* deleteSpace removes an owner and its items. *)
LEMMA DeleteSpaceDeselects ==
    ASSUME VersionTypeOK, OneDefaultVersion, VersionTypeOK', OneDefaultVersion',
           NEW s \in SpaceId, DeleteSpace(s)
    PROVE  VersionSelection!RemoveOwners({s})
<1> DEFINE c == DefaultVersionOf
<1>1. SpaceDeleted(s)
  BY DeleteSpaceRows
<1>2. /\ IsChoice(c, SpaceOf, FlaggedVersions, SpaceId)
      /\ IsChoice(c', SpaceOf', FlaggedVersions', SpaceId)
  BY VersionChoice, VersionChoiceNext
<1>3. UNION {VersionSelection!ItemsOf(o) : o \in {s}} = VersionsOf(s)
  BY DEF VersionSelection!ItemsOf, VersionsOf
<1>4. SpaceOf' = Drop(SpaceOf, VersionsOf(s))
  BY <1>1 DEF SpaceDeleted, SpaceOf, Drop, Restrict
<1>5. /\ \A j \in FlaggedVersions' :
           j \in FlaggedVersions /\ SpaceOf'[j] = SpaceOf[j] /\ SpaceOf[j] # s
      /\ \A j \in FlaggedVersions : SpaceOf[j] # s => j \in FlaggedVersions'
  BY <1>1 DEF SpaceDeleted, FlaggedVersions, SpaceOf, VersionsOf
<1>6. IsChoice(Drop(c, {s}), SpaceOf', FlaggedVersions', SpaceId)
  BY <1>2, <1>5, ChoiceDrop
<1>7. c' = Drop(c, {s})
  BY <1>2, <1>6, ChoiceUnique
<1>8. QED
  BY <1>3, <1>4, <1>7, VersionHelpers DEF VersionSelection!RemoveOwners, SpaceOf

(* Every step of the catalog is a step of the selection, or none. *)
LEMMA VersionSelectionStep ==
    ASSUME CatalogTypeOK, OneDefaultVersion, [CatalogNext]_catalogVars
    PROVE  [VersionSelection!Next]_VersionSelection!vars
<1>1. SpaceTypeOK /\ VersionTypeOK
  BY TypeParts
<1>2. VersionTypeOK' /\ OneDefaultVersion'
  BY <1>1, VersionTypeStep, OneDefaultVersionStep
<1>3. spaceSeq \in 0..MaxSpace /\ \A s \in 1..spaceSeq : s \in SpaceId
  BY <1>1, BoundsAssumption DEF SpaceTypeOK, SpaceId
<1>5. ASSUME NEW s \in 1..spaceSeq, NEW d \in BOOLEAN, NEW t, AddVersion(s, d, t)
      PROVE  VersionSelection!Next
  <2>1. versionSeq + 1 \in VersionId
    BY <1>1, <1>5, BoundsAssumption DEF AddVersion, VersionTypeOK, VersionId
  <2>2. VersionSelection!Add(versionSeq + 1, s, d)
    BY <1>1, <1>2, <1>3, <1>5, AddVersionSelects
  <2>3. QED  BY <1>3, <2>1, <2>2 DEF VersionSelection!Next
<1>6. ASSUME NEW v \in 1..versionSeq, NEW s \in 1..spaceSeq, NEW d \in BOOLEAN,
             NEW t \in Times, UpdateVersion(v, s, d, t)
      PROVE  VersionSelection!Next \/ UNCHANGED VersionSelection!vars
  <2>1. v \in VersionId
    BY <1>1, BoundsAssumption DEF VersionTypeOK, VersionId
  <2>2. \/ VersionSelection!Assign(v, s, d)
        \/ VersionSelection!Unchoose(s)
        \/ UNCHANGED VersionSelection!vars
    BY <1>1, <1>2, <1>3, <1>6, UpdateVersionSelects
  <2>3. QED  BY <1>3, <2>1, <2>2 DEF VersionSelection!Next
<1>7. ASSUME NEW v \in 1..versionSeq, DeleteVersion(v)
      PROVE  VersionSelection!Next
  <2>1. v \in VersionId
    BY <1>1, BoundsAssumption DEF VersionTypeOK, VersionId
  <2>2. QED
    BY <1>1, <1>2, <1>7, <2>1, DeleteVersionSelects DEF VersionSelection!Next
<1>8. ASSUME NEW s \in 1..spaceSeq, DeleteSpace(s)
      PROVE  VersionSelection!Next
  <2>1. {s} \in SUBSET SpaceId
    BY <1>3
  <2>2. QED
    BY <1>1, <1>2, <1>3, <1>8, <2>1, DeleteSpaceDeselects DEF VersionSelection!Next
<1>9. ASSUME UNCHANGED version PROVE UNCHANGED VersionSelection!vars
  BY <1>9 DEF VersionSelection!vars, DefaultVersionOf, DefaultVersions, VersionsOf
<1>10. QED
  BY <1>5, <1>6, <1>7, <1>8, <1>9
     DEF CatalogNext, catalogVars, versionTable, AddSpace, UpdateSpace,
         AddVectorIndex, UpdateVectorIndex, DeleteVectorIndex

(* The versions of spaces implement Selection. *)
THEOREM VersionsSelect == CatalogSpec => VersionsAreASelection
<1>1. CatalogInit => VersionSelection!Init
  <2> SUFFICES ASSUME CatalogInit PROVE VersionSelection!Init
    OBVIOUS
  <2>1. version = << >>
    BY DEF CatalogInit, Empty
  <2>2. [v \in DOMAIN version |-> version[v].space] = << >>
    BY <2>1
  <2>3. DefaultVersionOf = << >>
    BY <2>1 DEF DefaultVersionOf, DefaultVersions, VersionsOf
  <2>4. QED  BY <2>2, <2>3 DEF VersionSelection!Init, VersionSelection!Empty
<1>2. CatalogTypeOK /\ OneDefaultVersion /\ [CatalogNext]_catalogVars
        => [VersionSelection!Next]_VersionSelection!vars
  BY VersionSelectionStep
<1>3. QED
  BY <1>1, <1>2, CatalogTypeCorrect, OneDefaultVersionCorrect, PTL
     DEF CatalogSpec, VersionsAreASelection, VersionSelection!Spec

----------------------------------------------------------------------------
(* The same for the indexes of versions.                                    *)

VersionOf      == [i \in DOMAIN index |-> index[i].version]
FlaggedIndexes == {i \in DOMAIN index : index[i].dflt}

(* The refinement mapping's choice is the one the flags determine. *)
LEMMA IndexChoice ==
    IndexTypeOK /\ OneDefaultIndex
    => IsChoice(DefaultIndexOf, VersionOf, FlaggedIndexes, VersionId)
<1> SUFFICES ASSUME IndexTypeOK, OneDefaultIndex
             PROVE  IsChoice(DefaultIndexOf, VersionOf, FlaggedIndexes, VersionId)
  OBVIOUS
<1>0. index \in [DOMAIN index -> IndexRow]
  BY DEF IndexTypeOK
<1>1. ASSUME NEW v \in VersionId, NEW i \in DefaultIndexes(v)
      PROVE  (CHOOSE x \in DefaultIndexes(v) : TRUE) = i
  <2>1. \A x \in DefaultIndexes(v) : x = i
    BY DEF DefaultIndexes, IndexesOf, OneDefaultIndex
  <2>2. QED  BY <2>1
<1>2. DOMAIN DefaultIndexOf = {v \in VersionId : DefaultIndexes(v) # {}}
  BY DEF DefaultIndexOf
<1>3. ASSUME NEW i \in FlaggedIndexes
      PROVE  /\ VersionOf[i] \in DOMAIN DefaultIndexOf
             /\ DefaultIndexOf[VersionOf[i]] = i
  <2>1. /\ i \in DOMAIN index /\ index[i].version \in VersionId
        /\ VersionOf[i] = index[i].version
    BY <1>0 DEF FlaggedIndexes, IndexRow, VersionOf
  <2>2. i \in DefaultIndexes(index[i].version)
    BY <2>1 DEF FlaggedIndexes, DefaultIndexes, IndexesOf
  <2>3. index[i].version \in DOMAIN DefaultIndexOf
    BY <1>2, <2>1, <2>2
  <2>4. DefaultIndexOf[index[i].version] = CHOOSE x \in DefaultIndexes(index[i].version) : TRUE
    BY <1>2, <2>3 DEF DefaultIndexOf
  <2>5. QED  BY <1>1, <2>1, <2>2, <2>3, <2>4
<1>4. ASSUME NEW v \in DOMAIN DefaultIndexOf
      PROVE  DefaultIndexOf[v] \in FlaggedIndexes /\ VersionOf[DefaultIndexOf[v]] = v
  <2>1. PICK i : v \in VersionId /\ i \in DefaultIndexes(v)
    BY <1>2
  <2>2. DefaultIndexOf[v] = i
    BY <1>1, <2>1 DEF DefaultIndexOf
  <2>3. QED  BY <2>1, <2>2 DEF DefaultIndexes, IndexesOf, FlaggedIndexes, VersionOf
<1>5. DefaultIndexOf = [v \in DOMAIN DefaultIndexOf |-> DefaultIndexOf[v]]
  BY DEF DefaultIndexOf
<1>6. QED  BY <1>2, <1>3, <1>4, <1>5 DEF IsChoice

(* So it is in the state after a step. *)
LEMMA IndexChoiceNext ==
    (IndexTypeOK /\ OneDefaultIndex)'
    => IsChoice(DefaultIndexOf', VersionOf', FlaggedIndexes', VersionId)
<1>1. (IsChoice(DefaultIndexOf, VersionOf, FlaggedIndexes, VersionId))'
      <=> IsChoice(DefaultIndexOf', VersionOf', FlaggedIndexes', VersionId)
  BY DEF IsChoice
<1>2. QED  BY <1>1, IndexChoice, PTL

(* The helpers of Tables are the same in the instance. *)
LEMMA IndexHelpers ==
    ASSUME NEW f, NEW k, NEW v, NEW S
    PROVE  /\ IndexSelection!Put(f, k, v) = Put(f, k, v)
           /\ IndexSelection!Drop(f, S) = Drop(f, S)
BY DEF IndexSelection!Put, Put, IndexSelection!Drop, Drop, IndexSelection!Restrict, Restrict

(* addVectorIndex is Add: only an index added as the default is chosen. *)
LEMMA AddVectorIndexSelects ==
    ASSUME IndexTypeOK, OneDefaultIndex, IndexTypeOK', OneDefaultIndex',
           NEW v \in VersionId, NEW d \in BOOLEAN, NEW t, AddVectorIndex(v, d, t)
    PROVE  IndexSelection!Add(indexSeq + 1, v, d)
<1> DEFINE i == indexSeq + 1
           c == DefaultIndexOf
<1>1. IndexAdded(v, d)
  BY AddVectorIndexRows
<1>2. /\ IsChoice(c, VersionOf, FlaggedIndexes, VersionId)
      /\ IsChoice(c', VersionOf', FlaggedIndexes', VersionId)
  BY IndexChoice, IndexChoiceNext
<1>3. i \notin DOMAIN VersionOf /\ VersionOf' = Put(VersionOf, i, v)
  BY <1>1 DEF IndexAdded, VersionOf, Put
<1>4. CASE d
  <2>1. /\ i \in FlaggedIndexes' /\ VersionOf'[i] = v
        /\ i \notin FlaggedIndexes
        /\ \A j \in FlaggedIndexes' \ {i} :
             j \in FlaggedIndexes /\ VersionOf'[j] = VersionOf[j] /\ VersionOf[j] # v
        /\ \A j \in FlaggedIndexes \ {i} : VersionOf[j] # v => j \in FlaggedIndexes'
    BY <1>1, <1>4 DEF IndexAdded, FlaggedIndexes, VersionOf
  <2>2. IsChoice(Put(c, v, i), VersionOf', FlaggedIndexes', VersionId)
    BY <1>2, <2>1, ChoicePut
  <2>3. c' = Put(c, v, i)
    BY <1>2, <2>2, ChoiceUnique
  <2>4. QED
    BY <1>3, <1>4, <2>3, IndexHelpers DEF IndexSelection!Add, VersionOf
<1>5. CASE ~d
  <2>1. /\ FlaggedIndexes' = FlaggedIndexes
        /\ \A j \in FlaggedIndexes : VersionOf'[j] = VersionOf[j]
    BY <1>1, <1>5 DEF IndexAdded, FlaggedIndexes, VersionOf
  <2>2. c' = c
    BY <1>2, <2>1, ChoiceKept, ChoiceUnique
  <2>3. QED
    BY <1>3, <1>5, <2>2, IndexHelpers DEF IndexSelection!Add, VersionOf
<1>6. QED  BY <1>4, <1>5

(* updateVectorIndex is Assign, a move to another version included.         *)
LEMMA UpdateVectorIndexSelects ==
    ASSUME IndexTypeOK, OneDefaultIndex, IndexTypeOK', OneDefaultIndex',
           NEW i, NEW v \in VersionId, NEW d \in BOOLEAN, NEW t, UpdateVectorIndex(i, v, d, t)
    PROVE  \/ IndexSelection!Assign(i, v, d)
           \/ IndexSelection!Unchoose(v)
           \/ UNCHANGED IndexSelection!vars
<1> DEFINE c == DefaultIndexOf
           from == VersionOf[i]
           others == IF IndexSelection!Chooses(from, i) THEN Drop(c, {from}) ELSE c
<1>1. IndexUpdated(i, v, d)
  BY UpdateVectorIndexRows
<1>2. /\ IsChoice(c, VersionOf, FlaggedIndexes, VersionId)
      /\ IsChoice(c', VersionOf', FlaggedIndexes', VersionId)
  BY IndexChoice, IndexChoiceNext
<1>3. CASE i \in DOMAIN index
  <2>1. VersionOf' = [VersionOf EXCEPT ![i] = v]
    BY <1>1, <1>3 DEF IndexUpdated, VersionOf
  <2>2. IndexSelection!Chooses(from, i) <=> i \in FlaggedIndexes
    BY <1>2, <1>3 DEF IndexSelection!Chooses, IsChoice
  <2>3. IsChoice(others, VersionOf, FlaggedIndexes \ {i}, VersionId)
    <3>1. CASE i \in FlaggedIndexes
      <4>1. \A j \in FlaggedIndexes : VersionOf[j] = from => j = i
        BY <1>2, <3>1 DEF IsChoice
      <4>2. QED  BY <1>2, <2>2, <3>1, <4>1, ChoiceDrop
    <3>2. CASE i \notin FlaggedIndexes
      <4>1. FlaggedIndexes \ {i} = FlaggedIndexes
        BY <3>2
      <4>2. QED  BY <1>2, <2>2, <3>2, <4>1
    <3>3. QED  BY <3>1, <3>2
  <2> HIDE DEF others, from
  <2>4. \A j \in FlaggedIndexes \ {i} : VersionOf'[j] = VersionOf[j]
    BY <1>1 DEF IndexUpdated, VersionOf, FlaggedIndexes
  <2>5. c' = IF d THEN Put(others, v, i) ELSE others
    <3>1. CASE d
      <4>1. /\ i \in FlaggedIndexes' /\ VersionOf'[i] = v
            /\ \A j \in FlaggedIndexes' \ {i} :
                 j \in FlaggedIndexes \ {i} /\ VersionOf[j] # v
            /\ \A j \in FlaggedIndexes \ {i} : VersionOf[j] # v => j \in FlaggedIndexes'
        BY <1>1, <1>3, <3>1 DEF IndexUpdated, FlaggedIndexes, VersionOf
      <4>2. IsChoice(Put(others, v, i), VersionOf', FlaggedIndexes', VersionId)
        BY <2>3, <2>4, <4>1, ChoicePut
      <4>3. QED  BY <1>2, <3>1, <4>2, ChoiceUnique
    <3>2. CASE ~d
      <4>1. FlaggedIndexes' = FlaggedIndexes \ {i}
        BY <1>1, <1>3, <3>2 DEF IndexUpdated, FlaggedIndexes
      <4>2. IsChoice(others, VersionOf', FlaggedIndexes', VersionId)
        BY <2>3, <2>4, <4>1, ChoiceKept
      <4>3. QED  BY <1>2, <3>2, <4>2, ChoiceUnique
    <3>3. QED  BY <3>1, <3>2
  <2>6. IndexSelection!Assign(i, v, d)
    BY <1>3, <2>1, <2>5, IndexHelpers DEF IndexSelection!Assign, VersionOf, others, from
  <2>7. QED  BY <2>6
<1>4. CASE i \notin DOMAIN index
  <2>1. VersionOf' = VersionOf
    BY <1>1, <1>4 DEF IndexUpdated, VersionOf
  <2>2. CASE d
    <3>1. /\ \A j \in FlaggedIndexes' : j \in FlaggedIndexes /\ VersionOf[j] # v
          /\ \A j \in FlaggedIndexes : VersionOf[j] # v => j \in FlaggedIndexes'
      BY <1>1, <1>4, <2>2 DEF IndexUpdated, FlaggedIndexes, VersionOf
    <3>2. IsChoice(Drop(c, {v}), VersionOf, FlaggedIndexes', VersionId)
      BY <1>2, <3>1, ChoiceDrop
    <3>3. c' = Drop(c, {v})
      BY <1>2, <2>1, <3>2, ChoiceUnique
    <3>4. QED
      BY <2>1, <3>3, IndexHelpers DEF IndexSelection!Unchoose, VersionOf
  <2>3. CASE ~d
    <3>1. FlaggedIndexes' = FlaggedIndexes
      BY <1>1, <1>4, <2>3 DEF IndexUpdated, FlaggedIndexes
    <3>2. c' = c
      BY <1>2, <2>1, <3>1, ChoiceUnique
    <3>3. QED  BY <2>1, <3>2 DEF IndexSelection!vars, VersionOf
  <2>4. QED  BY <2>2, <2>3
<1>5. QED  BY <1>3, <1>4

(* Deleting a default index leaves a default in a version that has others. *)
LEMMA IndexHeirFound ==
    ASSUME IndexTypeOK, NEW x \in DOMAIN index, index[x].dflt,
           NEW v, v = index[x].version,
           IndexesOf(v) \ {x} # {},
           index' \in DeletedRow(index, x, IndexesOf(v))
    PROVE  \E y \in DOMAIN index' : index'[y].version = v /\ index'[y].dflt
<1> DEFINE heirs == MostRecent(index, IndexesOf(v) \ {x})
           left == Drop(index, {x})
<1>1. index \in [DOMAIN index -> IndexRow] /\ indexSeq \in Nat
  BY BoundsAssumption DEF IndexTypeOK
<1>2. \A y \in DOMAIN index : index[y].created \in Nat
  BY <1>1, TimesAssumption DEF IndexRow
<1>3. heirs # {}
  <2>1. IndexesOf(v) \ {x} \in SUBSET DOMAIN index
    BY DEF IndexesOf
  <2>2. DOMAIN index \subseteq 1..indexSeq
    BY DEF IndexTypeOK
  <2>3. QED  BY <1>1, <1>2, <2>1, <2>2, HeirExists
<1>4. heirs \subseteq IndexesOf(v) \ {x}
  BY DEF MostRecent
<1>5. PICK h \in heirs : index' = [left EXCEPT ![h].dflt = TRUE]
  BY <1>3 DEF DeletedRow
<1> HIDE DEF heirs
<1>6. h \in DOMAIN index \ {x} /\ index[h].version = v
  BY <1>4, <1>5 DEF IndexesOf
<1>7. /\ left \in [DOMAIN index \ {x} -> IndexRow]
      /\ left[h] = index[h]
  BY <1>1, <1>6, DropDef DEF Drop, Restrict
<1> HIDE DEF left
<1>8. h \in DOMAIN index' /\ index'[h].version = v /\ index'[h].dflt
  BY <1>5, <1>6, <1>7 DEF IndexRow
<1>9. QED  BY <1>8

(* deleteVectorIndex is Remove: a chosen index hands the choice on. *)
LEMMA DeleteVectorIndexSelects ==
    ASSUME IndexTypeOK, OneDefaultIndex, IndexTypeOK', OneDefaultIndex',
           NEW i, DeleteVectorIndex(i)
    PROVE  IndexSelection!Remove(i)
<1> DEFINE c == DefaultIndexOf
           v == index[i].version
           siblings == IndexSelection!ItemsOf(VersionOf[i]) \ {i}
<1>1. IndexDeleted(i)
  BY DeleteVectorIndexRows
<1>2. /\ IsChoice(c, VersionOf, FlaggedIndexes, VersionId)
      /\ IsChoice(c', VersionOf', FlaggedIndexes', VersionId)
  BY IndexChoice, IndexChoiceNext
<1>3. i \in DOMAIN index /\ VersionOf[i] = v /\ v \in VersionId
  BY <1>1 DEF IndexDeleted, VersionOf, IndexTypeOK, IndexRow
<1>4. VersionOf' = Drop(VersionOf, {i})
  BY <1>1 DEF IndexDeleted, VersionOf, Drop, Restrict
<1>5. siblings = IndexesOf(v) \ {i}
  BY <1>3 DEF IndexSelection!ItemsOf, IndexesOf, VersionOf
<1>6. IndexSelection!Chooses(v, i) <=> i \in FlaggedIndexes
  BY <1>2, <1>3 DEF IndexSelection!Chooses, IsChoice
<1> HIDE DEF v, siblings
<1>7. CASE i \notin FlaggedIndexes
  <2>1. /\ FlaggedIndexes' = FlaggedIndexes
        /\ \A j \in FlaggedIndexes : VersionOf'[j] = VersionOf[j]
    BY <1>1, <1>3, <1>7 DEF IndexDeleted, FlaggedIndexes, VersionOf
  <2>2. c' = c
    BY <1>2, <2>1, ChoiceKept, ChoiceUnique
  <2>3. QED
    BY <1>3, <1>4, <1>6, <1>7, <2>2, IndexHelpers DEF IndexSelection!Remove, VersionOf
<1>8. CASE i \in FlaggedIndexes /\ siblings = {}
  <2>1. /\ \A j \in FlaggedIndexes' :
             j \in FlaggedIndexes /\ VersionOf'[j] = VersionOf[j] /\ VersionOf[j] # v
        /\ \A j \in FlaggedIndexes : VersionOf[j] # v => j \in FlaggedIndexes'
    <3>1. \A j \in DOMAIN index : index[j].version = v => j = i
      BY <1>5, <1>8 DEF IndexesOf
    <3>2. \A x \in DOMAIN index' : index'[x].dflt <=> index[x].dflt
      BY <1>1, <1>3, <3>1 DEF IndexDeleted, v
    <3>3. QED
      BY <1>1, <1>3, <3>1, <3>2 DEF IndexDeleted, FlaggedIndexes, VersionOf
  <2>2. IsChoice(Drop(c, {v}), VersionOf', FlaggedIndexes', VersionId)
    BY <1>2, <2>1, ChoiceDrop
  <2>3. c' = Drop(c, {v})
    BY <1>2, <2>2, ChoiceUnique
  <2>4. QED
    BY <1>3, <1>4, <1>6, <1>8, <2>3, IndexHelpers DEF IndexSelection!Remove, VersionOf, siblings
<1>9. CASE i \in FlaggedIndexes /\ siblings # {}
  <2>1. PICK h \in DOMAIN index' : index'[h].version = v /\ index'[h].dflt
    <3>1. index[i].dflt
      BY <1>9 DEF FlaggedIndexes
    <3>2. index' \in DeletedRow(index, i, IndexesOf(v))
      BY DEF DeleteVectorIndex, v
    <3>3. QED  BY <1>3, <1>5, <1>9, <3>1, <3>2, IndexHeirFound DEF v
  <2>2. h \in siblings
    BY <1>1, <1>5, <2>1 DEF IndexDeleted, IndexesOf
  <2>3. /\ h \in FlaggedIndexes' /\ VersionOf'[h] = v
        /\ h \in FlaggedIndexes => VersionOf[h] = v
        /\ \A j \in FlaggedIndexes' \ {h} :
             j \in FlaggedIndexes /\ VersionOf'[j] = VersionOf[j] /\ VersionOf[j] # v
        /\ \A j \in FlaggedIndexes \ {h} : VersionOf[j] # v => j \in FlaggedIndexes'
    <3>1. h \in FlaggedIndexes' /\ VersionOf'[h] = v /\ VersionOf[h] = v
      BY <1>1, <2>1 DEF FlaggedIndexes, VersionOf, IndexDeleted
    <3>2. \A j \in FlaggedIndexes' : VersionOf'[j] = v => j = h
      BY <1>2, <3>1 DEF IsChoice
    <3>3. \A j \in DOMAIN index' : VersionOf'[j] = VersionOf[j]
      BY <1>1 DEF VersionOf, IndexDeleted
    <3>4. \A j \in FlaggedIndexes' \ {h} : j \in FlaggedIndexes
      BY <1>1, <1>3, <3>2, <3>3 DEF FlaggedIndexes, IndexDeleted, v, VersionOf
    <3>5. \A j \in FlaggedIndexes : VersionOf[j] # v => j \in FlaggedIndexes'
      BY <1>1, <1>3 DEF FlaggedIndexes, IndexDeleted, VersionOf
    <3>6. FlaggedIndexes' \subseteq DOMAIN index'
      BY DEF FlaggedIndexes
    <3>7. QED  BY <3>1, <3>2, <3>3, <3>4, <3>5, <3>6
  <2>4. IsChoice(Put(c, v, h), VersionOf', FlaggedIndexes', VersionId)
    BY <1>2, <1>3, <2>3, ChoicePut
  <2>5. c' = Put(c, v, h)
    BY <1>2, <2>4, ChoiceUnique
  <2>6. QED
    BY <1>3, <1>4, <1>6, <1>9, <2>2, <2>5, IndexHelpers
       DEF IndexSelection!Remove, VersionOf, siblings
<1>10. QED  BY <1>7, <1>8, <1>9

(* deleteSpace removes the owners it deletes, and their indexes. *)
LEMMA DeleteSpaceDeselectsIndexes ==
    ASSUME IndexTypeOK, OneDefaultIndex, IndexTypeOK', OneDefaultIndex',
           NEW s, DeleteSpace(s), NEW O, O = VersionsOf(s)
    PROVE  IndexSelection!RemoveOwners(O)
<1> DEFINE c == DefaultIndexOf
           gone == UNION {IndexesOf(v) : v \in O}
<1>1. index' = Drop(index, gone)
  BY DEF DeleteSpace
<1>2. /\ IsChoice(c, VersionOf, FlaggedIndexes, VersionId)
      /\ IsChoice(c', VersionOf', FlaggedIndexes', VersionId)
  BY IndexChoice, IndexChoiceNext
<1>3. \A v : IndexSelection!ItemsOf(v) = IndexesOf(v)
  BY DEF IndexSelection!ItemsOf, IndexesOf
<1>4. UNION {IndexSelection!ItemsOf(v) : v \in O} = gone
  BY <1>3
<1>5. \A j \in DOMAIN index : j \in gone <=> index[j].version \in O
  BY DEF IndexesOf
<1> HIDE DEF gone
<1>6. /\ DOMAIN index' = DOMAIN index \ gone
      /\ \A j \in DOMAIN index' : index'[j] = index[j]
  BY <1>1 DEF Drop, Restrict
<1>7. VersionOf' = Drop(VersionOf, gone)
  BY <1>6 DEF VersionOf, Drop, Restrict
<1>8. /\ \A j \in FlaggedIndexes' :
           j \in FlaggedIndexes /\ VersionOf'[j] = VersionOf[j] /\ VersionOf[j] \notin O
      /\ \A j \in FlaggedIndexes : VersionOf[j] \notin O => j \in FlaggedIndexes'
  BY <1>5, <1>6 DEF FlaggedIndexes, VersionOf
<1>9. IsChoice(Drop(c, O), VersionOf', FlaggedIndexes', VersionId)
  BY <1>2, <1>8, ChoiceDrop
<1>10. c' = Drop(c, O)
  BY <1>2, <1>9, ChoiceUnique
<1>11. QED
  BY <1>4, <1>7, <1>10, IndexHelpers DEF IndexSelection!RemoveOwners, VersionOf

(* Every step of the catalog is a step of the selection, or none. *)
LEMMA IndexSelectionStep ==
    ASSUME CatalogTypeOK, OneDefaultIndex, [CatalogNext]_catalogVars
    PROVE  [IndexSelection!Next]_IndexSelection!vars
<1>1. SpaceTypeOK /\ VersionTypeOK /\ IndexTypeOK
  BY TypeParts
<1>2. IndexTypeOK' /\ OneDefaultIndex'
  BY <1>1, IndexTypeStep, OneDefaultIndexStep
<1>3. /\ \A v \in 1..versionSeq : v \in VersionId
      /\ \A i \in 1..indexSeq : i \in IndexId
  BY <1>1, BoundsAssumption DEF VersionTypeOK, VersionId, IndexTypeOK, IndexId
<1>4. ASSUME NEW v \in 1..versionSeq, NEW d \in BOOLEAN, NEW t, AddVectorIndex(v, d, t)
      PROVE  IndexSelection!Next
  <2>1. indexSeq + 1 \in IndexId
    BY <1>1, <1>4, BoundsAssumption DEF AddVectorIndex, IndexTypeOK, IndexId
  <2>2. IndexSelection!Add(indexSeq + 1, v, d)
    BY <1>1, <1>2, <1>3, <1>4, AddVectorIndexSelects
  <2>3. QED  BY <1>3, <2>1, <2>2 DEF IndexSelection!Next
<1>5. ASSUME NEW i \in 1..indexSeq, NEW v \in 1..versionSeq, NEW d \in BOOLEAN,
             NEW t \in Times, UpdateVectorIndex(i, v, d, t)
      PROVE  IndexSelection!Next \/ UNCHANGED IndexSelection!vars
  <2>1. \/ IndexSelection!Assign(i, v, d)
        \/ IndexSelection!Unchoose(v)
        \/ UNCHANGED IndexSelection!vars
    BY <1>1, <1>2, <1>3, <1>5, UpdateVectorIndexSelects
  <2>2. QED  BY <1>3, <2>1 DEF IndexSelection!Next
<1>6. ASSUME NEW i \in 1..indexSeq, DeleteVectorIndex(i)
      PROVE  IndexSelection!Next
  BY <1>1, <1>2, <1>3, <1>6, DeleteVectorIndexSelects DEF IndexSelection!Next
<1>7. ASSUME NEW s \in 1..spaceSeq, DeleteSpace(s)
      PROVE  IndexSelection!Next
  <2>1. VersionsOf(s) \in SUBSET VersionId
    BY <1>1, <1>3 DEF VersionTypeOK, VersionsOf
  <2>2. PICK O \in SUBSET VersionId : O = VersionsOf(s)
    BY <2>1
  <2>3. IndexSelection!RemoveOwners(O)
    BY <1>1, <1>2, <1>7, <2>2, DeleteSpaceDeselectsIndexes
  <2>4. QED  BY <2>3 DEF IndexSelection!Next
<1>8. ASSUME UNCHANGED index PROVE UNCHANGED IndexSelection!vars
  BY <1>8 DEF IndexSelection!vars, DefaultIndexOf, DefaultIndexes, IndexesOf
<1>9. QED
  BY <1>4, <1>5, <1>6, <1>7, <1>8
     DEF CatalogNext, catalogVars, indexTable, AddSpace, UpdateSpace,
         AddVersion, UpdateVersion, DeleteVersion

(* The indexes of versions implement Selection. *)
THEOREM IndexesSelect == CatalogSpec => IndexesAreASelection
<1>1. CatalogInit => IndexSelection!Init
  <2> SUFFICES ASSUME CatalogInit PROVE IndexSelection!Init
    OBVIOUS
  <2>1. index = << >>
    BY DEF CatalogInit, Empty
  <2>2. [i \in DOMAIN index |-> index[i].version] = << >>
    BY <2>1
  <2>3. DefaultIndexOf = << >>
    BY <2>1 DEF DefaultIndexOf, DefaultIndexes, IndexesOf
  <2>4. QED  BY <2>2, <2>3 DEF IndexSelection!Init, IndexSelection!Empty
<1>2. CatalogTypeOK /\ OneDefaultIndex /\ [CatalogNext]_catalogVars
        => [IndexSelection!Next]_IndexSelection!vars
  BY IndexSelectionStep
<1>3. QED
  BY <1>1, <1>2, CatalogTypeCorrect, OneDefaultIndexCorrect, PTL
     DEF CatalogSpec, IndexesAreASelection, IndexSelection!Spec

----------------------------------------------------------------------------
(* IdCache: an entry of the maps is never stale between two calls.          *)

(* Every version belongs to a space whose id was issued. *)
SpacesIssued == \A v \in DOMAIN version : version[v].space \in 1..spaceSeq

CacheInv ==
    /\ CatalogTypeOK
    /\ SpacesIssued
    /\ VersionLookupsCurrent
    /\ DefaultLookupsCurrent
    /\ IndexLookupsCurrent

----------------------------------------------------------------------------
(* The tables. *)

(* A call of the services does to the tables what a call of the managers    *)
(* may do.                                                                  *)
LEMMA TablesStep ==
    ASSUME CatalogTypeOK, SpacesIssued, [Next]_vars
    PROVE  [CatalogNext]_catalogVars
<1>1. /\ DOMAIN space \subseteq 1..spaceSeq /\ DOMAIN version \subseteq 1..versionSeq
  BY DEF CatalogTypeOK
<1>2. CASE UNCHANGED vars
  BY <1>2 DEF vars, catalogVars
<1>3. CASE Lookup
  BY <1>3 DEF Lookup, getDefaultUniqueVersionId, getSpaceId, getVersionId, getVectorIndexId,
              getSpaceNameAndVersionUniqueId, getSpaceNameAndVersionUniqueIdByVectorIndexId,
              clearSpaceNameCache, clean
<1>4. CASE ManagerCall
  <2>1. CASE \E n \in Names : addSpace(n)
    BY <2>1 DEF addSpace, CatalogNext
  <2>2. CASE \E s \in DOMAIN space : deleteSpace(s)
    BY <1>1, <2>2 DEF deleteSpace, CatalogNext
  <2>3. CASE \E s \in DOMAIN space, d \in BOOLEAN, t \in Times : addVersion(s, d, t)
    BY <1>1, <2>3 DEF addVersion, CatalogNext
  <2>4. CASE \E v \in DOMAIN version, d \in BOOLEAN, t \in Times :
               updateVersion(v, version[v].space, d, t)
    BY <1>1, <2>4 DEF updateVersion, CatalogNext, SpacesIssued
  <2>5. CASE \E v \in DOMAIN version : deleteVersion(v)
    BY <1>1, <2>5 DEF deleteVersion, CatalogNext
  <2>6. CASE \E v \in DOMAIN version, d \in BOOLEAN, t \in Times : addVectorIndex(v, d, t)
    BY <1>1, <2>6 DEF addVectorIndex, CatalogNext
  <2> QED  BY <1>4, <2>1, <2>2, <2>3, <2>4, <2>5, <2>6 DEF ManagerCall
<1> QED  BY <1>2, <1>3, <1>4 DEF Next

(* Versions are added to spaces that exist and never change their space.    *)
LEMMA IssuedStep ==
    ASSUME CatalogTypeOK, SpacesIssued, [Next]_vars
    PROVE  SpacesIssued'
<1>1. SpaceTypeOK /\ VersionTypeOK
  BY TypeParts
<1>2. spaceSeq \in Nat /\ spaceSeq + 1 \in Nat /\ DOMAIN space \subseteq 1..spaceSeq
  BY <1>1, BoundsAssumption DEF SpaceTypeOK
<1>3. CASE UNCHANGED version /\ UNCHANGED spaceSeq
  BY <1>3 DEF SpacesIssued
<1>4. ASSUME NEW n, addSpace(n) PROVE SpacesIssued'
  BY <1>2, <1>4 DEF addSpace, AddSpace, versionTable, SpacesIssued
<1>5. ASSUME NEW s, deleteSpace(s) PROVE SpacesIssued'
  <2>1. SpaceDeleted(s) /\ UNCHANGED spaceSeq
    BY <1>5, DeleteSpaceRows DEF deleteSpace, DeleteSpace
  <2> QED  BY <2>1 DEF SpaceDeleted, SpacesIssued
<1>6. ASSUME NEW s \in DOMAIN space, NEW d \in BOOLEAN, NEW t, addVersion(s, d, t)
      PROVE  SpacesIssued'
  <2>1. VersionAdded(s, d) /\ UNCHANGED spaceSeq
    BY <1>1, <1>6, AddVersionRows DEF addVersion, AddVersion, spaceTable
  <2> QED  BY <1>2, <2>1 DEF VersionAdded, SpacesIssued
<1>7. ASSUME NEW v \in DOMAIN version, NEW d \in BOOLEAN, NEW t,
             updateVersion(v, version[v].space, d, t)
      PROVE  SpacesIssued'
  <2>1. VersionUpdated(v, version[v].space, d) /\ UNCHANGED spaceSeq
    BY <1>1, <1>7, UpdateVersionRows DEF updateVersion, UpdateVersion, spaceTable
  <2> QED  BY <2>1 DEF VersionUpdated, SpacesIssued
<1>8. ASSUME NEW v, deleteVersion(v) PROVE SpacesIssued'
  <2>1. VersionDeleted(v) /\ UNCHANGED spaceSeq
    BY <1>1, <1>8, DeleteVersionRows DEF deleteVersion, DeleteVersion, spaceTable
  <2> QED  BY <2>1 DEF VersionDeleted, SpacesIssued
<1>9. ASSUME NEW v, NEW d, NEW t, addVectorIndex(v, d, t) PROVE SpacesIssued'
  BY <1>3, <1>9 DEF addVectorIndex, AddVectorIndex, spaceTable, versionTable
<1>10. ASSUME Lookup \/ UNCHANGED vars PROVE SpacesIssued'
  BY <1>3, <1>10 DEF Lookup, getDefaultUniqueVersionId, getSpaceId, getVersionId,
     getVectorIndexId, getSpaceNameAndVersionUniqueId,
     getSpaceNameAndVersionUniqueIdByVectorIndexId, clearSpaceNameCache, clean,
     vars, catalogVars
<1> QED  BY <1>4, <1>5, <1>6, <1>7, <1>8, <1>9, <1>10 DEF Next, ManagerCall

----------------------------------------------------------------------------
(* The maps. *)

(* The two directions of a lookup agree. *)
LEMMA BothDirections ==
    ASSUME NEW k, NEW v
    PROVE  /\ k \in KeysOf(v) => v \in VersionsAt(k)
           /\ v \in VersionsAt(k) /\ k = <<k[1], k[2]>> => k \in KeysOf(v)
BY DEF KeysOf, VersionsAt, VersionsNamed, VersionsOf, SpacesNamed

(* What getVersionId answers is current, and so is what it caches. *)
LEMMA ResolvedVersion ==
    ASSUME VersionLookupsCurrent, NEW n, NEW u, NEW v, ResolveVersion(<<n, u>>, v),
           UNCHANGED catalogVars
    PROVE  v \in VersionsAt(<<n, u>>) /\ VersionLookupsCurrent'
<1> DEFINE k == <<n, u>>
<1>1. k = <<k[1], k[2]>>
  OBVIOUS
<1>2. (\A j : VersionsAt(j)' = VersionsAt(j)) /\ (\A w : KeysOf(w)' = KeysOf(w))
  BY DEF catalogVars, VersionsAt, VersionsNamed, VersionsOf, SpacesNamed, KeysOf
<1> HIDE DEF k
<1>3. v \in VersionsAt(k)
  BY DEF ResolveVersion, VersionLookupsCurrent, k
<1>4. k \in KeysOf(v)
  BY <1>1, <1>3, BothDirections
<1>5. CASE UNCHANGED versionCaches
  BY <1>2, <1>3, <1>5 DEF versionCaches, VersionLookupsCurrent, k
<1>6. CASE CacheVersion(v, k)
  <2>1. \A j \in DOMAIN forwardCache' : forwardCache'[j] \in VersionsAt(j)
    BY <1>3, <1>6 DEF CacheVersion, Put, VersionLookupsCurrent
  <2>2. \A w \in DOMAIN reverseCache' : reverseCache'[w] \in KeysOf(w)
    BY <1>4, <1>6 DEF CacheVersion, Put, VersionLookupsCurrent
  <2> QED  BY <1>2, <1>3, <2>1, <2>2 DEF VersionLookupsCurrent, k
<1> QED  BY <1>5, <1>6 DEF ResolveVersion, k

(* The same for getSpaceNameAndVersionUniqueId. *)
LEMMA ResolvedKey ==
    ASSUME VersionLookupsCurrent, NEW v, NEW k, ResolveKey(v, k), UNCHANGED catalogVars
    PROVE  k \in KeysOf(v) /\ VersionLookupsCurrent'
<1>2. (\A j : VersionsAt(j)' = VersionsAt(j)) /\ (\A w : KeysOf(w)' = KeysOf(w))
  BY DEF catalogVars, VersionsAt, VersionsNamed, VersionsOf, SpacesNamed, KeysOf
<1>3. k \in KeysOf(v)
  BY DEF ResolveKey, VersionLookupsCurrent
<1>4. v \in VersionsAt(k)
  BY <1>3, BothDirections
<1>5. CASE UNCHANGED versionCaches
  BY <1>2, <1>3, <1>5 DEF versionCaches, VersionLookupsCurrent
<1>6. CASE CacheVersion(v, k)
  <2>1. \A j \in DOMAIN forwardCache' : forwardCache'[j] \in VersionsAt(j)
    BY <1>4, <1>6 DEF CacheVersion, Put, VersionLookupsCurrent
  <2>2. \A w \in DOMAIN reverseCache' : reverseCache'[w] \in KeysOf(w)
    BY <1>3, <1>6 DEF CacheVersion, Put, VersionLookupsCurrent
  <2> QED  BY <1>2, <1>3, <2>1, <2>2 DEF VersionLookupsCurrent
<1> QED  BY <1>5, <1>6 DEF ResolveKey

(* Caching an index that belongs to the version its key names. *)
LEMMA CachedIndex ==
    ASSUME IndexLookupsCurrent, UNCHANGED catalogVars,
           NEW i \in DOMAIN index, NEW k \in KeysOf(index[i].version), CacheIndex(i, k)
    PROVE  IndexLookupsCurrent'
<1>1. index' = index /\ \A w : KeysOf(w)' = KeysOf(w)
  BY DEF catalogVars, KeysOf
<1>2. \A j \in DOMAIN vectorIndexForwardCache' :
        j \in DOMAIN index /\ vectorIndexForwardCache'[j] \in KeysOf(index[j].version)
  BY DEF CacheIndex, Put, IndexLookupsCurrent
<1>3. \A m \in DOMAIN vectorIndexReverseCache' :
        LET j == vectorIndexReverseCache'[m]
        IN  j \in DOMAIN index /\ m \in KeysOf(index[j].version)
  BY DEF CacheIndex, Put, IndexLookupsCurrent
<1> QED  BY <1>1, <1>2, <1>3 DEF IndexLookupsCurrent

(* What a request for version 0 resolves to, and caches, is a default.      *)
LEMMA ResolvedDefault ==
    ASSUME DefaultLookupsCurrent, UNCHANGED catalogVars, NEW n, NEW u,
           \/ u \in DefaultUids(n) /\ spaceNameCache' = Put(spaceNameCache, n, u)
           \/ UNCHANGED spaceNameCache
    PROVE  DefaultLookupsCurrent'
<1> DEFINE Is(m, x) == \E v \in VersionsNamed(m) : version[v].dflt /\ version[v].uid = x
<1>1. version' = version /\ \A m : VersionsNamed(m)' = VersionsNamed(m)
  BY DEF catalogVars, VersionsNamed, VersionsOf, SpacesNamed
<1>2. \A m \in DOMAIN spaceNameCache : Is(m, spaceNameCache[m])
  BY DEF DefaultLookupsCurrent
<1>3. \A m \in DOMAIN spaceNameCache' : Is(m, spaceNameCache'[m])
  <2>1. CASE UNCHANGED spaceNameCache
    BY <1>2, <2>1
  <2>2. CASE u \in DefaultUids(n) /\ spaceNameCache' = Put(spaceNameCache, n, u)
    <3>1. Is(n, u)
      BY <1>2, <2>2 DEF DefaultUids
    <3> HIDE DEF Is
    <3> QED  BY <1>2, <2>2, <3>1 DEF Put
  <2> QED  BY <2>1, <2>2
<1> QED  BY <1>1, <1>3 DEF DefaultLookupsCurrent

(* Tables and maps that stay as they are. *)
LEMMA SameLookups ==
    ASSUME UNCHANGED catalogVars
    PROVE  /\ VersionLookupsCurrent /\ UNCHANGED versionCaches => VersionLookupsCurrent'
           /\ DefaultLookupsCurrent /\ UNCHANGED spaceNameCache => DefaultLookupsCurrent'
           /\ IndexLookupsCurrent /\ UNCHANGED indexCaches => IndexLookupsCurrent'
<1>1. /\ version' = version /\ index' = index
      /\ \A j : VersionsAt(j)' = VersionsAt(j)
      /\ \A w : KeysOf(w)' = KeysOf(w)
      /\ \A m : VersionsNamed(m)' = VersionsNamed(m)
  BY DEF catalogVars, VersionsAt, VersionsNamed, VersionsOf, SpacesNamed, KeysOf
<1>2. VersionLookupsCurrent /\ UNCHANGED versionCaches => VersionLookupsCurrent'
  BY <1>1 DEF VersionLookupsCurrent, versionCaches
<1>3. DefaultLookupsCurrent /\ UNCHANGED spaceNameCache => DefaultLookupsCurrent'
  BY <1>1 DEF DefaultLookupsCurrent
<1>4. IndexLookupsCurrent /\ UNCHANGED indexCaches => IndexLookupsCurrent'
  BY <1>1 DEF IndexLookupsCurrent, indexCaches
<1> QED  BY <1>2, <1>3, <1>4

(* Empty maps hold nothing stale. *)
LEMMA CleanedLookups ==
    ASSUME Cleaned
    PROVE  VersionLookupsCurrent' /\ DefaultLookupsCurrent' /\ IndexLookupsCurrent'
<1>1. DOMAIN Empty = {}
  BY DEF Empty
<1> QED  BY <1>1 DEF Cleaned, VersionLookupsCurrent, DefaultLookupsCurrent, IndexLookupsCurrent

----------------------------------------------------------------------------
(* The calls. *)

Lookups        == VersionLookupsCurrent /\ DefaultLookupsCurrent /\ IndexLookupsCurrent
LookupsCurrent == CatalogTypeOK /\ Lookups

(* A lookup by name and number. *)
LEMMA NamedLookups ==
    ASSUME LookupsCurrent, NEW n, NEW r, getVersionId(n, r) \/ getVectorIndexId(n, r)
    PROVE  Lookups'
<1>1. UNCHANGED catalogVars
  BY DEF getVersionId, getVectorIndexId
<1>2. PICK u \in Uids(n, r) :
        /\ spaceNameCache' = CachedDefault(n, r, u)
        /\ \/ /\ UNCHANGED indexCaches
              /\ \/ UNCHANGED versionCaches
                 \/ \E v \in VersionId : ResolveVersion(<<n, u>>, v)
           \/ \E v \in VersionId : \E i \in DefaultIndexes(v) :
                ResolveVersion(<<n, u>>, v) /\ CacheIndex(i, <<n, u>>)
  BY DEF getVersionId, getVectorIndexId, NoVersion, indexCaches, versionCaches
<1>3. DefaultLookupsCurrent'
  BY <1>1, <1>2, ResolvedDefault DEF LookupsCurrent, Lookups, Uids, CachedDefault
<1>4. CASE UNCHANGED indexCaches /\ UNCHANGED versionCaches
  BY <1>1, <1>3, <1>4, SameLookups DEF LookupsCurrent, Lookups
<1>5. CASE UNCHANGED indexCaches /\ \E v \in VersionId : ResolveVersion(<<n, u>>, v)
  BY <1>1, <1>3, <1>5, SameLookups, ResolvedVersion DEF LookupsCurrent, Lookups
<1>6. CASE \E v \in VersionId : \E i \in DefaultIndexes(v) :
             ResolveVersion(<<n, u>>, v) /\ CacheIndex(i, <<n, u>>)
  <2>0. PICK v \in VersionId : \E i \in DefaultIndexes(v) :
               ResolveVersion(<<n, u>>, v) /\ CacheIndex(i, <<n, u>>)
    BY <1>6
  <2>1. PICK i \in DefaultIndexes(v) :
               ResolveVersion(<<n, u>>, v) /\ CacheIndex(i, <<n, u>>)
    BY <2>0
  <2>2. v \in VersionsAt(<<n, u>>) /\ VersionLookupsCurrent'
    BY <1>1, <2>1, ResolvedVersion DEF LookupsCurrent, Lookups
  <2>3. <<n, u>> \in KeysOf(v)
    BY <2>2, BothDirections
  <2>4. i \in DOMAIN index /\ index[i].version = v
    BY DEF DefaultIndexes, IndexesOf
  <2>5. IndexLookupsCurrent'
    BY <1>1, <2>1, <2>3, <2>4, CachedIndex DEF LookupsCurrent, Lookups
  <2> QED  BY <1>3, <2>2, <2>5 DEF Lookups
<1> QED  BY <1>2, <1>4, <1>5, <1>6

(* Every lookup. *)
LEMMA LookupsStep ==
    ASSUME LookupsCurrent, Lookup
    PROVE  Lookups'
<1>1. ASSUME NEW n, getDefaultUniqueVersionId(n) PROVE Lookups'
  BY <1>1, SameLookups, ResolvedDefault
     DEF getDefaultUniqueVersionId, LookupsCurrent, Lookups
<1>2. ASSUME NEW n, getSpaceId(n) PROVE Lookups'
  BY <1>2, SameLookups DEF getSpaceId, LookupsCurrent, Lookups
<1>3. ASSUME NEW v, getSpaceNameAndVersionUniqueId(v) PROVE Lookups'
  BY <1>3, SameLookups, ResolvedKey
     DEF getSpaceNameAndVersionUniqueId, LookupsCurrent, Lookups
<1>4. ASSUME NEW i, getSpaceNameAndVersionUniqueIdByVectorIndexId(i) PROVE Lookups'
  <2>1. /\ UNCHANGED catalogVars /\ UNCHANGED spaceNameCache /\ i \in DOMAIN index
    BY <1>4 DEF getSpaceNameAndVersionUniqueIdByVectorIndexId
  <2>2. PICK k : ResolveKey(index[i].version, k) /\ CacheIndex(i, k)
    BY <1>4 DEF getSpaceNameAndVersionUniqueIdByVectorIndexId
  <2>3. k \in KeysOf(index[i].version) /\ VersionLookupsCurrent'
    BY <2>1, <2>2, ResolvedKey DEF LookupsCurrent, Lookups
  <2>4. IndexLookupsCurrent'
    BY <2>1, <2>2, <2>3, CachedIndex DEF LookupsCurrent, Lookups
  <2> QED  BY <2>1, <2>3, <2>4, SameLookups DEF LookupsCurrent, Lookups
<1>5. ASSUME clearSpaceNameCache PROVE Lookups'
  <2>1. DefaultLookupsCurrent'
    <3>1. DOMAIN Empty = {}
      BY DEF Empty
    <3> QED  BY <1>5, <3>1 DEF clearSpaceNameCache, DefaultLookupsCurrent
  <2> QED  BY <1>5, <2>1, SameLookups DEF clearSpaceNameCache, LookupsCurrent, Lookups
<1>6. ASSUME clean PROVE Lookups'
  BY <1>6, CleanedLookups DEF clean, Lookups
<1> QED  BY <1>1, <1>2, <1>3, <1>4, <1>5, <1>6, NamedLookups DEF Lookup

(* addSpace leaves the maps alone: a new space adds answers, and takes none *)
(* away.                                                                    *)
LEMMA AddSpaceStep ==
    ASSUME LookupsCurrent, NEW n, addSpace(n)
    PROVE  Lookups'
<1>1. /\ \A s \in DOMAIN space : s \in DOMAIN space' /\ space'[s] = space[s]
      /\ version' = version /\ index' = index /\ UNCHANGED cacheVars
  <2>1. space' = Put(space, spaceSeq + 1, n)
    BY DEF addSpace, AddSpace, NextId
  <2>2. spaceSeq + 1 \notin DOMAIN space
    BY BoundsAssumption DEF LookupsCurrent, CatalogTypeOK
  <2>3. version' = version /\ index' = index /\ UNCHANGED cacheVars
    BY DEF addSpace, AddSpace, versionTable, indexTable
  <2>4. \A s \in DOMAIN space : s \in DOMAIN space' /\ space'[s] = space[s]
    BY <2>1, <2>2 DEF Put
  <2> QED  BY <2>3, <2>4
<1>2. /\ \A m : VersionsNamed(m) \subseteq VersionsNamed(m)'
      /\ \A v : KeysOf(v) \subseteq KeysOf(v)'
  BY <1>1 DEF VersionsNamed, VersionsOf, SpacesNamed, KeysOf
<1>3. \A k : VersionsAt(k) \subseteq VersionsAt(k)'
  BY <1>1, <1>2 DEF VersionsAt
<1>4. VersionLookupsCurrent'
  BY <1>1, <1>2, <1>3 DEF LookupsCurrent, Lookups, VersionLookupsCurrent, cacheVars, versionCaches
<1>5. DefaultLookupsCurrent'
  BY <1>1, <1>2 DEF LookupsCurrent, Lookups, DefaultLookupsCurrent, cacheVars
<1>6. IndexLookupsCurrent'
  BY <1>1, <1>2 DEF LookupsCurrent, Lookups, IndexLookupsCurrent, cacheVars, indexCaches
<1> QED  BY <1>4, <1>5, <1>6 DEF Lookups

(* addVectorIndex leaves them alone as well: an index keeps its version.    *)
LEMMA AddIndexStep ==
    ASSUME LookupsCurrent, NEW v, NEW d \in BOOLEAN, NEW t, addVectorIndex(v, d, t)
    PROVE  Lookups'
<1>1. /\ \A i \in DOMAIN index : i \in DOMAIN index' /\ index'[i].version = index[i].version
      /\ version' = version /\ space' = space /\ UNCHANGED cacheVars
  <2>1. IndexTypeOK
    BY TypeParts DEF LookupsCurrent
  <2>2. IndexAdded(v, d)
    BY <2>1, AddVectorIndexRows DEF addVectorIndex
  <2> QED  BY <2>2 DEF IndexAdded, addVectorIndex, AddVectorIndex, spaceTable, versionTable
<1>2. /\ \A m : VersionsNamed(m)' = VersionsNamed(m)
      /\ \A w : KeysOf(w)' = KeysOf(w)
      /\ \A k : VersionsAt(k)' = VersionsAt(k)
  BY <1>1 DEF VersionsNamed, VersionsOf, SpacesNamed, KeysOf, VersionsAt
<1>3. VersionLookupsCurrent'
  BY <1>1, <1>2 DEF LookupsCurrent, Lookups, VersionLookupsCurrent, cacheVars, versionCaches
<1>4. DefaultLookupsCurrent'
  BY <1>1, <1>2 DEF LookupsCurrent, Lookups, DefaultLookupsCurrent, cacheVars
<1>5. IndexLookupsCurrent'
  BY <1>1, <1>2 DEF LookupsCurrent, Lookups, IndexLookupsCurrent, cacheVars, indexCaches
<1> QED  BY <1>3, <1>4, <1>5 DEF Lookups

(* Each call either cleans the maps or adds to the tables.                  *)
LEMMA CacheStep ==
    ASSUME CacheInv, [Next]_vars
    PROVE  CacheInv'
<1>1. CatalogTypeOK' /\ SpacesIssued'
  BY TablesStep, IssuedStep, CatalogTypeStep DEF CacheInv
<1>2. LookupsCurrent
  BY DEF CacheInv, LookupsCurrent, Lookups
<1>3. Lookups'
  <2>1. ASSUME UNCHANGED vars PROVE Lookups'
    BY <1>2, <2>1, SameLookups DEF vars, cacheVars, LookupsCurrent, Lookups
  <2>2. ASSUME Lookup PROVE Lookups'
    BY <1>2, <2>2, LookupsStep
  <2>3. ASSUME ManagerCall PROVE Lookups'
    <3>1. CASE Cleaned
      BY <3>1, CleanedLookups DEF Lookups
    <3>2. CASE ~Cleaned
      <4>1. \/ \E n \in Names : addSpace(n)
            \/ \E v \in DOMAIN version, d \in BOOLEAN, t \in Times : addVectorIndex(v, d, t)
        BY <2>3, <3>2 DEF ManagerCall, deleteSpace, addVersion, updateVersion, deleteVersion
      <4> QED  BY <1>2, <4>1, AddSpaceStep, AddIndexStep
    <3> QED  BY <3>1, <3>2
  <2> QED  BY <2>1, <2>2, <2>3 DEF Next
<1> QED  BY <1>1, <1>3 DEF CacheInv, Lookups

(* No map has an entry at the start. *)
LEMMA CacheStart == Init => CacheInv
<1>1. DOMAIN Empty = {}
  BY DEF Empty
<1>2. CatalogInit => CatalogTypeOK /\ SpacesIssued
  BY BoundsAssumption DEF CatalogInit, CatalogTypeOK, SpacesIssued, Empty
<1> QED  BY <1>1, <1>2 DEF Init, CacheInv, VersionLookupsCurrent, DefaultLookupsCurrent,
                        IndexLookupsCurrent

----------------------------------------------------------------------------
(* A cached version id is one the database would still return (getVersionId *)
(* and getSpaceNameAndVersionUniqueId of IdCacheImpl.cpp), although numbers *)
(* are reused after a deletion.                                             *)
THEOREM VersionLookupsCorrect == Spec => []VersionLookupsCurrent
<1>1. CacheInv => VersionLookupsCurrent
  BY DEF CacheInv
<1>2. CacheInv /\ [Next]_vars => CacheInv'
  BY CacheStep
<1> QED  BY <1>1, <1>2, CacheStart, PTL DEF Spec

(* Version 0 of a cached name is a default version of that name             *)
(* (getDefaultUniqueVersionId), wherever the managers move the flag.        *)
THEOREM DefaultLookupsCorrect == Spec => []DefaultLookupsCurrent
<1>1. CacheInv => DefaultLookupsCurrent
  BY DEF CacheInv
<1>2. CacheInv /\ [Next]_vars => CacheInv'
  BY CacheStep
<1> QED  BY <1>1, <1>2, CacheStart, PTL DEF Spec

(* A cached index exists and belongs to the version it is cached for        *)
(* (getVectorIndexId and its reverse), although deleteVersion leaves        *)
(* orphaned index rows behind.                                              *)
THEOREM IndexLookupsCorrect == Spec => []IndexLookupsCurrent
<1>1. CacheInv => IndexLookupsCurrent
  BY DEF CacheInv
<1>2. CacheInv /\ [Next]_vars => CacheInv'
  BY CacheStep
<1> QED  BY <1>1, <1>2, CacheStart, PTL DEF Spec

(* The lookups and calls of IdCache change the tables as Catalog allows, so   *)
(* what holds of every history of the managers holds of those with a cache.  *)
THEOREM CachedCatalog == Spec => CatalogSpec
<1>1. Init => CatalogInit
  BY DEF Init
<1>2. CacheInv /\ [Next]_vars => [CatalogNext]_catalogVars
  BY TablesStep DEF CacheInv
<1>3. CacheInv /\ [Next]_vars => CacheInv'
  BY CacheStep
<1> QED  BY <1>1, <1>2, <1>3, CacheStart, PTL DEF Spec, CatalogSpec

=============================================================================
