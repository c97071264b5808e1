------------------------------ MODULE Catalog ------------------------------
(***************************************************************************)
(* The SQLite tables Space, Version and VectorIndex and the managers that   *)
(* write them (SpaceManager, VersionManager, VectorIndexManager).           *)
(*                                                                         *)
(* A table is a function from the ids of its live rows to the columns the   *)
(* program's behaviour depends on.  Each action is one manager call: its    *)
(* statements run in one SQLite transaction and are atomic here.  Foreign   *)
(* keys are declared by the schema and enforced by nobody (no PRAGMA), so   *)
(* a caller that still holds the id of a deleted row may pass it.           *)
(***************************************************************************)
EXTENDS Naturals, FiniteSets, Tables

CONSTANTS
    Names,       \* space names
    Times,       \* readings of the wall clock, in seconds (it may be set back)
    MaxSpace,    \* bound: rows ever inserted into Space
    MaxVersion,  \* bound: rows ever inserted into Version
    MaxIndex     \* bound: rows ever inserted into VectorIndex

ASSUME TimesAssumption == Times \subseteq Nat

ASSUME BoundsAssumption ==
    MaxSpace \in Nat /\ MaxVersion \in Nat /\ MaxIndex \in Nat

VARIABLES
    space,       \* Space:       id -> name
    version,     \* Version:     id -> [space, uid, created, dflt]
    index,       \* VectorIndex: id -> [version, created, dflt]
    spaceSeq,    \* AUTOINCREMENT counters: the highest id ever issued
    versionSeq,
    indexSeq

spaceTable   == <<space, spaceSeq>>
versionTable == <<version, versionSeq>>
indexTable   == <<index, indexSeq>>
catalogVars  == <<space, spaceSeq, version, versionSeq, index, indexSeq>>

----------------------------------------------------------------------------
(* Tables. *)

SpaceId   == 1..MaxSpace
VersionId == 1..MaxVersion
IndexId   == 1..MaxIndex

VersionRow == [space : SpaceId, uid : VersionId, created : Times, dflt : BOOLEAN]
IndexRow   == [version : VersionId, created : Times, dflt : BOOLEAN]

VersionsOf(s)      == {v \in DOMAIN version : version[v].space = s}
DefaultVersions(s) == {v \in VersionsOf(s) : version[v].dflt}
IndexesOf(v)       == {i \in DOMAIN index : index[i].version = v}
DefaultIndexes(v)  == {i \in IndexesOf(v) : index[i].dflt}

(* INTEGER PRIMARY KEY AUTOINCREMENT: above every id the table ever held. *)
NextRowid(table, seq) ==   \* faulty variant: without AUTOINCREMENT
    1 + (CHOOSE m \in DOMAIN table \cup {0} : \A x \in DOMAIN table : x <= m)
NextId(table, seq) == seq + 1

(* SELECT IFNULL(MAX(unique_id), 0) + 1 FROM Version WHERE spaceId = s *)
IsCountUid(s, u) == u = 1 + Cardinality(VersionsOf(s))   \* faulty variant: COUNT(*) + 1
IsNextUid(s, u) ==
    /\ \A v \in VersionsOf(s) : version[v].uid < u
    /\ u = 1 \/ \E v \in VersionsOf(s) : u = version[v].uid + 1

(* UPDATE ... SET is_default = 0 WHERE the row is in S *)
NotCleared(table, S) == table   \* faulty variant
Cleared(table, S) ==
    [x \in DOMAIN table |-> IF x \in S THEN [table[x] EXCEPT !.dflt = FALSE]
                            ELSE table[x]]

(* The rows of S a query ORDER BY created DESC LIMIT 1 may return. *)
MostRecent(table, S) ==
    {x \in S : \A y \in S : table[y].created <= table[x].created}

(* What is left of a table when row x is deleted: if x was the default, one *)
(* of the most recent rows of its group becomes the default.                *)
DeletedOnly(table, x, group) == {Drop(table, {x})}   \* faulty variant: no heir
DeletedRow(table, x, group) ==
    LET rest  == Drop(table, {x})
        heirs == MostRecent(table, group \ {x})
    IN  IF table[x].dflt /\ heirs # {}
        THEN {[rest EXCEPT ![h].dflt = TRUE] : h \in heirs}
        ELSE {rest}

CatalogInit ==
    /\ space = Empty   /\ spaceSeq = 0
    /\ version = Empty /\ versionSeq = 0
    /\ index = Empty   /\ indexSeq = 0

----------------------------------------------------------------------------
(* SpaceManager. *)

(* addSpace: no check that the name is new. *)
AddUncounted(n) ==   \* faulty variant: the counter is not advanced
    /\ spaceSeq < MaxSpace
    /\ space' = Put(space, NextId(space, spaceSeq), n)
    /\ UNCHANGED <<spaceSeq, versionTable, indexTable>>
AddSpace(n) ==
    /\ spaceSeq < MaxSpace
    /\ spaceSeq' = spaceSeq + 1
    /\ space' = Put(space, NextId(space, spaceSeq), n)
    /\ UNCHANGED <<versionTable, indexTable>>

(* updateSpace: writes the name its caller put into the Space object. *)
UpdateSpace(s, n) ==
    /\ s \in DOMAIN space
    /\ space' = [space EXCEPT ![s] = n]
    /\ UNCHANGED <<spaceSeq, versionTable, indexTable>>

(* deleteSpace: the versions of the space, their indexes and the space; the *)
(* rows of other tables are in VectorStore.                                 *)
DeleteSpace(s) ==
    /\ s \in DOMAIN space
    /\ index' = Drop(index, UNION {IndexesOf(v) : v \in VersionsOf(s)})
    /\ version' = Drop(version, VersionsOf(s))
    /\ space' = Drop(space, {s})
    /\ UNCHANGED <<spaceSeq, versionSeq, indexSeq>>

----------------------------------------------------------------------------
(* VersionManager. *)

(* addVersion: s is a space id its caller read earlier. *)
AddVersion(s, asDefault, t) ==
    /\ versionSeq < MaxVersion
    /\ \E u \in VersionId :
         /\ IsNextUid(s, u)
         /\ version' =
              Put(IF asDefault THEN Cleared(version, VersionsOf(s)) ELSE version,
                  NextId(version, versionSeq),
                  [space |-> s, uid |-> u, created |-> t,
                   dflt |-> asDefault \/ DefaultVersions(s) = {}])
    /\ versionSeq' = versionSeq + 1
    /\ UNCHANGED <<spaceTable, indexTable>>

(* updateVersion: the object came from an earlier read of row v in space s; *)
(* the row may have been deleted since, and then only the others change.    *)
(* The creation time t is what its caller has left in the object.           *)
UpdateVersion(v, s, asDefault, t) ==
    /\ v \in DOMAIN version => s = version[v].space
    /\ LET others == IF asDefault THEN Cleared(version, VersionsOf(s) \ {v})
                     ELSE version
       IN  version' = IF v \in DOMAIN version
                      THEN [others EXCEPT ![v].created = t, ![v].dflt = asDefault]
                      ELSE others
    /\ UNCHANGED <<versionSeq, spaceTable, indexTable>>

(* deleteVersion: the rows of VectorIndex that point to it stay. *)
DeleteVersion(v) ==
    /\ v \in DOMAIN version
    /\ version' \in DeletedRow(version, v, VersionsOf(version[v].space))
    /\ UNCHANGED <<versionSeq, spaceTable, indexTable>>

----------------------------------------------------------------------------
(* VectorIndexManager. *)

(* addVectorIndex: v is a version id its caller read earlier. *)
AddVectorIndex(v, asDefault, t) ==
    /\ indexSeq < MaxIndex
    /\ index' = Put(IF asDefault THEN Cleared(index, IndexesOf(v)) ELSE index,
                    NextId(index, indexSeq),
                    [version |-> v, created |-> t, dflt |-> asDefault])
    /\ indexSeq' = indexSeq + 1
    /\ UNCHANGED <<spaceTable, versionTable>>

(* updateVectorIndex: also writes versionId, so it can move the index. *)
UpdateInOldVersion(i, v, asDefault, t) ==   \* faulty variant: clears the version it leaves
    /\ i \in DOMAIN index
    /\ index' = [(IF asDefault THEN Cleared(index, IndexesOf(index[i].version)) ELSE index)
                    EXCEPT ![i] = [version |-> v, created |-> t, dflt |-> asDefault]]
    /\ UNCHANGED <<indexSeq, spaceTable, versionTable>>
UpdateVectorIndex(i, v, asDefault, t) ==
    /\ LET others == IF asDefault THEN Cleared(index, IndexesOf(v) \ {i})
                     ELSE index
       IN  index' = IF i \in DOMAIN index
                    THEN [others EXCEPT ![i] = [version |-> v, created |-> t, dflt |-> asDefault]]
                    ELSE others
    /\ UNCHANGED <<indexSeq, spaceTable, versionTable>>

DeleteVectorIndex(i) ==
    /\ i \in DOMAIN index
    /\ index' \in DeletedRow(index, i, IndexesOf(index[i].version))
    /\ UNCHANGED <<indexSeq, spaceTable, versionTable>>

----------------------------------------------------------------------------
(* Every call a client of the managers can make.  A caller can pass any id  *)
(* that was issued, whether or not its row still exists.                    *)

CatalogNext ==
    \/ \E n \in Names : AddSpace(n)
    \/ \E s \in 1..spaceSeq, n \in Names : UpdateSpace(s, n)
    \/ \E s \in 1..spaceSeq : DeleteSpace(s)
    \/ \E s \in 1..spaceSeq, d \in BOOLEAN, t \in Times : AddVersion(s, d, t)
    \/ \E v \in 1..versionSeq, s \in 1..spaceSeq, d \in BOOLEAN, t \in Times :
         UpdateVersion(v, s, d, t)
    \/ \E v \in 1..versionSeq : DeleteVersion(v)
    \/ \E v \in 1..versionSeq, d \in BOOLEAN, t \in Times : AddVectorIndex(v, d, t)
    \/ \E i \in 1..indexSeq, v \in 1..versionSeq, d \in BOOLEAN, t \in Times :
         UpdateVectorIndex(i, v, d, t)
    \/ \E i \in 1..indexSeq : DeleteVectorIndex(i)

CatalogSpec == CatalogInit /\ [][CatalogNext]_catalogVars

----------------------------------------------------------------------------
(* The catalog implements Selection, once for the versions of spaces and    *)
(* once for the indexes of versions.                                        *)

DefaultVersionOf ==
    [s \in {s \in SpaceId : DefaultVersions(s) # {}} |->
        CHOOSE v \in DefaultVersions(s) : TRUE]

DefaultIndexOf ==
    [v \in {v \in VersionId : DefaultIndexes(v) # {}} |->
        CHOOSE i \in DefaultIndexes(v) : TRUE]

VersionSelection ==
    INSTANCE Selection WITH Items <- VersionId, Owners <- SpaceId, Eager <- TRUE,
        owner <- [v \in DOMAIN version |-> version[v].space],
        chosen <- DefaultVersionOf

IndexSelection ==
    INSTANCE Selection WITH Items <- IndexId, Owners <- VersionId, Eager <- FALSE,
        owner <- [i \in DOMAIN index |-> index[i].version],
        chosen <- DefaultIndexOf

----------------------------------------------------------------------------
(* Properties. *)

(* Rows hold values of their columns' types, and no id is above its counter. *)
CatalogTypeOK ==
    /\ spaceSeq \in 0..MaxSpace
    /\ versionSeq \in 0..MaxVersion
    /\ indexSeq \in 0..MaxIndex
    /\ DOMAIN space \subseteq 1..spaceSeq
    /\ DOMAIN version \subseteq 1..versionSeq
    /\ DOMAIN index \subseteq 1..indexSeq
    /\ space \in [DOMAIN space -> Names]
    /\ version \in [DOMAIN version -> VersionRow]
    /\ index \in [DOMAIN index -> IndexRow]

(* A space has at most one default version, whatever mix of inserts,        *)
(* updates with stale objects and deletions the managers are given: every   *)
(* "is_default = 1" query of the program takes the first row it finds.      *)
OneDefaultVersion ==
    \A v, w \in DOMAIN version :
        /\ version[v].space = version[w].space
        /\ version[v].dflt
        /\ version[w].dflt
        => v = w

(* A version has at most one default index, although addVectorIndex,        *)
(* updateVectorIndex (which may move an index to another version) and       *)
(* deleteVectorIndex each maintain the flag in their own way.               *)
OneDefaultIndex ==
    \A i, j \in DOMAIN index :
        /\ index[i].version = index[j].version
        /\ index[i].dflt
        /\ index[j].dflt
        => i = j

(* Within a space a unique_id names one version, although MAX(unique_id)+1  *)
(* hands out the same number again after the newest version is deleted: the *)
(* program's external names for versions are (space name, unique_id).       *)
UidNamesOneVersion ==
    \A v, w \in DOMAIN version :
        version[v].space = version[w].space /\ version[v].uid = version[w].uid
        => v = w

(* A space that has a default version and keeps some version keeps a        *)
(* default, unless updateVersion cleared the flags: no other call may leave *)
(* a space whose name no longer resolves without an explicit version.       *)
DefaultVersionKept ==
    [][\A s \in SpaceId :
         DefaultVersions(s) # {} /\ VersionsOf(s)' # {}
         => \/ DefaultVersions(s)' # {}
            \/ \E v \in 1..versionSeq, d \in BOOLEAN, t \in Times : UpdateVersion(v, s, d, t)]_catalogVars

(* An id that was issued and deleted is never a row again (AUTOINCREMENT):  *)
(* the caches, the index files and the orphans deleteVersion leaves behind  *)
(* are keyed by these ids and would attach to the wrong row.                *)
DeadIdsStayDead ==
    [][/\ \A s \in 1..spaceSeq : s \in DOMAIN space' => s \in DOMAIN space
       /\ \A v \in 1..versionSeq : v \in DOMAIN version' => v \in DOMAIN version
       /\ \A i \in 1..indexSeq : i \in DOMAIN index' => i \in DOMAIN index]_catalogVars

(* A space's default version moves only as Selection allows: the first      *)
(* version becomes it, deleting it hands it on inside the same space, and   *)
(* deleting a space touches no other space's default.                       *)
VersionsAreASelection == VersionSelection!Spec

(* The same for a version's default index: an index added or updated as the *)
(* default takes the flag from one sibling at most, moving an index to      *)
(* another version never leaves its flag behind.                            *)
IndexesAreASelection == IndexSelection!Spec
=============================================================================
