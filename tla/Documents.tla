------------------------------- MODULE Documents -------------------------------
(***************************************************************************)
(* What filterVectors and queryVectors answer from the tables of Upserts:   *)
(* the rows of VectorMetadata that a filter selects.                        *)
(***************************************************************************)
EXTENDS Filter, Upserts

ASSUME RowsAssumption == Rows \subseteq [key : Keys, value : Values]

(* The filters that select a row of v. *)
Found(v, outer) == IF RowsOf(v) = {} THEN {} ELSE Selects[outer][RowsOf(v)]

(* filterVectors has no version: of the vectors that have a unique_id it    *)
(* takes the last one it reads.  For each result, the filters that keep it. *)
Picks(results) ==
    LET uids == {results[i].uid : i \in DOMAIN results} \cap {vector[v].uid : v \in DOMAIN vector}
    IN  {p \in [uids -> DOMAIN vector] : \A u \in uids : vector[p[u]].uid = u}
filterVectors(results) ==
    {[i \in DOMAIN results |->
        IF results[i].uid \in DOMAIN p THEN Found(p[results[i].uid], TRUE) ELSE {}] : p \in Picks(results)}

(* queryVectors and getVectorsByVectorIds, all pages of them: the filters   *)
(* that list each vector.                                                   *)
Listed(version) ==
    [v \in DOMAIN vector |->
        UNION {Found(v, m.version = version) : m \in {n \in metadata : n.vector = v}}]

----------------------------------------------------------------------------
(* Properties. *)

(* A filter keeps of the results of a search, and of the vectors of a       *)
(* version, those whose metadata are as it says (SearchServiceTest.cpp:510  *)
(* "only two results are returned with category 'A'"), and none without     *)
(* metadata.  For searches, as long as no other version has the unique_id.  *)
FilterAgrees ==
    \A v \in DOMAIN vector :
        LET wanted == IF RowsOf(v) = {} THEN {} ELSE Meaning[RowsOf(v)]
        IN  /\ (\A w \in DOMAIN vector : vector[w].uid = vector[v].uid => w = v)
               => filterVectors(<<[uid |-> vector[v].uid, distance |-> 1]>>) = {<<wanted>>}
            /\ Listed(vector[v].version)[v] = wanted

(* A filter never brings a vector of another version into a listing: the    *)
(* condition is put after "versionId = ? AND " without parentheses.         *)
ListingsStayInVersion ==
    \A version \in Versions, v \in DOMAIN vector :
        Listed(version)[v] # {} => vector[v].version = version
=============================================================================
