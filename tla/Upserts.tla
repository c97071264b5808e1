-------------------------------- MODULE Upserts --------------------------------
(***************************************************************************)
(* Metadata and documents of vectors: upsert as the loop over a request     *)
(* that it is, one transaction per row, and the ranking of BM25Manager and  *)
(* RerankService over these tables.                                         *)
(*                                                                         *)
(* A version stands for its space.  Embeddings and index are VectorStore's: *)
(* any results, with any unique_ids, may come from a search.  A request     *)
(* names its unique_ids (VectorStore numbers those that do not), a document *)
(* either has the one token of the query or not, and of its score only the  *)
(* order is modelled: fewer tokens are better.  Rows of metadata that are   *)
(* alike are one, so that the count and the pages of queryVectors are left  *)
(* out.                                                                     *)
(***************************************************************************)
EXTENDS Integers, Sequences, FiniteSets, Tables

CONSTANTS
    Rows,         \* of metadata: what stands in the columns key and value
    Versions, Uids, Threads,
    Requests,     \* sequences of items [uid, metadata, doc], the last two optional
    MaxCalls,     \* bound: upserts
    MaxVector,    \* bound: the ids of vectors
    MaxDocuments, \* bound: the rows of BM25
    MaxLength,    \* bound: tokens of a document
    NoCall

Optional(S) == {{}} \cup {{x} : x \in S}
Doc  == [hit : BOOLEAN, length : 1..MaxLength]
Item == [uid : Uids, metadata : Optional(SUBSET Rows), doc : Optional(Doc)]

ASSUME UpsertAssumption ==
    /\ MaxCalls \in Nat /\ MaxVector \in Nat /\ MaxDocuments \in Nat /\ MaxLength \in Nat
    /\ Requests \subseteq Seq(Item)

VARIABLES
    versions,     \* those that were not deleted
    vector,       \* id -> [version, uid]
    vectorSeq,    \* AUTOINCREMENT counter
    metadata,     \* [vector, row, version]: the rows of VectorMetadata
    bm25,         \* the rows of BM25 in the order of their ids
    call,         \* thread -> the upsert it is in, at item c.sent[c.at]
    calls,        \* the number of upserts so far
    given,        \* history: id -> the metadata and the last document it was given
    mixed         \* history: ids whose metadata overlapping upserts have written

tables  == <<versions, vector, vectorSeq, metadata, bm25>>
docVars == <<tables, call, calls, given, mixed>>

VectorId == 1..MaxVector

RowsOf(v) == {m.row : m \in {n \in metadata : n.vector = v}}
VectorsNamed(version, uid) ==
    {v \in DOMAIN vector : vector[v].version = version /\ vector[v].uid = uid}
UnderWay == {t \in Threads : call[t] # NoCall}
Overlapped(c) == [t \in Threads |-> IF c[t] = NoCall THEN NoCall ELSE [c[t] EXCEPT !.alone = FALSE]]

----------------------------------------------------------------------------
(* upsert *)

Begin(t, version, request) ==
    /\ call[t] = NoCall
    /\ version \in versions
    /\ calls < MaxCalls   \* bound
    /\ calls' = calls + 1
    /\ LET began == [call EXCEPT ![t] =
                 [version |-> version, sent |-> request, at |-> 1, pc |-> "vector",
                  id |-> 0, rows |-> {}, alone |-> TRUE]]
       IN  call' = IF UnderWay = {} THEN began ELSE Overlapped(began)
    /\ UNCHANGED <<tables, given, mixed>>

(* Where the loop goes from here, with the rest of the item to do. *)
ItemOf(c)   == c.sent[c.at]
NextItem(c) == [c EXCEPT !.pc = "vector", !.at = @ + 1]
WithDoc(c)  == IF ItemOf(c).doc # {} THEN [c EXCEPT !.pc = "document"] ELSE NextItem(c)
Ended(c)    == c.at > Len(c.sent)

(* addVector; the id is AUTOINCREMENT. *)
NextRowid == 1 + Cardinality(DOMAIN vector)   \* faulty variant: ids are counted
NextId    == vectorSeq + 1
AddVector(t) ==
    /\ call[t] # NoCall /\ call[t].pc = "vector" /\ ~Ended(call[t])
    /\ LET item  == ItemOf(call[t])
           found == VectorsNamed(call[t].version, item.uid)
       IN  \E v \in IF found # {} THEN found ELSE {NextId} \cap VectorId :
             LET c == [call[t] EXCEPT !.id = v]
             IN  /\ call' = [call EXCEPT ![t] =
                       IF item.metadata # {} THEN [c EXCEPT !.pc = "clear"] ELSE WithDoc(c)]
                 /\ IF found # {} THEN UNCHANGED <<vector, vectorSeq, given>>
                    ELSE /\ vector' = Put(vector, v, [version |-> c.version, uid |-> item.uid])
                         /\ vectorSeq' = v
                         /\ given' = Put(given, v, [metadata |-> {{}}, doc |-> {}])
    /\ UNCHANGED <<versions, metadata, bm25, mixed>>

(* deleteVectorMetadataByVectorId *)
DeleteNothing(v, version)    == metadata   \* faulty variant: old keys stay
DeleteMetadataOf(v, version) == {m \in metadata : m.vector # v}
DeleteMetadata(t) ==
    /\ call[t] # NoCall /\ call[t].pc = "clear"
    /\ LET c    == call[t]
           rows == UNION ItemOf(c).metadata
       IN  /\ metadata' = DeleteMetadataOf(c.id, c.version)
           /\ given' = [given EXCEPT ![c.id].metadata = @ \cup {rows}]
           /\ mixed' = IF c.alone THEN mixed \ {c.id} ELSE mixed
           /\ call' = [call EXCEPT ![t] =
                 IF rows = {} THEN WithDoc(c) ELSE [c EXCEPT !.pc = "metadata", !.rows = rows]]
    /\ UNCHANGED <<versions, vector, vectorSeq, bm25>>

(* addVectorMetadata, row by row *)
AddMetadata(t) ==
    /\ call[t] # NoCall /\ call[t].pc = "metadata"
    /\ LET c == call[t]
       IN  \E r \in c.rows :
             /\ metadata' = metadata \cup
                    {[vector |-> c.id, row |-> r, version |-> c.version]}
             /\ call' = [call EXCEPT ![t] =
                    IF c.rows = {r} THEN WithDoc([c EXCEPT !.rows = {}])
                    ELSE [c EXCEPT !.rows = @ \ {r}]]
             /\ mixed' = IF c.alone THEN mixed ELSE mixed \cup {c.id}
    /\ UNCHANGED <<versions, vector, vectorSeq, bm25, given>>

(* BM25Manager::addDocument always inserts. *)
AddDocument(t) ==
    /\ call[t] # NoCall /\ call[t].pc = "document"
    /\ Len(bm25) < MaxDocuments   \* bound
    /\ LET item == ItemOf(call[t])
       IN  /\ \E d \in item.doc : bm25' = Append(bm25, [vector |-> call[t].id, doc |-> d])
           /\ given' = [given EXCEPT ![call[t].id].doc = item.doc]
    /\ call' = [call EXCEPT ![t] = NextItem(@)]
    /\ UNCHANGED <<versions, vector, vectorSeq, metadata, mixed>>

Return(t) ==
    /\ call[t] # NoCall /\ Ended(call[t])
    /\ call' = [call EXCEPT ![t] = NoCall]
    /\ UNCHANGED <<tables, given, mixed>>

(* Any step may throw, on a malformed item or because the other thread is   *)
(* inside a transaction of the one connection, and the process may end:     *)
(* what was committed stays.                                                *)
Fail(t) ==
    /\ call[t] # NoCall /\ ~Ended(call[t])
    /\ call' = [call EXCEPT ![t] = NoCall]
    /\ UNCHANGED <<tables, given, mixed>>

(* VectorManager::deleteVector leaves metadata and documents ... *)
DeleteVector(v) ==
    /\ v \in DOMAIN vector
    /\ vector' = Drop(vector, {v})
    /\ call' = Overlapped(call)
    /\ UNCHANGED <<versions, vectorSeq, metadata, bm25, given, mixed>>

(* ... and SpaceManager::deleteSpace the documents. *)
DeleteSpace(version) ==
    /\ version \in versions
    /\ versions' = versions \ {version}
    /\ LET gone == {v \in DOMAIN vector : vector[v].version = version}
       IN  /\ vector' = Drop(vector, gone)
           /\ metadata' = {m \in metadata : m.vector \notin gone}
    /\ call' = Overlapped(call)
    /\ UNCHANGED <<vectorSeq, bm25, given, mixed>>

----------------------------------------------------------------------------
(* Ranking. *)

(* searchWithVectorIds: each row read replaces the one before. *)
DocsOf(v)    == {i \in DOMAIN bm25 : bm25[i].vector = v}
OldestDoc(v) == {bm25[i].doc : i \in {j \in DocsOf(v) : \A k \in DocsOf(v) : k >= j}}   \* faulty variant
ScoredDoc(v) == {bm25[i].doc : i \in {j \in DocsOf(v) : \A k \in DocsOf(v) : k <= j}}
Score(docs) == IF \E d \in docs : d.hit THEN MaxLength + 1 - (CHOOSE d \in docs : TRUE).length ELSE 0
bm25Score(version, uid) == Score(UNION {ScoredDoc(v) : v \in VectorsNamed(version, uid)})

(* rerank: the score counts, then the distance.  std::sort may leave those  *)
(* that are equal in any order.                                             *)
Before(a, b) == a.score > b.score \/ (a.score = b.score /\ a.distance < b.distance)
Sorted(results) ==
    {[i \in DOMAIN results |-> results[p[i]]] :
        p \in {q \in [DOMAIN results -> DOMAIN results] :
                 /\ IsInjective(q)
                 /\ \A i, j \in DOMAIN results : Before(results[q[i]], results[q[j]]) => i < j}}
rerank(version, results) ==
    UNION {Sorted(scored) :
        scored \in {[i \in DOMAIN results |->
                       [uid |-> results[i].uid, distance |-> results[i].distance,
                        score |-> bm25Score(version, results[i].uid)]]}}

----------------------------------------------------------------------------
DocInit ==
    /\ versions = Versions
    /\ vector = Empty /\ vectorSeq = 0
    /\ metadata = {} /\ bm25 = <<>>
    /\ call = [t \in Threads |-> NoCall]
    /\ calls = 0 /\ given = Empty /\ mixed = {}

UpsertStep(t) == AddVector(t) \/ DeleteMetadata(t) \/ AddMetadata(t) \/ AddDocument(t) \/ Return(t) \/ Fail(t)

Delete == (\E v \in VectorId : DeleteVector(v)) \/ \E version \in Versions : DeleteSpace(version)

DocNext ==
    \/ \E t \in Threads, version \in Versions, request \in Requests : Begin(t, version, request)
    \/ ((\E t \in Threads : UpsertStep(t)) \/ Delete) /\ UNCHANGED calls

DocSpec == DocInit /\ [][DocNext]_docVars

----------------------------------------------------------------------------
(* Properties. *)

Call == [version : Versions, sent : Requests, at : Nat, pc : {"vector", "clear", "metadata", "document"},
         id : 0..MaxVector, rows : SUBSET Rows, alone : BOOLEAN]

(* What each step of an upsert finds as the one before left it.             *)
CallOK(c, ids) ==
    /\ c \in Call
    /\ c.at \in 1..Len(c.sent) + 1
    /\ c.pc # "vector" => ~Ended(c) /\ c.id \in ids
    /\ c.pc \in {"clear", "metadata"} => ItemOf(c).metadata # {}
    /\ c.rows \subseteq UNION (IF c.pc = "metadata" THEN ItemOf(c).metadata ELSE {})
    /\ c.pc = "document" => ItemOf(c).doc # {}

TablesOK ==
    /\ versions \subseteq Versions
    /\ vectorSeq \in 0..MaxVector
    /\ DOMAIN vector \subseteq 1..vectorSeq
    /\ \A v \in DOMAIN vector : vector[v] \in [version : Versions, uid : Uids]
    /\ metadata \subseteq [vector : 1..vectorSeq, row : Rows, version : Versions]
    /\ bm25 \in Seq([vector : 1..vectorSeq, doc : Doc]) /\ Len(bm25) <= MaxDocuments
    /\ DOMAIN given = 1..vectorSeq /\ mixed \subseteq DOMAIN given
    /\ \A v \in DOMAIN given : given[v] \in [metadata : SUBSET SUBSET Rows, doc : Optional(Doc)]
DocsTypeOK ==
    /\ TablesOK
    /\ calls \in 0..MaxCalls
    /\ DOMAIN call = Threads /\ \A t \in UnderWay : CallOK(call[t], 1..vectorSeq)

(* Readers see of a vector's metadata a part of what one request gave it,   *)
(* never a mixture of two, also after failures half-way and when ids of     *)
(* deleted vectors have left rows behind; and when an upsert returns that   *)
(* nothing overlapped, each vector has the last metadata it was sent.       *)
IsLastSent(c, i, n) ==
    /\ c.sent[i].metadata # {}
    /\ \A j \in i + 1..n : c.sent[j].uid = c.sent[i].uid => c.sent[j].metadata = {}
UpsertsStayWhole ==
    [][/\ \A v \in DOMAIN vector' \ mixed' : \E g \in given'[v].metadata : RowsOf(v)' \subseteq g
       /\ \A t \in UnderWay : Return(t) /\ call[t].alone =>
            \A i \in DOMAIN call[t].sent :
                \E v \in VectorsNamed(call[t].version, call[t].sent[i].uid) :
                    IsLastSent(call[t], i, Len(call[t].sent))
                        => RowsOf(v) = UNION call[t].sent[i].metadata]_docVars

(* rerank gives back what the search found, those first whose last document *)
(* has the token (RerankServiceTest.cpp:101 "sorted by BM25 score           *)
(* descending, and distance ascending"); no document of a deleted vector    *)
(* counts, and none that a later upsert has replaced.                       *)
LatestDocRanks ==
    \A version \in Versions, a, b \in Uids : a # b =>
        LET found == <<[uid |-> a, distance |-> 1], [uid |-> b, distance |-> 2]>>
            score(u) == Score(UNION {given[v].doc : v \in VectorsNamed(version, u)})
        IN  {[i \in 1..2 |-> ranked[i].uid] : ranked \in rerank(version, found)}
                = {IF score(a) >= score(b) THEN <<a, b>> ELSE <<b, a>>}
=============================================================================
