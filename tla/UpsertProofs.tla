----------------------------- MODULE UpsertProofs -----------------------------
(***************************************************************************)
(* What Upserts and Documents promise, for any number of threads, versions, *)
(* requests, metadata and filters.                                          *)
(***************************************************************************)
EXTENDS Documents, FilterProofs, TLAPS

(* The items of a request whose metadata an upsert has begun to write.      *)
Reached(c) == IF c.pc \in {"metadata", "document"} THEN c.at ELSE c.at - 1

(* An upsert nobody overlaps: the vectors of the items it has been at have   *)
(* the last metadata they were sent, but for the rows it is still adding.    *)
Progress(c) ==
    \A i \in 1..Reached(c) :
        /\ VectorsNamed(c.version, c.sent[i].uid) # {}
        /\ IsLastSent(c, i, Reached(c)) =>
             \A v \in VectorsNamed(c.version, c.sent[i].uid) :
                 RowsOf(v) = (UNION c.sent[i].metadata) \ (IF i = c.at THEN c.rows ELSE {})

(* It writes to the vector the item names, and nobody has mixed anything in. *)
InHand(c) ==
    /\ c.pc # "vector" => c.id \in VectorsNamed(c.version, ItemOf(c).uid)
    /\ c.pc = "metadata" =>
         /\ c.id \notin mixed
         /\ UNION ItemOf(c).metadata \in given[c.id].metadata
         /\ RowsOf(c.id) \subseteq UNION ItemOf(c).metadata

(* Seen from the vectors: whose rows are mixed or of one request, who has a   *)
(* unique_id, and which document counts; and the calls that nobody overlaps.  *)
Whole == \A v \in DOMAIN vector \ mixed : \E g \in given[v].metadata : RowsOf(v) \subseteq g

UidsUnique ==
    \A v, w \in DOMAIN vector :
        vector[v].version = vector[w].version /\ vector[v].uid = vector[w].uid => v = w

LatestDocs == \A v \in 1..vectorSeq : ScoredDoc(v) = given[v].doc

AloneCalls ==
    \A t \in UnderWay : call[t].alone =>
        UnderWay = {t} /\ InHand(call[t]) /\ Progress(call[t])

UpsertInv == DocsTypeOK /\ UidsUnique /\ LatestDocs /\ Whole /\ AloneCalls

----------------------------------------------------------------------------
(* What a thread's step leaves to be shown: its own call.                   *)

LEMMA CallMoves ==
    ASSUME UpsertInv, NEW t \in UnderWay, NEW d, call' = [call EXCEPT ![t] = d],
           vectorSeq \in Nat, vectorSeq' \in Nat, vectorSeq <= vectorSeq',
           d # NoCall => CallOK(d, 1..vectorSeq'),
           d # NoCall /\ d.alone => call[t].alone /\ InHand(d)' /\ Progress(d)'
    PROVE  /\ DOMAIN call' = Threads
           /\ \A u \in UnderWay' : CallOK(call'[u], 1..vectorSeq')
           /\ AloneCalls'
<1>1. DOMAIN call = Threads /\ t \in Threads /\ DOMAIN call' = Threads
  BY DEF UpsertInv, DocsTypeOK, UnderWay
<1>2. call'[t] = d /\ \A u \in Threads : u # t => call'[u] = call[u]
  BY <1>1
<1>3. \A u \in UnderWay' : u # t => u \in UnderWay
  BY <1>2 DEF UnderWay
<1>4. \A u \in UnderWay : CallOK(call[u], 1..vectorSeq)
  BY DEF UpsertInv, DocsTypeOK
<1>5. \A u \in UnderWay' : CallOK(call'[u], 1..vectorSeq')
  <2> SUFFICES ASSUME NEW u \in UnderWay'
               PROVE  CallOK(call'[u], 1..vectorSeq')
    OBVIOUS
  <2>1. CASE u = t
    BY <1>2, <2>1 DEF UnderWay
  <2>2. CASE u # t
    <3>1. CallOK(call[u], 1..vectorSeq) /\ call'[u] = call[u]
      BY <1>2, <1>3, <1>4, <2>2 DEF UnderWay
    <3>2. 1..vectorSeq \subseteq 1..vectorSeq'
      OBVIOUS
    <3>3. QED  BY <3>1, <3>2 DEF CallOK
  <2>3. QED  BY <2>1, <2>2
<1>6. AloneCalls'
  <2> SUFFICES ASSUME NEW u \in UnderWay', call'[u].alone
               PROVE  UnderWay' = {u} /\ InHand(call[u])' /\ Progress(call[u])'
    BY DEF AloneCalls
  <2>1. u = t
    <3>1. SUFFICES ASSUME u # t PROVE FALSE
      OBVIOUS
    <3>2. u \in UnderWay /\ call[u].alone
      BY <1>2, <1>3, <3>1 DEF UnderWay
    <3>3. UnderWay = {u}
      BY <3>2 DEF UpsertInv, AloneCalls
    <3>4. QED  BY <3>1, <3>3
  <2>2. d # NoCall /\ call'[u] = d
    BY <1>2, <2>1 DEF UnderWay
  <2>3. call[t].alone /\ InHand(d)' /\ Progress(d)'
    BY <2>2
  <2>4. UnderWay = {t}
    BY <2>3 DEF UpsertInv, AloneCalls
  <2>5. UnderWay' = {u}
    BY <1>3, <2>1, <2>4
  <2>6. InHand(call[u])'
    BY <2>2, <2>3, ZenonT(40) DEF InHand, VectorsNamed, ItemOf, RowsOf
  <2>7. Progress(call[u])'
    <3>1. Reached(call[u])' = Reached(d)
      BY <2>2 DEF Reached
    <3>2. \A i, n : IsLastSent(call[u], i, n)' = IsLastSent(d, i, n)
      BY <2>2 DEF IsLastSent
    <3>3. \A uid : VectorsNamed(call[u].version, uid)' = VectorsNamed(d.version, uid)'
      BY <2>2 DEF VectorsNamed
    <3>4. SUFFICES ASSUME NEW i \in 1..Reached(d)
                   PROVE  /\ VectorsNamed(d.version, d.sent[i].uid)' # {}
                          /\ IsLastSent(d, i, Reached(d)) =>
                               \A v \in VectorsNamed(d.version, d.sent[i].uid)' :
                                   RowsOf(v)' = (UNION d.sent[i].metadata) \ (IF i = d.at THEN d.rows ELSE {})
      BY <2>2, <3>1, <3>2, <3>3 DEF Progress
    <3>5. QED  BY <2>3 DEF Progress
  <2>8. QED  BY <2>5, <2>6, <2>7
<1>7. QED  BY <1>1, <1>5, <1>6

(* Deletions, and a call that begins beside another, end the undisturbed.   *)
LEMMA OverlappedCalls ==
    ASSUME UpsertInv, NEW before, call' = Overlapped(before), DOMAIN before = Threads,
           \A u \in Threads : before[u] # NoCall => CallOK(before[u], 1..vectorSeq'),
           vectorSeq' = vectorSeq
    PROVE  /\ DOMAIN call' = Threads
           /\ \A u \in UnderWay' : CallOK(call'[u], 1..vectorSeq')
           /\ AloneCalls'
<1>1. DOMAIN call' = Threads
  BY DEF Overlapped
<1>2. ASSUME NEW u \in UnderWay'
      PROVE  CallOK(call'[u], 1..vectorSeq') /\ ~call'[u].alone
  <2>1. u \in Threads /\ before[u] # NoCall /\ call'[u] = [before[u] EXCEPT !.alone = FALSE]
    BY DEF UnderWay, Overlapped
  <2>2. CallOK(before[u], 1..vectorSeq')
    BY <2>1
  <2>3. before[u] \in Call
    BY <2>2 DEF CallOK
  <2>4. PICK b, d : b = before[u] /\ d = call'[u]
    OBVIOUS
  <2>5. d = [b EXCEPT !.alone = FALSE] /\ b \in Call /\ CallOK(b, 1..vectorSeq')
    BY <2>1, <2>2, <2>3, <2>4
  <2>6. /\ d \in Call /\ ~d.alone /\ d.sent = b.sent /\ d.at = b.at /\ d.pc = b.pc
        /\ d.id = b.id /\ d.rows = b.rows
    BY <2>5 DEF Call
  <2>7. CallOK(d, 1..vectorSeq')
    BY <2>5, <2>6 DEF CallOK, Ended, ItemOf
  <2>8. QED  BY <2>4, <2>6, <2>7
<1>3. AloneCalls'
  BY <1>2 DEF AloneCalls
<1>4. QED  BY <1>1, <1>2, <1>3

LEMMA ItemFacts ==
    ASSUME DocsTypeOK, NEW t \in UnderWay, NEW c, c = call[t]
    PROVE  /\ c \in Call /\ CallOK(c, 1..vectorSeq) /\ t \in Threads
           /\ c.version \in Versions /\ c.sent \in Seq(Item) /\ Len(c.sent) \in Nat
           /\ DOMAIN c.sent = 1..Len(c.sent)
           /\ ~Ended(c) => c.at \in 1..Len(c.sent) /\ ItemOf(c) \in Item
<1>1. t \in Threads /\ CallOK(c, 1..vectorSeq)
  BY DEF DocsTypeOK, UnderWay
<1>2. c \in Call /\ c.at \in 1..Len(c.sent) + 1
  BY <1>1 DEF CallOK
<1>3. c.version \in Versions /\ c.sent \in Seq(Item)
  BY <1>2, UpsertAssumption DEF Call
<1>4. Len(c.sent) \in Nat /\ DOMAIN c.sent = 1..Len(c.sent)
  BY <1>3
<1>5. ~Ended(c) => c.at \in 1..Len(c.sent)
  BY <1>2, <1>4 DEF Ended
<1>6. ~Ended(c) => ItemOf(c) \in Item
  BY <1>3, <1>4, <1>5 DEF ItemOf
<1>7. QED  BY <1>1, <1>2, <1>3, <1>4, <1>5, <1>6

(* Where the loop goes once the metadata of an item are written.            *)
LEMMA WithDocFacts ==
    ASSUME NEW c \in Call, c.at \in 1..Len(c.sent), c.rows = {}, NEW ids, c.id \in ids, NEW d, d = WithDoc(c)
    PROVE  /\ CallOK(d, ids)
           /\ d.version = c.version /\ d.sent = c.sent /\ d.id = c.id /\ d.rows = {} /\ d.alone = c.alone
           /\ \/ d.pc = "document" /\ d.at = c.at
              \/ d.pc = "vector" /\ d.at = c.at + 1
           /\ Reached(d) = c.at
<1>0. Len(c.sent) \in Nat
  <2>1. c.sent \in Seq(Item)
    BY UpsertAssumption DEF Call
  <2>2. QED  BY <2>1
<1>1. CASE ItemOf(c).doc # {}
  <2>1. d = [c EXCEPT !.pc = "document"]
    BY <1>1 DEF WithDoc
  <2>2. /\ d \in Call /\ d.pc = "document" /\ d.at = c.at /\ d.version = c.version /\ d.sent = c.sent
        /\ d.id = c.id /\ d.rows = {} /\ d.alone = c.alone
    BY <2>1 DEF Call
  <2>3. CallOK(d, ids)
    BY <1>0, <1>1, <2>2 DEF CallOK, ItemOf, Ended
  <2>4. QED  BY <2>2, <2>3 DEF Reached
<1>2. CASE ItemOf(c).doc = {}
  <2>1. d = [c EXCEPT !.pc = "vector", !.at = @ + 1]
    BY <1>2 DEF WithDoc, NextItem
  <2>2. PICK e : e = [c EXCEPT !.pc = "vector"]
    OBVIOUS
  <2>3. /\ e \in Call /\ e.pc = "vector" /\ e.at = c.at /\ e.version = c.version /\ e.sent = c.sent
        /\ e.id = c.id /\ e.rows = {} /\ e.alone = c.alone
    BY <2>2 DEF Call
  <2>4. d = [e EXCEPT !.at = c.at + 1] /\ c.at + 1 \in Nat
    BY <2>1, <2>2 DEF Call
  <2>5. /\ d \in Call /\ d.pc = "vector" /\ d.at = c.at + 1 /\ d.version = c.version /\ d.sent = c.sent
        /\ d.id = c.id /\ d.rows = {} /\ d.alone = c.alone
    BY <2>3, <2>4 DEF Call
  <2>6. CallOK(d, ids)
    BY <1>0, <2>5 DEF CallOK, ItemOf, Ended
  <2>7. QED  BY <1>0, <2>5, <2>6 DEF Reached
<1>3. QED  BY <1>1, <1>2

LEMMA WithDocAlone ==
    ASSUME NEW c \in Call, c.at \in 1..Len(c.sent), c.rows = {}, NEW d, d = WithDoc(c),
           (c.id \in VectorsNamed(c.version, ItemOf(c).uid))',
           \A i \in 1..c.at :
               /\ (VectorsNamed(c.version, c.sent[i].uid) # {})'
               /\ IsLastSent(c, i, c.at) =>
                    (\A v \in VectorsNamed(c.version, c.sent[i].uid) : RowsOf(v) = UNION c.sent[i].metadata)'
    PROVE  InHand(d)' /\ Progress(d)'
<1>1. PICK ids : c.id \in ids
  BY c.id \in {c.id}
<1>2. /\ d.version = c.version /\ d.sent = c.sent /\ d.id = c.id /\ d.rows = {} /\ Reached(d) = c.at
      /\ \/ d.pc = "document" /\ d.at = c.at
         \/ d.pc = "vector" /\ d.at = c.at + 1
  BY <1>1, WithDocFacts
<1>3. InHand(d)'
  BY <1>2 DEF InHand, ItemOf
<1>4. Progress(d)'
  <2>1. \A i : IsLastSent(d, i, c.at) = IsLastSent(c, i, c.at)
    BY <1>2 DEF IsLastSent
  <2>2. SUFFICES ASSUME NEW i \in 1..c.at
                 PROVE  /\ (VectorsNamed(c.version, c.sent[i].uid) # {})'
                        /\ IsLastSent(c, i, c.at) =>
                             (\A v \in VectorsNamed(c.version, c.sent[i].uid) :
                                RowsOf(v) = (UNION c.sent[i].metadata) \ {})'
    BY <1>2, <2>1 DEF Progress
  <2>3. QED  OBVIOUS
<1>5. QED  BY <1>3, <1>4

(* Steps that leave the tables alone.                                       *)
LEMMA TablesKept ==
    ASSUME UpsertInv, UNCHANGED <<tables, given, mixed>>
    PROVE  TablesOK' /\ UidsUnique' /\ LatestDocs' /\ Whole' /\ vectorSeq' = vectorSeq /\ vectorSeq \in Nat
<1>1. vectorSeq \in Nat
  BY UpsertAssumption DEF UpsertInv, DocsTypeOK, TablesOK
<1>2. TablesOK'
  BY DEF UpsertInv, DocsTypeOK, TablesOK, tables
<1>3. \A v : ScoredDoc(v)' = ScoredDoc(v) /\ RowsOf(v)' = RowsOf(v)
  BY DEF ScoredDoc, DocsOf, RowsOf, tables
<1>4. UidsUnique' /\ LatestDocs' /\ Whole'
  BY <1>3 DEF UpsertInv, UidsUnique, LatestDocs, Whole, tables
<1>5. QED  BY <1>1, <1>2, <1>4 DEF tables

LEMMA BeginInv ==
    ASSUME UpsertInv, NEW t \in Threads, NEW version \in Versions, NEW request \in Requests,
           Begin(t, version, request)
    PROVE  UpsertInv'
<1>1. PICK r : r = [version |-> version, sent |-> request, at |-> 1, pc |-> "vector",
                    id |-> 0, rows |-> {}, alone |-> TRUE]
  OBVIOUS
<1>2. r \in Call /\ Len(request) \in Nat
  <2>1. request \in Seq(Item)
    BY UpsertAssumption
  <2>2. QED  BY <1>1, <2>1, UpsertAssumption DEF Call
<1>3. CallOK(r, 1..vectorSeq)
  BY <1>1, <1>2 DEF CallOK
<1>4. DOMAIN call = Threads /\ \A u \in UnderWay : CallOK(call[u], 1..vectorSeq)
  BY DEF UpsertInv, DocsTypeOK
<1>5. PICK began : began = [call EXCEPT ![t] = r]
  OBVIOUS
<1>6. DOMAIN began = Threads /\ began[t] = r /\ \A u \in Threads : u # t => began[u] = call[u]
  BY <1>4, <1>5
<1>7. TablesOK' /\ UidsUnique' /\ LatestDocs' /\ Whole' /\ vectorSeq' = vectorSeq
  BY TablesKept DEF Begin
<1>8. /\ DOMAIN call' = Threads
      /\ \A u \in UnderWay' : CallOK(call'[u], 1..vectorSeq')
      /\ AloneCalls'
  <2>1. CASE UnderWay = {}
    <3>1. call' = began
      BY <1>1, <1>5, <2>1 DEF Begin
    <3>2. \A u \in UnderWay' : u = t /\ call'[u] = r
      BY <1>6, <2>1, <3>1 DEF UnderWay
    <3>3. \A u \in UnderWay' : call'[u].pc = "vector" /\ call'[u].at = 1
      BY <1>1, <3>2
    <3>4. ASSUME NEW u \in UnderWay'
          PROVE  InHand(call[u])' /\ Progress(call[u])'
      <4>1. InHand(call[u])'
        BY <3>3 DEF InHand
      <4>2. (1..Reached(call[u]))' = {}
        BY <3>3 DEF Reached
      <4>3. QED  BY <4>1, <4>2 DEF Progress
    <3>5. AloneCalls'
      BY <3>2, <3>4 DEF AloneCalls
    <3>6. QED  BY <1>3, <1>6, <1>7, <3>1, <3>2, <3>5
  <2>2. CASE UnderWay # {}
    <3>1. call' = Overlapped(began)
      BY <1>1, <1>5, <2>2 DEF Begin
    <3>2. \A u \in Threads : began[u] # NoCall => CallOK(began[u], 1..vectorSeq')
      BY <1>3, <1>4, <1>6, <1>7 DEF UnderWay
    <3>3. QED  BY <1>6, <1>7, <3>1, <3>2, OverlappedCalls
  <2>3. QED  BY <2>1, <2>2
<1>9. calls' \in 0..MaxCalls
  BY UpsertAssumption DEF Begin, UpsertInv, DocsTypeOK
<1>10. QED  BY <1>7, <1>8, <1>9 DEF UpsertInv, DocsTypeOK

(* Return and Fail.                                                         *)
LEMMA LeaveInv ==
    ASSUME UpsertInv, NEW t \in Threads, Return(t) \/ Fail(t), UNCHANGED calls
    PROVE  UpsertInv'
<1>1. t \in UnderWay /\ call' = [call EXCEPT ![t] = NoCall] /\ UNCHANGED <<tables, given, mixed>>
  BY DEF Return, Fail, UnderWay
<1>2. TablesOK' /\ UidsUnique' /\ LatestDocs' /\ Whole' /\ vectorSeq' = vectorSeq /\ vectorSeq \in Nat
  BY <1>1, TablesKept
<1>3. PICK d : d = NoCall
  OBVIOUS
<1>4. /\ DOMAIN call' = Threads
      /\ \A u \in UnderWay' : CallOK(call'[u], 1..vectorSeq')
      /\ AloneCalls'
  <2>1. call' = [call EXCEPT ![t] = d] /\ vectorSeq' \in Nat /\ vectorSeq <= vectorSeq'
    BY <1>1, <1>2, <1>3
  <2>2. QED  BY <1>1, <1>2, <1>3, <2>1, CallMoves
<1>5. QED  BY <1>2, <1>4 DEF UpsertInv, DocsTypeOK

(* Deletions of vectors, with what is left of the metadata.                 *)
LEMMA DeletedInv ==
    ASSUME UpsertInv, NEW gone, vector' = Drop(vector, gone), call' = Overlapped(call),
           versions' \subseteq versions, metadata' \subseteq metadata,
           \A v \in DOMAIN vector' : RowsOf(v)' = RowsOf(v),
           UNCHANGED <<vectorSeq, bm25, given, mixed, calls>>
    PROVE  UpsertInv'
<1>1. DOMAIN vector' \subseteq DOMAIN vector /\ \A v \in DOMAIN vector' : vector'[v] = vector[v]
  BY DEF Drop, Restrict
<1>2. TablesOK'
  BY <1>1 DEF UpsertInv, DocsTypeOK, TablesOK
<1>3. UidsUnique'
  BY <1>1 DEF UpsertInv, UidsUnique
<1>4. LatestDocs'
  BY DEF UpsertInv, LatestDocs, ScoredDoc, DocsOf
<1>5. Whole'
  BY <1>1 DEF UpsertInv, Whole
<1>6. DOMAIN call = Threads /\ \A u \in Threads : call[u] # NoCall => CallOK(call[u], 1..vectorSeq')
  BY DEF UpsertInv, DocsTypeOK, UnderWay
<1>7. PICK before : before = call
  OBVIOUS
<1>8. /\ DOMAIN call' = Threads
      /\ \A u \in UnderWay' : CallOK(call'[u], 1..vectorSeq')
      /\ AloneCalls'
  BY <1>6, <1>7, OverlappedCalls
<1>9. QED  BY <1>2, <1>3, <1>4, <1>5, <1>8 DEF UpsertInv, DocsTypeOK

LEMMA DeleteInv ==
    ASSUME UpsertInv, Delete, UNCHANGED calls
    PROVE  UpsertInv'
<1>1. CASE \E v \in VectorId : DeleteVector(v)
  <2>1. PICK v \in VectorId : DeleteVector(v)
    BY <1>1
  <2>2. \A w : RowsOf(w)' = RowsOf(w)
    BY <2>1 DEF DeleteVector, RowsOf
  <2>3. PICK gone : gone = {v}
    OBVIOUS
  <2>4. QED  BY <2>1, <2>2, <2>3, DeletedInv DEF DeleteVector
<1>2. CASE \E version \in Versions : DeleteSpace(version)
  <2>1. PICK version \in Versions : DeleteSpace(version)
    BY <1>2
  <2>2. PICK gone : gone = {v \in DOMAIN vector : vector[v].version = version}
    OBVIOUS
  <2>3. vector' = Drop(vector, gone) /\ metadata' = {m \in metadata : m.vector \notin gone}
    BY <2>1, <2>2 DEF DeleteSpace
  <2>4. \A v \in DOMAIN vector' : v \notin gone
    BY <2>3 DEF Drop, Restrict
  <2>5. \A v \in DOMAIN vector' : RowsOf(v)' = RowsOf(v)
    BY <2>3, <2>4 DEF RowsOf
  <2>6. QED  BY <2>1, <2>3, <2>5, DeletedInv DEF DeleteSpace
<1>3. QED  BY <1>1, <1>2 DEF Delete

(* A new row of BM25 is the one that counts.                                *)
LEMMA AppendedDoc ==
    ASSUME NEW S, bm25 \in Seq(S), NEW v, NEW d, bm25' = Append(bm25, [vector |-> v, doc |-> d])
    PROVE  ScoredDoc(v)' = {d} /\ \A w : w # v => ScoredDoc(w)' = ScoredDoc(w)
<1>1. PICK n \in Nat : n = Len(bm25)
  OBVIOUS
<1>2. /\ DOMAIN bm25 = 1..n /\ DOMAIN bm25' = 1..n + 1
      /\ bm25'[n + 1] = [vector |-> v, doc |-> d]
      /\ \A i \in 1..n : bm25'[i] = bm25[i]
  BY <1>1
<1>3. DocsOf(v)' = DocsOf(v) \cup {n + 1} /\ DocsOf(v) \subseteq 1..n
  BY <1>2 DEF DocsOf
<1>4. {j \in DocsOf(v)' : \A k \in DocsOf(v)' : k <= j} = {n + 1}
  <2>1. PICK D, E : D = DocsOf(v) /\ E = DocsOf(v)'
    OBVIOUS
  <2>2. E = D \cup {n + 1} /\ D \subseteq 1..n
    BY <1>3, <2>1
  <2>3. {j \in E : \A k \in E : k <= j} = {n + 1}
    <3>1. \A k \in E : k \in Int /\ k <= n + 1
      BY <2>2
    <3>2. \A j \in E : (\A k \in E : k <= j) => j = n + 1
      BY <2>2
    <3>3. QED  BY <2>2, <3>1, <3>2
  <2>4. QED  BY <2>1, <2>3
<1>5. ScoredDoc(v)' = {d}
  BY <1>2, <1>4 DEF ScoredDoc
<1>6. ASSUME NEW w, w # v
      PROVE  ScoredDoc(w)' = ScoredDoc(w)
  <2>1. DocsOf(w)' = DocsOf(w) /\ DocsOf(w) \subseteq 1..n
    BY <1>2, <1>6 DEF DocsOf
  <2>2. QED  BY <1>2, <2>1 DEF ScoredDoc
<1>7. QED  BY <1>5, <1>6

LEMMA AddDocumentInv ==
    ASSUME UpsertInv, NEW t \in Threads, AddDocument(t), UNCHANGED calls
    PROVE  UpsertInv'
<1>1. PICK c : c = call[t]
  OBVIOUS
<1>2. t \in UnderWay /\ c.pc = "document"
  BY <1>1 DEF AddDocument, UnderWay
<1>3. c \in Call /\ CallOK(c, 1..vectorSeq) /\ Len(c.sent) \in Nat
  BY <1>1, <1>2, ItemFacts DEF UpsertInv
<1>4. c.at \in 1..Len(c.sent) /\ ItemOf(c) \in Item /\ c.id \in 1..vectorSeq /\ c.rows = {} /\ ItemOf(c).doc # {}
  BY <1>1, <1>2, <1>3, ItemFacts DEF UpsertInv, CallOK
<1>5. PICK doc \in Doc : ItemOf(c).doc = {doc}
  BY <1>4 DEF Item, Optional
<1>6. /\ bm25' = Append(bm25, [vector |-> c.id, doc |-> doc])
      /\ given' = [given EXCEPT ![c.id].doc = {doc}]
      /\ call' = [call EXCEPT ![t] = NextItem(c)]
      /\ Len(bm25) < MaxDocuments
      /\ UNCHANGED <<versions, vector, vectorSeq, metadata, mixed>>
  BY <1>1, <1>5 DEF AddDocument
<1>7. TablesOK /\ vectorSeq \in Nat
  BY UpsertAssumption DEF UpsertInv, DocsTypeOK, TablesOK
<1>8. /\ DOMAIN given' = DOMAIN given /\ given'[c.id].doc = {doc} /\ given'[c.id].metadata = given[c.id].metadata
      /\ \A v \in DOMAIN given : v # c.id => given'[v] = given[v]
      /\ given'[c.id] \in [metadata : SUBSET SUBSET Rows, doc : Optional(Doc)]
  <2>1. given[c.id] \in [metadata : SUBSET SUBSET Rows, doc : Optional(Doc)] /\ c.id \in DOMAIN given
    BY <1>4, <1>7 DEF TablesOK
  <2>2. {doc} \in Optional(Doc)
    BY DEF Optional
  <2>3. QED  BY <1>6, <2>1, <2>2
<1>9. TablesOK'
  <2>1. bm25' \in Seq([vector : 1..vectorSeq, doc : Doc]) /\ Len(bm25') <= MaxDocuments
    BY <1>4, <1>6, <1>7, UpsertAssumption DEF TablesOK
  <2>2. \A v \in DOMAIN given' : given'[v] \in [metadata : SUBSET SUBSET Rows, doc : Optional(Doc)]
    BY <1>7, <1>8 DEF TablesOK
  <2>3. QED  BY <1>6, <1>7, <1>8, <2>1, <2>2 DEF TablesOK
<1>10. UidsUnique'
  BY <1>6 DEF UpsertInv, UidsUnique
<1>11. LatestDocs'
  <2>1. ScoredDoc(c.id)' = {doc} /\ \A w : w # c.id => ScoredDoc(w)' = ScoredDoc(w)
    BY <1>6, <1>7, AppendedDoc DEF TablesOK
  <2>2. DOMAIN given = 1..vectorSeq
    BY <1>7 DEF TablesOK
  <2>3. QED  BY <1>6, <1>8, <2>1, <2>2 DEF UpsertInv, LatestDocs
<1>12. \A v : RowsOf(v)' = RowsOf(v)
  BY <1>6 DEF RowsOf
<1>13. \A v \in DOMAIN given : given'[v].metadata = given[v].metadata
  BY <1>8
<1>14. Whole'
  <2>1. DOMAIN vector \subseteq DOMAIN given
    BY <1>7 DEF TablesOK
  <2>2. QED  BY <1>6, <1>12, <1>13, <2>1 DEF UpsertInv, Whole
<1>15. PICK d : d = NextItem(c)
  OBVIOUS
<1>16. /\ d \in Call /\ d.pc = "vector" /\ d.at = c.at + 1 /\ d.version = c.version /\ d.sent = c.sent
       /\ d.rows = {} /\ d.alone = c.alone /\ CallOK(d, 1..vectorSeq)
  <2>1. PICK e : e = [c EXCEPT !.pc = "vector"]
    OBVIOUS
  <2>2. /\ e \in Call /\ e.pc = "vector" /\ e.at = c.at /\ e.version = c.version /\ e.sent = c.sent
        /\ e.rows = {} /\ e.alone = c.alone
    BY <1>3, <1>4, <2>1 DEF Call
  <2>3. d = [e EXCEPT !.at = c.at + 1] /\ c.at + 1 \in Nat
    BY <1>3, <1>15, <2>1 DEF NextItem, Call
  <2>4. /\ d \in Call /\ d.pc = "vector" /\ d.at = c.at + 1 /\ d.version = c.version /\ d.sent = c.sent
        /\ d.rows = {} /\ d.alone = c.alone
    BY <2>2, <2>3 DEF Call
  <2>5. QED  BY <1>3, <1>4, <2>4 DEF CallOK, ItemOf, Ended
<1>17. ASSUME d.alone
       PROVE  call[t].alone /\ InHand(d)' /\ Progress(d)'
  <2>1. Progress(c)
    BY <1>1, <1>2, <1>16, <1>17 DEF UpsertInv, AloneCalls
  <2>2. Reached(d) = c.at /\ Reached(c) = c.at
    BY <1>2, <1>3, <1>16 DEF Reached, Call
  <2>3. \A i : IsLastSent(d, i, c.at) = IsLastSent(c, i, c.at)
    BY <1>16 DEF IsLastSent
  <2>4. \A i \in 1..c.at : VectorsNamed(c.version, c.sent[i].uid)' = VectorsNamed(c.version, c.sent[i].uid)
    BY <1>6 DEF VectorsNamed
  <2>5. Progress(d)'
    BY <1>4, <1>12, <1>16, <2>1, <2>2, <2>3, <2>4 DEF Progress
  <2>6. QED  BY <1>1, <1>16, <1>17, <2>5 DEF InHand
<1>18. /\ DOMAIN call' = Threads
       /\ \A u \in UnderWay' : CallOK(call'[u], 1..vectorSeq')
       /\ AloneCalls'
  <2>1. call' = [call EXCEPT ![t] = d] /\ vectorSeq' = vectorSeq /\ vectorSeq <= vectorSeq'
    BY <1>6, <1>7, <1>15
  <2>2. CallOK(d, 1..vectorSeq')
    BY <1>16, <2>1
  <2>3. QED  BY <1>2, <1>7, <1>17, <2>1, <2>2, CallMoves
<1>19. QED  BY <1>9, <1>10, <1>11, <1>14, <1>18 DEF UpsertInv, DocsTypeOK

(* The item at which a call's metadata are written, and the ones before it:  *)
(* one vector has the unique_id, and those of other items are other vectors. *)
LEMMA OneVector ==
    ASSUME UpsertInv, NEW version, NEW uid, NEW v \in VectorsNamed(version, uid)
    PROVE  VectorsNamed(version, uid) = {v} /\ \A other : other # uid => v \notin VectorsNamed(version, other)
BY DEF UpsertInv, UidsUnique, VectorsNamed

LEMMA OtherVector ==
    ASSUME UpsertInv, NEW c, NEW i \in 1..c.at, i # c.at, c.at \in Nat, ItemOf(c).metadata # {},
           c.id \in VectorsNamed(c.version, ItemOf(c).uid),
           IsLastSent(c, i, c.at), NEW v \in VectorsNamed(c.version, c.sent[i].uid)
    PROVE  v # c.id
<1>1. c.at \in i + 1..c.at
  OBVIOUS
<1>2. c.sent[c.at].uid # c.sent[i].uid
  BY <1>1 DEF IsLastSent, ItemOf
<1>3. QED  BY <1>2, OneVector DEF ItemOf

LEMMA DeleteMetadataInv ==
    ASSUME UpsertInv, NEW t \in Threads, DeleteMetadata(t), UNCHANGED calls
    PROVE  UpsertInv'
<1>1. PICK c : c = call[t]
  OBVIOUS
<1>2. t \in UnderWay /\ c.pc = "clear"
  BY <1>1 DEF DeleteMetadata, UnderWay
<1>3. /\ c \in Call /\ CallOK(c, 1..vectorSeq) /\ Len(c.sent) \in Nat
      /\ c.at \in 1..Len(c.sent) /\ ItemOf(c) \in Item /\ c.id \in 1..vectorSeq /\ c.rows = {}
      /\ ItemOf(c).metadata # {}
  <2>1. c \in Call /\ CallOK(c, 1..vectorSeq) /\ Len(c.sent) \in Nat
    BY <1>1, <1>2, ItemFacts DEF UpsertInv
  <2>2. ~Ended(c)
    BY <1>2, <2>1 DEF CallOK
  <2>3. c.at \in 1..Len(c.sent) /\ ItemOf(c) \in Item
    BY <1>1, <1>2, <2>2, ItemFacts DEF UpsertInv
  <2>4. QED  BY <1>2, <2>1, <2>3 DEF CallOK
<1>4. PICK rows \in SUBSET Rows : ItemOf(c).metadata = {rows} /\ UNION ItemOf(c).metadata = rows
  <2>1. PICK rows \in SUBSET Rows : ItemOf(c).metadata = {rows}
    BY <1>3 DEF Item, Optional
  <2>2. UNION {rows} = rows
    OBVIOUS
  <2>3. QED  BY <2>1, <2>2
<1>5. PICK d : d = IF rows = {} THEN WithDoc(c) ELSE [c EXCEPT !.pc = "metadata", !.rows = rows]
  OBVIOUS
<1>6. /\ metadata' = {m \in metadata : m.vector # c.id}
      /\ given' = [given EXCEPT ![c.id].metadata = given[c.id].metadata \cup {rows}]
      /\ mixed' = IF c.alone THEN mixed \ {c.id} ELSE mixed
      /\ call' = [call EXCEPT ![t] = d]
      /\ UNCHANGED <<versions, vector, vectorSeq, bm25>>
  BY <1>1, <1>4, <1>5 DEF DeleteMetadata, DeleteMetadataOf
<1>7. TablesOK /\ vectorSeq \in Nat /\ vectorSeq' = vectorSeq /\ vectorSeq <= vectorSeq'
  BY <1>6, UpsertAssumption DEF UpsertInv, DocsTypeOK, TablesOK
<1>8. /\ DOMAIN given' = DOMAIN given /\ given'[c.id].metadata = given[c.id].metadata \cup {rows}
      /\ given'[c.id].doc = given[c.id].doc
      /\ \A v \in DOMAIN given : v # c.id => given'[v] = given[v]
      /\ given'[c.id] \in [metadata : SUBSET SUBSET Rows, doc : Optional(Doc)]
  <2>1. given[c.id] \in [metadata : SUBSET SUBSET Rows, doc : Optional(Doc)] /\ c.id \in DOMAIN given
    BY <1>3, <1>7 DEF TablesOK
  <2>2. QED  BY <1>4, <1>6, <2>1
<1>9. TablesOK'
  <2>1. \A v \in DOMAIN given' : given'[v] \in [metadata : SUBSET SUBSET Rows, doc : Optional(Doc)]
    BY <1>7, <1>8 DEF TablesOK
  <2>2. QED  BY <1>6, <1>7, <1>8, <2>1 DEF TablesOK
<1>10. UidsUnique'
  BY <1>6 DEF UpsertInv, UidsUnique
<1>11. LatestDocs'
  <2>1. \A v : ScoredDoc(v)' = ScoredDoc(v)
    BY <1>6 DEF ScoredDoc, DocsOf
  <2>2. \A v \in DOMAIN given : given'[v].doc = given[v].doc
    BY <1>8
  <2>3. QED  BY <1>6, <1>7, <2>1, <2>2 DEF UpsertInv, LatestDocs, TablesOK
<1>12. RowsOf(c.id)' = {} /\ \A v : v # c.id => RowsOf(v)' = RowsOf(v)
  BY <1>6 DEF RowsOf
<1>13. Whole'
  <2> SUFFICES ASSUME NEW v \in DOMAIN vector' \ mixed'
               PROVE  \E g \in given'[v].metadata : RowsOf(v)' \subseteq g
    BY DEF Whole
  <2>1. CASE v = c.id
    BY <1>8, <1>12, <2>1
  <2>2. CASE v # c.id
    <3>1. v \in DOMAIN vector \ mixed /\ v \in DOMAIN given
      BY <1>6, <1>7, <2>2 DEF TablesOK
    <3>2. given'[v] = given[v]
      BY <1>8, <2>2, <3>1
    <3>3. QED  BY <1>12, <2>2, <3>1, <3>2 DEF UpsertInv, Whole
  <2>3. QED  BY <2>1, <2>2
<1>14. /\ CallOK(d, 1..vectorSeq') /\ d.alone = c.alone
  <2>1. CASE rows = {}
    BY <1>3, <1>5, <1>7, <2>1, WithDocFacts
  <2>2. CASE rows # {}
    <3>1. d = [c EXCEPT !.pc = "metadata", !.rows = rows]
      BY <1>5, <2>2
    <3>2. /\ d \in Call /\ d.pc = "metadata" /\ d.at = c.at /\ d.sent = c.sent
          /\ d.id = c.id /\ d.rows = rows /\ d.alone = c.alone
      BY <1>3, <3>1 DEF Call
    <3>3. ItemOf(d) = ItemOf(c) /\ ~Ended(d)
      BY <1>3, <3>2 DEF ItemOf, Ended
    <3>4. d.rows \subseteq UNION (IF d.pc = "metadata" THEN ItemOf(d).metadata ELSE {})
      BY <1>4, <3>2, <3>3
    <3>5. QED  BY <1>3, <1>7, <3>2, <3>3, <3>4 DEF CallOK
  <2>3. QED  BY <2>1, <2>2
<1>15. ASSUME d.alone
       PROVE  InHand(d)' /\ Progress(d)'
  <2>1. InHand(c) /\ Progress(c) /\ c.alone
    BY <1>1, <1>2, <1>14, <1>15 DEF UpsertInv, AloneCalls
  <2>2. c.id \in VectorsNamed(c.version, ItemOf(c).uid)
    BY <1>2, <2>1 DEF InHand
  <2>3. \A x, y : VectorsNamed(x, y)' = VectorsNamed(x, y)
    BY <1>6 DEF VectorsNamed
  <2>4. ASSUME NEW i \in 1..c.at
        PROVE  /\ (VectorsNamed(c.version, c.sent[i].uid) # {})'
               /\ IsLastSent(c, i, c.at) =>
                    (\A v \in VectorsNamed(c.version, c.sent[i].uid) :
                       RowsOf(v) = (UNION c.sent[i].metadata) \ (IF i = c.at THEN rows ELSE {}))'
    <3>1. CASE i = c.at
      <4>1. VectorsNamed(c.version, c.sent[i].uid) = {c.id}
        BY <2>2, <3>1, OneVector DEF ItemOf
      <4>2. UNION c.sent[i].metadata = rows
        BY <1>4, <3>1 DEF ItemOf
      <4>3. QED  BY <1>12, <2>3, <3>1, <4>1, <4>2
    <3>2. CASE i # c.at
      <4>1. i \in 1..Reached(c) /\ Reached(c) = c.at - 1
        BY <1>2, <1>3, <3>2 DEF Reached
      <4>2. VectorsNamed(c.version, c.sent[i].uid) # {}
        BY <2>1, <4>1 DEF Progress
      <4>3. ASSUME IsLastSent(c, i, c.at), NEW v \in VectorsNamed(c.version, c.sent[i].uid)
            PROVE  RowsOf(v)' = UNION c.sent[i].metadata
        <5>1. v # c.id
          <6>1. c.at \in Nat
            BY <1>3
          <6>2. QED  BY <1>3, <2>2, <3>2, <4>3, <6>1, OtherVector
        <5>2. IsLastSent(c, i, Reached(c))
          BY <1>3, <4>1, <4>3 DEF IsLastSent
        <5>3. RowsOf(v) = UNION c.sent[i].metadata
          BY <1>3, <2>1, <3>2, <4>1, <5>2 DEF Progress
        <5>4. QED  BY <1>12, <5>1, <5>3
      <4>4. QED  BY <2>3, <3>2, <4>2, <4>3
    <3>3. QED  BY <3>1, <3>2
  <2>5. (c.id \in VectorsNamed(c.version, ItemOf(c).uid))'
    BY <2>2, <2>3
  <2>6. CASE rows = {}
    <3>1. d = WithDoc(c)
      BY <1>5, <2>6
    <3>2. \A i \in 1..c.at :
               /\ (VectorsNamed(c.version, c.sent[i].uid) # {})'
               /\ IsLastSent(c, i, c.at) =>
                    (\A v \in VectorsNamed(c.version, c.sent[i].uid) : RowsOf(v) = UNION c.sent[i].metadata)'
      BY <2>4, <2>6
    <3>3. QED  BY <1>3, <2>5, <3>1, <3>2, WithDocAlone
  <2>7. CASE rows # {}
    <3>1. d = [c EXCEPT !.pc = "metadata", !.rows = rows]
      BY <1>5, <2>7
    <3>2. /\ d.pc = "metadata" /\ d.at = c.at /\ d.sent = c.sent /\ d.version = c.version
          /\ d.id = c.id /\ d.rows = rows
      BY <1>3, <3>1 DEF Call
    <3>3. Reached(d) = c.at /\ ItemOf(d) = ItemOf(c) /\ \A i : IsLastSent(d, i, c.at) = IsLastSent(c, i, c.at)
      BY <3>2 DEF Reached, ItemOf, IsLastSent
    <3>4. Progress(d)'
      BY <2>4, <3>2, <3>3 DEF Progress
    <3>5. c.id \notin mixed' /\ rows \in given'[c.id].metadata
      BY <1>6, <1>8, <2>1
    <3>6. InHand(d)'
      BY <1>4, <1>12, <2>5, <3>2, <3>3, <3>5 DEF InHand
    <3>7. QED  BY <3>4, <3>6
  <2>8. QED  BY <2>6, <2>7
<1>16. /\ DOMAIN call' = Threads
       /\ \A u \in UnderWay' : CallOK(call'[u], 1..vectorSeq')
       /\ AloneCalls'
  BY <1>1, <1>2, <1>6, <1>7, <1>14, <1>15, CallMoves
<1>17. QED  BY <1>9, <1>10, <1>11, <1>13, <1>16 DEF UpsertInv, DocsTypeOK

LEMMA AddMetadataInv ==
    ASSUME UpsertInv, NEW t \in Threads, AddMetadata(t), UNCHANGED calls
    PROVE  UpsertInv'
<1>1. PICK c : c = call[t]
  OBVIOUS
<1>2. t \in UnderWay /\ c.pc = "metadata"
  BY <1>1 DEF AddMetadata, UnderWay
<1>3. /\ c \in Call /\ CallOK(c, 1..vectorSeq) /\ Len(c.sent) \in Nat
      /\ c.at \in 1..Len(c.sent) /\ ItemOf(c) \in Item /\ c.id \in 1..vectorSeq
      /\ ItemOf(c).metadata # {} /\ c.rows \subseteq UNION ItemOf(c).metadata
  <2>1. c \in Call /\ CallOK(c, 1..vectorSeq) /\ Len(c.sent) \in Nat
    BY <1>1, <1>2, ItemFacts DEF UpsertInv
  <2>2. ~Ended(c)
    BY <1>2, <2>1 DEF CallOK
  <2>3. c.at \in 1..Len(c.sent) /\ ItemOf(c) \in Item
    BY <1>1, <1>2, <2>2, ItemFacts DEF UpsertInv
  <2>4. QED  BY <1>2, <2>1, <2>3 DEF CallOK
<1>4. c.rows \subseteq Rows /\ c.version \in Versions
  BY <1>3 DEF Call
<1>5. PICK r \in c.rows :
        /\ metadata' = metadata \cup {[vector |-> c.id, row |-> r, version |-> c.version]}
        /\ call' = [call EXCEPT ![t] =
               IF c.rows = {r} THEN WithDoc([c EXCEPT !.rows = {}]) ELSE [c EXCEPT !.rows = c.rows \ {r}]]
        /\ mixed' = IF c.alone THEN mixed ELSE mixed \cup {c.id}
  BY <1>1 DEF AddMetadata
<1>6. UNCHANGED <<versions, vector, vectorSeq, bm25, given>>
  BY DEF AddMetadata
<1>7. TablesOK /\ vectorSeq \in Nat /\ vectorSeq' = vectorSeq /\ vectorSeq <= vectorSeq'
  BY <1>6, UpsertAssumption DEF UpsertInv, DocsTypeOK, TablesOK
<1>8. TablesOK'
  BY <1>3, <1>4, <1>5, <1>6, <1>7 DEF TablesOK
<1>9. UidsUnique'
  BY <1>6 DEF UpsertInv, UidsUnique
<1>10. LatestDocs'
  BY <1>6 DEF UpsertInv, LatestDocs, ScoredDoc, DocsOf
<1>11. RowsOf(c.id)' = RowsOf(c.id) \cup {r} /\ \A v : v # c.id => RowsOf(v)' = RowsOf(v)
  <2>1. PICK new : new = [vector |-> c.id, row |-> r, version |-> c.version]
    OBVIOUS
  <2>2. new.vector = c.id /\ new.row = r /\ metadata' = metadata \cup {new}
    BY <1>5, <2>1
  <2>3. QED  BY <2>2 DEF RowsOf
<1>12. c.alone => InHand(c) /\ Progress(c)
  BY <1>1, <1>2 DEF UpsertInv, AloneCalls
<1>13. Whole'
  <2> SUFFICES ASSUME NEW v \in DOMAIN vector' \ mixed'
               PROVE  \E g \in given'[v].metadata : RowsOf(v)' \subseteq g
    BY DEF Whole
  <2>1. CASE v = c.id
    <3>1. c.alone
      BY <1>5, <2>1
    <3>2. UNION ItemOf(c).metadata \in given[c.id].metadata /\ RowsOf(c.id) \subseteq UNION ItemOf(c).metadata
      BY <1>2, <1>12, <3>1 DEF InHand
    <3>3. RowsOf(c.id)' \subseteq UNION ItemOf(c).metadata
      BY <1>3, <1>11, <3>2
    <3>4. QED  BY <1>6, <2>1, <3>2, <3>3
  <2>2. CASE v # c.id
    <3>1. v \in DOMAIN vector \ mixed
      BY <1>5, <1>6
    <3>2. QED  BY <1>6, <1>11, <2>2, <3>1 DEF UpsertInv, Whole
  <2>3. QED  BY <2>1, <2>2
<1>14. PICK e : e = [c EXCEPT !.rows = c.rows \ {r}]
  OBVIOUS
<1>15. /\ e \in Call /\ e.pc = "metadata" /\ e.at = c.at /\ e.sent = c.sent /\ e.version = c.version
       /\ e.id = c.id /\ e.rows = c.rows \ {r} /\ e.alone = c.alone
       /\ ItemOf(e) = ItemOf(c) /\ Ended(e) = Ended(c)
  <2>1. /\ e \in Call /\ e.pc = "metadata" /\ e.at = c.at /\ e.sent = c.sent /\ e.version = c.version
        /\ e.id = c.id /\ e.rows = c.rows \ {r} /\ e.alone = c.alone
    BY <1>2, <1>3, <1>14 DEF Call
  <2>2. QED  BY <2>1 DEF ItemOf, Ended
<1>16. PICK d : d = IF c.rows = {r} THEN WithDoc(e) ELSE e
  OBVIOUS
<1>17. call' = [call EXCEPT ![t] = d]
  <2>1. c.rows = {r} => [c EXCEPT !.rows = {}] = e
    BY <1>14
  <2>2. CASE c.rows = {r}
    BY <1>5, <1>16, <2>1, <2>2
  <2>3. CASE c.rows # {r}
    BY <1>5, <1>14, <1>16, <2>3
  <2>4. QED  BY <2>2, <2>3
<1>18. CallOK(d, 1..vectorSeq') /\ d.alone = c.alone
  <2>1. CASE c.rows = {r}
    BY <1>3, <1>7, <1>15, <1>16, <2>1, WithDocFacts
  <2>2. CASE c.rows # {r}
    <3>1. e.rows \subseteq UNION (IF e.pc = "metadata" THEN ItemOf(e).metadata ELSE {})
      BY <1>3, <1>15
    <3>2. QED  BY <1>3, <1>7, <1>15, <1>16, <2>2, <3>1 DEF CallOK
  <2>3. QED  BY <2>1, <2>2
<1>19. ASSUME d.alone
       PROVE  InHand(d)' /\ Progress(d)'
  <2>1. InHand(c) /\ Progress(c) /\ c.alone
    BY <1>12, <1>18, <1>19
  <2>2. c.id \in VectorsNamed(c.version, ItemOf(c).uid)
    BY <1>2, <2>1 DEF InHand
  <2>3. \A x, y : VectorsNamed(x, y)' = VectorsNamed(x, y)
    BY <1>6 DEF VectorsNamed
  <2>4. Reached(c) = c.at /\ \A i, n : IsLastSent(e, i, n) = IsLastSent(c, i, n)
    BY <1>2, <1>15 DEF Reached, IsLastSent
  <2>5. ASSUME NEW i \in 1..c.at
        PROVE  /\ (VectorsNamed(c.version, c.sent[i].uid) # {})'
               /\ IsLastSent(c, i, c.at) =>
                    (\A v \in VectorsNamed(c.version, c.sent[i].uid) :
                       RowsOf(v) = (UNION c.sent[i].metadata) \ (IF i = c.at THEN e.rows ELSE {}))'
    <3>1. /\ VectorsNamed(c.version, c.sent[i].uid) # {}
          /\ IsLastSent(c, i, c.at) =>
               \A v \in VectorsNamed(c.version, c.sent[i].uid) :
                   RowsOf(v) = (UNION c.sent[i].metadata) \ (IF i = c.at THEN c.rows ELSE {})
      BY <2>1, <2>4 DEF Progress
    <3>2. SUFFICES ASSUME IsLastSent(c, i, c.at), NEW v \in VectorsNamed(c.version, c.sent[i].uid)
                   PROVE  RowsOf(v)' = (UNION c.sent[i].metadata) \ (IF i = c.at THEN e.rows ELSE {})
      BY <2>3, <3>1
    <3>3. CASE i = c.at
      <4>1. v = c.id
        BY <2>2, <3>3, OneVector DEF ItemOf
      <4>2. RowsOf(v) = (UNION c.sent[i].metadata) \ c.rows
        BY <3>1, <3>2, <3>3
      <4>3. RowsOf(v)' = RowsOf(v) \cup {r}
        BY <1>11, <4>1
      <4>4. c.rows \subseteq UNION c.sent[i].metadata
        BY <1>3, <3>3 DEF ItemOf
      <4>5. RowsOf(v)' = (UNION c.sent[i].metadata) \ (c.rows \ {r})
        BY <4>2, <4>3, <4>4
      <4>6. QED  BY <1>15, <3>3, <4>5
    <3>4. CASE i # c.at
      <4>1. v # c.id
        <5>1. c.at \in Nat
          BY <1>3
        <5>2. QED  BY <1>3, <2>2, <3>2, <3>4, <5>1, OtherVector
      <4>2. QED  BY <1>11, <3>1, <3>2, <3>4, <4>1
    <3>5. QED  BY <3>3, <3>4
  <2>6. (c.id \in VectorsNamed(c.version, ItemOf(c).uid))'
    BY <2>2, <2>3
  <2>7. CASE c.rows = {r}
    <3>1. d = WithDoc(e) /\ e.rows = {}
      BY <1>15, <1>16, <2>7
    <3>2. \A i \in 1..e.at :
               /\ (VectorsNamed(e.version, e.sent[i].uid) # {})'
               /\ IsLastSent(e, i, e.at) =>
                    (\A v \in VectorsNamed(e.version, e.sent[i].uid) : RowsOf(v) = UNION e.sent[i].metadata)'
      BY <1>15, <2>4, <2>5, <3>1
    <3>3. (e.id \in VectorsNamed(e.version, ItemOf(e).uid))'
      BY <1>15, <2>6
    <3>4. QED  BY <1>3, <1>15, <3>1, <3>2, <3>3, WithDocAlone
  <2>8. CASE c.rows # {r}
    <3>1. d = e
      BY <1>16, <2>8
    <3>2. Reached(d) = c.at
      BY <1>15, <3>1 DEF Reached
    <3>3. Progress(d)'
      BY <1>15, <2>4, <2>5, <3>1, <3>2 DEF Progress
    <3>4. /\ c.id \notin mixed /\ UNION ItemOf(c).metadata \in given[c.id].metadata
          /\ RowsOf(c.id) \subseteq UNION ItemOf(c).metadata
      BY <1>2, <2>1 DEF InHand
    <3>5. c.id \notin mixed' /\ RowsOf(c.id)' \subseteq UNION ItemOf(c).metadata
      BY <1>3, <1>5, <1>11, <2>1, <3>4
    <3>6. InHand(d)'
      BY <1>6, <1>15, <2>6, <3>1, <3>4, <3>5 DEF InHand
    <3>7. QED  BY <3>3, <3>6
  <2>9. QED  BY <2>7, <2>8
<1>20. /\ DOMAIN call' = Threads
       /\ \A u \in UnderWay' : CallOK(call'[u], 1..vectorSeq')
       /\ AloneCalls'
  BY <1>1, <1>2, <1>7, <1>17, <1>18, <1>19, CallMoves
<1>21. QED  BY <1>8, <1>9, <1>10, <1>13, <1>20 DEF UpsertInv, DocsTypeOK

LEMMA WiderSeq ==
    ASSUME NEW S, NEW T, S \subseteq T, NEW s \in Seq(S)
    PROVE  s \in Seq(T) /\ \A i \in DOMAIN s : s[i] \in S
<1>1. PICK n \in Nat : n = Len(s)
  OBVIOUS
<1>2. DOMAIN s = 1..n /\ \A i \in 1..n : s[i] \in S
  BY <1>1
<1>3. s = [i \in 1..n |-> s[i]]
  BY <1>1
<1>4. \A i \in 1..n : s[i] \in T
  BY <1>2
<1>5. [i \in 1..n |-> s[i]] \in Seq(T)
  BY <1>4
<1>6. QED  BY <1>2, <1>3, <1>5

(* addVector: a vector found, or a new one whose id nothing refers to.      *)
LEMMA AddVectorInv ==
    ASSUME UpsertInv, NEW t \in Threads, AddVector(t), UNCHANGED calls
    PROVE  UpsertInv'
<1>1. PICK c : c = call[t]
  OBVIOUS
<1>2. t \in UnderWay /\ c.pc = "vector" /\ ~Ended(c)
  BY <1>1 DEF AddVector, UnderWay
<1>3. /\ c \in Call /\ CallOK(c, 1..vectorSeq) /\ Len(c.sent) \in Nat /\ c.version \in Versions
      /\ c.at \in 1..Len(c.sent) /\ ItemOf(c) \in Item /\ c.rows = {}
  BY <1>1, <1>2, ItemFacts DEF UpsertInv, CallOK
<1>4. PICK found : found = VectorsNamed(c.version, ItemOf(c).uid)
  OBVIOUS
<1>5. PICK v \in IF found # {} THEN found ELSE {NextId} \cap VectorId :
        /\ call' = [call EXCEPT ![t] =
              IF ItemOf(c).metadata # {} THEN [[c EXCEPT !.id = v] EXCEPT !.pc = "clear"]
              ELSE WithDoc([c EXCEPT !.id = v])]
        /\ IF found # {} THEN UNCHANGED <<vector, vectorSeq, given>>
           ELSE /\ vector' = Put(vector, v, [version |-> [c EXCEPT !.id = v].version, uid |-> ItemOf(c).uid])
                /\ vectorSeq' = v
                /\ given' = Put(given, v, [metadata |-> {{}}, doc |-> {}])
  BY <1>1, <1>4 DEF AddVector
<1>6. UNCHANGED <<versions, metadata, bm25, mixed>>
  BY DEF AddVector
<1>7. TablesOK /\ vectorSeq \in Nat /\ MaxVector \in Nat
  BY UpsertAssumption DEF UpsertInv, DocsTypeOK, TablesOK
<1>8. PICK e : e = [c EXCEPT !.id = v]
  OBVIOUS
<1>9. /\ vectorSeq' \in Nat /\ vectorSeq <= vectorSeq' /\ v \in 1..vectorSeq' /\ vectorSeq' \in 0..MaxVector
      /\ found = {} => v = vectorSeq + 1 /\ vectorSeq' = v
      /\ found # {} => v \in found /\ UNCHANGED <<vector, vectorSeq, given>>
  <2>1. CASE found # {}
    <3>1. v \in DOMAIN vector /\ vectorSeq' = vectorSeq
      BY <1>4, <1>5, <2>1 DEF VectorsNamed
    <3>2. QED  BY <1>5, <1>7, <2>1, <3>1 DEF TablesOK
  <2>2. CASE found = {}
    <3>1. v = vectorSeq + 1 /\ v \in 1..MaxVector /\ vectorSeq' = v
      BY <1>5, <2>2 DEF NextId, VectorId
    <3>2. QED  BY <1>7, <2>2, <3>1
  <2>3. QED  BY <2>1, <2>2
<1>10. /\ e \in Call /\ e.pc = "vector" /\ e.at = c.at /\ e.sent = c.sent /\ e.version = c.version
       /\ e.id = v /\ e.rows = {} /\ e.alone = c.alone
       /\ ItemOf(e) = ItemOf(c) /\ Ended(e) = Ended(c) /\ Reached(e) = c.at - 1
  <2>1. v \in 0..MaxVector
    BY <1>7, <1>9
  <2>2. /\ e \in Call /\ e.pc = "vector" /\ e.at = c.at /\ e.sent = c.sent /\ e.version = c.version
        /\ e.id = v /\ e.rows = {} /\ e.alone = c.alone
    BY <1>2, <1>3, <1>8, <2>1 DEF Call
  <2>3. QED  BY <2>2 DEF ItemOf, Ended, Reached
<1>11. /\ DOMAIN vector' = DOMAIN vector \cup {v}
       /\ vector'[v] = [version |-> c.version, uid |-> ItemOf(c).uid] \/ found # {}
       /\ vector'[v].version = c.version /\ vector'[v].uid = ItemOf(c).uid
       /\ \A w \in DOMAIN vector : vector'[w] = vector[w]
  <2>1. CASE found # {}
    BY <1>4, <1>9, <2>1 DEF VectorsNamed
  <2>2. CASE found = {}
    <3>1. vector' = Put(vector, v, [version |-> c.version, uid |-> ItemOf(c).uid])
      BY <1>5, <1>8, <1>10, <2>2
    <3>2. v \notin DOMAIN vector
      BY <1>7, <1>9, <2>2 DEF TablesOK
    <3>3. QED  BY <3>1, <3>2 DEF Put
  <2>3. QED  BY <2>1, <2>2
<1>12. found = {} => /\ v \notin DOMAIN given /\ DOMAIN given' = DOMAIN given \cup {v}
                     /\ given'[v] = [metadata |-> {{}}, doc |-> {}]
                     /\ \A w \in DOMAIN given : given'[w] = given[w]
  <2> SUFFICES ASSUME found = {}
               PROVE  /\ v \notin DOMAIN given /\ DOMAIN given' = DOMAIN given \cup {v}
                      /\ given'[v] = [metadata |-> {{}}, doc |-> {}]
                      /\ \A w \in DOMAIN given : given'[w] = given[w]
    OBVIOUS
  <2>1. given' = Put(given, v, [metadata |-> {{}}, doc |-> {}])
    BY <1>5
  <2>2. v \notin DOMAIN given
    BY <1>7, <1>9 DEF TablesOK
  <2>3. QED  BY <2>1, <2>2 DEF Put
<1>13. \A w : RowsOf(w)' = RowsOf(w) /\ ScoredDoc(w)' = ScoredDoc(w)
  BY <1>6 DEF RowsOf, ScoredDoc, DocsOf
<1>14. found = {} => RowsOf(v) = {} /\ ScoredDoc(v) = {}
  <2> SUFFICES ASSUME found = {} PROVE RowsOf(v) = {} /\ ScoredDoc(v) = {}
    OBVIOUS
  <2>1. v \notin 1..vectorSeq
    BY <1>7, <1>9
  <2>2. \A m \in metadata : m.vector \in 1..vectorSeq
    BY <1>7 DEF TablesOK
  <2>3. \A i \in DOMAIN bm25 : bm25[i].vector \in 1..vectorSeq
    <3>1. bm25 \in Seq([vector : 1..vectorSeq, doc : Doc])
      BY <1>7 DEF TablesOK
    <3>2. PICK S : S = [vector : 1..vectorSeq, doc : Doc]
      OBVIOUS
    <3>3. S \subseteq S /\ bm25 \in Seq(S)
      BY <3>1, <3>2
    <3>4. \A i \in DOMAIN bm25 : bm25[i] \in S
      BY <3>3, WiderSeq
    <3>5. QED  BY <3>2, <3>4
  <2>4. DocsOf(v) = {}
    BY <2>1, <2>3 DEF DocsOf
  <2>5. QED  BY <2>1, <2>2, <2>4 DEF RowsOf, ScoredDoc
<1>15. TablesOK'
  <2>1. CASE found # {}
    BY <1>6, <1>7, <1>9, <2>1 DEF TablesOK
  <2>2. CASE found = {}
    <3>1. vectorSeq' = vectorSeq + 1 /\ v = vectorSeq + 1 /\ 1..vectorSeq' = (1..vectorSeq) \cup {v}
      BY <1>7, <1>9, <2>2
    <3>2. \A w \in DOMAIN vector' : vector'[w] \in [version : Versions, uid : Uids]
      <4>1. [version |-> c.version, uid |-> ItemOf(c).uid] \in [version : Versions, uid : Uids]
        BY <1>3 DEF Item
      <4>2. QED  BY <1>7, <1>11, <2>2, <4>1 DEF TablesOK
    <3>3. \A w \in DOMAIN given' : given'[w] \in [metadata : SUBSET SUBSET Rows, doc : Optional(Doc)]
      <4>1. [metadata |-> {{}}, doc |-> {}] \in [metadata : SUBSET SUBSET Rows, doc : Optional(Doc)]
        BY DEF Optional
      <4>2. QED  BY <1>7, <1>12, <2>2, <4>1 DEF TablesOK
    <3>4. metadata' \subseteq [vector : 1..vectorSeq', row : Rows, version : Versions]
      BY <1>6, <1>7, <3>1 DEF TablesOK
    <3>5. bm25' \in Seq([vector : 1..vectorSeq', doc : Doc]) /\ Len(bm25') <= MaxDocuments
      <4>1. [vector : 1..vectorSeq, doc : Doc] \subseteq [vector : 1..vectorSeq', doc : Doc]
        BY <3>1
      <4>2. PICK S, T : S = [vector : 1..vectorSeq, doc : Doc] /\ T = [vector : 1..vectorSeq', doc : Doc]
        OBVIOUS
      <4>3. S \subseteq T /\ bm25 \in Seq(S)
        BY <1>7, <4>1, <4>2 DEF TablesOK
      <4>4. bm25 \in Seq(T)
        BY <4>3, WiderSeq
      <4>5. QED  BY <1>6, <1>7, <4>2, <4>4 DEF TablesOK
    <3>6. DOMAIN vector' \subseteq 1..vectorSeq' /\ DOMAIN given' = 1..vectorSeq' /\ mixed' \subseteq DOMAIN given'
      BY <1>6, <1>7, <1>11, <1>12, <2>2, <3>1 DEF TablesOK
    <3>7. QED  BY <1>6, <1>7, <1>9, <3>2, <3>3, <3>4, <3>5, <3>6 DEF TablesOK
  <2>3. QED  BY <2>1, <2>2
<1>16. UidsUnique'
  <2>1. CASE found # {}
    BY <1>9, <2>1 DEF UpsertInv, UidsUnique
  <2>2. CASE found = {}
    <3>1. \A w \in DOMAIN vector : ~(vector[w].version = c.version /\ vector[w].uid = ItemOf(c).uid)
      BY <1>4, <2>2 DEF VectorsNamed
    <3>2. QED  BY <1>11, <3>1 DEF UpsertInv, UidsUnique
  <2>3. QED  BY <2>1, <2>2
<1>17. LatestDocs'
  <2>1. CASE found # {}
    BY <1>9, <1>13, <2>1 DEF UpsertInv, LatestDocs
  <2>2. CASE found = {}
    <3>1. 1..vectorSeq' = (1..vectorSeq) \cup {v}
      BY <1>7, <1>9, <2>2
    <3>2. \A w \in 1..vectorSeq : given'[w] = given[w]
      BY <1>7, <1>12, <2>2 DEF TablesOK
    <3>3. given'[v].doc = {}
      BY <1>12, <2>2
    <3>4. QED  BY <1>13, <1>14, <2>2, <3>1, <3>2, <3>3 DEF UpsertInv, LatestDocs
  <2>3. QED  BY <2>1, <2>2
<1>18. Whole'
  <2>1. CASE found # {}
    BY <1>6, <1>9, <1>13, <2>1 DEF UpsertInv, Whole
  <2>2. CASE found = {}
    <3> SUFFICES ASSUME NEW w \in DOMAIN vector' \ mixed'
                 PROVE  \E g \in given'[w].metadata : RowsOf(w)' \subseteq g
      BY DEF Whole
    <3>1. CASE w = v
      <4>1. {} \in given'[w].metadata
        BY <1>12, <2>2, <3>1
      <4>2. QED  BY <1>13, <1>14, <2>2, <3>1, <4>1
    <3>2. CASE w # v
      <4>1. w \in DOMAIN vector \ mixed /\ w \in DOMAIN given
        BY <1>6, <1>7, <1>11, <3>2 DEF TablesOK
      <4>2. given'[w] = given[w]
        BY <1>12, <2>2, <4>1
      <4>3. QED  BY <1>13, <4>1, <4>2 DEF UpsertInv, Whole
    <3>3. QED  BY <3>1, <3>2
  <2>3. QED  BY <2>1, <2>2
<1>19. PICK f : f = [e EXCEPT !.pc = "clear"]
  OBVIOUS
<1>20. /\ f \in Call /\ f.pc = "clear" /\ f.at = c.at /\ f.sent = c.sent /\ f.version = c.version
       /\ f.id = v /\ f.rows = {} /\ f.alone = c.alone
       /\ ItemOf(f) = ItemOf(c) /\ Ended(f) = Ended(c) /\ Reached(f) = c.at - 1
  <2>1. /\ f \in Call /\ f.pc = "clear" /\ f.at = c.at /\ f.sent = c.sent /\ f.version = c.version
        /\ f.id = v /\ f.rows = {} /\ f.alone = c.alone
    BY <1>10, <1>19 DEF Call
  <2>2. QED  BY <2>1 DEF ItemOf, Ended, Reached
<1>21. PICK d : d = IF ItemOf(c).metadata # {} THEN f ELSE WithDoc(e)
  OBVIOUS
<1>22. call' = [call EXCEPT ![t] = d]
  BY <1>5, <1>8, <1>19, <1>21
<1>23. CallOK(d, 1..vectorSeq') /\ d.alone = c.alone
  <2>1. CASE ItemOf(c).metadata # {}
    BY <1>2, <1>3, <1>9, <1>20, <1>21, <2>1 DEF CallOK
  <2>2. CASE ItemOf(c).metadata = {}
    BY <1>3, <1>9, <1>10, <1>21, <2>2, WithDocFacts
  <2>3. QED  BY <2>1, <2>2
<1>24. ASSUME d.alone
       PROVE  InHand(d)' /\ Progress(d)'
  <2>1. Progress(c) /\ Reached(c) = c.at - 1
    BY <1>1, <1>2, <1>23, <1>24 DEF UpsertInv, AloneCalls, Reached
  <2>2. (v \in VectorsNamed(c.version, ItemOf(c).uid))'
    BY <1>11 DEF VectorsNamed
  <2>3. ASSUME NEW uid, VectorsNamed(c.version, uid) # {}
        PROVE  VectorsNamed(c.version, uid)' = VectorsNamed(c.version, uid)
    <3>1. v \in DOMAIN vector \/ uid # ItemOf(c).uid
      BY <1>4, <1>9, <2>3 DEF VectorsNamed
    <3>2. QED  BY <1>11, <3>1 DEF VectorsNamed
  <2>4. ASSUME NEW i \in 1..c.at - 1
        PROVE  /\ (VectorsNamed(c.version, c.sent[i].uid) # {})'
               /\ IsLastSent(c, i, c.at - 1) =>
                    (\A w \in VectorsNamed(c.version, c.sent[i].uid) : RowsOf(w) = UNION c.sent[i].metadata)'
    <3>1. /\ VectorsNamed(c.version, c.sent[i].uid) # {}
          /\ IsLastSent(c, i, c.at - 1) =>
               \A w \in VectorsNamed(c.version, c.sent[i].uid) :
                   RowsOf(w) = (UNION c.sent[i].metadata) \ {}
      BY <1>3, <2>1 DEF Progress
    <3>2. VectorsNamed(c.version, c.sent[i].uid)' = VectorsNamed(c.version, c.sent[i].uid)
      BY <2>3, <3>1
    <3>3. QED  BY <1>13, <3>1, <3>2
  <2>5. CASE ItemOf(c).metadata # {}
    <3>1. d = f /\ \A i, n : IsLastSent(f, i, n) = IsLastSent(c, i, n)
      BY <1>20, <1>21, <2>5 DEF IsLastSent
    <3>2. InHand(d)'
      BY <1>20, <2>2, <3>1 DEF InHand
    <3>3. \A i \in 1..c.at - 1 : i # c.at
      BY <1>3
    <3>4. Progress(d)'
      BY <1>20, <2>4, <3>1, <3>3 DEF Progress
    <3>5. QED  BY <3>2, <3>4
  <2>6. CASE ItemOf(c).metadata = {}
    <3>1. d = WithDoc(e) /\ \A i, n : IsLastSent(e, i, n) = IsLastSent(c, i, n)
      BY <1>10, <1>21, <2>6 DEF IsLastSent
    <3>2. (e.id \in VectorsNamed(e.version, ItemOf(e).uid))'
      BY <1>10, <2>2
    <3>3. ASSUME NEW i \in 1..c.at
          PROVE  /\ (VectorsNamed(c.version, c.sent[i].uid) # {})'
                 /\ IsLastSent(c, i, c.at) =>
                      (\A w \in VectorsNamed(c.version, c.sent[i].uid) : RowsOf(w) = UNION c.sent[i].metadata)'
      <4>1. CASE i = c.at
        <5>1. ~IsLastSent(c, i, c.at)
          BY <2>6, <4>1 DEF IsLastSent, ItemOf
        <5>2. QED  BY <2>2, <4>1, <5>1 DEF ItemOf
      <4>2. CASE i # c.at
        <5>1. i \in 1..c.at - 1
          BY <1>3, <4>2
        <5>2. IsLastSent(c, i, c.at) => IsLastSent(c, i, c.at - 1)
          BY <1>3 DEF IsLastSent
        <5>3. QED  BY <2>4, <5>1, <5>2
      <4>3. QED  BY <4>1, <4>2
    <3>4. \A i \in 1..e.at :
               /\ (VectorsNamed(e.version, e.sent[i].uid) # {})'
               /\ IsLastSent(e, i, e.at) =>
                    (\A w \in VectorsNamed(e.version, e.sent[i].uid) : RowsOf(w) = UNION e.sent[i].metadata)'
      BY <1>10, <3>1, <3>3
    <3>5. QED  BY <1>3, <1>10, <3>1, <3>2, <3>4, WithDocAlone
  <2>7. QED  BY <2>5, <2>6
<1>25. /\ DOMAIN call' = Threads
       /\ \A u \in UnderWay' : CallOK(call'[u], 1..vectorSeq')
       /\ AloneCalls'
  BY <1>1, <1>2, <1>7, <1>9, <1>22, <1>23, <1>24, CallMoves
<1>26. QED  BY <1>15, <1>16, <1>17, <1>18, <1>25 DEF UpsertInv, DocsTypeOK

----------------------------------------------------------------------------
LEMMA UpsertInvInit == DocInit => UpsertInv
<1> SUFFICES ASSUME DocInit PROVE UpsertInv
  OBVIOUS
<1>1. vector = Empty /\ given = Empty /\ DOMAIN Empty = {} /\ UnderWay = {} /\ DOMAIN call = Threads
  BY DEF DocInit, Empty, UnderWay
<1>2. DocsTypeOK
  <2>1. bm25 = <<>> /\ 0 \in 0..MaxVector /\ 0 \in 0..MaxCalls /\ 0 <= MaxDocuments /\ 1..0 = {}
    BY UpsertAssumption DEF DocInit
  <2>2. TablesOK
    BY <1>1, <2>1 DEF DocInit, TablesOK
  <2>3. QED  BY <1>1, <2>1, <2>2 DEF DocInit, DocsTypeOK
<1>3. UidsUnique /\ Whole /\ AloneCalls
  BY <1>1 DEF UidsUnique, Whole, AloneCalls
<1>4. LatestDocs
  BY DEF DocInit, LatestDocs
<1>5. QED  BY <1>2, <1>3, <1>4 DEF UpsertInv

LEMMA UpsertInvNext == UpsertInv /\ [DocNext]_docVars => UpsertInv'
<1> SUFFICES ASSUME UpsertInv, [DocNext]_docVars PROVE UpsertInv'
  OBVIOUS
<1>1. CASE \E t \in Threads, version \in Versions, request \in Requests : Begin(t, version, request)
  BY <1>1, BeginInv
<1>2. CASE (\E t \in Threads : UpsertStep(t)) /\ UNCHANGED calls
  BY <1>2, AddVectorInv, DeleteMetadataInv, AddMetadataInv, AddDocumentInv, LeaveInv DEF UpsertStep
<1>3. CASE Delete /\ UNCHANGED calls
  BY <1>3, DeleteInv
<1>4. CASE UNCHANGED docVars
  <2>1. TablesOK' /\ UidsUnique' /\ LatestDocs' /\ Whole' /\ vectorSeq' = vectorSeq
    BY <1>4, TablesKept DEF docVars
  <2>2. UnderWay' = UnderWay /\ call' = call /\ calls' = calls /\ mixed' = mixed /\ given' = given
    BY <1>4 DEF docVars, UnderWay
  <2>3. \A v, uid, version : RowsOf(v)' = RowsOf(v) /\ VectorsNamed(version, uid)' = VectorsNamed(version, uid)
    BY <1>4 DEF docVars, tables, RowsOf, VectorsNamed
  <2>4. AloneCalls'
    <3> SUFFICES ASSUME NEW t \in UnderWay', call'[t].alone
                 PROVE  UnderWay' = {t} /\ InHand(call[t])' /\ Progress(call[t])'
      BY DEF AloneCalls
    <3>1. UnderWay = {t} /\ InHand(call[t]) /\ Progress(call[t])
      BY <2>2 DEF UpsertInv, AloneCalls
    <3>2. InHand(call[t])'
      BY <2>2, <2>3, <3>1 DEF InHand, ItemOf
    <3>3. Reached(call[t])' = Reached(call[t]) /\ \A i, n : IsLastSent(call[t], i, n)' = IsLastSent(call[t], i, n)
      BY <2>2 DEF Reached, IsLastSent
    <3>4. Progress(call[t])'
      BY <2>2, <2>3, <3>1, <3>3 DEF Progress
    <3>5. QED  BY <2>2, <3>1, <3>2, <3>4
  <2>5. QED  BY <2>1, <2>2, <2>4 DEF UpsertInv, DocsTypeOK
<1>5. QED  BY <1>1, <1>2, <1>3, <1>4 DEF DocNext

(* Tables, histories and calls are of their types: a row of metadata or a    *)
(* document refers to an id that was issued, and a call to an item it has.   *)
THEOREM DocsTypeCorrect == DocSpec => []DocsTypeOK
<1>1. UpsertInv => DocsTypeOK
  BY DEF UpsertInv
<1>2. QED  BY <1>1, UpsertInvInit, UpsertInvNext, PTL DEF DocSpec

(* The metadata a reader sees are a part of what one request gave, and those *)
(* of an undisturbed upsert that returns are all of the last one sent.       *)
THEOREM UpsertsStayWholeCorrect == DocSpec => UpsertsStayWhole
<1>1. ASSUME UpsertInv, UpsertInv', [DocNext]_docVars
      PROVE  /\ \A v \in DOMAIN vector' \ mixed' : \E g \in given'[v].metadata : RowsOf(v)' \subseteq g
             /\ \A t \in UnderWay : Return(t) /\ call[t].alone =>
                  \A i \in DOMAIN call[t].sent :
                      \E v \in VectorsNamed(call[t].version, call[t].sent[i].uid) :
                          IsLastSent(call[t], i, Len(call[t].sent))
                              => RowsOf(v) = UNION call[t].sent[i].metadata
  <2>1. \A v \in DOMAIN vector' \ mixed' : \E g \in given'[v].metadata : RowsOf(v)' \subseteq g
    BY <1>1 DEF UpsertInv, Whole
  <2>2. ASSUME NEW t \in UnderWay, Return(t), call[t].alone, NEW i \in DOMAIN call[t].sent
        PROVE  \E v \in VectorsNamed(call[t].version, call[t].sent[i].uid) :
                   IsLastSent(call[t], i, Len(call[t].sent)) => RowsOf(v) = UNION call[t].sent[i].metadata
    <3>1. PICK c : c = call[t]
      OBVIOUS
    <3>2. CallOK(c, 1..vectorSeq) /\ Len(c.sent) \in Nat /\ DOMAIN c.sent = 1..Len(c.sent)
      BY <1>1, <3>1, ItemFacts DEF UpsertInv
    <3>3. Ended(c)
      BY <2>2, <3>1 DEF Return
    <3>4. c.at = Len(c.sent) + 1 /\ c.pc = "vector" /\ c.rows = {}
      BY <3>2, <3>3 DEF CallOK, Ended
    <3>5. Reached(c) = Len(c.sent)
      BY <3>2, <3>4 DEF Reached
    <3>6. Progress(c)
      BY <1>1, <2>2, <3>1 DEF UpsertInv, AloneCalls
    <3>7. i \in 1..Reached(c)
      BY <2>2, <3>1, <3>2, <3>5
    <3>8. /\ VectorsNamed(c.version, c.sent[i].uid) # {}
          /\ IsLastSent(c, i, Len(c.sent)) =>
               \A v \in VectorsNamed(c.version, c.sent[i].uid) : RowsOf(v) = (UNION c.sent[i].metadata) \ {}
      BY <3>4, <3>5, <3>6, <3>7 DEF Progress
    <3>9. QED  BY <3>1, <3>8
  <2>3. QED  BY <2>1, <2>2
<1>2. QED  BY <1>1, UpsertInvInit, UpsertInvNext, PTL DEF DocSpec, UpsertsStayWhole

----------------------------------------------------------------------------
(* std::sort of two results, the first of which is nearer.                  *)
LEMMA SortedTwo ==
    ASSUME NEW s, DOMAIN s = 1..2, s[1].score \in Int, s[2].score \in Int,
           s[1].distance = 1, s[2].distance = 2
    PROVE  Sorted(s) = {IF s[1].score >= s[2].score THEN [i \in 1..2 |-> s[i]] ELSE [i \in 1..2 |-> s[3 - i]]}
<1>1. PICK n, m \in 1..2 :
        /\ n # m /\ n = IF s[1].score >= s[2].score THEN 1 ELSE 2
        /\ Before(s[n], s[m]) /\ ~Before(s[m], s[n]) /\ ~Before(s[n], s[n]) /\ ~Before(s[m], s[m])
  <2>1. CASE s[1].score >= s[2].score
    BY <2>1 DEF Before
  <2>2. CASE ~(s[1].score >= s[2].score)
    BY <2>2 DEF Before
  <2>3. QED  BY <2>1, <2>2
<1>2. PICK p : p = [i \in 1..2 |-> IF i = 1 THEN n ELSE m]
  OBVIOUS
<1>3. /\ p \in [1..2 -> 1..2] /\ IsInjective(p)
      /\ \A i, j \in 1..2 : Before(s[p[i]], s[p[j]]) => i < j
  <2>1. p \in [1..2 -> 1..2] /\ p[1] = n /\ p[2] = m
    BY <1>1, <1>2
  <2>2. IsInjective(p)
    BY <1>1, <2>1 DEF IsInjective
  <2>3. ASSUME NEW i \in 1..2, NEW j \in 1..2, Before(s[p[i]], s[p[j]])
        PROVE  i < j
    BY <1>1, <2>1, <2>3
  <2>4. QED  BY <2>1, <2>2, <2>3
<1>4. ASSUME NEW q \in [1..2 -> 1..2], IsInjective(q),
             \A i, j \in 1..2 : Before(s[q[i]], s[q[j]]) => i < j
      PROVE  q = p
  <2>1. q[1] # q[2]
    BY <1>4 DEF IsInjective
  <2>2. q[1] = n
    <3>1. SUFFICES ASSUME q[1] # n PROVE FALSE
      OBVIOUS
    <3>2. q[1] = m /\ q[2] = n
      BY <1>1, <2>1, <3>1
    <3>3. QED  BY <1>1, <1>4, <3>2
  <2>3. q[2] = m
    BY <1>1, <2>1, <2>2
  <2>4. QED  BY <1>2, <2>2, <2>3
<1>5. Sorted(s) = {[i \in 1..2 |-> s[p[i]]]}
  BY <1>3, <1>4 DEF Sorted
<1>6. [i \in 1..2 |-> s[p[i]]] = IF s[1].score >= s[2].score THEN [i \in 1..2 |-> s[i]] ELSE [i \in 1..2 |-> s[3 - i]]
  <2>1. CASE s[1].score >= s[2].score
    <3>1. \A i \in 1..2 : p[i] = i
      BY <1>1, <1>2, <2>1
    <3>2. QED  BY <2>1, <3>1
  <2>2. CASE ~(s[1].score >= s[2].score)
    <3>1. \A i \in 1..2 : p[i] = 3 - i
      BY <1>1, <1>2, <2>2
    <3>2. QED  BY <2>2, <3>1
  <2>3. QED  BY <2>1, <2>2
<1>7. QED  BY <1>5, <1>6

LEMMA ScoreIsInt == ASSUME NEW docs \in SUBSET Doc PROVE Score(docs) \in Int
<1>1. CASE \E d \in docs : d.hit
  <2>1. (CHOOSE d \in docs : TRUE) \in Doc
    BY <1>1
  <2>2. (CHOOSE d \in docs : TRUE).length \in Int
    BY <2>1 DEF Doc
  <2>3. QED  BY <1>1, <2>2, UpsertAssumption DEF Score
<1>2. CASE ~\E d \in docs : d.hit
  BY <1>2 DEF Score
<1>3. QED  BY <1>1, <1>2

(* Two results of a search come back in the order of the last documents      *)
(* their vectors were given, the nearer first when these do not decide.      *)
THEOREM LatestDocRanksCorrect == DocSpec => []LatestDocRanks
<1>1. UpsertInv => LatestDocRanks
  <2> SUFFICES ASSUME UpsertInv, NEW version \in Versions, NEW a \in Uids, NEW b \in Uids, a # b
               PROVE  LET found == <<[uid |-> a, distance |-> 1], [uid |-> b, distance |-> 2]>>
                          score(u) == Score(UNION {given[v].doc : v \in VectorsNamed(version, u)})
                      IN  {[i \in 1..2 |-> ranked[i].uid] : ranked \in rerank(version, found)}
                              = {IF score(a) >= score(b) THEN <<a, b>> ELSE <<b, a>>}
    BY DEF LatestDocRanks
  <2> DEFINE found == <<[uid |-> a, distance |-> 1], [uid |-> b, distance |-> 2]>>
             score(u) == Score(UNION {given[v].doc : v \in VectorsNamed(version, u)})
  <2>1. TablesOK
    BY DEF UpsertInv, DocsTypeOK
  <2>2. \A u : \A v \in VectorsNamed(version, u) :
          /\ ScoredDoc(v) = given[v].doc
          /\ given[v].doc \subseteq Doc
    <3> SUFFICES ASSUME NEW v \in DOMAIN vector
                 PROVE  ScoredDoc(v) = given[v].doc /\ given[v].doc \subseteq Doc
      BY DEF VectorsNamed
    <3>1. v \in 1..vectorSeq /\ given[v] \in [metadata : SUBSET SUBSET Rows, doc : Optional(Doc)]
      BY <2>1 DEF TablesOK
    <3>2. ScoredDoc(v) = given[v].doc
      BY <3>1 DEF UpsertInv, LatestDocs
    <3>3. given[v].doc \in Optional(Doc)
      BY <3>1
    <3>4. QED  BY <3>2, <3>3 DEF Optional
  <2>3. ASSUME NEW u
        PROVE  bm25Score(version, u) = score(u) /\ score(u) \in Int
    <3>1. {ScoredDoc(v) : v \in VectorsNamed(version, u)} = {given[v].doc : v \in VectorsNamed(version, u)}
      BY <2>2
    <3>2. UNION {given[v].doc : v \in VectorsNamed(version, u)} \in SUBSET Doc
      BY <2>2
    <3>3. QED  BY <3>1, <3>2, ScoreIsInt DEF bm25Score
  <2>4. PICK sa, sb : sa = score(a) /\ sb = score(b)
    OBVIOUS
  <2>5. sa \in Int /\ sb \in Int /\ bm25Score(version, a) = sa /\ bm25Score(version, b) = sb
    BY <2>3, <2>4
  <2>6. PICK s : s = [i \in 1..2 |-> [uid |-> IF i = 1 THEN a ELSE b, distance |-> i,
                                      score |-> IF i = 1 THEN sa ELSE sb]]
    OBVIOUS
  <2>7. [i \in DOMAIN found |->
            [uid |-> found[i].uid, distance |-> found[i].distance,
             score |-> bm25Score(version, found[i].uid)]] = s
    <3>1. DOMAIN found = 1..2 /\ found[1] = [uid |-> a, distance |-> 1] /\ found[2] = [uid |-> b, distance |-> 2]
      OBVIOUS
    <3>2. \A i \in 1..2 : /\ found[i].uid = (IF i = 1 THEN a ELSE b) /\ found[i].distance = i
                          /\ bm25Score(version, found[i].uid) = IF i = 1 THEN sa ELSE sb
      BY <2>5, <3>1
    <3> HIDE DEF found
    <3>3. QED  BY <2>6, <3>1, <3>2
  <2>8. rerank(version, found) = Sorted(s)
    BY <2>7 DEF rerank
  <2>9. /\ DOMAIN s = 1..2 /\ s[1].score = sa /\ s[2].score = sb
        /\ s[1].distance = 1 /\ s[2].distance = 2 /\ s[1].uid = a /\ s[2].uid = b
    BY <2>6
  <2>10. PICK r : r = IF sa >= sb THEN [i \in 1..2 |-> s[i]] ELSE [i \in 1..2 |-> s[3 - i]]
    OBVIOUS
  <2>11. Sorted(s) = {r}
    BY <2>5, <2>9, <2>10, SortedTwo
  <2>12. [i \in 1..2 |-> r[i].uid] = IF sa >= sb THEN <<a, b>> ELSE <<b, a>>
    <3>1. CASE sa >= sb
      <4>1. r[1].uid = a /\ r[2].uid = b
        BY <2>9, <2>10, <3>1
      <4>2. QED  BY <3>1, <4>1
    <3>2. CASE ~(sa >= sb)
      <4>1. r[1].uid = b /\ r[2].uid = a
        BY <2>9, <2>10, <3>2
      <4>2. QED  BY <3>2, <4>1
    <3>3. QED  BY <3>1, <3>2
  <2>13. {[i \in 1..2 |-> ranked[i].uid] : ranked \in rerank(version, found)}
            = {IF sa >= sb THEN <<a, b>> ELSE <<b, a>>}
    BY <2>8, <2>11, <2>12
  <2>14. QED  BY <2>4, <2>13
<1>2. QED  BY <1>1, UpsertInvInit, UpsertInvNext, PTL DEF DocSpec

----------------------------------------------------------------------------
(* What belongs to a version: the rows of metadata a live vector has, also   *)
(* those an earlier call has left, and the id an upsert goes on with.        *)
RowVersions ==
    \A m \in metadata : m.vector \in DOMAIN vector => vector[m.vector].version = m.version
SameVersion(c) == c.id \in DOMAIN vector => vector[c.id].version = c.version
CallVersions == \A t \in UnderWay : call[t].pc # "vector" => SameVersion(call[t])
VersionsInv == UpsertInv /\ RowVersions /\ CallVersions

(* A vector keeps its version, and a new one has an id nothing refers to.    *)
VectorsKept ==
    \A v \in DOMAIN vector' :
        v \notin 1..vectorSeq \/ (v \in DOMAIN vector /\ vector'[v].version = vector[v].version)

LEMMA RowVersionsKept ==
    ASSUME VersionsInv, VectorsKept,
           \A m \in metadata' : m \in metadata \/ (m.vector \in DOMAIN vector' => vector'[m.vector].version = m.version)
    PROVE  RowVersions'
<1>1. \A m \in metadata : m.vector \in 1..vectorSeq
  BY DEF VersionsInv, UpsertInv, DocsTypeOK, TablesOK
<1>2. \A m \in metadata : m.vector \in DOMAIN vector' => vector'[m.vector].version = m.version
  BY <1>1 DEF VersionsInv, RowVersions, VectorsKept
<1>3. QED  BY <1>2 DEF RowVersions

(* A call goes on with its id and version, or has no id any more.            *)
GoesOn(c, d) == d.pc = "vector" \/ (c.pc # "vector" /\ d.id = c.id /\ d.version = c.version)

LEMMA CallVersionsKept ==
    ASSUME VersionsInv, VectorsKept,
           \A t \in UnderWay' : SameVersion(call[t])' \/ (t \in UnderWay /\ GoesOn(call[t], call'[t]))
                                \/ call'[t].pc = "vector"
    PROVE  CallVersions'
<1> SUFFICES ASSUME NEW t \in UnderWay', call'[t].pc # "vector", t \in UnderWay, GoesOn(call[t], call'[t])
             PROVE  SameVersion(call[t])'
  BY DEF CallVersions
<1>1. call[t].pc # "vector" /\ call'[t].id = call[t].id /\ call'[t].version = call[t].version
  BY DEF GoesOn
<1>2. call[t].id \in 1..vectorSeq /\ SameVersion(call[t])
  BY <1>1 DEF VersionsInv, UpsertInv, DocsTypeOK, CallOK, CallVersions
<1>3. QED  BY <1>1, <1>2 DEF SameVersion, VectorsKept

(* A step of one call, to d: the others stay.                                *)
LEMMA MovedVersions ==
    ASSUME VersionsInv, VectorsKept, NEW t \in UnderWay, NEW d, call' = [call EXCEPT ![t] = d],
           d = NoCall \/ GoesOn(call[t], d) \/ (d.id \in DOMAIN vector' => vector'[d.id].version = d.version)
    PROVE  CallVersions'
<1>1. DOMAIN call = Threads /\ t \in Threads
  BY DEF VersionsInv, UpsertInv, DocsTypeOK, UnderWay
<1>2. call'[t] = d /\ \A u \in Threads : u # t => call'[u] = call[u]
  BY <1>1
<1>3. ASSUME NEW u \in UnderWay'
      PROVE  SameVersion(call[u])' \/ (u \in UnderWay /\ GoesOn(call[u], call'[u])) \/ call'[u].pc = "vector"
  <2>1. CASE u = t
    <3>1. d # NoCall
      BY <1>2, <2>1 DEF UnderWay
    <3>2. QED  BY <1>2, <2>1, <3>1 DEF SameVersion
  <2>2. CASE u # t
    <3>1. u \in UnderWay /\ call'[u] = call[u]
      BY <1>2, <2>2 DEF UnderWay
    <3>2. QED  BY <3>1 DEF GoesOn
  <2>3. QED  BY <2>1, <2>2
<1>4. QED  BY <1>3, CallVersionsKept

(* When others overlap, calls go on as they are.                             *)
LEMMA OverlappedVersions ==
    ASSUME VersionsInv, VectorsKept, NEW before, call' = Overlapped(before), DOMAIN before = Threads,
           \A u \in Threads : before[u] # NoCall =>
               before[u] \in Call /\ (before[u].pc = "vector" \/ (u \in UnderWay /\ before[u] = call[u]))
    PROVE  CallVersions'
<1>1. ASSUME NEW u \in UnderWay'
      PROVE  (u \in UnderWay /\ GoesOn(call[u], call'[u])) \/ call'[u].pc = "vector"
  <2>1. u \in Threads /\ before[u] # NoCall /\ call'[u] = [before[u] EXCEPT !.alone = FALSE]
    BY DEF UnderWay, Overlapped
  <2>2. PICK b, d : b = before[u] /\ d = call'[u]
    OBVIOUS
  <2>3. d = [b EXCEPT !.alone = FALSE] /\ b \in Call
    BY <2>1, <2>2
  <2>4. d.pc = b.pc /\ d.id = b.id /\ d.version = b.version
    BY <2>3 DEF Call
  <2>5. b.pc = "vector" \/ (u \in UnderWay /\ b = call[u])
    BY <2>1, <2>2
  <2>6. QED  BY <2>2, <2>4, <2>5 DEF GoesOn
<1>2. QED  BY <1>1, CallVersionsKept

LEMMA BeginVersions ==
    ASSUME VersionsInv, NEW t \in Threads, NEW version \in Versions, NEW request \in Requests,
           Begin(t, version, request)
    PROVE  VectorsKept /\ RowVersions' /\ CallVersions'
<1>1. VectorsKept /\ UNCHANGED <<vector, metadata>>
  BY DEF Begin, tables, VectorsKept
<1>2. RowVersions'
  BY <1>1, RowVersionsKept
<1>3. PICK r : r = [version |-> version, sent |-> request, at |-> 1, pc |-> "vector",
                    id |-> 0, rows |-> {}, alone |-> TRUE]
  OBVIOUS
<1>4. r \in Call /\ r.pc = "vector"
  BY <1>3, UpsertAssumption DEF Call
<1>5. DOMAIN call = Threads /\ \A u \in UnderWay : call[u] \in Call
  BY DEF VersionsInv, UpsertInv, DocsTypeOK, CallOK
<1>6. PICK began : began = [call EXCEPT ![t] = r]
  OBVIOUS
<1>7. DOMAIN began = Threads /\ began[t] = r /\ \A u \in Threads : u # t => began[u] = call[u]
  BY <1>5, <1>6
<1>8. CASE UnderWay = {}
  <2>1. call' = began
    BY <1>3, <1>6, <1>8 DEF Begin
  <2>2. \A u \in UnderWay' : u = t /\ call'[u].pc = "vector"
    BY <1>4, <1>7, <1>8, <2>1 DEF UnderWay
  <2>3. QED  BY <1>1, <1>2, <2>2, CallVersionsKept
<1>9. CASE UnderWay # {}
  <2>1. call' = Overlapped(began)
    BY <1>3, <1>6, <1>9 DEF Begin
  <2>2. \A u \in Threads : began[u] # NoCall =>
            began[u] \in Call /\ (began[u].pc = "vector" \/ (u \in UnderWay /\ began[u] = call[u]))
    BY <1>4, <1>5, <1>7 DEF UnderWay
  <2>3. QED  BY <1>1, <1>2, <1>7, <2>1, <2>2, OverlappedVersions
<1>10. QED  BY <1>8, <1>9

LEMMA AddVectorVersions ==
    ASSUME VersionsInv, NEW t \in Threads, AddVector(t)
    PROVE  VectorsKept /\ RowVersions' /\ CallVersions'
<1>1. PICK c : c = call[t]
  OBVIOUS
<1>2. t \in UnderWay /\ c.pc = "vector" /\ ~Ended(c)
  BY <1>1 DEF AddVector, UnderWay
<1>3. c \in Call /\ c.rows = {} /\ c.at \in 1..Len(c.sent)
  BY <1>1, <1>2, ItemFacts DEF VersionsInv, UpsertInv, CallOK
<1>4. PICK found : found = VectorsNamed(c.version, ItemOf(c).uid)
  OBVIOUS
<1>5. PICK v \in IF found # {} THEN found ELSE {NextId} \cap VectorId :
        /\ call' = [call EXCEPT ![t] =
              IF ItemOf(c).metadata # {} THEN [[c EXCEPT !.id = v] EXCEPT !.pc = "clear"]
              ELSE WithDoc([c EXCEPT !.id = v])]
        /\ IF found # {} THEN UNCHANGED <<vector, vectorSeq, given>>
           ELSE vector' = Put(vector, v, [version |-> [c EXCEPT !.id = v].version, uid |-> ItemOf(c).uid])
  BY <1>1, <1>4 DEF AddVector
<1>6. DOMAIN vector \subseteq 1..vectorSeq /\ vectorSeq \in 0..MaxVector
  BY DEF VersionsInv, UpsertInv, DocsTypeOK, TablesOK
<1>7. PICK e : e = [c EXCEPT !.id = v]
  OBVIOUS
<1>8. v \in VectorId /\ vector'[v].version = c.version /\ VectorsKept
  <2>1. CASE found # {}
    <3>1. v \in DOMAIN vector /\ vector[v].version = c.version /\ vector' = vector
      BY <1>4, <1>5, <2>1 DEF VectorsNamed
    <3>2. QED  BY <1>6, <3>1, UpsertAssumption DEF VectorId, VectorsKept
  <2>2. CASE found = {}
    <3>1. v = vectorSeq + 1 /\ v \in VectorId
      BY <1>5, <2>2 DEF NextId
    <3>2. vector' = Put(vector, v, [version |-> c.version, uid |-> ItemOf(c).uid])
      BY <1>3, <1>5, <2>2 DEF Call
    <3>3. /\ DOMAIN vector' = DOMAIN vector \cup {v} /\ vector'[v].version = c.version
          /\ \A w \in DOMAIN vector \ {v} : vector'[w] = vector[w]
      BY <3>2 DEF Put
    <3>4. v \notin 1..vectorSeq
      BY <1>6, <3>1
    <3>5. QED  BY <1>6, <3>1, <3>3, <3>4 DEF VectorsKept
  <2>3. QED  BY <2>1, <2>2
<1>9. e \in Call /\ e.id = v /\ e.version = c.version /\ e.at = c.at /\ e.sent = c.sent /\ e.rows = {}
  BY <1>3, <1>7, <1>8, UpsertAssumption DEF Call, VectorId
<1>10. PICK d : d = IF ItemOf(c).metadata # {} THEN [e EXCEPT !.pc = "clear"] ELSE WithDoc(e)
  OBVIOUS
<1>11. d.id = v /\ d.version = c.version
  <2>1. CASE ItemOf(c).metadata # {}
    BY <1>9, <1>10, <2>1 DEF Call
  <2>2. CASE ItemOf(c).metadata = {}
    <3>1. d = WithDoc(e) /\ e.at \in 1..Len(e.sent) /\ e.id \in {v}
      BY <1>3, <1>9, <1>10, <2>2
    <3>2. QED  BY <1>9, <3>1, WithDocFacts
  <2>3. QED  BY <2>1, <2>2
<1>12. RowVersions'
  BY <1>8, RowVersionsKept DEF AddVector
<1>13. call' = [call EXCEPT ![t] = d]
  BY <1>5, <1>7, <1>10
<1>14. QED  BY <1>2, <1>8, <1>11, <1>12, <1>13, MovedVersions

LEMMA DeleteMetadataVersions ==
    ASSUME VersionsInv, NEW t \in Threads, DeleteMetadata(t)
    PROVE  VectorsKept /\ RowVersions' /\ CallVersions'
<1>1. PICK c : c = call[t]
  OBVIOUS
<1>2. t \in UnderWay /\ c.pc = "clear"
  BY <1>1 DEF DeleteMetadata, UnderWay
<1>3. c \in Call /\ c.rows = {} /\ c.at \in 1..Len(c.sent)
  <2>1. c \in Call /\ CallOK(c, 1..vectorSeq)
    BY <1>1, <1>2, ItemFacts DEF VersionsInv, UpsertInv
  <2>2. ~Ended(c) /\ c.rows = {}
    BY <1>2, <2>1 DEF CallOK
  <2>3. QED  BY <1>1, <1>2, <2>1, <2>2, ItemFacts DEF VersionsInv, UpsertInv
<1>4. PICK rows : rows = UNION ItemOf(c).metadata
  OBVIOUS
<1>5. PICK d : d = IF rows = {} THEN WithDoc(c) ELSE [c EXCEPT !.pc = "metadata", !.rows = rows]
  OBVIOUS
<1>6. /\ metadata' \subseteq metadata /\ call' = [call EXCEPT ![t] = d] /\ UNCHANGED <<vector, vectorSeq>>
  BY <1>1, <1>4, <1>5 DEF DeleteMetadata, DeleteMetadataOf
<1>7. VectorsKept
  BY <1>6 DEF VectorsKept
<1>8. GoesOn(c, d)
  <2>1. CASE rows = {}
    <3>1. d = WithDoc(c) /\ c.id \in {c.id}
      BY <1>5, <2>1
    <3>2. d.id = c.id /\ d.version = c.version
      BY <1>3, <3>1, WithDocFacts
    <3>3. QED  BY <1>2, <3>2 DEF GoesOn
  <2>2. CASE rows # {}
    <3>1. d.id = c.id /\ d.version = c.version
      BY <1>3, <1>5, <2>2 DEF Call
    <3>2. QED  BY <1>2, <3>1 DEF GoesOn
  <2>3. QED  BY <2>1, <2>2
<1>9. RowVersions'
  BY <1>6, <1>7, RowVersionsKept
<1>10. QED  BY <1>1, <1>2, <1>6, <1>7, <1>8, <1>9, MovedVersions

LEMMA AddMetadataVersions ==
    ASSUME VersionsInv, NEW t \in Threads, AddMetadata(t)
    PROVE  VectorsKept /\ RowVersions' /\ CallVersions'
<1>1. PICK c : c = call[t]
  OBVIOUS
<1>2. t \in UnderWay /\ c.pc = "metadata"
  BY <1>1 DEF AddMetadata, UnderWay
<1>3. c \in Call /\ c.at \in 1..Len(c.sent)
  <2>1. c \in Call /\ CallOK(c, 1..vectorSeq)
    BY <1>1, <1>2, ItemFacts DEF VersionsInv, UpsertInv
  <2>2. ~Ended(c)
    BY <1>2, <2>1 DEF CallOK
  <2>3. QED  BY <1>1, <1>2, <2>1, <2>2, ItemFacts DEF VersionsInv, UpsertInv
<1>4. SameVersion(c)
  BY <1>1, <1>2 DEF VersionsInv, CallVersions
<1>5. PICK r \in c.rows :
        /\ metadata' = metadata \cup {[vector |-> c.id, row |-> r, version |-> c.version]}
        /\ call' = [call EXCEPT ![t] =
               IF c.rows = {r} THEN WithDoc([c EXCEPT !.rows = {}]) ELSE [c EXCEPT !.rows = c.rows \ {r}]]
  BY <1>1 DEF AddMetadata
<1>6. VectorsKept /\ UNCHANGED <<vector, vectorSeq>>
  BY DEF AddMetadata, VectorsKept
<1>7. RowVersions'
  <2>1. \A m \in metadata' : m \in metadata \/ (m.vector = c.id /\ m.version = c.version)
    BY <1>5
  <2>2. QED  BY <1>4, <1>6, <2>1, RowVersionsKept DEF SameVersion
<1>8. PICK e : e = [c EXCEPT !.rows = {}]
  OBVIOUS
<1>9. PICK d : d = IF c.rows = {r} THEN WithDoc(e) ELSE [c EXCEPT !.rows = c.rows \ {r}]
  OBVIOUS
<1>10. GoesOn(c, d)
  <2>1. CASE c.rows = {r}
    <3>1. /\ e \in Call /\ e.rows = {} /\ e.id = c.id /\ e.version = c.version
          /\ e.at \in 1..Len(e.sent) /\ e.id \in {c.id}
      BY <1>3, <1>8 DEF Call
    <3>2. d = WithDoc(e)
      BY <1>9, <2>1
    <3>3. d.id = c.id /\ d.version = c.version
      BY <3>1, <3>2, WithDocFacts, ZenonT(40)
    <3>4. QED  BY <1>2, <3>3 DEF GoesOn
  <2>2. CASE c.rows # {r}
    <3>1. d.id = c.id /\ d.version = c.version
      BY <1>3, <1>9, <2>2 DEF Call
    <3>2. QED  BY <1>2, <3>1 DEF GoesOn
  <2>3. QED  BY <2>1, <2>2
<1>11. call' = [call EXCEPT ![t] = d]
  BY <1>5, <1>8, <1>9
<1>12. QED  BY <1>1, <1>2, <1>6, <1>7, <1>10, <1>11, MovedVersions

LEMMA AddDocumentVersions ==
    ASSUME VersionsInv, NEW t \in Threads, AddDocument(t)
    PROVE  VectorsKept /\ RowVersions' /\ CallVersions'
<1>1. PICK c, d : c = call[t] /\ d = NextItem(c)
  OBVIOUS
<1>2. t \in UnderWay /\ call' = [call EXCEPT ![t] = d] /\ UNCHANGED <<vector, metadata>>
  BY <1>1 DEF AddDocument, UnderWay
<1>3. c \in Call
  BY <1>1, <1>2, ItemFacts DEF VersionsInv, UpsertInv
<1>4. d.pc = "vector"
  BY <1>1, <1>3 DEF NextItem, Call
<1>5. VectorsKept
  BY <1>2 DEF VectorsKept
<1>6. RowVersions'
  BY <1>2, <1>5, RowVersionsKept
<1>7. GoesOn(c, d)
  BY <1>4 DEF GoesOn
<1>8. QED  BY <1>1, <1>2, <1>5, <1>6, <1>7, MovedVersions

LEMMA LeaveVersions ==
    ASSUME VersionsInv, NEW t \in Threads, Return(t) \/ Fail(t)
    PROVE  VectorsKept /\ RowVersions' /\ CallVersions'
<1>1. PICK d : d = NoCall
  OBVIOUS
<1>2. t \in UnderWay /\ call' = [call EXCEPT ![t] = d] /\ UNCHANGED <<vector, metadata>>
  BY <1>1 DEF Return, Fail, UnderWay, tables
<1>3. VectorsKept
  BY <1>2 DEF VectorsKept
<1>4. RowVersions'
  BY <1>2, <1>3, RowVersionsKept
<1>5. QED  BY <1>1, <1>2, <1>3, <1>4, MovedVersions

LEMMA DeleteVersions ==
    ASSUME VersionsInv, Delete
    PROVE  VectorsKept /\ RowVersions' /\ CallVersions'
<1>1. PICK gone : vector' = Drop(vector, gone) /\ call' = Overlapped(call) /\ metadata' \subseteq metadata
  BY DEF Delete, DeleteVector, DeleteSpace
<1>2. VectorsKept
  BY <1>1 DEF Drop, Restrict, VectorsKept
<1>3. RowVersions'
  BY <1>1, <1>2, RowVersionsKept
<1>4. PICK before : before = call
  OBVIOUS
<1>5. DOMAIN before = Threads /\ \A u \in UnderWay : call[u] \in Call
  BY <1>4 DEF VersionsInv, UpsertInv, DocsTypeOK, CallOK
<1>6. \A u \in Threads : before[u] # NoCall =>
          before[u] \in Call /\ (before[u].pc = "vector" \/ (u \in UnderWay /\ before[u] = call[u]))
  BY <1>4, <1>5 DEF UnderWay
<1>7. call' = Overlapped(before)
  BY <1>1, <1>4
<1>8. QED  BY <1>2, <1>3, <1>5, <1>6, <1>7, OverlappedVersions

LEMMA VersionsInvInit == DocInit => VersionsInv
<1> SUFFICES ASSUME DocInit PROVE VersionsInv
  OBVIOUS
<1>1. UnderWay = {} /\ metadata = {}
  BY DEF DocInit, UnderWay
<1>2. QED  BY <1>1, UpsertInvInit DEF VersionsInv, RowVersions, CallVersions

LEMMA VersionsInvNext == VersionsInv /\ [DocNext]_docVars => VersionsInv'
<1> SUFFICES ASSUME VersionsInv, [DocNext]_docVars PROVE VersionsInv'
  OBVIOUS
<1>1. UpsertInv'
  BY UpsertInvNext DEF VersionsInv
<1>2. CASE \E t \in Threads, version \in Versions, request \in Requests : Begin(t, version, request)
  BY <1>1, <1>2, BeginVersions DEF VersionsInv
<1>3. CASE \E t \in Threads : UpsertStep(t)
  BY <1>1, <1>3, AddVectorVersions, DeleteMetadataVersions, AddMetadataVersions, AddDocumentVersions,
     LeaveVersions DEF UpsertStep, VersionsInv
<1>4. CASE Delete
  BY <1>1, <1>4, DeleteVersions DEF VersionsInv
<1>5. CASE UNCHANGED docVars
  <2>1. VectorsKept /\ UNCHANGED <<vector, metadata, call>> /\ UnderWay' = UnderWay
    BY <1>5 DEF docVars, tables, VectorsKept, UnderWay
  <2>2. RowVersions' /\ CallVersions'
    BY <2>1 DEF VersionsInv, RowVersions, CallVersions, SameVersion
  <2>3. QED  BY <1>1, <2>2 DEF VersionsInv
<1>6. QED  BY <1>2, <1>3, <1>4, <1>5 DEF DocNext

----------------------------------------------------------------------------
(* What filters find.                                                       *)

LEMMA FoundIs ==
    ASSUME DocsTypeOK, NEW v
    PROVE  Found(v, TRUE) = (IF RowsOf(v) = {} THEN {} ELSE Meaning[RowsOf(v)]) /\ Found(v, FALSE) = {}
<1>1. \A m \in metadata : m.row \in Rows
  BY DEF DocsTypeOK, TablesOK
<1>2. RowsOf(v) \in Metadata
  BY <1>1, RowsAssumption DEF RowsOf, Metadata
<1>3. PICK rows \in Metadata : rows = RowsOf(v)
  BY <1>2
<1>4. QED  BY <1>3, FiltersSelectWhatTheyMean DEF Found

(* A page lists of a vector what the filters find by its rows, and nothing   *)
(* of another version.                                                      *)
LEMMA ListedIs ==
    ASSUME VersionsInv, NEW version, NEW v \in DOMAIN vector
    PROVE  Listed(version)[v] = IF vector[v].version = version THEN Found(v, TRUE) ELSE {}
<1>1. PICK rows : rows = {n \in metadata : n.vector = v}
  OBVIOUS
<1>2. Listed(version)[v] = UNION {Found(v, m.version = version) : m \in rows}
  BY <1>1 DEF Listed
<1>3. \A m \in rows : m.version = vector[v].version
  BY <1>1 DEF VersionsInv, RowVersions
<1>4. CASE vector[v].version = version
  <2>1. \A m \in rows : Found(v, m.version = version) = Found(v, TRUE)
    BY <1>3, <1>4
  <2>2. CASE rows = {}
    <3>1. RowsOf(v) = {}
      BY <1>1, <2>2 DEF RowsOf
    <3>2. QED  BY <1>2, <1>4, <2>2, <3>1 DEF Found
  <2>3. CASE rows # {}
    <3>1. PICK found : found = Found(v, TRUE)
      OBVIOUS
    <3>2. {Found(v, m.version = version) : m \in rows} = {found}
      BY <2>1, <2>3, <3>1
    <3>3. QED  BY <1>2, <1>4, <3>1, <3>2
  <2>4. QED  BY <2>2, <2>3
<1>5. CASE vector[v].version # version
  <2>1. \A m \in rows : Found(v, m.version = version) = Found(v, FALSE)
    BY <1>3, <1>5
  <2>2. Found(v, FALSE) = {}
    BY FoundIs DEF VersionsInv, UpsertInv
  <2>3. \A m \in rows : Found(v, m.version = version) = {}
    BY <2>1, <2>2
  <2>4. QED  BY <1>2, <1>5, <2>3
<1>6. QED  BY <1>4, <1>5

(* A search result whose unique_id one vector has is kept by that one's rows. *)
LEMMA FilteredIs ==
    ASSUME NEW v \in DOMAIN vector,
           \A w \in DOMAIN vector : vector[w].uid = vector[v].uid => w = v
    PROVE  filterVectors(<<[uid |-> vector[v].uid, distance |-> 1]>>) = {<<Found(v, TRUE)>>}
<1>1. PICK u : u = vector[v].uid
  OBVIOUS
<1>2. PICK results : results = <<[uid |-> u, distance |-> 1]>>
  OBVIOUS
<1>3. DOMAIN results = {1} /\ results[1].uid = u
  BY <1>2
<1>4. PICK uids : uids = {results[i].uid : i \in DOMAIN results} \cap {vector[w].uid : w \in DOMAIN vector}
  OBVIOUS
<1>5. uids = {u}
  BY <1>1, <1>3, <1>4
<1>6. PICK p : p = [x \in {u} |-> v]
  OBVIOUS
<1>7. p \in [{u} -> DOMAIN vector] /\ p[u] = v /\ DOMAIN p = {u}
  BY <1>6
<1>8. Picks(results) = {q \in [{u} -> DOMAIN vector] : vector[q[u]].uid = u}
  BY <1>4, <1>5 DEF Picks
<1>9. Picks(results) = {p}
  <2>1. p \in Picks(results)
    BY <1>1, <1>7, <1>8
  <2>2. ASSUME NEW q \in Picks(results)
        PROVE  q = p
    <3>1. q \in [{u} -> DOMAIN vector] /\ q[u] = v
      BY <1>1, <1>8
    <3>2. QED  BY <1>6, <3>1
  <2>3. QED  BY <2>1, <2>2
<1>10. PICK found : found = Found(v, TRUE)
  OBVIOUS
<1> DEFINE Kept(q) == [i \in DOMAIN results |->
                         IF results[i].uid \in DOMAIN q THEN Found(q[results[i].uid], TRUE) ELSE {}]
<1>11. Kept(p) = [i \in {1} |-> found]
  BY <1>3, <1>7, <1>10
<1>12. filterVectors(results) = {[i \in {1} |-> found]}
  <2>1. filterVectors(results) = {Kept(q) : q \in Picks(results)}
    BY DEF filterVectors
  <2> HIDE DEF Kept
  <2>2. {Kept(q) : q \in Picks(results)} = {Kept(p)}
    BY <1>9
  <2>3. QED  BY <1>11, <2>1, <2>2
<1>13. [i \in {1} |-> found] = <<found>>
  OBVIOUS
<1>14. QED  BY <1>1, <1>2, <1>10, <1>12, <1>13

(* A filter keeps the results of a search, and lists the vectors of a        *)
(* version, whose metadata are as it says, whatever was written before, half *)
(* written or left behind (filterVectors, queryVectors).                     *)
THEOREM FilterAgreesCorrect == DocSpec => []FilterAgrees
<1>1. VersionsInv => FilterAgrees
  <2> SUFFICES ASSUME VersionsInv, NEW v \in DOMAIN vector
               PROVE  LET wanted == IF RowsOf(v) = {} THEN {} ELSE Meaning[RowsOf(v)]
                      IN  /\ (\A w \in DOMAIN vector : vector[w].uid = vector[v].uid => w = v)
                               => filterVectors(<<[uid |-> vector[v].uid, distance |-> 1]>>) = {<<wanted>>}
                          /\ Listed(vector[v].version)[v] = wanted
    BY DEF FilterAgrees
  <2>1. PICK wanted : wanted = IF RowsOf(v) = {} THEN {} ELSE Meaning[RowsOf(v)]
    OBVIOUS
  <2>2. Found(v, TRUE) = wanted
    BY <2>1, FoundIs DEF VersionsInv, UpsertInv
  <2>3. Listed(vector[v].version)[v] = wanted
    BY <2>2, ListedIs
  <2>4. ASSUME \A w \in DOMAIN vector : vector[w].uid = vector[v].uid => w = v
        PROVE  filterVectors(<<[uid |-> vector[v].uid, distance |-> 1]>>) = {<<wanted>>}
    BY <2>2, <2>4, FilteredIs
  <2>5. QED  BY <2>1, <2>3, <2>4
<1>2. QED  BY <1>1, VersionsInvInit, VersionsInvNext, PTL DEF DocSpec

(* A filter with OR or NOT at its top brings no vector of another version    *)
(* into a listing (queryVectors puts it after "versionId = ? AND").          *)
THEOREM ListingsStayInVersionCorrect == DocSpec => []ListingsStayInVersion
<1>1. VersionsInv => ListingsStayInVersion
  BY ListedIs DEF ListingsStayInVersion
<1>2. QED  BY <1>1, VersionsInvInit, VersionsInvNext, PTL DEF DocSpec
=============================================================================
