---------------------------- MODULE MCVectorStore ----------------------------
(* Two indexes and room in memory for one of them, or for both.  A vector   *)
(* has one value or one in each index, in MCRequests also none.             *)
EXTENDS VectorStore, TLC

MCWithValues ==
    {<<[index |-> 1, embedding |-> e]>> : e \in Embeddings}
    \cup {<<[index |-> 1, embedding |-> e], [index |-> 2, embedding |-> e]>> : e \in Embeddings}
MCRequests == MCWithValues \cup {<<>>}
EmbeddingSymmetry == Permutations(Embeddings)
=============================================================================
