----------------------------- MODULE MCIdCache -----------------------------
(* A small instance of the catalog and its cache: two names, so that two    *)
(* spaces can have different names or share one, and a single clock         *)
(* reading, so that every choice of an heir is a tie.                       *)
EXTENDS IdCache, TLC

MCTimes == {1}
NameSymmetry == Permutations(Names)
=============================================================================
