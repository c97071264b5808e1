----------------------------- MODULE MCCatalog -----------------------------
(* A small instance of the catalog for TLC.  With one clock reading every   *)
(* choice of an heir is a tie, so any row of the group may be chosen: each  *)
(* outcome that distinct readings allow is among these.                     *)
EXTENDS Catalog, TLC

MCTimes == {1}
=============================================================================
