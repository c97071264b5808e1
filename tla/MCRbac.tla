------------------------------- MODULE MCRbac -------------------------------
(* A small instance of the tokens: a day lasts one second, and an int holds *)
(* -3..2, so that three days overflow to a token that has already expired.  *)
EXTENDS Rbac, TLC

MCExpireDays == {0, 3}
ThreadSymmetry == Permutations(Threads)
=============================================================================
