-------------------------- MODULE MCIdCacheThreads --------------------------
(* Two threads on one space name and one clock reading. *)
EXTENDS IdCacheThreads, TLC

MCTimes == {1}
ThreadSymmetry == Permutations(Threads)
=============================================================================
