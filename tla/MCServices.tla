----------------------------- MODULE MCServices -----------------------------
(* Two clients, two names; one clock reading, so that heirs tie.            *)
EXTENDS Services, TLC

MCTimes == {1}
ServicesSymmetry == Permutations(Names) \cup Permutations(Clients)
=============================================================================
