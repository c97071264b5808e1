------------------------------- MODULE Tables -------------------------------
(***************************************************************************)
(* Tables and caches are functions whose domain is the set of the rows or   *)
(* entries that exist.                                                      *)
(***************************************************************************)
EXTENDS Functions

Empty        == << >>
Put(f, k, v) == [x \in DOMAIN f \cup {k} |-> IF x = k THEN v ELSE f[x]]
Drop(f, S)   == Restrict(f, DOMAIN f \ S)

(* The entries of both, those of f where both have one. *)
Merged(f, g) == [x \in DOMAIN f \cup DOMAIN g |-> IF x \in DOMAIN f THEN f[x] ELSE g[x]]
=============================================================================
