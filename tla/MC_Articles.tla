----------------------------- MODULE MC_Articles -----------------------------
(* Articles on small instances. *)
EXTENDS Articles, TLC

Symmetry == Permutations(Browsers) \cup Permutations(Tabs) \cup Permutations(Members)
=============================================================================
