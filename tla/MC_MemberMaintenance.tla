------------------------ MODULE MC_MemberMaintenance ------------------------
(* MemberMaintenance with interchangeable keys and threads. *)
EXTENDS MemberMaintenance, TLC

Symmetry == Permutations(Keys) \cup Permutations(Requests)
=============================================================================
