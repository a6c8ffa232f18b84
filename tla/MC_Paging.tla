------------------------------ MODULE MC_Paging ------------------------------
(* Paging on small instances. *)
EXTENDS Paging, TLC

Symmetry == Permutations(Requests) \cup Permutations(Visitors)

(* The field of a servlet that no request is at is written before it is    *)
(* read: it does not distinguish states.                                   *)
View == <<pc, loc, items, nextNo, shown, cookie, open, missed,
          [l \in Lists |-> IF \E r \in Requests : loc[r].list = l
                           THEN field[l] ELSE 0]>>
=============================================================================
