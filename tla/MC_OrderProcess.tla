-------------------------- MODULE MC_OrderProcess --------------------------
(* OrderProcess on small instances; the constants are in the .cfg files.   *)
EXTENDS OrderProcess, TLC

Symmetry == Permutations(Requests) \cup Permutations(Ossans)
              \cup Permutations(Sessions) \cup Permutations(Slots)

(* A ShoppingCart object nobody refers to is garbage: its content, which   *)
(* no action reads, does not distinguish states.                           *)
Referenced(c) == \/ \E s \in Sessions : cartOf[s] = c
                 \/ \E r \in Requests : loc[r].ref = c
View == <<pc, loc, stale, live, cartOf, field, dbVars,
          [c \in Carts |-> IF Referenced(c) THEN cart[c] ELSE NoItems]>>
=============================================================================
