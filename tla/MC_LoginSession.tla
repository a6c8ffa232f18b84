--------------------------- MODULE MC_LoginSession ---------------------------
(* LoginSession on small instances. *)
EXTENDS LoginSession, TLC

Symmetry == Permutations(Requests) \cup Permutations(Sessions)

(* A field that no request under way will read before it is written again  *)
(* does not distinguish states, nor does the attribute requestURI, which   *)
(* nothing in the module reads, nor what it is set from, nor the text of a *)
(* password that is not hashed, which no login compares.                   *)
Reads(places) == \E r \in Requests : pc[r] \in places
Seen(row) == IF row = Null \/ row.password.hashed THEN row
             ELSE [row EXCEPT !.password.text = Null]
View == <<pc, [r \in Requests |-> [loc[r] EXCEPT !.known = FALSE]], life,
          [s \in Sessions |-> [attr[s] EXCEPT !.uri = Null]],
          [k \in Keys |-> Seen(rows[k])], nextKey,
          IF Reads({"judge"}) THEN path ELSE Null,
          IF Reads({"reg_judge"}) THEN matcher ELSE Null>>
=============================================================================
