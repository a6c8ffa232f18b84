---------------------------- MODULE AtomicOrders ----------------------------
(***************************************************************************)
(* What OrderService.persistOrder promises ("this is a transaction"): the  *)
(* rows of an order - one row of ossanorders and one row of                *)
(* ossanorderitems per item - are asked for together, and then enter the   *)
(* database all at once or never.  A stored order never changes.           *)
(***************************************************************************)
CONSTANT Null       \* the ossan of a row of ossanorders

VARIABLES
  asked,            \* every row a customer's order consists of
  book              \* the rows any other client of the database can see

vars == <<asked, book>>

OfOrder(rows, n) == {x \in rows : x.no = n}

(* Rows that make up one whole order: they share a number, and exactly     *)
(* one of them is the row of ossanorders.                                  *)
IsOrder(rows) ==
  \E h \in rows : /\ h.ossan = Null
                  /\ \A x \in rows : x.no = h.no /\ (x.ossan = Null => x = h)

Init == asked = {} /\ book = {}

(* A new order, under a number no earlier order has had. *)
Ask ==
  /\ asked \subseteq asked'
  /\ IsOrder(asked' \ asked)
  /\ \A x \in asked' \ asked : OfOrder(asked, x.no) = {}
  /\ UNCHANGED book

(* The order becomes visible, complete, once. *)
Place ==
  /\ \E x \in asked : /\ OfOrder(book, x.no) = {}
                      /\ book' = book \cup OfOrder(asked, x.no)
  /\ UNCHANGED asked

Next == Ask \/ Place

Spec == Init /\ [][Next]_vars
=============================================================================
