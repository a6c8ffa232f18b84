---------------------------- MODULE ShoppingCart ----------------------------
(***************************************************************************)
(* The data of _04_ShoppingCart/model/ShoppingCart.java: a map from the    *)
(* primary key of an ossan to the quantity (hours) the customer wants.     *)
(* cart.get(k) == null is cart[k] = Null.  Price and discount are the      *)
(* constants the servlet and getSubtotal() put in (300 and 1), so an       *)
(* OrderItem is its quantity.                                              *)
(***************************************************************************)
EXTENDS Integers, FiniteSets, FiniteSetsExt

CONSTANTS
  Ossans,   \* primary keys of the ossans (uncles) that can be rented
  MaxInt,   \* the largest int; 2^31 - 1 in Java, scaled down for TLC
  Null      \* Java's null

ASSUME CartAssumption ==
  /\ IsFiniteSet(Ossans)
  /\ MaxInt \in Nat
  /\ Null \notin Int
  /\ Null \notin Ossans

-----------------------------------------------------------------------------

Items == [Ossans -> Int \cup {Null}]

NoItems == [k \in Ossans |-> Null]

(* cart.keySet() *)
Keys(items) == {k \in Ossans : items[k] # Null}

(* int arithmetic wraps around at MaxInt. *)
JavaInt(x) == ((x + MaxInt + 1) % (2 * (MaxInt + 1))) - (MaxInt + 1)

(* cart.put(pKey, oi) *)
Put(items, k, qty) == [items EXCEPT ![k] = qty]

(* setQty() on the item of k, if there is one. *)
modifyQty(items, k, qty) ==
  IF items[k] = Null THEN items ELSE [items EXCEPT ![k] = qty]

deleteBook(items, k) == [items EXCEPT ![k] = Null]

UnitPrice == 300

(* One round of the loop of getSubtotal(). *)
LineAmount(items, k) == UnitPrice * items[k]

(* What getSubtotal() returns for a map that nobody changes meanwhile. *)
getSubtotal(items) == MapThenSumSet(LAMBDA k : LineAmount(items, k), Keys(items))

(* Math.round(subtotal * 1.05): the total with 5% tax, rounded half up. *)
Taxed(subtotal) == (subtotal * 105 + 50) \div 100
=============================================================================
