------------------------- MODULE SerialOrders_proofs -------------------------
(***************************************************************************)
(* Proofs about OrderProcess where nothing disturbs an order: browsers     *)
(* wait for their answers, and nobody uses UpdateBookServlet or there is   *)
(* one session.  A stored total is that of the stored items, for any       *)
(* number of sessions, requests, ossans and orders and any quantities, and *)
(* any faults but a rollback() that is refused.                            *)
(***************************************************************************)
EXTENDS OrderProcess_proofs, ItemSums

-----------------------------------------------------------------------------
(* What another request leaves alone *)

HoldsCart == {"buy_look", "buy_put", "buy_sum"} \cup Ordering

(* A step of the handler of r changes neither the attribute of the session *)
(* of another request nor the cart it works on.                            *)
LEMMA OthersStay ==
  ASSUME TypeInv, OwnCart, ClearInv, Undisturbed, NEW r \in Requests, Handle(r),
         NEW q \in Requests, q # r
  PROVE  /\ pc'[q] = pc[q] /\ loc'[q] = loc[q]
         /\ pc[q] # "idle" => cartOf'[loc[q].sess] = cartOf[loc[q].sess]
         /\ pc[q] \in HoldsCart => cart'[loc[q].ref] = cart[loc[q].ref]
<1>1. pc'[q] = pc[q] /\ loc'[q] = loc[q]
  BY HandleMoves
<1>2. pc[q] # "idle" => loc[q].sess \in Sessions /\ loc[q].sess # loc[r].sess
  BY HandlesOwn DEF TypeInv, LocalOK, ClearInv
<1>3. pc[q] \in HoldsCart => loc[q].ref \in Carts /\ loc[q].ref[1] = loc[q].sess
  <2>1. CASE pc[q] \in Ordering
    BY <2>1, OrderingOwns
  <2>2. CASE pc[q] \in {"buy_look", "buy_put", "buy_sum"}
    <3>1. loc[q].ref \in Carts
      BY <2>2 DEF TypeInv, LocalOK, HasCart
    <3>2. loc[q].ref # Null
      BY <3>1, OrderAssumption DEF Carts
    <3>. QED  BY <2>2, <3>1, <3>2 DEF OwnCart
  <2>. QED  BY <2>1, <2>2 DEF HoldsCart
<1>4. pc[q] \in HoldsCart => pc[q] # "idle"
  BY DEF HoldsCart, Ordering, Iterating, Saving, InTransaction
<1>. QED  BY <1>1, <1>2, <1>3, <1>4, HandlesOwn

(* Nor do the sessions' own steps, while a request of theirs is served.    *)
LEMMA SessionsStay ==
  ASSUME TypeInv, ClearInv, Undisturbed,
         \/ \E s \in Sessions : Abort(s) \/ Invalidate(s)
         \/ UNCHANGED vars
  PROVE  /\ UNCHANGED <<pc, loc, stale, cart, dbVars>>
         /\ \A q \in Requests : pc[q] # "idle" =>
              cartOf'[loc[q].sess] = cartOf[loc[q].sess]
<1>1. UNCHANGED <<pc, loc, stale, cart, dbVars>>
  BY DEF Abort, Invalidate, vars, dbVars
<1>2. ASSUME NEW q \in Requests, pc[q] # "idle"
      PROVE  cartOf'[loc[q].sess] = cartOf[loc[q].sess]
  <2>1. loc[q].sess \in Sessions
    BY <1>2 DEF TypeInv, LocalOK, ClearInv
  <2>. QED
    BY <2>1 DEF Abort, Invalidate, Quiet, vars, TypeInv, TypeOK, Undisturbed
<1>. QED  BY <1>1, <1>2

(* No iterator and no OrderItem is ever outdated.                          *)
Fresh == \A r \in Requests : ~ stale[r]

(* Only a thread that works on the same cart could be disturbed.           *)
LEMMA NotDisturbed ==
  ASSUME TypeInv, OwnCart, ClearInv, Undisturbed, Fresh, NEW r \in Requests,
         AddPut(r) \/ UpdateDelete(r)
  PROVE  Fresh'
<1>1. PICK k \in Ossans, b \in BOOLEAN : Disturb(loc[r].ref, k, b)
  <2>1. loc[r].ossan \in Ossans
    BY DEF TypeInv, LocalOK, HasItem, AddPut, UpdateDelete
  <2>. QED  BY <2>1 DEF AddPut, UpdateDelete
<1>2. ASSUME NEW q \in Requests, stale'[q]
      PROVE  FALSE
  <2>1. loc[q].ref = loc[r].ref /\ pc[q] \in {"buy_sum"} \cup Iterating
    BY <1>1, <1>2 DEF Disturb, Fresh, TypeInv, TypeOK
  <2>2. q # r
    BY <2>1 DEF AddPut, UpdateDelete, Iterating
  <2>3. loc[q].ref \in Carts /\ loc[q].sess \in Sessions /\ loc[q].ref[1] = loc[q].sess
    <3>1. loc[q].ref \in Carts /\ loc[q].sess \in Sessions
      BY <2>1 DEF TypeInv, LocalOK, HasCart, Updating, Iterating
    <3>2. loc[q].ref # Null
      BY <3>1, OrderAssumption DEF Carts
    <3>. QED  BY <2>1, <3>1, <3>2 DEF OwnCart, Iterating
  <2>4. loc[r].ref[1] = loc[r].sess
    <3>1. CASE AddPut(r)
      <4>1. pc[r] = "buy_put" /\ loc[r].ref # Null
        BY <2>1, <2>3, <3>1, OrderAssumption DEF AddPut, Carts
      <4>. QED  BY <4>1 DEF OwnCart
    <3>2. CASE UpdateDelete(r)
      <4>1. pc[r] \in Updating
        BY <3>2 DEF UpdateDelete, Updating
      <4>2. \A s, t \in Sessions : s = t
        BY <4>1 DEF ClearInv, Undisturbed
      <4>3. loc[r].sess \in Sessions
        BY <4>1 DEF ClearInv
      <4>. QED  BY <2>1, <2>3, <4>2, <4>3
    <3>. QED  BY <3>1, <3>2
  <2>5. loc[q].sess = loc[r].sess /\ loc[r].sess # Null
    BY <2>1, <2>3, <2>4, OrderAssumption
  <2>. QED  BY <2>2, <2>5 DEF ClearInv
<1>3. stale' \in [Requests -> BOOLEAN]
  BY <1>1 DEF Disturb
<1>. QED  BY <1>2, <1>3 DEF Fresh

(* Every step leaves what the threads hold up to date.                     *)
LEMMA FreshStep ==
  ASSUME TypeInv, OwnCart, ClearInv, Undisturbed, Fresh, [Next]_vars
  PROVE  Fresh'
<1>0. stale \in [Requests -> BOOLEAN]
  BY DEF TypeInv, TypeOK
<1>1. ASSUME NEW r \in Requests, Arrive(r)
      PROVE  Fresh'
  <2>1. UNCHANGED stale
    BY <1>1 DEF Arrive, OrderArrive, BuyArrive, UpdateArrive
  <2>. QED  BY <2>1 DEF Fresh
<1>2. ASSUME NEW r \in Requests, Handle(r), ~ (AddPut(r) \/ UpdateDelete(r))
      PROVE  Fresh'
  <2>1. stale' = stale \/ stale' = [stale EXCEPT ![r] = FALSE]
    <3>1. CASE Buy(r) \/ Update(r)
      BY <1>2, <3>1 DEF Buy, BuyNewCart, BuyNewCartFails, AddNothing, AddLook, AddSum,
         Update, UpdateCheck, UpdateGet, UpdateModify
    <3>2. CASE Order(r)
      BY <3>2 DEF Order, OrderCancel, OrderConfirm, SumItem, CopyStart, CopyItem,
         IterationFails, ClearCart
    <3>3. CASE Persist(r)
      BY <3>3 DEF Persist, BeginTx, ConnectFails, InsertOrderRow, InsertItemRow,
         InsertFails, Commit, CommitFails, Rollback, RollbackFails, RollbackRefused,
         CloseDone, CloseFailed, CloseThrows
    <3>. QED  BY <1>2, <3>1, <3>2, <3>3 DEF Handle
  <2>. QED  BY <1>0, <2>1 DEF Fresh
<1>3. CASE \/ \E s \in Sessions : Abort(s) \/ Invalidate(s)
           \/ UNCHANGED vars
  BY <1>3, SessionsStay DEF Fresh
<1>. QED  BY <1>1, <1>2, <1>3, NotDisturbed, NoStray DEF Next

(* The loops of getSubtotal() and of the copy never fail.                  *)
THEOREM NeverOutdated == Undisturbed => (Spec => []Fresh)
<1> SUFFICES ASSUME Undisturbed
             PROVE  Spec => []Fresh
  OBVIOUS
<1>1. Init => Fresh
  BY DEF Init, Fresh
<1>2. TypeInv /\ OwnCart /\ ClearInv /\ Fresh /\ [Next]_vars => Fresh'
  BY FreshStep
<1>. QED  BY <1>1, <1>2, Invariance, OwnCarts, ClearInvariance, PTL DEF Spec

-----------------------------------------------------------------------------
(* Totals.  getSubtotal() adds the lines one after the other, in the order *)
(* of the map's iterator: on its way it holds the sum over the keys it has *)
(* visited.                                                                *)

Amounts(items) == [k \in Keys(items) |-> LineAmount(items, k)]

(* Part(items)[ks]: the sum over the lines of ks *)
Part(items) == CHOOSE g : Sums(g, Amounts(items), Keys(items))

(* The amount of an item in the cart is a number.                          *)
LEMMA LineAmountType ==
  ASSUME NEW items \in Items, NEW k \in Keys(items)
  PROVE  LineAmount(items, k) \in Int
<1>1. items[k] \in Int
  BY DEF Keys, Items
<1>. QED  BY <1>1 DEF LineAmount, UnitPrice

(* A cart holds finitely many items.                                       *)
LEMMA FiniteKeys == ASSUME NEW items PROVE IsFiniteSet(Keys(items))
BY FS_Subset, CartAssumption DEF Keys

(* Part sums the lines of a cart.                                          *)
LEMMA PartIsSum ==
  ASSUME NEW items \in Items
  PROVE  Sums(Part(items), Amounts(items), Keys(items))
<1>1. \E g : Sums(g, Amounts(items), Keys(items))
  BY FiniteKeys, SumsExist
<1>. QED  BY <1>1 DEF Part

(* It starts at 0, and any line may be the last one added.                 *)
LEMMA PartFacts ==
  ASSUME NEW items \in Items
  PROVE  /\ Part(items)[{}] = 0
         /\ \A ks \in SUBSET Keys(items) : \A k \in ks :
              Part(items)[ks] = LineAmount(items, k) + Part(items)[ks \ {k}]
<1> DEFINE S == Keys(items)
           f == Amounts(items)
           g == Part(items)
<1>1. /\ IsFiniteSet(S) /\ Sums(g, f, S)
      /\ \A k \in S : f[k] = LineAmount(items, k) /\ f[k] \in Int
  BY FiniteKeys, PartIsSum, LineAmountType DEF Amounts
<1> HIDE DEF S, f, g
<1>2. g[{}] = 0
  BY <1>1 DEF Sums, Round
<1>3. ASSUME NEW ks \in SUBSET S, NEW k \in ks
      PROVE  g[ks] = f[k] + g[ks \ {k}]
  BY <1>1, SumsAnyOrder
<1>. QED  BY <1>1, <1>2, <1>3 DEF S, f, g

(* The sum over all keys is what getSubtotal() of the model returns.       *)
LEMMA SubtotalIsSum ==
  ASSUME NEW items \in Items
  PROVE  getSubtotal(items) = Part(items)[Keys(items)]
<1> DEFINE S == Keys(items)
           f == Amounts(items)
           g == Part(items)
           i == CHOOSE h : h = [s \in SUBSET S |->
                  IF s = {} THEN 0 ELSE LineAmount(items, Any(s)) + h[s \ {Any(s)}]]
<1>1. IsFiniteSet(S) /\ Sums(g, f, S)
  BY FiniteKeys, PartIsSum
<1>2. \A h : \A s \in SUBSET S :
        Round(f, h, s) = IF s = {} THEN 0 ELSE LineAmount(items, Any(s)) + h[s \ {Any(s)}]
  <2> HIDE DEF S
  <2>. QED  BY AnyIn DEF Round, Amounts, S
<1>3. i = [s \in SUBSET S |-> Round(f, i, s)]
  <2> HIDE DEF S, f, g
  <2>1. g = [s \in SUBSET S |-> Round(f, g, s)]
    BY <1>1 DEF Sums
  <2>2. g = [s \in SUBSET S |->
               IF s = {} THEN 0 ELSE LineAmount(items, Any(s)) + g[s \ {Any(s)}]]
    BY <1>2, <2>1
  <2>3. i = [s \in SUBSET S |->
               IF s = {} THEN 0 ELSE LineAmount(items, Any(s)) + i[s \ {Any(s)}]]
    BY <2>2
  <2> HIDE DEF i
  <2>. QED  BY <1>2, <2>3
<1>4. getSubtotal(items) = i[S]
  BY DEF getSubtotal, MapThenSumSet, MapThenFoldSet, Any
<1> HIDE DEF S, f, g, i
<1>5. Sums(i, f, S)
  BY <1>3 DEF Sums
<1>6. i[S] = g[S]
  BY <1>1, <1>5, SumsAgree
<1>. QED  BY <1>4, <1>6 DEF S, g

(* The rows of an order add up to the subtotal of its items: the row of    *)
(* every key carries its quantity.                                         *)
LEMMA RowsAddUp ==
  ASSUME NEW n, NEW items \in Items
  PROVE  MapThenSumSet(LAMBDA y : UnitPrice * y.amount, ItemRows(n, items, Keys(items)))
           = getSubtotal(items)
<1> DEFINE S == Keys(items)
           e == Amounts(items)
           to == [k \in S |-> ItemRow(n, k, items[k])]
           T == ItemRows(n, items, S)
           f == [y \in T |-> UnitPrice * y.amount]
           i == CHOOSE h : h = [s \in SUBSET T |->
                  IF s = {} THEN 0 ELSE UnitPrice * Any(s).amount + h[s \ {Any(s)}]]
<1>1. /\ \A k \in S : to[k] \in T /\ to[k].amount = items[k] /\ to[k].ossan = k
      /\ T = {to[k] : k \in S}
  BY DEF ItemRows, ItemRow
<1>2. IsFiniteSet(S) /\ IsFiniteSet(T)
  <2>1. to \in Surjection(S, T)
    <3> HIDE DEF T, S
    <3>1. to = [k \in S |-> to[k]]
      OBVIOUS
    <3> HIDE DEF to
    <3>. QED  BY <1>1, <3>1 DEF Surjection
  <2>2. IsFiniteSet(S)
    BY FiniteKeys
  <2> HIDE DEF T, S, to
  <2>. QED  BY <2>1, <2>2, FS_Surjection
<1>3. \A k \in S : f[to[k]] = e[k] /\ e[k] \in Int
  <2>1. \A k \in S : e[k] = UnitPrice * items[k] /\ e[k] \in Int
    BY LineAmountType DEF Amounts, LineAmount
  <2> HIDE DEF S, T, to, e
  <2>. QED  BY <1>1, <2>1
<1>4. \A y \in T : f[y] \in Int
  <2> HIDE DEF S, T, to, e, f
  <2>. QED  BY <1>1, <1>3
<1>5. \A h : \A s \in SUBSET T :
        Round(f, h, s) = IF s = {} THEN 0 ELSE UnitPrice * Any(s).amount + h[s \ {Any(s)}]
  <2> HIDE DEF T
  <2>. QED  BY AnyIn DEF Round
<1>6. i = [s \in SUBSET T |-> Round(f, i, s)]
  <2> HIDE DEF T, f
  <2>0. PICK g : Sums(g, f, T)
    BY <1>2, SumsExist
  <2>1. g = [s \in SUBSET T |-> Round(f, g, s)]
    BY <2>0 DEF Sums
  <2>2. g = [s \in SUBSET T |->
               IF s = {} THEN 0 ELSE UnitPrice * Any(s).amount + g[s \ {Any(s)}]]
    BY <1>5, <2>1
  <2>3. i = [s \in SUBSET T |->
               IF s = {} THEN 0 ELSE UnitPrice * Any(s).amount + i[s \ {Any(s)}]]
    BY <2>2
  <2> HIDE DEF i
  <2>. QED  BY <1>5, <2>3
<1>7. MapThenSumSet(LAMBDA y : UnitPrice * y.amount, T) = i[T]
  <2> HIDE DEF T
  <2>. QED  BY DEF MapThenSumSet, MapThenFoldSet, Any
<1>8. Part(items)[S] = i[T]
  <2> DEFINE g == Part(items)
  <2>1. Sums(g, e, S)
    BY PartIsSum
  <2> HIDE DEF S, T, e, f, g, to, i
  <2>2. Sums(i, f, T)
    BY <1>6 DEF Sums
  <2>3. \A j, k \in S : to[j] = to[k] => j = k
    BY <1>1
  <2>4. g[S] = i[{to[k] : k \in S}]
    BY <1>1, <1>2, <1>3, <1>4, <2>1, <2>2, <2>3, SumsCorrespond
  <2>. QED  BY <1>1, <2>4 DEF g
<1>. QED  BY <1>7, <1>8, SubtotalIsSum

(* Where the loop of getSubtotal() is, and what it has got together.       *)
Summed(r) ==
  LET items == cart[loc[r].ref]
  IN  /\ pc[r] = "ord_decide" => loc[r].total = 0
      /\ pc[r] = "ord_sum" => loc[r].total = Part(items)[Keys(items) \ loc[r].todo]
      /\ pc[r] \in {"ord_copy", "tx_order"} => loc[r].total = Taxed(getSubtotal(items))

(* Every order that was numbered consists of some cart's items and their   *)
(* taxed subtotal.                                                         *)
Priced ==
  \A x \in asked : \E items \in Items :
    RowsOf(asked, x.no) = OrderRows(x.no, Taxed(getSubtotal(items)), items)

SumInv == Priced /\ \A r \in Requests : Summed(r)

(* The rounds of getSubtotal() itself                                      *)
LEMMA SumsOwn ==
  ASSUME TypeInv, Fresh, SumInv, NEW r \in Requests, Order(r) \/ Persist(r)
  PROVE  Summed(r)'
<1>0. /\ pc \in [Requests -> Places] /\ loc \in [Requests -> Locals] /\ loc[r] \in Locals
      /\ Summed(r)
  BY DEF TypeInv, TypeOK, SumInv
<1>i. pc[r] \in HasCart => cart[loc[r].ref] \in Items
  BY DEF TypeInv, TypeOK, LocalOK
<1>1. CASE OrderConfirm(r)
  <2>1. /\ pc[r] = "ord_decide" /\ pc'[r] = "ord_sum" /\ loc'[r].ref = loc[r].ref
        /\ loc'[r].todo = Keys(cart[loc[r].ref]) /\ loc'[r].total = loc[r].total
        /\ UNCHANGED cart
    BY <1>0, <1>1 DEF OrderConfirm, Goto, Locals, cartVars
  <2>2. Part(cart[loc[r].ref])[{}] = 0
    BY <1>i, <2>1, PartFacts DEF HasCart
  <2>. QED  BY <1>0, <2>1, <2>2 DEF Summed
<1>2. CASE SumItem(r)
  <2> DEFINE items == cart[loc[r].ref]
             done == Keys(items) \ loc[r].todo
  <2>1. PICK k \in loc[r].todo :
          loc' = [loc EXCEPT ![r].todo = @ \ {k}, ![r].total = @ + LineAmount(items, k)]
    BY <1>2 DEF SumItem
  <2>2. /\ pc[r] = "ord_sum" /\ pc'[r] = "ord_sum" /\ UNCHANGED cart
        /\ loc'[r].ref = loc[r].ref /\ loc'[r].todo = loc[r].todo \ {k}
        /\ loc'[r].total = loc[r].total + LineAmount(items, k)
    BY <1>0, <1>2, <2>1 DEF SumItem, Locals, cartVars
  <2>3. items \in Items /\ loc[r].todo \subseteq Keys(items)
    BY <1>i, <2>2 DEF HasCart, TypeInv, LocalOK, Fresh, Iterating
  <2>4. /\ Keys(items) \ loc'[r].todo \in SUBSET Keys(items)
        /\ k \in Keys(items) \ loc'[r].todo
        /\ (Keys(items) \ loc'[r].todo) \ {k} = done
    BY <2>1, <2>2, <2>3
  <2>5. Part(items)[Keys(items) \ loc'[r].todo] = LineAmount(items, k) + Part(items)[done]
    BY <2>3, <2>4, PartFacts
  <2>6. Part(items)[done] = loc[r].total
    BY <1>0, <2>2 DEF Summed
  <2>7. LineAmount(items, k) \in Int /\ loc[r].total \in Int
    BY <1>0, <2>1, <2>3, LineAmountType DEF Locals
  <2> HIDE DEF items, done
  <2>8. loc'[r].total = Part(items)[Keys(items) \ loc'[r].todo]
    BY <2>2, <2>5, <2>6, <2>7
  <2>. QED  BY <2>2, <2>8 DEF Summed, items
<1>3. CASE CopyStart(r)
  <2>1. /\ pc[r] = "ord_sum" /\ pc'[r] = "ord_copy" /\ loc'[r].ref = loc[r].ref
        /\ loc[r].todo = {} /\ loc'[r].total = Taxed(loc[r].total) /\ UNCHANGED cart
    BY <1>0, <1>3 DEF CopyStart, Goto, Locals, cartVars
  <2>2. loc[r].total = getSubtotal(cart[loc[r].ref])
    BY <1>0, <1>i, <2>1, SubtotalIsSum DEF Summed, HasCart
  <2>. QED  BY <2>1, <2>2 DEF Summed
<1>4. CASE CopyItem(r) \/ BeginTx(r)
  <2>1. /\ pc[r] = "ord_copy" /\ pc'[r] \in {"ord_copy", "tx_order"} /\ UNCHANGED cart
        /\ loc'[r].ref = loc[r].ref /\ loc'[r].total = loc[r].total
    <3>1. CASE CopyItem(r)
      BY <1>0, <3>1 DEF CopyItem, Locals, cartVars
    <3>2. CASE BeginTx(r)
      BY <1>0, <3>2 DEF BeginTx, Goto, cartVars
    <3>. QED  BY <1>4, <3>1, <3>2
  <2>. QED  BY <1>0, <2>1 DEF Summed
<1>5. ASSUME ~ (OrderConfirm(r) \/ SumItem(r) \/ CopyStart(r) \/ CopyItem(r) \/ BeginTx(r))
      PROVE  pc'[r] \notin {"ord_decide", "ord_sum", "ord_copy", "tx_order"}
  <2>1. CASE OrderCancel(r) \/ IterationFails(r) \/ ClearCart(r) \/ ConnectFails(r)
    BY <1>0, <2>1 DEF OrderCancel, IterationFails, ClearCart, ConnectFails, Respond
  <2>2. CASE InsertOrderRow(r) \/ InsertItemRow(r) \/ InsertFails(r)
    BY <1>0, <2>2 DEF InsertOrderRow, InsertItemRow, InsertFails, Goto
  <2>3. CASE \/ Commit(r) \/ CommitFails(r)
             \/ Rollback(r) \/ RollbackFails(r) \/ RollbackRefused(r)
             \/ CloseDone(r) \/ CloseFailed(r) \/ CloseThrows(r)
    BY <1>0, <2>3 DEF Commit, CommitFails, Rollback, RollbackFails, RollbackRefused,
       CloseDone, CloseFailed, CloseThrows, Respond, Goto
  <2>. QED  BY <1>5, <2>1, <2>2, <2>3 DEF Order, Persist
<1>. QED  BY <1>1, <1>2, <1>3, <1>4, <1>5 DEF Summed

(* An order gets its number together with the total of its items.          *)
LEMMA PricedStep ==
  ASSUME TypeInv, TypeInv', TxInv, ClearInv, SumInv, NEW r \in Requests, InsertOrderRow(r)
  PROVE  Priced'
<1> DEFINE n == nextNo
           items == loc[r].items
<1>1. /\ asked' = asked \cup Wanted(r)' /\ RowsOf(asked, n) = {} /\ loc'[r].no = n
  BY TxInsertOrderRow
<1>2. pc[r] = "tx_order" /\ items \in Items /\ loc[r] \in Locals
  BY DEF InsertOrderRow, Goto, TypeInv, TypeOK, Locals
<1>3. items = cart[loc[r].ref]
  BY <1>2 DEF ClearInv, Ordered, Ordering, Saving, InTransaction
<1>4. loc[r].total = Taxed(getSubtotal(items))
  BY <1>2, <1>3 DEF SumInv, Summed
<1>5. loc'[r].items = items /\ loc'[r].total = loc[r].total
  BY <1>2 DEF InsertOrderRow, Locals, TypeInv, TypeOK
<1>6. Wanted(r)' = OrderRows(n, Taxed(getSubtotal(items)), items)
  BY <1>1, <1>4, <1>5 DEF Wanted
<1>7. \A x \in Wanted(r)' : x.no = n
  BY <1>6, OrderRowsFacts
<1> HIDE DEF n, items
<1>8. ASSUME NEW x \in asked'
      PROVE  \E i \in Items :
               RowsOf(asked', x.no) = OrderRows(x.no, Taxed(getSubtotal(i)), i)
  <2>1. CASE x.no = n
    <3>1. RowsOf(asked', n) = Wanted(r)'
      BY <1>1, <1>7 DEF RowsOf
    <3>. QED  BY <1>2, <1>6, <2>1, <3>1
  <2>2. CASE x.no # n
    <3>1. x \in asked /\ RowsOf(asked', x.no) = RowsOf(asked, x.no)
      BY <1>1, <1>7, <2>2 DEF RowsOf
    <3>. QED  BY <3>1 DEF SumInv, Priced
  <2>. QED  BY <2>1, <2>2
<1>. QED  BY <1>8 DEF Priced

(* Totals stay right under every step.                                     *)
LEMMA SumStep ==
  ASSUME TypeInv, TypeInv', OwnCart, TxInv, ClearInv, Undisturbed, Fresh, SumInv, [Next]_vars
  PROVE  SumInv'
<1>0. pc \in [Requests -> Places] /\ loc \in [Requests -> Locals]
  BY DEF TypeInv, TypeOK
<1>1. ASSUME NEW q \in Requests, pc'[q] = pc[q], loc'[q] = loc[q],
             pc[q] \in HoldsCart => cart'[loc[q].ref] = cart[loc[q].ref]
      PROVE  Summed(q)'
  BY <1>1 DEF SumInv, Summed, HoldsCart, Ordering, Iterating, Saving, InTransaction
<1>2. ASSUME UNCHANGED asked
      PROVE  Priced'
  BY <1>2 DEF SumInv, Priced
<1>3. ASSUME NEW r \in Requests, Arrive(r)
      PROVE  SumInv'
  <2>1. Summed(r)'
    <3>1. /\ loc'[r].total = 0
          /\ pc'[r] \in {"ord_decide", "upd_check", "buy_new", "buy_look"}
      BY <1>0, <1>3 DEF Arrive, OrderArrive, BuyArrive, UpdateArrive, Blank
    <3>. QED  BY <3>1 DEF Summed
  <2>. QED  BY <1>1, <1>2, <1>3, <2>1, ArriveParts DEF SumInv, dbVars
<1>4. ASSUME NEW r \in Requests, Handle(r)
      PROVE  SumInv'
  <2>1. Summed(r)'
    <3>1. CASE Buy(r) \/ Update(r)
      BY <3>1, OtherPlaces DEF Summed
    <3>. QED  BY <1>4, <3>1, SumsOwn DEF Handle
  <2>2. \A q \in Requests : q # r => Summed(q)'
    BY <1>1, <1>4, OthersStay
  <2>3. Priced'
    <3>1. CASE Buy(r) \/ Update(r) \/ Order(r) \/ ConnectFails(r)
      BY <1>2, <3>1, OutsideSteps DEF dbVars
    <3>2. CASE InsertOrderRow(r)
      BY <3>2, PricedStep
    <3>3. CASE \/ BeginTx(r) \/ InsertItemRow(r) \/ InsertFails(r) \/ Commit(r)
               \/ CommitFails(r) \/ Rollback(r) \/ RollbackFails(r) \/ RollbackRefused(r)
               \/ CloseDone(r) \/ CloseFailed(r) \/ CloseThrows(r)
      BY <1>2, <3>3 DEF BeginTx, InsertItemRow, InsertFails, Commit, CommitFails,
         Rollback, RollbackFails, RollbackRefused, CloseDone, CloseFailed, CloseThrows, dbVars
    <3>. QED  BY <1>4, <3>1, <3>2, <3>3 DEF Handle, Persist
  <2>. QED  BY <2>1, <2>2, <2>3 DEF SumInv
<1>5. CASE \/ \E s \in Sessions : Abort(s) \/ Invalidate(s)
           \/ UNCHANGED vars
  BY <1>1, <1>2, <1>5, SessionsStay DEF SumInv, dbVars
<1>. QED  BY <1>3, <1>4, <1>5, NoStray DEF Next

(* What is stored is what was asked for.                                   *)
LEMMA StoredTotals ==
  ASSUME TypeInv, TxInv, Priced
  PROVE  TotalMatchesItems
<1> SUFFICES ASSUME NEW x \in rows
             PROVE  OrderAmount(x.no).amount =
                      Taxed(MapThenSumSet(LAMBDA y : UnitPrice * y.amount, OrderItems(x.no)))
  BY DEF TotalMatchesItems
<1> DEFINE n == x.no
<1>1. PICK items \in Items :
        RowsOf(rows, n) = OrderRows(n, Taxed(getSubtotal(items)), items)
  <2>1. x \in asked /\ RowsOf(rows, n) = RowsOf(asked, n)
    BY DEF TxInv, Numbered, AllOrNothing
  <2>. QED  BY <2>1 DEF Priced
<1> DEFINE total == Taxed(getSubtotal(items))
           first == OrderRow(n, total)
<1> HIDE DEF n, total
<1>2. /\ first \in RowsOf(rows, n) /\ first.ossan = Null
      /\ \A y \in RowsOf(rows, n) : y.ossan = Null => y = first
  BY <1>1, OrderRowsFacts DEF total
<1>3. OrderAmount(n).amount = total
  <2>1. OrderAmount(n) = first
    <3> HIDE DEF first
    <3>. QED  BY <1>2 DEF OrderAmount
  <2>. QED  BY <2>1 DEF OrderRow
<1>4. OrderItems(n) = ItemRows(n, items, Keys(items))
  <2>1. \A y \in ItemRows(n, items, Keys(items)) : y.ossan # Null
    BY CartAssumption DEF ItemRows, ItemRow, Keys
  <2> HIDE DEF first
  <2>2. RowsOf(rows, n) = {first} \cup ItemRows(n, items, Keys(items))
    BY <1>1 DEF OrderRows, first, total
  <2>. QED  BY <1>2, <2>1, <2>2 DEF OrderItems
<1>5. MapThenSumSet(LAMBDA y : UnitPrice * y.amount, OrderItems(n)) = getSubtotal(items)
  BY <1>4, RowsAddUp
<1>. QED  BY <1>3, <1>5 DEF n, total

(* The total of a stored order is the taxed sum of its own items, where    *)
(* browsers wait for their answers, nobody else's update reaches the cart  *)
(* and no rollback() is refused.                                           *)
THEOREM TotalsMatch == Undisturbed /\ Undone => (Spec => []TotalMatchesItems)
<1> SUFFICES ASSUME Undisturbed, Undone
             PROVE  Spec => []TotalMatchesItems
  OBVIOUS
<1>1. Init => SumInv
  BY DEF Init, SumInv, Priced, Summed
<1>2. /\ TypeInv /\ TypeInv' /\ OwnCart /\ TxInv /\ ClearInv /\ Fresh /\ SumInv
      /\ [Next]_vars
      => SumInv'
  BY SumStep
<1>3. TypeInv /\ TxInv /\ SumInv => TotalMatchesItems
  BY StoredTotals DEF SumInv
<1>. QED
  BY <1>1, <1>2, <1>3, Invariance, OwnCarts, TxInvariance, ClearInvariance,
     NeverOutdated, PTL DEF Spec
=============================================================================
