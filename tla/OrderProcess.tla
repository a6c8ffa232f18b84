---------------------------- MODULE OrderProcess ----------------------------
(***************************************************************************)
(* From the shopping cart to the stored order.                             *)
(*                                                                         *)
(* The servlets BuyOssanServlet, UpdateBookServlet, AbortServlet and       *)
(* ProcessOrderServlet work on the session attribute "ShoppingCart".       *)
(* Tomcat runs every request on a thread of its own, requests of one       *)
(* session overlap, and neither the cart nor the servlets synchronize:     *)
(* every handler is a sequence of steps, cut where it reads or writes what *)
(* another thread can change.  ProcessOrderServlet hands its order to      *)
(* OrderServiceImpl.persistOrder and OrderDaoImpl.insertOrder, which use a *)
(* JDBC connection to MySQL (external); its calls may fail.                *)
(***************************************************************************)
EXTENDS ShoppingCart

CONSTANTS
  Sessions,     \* HttpSession objects; a browser that logs out gets another
  Slots,        \* how many ShoppingCart objects of a session may coexist
  Requests,     \* the request threads
  BuyQtys,      \* parameter qty of BuyOssan.do
  NewQtys,      \* parameter newQty of UpdateItem.do
  Kinds,        \* what the browsers ask for; "stray": an update without a session
  Serial,       \* TRUE: a browser waits for an answer before its next request
  Faults,       \* the calls of the database that may fail
  MaxQty,       \* bound: nobody buys more of an item than brings it to this
  MaxOrders     \* bound: no order is submitted once this many were numbered

ASSUME OrderAssumption ==
  /\ BuyQtys \subseteq Int
  /\ NewQtys \subseteq Int
  /\ Kinds \subseteq {"buy", "update", "stray", "order"}
  /\ Serial \in BOOLEAN
  /\ Faults \subseteq {"connect", "sql", "commit", "rollback", "refused", "close"}
  /\ MaxQty \in Nat
  /\ MaxOrders \in Nat
  /\ Null \notin Sessions
  /\ Null \notin Sessions \X Slots

VARIABLES
  pc,        \* pc[r]: where request r is
  loc,       \* loc[r]: the parameters and local variables of request r
  stale,     \* stale[r]: the iterator or the OrderItem r holds is outdated
  live,      \* the sessions that are not invalidated
  cartOf,    \* cartOf[s]: the attribute "ShoppingCart" of session s
  cart,      \* cart[c]: the content of ShoppingCart object c
  field,     \* the instance field UpdateBookServlet.session
  rows,      \* the committed rows of ossanorders and ossanorderitems
  pend,      \* pend[r]: the rows r's connection has written, not committed
  auto,      \* auto[r]: the auto-commit mode of r's connection
  nextNo,    \* AUTO_INCREMENT of ossanorders.orderNo
  asked      \* history: every row the inserted OrderBeans consist of

cartVars == <<live, cartOf, cart, field>>
dbVars   == <<rows, pend, auto, nextNo, asked>>
vars     == <<pc, loc, stale, live, cartOf, cart, field,
              rows, pend, auto, nextNo, asked>>

Carts == Sessions \X Slots

OrderRow(n, total)   == [no |-> n, ossan |-> Null, amount |-> total]
ItemRow(n, k, qty)   == [no |-> n, ossan |-> k, amount |-> qty]
ItemRows(n, items, ks) == {ItemRow(n, k, items[k]) : k \in ks}
OrderRows(n, total, items) ==
  {OrderRow(n, total)} \cup ItemRows(n, items, Keys(items))
Row == [no : Nat, ossan : Ossans \cup {Null}, amount : Int]

RowsOf(set, n) == {x \in set : x.no = n}

(* The local variables of a thread that serves no request. *)
Blank == [sess |-> Null, ref |-> Null, ossan |-> Null, qty |-> Null,
          todo |-> {}, total |-> 0, items |-> NoItems, no |-> 0]

Iterating == {"ord_sum", "ord_copy"}
InTransaction == {"tx_order", "tx_items", "tx_rollback", "tx_done", "tx_failed"}
Places == {"idle", "buy_new", "buy_look", "buy_put", "buy_sum", "upd_check",
           "upd_get", "upd_act", "ord_decide", "ord_clear"}
            \cup Iterating \cup InTransaction

Locals == [sess : Sessions \cup {Null}, ref : Carts \cup {Null},
           ossan : Ossans \cup {Null}, qty : Int \cup {Null},
           todo : SUBSET Ossans, total : Int, items : Items, no : Nat]

-----------------------------------------------------------------------------
(* Helpers of the actions. *)

Goto(r, from, to) == pc[r] = from /\ pc' = [pc EXCEPT ![r] = to]

(* The handler returns: its thread is free for another request. *)
Respond(r) ==
  /\ pc' = [pc EXCEPT ![r] = "idle"]
  /\ loc' = [loc EXCEPT ![r] = Blank]

(* A request of kind k of session s may arrive at thread r. *)
Arrives(r, s, kind) ==
  /\ pc[r] = "idle"
  /\ kind \in Kinds
  /\ s \in live
  /\ Serial => \A q \in Requests : loc[q].sess # s

(* Item k of cart c is put anew or removed.  A thread that has fetched the *)
(* old OrderItem now holds an object outside the map; one that iterates    *)
(* over the key set fails at its next step when the key set changed.       *)
Disturb(c, k, keysChange) ==
  stale' = [q \in Requests |->
    \/ stale[q]
    \/ /\ loc[q].ref = c
       /\ \/ pc[q] = "buy_sum" /\ loc[q].ossan = k
          \/ keysChange /\ pc[q] \in Iterating /\ loc[q].todo # {}]

(* Mutant of FreeCarts: a pool of carts all sessions share. *)
FreeCartsShared(s) ==
  {c \in Carts : cartOf[s] # c /\ \A q \in Requests : loc[q].ref # c}

FreeCarts(s) ==
  {c \in {s} \X Slots : cartOf[s] # c /\ \A q \in Requests : loc[q].ref # c}

-----------------------------------------------------------------------------
(* BuyOssanServlet *)

InCart(s, k) ==
  IF cartOf[s] = Null \/ cart[cartOf[s]][k] = Null THEN 0 ELSE cart[cartOf[s]][k]

(* getAttribute("ShoppingCart"), line 35 *)
BuyArrive(r, s, k, qty) ==
  /\ Arrives(r, s, "buy")
  /\ InCart(s, k) + qty <= MaxQty
  /\ pc' = [pc EXCEPT ![r] = IF cartOf[s] = Null THEN "buy_new" ELSE "buy_look"]
  /\ loc' = [loc EXCEPT ![r] = [Blank EXCEPT !.sess = s, !.ref = cartOf[s],
                                             !.ossan = k, !.qty = qty]]
  /\ UNCHANGED <<stale, cartVars, dbVars>>

(* The attribute was null: a new cart becomes the attribute, whatever the  *)
(* attribute is by now.  An invalidated session throws.                    *)
BuyNewCart(r) ==
  /\ pc[r] = "buy_new"
  /\ loc[r].sess \in live
  /\ \E c \in FreeCarts(loc[r].sess) :
       /\ cartOf' = [cartOf EXCEPT ![loc[r].sess] = c]
       /\ cart' = [cart EXCEPT ![c] = NoItems]
       /\ loc' = [loc EXCEPT ![r].ref = c]
  /\ pc' = [pc EXCEPT ![r] = "buy_look"]
  /\ UNCHANGED <<stale, live, field, dbVars>>

BuyNewCartFails(r) ==
  /\ pc[r] = "buy_new"
  /\ loc[r].sess \notin live
  /\ Respond(r)
  /\ UNCHANGED <<stale, cartVars, dbVars>>

(* addToCart(): no item for qty <= 0 *)
AddNothing(r) ==
  /\ pc[r] = "buy_look"
  /\ loc[r].qty <= 0
  /\ Respond(r)
  /\ UNCHANGED <<stale, cartVars, dbVars>>

(* addToCart(): cart.get(pKey), and the quantity of the item found *)
AddLook(r) ==
  LET old == cart[loc[r].ref][loc[r].ossan]
  IN  /\ pc[r] = "buy_look"
      /\ loc[r].qty > 0
      /\ pc' = [pc EXCEPT ![r] = IF old = Null THEN "buy_put" ELSE "buy_sum"]
      /\ loc' = [loc EXCEPT ![r].qty = IF old = Null THEN @ ELSE JavaInt(old + @)]
      /\ UNCHANGED <<stale, cartVars, dbVars>>

(* addToCart(): cart.put(pKey, oi), also over an item put meanwhile *)
AddPut(r) ==
  LET c == loc[r].ref
      k == loc[r].ossan
  IN  /\ pc[r] = "buy_put"
      /\ cart' = [cart EXCEPT ![c] = Put(@, k, loc[r].qty)]
      /\ Disturb(c, k, cart[c][k] = Null)
      /\ Respond(r)
      /\ UNCHANGED <<live, cartOf, field, dbVars>>

(* addToCart(): oib.setQty(sum); the item may have left the cart *)
AddSum(r) ==
  /\ pc[r] = "buy_sum"
  /\ cart' = IF stale[r] THEN cart
             ELSE [cart EXCEPT ![loc[r].ref] = Put(@, loc[r].ossan, loc[r].qty)]
  /\ stale' = [stale EXCEPT ![r] = FALSE]
  /\ Respond(r)
  /\ UNCHANGED <<live, cartOf, field, dbVars>>

-----------------------------------------------------------------------------
(* UpdateBookServlet: its variable "session" is a field of the one servlet *)
(* instance that all threads share.  qty = Null stands for cmd=DEL.        *)

UpdateArrive(r, s, k, qty) ==
  /\ Arrives(r, s, "update")
  /\ field' = s
  /\ pc' = [pc EXCEPT ![r] = "upd_check"]
  /\ loc' = [loc EXCEPT ![r] = [Blank EXCEPT !.sess = s, !.ossan = k, !.qty = qty]]
  /\ UNCHANGED <<stale, live, cartOf, cart, dbVars>>

(* The request of a browser without a session: getSession(false) is null,  *)
(* and so is the field, until another request stores its session there.    *)
UpdateNoSession(r, k, qty) ==
  /\ "stray" \in Kinds
  /\ pc[r] = "idle"
  /\ field' = Null
  /\ pc' = [pc EXCEPT ![r] = "upd_check"]
  /\ loc' = [loc EXCEPT ![r] = [Blank EXCEPT !.ossan = k, !.qty = qty]]
  /\ UNCHANGED <<stale, live, cartOf, cart, dbVars>>

UpdateCheck(r) ==
  /\ pc[r] = "upd_check"
  /\ IF field = Null
     THEN Respond(r)
     ELSE pc' = [pc EXCEPT ![r] = "upd_get"] /\ UNCHANGED loc
  /\ UNCHANGED <<stale, cartVars, dbVars>>

(* getAttribute("ShoppingCart") of the session the field holds by now.     *)
(* Without a cart the handler is over: it redirects, or by now there is no *)
(* session (NullPointerException) or a dead one (IllegalStateException).   *)
UpdateGet(r) ==
  /\ pc[r] = "upd_get"
  /\ IF field \in live /\ cartOf[field] # Null
     THEN /\ pc' = [pc EXCEPT ![r] = "upd_act"]
          /\ loc' = [loc EXCEPT ![r].ref = cartOf[field]]
     ELSE Respond(r)
  /\ UNCHANGED <<stale, cartVars, dbVars>>

UpdateDelete(r) ==
  LET c == loc[r].ref
      k == loc[r].ossan
  IN  /\ pc[r] = "upd_act"
      /\ loc[r].qty = Null
      /\ cart' = [cart EXCEPT ![c] = deleteBook(@, k)]
      /\ Disturb(c, k, cart[c][k] # Null)
      /\ Respond(r)
      /\ UNCHANGED <<live, cartOf, field, dbVars>>

UpdateModify(r) ==
  /\ pc[r] = "upd_act"
  /\ loc[r].qty # Null
  /\ cart' = [cart EXCEPT ![loc[r].ref] = modifyQty(@, loc[r].ossan, loc[r].qty)]
  /\ Respond(r)
  /\ UNCHANGED <<stale, live, cartOf, field, dbVars>>

-----------------------------------------------------------------------------
(* The session itself *)

Quiet(s) == s \in live /\ (Serial => \A q \in Requests : loc[q].sess # s)

(* AbortServlet *)
Abort(s) ==
  /\ Quiet(s)
  /\ cartOf[s] # Null
  /\ cartOf' = [cartOf EXCEPT ![s] = Null]
  /\ UNCHANGED <<pc, loc, stale, live, cart, field, dbVars>>

(* logout.jsp, or the session timeout of web.xml *)
Invalidate(s) ==
  /\ Quiet(s)
  /\ live' = live \ {s}
  /\ cartOf' = [cartOf EXCEPT ![s] = Null]
  /\ UNCHANGED <<pc, loc, stale, cart, field, dbVars>>

-----------------------------------------------------------------------------
(* ProcessOrderServlet *)

OrderArrive(r, s) ==
  /\ Arrives(r, s, "order")
  /\ nextNo <= MaxOrders
  /\ cartOf[s] # Null
  /\ pc' = [pc EXCEPT ![r] = "ord_decide"]
  /\ loc' = [loc EXCEPT ![r] = [Blank EXCEPT !.sess = s, !.ref = cartOf[s]]]
  /\ UNCHANGED <<stale, cartVars, dbVars>>

(* finalDecision=CANCEL: remove the attribute, if the session still lives. *)
OrderCancel(r) ==
  /\ pc[r] = "ord_decide"
  /\ cartOf' = IF loc[r].sess \in live
               THEN [cartOf EXCEPT ![loc[r].sess] = Null] ELSE cartOf
  /\ Respond(r)
  /\ UNCHANGED <<stale, live, cart, field, dbVars>>

(* The start of the loop of getSubtotal() *)
OrderConfirm(r) ==
  /\ Goto(r, "ord_decide", "ord_sum")
  /\ loc' = [loc EXCEPT ![r].todo = Keys(cart[loc[r].ref])]
  /\ UNCHANGED <<stale, cartVars, dbVars>>

(* One round of the loop of getSubtotal(): keySet iterator, get, add       *)
SumItem(r) ==
  /\ pc[r] = "ord_sum"
  /\ ~ stale[r]
  /\ \E k \in loc[r].todo :
       loc' = [loc EXCEPT ![r].todo = @ \ {k},
                          ![r].total = @ + LineAmount(cart[loc[r].ref], k)]
  /\ UNCHANGED <<pc, stale, cartVars, dbVars>>

(* totalAmount is rounded; the loop that builds the items starts.          *)
CopyStart(r) ==
  /\ Goto(r, "ord_sum", "ord_copy")
  /\ loc[r].todo = {}
  /\ loc' = [loc EXCEPT ![r].todo = Keys(cart[loc[r].ref]),
                        ![r].total = Taxed(@)]
  /\ UNCHANGED <<stale, cartVars, dbVars>>

(* Mutant of CopyItem: the loop leaves after its first round. *)
CopyItemOnce(r) ==
  /\ pc[r] = "ord_copy"
  /\ ~ stale[r]
  /\ \E k \in loc[r].todo :
       loc' = [loc EXCEPT ![r].todo = {},
                          ![r].items[k] = cart[loc[r].ref][k]]
  /\ UNCHANGED <<pc, stale, cartVars, dbVars>>

(* Mutant of CopyItem: every item is ordered for one hour. *)
CopyItemOneHour(r) ==
  /\ pc[r] = "ord_copy"
  /\ ~ stale[r]
  /\ \E k \in loc[r].todo :
       loc' = [loc EXCEPT ![r].todo = @ \ {k}, ![r].items[k] = 1]
  /\ UNCHANGED <<pc, stale, cartVars, dbVars>>

CopyItem(r) ==
  /\ pc[r] = "ord_copy"
  /\ ~ stale[r]
  /\ \E k \in loc[r].todo :
       loc' = [loc EXCEPT ![r].todo = @ \ {k},
                          ![r].items[k] = cart[loc[r].ref][k]]
  /\ UNCHANGED <<pc, stale, cartVars, dbVars>>

(* ConcurrentModificationException or NullPointerException in either loop  *)
IterationFails(r) ==
  /\ pc[r] \in Iterating
  /\ stale[r]
  /\ Respond(r)
  /\ stale' = [stale EXCEPT ![r] = FALSE]
  /\ UNCHANGED <<cartVars, dbVars>>

(* Success: the attribute is removed, if the session still lives.          *)
ClearCart(r) ==
  /\ pc[r] = "ord_clear"
  /\ cartOf' = IF loc[r].sess \in live
               THEN [cartOf EXCEPT ![loc[r].sess] = Null] ELSE cartOf
  /\ Respond(r)
  /\ UNCHANGED <<stale, live, cart, field, dbVars>>

-----------------------------------------------------------------------------
(* persistOrder and insertOrder over JDBC.  Rows written in auto-commit    *)
(* mode are visible at once; setAutoCommit(true) commits what is pending.  *)

Write(r, new) ==
  IF auto[r] THEN rows' = rows \cup new /\ UNCHANGED pend
             ELSE pend' = [pend EXCEPT ![r] = @ \cup new] /\ UNCHANGED rows

(* Mutant of BeginTx: the connection stays in auto-commit mode. *)
BeginTxAutoCommit(r) ==
  /\ Goto(r, "ord_copy", "tx_order")
  /\ loc[r].todo = {}
  /\ UNCHANGED <<loc, stale, cartVars, dbVars>>

(* getConnection(), setAutoCommit(false) *)
BeginTx(r) ==
  /\ Goto(r, "ord_copy", "tx_order")
  /\ loc[r].todo = {}
  /\ auto' = [auto EXCEPT ![r] = FALSE]
  /\ UNCHANGED <<loc, stale, cartVars, rows, pend, nextNo, asked>>

ConnectFails(r) ==
  /\ "connect" \in Faults
  /\ pc[r] = "ord_copy"
  /\ loc[r].todo = {}
  /\ Respond(r)
  /\ UNCHANGED <<stale, cartVars, dbVars>>

(* The row of ossanorders; its generated key is the order's number.        *)
InsertOrderRow(r) ==
  /\ Goto(r, "tx_order", "tx_items")
  /\ Write(r, {OrderRow(nextNo, loc[r].total)})
  /\ nextNo' = nextNo + 1
  /\ asked' = asked \cup OrderRows(nextNo, loc[r].total, loc[r].items)
  /\ loc' = [loc EXCEPT ![r].no = nextNo, ![r].todo = Keys(loc[r].items)]
  /\ UNCHANGED <<stale, cartVars, auto>>

(* One row of ossanorderitems *)
InsertItemRow(r) ==
  /\ pc[r] = "tx_items"
  /\ \E k \in loc[r].todo :
       /\ Write(r, {ItemRow(loc[r].no, k, loc[r].items[k])})
       /\ loc' = [loc EXCEPT ![r].todo = @ \ {k}]
  /\ UNCHANGED <<pc, stale, cartVars, auto, nextNo, asked>>

(* setAutoCommit(false) or an insert throws.                               *)
InsertFails(r) ==
  /\ "sql" \in Faults
  /\ pc[r] = "tx_order" \/ (pc[r] = "tx_items" /\ loc[r].todo # {})
  /\ pc' = [pc EXCEPT ![r] = "tx_rollback"]
  /\ UNCHANGED <<loc, stale, cartVars, dbVars>>

CommitPending(r) ==
  /\ rows' = rows \cup pend[r]
  /\ pend' = [pend EXCEPT ![r] = {}]

Commit(r) ==
  /\ Goto(r, "tx_items", "tx_done")
  /\ loc[r].todo = {}
  /\ CommitPending(r)
  /\ UNCHANGED <<loc, stale, cartVars, auto, nextNo, asked>>

(* commit() throws: the server has refused the commit, or has done it and  *)
(* its answer was lost.                                                    *)
CommitFails(r) ==
  /\ "commit" \in Faults
  /\ Goto(r, "tx_items", "tx_rollback")
  /\ loc[r].todo = {}
  /\ CommitPending(r) \/ UNCHANGED <<rows, pend>>
  /\ UNCHANGED <<loc, stale, cartVars, auto, nextNo, asked>>

(* Mutant of Rollback: the catch block does not call rollback(). *)
RollbackForgotten(r) ==
  /\ Goto(r, "tx_rollback", "tx_failed")
  /\ UNCHANGED <<loc, stale, cartVars, dbVars>>

(* Mutant of Rollback: the catch block does not throw again. *)
RollbackSwallows(r) ==
  /\ Goto(r, "tx_rollback", "tx_done")
  /\ pend' = [pend EXCEPT ![r] = {}]
  /\ UNCHANGED <<loc, stale, cartVars, rows, auto, nextNo, asked>>

Rollback(r) ==
  /\ Goto(r, "tx_rollback", "tx_failed")
  /\ pend' = [pend EXCEPT ![r] = {}]
  /\ UNCHANGED <<loc, stale, cartVars, rows, auto, nextNo, asked>>

(* rollback() throws because the connection is lost: the server discards   *)
(* what it had written, and the pool will open another.                    *)
RollbackFails(r) ==
  /\ "rollback" \in Faults
  /\ pc[r] = "tx_rollback"
  /\ pend' = [pend EXCEPT ![r] = {}]
  /\ auto' = [auto EXCEPT ![r] = TRUE]
  /\ Respond(r)
  /\ UNCHANGED <<stale, cartVars, rows, nextNo, asked>>

(* rollback() throws and the connection stays open with what was written:  *)
(* the finally block goes on with it.                                      *)
RollbackRefused(r) ==
  /\ "refused" \in Faults
  /\ Goto(r, "tx_rollback", "tx_failed")
  /\ UNCHANGED <<loc, stale, cartVars, dbVars>>

(* finally: setAutoCommit(true), which commits, and close()                *)
CloseDone(r) ==
  /\ Goto(r, "tx_done", "ord_clear")
  /\ CommitPending(r)
  /\ auto' = [auto EXCEPT ![r] = TRUE]
  /\ UNCHANGED <<loc, stale, cartVars, nextNo, asked>>

CloseFailed(r) ==
  /\ pc[r] = "tx_failed"
  /\ CommitPending(r)
  /\ auto' = [auto EXCEPT ![r] = TRUE]
  /\ Respond(r)
  /\ UNCHANGED <<stale, cartVars, nextNo, asked>>

(* The finally block of a committed order throws: an error to the servlet. *)
CloseThrows(r) ==
  /\ "close" \in Faults
  /\ pc[r] = "tx_done"
  /\ CommitPending(r)
  /\ auto' = [auto EXCEPT ![r] = TRUE]
  /\ Respond(r)
  /\ UNCHANGED <<stale, cartVars, nextNo, asked>>

-----------------------------------------------------------------------------

(* All sessions are open and no cart exists yet. *)
Init ==
  /\ pc = [r \in Requests |-> "idle"]
  /\ loc = [r \in Requests |-> Blank]
  /\ stale = [r \in Requests |-> FALSE]
  /\ live = Sessions
  /\ cartOf = [s \in Sessions |-> Null]
  /\ cart = [c \in Carts |-> NoItems]
  /\ field = Null
  /\ rows = {}
  /\ pend = [r \in Requests |-> {}]
  /\ auto = [r \in Requests |-> TRUE]
  /\ nextNo = 1
  /\ asked = {}

(* A browser sends a request. *)
Arrive(r) ==
  \E s \in Sessions :
    \/ OrderArrive(r, s)
    \/ \E k \in Ossans :
         \/ \E qty \in BuyQtys : BuyArrive(r, s, k, qty)
         \/ \E qty \in NewQtys \cup {Null} : UpdateArrive(r, s, k, qty)

Stray(r) ==
  \E k \in Ossans, qty \in NewQtys \cup {Null} : UpdateNoSession(r, k, qty)

(* The handler of a request takes a step. *)
Buy(r) ==
  \/ BuyNewCart(r) \/ BuyNewCartFails(r)
  \/ AddNothing(r) \/ AddLook(r) \/ AddPut(r) \/ AddSum(r)

Update(r) ==
  \/ UpdateCheck(r) \/ UpdateGet(r)
  \/ UpdateDelete(r) \/ UpdateModify(r)

Order(r) ==
  \/ OrderCancel(r) \/ OrderConfirm(r) \/ SumItem(r)
  \/ CopyStart(r) \/ CopyItem(r) \/ IterationFails(r) \/ ClearCart(r)

Persist(r) ==
  \/ BeginTx(r) \/ ConnectFails(r)
  \/ InsertOrderRow(r) \/ InsertItemRow(r) \/ InsertFails(r)
  \/ Commit(r) \/ CommitFails(r)
  \/ Rollback(r) \/ RollbackFails(r) \/ RollbackRefused(r)
  \/ CloseDone(r) \/ CloseFailed(r) \/ CloseThrows(r)

Handle(r) == Buy(r) \/ Update(r) \/ Order(r) \/ Persist(r)

Next ==
  \/ \E r \in Requests : Arrive(r) \/ Stray(r) \/ Handle(r)
  \/ \E s \in Sessions : Abort(s) \/ Invalidate(s)

Spec == Init /\ [][Next]_vars

-----------------------------------------------------------------------------
(* Properties *)

(* Every variable has its type: in particular a session refers only to     *)
(* carts of its own.                                                       *)
TypeOK ==
  /\ pc \in [Requests -> Places]
  /\ loc \in [Requests -> Locals]
  /\ stale \in [Requests -> BOOLEAN]
  /\ live \subseteq Sessions
  /\ cartOf \in [Sessions -> Carts \cup {Null}]
  /\ \A s \in Sessions : cartOf[s] # Null => cartOf[s][1] = s
  /\ cart \in [Carts -> Items]
  /\ field \in Sessions \cup {Null}
  /\ rows \subseteq Row
  /\ pend \in [Requests -> SUBSET Row]
  /\ auto \in [Requests -> BOOLEAN]
  /\ nextNo \in Nat \ {0}
  /\ asked \subseteq Row

(* persistOrder, "this is a transaction" (OrderServiceImpl.java:38): the   *)
(* database never shows a part of an order, whatever other orders are      *)
(* being inserted and whatever call fails - except that a rollback() that  *)
(* throws must have cost the connection ("refused" is no fault): the       *)
(* finally block's setAutoCommit(true) would commit the part (CloseFailed  *)
(* after RollbackRefused).  It takes the auto-commit mode, the rollback    *)
(* before the finally block, and the generated key that ties the items to  *)
(* their own order.                                                        *)
AllOrNothing ==
  \A x \in rows : RowsOf(rows, x.no) = RowsOf(asked, x.no)

(* The servlet takes the cart out of the session only after the database   *)
(* holds every row of the order it was given (ProcessOrderServlet:96-97),  *)
(* even if a refused rollback has stored parts of other orders.            *)
ClearedOnlyWhenStored ==
  \A r \in Requests : pc[r] = "ord_clear" =>
    OrderRows(loc[r].no, loc[r].total, loc[r].items) \subseteq rows

(* The orders as the abstract specification sees them: OrderProcess        *)
(* implements AtomicOrders, as long as no rollback() is refused on a       *)
(* connection that survives.                                               *)
Abstract == INSTANCE AtomicOrders WITH book <- rows
AtomicOrderSpec == Abstract!Spec

(* Where every browser waits for its answers (Serial), it loses nothing:   *)
(* when its order is stored, the cart that leaves the session is the one   *)
(* that was ordered, and holds what the order holds - nothing was bought,  *)
(* changed or dropped between the copy (line 80) and the removal (97).     *)
ClearsWhatWasOrdered ==
  \A r \in Requests : pc[r] = "ord_clear" =>
    /\ cartOf[loc[r].sess] = loc[r].ref
    /\ cart[loc[r].ref] = loc[r].items

(* A stored order's total is the taxed sum of its own items, although      *)
(* getSubtotal() (line 57) and the copy (line 80) read the cart one after  *)
(* the other - where every browser waits for its answers (Serial), so that *)
(* none of its requests comes between them, and no rollback() is refused.  *)
OrderAmount(n) == CHOOSE x \in RowsOf(rows, n) : x.ossan = Null
OrderItems(n) == {x \in RowsOf(rows, n) : x.ossan # Null}
TotalMatchesItems ==
  \A x \in rows :
    OrderAmount(x.no).amount =
      Taxed(MapThenSumSet(LAMBDA y : UnitPrice * y.amount, OrderItems(x.no)))

(* An exception while saving means that the transaction was rolled back    *)
(* (OrderServiceImpl.java:64): a request that ends with the error message  *)
(* has left no row behind.  It is so where inserts, connections and        *)
(* rollbacks fail; the run order_lost_ack shows the lost answer of a       *)
(* commit(), for which it is not.                                          *)
FailedMeansRolledBack ==
  [][\A r \in Requests : pc[r] \in InTransaction /\ pc'[r] = "idle" =>
       RowsOf(rows', loc[r].no) = {}]_vars

(* Except in UpdateBookServlet, a handler works on a cart of the session   *)
(* its request belongs to.                                                 *)
OwnCart ==
  \A r \in Requests :
    /\ loc[r].ref # Null
    /\ pc[r] # "upd_act"
    => loc[r].ref[1] = loc[r].sess

(* UpdateBookServlet.java:24 "take the ShoppingCart object out of the      *)
(* session object": the cart it changes is one of its request's session.   *)
UpdatesOwnCart ==
  \A r \in Requests : pc[r] = "upd_act" => loc[r].ref[1] = loc[r].sess
=============================================================================
