------------------------ MODULE OrderProcess_proofs ------------------------
(***************************************************************************)
(* Proofs about OrderProcess, for any number of sessions, requests, ossans *)
(* and orders, any quantities, any workload and any set of faults.         *)
(***************************************************************************)
EXTENDS OrderProcess, TLAPS

-----------------------------------------------------------------------------
(* Facts about the operators the actions use *)

LEMMA JavaIntType == ASSUME NEW x \in Int PROVE JavaInt(x) \in Int
<1> DEFINE m == 2 * (MaxInt + 1)
           y == x + MaxInt + 1
<1>1. m \in Nat \ {0} /\ y \in Int /\ MaxInt \in Int
  BY CartAssumption
<1> HIDE DEF m, y
<1>2. y % m \in Int
  BY <1>1
<1>3. JavaInt(x) = (y % m) - (MaxInt + 1)
  BY DEF JavaInt, m, y
<1>. QED  BY <1>1, <1>2, <1>3

LEMMA TaxedType == ASSUME NEW x \in Int PROVE Taxed(x) \in Int
BY DEF Taxed

LEMMA DisturbFacts ==
  ASSUME NEW c, NEW k, NEW b \in BOOLEAN, stale \in [Requests -> BOOLEAN],
         Disturb(c, k, b)
  PROVE  /\ stale' \in [Requests -> BOOLEAN]
         /\ \A q \in Requests : ~ stale'[q] =>
              /\ ~ stale[q]
              /\ b /\ loc[q].ref = c /\ pc[q] \in Iterating => loc[q].todo = {}
<1>1. stale' \in [Requests -> BOOLEAN]
  BY DEF Disturb
<1>2. \A q \in Requests : ~ stale'[q] => ~ stale[q]
  BY DEF Disturb
<1>3. \A q \in Requests :
        ~ stale'[q] /\ b /\ loc[q].ref = c /\ pc[q] \in Iterating => loc[q].todo = {}
  BY DEF Disturb
<1>. QED  BY <1>1, <1>2, <1>3

LEMMA BlankType ==
Blank \in Locals
BY DEF Locals, Blank, Items, NoItems

-----------------------------------------------------------------------------
(* Type correctness.  The type invariant alone is not inductive: getSubtotal *)
(* multiplies what it finds under a key, so the keys an iterator has left   *)
(* must be in the map as long as no exception is due.                      *)

HasItem == {"buy_new", "buy_look", "buy_put", "buy_sum",
            "upd_check", "upd_get", "upd_act"}
Updating == {"upd_check", "upd_get", "upd_act"}
HasCart == {"buy_look", "buy_put", "buy_sum", "upd_act",
            "ord_decide", "ord_sum", "ord_copy"}

LocalOK(r) ==
  /\ pc[r] \in HasItem => loc[r].ossan \in Ossans
  /\ pc[r] \in {"buy_new", "buy_look", "buy_put", "buy_sum"} => loc[r].qty \in Int
  /\ pc[r] \in HasCart => loc[r].ref \in Carts
  /\ pc[r] \notin Updating \cup {"idle"} => loc[r].sess \in Sessions
  /\ pc[r] \in Iterating /\ ~ stale[r] =>
       loc[r].todo \subseteq Keys(cart[loc[r].ref])
  /\ pc[r] = "tx_items" => loc[r].todo \subseteq Keys(loc[r].items)

TypeInv == TypeOK /\ \A r \in Requests : LocalOK(r)

LEMMA TypeInit == Init => TypeInv
BY BlankType DEF Init, TypeInv, TypeOK, LocalOK, Items, NoItems, Carts, Places,
                 HasItem, HasCart, Updating, Iterating

DbOK ==
  /\ rows \subseteq Row
  /\ pend \in [Requests -> SUBSET Row]
  /\ auto \in [Requests -> BOOLEAN]
  /\ nextNo \in Nat \ {0}
  /\ asked \subseteq Row

LEMMA DbUnchanged == ASSUME TypeInv, UNCHANGED dbVars PROVE DbOK'
BY DEF TypeInv, TypeOK, DbOK, dbVars

(* The handler of a request returns. *)
LEMMA TypeRespond ==
  ASSUME TypeInv, NEW r \in Requests, Respond(r), UNCHANGED <<cart, field>>,
         live' \subseteq live, DbOK',
         cartOf' = cartOf \/ cartOf' = [cartOf EXCEPT ![loc[r].sess] = Null],
         stale' = stale \/ stale' = [stale EXCEPT ![r] = FALSE]
  PROVE  TypeInv'
<1>1. /\ pc' = [pc EXCEPT ![r] = "idle"] /\ loc' = [loc EXCEPT ![r] = Blank]
      /\ cart' = cart
  BY DEF Respond
<1>2. TypeOK'
  BY <1>1, BlankType DEF TypeInv, TypeOK, DbOK, Places
<1>3. \A q \in Requests : LocalOK(q)'
  <2> SUFFICES ASSUME NEW q \in Requests
               PROVE  LocalOK(q)'
    OBVIOUS
  <2>1. CASE q = r
    BY <1>1, <2>1 DEF TypeInv, TypeOK, LocalOK, HasItem, HasCart, Updating, Iterating
  <2>2. CASE q # r
    BY <1>1, <2>2 DEF TypeInv, TypeOK, LocalOK
  <2>. QED  BY <2>1, <2>2
<1>. QED  BY <1>2, <1>3 DEF TypeInv

(* Only request r moves, and no cart changes. *)
LEMMA TypeLocalStep ==
  ASSUME TypeInv, NEW r \in Requests, NEW p \in Places, NEW l \in Locals,
         pc' = [pc EXCEPT ![r] = p], loc' = [loc EXCEPT ![r] = l],
         UNCHANGED <<stale, live, cartOf, cart>>,
         field' \in Sessions \cup {Null},
         LocalOK(r)', DbOK'
  PROVE  TypeInv'
<1>1. TypeOK'
  BY DEF TypeInv, TypeOK, DbOK
<1>2. ASSUME NEW q \in Requests, q # r
      PROVE  LocalOK(q)'
  BY <1>2 DEF TypeInv, TypeOK, LocalOK
<1>. QED  BY <1>1, <1>2 DEF TypeInv

LEMMA TypeBuyArrive ==
  ASSUME TypeInv, NEW r \in Requests, NEW s \in Sessions, NEW k \in Ossans,
         NEW qty \in BuyQtys, BuyArrive(r, s, k, qty)
  PROVE  TypeInv'
<1> DEFINE p == IF cartOf[s] = Null THEN "buy_new" ELSE "buy_look"
           l == [Blank EXCEPT !.sess = s, !.ref = cartOf[s],
                              !.ossan = k, !.qty = qty]
<1>1. /\ pc' = [pc EXCEPT ![r] = p] /\ loc' = [loc EXCEPT ![r] = l]
      /\ UNCHANGED <<stale, live, cartOf, cart, field, dbVars>>
  BY DEF BuyArrive, cartVars
<1>2. cartOf[s] \in Carts \cup {Null} /\ qty \in Int
  BY OrderAssumption DEF TypeInv, TypeOK
<1>3. l \in Locals
  BY <1>2, BlankType DEF Locals, Blank
<1>4. LocalOK(r)'
  <2>1. pc'[r] = p /\ loc'[r] = l
    BY <1>1 DEF TypeInv, TypeOK
  <2>2. l.ossan = k /\ l.qty = qty /\ l.sess = s /\ l.ref = cartOf[s] /\ l.todo = {}
    BY DEF Blank
  <2>3. p \in {"buy_new", "buy_look"} /\ (p = "buy_look" => l.ref \in Carts)
    BY <1>2, <2>2
  <2> HIDE DEF p, l
  <2>. QED  BY <1>2, <2>1, <2>2, <2>3 DEF LocalOK, HasItem, HasCart, Updating, Iterating
<1>5. p \in Places
  BY DEF Places
<1>6. field' \in Sessions \cup {Null}
  BY <1>1 DEF TypeInv, TypeOK
<1> HIDE DEF p, l
<1>. QED  BY <1>1, <1>3, <1>4, <1>5, <1>6, DbUnchanged, TypeLocalStep

LEMMA TypeUpdateArrive ==
  ASSUME TypeInv, NEW r \in Requests, NEW s \in Sessions, NEW k \in Ossans,
         NEW qty \in NewQtys \cup {Null}, UpdateArrive(r, s, k, qty)
  PROVE  TypeInv'
<1> DEFINE l == [Blank EXCEPT !.sess = s, !.ossan = k, !.qty = qty]
<1>1. /\ pc' = [pc EXCEPT ![r] = "upd_check"] /\ loc' = [loc EXCEPT ![r] = l]
      /\ UNCHANGED <<stale, live, cartOf, cart, dbVars>> /\ field' = s
  BY DEF UpdateArrive
<1>2. l \in Locals
  BY BlankType, OrderAssumption DEF Locals, Blank
<1>3. LocalOK(r)'
  <2>1. pc'[r] = "upd_check" /\ loc'[r] = l
    BY <1>1 DEF TypeInv, TypeOK
  <2>2. l.ossan = k /\ l.sess = s
    BY DEF Blank
  <2> HIDE DEF l
  <2>. QED  BY <2>1, <2>2 DEF LocalOK, HasItem, HasCart, Updating, Iterating
<1>4. "upd_check" \in Places
  BY DEF Places
<1> HIDE DEF l
<1>. QED  BY <1>1, <1>2, <1>3, <1>4, DbUnchanged, TypeLocalStep

LEMMA TypeNoSession ==
  ASSUME TypeInv, NEW r \in Requests, NEW k \in Ossans,
         NEW qty \in NewQtys \cup {Null}, UpdateNoSession(r, k, qty)
  PROVE  TypeInv'
<1> DEFINE l == [Blank EXCEPT !.ossan = k, !.qty = qty]
<1>1. /\ pc' = [pc EXCEPT ![r] = "upd_check"] /\ loc' = [loc EXCEPT ![r] = l]
      /\ UNCHANGED <<stale, live, cartOf, cart, dbVars>> /\ field' = Null
  BY DEF UpdateNoSession
<1>2. l \in Locals
  BY BlankType, OrderAssumption DEF Locals, Blank
<1>3. LocalOK(r)'
  <2>1. pc'[r] = "upd_check" /\ loc'[r] = l
    BY <1>1 DEF TypeInv, TypeOK
  <2>2. l.ossan = k
    BY DEF Blank
  <2> HIDE DEF l
  <2>. QED  BY <2>1, <2>2 DEF LocalOK, HasItem, HasCart, Updating, Iterating
<1>4. "upd_check" \in Places
  BY DEF Places
<1> HIDE DEF l
<1>. QED  BY <1>1, <1>2, <1>3, <1>4, DbUnchanged, TypeLocalStep

LEMMA TypeOrderArrive ==
  ASSUME TypeInv, NEW r \in Requests, NEW s \in Sessions, OrderArrive(r, s)
  PROVE  TypeInv'
<1> DEFINE l == [Blank EXCEPT !.sess = s, !.ref = cartOf[s]]
<1>1. /\ pc' = [pc EXCEPT ![r] = "ord_decide"] /\ loc' = [loc EXCEPT ![r] = l]
      /\ UNCHANGED <<stale, live, cartOf, cart, field, dbVars>>
  BY DEF OrderArrive, cartVars
<1>2. cartOf[s] \in Carts /\ field' \in Sessions \cup {Null}
  BY <1>1 DEF OrderArrive, TypeInv, TypeOK
<1>3. l \in Locals
  BY <1>2, BlankType DEF Locals, Blank
<1>4. LocalOK(r)'
  <2>1. pc'[r] = "ord_decide" /\ loc'[r] = l
    BY <1>1 DEF TypeInv, TypeOK
  <2>2. l.ref = cartOf[s] /\ l.sess = s
    BY DEF Blank
  <2> HIDE DEF l
  <2>. QED  BY <1>2, <2>1, <2>2 DEF LocalOK, HasItem, HasCart, Updating, Iterating
<1>5. "ord_decide" \in Places
  BY DEF Places
<1> HIDE DEF l
<1>. QED  BY <1>1, <1>2, <1>3, <1>4, <1>5, DbUnchanged, TypeLocalStep

(* Request r goes from place to place and leaves everything else alone. *)
LEMMA TypeGoto ==
  ASSUME TypeInv, NEW r \in Requests, NEW p \in Places,
         pc' = [pc EXCEPT ![r] = p],
         UNCHANGED <<loc, stale, live, cartOf, cart, field>>,
         pc[r] # "idle", pc[r] \in Updating => p \in Updating,
         p \in HasCart => pc[r] \in HasCart,
         p \in HasItem => pc[r] \in HasItem,
         p \notin {"buy_new", "buy_look", "buy_put", "buy_sum", "tx_items"},
         p \notin Iterating,
         DbOK'
  PROVE  TypeInv'
<1>1. loc' = [loc EXCEPT ![r] = loc[r]] /\ loc[r] \in Locals
  BY DEF TypeInv, TypeOK
<1>2. field' \in Sessions \cup {Null} /\ pc'[r] = p /\ loc'[r] = loc[r]
  BY DEF TypeInv, TypeOK
<1>3. LocalOK(r)'
  BY <1>2 DEF TypeInv, LocalOK, HasItem, HasCart, Updating
<1>. QED  BY <1>1, <1>2, <1>3, TypeLocalStep

(* The content of carts changes, no thread but r moves, and every key an   *)
(* iterator still expects is there or the iterator is outdated.            *)
LEMMA TypeCartStep ==
  ASSUME TypeInv, NEW r \in Requests, Respond(r),
         cart' \in [Carts -> Items],
         stale' \in [Requests -> BOOLEAN],
         \A q \in Requests \ {r} : pc[q] \in Iterating /\ ~ stale'[q] =>
           ~ stale[q] /\ loc[q].todo \subseteq Keys(cart'[loc[q].ref]),
         UNCHANGED <<live, cartOf, field, dbVars>>
  PROVE  TypeInv'
<1>1. /\ pc' = [pc EXCEPT ![r] = "idle"] /\ loc' = [loc EXCEPT ![r] = Blank]
      /\ DbOK'
  BY DbUnchanged DEF Respond
<1>2. TypeOK'
  BY <1>1, BlankType DEF TypeInv, TypeOK, DbOK, Places
<1>3. \A q \in Requests : LocalOK(q)'
  <2> SUFFICES ASSUME NEW q \in Requests
               PROVE  LocalOK(q)'
    OBVIOUS
  <2>1. CASE q = r
    BY <1>1, <2>1 DEF TypeInv, TypeOK, LocalOK, HasItem, HasCart, Updating, Iterating
  <2>2. CASE q # r
    <3>1. pc'[q] = pc[q] /\ loc'[q] = loc[q]
      BY <1>1, <2>2 DEF TypeInv, TypeOK
    <3>2. pc[q] = "tx_items" => loc[q].todo \subseteq Keys(loc[q].items)
      BY DEF TypeInv, LocalOK
    <3>. QED  BY <2>2, <3>1, <3>2 DEF TypeInv, LocalOK, Keys
  <2>. QED  BY <2>1, <2>2
<1>. QED  BY <1>2, <1>3 DEF TypeInv

(* BuyOssanServlet makes a cart that no thread refers to the attribute.    *)
LEMMA TypeBuyNewCart ==
  ASSUME TypeInv, NEW r \in Requests, BuyNewCart(r)
  PROVE  TypeInv'
<1> DEFINE s == loc[r].sess
<1>1. PICK c \in FreeCarts(s) :
        /\ cartOf' = [cartOf EXCEPT ![s] = c]
        /\ cart' = [cart EXCEPT ![c] = NoItems]
        /\ loc' = [loc EXCEPT ![r].ref = c]
  BY DEF BuyNewCart
<1>2. /\ pc[r] = "buy_new" /\ s \in Sessions
      /\ pc' = [pc EXCEPT ![r] = "buy_look"]
      /\ UNCHANGED <<stale, live, field>> /\ DbOK'
  BY DbUnchanged DEF BuyNewCart, TypeInv, TypeOK
<1>3. c \in Carts /\ c[1] = s /\ \A q \in Requests : loc[q].ref # c
  BY <1>2 DEF FreeCarts, Carts
<1>4. NoItems \in Items /\ loc[r] \in Locals
  BY DEF NoItems, Items, TypeInv, TypeOK
<1>5. [loc[r] EXCEPT !.ref = c] \in Locals
  BY <1>3, <1>4 DEF Locals
<1>6. TypeOK'
  <2>1. pc' \in [Requests -> Places] /\ loc' \in [Requests -> Locals]
    BY <1>1, <1>2, <1>5 DEF TypeInv, TypeOK, Places
  <2>2. cartOf' \in [Sessions -> Carts \cup {Null}] /\ cart' \in [Carts -> Items]
    BY <1>1, <1>2, <1>3, <1>4 DEF TypeInv, TypeOK
  <2>3. \A t \in Sessions : cartOf'[t] # Null => cartOf'[t][1] = t
    BY <1>1, <1>2, <1>3 DEF TypeInv, TypeOK
  <2>. QED  BY <1>2, <2>1, <2>2, <2>3 DEF TypeInv, TypeOK, DbOK
<1>7. ASSUME NEW q \in Requests
      PROVE  LocalOK(q)'
  <2>1. CASE q = r
    <3>1. pc'[q] = "buy_look" /\ loc'[q] = [loc[r] EXCEPT !.ref = c]
      BY <1>1, <1>2, <2>1 DEF TypeInv, TypeOK
    <3>2. /\ loc'[q].ref = c /\ loc'[q].ossan = loc[r].ossan
          /\ loc'[q].qty = loc[r].qty /\ loc'[q].sess = s
      BY <1>4, <3>1 DEF Locals
    <3>3. LocalOK(r)
      BY DEF TypeInv
    <3>. QED  BY <1>2, <1>3, <3>1, <3>2, <3>3 DEF LocalOK, HasItem, HasCart, Updating, Iterating
  <2>2. CASE q # r
    <3>1. pc'[q] = pc[q] /\ loc'[q] = loc[q] /\ stale'[q] = stale[q]
      BY <1>1, <1>2, <2>2 DEF TypeInv, TypeOK
    <3>2. loc[q].ref \in Carts => cart'[loc[q].ref] = cart[loc[q].ref]
      BY <1>1, <1>3 DEF TypeInv, TypeOK
    <3>3. pc[q] \in Iterating => loc[q].ref \in Carts
      BY DEF TypeInv, LocalOK, Iterating, HasCart
    <3>4. LocalOK(q)
      BY DEF TypeInv
    <3>. QED  BY <3>1, <3>2, <3>3, <3>4 DEF LocalOK
  <2>. QED  BY <2>1, <2>2
<1>. QED  BY <1>6, <1>7 DEF TypeInv

LEMMA TypeBuy ==
  ASSUME TypeInv, NEW r \in Requests, Buy(r)
  PROVE  TypeInv'
<1>0. pc[r] # "idle" => loc[r] \in Locals /\ LocalOK(r)
  BY DEF TypeInv, TypeOK
<1>1. CASE BuyNewCart(r)
  BY <1>1, TypeBuyNewCart
<1>2. CASE BuyNewCartFails(r)
  BY <1>2, DbUnchanged, TypeRespond DEF BuyNewCartFails, cartVars
<1>3. CASE AddNothing(r)
  BY <1>3, DbUnchanged, TypeRespond DEF AddNothing, cartVars
<1>4. CASE AddLook(r)
  <2> DEFINE c == loc[r].ref
             k == loc[r].ossan
             old == cart[c][k]
             p == IF old = Null THEN "buy_put" ELSE "buy_sum"
             q == IF old = Null THEN loc[r].qty ELSE JavaInt(old + loc[r].qty)
             l == [loc[r] EXCEPT !.qty = q]
  <2>1. /\ pc[r] = "buy_look" /\ pc' = [pc EXCEPT ![r] = p]
        /\ loc' = [loc EXCEPT ![r] = l]
        /\ UNCHANGED <<stale, live, cartOf, cart, field, dbVars>>
    BY <1>4 DEF AddLook, cartVars, TypeInv, TypeOK
  <2>2. c \in Carts /\ k \in Ossans /\ loc[r].qty \in Int /\ loc[r].sess \in Sessions
    BY <1>0, <2>1 DEF LocalOK, HasItem, HasCart, Updating
  <2>3. old \in Int \cup {Null}
    BY <2>2 DEF TypeInv, TypeOK, Items
  <2>4. q \in Int
    BY <2>2, <2>3, JavaIntType
  <2>5. p \in {"buy_put", "buy_sum"} /\ p \in Places
    BY DEF Places
  <2>6. loc[r] \in Locals /\ field' \in Sessions \cup {Null} /\ stale[r] = stale'[r]
    BY <2>1 DEF TypeInv, TypeOK
  <2> HIDE DEF q, p, old
  <2>7. /\ l \in Locals /\ l.qty = q /\ l.ref = c /\ l.ossan = k
        /\ l.sess = loc[r].sess
    BY <2>4, <2>6 DEF Locals
  <2>8. pc'[r] = p /\ loc'[r] = l
    BY <2>1 DEF TypeInv, TypeOK
  <2> HIDE DEF l
  <2>9. LocalOK(r)'
    BY <2>2, <2>4, <2>5, <2>7, <2>8 DEF LocalOK, HasItem, HasCart, Updating, Iterating
  <2>. QED  BY <2>1, <2>5, <2>6, <2>7, <2>9, DbUnchanged, TypeLocalStep
<1>5. CASE AddPut(r)
  <2> DEFINE c == loc[r].ref
             k == loc[r].ossan
             b == cart[c][k] = Null
  <2>1. /\ pc[r] = "buy_put" /\ cart' = [cart EXCEPT ![c] = Put(@, k, loc[r].qty)]
        /\ Disturb(c, k, b) /\ Respond(r)
        /\ UNCHANGED <<live, cartOf, field, dbVars>>
    BY <1>5 DEF AddPut
  <2>2. c \in Carts /\ k \in Ossans /\ loc[r].qty \in Int
    BY <1>0, <2>1 DEF LocalOK, HasItem, HasCart
  <2>3. cart' \in [Carts -> Items] /\ \A d \in Carts : Keys(cart[d]) \subseteq Keys(cart'[d])
    BY <2>1, <2>2, CartAssumption DEF TypeInv, TypeOK, Put, Items, Keys
  <2>4. /\ stale' \in [Requests -> BOOLEAN]
        /\ \A q \in Requests : ~ stale'[q] => ~ stale[q]
    BY <2>1, DisturbFacts DEF TypeInv, TypeOK
  <2>5. \A q \in Requests \ {r} : pc[q] \in Iterating /\ ~ stale'[q] =>
          ~ stale[q] /\ loc[q].todo \subseteq Keys(cart'[loc[q].ref])
    BY <2>3, <2>4 DEF TypeInv, LocalOK, HasCart, Iterating
  <2>. QED  BY <2>1, <2>3, <2>4, <2>5, TypeCartStep
<1>6. CASE AddSum(r)
  <2> DEFINE c == loc[r].ref
             k == loc[r].ossan
  <2>1. /\ pc[r] = "buy_sum" /\ Respond(r)
        /\ cart' = IF stale[r] THEN cart ELSE [cart EXCEPT ![c] = Put(@, k, loc[r].qty)]
        /\ stale' = [stale EXCEPT ![r] = FALSE]
        /\ UNCHANGED <<live, cartOf, field, dbVars>>
    BY <1>6 DEF AddSum
  <2>2. c \in Carts /\ k \in Ossans /\ loc[r].qty \in Int
    BY <1>0, <2>1 DEF LocalOK, HasItem, HasCart
  <2>3. cart' \in [Carts -> Items] /\ \A d \in Carts : Keys(cart[d]) \subseteq Keys(cart'[d])
    BY <2>1, <2>2, CartAssumption DEF TypeInv, TypeOK, Put, Items, Keys
  <2>4. /\ stale' \in [Requests -> BOOLEAN]
        /\ \A q \in Requests \ {r} : stale'[q] = stale[q]
    BY <2>1 DEF TypeInv, TypeOK
  <2>5. \A q \in Requests \ {r} : pc[q] \in Iterating /\ ~ stale'[q] =>
          ~ stale[q] /\ loc[q].todo \subseteq Keys(cart'[loc[q].ref])
    BY <2>3, <2>4 DEF TypeInv, LocalOK, HasCart, Iterating
  <2>. QED  BY <2>1, <2>3, <2>4, <2>5, TypeCartStep
<1>. QED  BY <1>1, <1>2, <1>3, <1>4, <1>5, <1>6 DEF Buy

LEMMA TypeUpdate ==
  ASSUME TypeInv, NEW r \in Requests, Update(r)
  PROVE  TypeInv'
<1>0. loc[r] \in Locals /\ LocalOK(r)
  BY DEF TypeInv, TypeOK
<1>1. CASE UpdateCheck(r)
  <2>1. pc[r] = "upd_check" /\ UNCHANGED <<stale, live, cartOf, cart, field, dbVars>>
    BY <1>1 DEF UpdateCheck, cartVars
  <2>2. CASE Respond(r)
    BY <2>1, <2>2, DbUnchanged, TypeRespond
  <2>3. CASE pc' = [pc EXCEPT ![r] = "upd_get"] /\ UNCHANGED loc
    <3>1. "upd_get" \in Places /\ "upd_get" \notin HasCart \cup Iterating
      BY DEF Places, HasCart, Iterating
    <3>2. pc[r] \in HasItem /\ "upd_get" \in Updating
      BY <2>1 DEF HasItem, Updating
    <3>. QED  BY <2>1, <2>3, <3>1, <3>2, DbUnchanged, TypeGoto
  <2>. QED  BY <1>1, <2>2, <2>3 DEF UpdateCheck
<1>2. CASE UpdateGet(r)
  <2>1. /\ pc[r] = "upd_get"
        /\ UNCHANGED <<stale, live, cartOf, cart, field, dbVars>>
    BY <1>2 DEF UpdateGet, cartVars
  <2>2. CASE Respond(r)
    BY <2>1, <2>2, DbUnchanged, TypeRespond
  <2>3. CASE ~ Respond(r)
    <3> DEFINE c == cartOf[field]
               l == [loc[r] EXCEPT !.ref = c]
    <3>1. /\ field \in live /\ c # Null /\ pc' = [pc EXCEPT ![r] = "upd_act"]
          /\ loc' = [loc EXCEPT ![r] = l]
      BY <1>2, <2>3 DEF UpdateGet, TypeInv, TypeOK
    <3>2. c \in Carts /\ field' \in Sessions \cup {Null}
      BY <2>1, <3>1 DEF TypeInv, TypeOK
    <3> HIDE DEF c
    <3>3. l \in Locals /\ l.ref = c /\ l.ossan = loc[r].ossan /\ l.sess = loc[r].sess
      BY <1>0, <3>2 DEF Locals
    <3>4. pc'[r] = "upd_act" /\ loc'[r] = l
      BY <3>1 DEF TypeInv, TypeOK
    <3> HIDE DEF l
    <3>5. LocalOK(r)'
      BY <1>0, <2>1, <3>2, <3>3, <3>4 DEF LocalOK, HasItem, HasCart, Updating, Iterating
    <3>6. "upd_act" \in Places
      BY DEF Places
    <3>. QED  BY <2>1, <3>1, <3>2, <3>3, <3>5, <3>6, DbUnchanged, TypeLocalStep
  <2>. QED  BY <2>2, <2>3
<1>3. CASE UpdateDelete(r)
  <2> DEFINE c == loc[r].ref
             k == loc[r].ossan
             b == cart[c][k] # Null
  <2>1. /\ pc[r] = "upd_act" /\ cart' = [cart EXCEPT ![c] = deleteBook(@, k)]
        /\ Disturb(c, k, b) /\ Respond(r)
        /\ UNCHANGED <<live, cartOf, field, dbVars>>
    BY <1>3 DEF UpdateDelete
  <2>2. c \in Carts /\ k \in Ossans
    BY <1>0, <2>1 DEF LocalOK, HasItem, HasCart
  <2>3. /\ cart' \in [Carts -> Items]
        /\ \A d \in Carts : d # c => Keys(cart'[d]) = Keys(cart[d])
        /\ ~ b => Keys(cart'[c]) = Keys(cart[c])
    BY <2>1, <2>2 DEF TypeInv, TypeOK, deleteBook, Items, Keys
  <2>4. /\ stale' \in [Requests -> BOOLEAN]
        /\ \A q \in Requests : ~ stale'[q] =>
             /\ ~ stale[q]
             /\ b /\ loc[q].ref = c /\ pc[q] \in Iterating => loc[q].todo = {}
    <3> HIDE DEF c, k
    <3>. QED  BY <2>1, DisturbFacts DEF TypeInv, TypeOK
  <2>5. \A q \in Requests \ {r} : pc[q] \in Iterating /\ ~ stale'[q] =>
          ~ stale[q] /\ loc[q].todo \subseteq Keys(cart'[loc[q].ref])
    <3> SUFFICES ASSUME NEW q \in Requests, pc[q] \in Iterating, ~ stale'[q]
                 PROVE  ~ stale[q] /\ loc[q].todo \subseteq Keys(cart'[loc[q].ref])
      OBVIOUS
    <3>1. /\ ~ stale[q] /\ loc[q].ref \in Carts
          /\ loc[q].todo \subseteq Keys(cart[loc[q].ref])
      BY <2>4 DEF TypeInv, LocalOK, HasCart, Iterating
    <3>. QED  BY <2>3, <2>4, <3>1
  <2>. QED  BY <2>1, <2>3, <2>4, <2>5, TypeCartStep
<1>4. CASE UpdateModify(r)
  <2> DEFINE c == loc[r].ref
             k == loc[r].ossan
  <2>1. /\ pc[r] = "upd_act" /\ loc[r].qty # Null
        /\ cart' = [cart EXCEPT ![c] = modifyQty(@, k, loc[r].qty)]
        /\ Respond(r) /\ stale' = stale
        /\ UNCHANGED <<live, cartOf, field, dbVars>>
    BY <1>4 DEF UpdateModify
  <2>2. c \in Carts /\ k \in Ossans /\ loc[r].qty \in Int
    BY <1>0, <2>1 DEF LocalOK, HasItem, HasCart, Locals
  <2>3. cart' \in [Carts -> Items] /\ \A d \in Carts : Keys(cart[d]) \subseteq Keys(cart'[d])
    BY <2>1, <2>2, CartAssumption DEF TypeInv, TypeOK, modifyQty, Items, Keys
  <2>4. stale' \in [Requests -> BOOLEAN]
    BY <2>1 DEF TypeInv, TypeOK
  <2>5. \A q \in Requests \ {r} : pc[q] \in Iterating /\ ~ stale'[q] =>
          ~ stale[q] /\ loc[q].todo \subseteq Keys(cart'[loc[q].ref])
    BY <2>1, <2>3 DEF TypeInv, LocalOK, HasCart, Iterating
  <2>. QED  BY <2>1, <2>3, <2>4, <2>5, TypeCartStep
<1>. QED  BY <1>1, <1>2, <1>3, <1>4 DEF Update

LEMMA TypeOrder ==
  ASSUME TypeInv, NEW r \in Requests, Order(r)
  PROVE  TypeInv'
<1>0. loc[r] \in Locals /\ LocalOK(r) /\ field \in Sessions \cup {Null}
  BY DEF TypeInv, TypeOK
<1>1. CASE OrderCancel(r)
  BY <1>1, DbUnchanged, TypeRespond DEF OrderCancel
<1>2. CASE OrderConfirm(r)
  <2> DEFINE ks == Keys(cart[loc[r].ref])
             l == [loc[r] EXCEPT !.todo = ks]
  <2>1. /\ pc[r] = "ord_decide" /\ pc' = [pc EXCEPT ![r] = "ord_sum"]
        /\ loc' = [loc EXCEPT ![r] = l]
        /\ UNCHANGED <<stale, live, cartOf, cart, field, dbVars>>
    BY <1>2 DEF OrderConfirm, Goto, cartVars, TypeInv, TypeOK
  <2>2. ks \subseteq Ossans
    BY DEF Keys
  <2>3. /\ l \in Locals /\ l.todo = ks /\ l.ref = loc[r].ref
        /\ l.sess = loc[r].sess /\ "ord_sum" \in Places
    BY <1>0, <2>2 DEF Locals, Places, Iterating
  <2>4. pc'[r] = "ord_sum" /\ loc'[r] = l
    BY <2>1 DEF TypeInv, TypeOK
  <2> HIDE DEF l
  <2>5. LocalOK(r)'
    BY <1>0, <2>1, <2>3, <2>4 DEF LocalOK, HasItem, HasCart, Updating, Iterating
  <2>. QED  BY <1>0, <2>1, <2>3, <2>5, DbUnchanged, TypeLocalStep
<1>3. CASE SumItem(r)
  <2>1. PICK k \in loc[r].todo :
          loc' = [loc EXCEPT ![r].todo = @ \ {k},
                             ![r].total = @ + LineAmount(cart[loc[r].ref], k)]
    BY <1>3 DEF SumItem
  <2>2. /\ pc[r] = "ord_sum" /\ ~ stale[r]
        /\ UNCHANGED <<pc, stale, live, cartOf, cart, field, dbVars>>
    BY <1>3 DEF SumItem, cartVars
  <2> DEFINE t == loc[r].total + LineAmount(cart[loc[r].ref], k)
             l == [loc[r] EXCEPT !.todo = @ \ {k}, !.total = t]
  <2>3. /\ loc[r].ref \in Carts /\ k \in Ossans
        /\ loc[r].todo \subseteq Keys(cart[loc[r].ref])
    BY <1>0, <2>2 DEF LocalOK, HasCart, Iterating, Locals
  <2>4. LineAmount(cart[loc[r].ref], k) \in Int
    <3>1. cart[loc[r].ref][k] \in Int
      BY <2>3 DEF Keys, TypeInv, TypeOK, Items
    <3>. QED  BY <3>1 DEF LineAmount, UnitPrice
  <2>5. t \in Int
    BY <1>0, <2>4 DEF Locals
  <2>6. pc' = [pc EXCEPT ![r] = "ord_sum"] /\ loc' = [loc EXCEPT ![r] = l]
    BY <2>1, <2>2 DEF TypeInv, TypeOK
  <2> HIDE DEF t
  <2>7. /\ l \in Locals /\ l.todo \subseteq loc[r].todo /\ l.ref = loc[r].ref
        /\ l.sess = loc[r].sess /\ "ord_sum" \in Places
    BY <1>0, <2>5 DEF Locals, Places, Iterating
  <2>8. pc'[r] = "ord_sum" /\ loc'[r] = l
    BY <2>6 DEF TypeInv, TypeOK
  <2> HIDE DEF l
  <2>9. LocalOK(r)'
    BY <1>0, <2>2, <2>3, <2>7, <2>8 DEF LocalOK, HasItem, HasCart, Updating, Iterating
  <2>. QED  BY <1>0, <2>2, <2>6, <2>7, <2>9, DbUnchanged, TypeLocalStep
<1>4. CASE CopyStart(r)
  <2> DEFINE ks == Keys(cart[loc[r].ref])
             t == Taxed(loc[r].total)
             l == [loc[r] EXCEPT !.todo = ks, !.total = t]
  <2>1. /\ pc[r] = "ord_sum" /\ pc' = [pc EXCEPT ![r] = "ord_copy"]
        /\ loc' = [loc EXCEPT ![r] = l]
        /\ UNCHANGED <<stale, live, cartOf, cart, field, dbVars>>
    BY <1>4 DEF CopyStart, Goto, cartVars, TypeInv, TypeOK
  <2>2. ks \subseteq Ossans /\ t \in Int
    BY <1>0, TaxedType DEF Keys, Locals
  <2> HIDE DEF t
  <2>3. /\ l \in Locals /\ l.todo = ks /\ l.ref = loc[r].ref
        /\ l.sess = loc[r].sess /\ "ord_copy" \in Places
    BY <1>0, <2>2 DEF Locals, Places, Iterating
  <2>4. pc'[r] = "ord_copy" /\ loc'[r] = l
    BY <2>1 DEF TypeInv, TypeOK
  <2> HIDE DEF l
  <2>5. LocalOK(r)'
    BY <1>0, <2>1, <2>3, <2>4 DEF LocalOK, HasItem, HasCart, Updating, Iterating
  <2>. QED  BY <1>0, <2>1, <2>3, <2>5, DbUnchanged, TypeLocalStep
<1>5. CASE CopyItem(r)
  <2>1. PICK k \in loc[r].todo :
          loc' = [loc EXCEPT ![r].todo = @ \ {k},
                             ![r].items[k] = cart[loc[r].ref][k]]
    BY <1>5 DEF CopyItem
  <2>2. /\ pc[r] = "ord_copy" /\ ~ stale[r]
        /\ UNCHANGED <<pc, stale, live, cartOf, cart, field, dbVars>>
    BY <1>5 DEF CopyItem, cartVars
  <2> DEFINE i == [loc[r].items EXCEPT ![k] = cart[loc[r].ref][k]]
             l == [loc[r] EXCEPT !.todo = @ \ {k}, !.items = i]
  <2>3. /\ loc[r].ref \in Carts /\ k \in Ossans
        /\ loc[r].todo \subseteq Keys(cart[loc[r].ref])
    BY <1>0, <2>2 DEF LocalOK, HasCart, Iterating, Locals
  <2>4. i \in Items
    <3>1. cart[loc[r].ref] \in Items /\ loc[r].items \in Items
      BY <1>0, <2>3 DEF TypeInv, TypeOK, Locals
    <3>. QED  BY <2>3, <3>1 DEF Items
  <2>5. pc' = [pc EXCEPT ![r] = "ord_copy"] /\ loc' = [loc EXCEPT ![r] = l]
    <3>1. loc \in [Requests -> Locals]
      BY DEF TypeInv, TypeOK
    <3>. QED  BY <1>0, <2>1, <2>2, <3>1 DEF Locals, TypeInv, TypeOK
  <2> HIDE DEF i
  <2>6. /\ l \in Locals /\ l.todo \subseteq loc[r].todo /\ l.ref = loc[r].ref
        /\ l.sess = loc[r].sess /\ "ord_copy" \in Places
    BY <1>0, <2>4 DEF Locals, Places, Iterating
  <2>7. pc'[r] = "ord_copy" /\ loc'[r] = l
    BY <2>5 DEF TypeInv, TypeOK
  <2> HIDE DEF l
  <2>8. LocalOK(r)'
    BY <1>0, <2>2, <2>3, <2>6, <2>7 DEF LocalOK, HasItem, HasCart, Updating, Iterating
  <2>. QED  BY <1>0, <2>2, <2>5, <2>6, <2>8, DbUnchanged, TypeLocalStep
<1>6. CASE IterationFails(r)
  BY <1>6, DbUnchanged, TypeRespond DEF IterationFails, cartVars
<1>7. CASE ClearCart(r)
  BY <1>7, DbUnchanged, TypeRespond DEF ClearCart
<1>. QED  BY <1>1, <1>2, <1>3, <1>4, <1>5, <1>6, <1>7 DEF Order

(* What a transaction writes has the type of a row. *)
LEMMA RowTypes ==
  ASSUME NEW n \in Nat, NEW t \in Int, NEW items \in Items,
         NEW ks \in SUBSET Keys(items)
  PROVE  OrderRow(n, t) \in Row /\ ItemRows(n, items, ks) \subseteq Row
<1>1. OrderRow(n, t) \in Row
  BY DEF OrderRow, Row
<1>2. \A k \in ks : k \in Ossans /\ items[k] \in Int
  BY DEF Keys, Items
<1>3. \A k \in ks : ItemRow(n, k, items[k]) \in Row
  BY <1>2 DEF ItemRow, Row
<1>. QED  BY <1>1, <1>3 DEF ItemRows

LEMMA WriteType ==
  ASSUME TypeInv, NEW r \in Requests, NEW new \in SUBSET Row, Write(r, new)
  PROVE  rows' \subseteq Row /\ pend' \in [Requests -> SUBSET Row]
BY DEF Write, TypeInv, TypeOK

LEMMA CommitType ==
  ASSUME TypeInv, NEW r \in Requests, CommitPending(r)
  PROVE  rows' \subseteq Row /\ pend' \in [Requests -> SUBSET Row]
BY DEF CommitPending, TypeInv, TypeOK

(* The places of persistOrder where nothing but the type of loc matters.   *)
LEMMA TypeGotoTx ==
  ASSUME TypeInv, NEW r \in Requests, pc[r] \notin Updating \cup {"idle"},
         NEW p \in {"tx_order", "tx_rollback", "tx_done", "tx_failed", "ord_clear"},
         pc' = [pc EXCEPT ![r] = p],
         UNCHANGED <<loc, stale, live, cartOf, cart, field>>,
         DbOK'
  PROVE  TypeInv'
<1>1. p \in Places /\ p \notin HasItem \cup HasCart \cup Iterating
  BY DEF Places, HasItem, HasCart, Updating, Iterating, InTransaction
<1>. QED  BY <1>1, TypeGoto

LEMMA TypePersist ==
  ASSUME TypeInv, NEW r \in Requests, Persist(r)
  PROVE  TypeInv'
<1>0. loc[r] \in Locals /\ LocalOK(r) /\ field \in Sessions \cup {Null}
  BY DEF TypeInv, TypeOK
<1> DEFINE Quiet1 == UNCHANGED <<loc, stale, live, cartOf, cart, field>>
<1>1. CASE BeginTx(r)
  <2>1. /\ pc[r] = "ord_copy" /\ pc' = [pc EXCEPT ![r] = "tx_order"]
        /\ auto' = [auto EXCEPT ![r] = FALSE] /\ Quiet1
        /\ UNCHANGED <<rows, pend, nextNo, asked>>
    BY <1>1 DEF BeginTx, Goto, cartVars
  <2>2. DbOK'
    BY <2>1 DEF DbOK, TypeInv, TypeOK
  <2>. QED
    BY <2>1, <2>2, TypeGotoTx DEF Updating
<1>2. CASE ConnectFails(r)
  BY <1>2, DbUnchanged, TypeRespond DEF ConnectFails, cartVars
<1>3. CASE InsertOrderRow(r)
  <2> DEFINE items == loc[r].items
             new == OrderRow(nextNo, loc[r].total)
             all == ItemRows(nextNo, items, Keys(items))
             l == [loc[r] EXCEPT !.no = nextNo, !.todo = Keys(items)]
  <2>1. /\ pc[r] = "tx_order" /\ pc' = [pc EXCEPT ![r] = "tx_items"]
        /\ Write(r, {new}) /\ nextNo' = nextNo + 1
        /\ asked' = asked \cup {new} \cup all
        /\ loc' = [loc EXCEPT ![r] = l]
        /\ UNCHANGED <<stale, live, cartOf, cart, field, auto>>
    BY <1>3 DEF InsertOrderRow, Goto, cartVars, TypeInv, TypeOK, OrderRows
  <2>2. items \in Items /\ loc[r].total \in Int /\ nextNo \in Nat \ {0}
    BY <1>0 DEF Locals, TypeInv, TypeOK
  <2>3. new \in Row /\ all \subseteq Row
    BY <2>2, RowTypes
  <2> HIDE DEF new, all
  <2>4. rows' \subseteq Row /\ pend' \in [Requests -> SUBSET Row]
    BY <2>1, <2>3, WriteType
  <2>5. DbOK'
    <3>1. asked' \subseteq Row /\ nextNo' \in Nat \ {0} /\ auto' = auto
      BY <2>1, <2>2, <2>3 DEF TypeInv, TypeOK
    <3>. QED  BY <2>4, <3>1 DEF DbOK, TypeInv, TypeOK
  <2>6. Keys(items) \subseteq Ossans
    BY DEF Keys
  <2>7. /\ l \in Locals /\ l.todo = Keys(items) /\ l.items = items
        /\ l.sess = loc[r].sess /\ "tx_items" \in Places
    BY <1>0, <2>2, <2>6 DEF Locals, Places, InTransaction
  <2>8. pc'[r] = "tx_items" /\ loc'[r] = l
    BY <2>1 DEF TypeInv, TypeOK
  <2> HIDE DEF l
  <2>9. LocalOK(r)'
    BY <1>0, <2>1, <2>7, <2>8 DEF LocalOK, HasItem, HasCart, Updating, Iterating
  <2>. QED  BY <1>0, <2>1, <2>5, <2>7, <2>9, TypeLocalStep
<1>4. CASE InsertItemRow(r)
  <2>1. PICK k \in loc[r].todo :
          /\ Write(r, {ItemRow(loc[r].no, k, loc[r].items[k])})
          /\ loc' = [loc EXCEPT ![r].todo = @ \ {k}]
    BY <1>4 DEF InsertItemRow
  <2>2. /\ pc[r] = "tx_items"
        /\ UNCHANGED <<pc, stale, live, cartOf, cart, field, auto, nextNo, asked>>
    BY <1>4 DEF InsertItemRow, cartVars
  <2> DEFINE l == [loc[r] EXCEPT !.todo = @ \ {k}]
             new == ItemRow(loc[r].no, k, loc[r].items[k])
  <2>3. /\ loc[r].todo \subseteq Keys(loc[r].items)
        /\ loc[r].items \in Items /\ loc[r].no \in Nat
    BY <1>0, <2>2 DEF LocalOK, Locals
  <2>4. new \in Row
    BY <2>3 DEF ItemRow, Row, Keys, Items
  <2> HIDE DEF new
  <2>5. rows' \subseteq Row /\ pend' \in [Requests -> SUBSET Row]
    BY <2>1, <2>4, WriteType DEF new
  <2>6. DbOK'
    BY <2>2, <2>5 DEF DbOK, TypeInv, TypeOK
  <2>7. pc' = [pc EXCEPT ![r] = "tx_items"] /\ loc' = [loc EXCEPT ![r] = l]
    BY <2>1, <2>2 DEF TypeInv, TypeOK
  <2>8. /\ l \in Locals /\ l.todo \subseteq loc[r].todo /\ l.items = loc[r].items
        /\ l.sess = loc[r].sess /\ "tx_items" \in Places
    BY <1>0 DEF Locals, Places, InTransaction
  <2>9. pc'[r] = "tx_items" /\ loc'[r] = l
    BY <2>7 DEF TypeInv, TypeOK
  <2> HIDE DEF l
  <2>10. LocalOK(r)'
    BY <1>0, <2>2, <2>3, <2>8, <2>9 DEF LocalOK, HasItem, HasCart, Updating, Iterating
  <2>. QED  BY <1>0, <2>2, <2>6, <2>7, <2>8, <2>10, TypeLocalStep
<1>5. CASE InsertFails(r)
  <2>1. /\ pc[r] \in {"tx_order", "tx_items"}
        /\ pc' = [pc EXCEPT ![r] = "tx_rollback"] /\ Quiet1 /\ UNCHANGED dbVars
    BY <1>5 DEF InsertFails, cartVars
  <2>. QED
    BY <2>1, DbUnchanged, TypeGotoTx DEF Updating
<1>6. CASE Commit(r)
  <2>1. /\ pc[r] = "tx_items" /\ pc' = [pc EXCEPT ![r] = "tx_done"] /\ Quiet1
        /\ CommitPending(r) /\ UNCHANGED <<auto, nextNo, asked>>
    BY <1>6 DEF Commit, Goto, cartVars
  <2>2. DbOK'
    BY <2>1, CommitType DEF DbOK, TypeInv, TypeOK
  <2>. QED
    BY <2>1, <2>2, TypeGotoTx DEF Updating
<1>7. CASE CommitFails(r)
  <2>1. /\ pc[r] = "tx_items" /\ pc' = [pc EXCEPT ![r] = "tx_rollback"] /\ Quiet1
        /\ CommitPending(r) \/ UNCHANGED <<rows, pend>>
        /\ UNCHANGED <<auto, nextNo, asked>>
    BY <1>7 DEF CommitFails, Goto, cartVars
  <2>2. DbOK'
    BY <2>1, CommitType DEF DbOK, TypeInv, TypeOK
  <2>. QED
    BY <2>1, <2>2, TypeGotoTx DEF Updating
<1>8. CASE Rollback(r)
  <2>1. /\ pc[r] = "tx_rollback" /\ pc' = [pc EXCEPT ![r] = "tx_failed"] /\ Quiet1
        /\ pend' = [pend EXCEPT ![r] = {}] /\ UNCHANGED <<rows, auto, nextNo, asked>>
    BY <1>8 DEF Rollback, Goto, cartVars
  <2>2. DbOK'
    BY <2>1 DEF DbOK, TypeInv, TypeOK
  <2>. QED
    BY <2>1, <2>2, TypeGotoTx DEF Updating
<1>9. CASE RollbackFails(r)
  <2>1. DbOK'
    BY <1>9 DEF RollbackFails, DbOK, TypeInv, TypeOK
  <2>. QED  BY <1>9, <2>1, TypeRespond DEF RollbackFails, cartVars
<1>10. CASE CloseDone(r)
  <2>1. /\ pc[r] = "tx_done" /\ pc' = [pc EXCEPT ![r] = "ord_clear"] /\ Quiet1
        /\ CommitPending(r) /\ auto' = [auto EXCEPT ![r] = TRUE]
        /\ UNCHANGED <<nextNo, asked>>
    BY <1>10 DEF CloseDone, Goto, cartVars
  <2>2. DbOK'
    BY <2>1, CommitType DEF DbOK, TypeInv, TypeOK
  <2>. QED
    BY <2>1, <2>2, TypeGotoTx DEF Updating
<1>11. CASE CloseFailed(r)
  <2>1. CommitPending(r) /\ auto' = [auto EXCEPT ![r] = TRUE] /\ UNCHANGED <<nextNo, asked>>
    BY <1>11 DEF CloseFailed
  <2>2. DbOK'
    BY <2>1, CommitType DEF DbOK, TypeInv, TypeOK
  <2>. QED  BY <1>11, <2>2, TypeRespond DEF CloseFailed, cartVars
<1>12. CASE CloseThrows(r)
  <2>1. CommitPending(r) /\ auto' = [auto EXCEPT ![r] = TRUE] /\ UNCHANGED <<nextNo, asked>>
    BY <1>12 DEF CloseThrows
  <2>2. DbOK'
    BY <2>1, CommitType DEF DbOK, TypeInv, TypeOK
  <2>. QED  BY <1>12, <2>2, TypeRespond DEF CloseThrows, cartVars
<1>13. CASE RollbackRefused(r)
  <2>1. /\ pc[r] = "tx_rollback" /\ pc' = [pc EXCEPT ![r] = "tx_failed"] /\ Quiet1
        /\ UNCHANGED dbVars
    BY <1>13 DEF RollbackRefused, Goto, cartVars
  <2>. QED
    BY <2>1, DbUnchanged, TypeGotoTx DEF Updating
<1>. QED
  BY <1>1, <1>2, <1>3, <1>4, <1>5, <1>6, <1>7, <1>8, <1>9, <1>10, <1>11, <1>12, <1>13
  DEF Persist

(* Abort and logout move no thread. *)
LEMMA TypeSession ==
  ASSUME TypeInv,
         \/ \E s \in Sessions : Abort(s) \/ Invalidate(s)
         \/ UNCHANGED vars
  PROVE  TypeInv'
<1>1. /\ UNCHANGED <<pc, loc, stale, cart, dbVars>>
      /\ live' \subseteq live /\ field' = field
      /\ cartOf' = cartOf \/ \E s \in Sessions : cartOf' = [cartOf EXCEPT ![s] = Null]
  BY DEF Abort, Invalidate, vars, dbVars
<1>2. TypeOK'
  BY <1>1 DEF TypeInv, TypeOK, dbVars
<1>3. \A q \in Requests : LocalOK(q)'
  BY <1>1 DEF TypeInv, LocalOK
<1>. QED  BY <1>2, <1>3 DEF TypeInv

(* No step takes a variable out of its type: in particular getSubtotal()   *)
(* and the copy never multiply or store a quantity that is not there, and  *)
(* the attribute of a session is always a cart made for that session.      *)
LEMMA TypeNext == TypeInv /\ [Next]_vars => TypeInv'
<1> SUFFICES ASSUME TypeInv, [Next]_vars
             PROVE  TypeInv'
  OBVIOUS
<1>1. ASSUME NEW r \in Requests, Arrive(r)
      PROVE  TypeInv'
  BY <1>1, TypeBuyArrive, TypeUpdateArrive, TypeOrderArrive DEF Arrive
<1>2. ASSUME NEW r \in Requests, Handle(r)
      PROVE  TypeInv'
  BY <1>2, TypeBuy, TypeUpdate, TypeOrder, TypePersist DEF Handle
<1>3. ASSUME NEW r \in Requests, Stray(r)
      PROVE  TypeInv'
  BY <1>3, TypeNoSession DEF Stray
<1>. QED  BY <1>1, <1>2, <1>3, TypeSession DEF Next

THEOREM Invariance == Spec => []TypeInv
BY TypeInit, TypeNext, PTL DEF Spec

(* Every variable keeps its type. *)
THEOREM Typing == Spec => []TypeOK
<1>1. TypeInv => TypeOK
  BY DEF TypeInv
<1>. QED  BY <1>1, Invariance, PTL

-----------------------------------------------------------------------------
(* The transaction.  What makes a commit show a whole order is known only  *)
(* along the way: which rows are pending, that nobody else uses the number *)
(* of the order, and that auto-commit is off while rows are inserted.  A   *)
(* rollback() that throws must have cost the connection.                   *)

Undone == "refused" \notin Faults

(* The rows of the order that request r is saving. *)
Wanted(r) == OrderRows(loc[r].no, loc[r].total, loc[r].items)

Numbered ==
  /\ \A x \in asked : x.no < nextNo
  /\ rows \subseteq asked

TxLocal(r) ==
  /\ pc[r] \notin {"tx_items", "tx_rollback"} => pend[r] = {}
  /\ pc[r] \in {"tx_order", "tx_items"} => ~ auto[r]
  /\ pc[r] = "tx_items" =>
       /\ loc[r].no < nextNo
       /\ RowsOf(asked, loc[r].no) = Wanted(r)
       /\ RowsOf(rows, loc[r].no) = {}
       /\ pend[r] \cup ItemRows(loc[r].no, loc[r].items, loc[r].todo) = Wanted(r)
  /\ pc[r] \in {"tx_done", "ord_clear"} => Wanted(r) \subseteq rows

OwnNumbers ==
  \A r, q \in Requests :
    r # q /\ pc[r] = "tx_items" /\ pc[q] = "tx_items" => loc[r].no # loc[q].no

TxInv ==
  /\ Numbered
  /\ AllOrNothing
  /\ OwnNumbers
  /\ \A r \in Requests : TxLocal(r)

LEMMA TxInit == Init => TxInv
BY DEF Init, TxInv, Numbered, AllOrNothing, OwnNumbers, TxLocal

(* The rows of an order carry its number; only the first is no item.       *)
LEMMA OrderRowsFacts ==
  ASSUME NEW n, NEW total, NEW items
  PROVE  /\ \A x \in OrderRows(n, total, items) : x.no = n
         /\ OrderRow(n, total) \in OrderRows(n, total, items)
         /\ OrderRow(n, total).ossan = Null
         /\ \A x \in OrderRows(n, total, items) :
              x.ossan = Null => x = OrderRow(n, total)
<1>1. OrderRow(n, total).no = n /\ OrderRow(n, total).ossan = Null
  BY DEF OrderRow
<1>2. \A k : ItemRow(n, k, items[k]).no = n /\ ItemRow(n, k, items[k]).ossan = k
  BY DEF ItemRow
<1>3. \A k \in Keys(items) : k # Null
  BY CartAssumption DEF Keys
<1>4. \A x \in ItemRows(n, items, Keys(items)) : x.no = n /\ x.ossan # Null
  BY <1>2, <1>3 DEF ItemRows
<1>. QED  BY <1>1, <1>4 DEF OrderRows

(* Request r moves; the number, the rows and the mode of every other       *)
(* request stay as they were.                                              *)
LEMMA TxStep ==
  ASSUME TypeInv, TypeInv', TxInv, NEW r \in Requests,
         \A q \in Requests : q # r =>
           /\ pc'[q] = pc[q] /\ loc'[q] = loc[q]
           /\ pend'[q] = pend[q] /\ auto'[q] = auto[q]
           /\ pc[q] = "tx_items" =>
                /\ RowsOf(asked', loc[q].no) = RowsOf(asked, loc[q].no)
                /\ RowsOf(rows', loc[q].no) = RowsOf(rows, loc[q].no)
                /\ pc'[r] = "tx_items" => loc'[r].no # loc[q].no,
         rows \subseteq rows', nextNo' \in {nextNo, nextNo + 1},
         Numbered', AllOrNothing', TxLocal(r)'
  PROVE  TxInv'
<1>1. OwnNumbers'
  BY DEF TxInv, OwnNumbers
<1>2. ASSUME NEW q \in Requests, q # r
      PROVE  TxLocal(q)'
  <2>1. /\ pc'[q] = pc[q] /\ loc'[q] = loc[q]
        /\ pend'[q] = pend[q] /\ auto'[q] = auto[q]
    BY <1>2
  <2>2. TxLocal(q)
    BY DEF TxInv
  <2>3. Wanted(q)' = Wanted(q)
    BY <2>1 DEF Wanted
  <2>4. pc[q] = "tx_items" => loc[q].no < nextNo'
    BY <2>2 DEF TxLocal, TypeInv, TypeOK, Locals
  <2>5. pc[q] = "tx_items" =>
          /\ RowsOf(asked', loc[q].no) = RowsOf(asked, loc[q].no)
          /\ RowsOf(rows', loc[q].no) = RowsOf(rows, loc[q].no)
    BY <1>2
  <2>. QED  BY <2>1, <2>2, <2>3, <2>4, <2>5 DEF TxLocal
<1>. QED  BY <1>1, <1>2 DEF TxInv

(* Neither before nor after the step is r in its transaction.              *)
LEMMA TxOutside ==
  ASSUME TypeInv, TypeInv', TxInv, NEW r \in Requests,
         UNCHANGED dbVars,
         \A q \in Requests : q # r => pc'[q] = pc[q] /\ loc'[q] = loc[q],
         pc[r] \notin InTransaction,
         pc'[r] \notin InTransaction \cup {"ord_clear"}
  PROVE  TxInv'
<1>1. UNCHANGED <<rows, pend, auto, nextNo, asked>>
  BY DEF dbVars
<1>2. TxLocal(r)'
  BY <1>1 DEF TxInv, TxLocal, InTransaction
<1>3. Numbered' /\ AllOrNothing'
  BY <1>1 DEF TxInv, Numbered, AllOrNothing, RowsOf
<1>4. ASSUME NEW q \in Requests, q # r
      PROVE  /\ pend'[q] = pend[q] /\ auto'[q] = auto[q]
             /\ RowsOf(asked', loc[q].no) = RowsOf(asked, loc[q].no)
             /\ RowsOf(rows', loc[q].no) = RowsOf(rows, loc[q].no)
             /\ pc'[r] # "tx_items"
  BY <1>1 DEF InTransaction
<1>. QED  BY <1>1, <1>2, <1>3, <1>4, TxStep

(* The handlers outside persistOrder move only their own thread.           *)
LEMMA OutsideSteps ==
  ASSUME TypeInv, NEW r \in Requests,
         Arrive(r) \/ Stray(r) \/ Buy(r) \/ Update(r) \/ Order(r) \/ ConnectFails(r)
  PROVE  /\ UNCHANGED dbVars
         /\ \A q \in Requests : q # r => pc'[q] = pc[q] /\ loc'[q] = loc[q]
         /\ pc[r] \notin InTransaction
         /\ pc'[r] \notin InTransaction \cup {"ord_clear"}
<1>0. pc \in [Requests -> Places] /\ loc \in [Requests -> Locals]
  BY DEF TypeInv, TypeOK
<1>1. CASE Arrive(r) \/ Stray(r)
  BY <1>0, <1>1 DEF Arrive, Stray, BuyArrive, UpdateArrive, UpdateNoSession, OrderArrive,
                    Arrives, InTransaction
<1>2. CASE Buy(r)
  BY <1>0, <1>2 DEF Buy, BuyNewCart, BuyNewCartFails, AddNothing, AddLook, AddPut,
                    AddSum, Respond, InTransaction
<1>3. CASE Update(r)
  BY <1>0, <1>3 DEF Update, UpdateCheck, UpdateGet, UpdateDelete,
                    UpdateModify, Respond, InTransaction
<1>4. CASE OrderCancel(r) \/ OrderConfirm(r) \/ CopyStart(r)
  BY <1>0, <1>4 DEF OrderCancel, OrderConfirm, CopyStart, Respond, Goto, InTransaction
<1>5. CASE SumItem(r) \/ CopyItem(r)
  BY <1>0, <1>5 DEF SumItem, CopyItem, InTransaction
<1>6. CASE IterationFails(r) \/ ClearCart(r)
  BY <1>0, <1>6 DEF IterationFails, ClearCart, Respond, Iterating, InTransaction
<1>7. CASE ConnectFails(r)
  BY <1>0, <1>7 DEF ConnectFails, Respond, InTransaction
<1>. QED  BY <1>1, <1>2, <1>3, <1>4, <1>5, <1>6, <1>7 DEF Order

(* A handler moves only its own thread.                                    *)
LEMMA HandleMoves ==
  ASSUME TypeInv, NEW r \in Requests, Handle(r)
  PROVE  /\ pc[r] # "idle"
         /\ \A q \in Requests : q # r => pc'[q] = pc[q] /\ loc'[q] = loc[q]
<1>0. pc \in [Requests -> Places] /\ loc \in [Requests -> Locals]
  BY DEF TypeInv, TypeOK
<1>1. CASE Buy(r)
  BY <1>0, <1>1 DEF Buy, BuyNewCart, BuyNewCartFails, AddNothing, AddLook, AddPut,
                    AddSum, Respond
<1>2. CASE Update(r)
  BY <1>0, <1>2 DEF Update, UpdateCheck, UpdateGet, UpdateDelete,
                    UpdateModify, Respond
<1>3. CASE Order(r)
  BY <1>0, <1>3 DEF Order, OrderCancel, OrderConfirm, CopyStart, SumItem, CopyItem,
                    IterationFails, ClearCart, Iterating, Respond, Goto
<1>4. CASE BeginTx(r) \/ ConnectFails(r) \/ InsertOrderRow(r) \/ InsertItemRow(r) \/ InsertFails(r)
  BY <1>0, <1>4 DEF BeginTx, ConnectFails, InsertOrderRow, InsertItemRow, InsertFails,
                    Respond, Goto
<1>5. CASE Commit(r) \/ CommitFails(r) \/ Rollback(r) \/ RollbackFails(r)
           \/ RollbackRefused(r)
  BY <1>0, <1>5 DEF Commit, CommitFails, Rollback, RollbackFails, RollbackRefused,
                    Respond, Goto
<1>6. CASE CloseDone(r) \/ CloseFailed(r) \/ CloseThrows(r)
  BY <1>0, <1>6 DEF CloseDone, CloseFailed, CloseThrows, Respond, Goto
<1>. QED  BY <1>1, <1>2, <1>3, <1>4, <1>5, <1>6 DEF Handle, Persist

(* The row of ossanorders takes a number that no row has had.              *)
LEMMA TxInsertOrderRow ==
  ASSUME TypeInv, TypeInv', TxInv, NEW r \in Requests, InsertOrderRow(r)
  PROVE  /\ TxInv'
         /\ asked' = asked \cup Wanted(r)' /\ asked \cap Wanted(r)' = {}
         /\ RowsOf(asked, nextNo) = {} /\ loc'[r].no = nextNo
         /\ UNCHANGED rows
<1> DEFINE n == nextNo
           new == OrderRow(n, loc[r].total)
           all == ItemRows(n, loc[r].items, Keys(loc[r].items))
<1>1. /\ pc[r] = "tx_order" /\ pc' = [pc EXCEPT ![r] = "tx_items"]
      /\ Write(r, {new}) /\ nextNo' = n + 1
      /\ asked' = asked \cup {new} \cup all
      /\ loc' = [loc EXCEPT ![r].no = n, ![r].todo = Keys(loc[r].items)]
      /\ auto' = auto
  BY DEF InsertOrderRow, Goto, OrderRows
<1>2. /\ pend[r] = {} /\ ~ auto[r]
      /\ Numbered /\ AllOrNothing /\ \A q \in Requests : TxLocal(q)
  BY <1>1 DEF TxInv, TxLocal
<1>3. rows' = rows /\ pend' = [pend EXCEPT ![r] = {new}]
  BY <1>1, <1>2 DEF Write, TypeInv, TypeOK
<1>4. /\ pc'[r] = "tx_items" /\ loc'[r].no = n /\ loc'[r].todo = Keys(loc[r].items)
      /\ loc'[r].total = loc[r].total /\ loc'[r].items = loc[r].items
      /\ pend'[r] = {new} /\ auto'[r] = auto[r]
  <2>1. loc[r] \in Locals
    BY DEF TypeInv, TypeOK
  <2>. QED  BY <1>1, <1>3, <2>1 DEF Locals, TypeInv, TypeOK
<1>5. Wanted(r)' = {new} \cup all
  BY <1>4 DEF Wanted, OrderRows
<1> HIDE DEF new, all
<1>6. \A x \in Wanted(r)' : x.no = n
  BY <1>4, OrderRowsFacts DEF Wanted
<1>7. /\ n \in Nat \ {0} /\ \A x \in asked : x.no \in Nat /\ x.no < n
      /\ rows \subseteq asked
  BY <1>2 DEF Numbered, TypeInv, TypeOK, Row
<1>8. RowsOf(asked, n) = {} /\ asked \cap Wanted(r)' = {} /\ asked' = asked \cup Wanted(r)'
  BY <1>1, <1>5, <1>6, <1>7 DEF RowsOf
<1>9. \A m : m # n => RowsOf(asked', m) = RowsOf(asked, m)
  BY <1>6, <1>8 DEF RowsOf
<1>10. RowsOf(asked', n) = Wanted(r)' /\ RowsOf(rows', n) = {}
  BY <1>3, <1>6, <1>7, <1>8 DEF RowsOf
<1>11. Numbered'
  BY <1>1, <1>3, <1>6, <1>7, <1>8 DEF Numbered
<1>12. AllOrNothing'
  BY <1>2, <1>3, <1>7, <1>9 DEF AllOrNothing
<1>13. TxLocal(r)'
  <2>1. pend'[r] \cup ItemRows(loc'[r].no, loc'[r].items, loc'[r].todo) = Wanted(r)'
    BY <1>4, <1>5 DEF new, all
  <2>2. loc'[r].no < nextNo'
    BY <1>1, <1>4, <1>7
  <2>. QED  BY <1>2, <1>4, <1>10, <2>1, <2>2 DEF TxLocal
<1>14. ASSUME NEW q \in Requests, q # r
       PROVE  /\ pc'[q] = pc[q] /\ loc'[q] = loc[q]
              /\ pend'[q] = pend[q] /\ auto'[q] = auto[q]
              /\ pc[q] = "tx_items" =>
                   /\ RowsOf(asked', loc[q].no) = RowsOf(asked, loc[q].no)
                   /\ RowsOf(rows', loc[q].no) = RowsOf(rows, loc[q].no)
                   /\ pc'[r] = "tx_items" => loc'[r].no # loc[q].no
  <2>1. pc'[q] = pc[q] /\ loc'[q] = loc[q] /\ pend'[q] = pend[q] /\ auto'[q] = auto[q]
    BY <1>1, <1>3, <1>14 DEF TypeInv, TypeOK
  <2>2. pc[q] = "tx_items" => loc[q].no # n
    BY <1>2, <1>7 DEF TxLocal, TypeInv, TypeOK, Locals
  <2>. QED  BY <1>3, <1>4, <1>9, <2>1, <2>2
<1>15. TxInv'
  BY <1>1, <1>3, <1>11, <1>12, <1>13, <1>14, TxStep
<1>. QED  BY <1>3, <1>4, <1>8, <1>15

(* An item joins the pending rows of its order.                            *)
LEMMA TxInsertItemRow ==
  ASSUME TypeInv, TypeInv', TxInv, NEW r \in Requests, InsertItemRow(r)
  PROVE  TxInv' /\ UNCHANGED <<rows, asked>>
<1>1. PICK k \in loc[r].todo :
        /\ Write(r, {ItemRow(loc[r].no, k, loc[r].items[k])})
        /\ loc' = [loc EXCEPT ![r].todo = @ \ {k}]
  BY DEF InsertItemRow
<1> DEFINE new == ItemRow(loc[r].no, k, loc[r].items[k])
<1>2. pc[r] = "tx_items" /\ UNCHANGED <<pc, auto, nextNo, asked>>
  BY DEF InsertItemRow
<1>3. TxLocal(r) /\ Numbered /\ AllOrNothing /\ OwnNumbers /\ ~ auto[r]
  BY <1>2 DEF TxInv, TxLocal
<1>4. rows' = rows /\ pend' = [pend EXCEPT ![r] = @ \cup {new}]
  BY <1>1, <1>3 DEF Write
<1>5. /\ loc'[r].todo = loc[r].todo \ {k} /\ loc'[r].no = loc[r].no
      /\ loc'[r].total = loc[r].total /\ loc'[r].items = loc[r].items
      /\ pend'[r] = pend[r] \cup {new}
  <2>1. loc[r] \in Locals
    BY DEF TypeInv, TypeOK
  <2>. QED  BY <1>1, <1>4, <2>1 DEF Locals, TypeInv, TypeOK
<1>6. Wanted(r)' = Wanted(r)
  BY <1>5 DEF Wanted
<1>7. pend'[r] \cup ItemRows(loc'[r].no, loc'[r].items, loc'[r].todo) = Wanted(r)'
  <2>1. ItemRows(loc[r].no, loc[r].items, loc[r].todo) =
          {new} \cup ItemRows(loc[r].no, loc[r].items, loc[r].todo \ {k})
    BY <1>1 DEF ItemRows
  <2>2. pend[r] \cup ItemRows(loc[r].no, loc[r].items, loc[r].todo) = Wanted(r)
    BY <1>2, <1>3 DEF TxLocal
  <2> HIDE DEF new
  <2>. QED  BY <1>5, <1>6, <2>1, <2>2
<1>8. TxLocal(r)'
  BY <1>2, <1>3, <1>4, <1>5, <1>6, <1>7 DEF TxLocal
<1>9. Numbered' /\ AllOrNothing'
  BY <1>2, <1>3, <1>4 DEF Numbered, AllOrNothing, RowsOf
<1>10. ASSUME NEW q \in Requests, q # r
       PROVE  /\ pc'[q] = pc[q] /\ loc'[q] = loc[q]
              /\ pend'[q] = pend[q] /\ auto'[q] = auto[q]
              /\ pc[q] = "tx_items" =>
                   /\ RowsOf(asked', loc[q].no) = RowsOf(asked, loc[q].no)
                   /\ RowsOf(rows', loc[q].no) = RowsOf(rows, loc[q].no)
                   /\ pc'[r] = "tx_items" => loc'[r].no # loc[q].no
  <2>1. pc'[q] = pc[q] /\ loc'[q] = loc[q] /\ pend'[q] = pend[q] /\ auto'[q] = auto[q]
    BY <1>1, <1>2, <1>4, <1>10 DEF TypeInv, TypeOK
  <2>2. pc[q] = "tx_items" => loc'[r].no # loc[q].no
    BY <1>2, <1>3, <1>5, <1>10 DEF OwnNumbers
  <2>. QED  BY <1>2, <1>4, <2>1, <2>2
<1>11. TxInv'
  BY <1>2, <1>4, <1>8, <1>9, <1>10, TxStep
<1>. QED  BY <1>2, <1>4, <1>11

(* The commit shows all rows of one order, of which none was shown before. *)
LEMMA TxCommit ==
  ASSUME TypeInv, TypeInv', TxInv, NEW r \in Requests,
         pc[r] = "tx_items", loc[r].todo = {}, CommitPending(r),
         NEW p \in {"tx_done", "tx_rollback"}, pc' = [pc EXCEPT ![r] = p],
         UNCHANGED <<loc, auto, nextNo, asked>>
  PROVE  /\ TxInv'
         /\ rows' = rows \cup RowsOf(asked, loc[r].no)
         /\ RowsOf(rows, loc[r].no) = {}
         /\ RowsOf(asked, loc[r].no) = Wanted(r)
<1> DEFINE n == loc[r].no
<1>1. /\ RowsOf(asked, n) = Wanted(r) /\ RowsOf(rows, n) = {}
      /\ pend[r] \cup ItemRows(n, loc[r].items, loc[r].todo) = Wanted(r)
  BY DEF TxInv, TxLocal
<1>2. Numbered /\ AllOrNothing /\ OwnNumbers
  BY DEF TxInv
<1>3. pend[r] = Wanted(r)
  BY <1>1 DEF ItemRows
<1>4. rows' = rows \cup Wanted(r) /\ pend' = [pend EXCEPT ![r] = {}]
  BY <1>3 DEF CommitPending
<1>5. \A x \in Wanted(r) : x.no = n
  BY OrderRowsFacts DEF Wanted
<1>6. \A m : m # n => RowsOf(rows', m) = RowsOf(rows, m)
  BY <1>4, <1>5 DEF RowsOf
<1>7. RowsOf(rows', n) = Wanted(r)
  BY <1>1, <1>4, <1>5 DEF RowsOf
<1>8. Numbered'
  BY <1>1, <1>2, <1>4 DEF Numbered, RowsOf
<1>9. AllOrNothing'
  <2> SUFFICES ASSUME NEW x \in rows'
               PROVE  RowsOf(rows', x.no) = RowsOf(asked', x.no)
    BY DEF AllOrNothing
  <2>1. CASE x.no = n
    BY <1>1, <1>7, <2>1
  <2>2. CASE x.no # n
    BY <1>2, <1>4, <1>5, <1>6, <2>2 DEF AllOrNothing
  <2>. QED  BY <2>1, <2>2
<1>10. Wanted(r)' = Wanted(r) /\ pc'[r] = p /\ pend'[r] = {}
  BY <1>4 DEF Wanted, TypeInv, TypeOK
<1>11. TxLocal(r)'
  BY <1>4, <1>10 DEF TxLocal
<1>12. ASSUME NEW q \in Requests, q # r
       PROVE  /\ pc'[q] = pc[q] /\ loc'[q] = loc[q]
              /\ pend'[q] = pend[q] /\ auto'[q] = auto[q]
              /\ pc[q] = "tx_items" =>
                   /\ RowsOf(asked', loc[q].no) = RowsOf(asked, loc[q].no)
                   /\ RowsOf(rows', loc[q].no) = RowsOf(rows, loc[q].no)
                   /\ pc'[r] = "tx_items" => loc'[r].no # loc[q].no
  <2>1. pc'[q] = pc[q] /\ loc'[q] = loc[q] /\ pend'[q] = pend[q] /\ auto'[q] = auto[q]
    BY <1>4, <1>12 DEF TypeInv, TypeOK
  <2>2. pc[q] = "tx_items" => n # loc[q].no
    BY <1>2, <1>12 DEF OwnNumbers
  <2>. QED  BY <1>6, <1>10, <2>1, <2>2
<1>13. TxInv'
  BY <1>4, <1>8, <1>9, <1>11, <1>12, TxStep
<1>. QED  BY <1>1, <1>4, <1>13

(* The other steps of persistOrder show nothing and ask for nothing.       *)
LEMMA TxHidden ==
  ASSUME TypeInv, TypeInv', TxInv, NEW r \in Requests,
         \A q \in Requests : q # r =>
           /\ pc'[q] = pc[q] /\ loc'[q] = loc[q]
           /\ pend'[q] = pend[q] /\ auto'[q] = auto[q],
         pc'[r] # "tx_items", UNCHANGED <<rows, nextNo, asked>>, TxLocal(r)'
  PROVE  TxInv'
<1>1. Numbered' /\ AllOrNothing'
  BY DEF TxInv, Numbered, AllOrNothing, RowsOf
<1>. QED  BY <1>1, TxStep

LEMMA TxEnds ==
  ASSUME TypeInv, TypeInv', TxInv, NEW r \in Requests,
         \/ BeginTx(r) \/ InsertFails(r) \/ Rollback(r) \/ RollbackFails(r)
         \/ CloseDone(r) \/ CloseFailed(r) \/ CloseThrows(r)
  PROVE  TxInv' /\ UNCHANGED <<rows, asked>>
<1>0. TxLocal(r)
  BY DEF TxInv
<1>1. /\ UNCHANGED <<nextNo, asked>>
      /\ \A q \in Requests : q # r =>
           /\ pc'[q] = pc[q] /\ loc'[q] = loc[q]
           /\ pend'[q] = pend[q] /\ auto'[q] = auto[q]
  BY DEF BeginTx, InsertFails, Rollback, RollbackFails, CloseDone, CloseFailed,
         CloseThrows, Goto, Respond, CommitPending, dbVars, TypeInv, TypeOK
<1>2. /\ UNCHANGED rows
      /\ pc'[r] # "tx_items"
      /\ pc'[r] \notin {"tx_items", "tx_rollback"} => pend'[r] = {}
      /\ pc'[r] = "tx_order" => ~ auto'[r]
      /\ pc'[r] \in {"tx_done", "ord_clear"} => loc'[r] = loc[r] /\ pc[r] = "tx_done"
  <2>1. CASE BeginTx(r)
    BY <1>0, <2>1 DEF BeginTx, Goto, TxLocal, TypeInv, TypeOK
  <2>2. CASE InsertFails(r)
    BY <2>2 DEF InsertFails, dbVars, TypeInv, TypeOK
  <2>3. CASE Rollback(r)
    BY <2>3 DEF Rollback, Goto, TypeInv, TypeOK
  <2>4. CASE RollbackFails(r)
    BY <2>4 DEF RollbackFails, Respond, TypeInv, TypeOK
  <2>5. CASE CloseDone(r)
    BY <1>0, <2>5 DEF CloseDone, Goto, CommitPending, TxLocal, TypeInv, TypeOK
  <2>6. CASE CloseFailed(r)
    BY <1>0, <2>6 DEF CloseFailed, Respond, CommitPending, TxLocal, TypeInv, TypeOK
  <2>7. CASE CloseThrows(r)
    BY <1>0, <2>7 DEF CloseThrows, Respond, CommitPending, TxLocal, TypeInv, TypeOK
  <2>. QED  BY <2>1, <2>2, <2>3, <2>4, <2>5, <2>6, <2>7
<1>3. pc'[r] \in {"tx_done", "ord_clear"} => Wanted(r)' \subseteq rows'
  BY <1>0, <1>2 DEF TxLocal, Wanted
<1>4. TxLocal(r)'
  BY <1>2, <1>3 DEF TxLocal
<1>. QED  BY <1>1, <1>2, <1>4, TxHidden

LEMMA TxNext == Undone /\ TypeInv /\ TypeInv' /\ TxInv /\ [Next]_vars => TxInv'
<1> SUFFICES ASSUME Undone, TypeInv, TypeInv', TxInv, [Next]_vars
             PROVE  TxInv'
  OBVIOUS
<1>1. ASSUME NEW r \in Requests,
             Arrive(r) \/ Stray(r) \/ Buy(r) \/ Update(r) \/ Order(r) \/ ConnectFails(r)
      PROVE  TxInv'
  BY <1>1, OutsideSteps, TxOutside
<1>2. ASSUME NEW r \in Requests, Commit(r) \/ CommitFails(r)
      PROVE  TxInv'
  <2>1. CASE Commit(r) \/ (CommitFails(r) /\ CommitPending(r))
    BY <2>1, TxCommit DEF Commit, CommitFails, Goto, cartVars
  <2>2. CASE CommitFails(r) /\ UNCHANGED <<rows, pend>>
    <3>1. /\ pc[r] = "tx_items" /\ pc' = [pc EXCEPT ![r] = "tx_rollback"]
          /\ UNCHANGED <<loc, rows, pend, auto, nextNo, asked>>
      BY <2>2 DEF CommitFails, Goto
    <3>2. pc'[r] = "tx_rollback" /\ \A q \in Requests : q # r => pc'[q] = pc[q]
      BY <3>1 DEF TypeInv, TypeOK
    <3>3. TxLocal(r)'
      BY <3>2 DEF TxLocal
    <3>. QED  BY <3>1, <3>2, <3>3, TxHidden
  <2>. QED  BY <1>2, <2>1, <2>2 DEF CommitFails
<1>3. ASSUME NEW r \in Requests, Persist(r)
      PROVE  TxInv'
  BY <1>1, <1>2, <1>3, TxInsertOrderRow, TxInsertItemRow, TxEnds
  DEF Persist, RollbackRefused, Undone
<1>4. ASSUME \/ \E s \in Sessions : Abort(s) \/ Invalidate(s)
             \/ UNCHANGED vars
      PROVE  TxInv'
  <2>1. UNCHANGED <<pc, loc, rows, pend, auto, nextNo, asked>>
    BY <1>4 DEF Abort, Invalidate, vars, dbVars
  <2>. QED
    BY <2>1 DEF TxInv, Numbered, AllOrNothing, OwnNumbers, TxLocal, Wanted, RowsOf
<1>. QED  BY <1>1, <1>3, <1>4 DEF Next, Handle

THEOREM TxInvariance == Undone => (Spec => []TxInv)
<1> SUFFICES ASSUME Undone
             PROVE  Spec => []TxInv
  OBVIOUS
<1>1. Init => TypeInv /\ TxInv
  BY TypeInit, TxInit
<1>2. TypeInv /\ TxInv /\ [Next]_vars => (TypeInv /\ TxInv)'
  BY TypeNext, TxNext
<1>. QED  BY <1>1, <1>2, PTL DEF Spec

(* The database never shows a part of an order, whatever fails, as long as *)
(* what has been written does not outlive a rollback().                    *)
THEOREM Atomicity == Undone => (Spec => []AllOrNothing)
<1>1. TxInv => AllOrNothing
  BY DEF TxInv
<1>. QED  BY <1>1, TxInvariance, PTL

-----------------------------------------------------------------------------
(* The order of commit and removal.  Every row of an order is visible, or  *)
(* pending, or still to be inserted; this needs no rollback.               *)

Kept(r) ==
  /\ pc[r] = "tx_items" =>
       Wanted(r) \subseteq rows \cup pend[r]
                           \cup ItemRows(loc[r].no, loc[r].items, loc[r].todo)
  /\ pc[r] \in {"tx_done", "ord_clear"} => Wanted(r) \subseteq rows

(* The rows that become visible stay, and what r writes is its own order's. *)
LEMMA KeptOwn ==
  ASSUME TypeInv, NEW r \in Requests, Kept(r), Persist(r)
  PROVE  Kept(r)'
<1>0. /\ pc \in [Requests -> Places] /\ loc \in [Requests -> Locals] /\ loc[r] \in Locals
      /\ pend \in [Requests -> SUBSET Row]
  BY DEF TypeInv, TypeOK
<1>1. CASE InsertOrderRow(r)
  <2> DEFINE new == OrderRow(nextNo, loc[r].total)
  <2>1. /\ Write(r, {new}) /\ pc'[r] = "tx_items"
        /\ loc' = [loc EXCEPT ![r].no = nextNo, ![r].todo = Keys(loc[r].items)]
    BY <1>0, <1>1 DEF InsertOrderRow, Goto
  <2>2. /\ loc'[r].no = nextNo /\ loc'[r].todo = Keys(loc[r].items)
        /\ loc'[r].total = loc[r].total /\ loc'[r].items = loc[r].items
    BY <1>0, <2>1 DEF Locals
  <2>3. new \in rows' \cup pend'[r]
    BY <1>0, <2>1 DEF Write
  <2>. QED  BY <2>1, <2>2, <2>3 DEF Kept, Wanted, OrderRows
<1>2. CASE InsertItemRow(r)
  <2>1. PICK k \in loc[r].todo :
          /\ Write(r, {ItemRow(loc[r].no, k, loc[r].items[k])})
          /\ loc' = [loc EXCEPT ![r].todo = @ \ {k}]
    BY <1>2 DEF InsertItemRow
  <2> DEFINE new == ItemRow(loc[r].no, k, loc[r].items[k])
  <2>2. /\ loc'[r].no = loc[r].no /\ loc'[r].todo = loc[r].todo \ {k}
        /\ loc'[r].total = loc[r].total /\ loc'[r].items = loc[r].items
        /\ pc[r] = "tx_items" /\ pc'[r] = pc[r]
    BY <1>0, <1>2, <2>1 DEF InsertItemRow, Locals
  <2>3. rows \cup pend[r] \cup {new} \subseteq rows' \cup pend'[r]
    BY <1>0, <2>1 DEF Write
  <2>4. ItemRows(loc[r].no, loc[r].items, loc[r].todo) =
          {new} \cup ItemRows(loc[r].no, loc[r].items, loc[r].todo \ {k})
    BY <2>1 DEF ItemRows
  <2>5. Wanted(r)' = Wanted(r)
    BY <2>2 DEF Wanted
  <2> HIDE DEF new
  <2>. QED  BY <2>2, <2>3, <2>4, <2>5 DEF Kept
<1>3. CASE Commit(r)
  <2>1. /\ rows' = rows \cup pend[r] /\ pc[r] = "tx_items" /\ pc'[r] = "tx_done"
        /\ UNCHANGED loc /\ loc[r].todo = {}
    BY <1>0, <1>3 DEF Commit, CommitPending, Goto
  <2>2. ItemRows(loc[r].no, loc[r].items, {}) = {}
    BY DEF ItemRows
  <2>. QED  BY <2>1, <2>2 DEF Kept, Wanted
<1>4. CASE CloseDone(r)
  <2>1. /\ rows \subseteq rows' /\ pc[r] = "tx_done" /\ pc'[r] = "ord_clear" /\ UNCHANGED loc
    BY <1>0, <1>4 DEF CloseDone, CommitPending, Goto
  <2>. QED  BY <2>1 DEF Kept, Wanted
<1>5. ASSUME ~ (InsertOrderRow(r) \/ InsertItemRow(r) \/ Commit(r) \/ CloseDone(r))
      PROVE  pc'[r] \notin {"tx_items", "tx_done", "ord_clear"}
  <2>1. CASE BeginTx(r) \/ ConnectFails(r) \/ InsertFails(r) \/ CommitFails(r)
    BY <1>0, <2>1 DEF BeginTx, ConnectFails, InsertFails, CommitFails, Respond, Goto
  <2>2. CASE Rollback(r) \/ RollbackFails(r) \/ RollbackRefused(r)
    BY <1>0, <2>2 DEF Rollback, RollbackFails, RollbackRefused, Respond, Goto
  <2>3. CASE CloseFailed(r) \/ CloseThrows(r)
    BY <1>0, <2>3 DEF CloseFailed, CloseThrows, Respond
  <2>. QED  BY <1>5, <2>1, <2>2, <2>3 DEF Persist
<1>. QED  BY <1>1, <1>2, <1>3, <1>4, <1>5 DEF Kept

(* Rows never disappear, and nobody else takes away what r has pending.    *)
LEMMA KeptByOthers ==
  ASSUME TypeInv, NEW r \in Requests, Persist(r)
  PROVE  /\ rows \subseteq rows'
         /\ \A q \in Requests : q # r => pend'[q] = pend[q]
<1>0. pend \in [Requests -> SUBSET Row]
  BY DEF TypeInv, TypeOK
<1>1. CASE InsertOrderRow(r) \/ InsertItemRow(r)
  BY <1>0, <1>1 DEF InsertOrderRow, InsertItemRow, Write
<1>2. CASE Commit(r) \/ CommitFails(r) \/ CloseDone(r) \/ CloseFailed(r) \/ CloseThrows(r)
  BY <1>0, <1>2 DEF Commit, CommitFails, CloseDone, CloseFailed, CloseThrows, CommitPending
<1>3. CASE \/ BeginTx(r) \/ ConnectFails(r) \/ InsertFails(r)
           \/ Rollback(r) \/ RollbackFails(r) \/ RollbackRefused(r)
  BY <1>0, <1>3 DEF BeginTx, ConnectFails, InsertFails, Rollback, RollbackFails,
                    RollbackRefused, dbVars
<1>. QED  BY <1>1, <1>2, <1>3 DEF Persist

KeptInv == \A r \in Requests : Kept(r)

LEMMA KeptStep == TypeInv /\ KeptInv /\ [Next]_vars => KeptInv'
<1> SUFFICES ASSUME TypeInv, KeptInv, [Next]_vars
             PROVE  KeptInv'
  OBVIOUS
<1>1. ASSUME NEW q \in Requests, pc'[q] = pc[q], loc'[q] = loc[q], pend'[q] = pend[q],
             rows \subseteq rows'
      PROVE  Kept(q)'
  BY <1>1 DEF KeptInv, Kept, Wanted
<1>2. ASSUME NEW r \in Requests,
             Arrive(r) \/ Stray(r) \/ Buy(r) \/ Update(r) \/ Order(r) \/ ConnectFails(r)
      PROVE  KeptInv'
  <2>1. Kept(r)'
    BY <1>2, OutsideSteps DEF Kept, InTransaction
  <2>. QED  BY <1>1, <1>2, <2>1, OutsideSteps DEF KeptInv, dbVars
<1>3. ASSUME NEW r \in Requests, Persist(r)
      PROVE  KeptInv'
  <2>1. \A q \in Requests : q # r => pc'[q] = pc[q] /\ loc'[q] = loc[q]
    BY <1>3, HandleMoves DEF Handle
  <2>. QED  BY <1>1, <1>3, <2>1, KeptOwn, KeptByOthers DEF KeptInv
<1>4. CASE \/ \E s \in Sessions : Abort(s) \/ Invalidate(s)
           \/ UNCHANGED vars
  BY <1>1, <1>4 DEF KeptInv, Abort, Invalidate, vars, dbVars
<1>. QED  BY <1>2, <1>3, <1>4 DEF Next, Handle

(* The cart leaves the session only when its order is in the database,     *)
(* whatever fails.                                                         *)
THEOREM StoredBeforeCleared == Spec => []ClearedOnlyWhenStored
<1>1. Init => KeptInv
  BY DEF Init, KeptInv, Kept
<1>2. KeptInv => ClearedOnlyWhenStored
  BY DEF KeptInv, Kept, ClearedOnlyWhenStored, Wanted
<1>. QED  BY <1>1, <1>2, KeptStep, Invariance, PTL DEF Spec

-----------------------------------------------------------------------------
(* OrderProcess implements AtomicOrders: inserting the row of ossanorders  *)
(* is Ask, a commit that takes effect is Place, and every other step       *)
(* leaves what is asked and what is visible as it was.                     *)

LEMMA RefineInit == Init => Abstract!Init
BY DEF Init, Abstract!Init

LEMMA RefineAsk ==
  ASSUME TypeInv, TypeInv', TxInv, NEW r \in Requests, InsertOrderRow(r)
  PROVE  Abstract!Ask
<1> DEFINE new == Wanted(r)'
           h == OrderRow(loc'[r].no, loc'[r].total)
<1>1. /\ asked' = asked \cup new /\ asked \cap new = {}
      /\ RowsOf(asked, nextNo) = {} /\ loc'[r].no = nextNo /\ UNCHANGED rows
  BY TxInsertOrderRow
<1>2. /\ \A x \in new : x.no = loc'[r].no
      /\ h \in new /\ h.ossan = Null
      /\ \A x \in new : x.ossan = Null => x = h
  BY OrderRowsFacts DEF Wanted
<1> HIDE DEF new, h
<1>3. asked' \ asked = new
  BY <1>1
<1>4. Abstract!IsOrder(new)
  BY <1>2 DEF Abstract!IsOrder
<1>5. \A x \in new : Abstract!OfOrder(asked, x.no) = {}
  BY <1>1, <1>2 DEF Abstract!OfOrder, RowsOf
<1>. QED  BY <1>1, <1>3, <1>4, <1>5 DEF Abstract!Ask

LEMMA RefinePlace ==
  ASSUME TypeInv, TypeInv', TxInv, NEW r \in Requests,
         pc[r] = "tx_items", loc[r].todo = {}, CommitPending(r),
         NEW p \in {"tx_done", "tx_rollback"}, pc' = [pc EXCEPT ![r] = p],
         UNCHANGED <<loc, auto, nextNo, asked>>
  PROVE  Abstract!Place
<1> DEFINE n == loc[r].no
           h == OrderRow(n, loc[r].total)
<1>1. /\ rows' = rows \cup RowsOf(asked, n) /\ RowsOf(rows, n) = {}
      /\ RowsOf(asked, n) = Wanted(r)
  BY TxCommit
<1>2. h \in Wanted(r) /\ \A x \in Wanted(r) : x.no = n
  BY OrderRowsFacts DEF Wanted
<1> HIDE DEF h
<1>3. h \in asked /\ h.no = n
  BY <1>1, <1>2 DEF RowsOf
<1>. QED  BY <1>1, <1>3 DEF Abstract!Place, Abstract!OfOrder, RowsOf

LEMMA RefineNext ==
  Undone /\ TypeInv /\ TypeInv' /\ TxInv /\ [Next]_vars => [Abstract!Next]_(Abstract!vars)
<1> SUFFICES ASSUME Undone, TypeInv, TypeInv', TxInv, [Next]_vars
             PROVE  Abstract!Next \/ UNCHANGED <<asked, rows>>
  BY DEF Abstract!vars
<1>1. ASSUME NEW r \in Requests,
             Arrive(r) \/ Stray(r) \/ Buy(r) \/ Update(r) \/ Order(r) \/ ConnectFails(r)
      PROVE  UNCHANGED <<asked, rows>>
  BY <1>1, OutsideSteps DEF dbVars
<1>2. ASSUME NEW r \in Requests, Commit(r) \/ CommitFails(r)
      PROVE  Abstract!Place \/ UNCHANGED <<asked, rows>>
  BY <1>2, RefinePlace DEF Commit, CommitFails, Goto, cartVars
<1>3. ASSUME NEW r \in Requests, InsertOrderRow(r)
      PROVE  Abstract!Ask
  BY <1>3, RefineAsk
<1>4. ASSUME NEW r \in Requests, Persist(r)
      PROVE  Abstract!Next \/ UNCHANGED <<asked, rows>>
  BY <1>1, <1>2, <1>3, <1>4, TxInsertItemRow, TxEnds
  DEF Persist, RollbackRefused, Undone, Abstract!Next
<1>5. ASSUME \/ \E s \in Sessions : Abort(s) \/ Invalidate(s)
             \/ UNCHANGED vars
      PROVE  UNCHANGED <<asked, rows>>
  BY <1>5 DEF Abort, Invalidate, vars, dbVars
<1>. QED  BY <1>1, <1>4, <1>5 DEF Next, Handle

(* Saving an order is atomic for every other client of the database.       *)
THEOREM Refinement == Undone => (Spec => AtomicOrderSpec)
<1> SUFFICES ASSUME Undone
             PROVE  Spec => AtomicOrderSpec
  OBVIOUS
<1>1. Spec => [](TypeInv /\ TxInv)
  BY Invariance, TxInvariance, PTL
<1>2. [](TypeInv /\ TxInv) /\ [][Next]_vars => [][Abstract!Next]_(Abstract!vars)
  BY RefineNext, PTL
<1>. QED  BY <1>1, <1>2, RefineInit, PTL DEF Spec, AtomicOrderSpec, Abstract!Spec

-----------------------------------------------------------------------------
(* Whose cart.  Carts are made for a session and reach a request through   *)
(* that session's attribute, except by way of the field of                 *)
(* UpdateBookServlet.                                                      *)

(* A request keeps its session; it gets a cart from BuyNewCart, from the   *)
(* field of UpdateBookServlet, or has had it from the beginning.           *)
LEMMA KeepsCart ==
  ASSUME TypeInv, NEW r \in Requests, Handle(r)
  PROVE  \/ pc'[r] = "idle" /\ loc'[r] = Blank
         \/ /\ loc'[r].sess = loc[r].sess
            /\ \/ pc[r] # "upd_act" /\ loc'[r].ref = loc[r].ref
               \/ pc'[r] = "upd_act"
               \/ pc[r] = "buy_new" /\ pc'[r] = "buy_look"
                  /\ loc'[r].ref \in FreeCarts(loc[r].sess)
<1>0. pc \in [Requests -> Places] /\ loc \in [Requests -> Locals] /\ loc[r] \in Locals
  BY DEF TypeInv, TypeOK
<1>1. ASSUME Respond(r)
      PROVE  pc'[r] = "idle" /\ loc'[r] = Blank
  BY <1>0, <1>1 DEF Respond
<1>2. CASE BuyNewCart(r)
  <2>1. PICK c \in FreeCarts(loc[r].sess) : loc' = [loc EXCEPT ![r].ref = c]
    BY <1>2 DEF BuyNewCart
  <2>2. loc'[r].sess = loc[r].sess /\ loc'[r].ref = c
    BY <1>0, <2>1 DEF Locals
  <2>. QED  BY <1>0, <1>2, <2>2 DEF BuyNewCart
<1>3. CASE UpdateCheck(r) \/ UpdateGet(r)
  <2>1. CASE Respond(r)
    BY <1>1, <2>1
  <2>2. CASE pc' = [pc EXCEPT ![r] = "upd_get"] /\ UNCHANGED loc /\ pc[r] = "upd_check"
    BY <2>2
  <2>3. CASE pc' = [pc EXCEPT ![r] = "upd_act"] /\ loc' = [loc EXCEPT ![r].ref = cartOf[field]]
    BY <1>0, <2>3 DEF Locals
  <2>. QED  BY <1>3, <2>1, <2>2, <2>3 DEF UpdateCheck, UpdateGet
<1>4. CASE \/ BuyNewCartFails(r) \/ AddNothing(r) \/ AddPut(r) \/ AddSum(r)
           \/ UpdateDelete(r) \/ UpdateModify(r)
           \/ OrderCancel(r) \/ IterationFails(r) \/ ClearCart(r)
           \/ ConnectFails(r) \/ RollbackFails(r) \/ CloseFailed(r) \/ CloseThrows(r)
  BY <1>1, <1>4 DEF BuyNewCartFails, AddNothing, AddPut, AddSum,
     UpdateDelete, UpdateModify, OrderCancel, IterationFails, ClearCart,
     ConnectFails, RollbackFails, CloseFailed, CloseThrows
<1>5. CASE AddLook(r) \/ OrderConfirm(r) \/ SumItem(r) \/ CopyStart(r) \/ CopyItem(r)
           \/ InsertOrderRow(r) \/ InsertItemRow(r)
  <2>1. pc[r] # "upd_act"
    BY <1>5 DEF AddLook, OrderConfirm, SumItem, CopyStart, CopyItem, InsertOrderRow,
                InsertItemRow, Goto
  <2>2. CASE AddLook(r) \/ OrderConfirm(r) \/ CopyStart(r) \/ InsertOrderRow(r)
    BY <1>0, <2>1, <2>2 DEF AddLook, OrderConfirm, CopyStart, InsertOrderRow, Locals
  <2>3. CASE SumItem(r) \/ CopyItem(r) \/ InsertItemRow(r)
    BY <1>0, <2>1, <2>3 DEF SumItem, CopyItem, InsertItemRow, Locals
  <2>. QED  BY <1>5, <2>2, <2>3
<1>6. CASE \/ BeginTx(r) \/ InsertFails(r) \/ Commit(r) \/ CommitFails(r)
           \/ Rollback(r) \/ RollbackRefused(r) \/ CloseDone(r)
  BY <1>6 DEF BeginTx, InsertFails, Commit, CommitFails, Rollback, RollbackRefused,
              CloseDone, Goto
<1>. QED  BY <1>2, <1>3, <1>4, <1>5, <1>6 DEF Handle, Buy, Update, Order, Persist

LEMMA ArriveParts ==
  ASSUME TypeInv, NEW r \in Requests, Arrive(r)
  PROVE  /\ UNCHANGED <<live, cartOf, cart, dbVars>>
         /\ \A q \in Requests : q # r => pc'[q] = pc[q] /\ loc'[q] = loc[q]
         /\ \E s \in Sessions, kind \in {"buy", "update", "order"} :
              /\ Arrives(r, s, kind)
              /\ loc'[r].sess = s /\ loc'[r].items = NoItems /\ loc'[r].no = 0
              /\ loc'[r].ref \in {Null, cartOf[s]}
              /\ kind = "buy" => pc'[r] \in {"buy_new", "buy_look"}
              /\ kind = "update" => pc'[r] = "upd_check"
              /\ kind = "order" => pc'[r] = "ord_decide" /\ loc'[r].ref = cartOf[s]
<1>0. pc \in [Requests -> Places] /\ loc \in [Requests -> Locals]
  BY DEF TypeInv, TypeOK
<1>1. ASSUME NEW s \in Sessions, OrderArrive(r, s)
      PROVE  /\ loc'[r].sess = s /\ loc'[r].ref = cartOf[s] /\ pc'[r] = "ord_decide"
             /\ loc'[r].items = NoItems /\ loc'[r].no = 0
             /\ Arrives(r, s, "order") /\ UNCHANGED <<live, cartOf, cart, dbVars>>
  BY <1>0, <1>1 DEF OrderArrive, Blank, cartVars
<1>2. ASSUME NEW s \in Sessions, NEW k \in Ossans, NEW qty \in BuyQtys, BuyArrive(r, s, k, qty)
      PROVE  /\ loc'[r].sess = s /\ loc'[r].ref = cartOf[s]
             /\ pc'[r] \in {"buy_new", "buy_look"}
             /\ loc'[r].items = NoItems /\ loc'[r].no = 0
             /\ Arrives(r, s, "buy") /\ UNCHANGED <<live, cartOf, cart, dbVars>>
  BY <1>0, <1>2 DEF BuyArrive, Blank, cartVars
<1>3. ASSUME NEW s \in Sessions, NEW k \in Ossans, NEW qty \in NewQtys \cup {Null},
             UpdateArrive(r, s, k, qty)
      PROVE  /\ loc'[r].sess = s /\ loc'[r].ref = Null /\ pc'[r] = "upd_check"
             /\ loc'[r].items = NoItems /\ loc'[r].no = 0
             /\ Arrives(r, s, "update") /\ UNCHANGED <<live, cartOf, cart, dbVars>>
  BY <1>0, <1>3 DEF UpdateArrive, Blank
<1>4. \A q \in Requests : q # r => pc'[q] = pc[q] /\ loc'[q] = loc[q]
  BY OutsideSteps
<1>. QED  BY <1>1, <1>2, <1>3, <1>4 DEF Arrive

LEMMA OwnStep == TypeInv /\ OwnCart /\ [Next]_vars => OwnCart'
<1> SUFFICES ASSUME TypeInv, OwnCart, [Next]_vars
             PROVE  OwnCart'
  OBVIOUS
<1>1. ASSUME NEW r \in Requests,
             \A q \in Requests : q # r => pc'[q] = pc[q] /\ loc'[q] = loc[q],
             loc'[r].ref = Null \/ pc'[r] = "upd_act" \/ loc'[r].ref[1] = loc'[r].sess
      PROVE  OwnCart'
  BY <1>1 DEF OwnCart
<1>2. \A s \in Sessions : cartOf[s] # Null => cartOf[s][1] = s
  BY DEF TypeInv, TypeOK
<1>3. ASSUME NEW r \in Requests, Arrive(r)
      PROVE  OwnCart'
  BY <1>1, <1>2, <1>3, ArriveParts
<1>4. ASSUME NEW r \in Requests, Handle(r)
      PROVE  OwnCart'
  <2>1. CASE loc'[r] = Blank
    BY <1>1, <1>4, <2>1, HandleMoves DEF Blank
  <2>2. CASE loc'[r].sess = loc[r].sess /\ pc[r] # "upd_act" /\ loc'[r].ref = loc[r].ref
    BY <1>1, <1>4, <2>2, HandleMoves DEF OwnCart
  <2>3. CASE loc'[r].sess = loc[r].sess /\ loc'[r].ref \in FreeCarts(loc[r].sess)
    BY <1>1, <1>4, <2>3, HandleMoves DEF FreeCarts
  <2>4. CASE pc'[r] = "upd_act"
    BY <1>1, <1>4, <2>4, HandleMoves
  <2>. QED  BY <1>4, <2>1, <2>2, <2>3, <2>4, KeepsCart
<1>5. CASE \/ \E s \in Sessions : Abort(s) \/ Invalidate(s)
           \/ UNCHANGED vars
  <2>1. UNCHANGED <<pc, loc>>
    BY <1>5 DEF Abort, Invalidate, vars
  <2>. QED  BY <2>1 DEF OwnCart
<1>6. ASSUME NEW r \in Requests, Stray(r)
      PROVE  OwnCart'
  <2>1. loc'[r].ref = Null
    BY <1>6 DEF Stray, UpdateNoSession, Blank, TypeInv, TypeOK
  <2>. QED  BY <1>1, <1>6, <2>1, OutsideSteps
<1>. QED  BY <1>3, <1>4, <1>5, <1>6 DEF Next

(* Outside UpdateBookServlet no request works on the cart of another       *)
(* session, however requests overlap and sessions end.                     *)
THEOREM OwnCarts == Spec => []OwnCart
<1>1. Init => OwnCart
  BY DEF Init, OwnCart, Blank
<1>. QED  BY <1>1, OwnStep, Invariance, PTL DEF Spec

-----------------------------------------------------------------------------
(* What is cleared is what was ordered.  Where a browser waits for its     *)
(* answers, a session has one request, and its cart stays the attribute    *)
(* and keeps its items from the copy to the removal.  UpdateBookServlet    *)
(* reaches other sessions' carts: it is left out, or there is no other     *)
(* session and no update comes without one.                                *)

Undisturbed ==
  /\ Serial
  /\ "stray" \notin Kinds
  /\ "update" \notin Kinds \/ \A s, t \in Sessions : s = t

LEMMA NoStray == Undisturbed => \A r \in Requests : ~ Stray(r)
BY DEF Undisturbed, Stray, UpdateNoSession

Saving == InTransaction \cup {"ord_clear"}
Ordering == {"ord_decide"} \cup Iterating \cup Saving

Ordered(r) ==
  pc[r] \in Ordering =>
    /\ loc[r].ref \in Carts /\ cartOf[loc[r].sess] = loc[r].ref
    /\ pc[r] \in {"ord_decide", "ord_sum"} => loc[r].items = NoItems
    /\ pc[r] = "ord_copy" =>
         \A k \in Ossans \ loc[r].todo : loc[r].items[k] = cart[loc[r].ref][k]
    /\ pc[r] \in Saving => loc[r].items = cart[loc[r].ref]

ClearInv ==
  /\ \A q, r \in Requests : loc[q].sess = loc[r].sess /\ loc[r].sess # Null => q = r
  /\ \A r \in Requests : pc[r] \in Updating => "update" \in Kinds /\ loc[r].sess \in Sessions
  /\ \A r \in Requests : Ordered(r)

(* A handler changes the cart and the attribute of its own session.        *)
LEMMA ChangesOwn ==
  ASSUME TypeInv, OwnCart, NEW r \in Requests, Buy(r) \/ Order(r) \/ Persist(r)
  PROVE  /\ \A s \in Sessions : s # loc[r].sess => cartOf'[s] = cartOf[s]
         /\ \A c \in Carts : c[1] # loc[r].sess => cart'[c] = cart[c]
<1>0. /\ cartOf \in [Sessions -> Carts \cup {Null}] /\ cart \in [Carts -> Items]
      /\ pc[r] \in {"buy_put", "buy_sum"} => loc[r].ref \in Carts
  BY DEF TypeInv, TypeOK, LocalOK, HasCart
<1>1. CASE BuyNewCart(r)
  <2>1. PICK c \in FreeCarts(loc[r].sess) :
          /\ cartOf' = [cartOf EXCEPT ![loc[r].sess] = c]
          /\ cart' = [cart EXCEPT ![c] = NoItems]
    BY <1>1 DEF BuyNewCart
  <2>2. c[1] = loc[r].sess
    BY DEF FreeCarts
  <2>. QED  BY <1>0, <2>1, <2>2
<1>2. CASE AddPut(r) \/ AddSum(r)
  <2>1. /\ UNCHANGED cartOf /\ pc[r] \in {"buy_put", "buy_sum"}
        /\ \E i : cart' = cart \/ cart' = [cart EXCEPT ![loc[r].ref] = i]
    BY <1>2 DEF AddPut, AddSum
  <2>2. loc[r].ref \in Carts /\ loc[r].ref # Null /\ loc[r].ref[1] = loc[r].sess
    BY <1>0, <2>1, OrderAssumption DEF OwnCart, Carts
  <2>. QED  BY <1>0, <2>1, <2>2
<1>3. CASE BuyNewCartFails(r) \/ AddNothing(r) \/ AddLook(r)
  BY <1>3 DEF BuyNewCartFails, AddNothing, AddLook, cartVars
<1>4. CASE OrderCancel(r) \/ ClearCart(r)
  BY <1>0, <1>4 DEF OrderCancel, ClearCart
<1>5. CASE OrderConfirm(r) \/ CopyStart(r) \/ SumItem(r) \/ CopyItem(r) \/ IterationFails(r)
  BY <1>5 DEF OrderConfirm, CopyStart, SumItem, CopyItem, IterationFails, cartVars
<1>6. CASE Persist(r)
  BY <1>6 DEF Persist, BeginTx, ConnectFails, InsertOrderRow, InsertItemRow, InsertFails,
     Commit, CommitFails, Rollback, RollbackFails, RollbackRefused, CloseDone, CloseFailed,
     CloseThrows, cartVars
<1>. QED  BY <1>1, <1>2, <1>3, <1>4, <1>5, <1>6 DEF Buy, Order

(* While an order is made and saved, its own handler leaves cart and       *)
(* attribute alone and copies what it finds.                               *)
LEMMA OrdersOwn ==
  ASSUME TypeInv, ClearInv, NEW r \in Requests, Order(r) \/ Persist(r)
  PROVE  Ordered(r)'
<1>0. /\ pc \in [Requests -> Places] /\ loc \in [Requests -> Locals] /\ loc[r] \in Locals
      /\ Ordered(r)
  BY DEF TypeInv, TypeOK, ClearInv
<1>1. ASSUME Respond(r)
      PROVE  Ordered(r)'
  <2>1. pc'[r] = "idle"
    BY <1>0, <1>1 DEF Respond
  <2>. QED  BY <2>1 DEF Ordered, Ordering, Iterating, Saving, InTransaction
<1>2. CASE \/ OrderCancel(r) \/ IterationFails(r) \/ ClearCart(r)
           \/ ConnectFails(r) \/ RollbackFails(r) \/ CloseFailed(r) \/ CloseThrows(r)
  BY <1>1, <1>2 DEF OrderCancel, IterationFails, ClearCart,
     ConnectFails, RollbackFails, CloseFailed, CloseThrows
<1>3. CASE OrderConfirm(r) \/ SumItem(r)
  <2>1. /\ UNCHANGED <<cartOf, cart>>
        /\ pc[r] \in {"ord_decide", "ord_sum"} /\ pc'[r] = "ord_sum"
    BY <1>0, <1>3 DEF OrderConfirm, SumItem, Goto, cartVars
  <2>2. /\ loc'[r].sess = loc[r].sess /\ loc'[r].ref = loc[r].ref
        /\ loc'[r].items = loc[r].items
    <3>1. CASE OrderConfirm(r)
      BY <1>0, <3>1 DEF OrderConfirm, Locals
    <3>2. CASE SumItem(r)
      BY <1>0, <3>2 DEF SumItem, Locals
    <3>. QED  BY <1>3, <3>1, <3>2
  <2>. QED  BY <1>0, <2>1, <2>2 DEF Ordered, Ordering, Iterating, Saving, InTransaction
<1>4. CASE CopyStart(r)
  <2>1. /\ UNCHANGED <<cartOf, cart>> /\ pc[r] = "ord_sum" /\ pc'[r] = "ord_copy"
    BY <1>0, <1>4 DEF CopyStart, Goto, cartVars
  <2>2. /\ loc'[r].sess = loc[r].sess /\ loc'[r].ref = loc[r].ref
        /\ loc'[r].items = loc[r].items /\ loc'[r].todo = Keys(cart[loc[r].ref])
    BY <1>0, <1>4 DEF CopyStart, Locals
  <2>3. \A k \in Ossans \ Keys(cart[loc[r].ref]) : NoItems[k] = cart[loc[r].ref][k]
    BY DEF Keys, NoItems
  <2>. QED
    BY <1>0, <2>1, <2>2, <2>3 DEF Ordered, Ordering, Iterating, Saving, InTransaction
<1>5. CASE CopyItem(r)
  <2>1. /\ UNCHANGED <<cartOf, cart>> /\ pc[r] = "ord_copy" /\ pc'[r] = "ord_copy"
    BY <1>5 DEF CopyItem, cartVars
  <2>2. PICK k \in loc[r].todo :
          loc' = [loc EXCEPT ![r].todo = @ \ {k}, ![r].items[k] = cart[loc[r].ref][k]]
    BY <1>5 DEF CopyItem
  <2>3. /\ loc'[r].sess = loc[r].sess /\ loc'[r].ref = loc[r].ref
        /\ loc'[r].todo = loc[r].todo \ {k}
        /\ loc'[r].items = [loc[r].items EXCEPT ![k] = cart[loc[r].ref][k]]
    BY <1>0, <2>2 DEF Locals
  <2>4. loc[r].items \in [Ossans -> Int \cup {Null}] /\ k \in Ossans
    BY <1>0 DEF Locals, Items
  <2>5. \A j \in Ossans \ loc'[r].todo : loc'[r].items[j] = cart[loc[r].ref][j]
    BY <1>0, <2>1, <2>3, <2>4 DEF Ordered, Ordering, Iterating
  <2>. QED
    BY <1>0, <2>1, <2>3, <2>5 DEF Ordered, Ordering, Iterating, Saving, InTransaction
<1>6. CASE BeginTx(r)
  <2>1. /\ UNCHANGED <<cartOf, cart, loc>> /\ pc[r] = "ord_copy" /\ pc'[r] = "tx_order"
        /\ loc[r].todo = {}
    BY <1>0, <1>6 DEF BeginTx, Goto, cartVars
  <2>2. \A k \in Ossans : loc[r].items[k] = cart[loc[r].ref][k]
    BY <1>0, <2>1 DEF Ordered, Ordering, Iterating
  <2>3. loc[r].items \in [Ossans -> Int \cup {Null}]
        /\ cart[loc[r].ref] \in [Ossans -> Int \cup {Null}]
    BY <1>0, <2>1 DEF Locals, Items, TypeInv, TypeOK, LocalOK, HasCart
  <2>4. loc[r].items = cart[loc[r].ref]
    BY <2>2, <2>3
  <2>. QED
    BY <1>0, <2>1, <2>4 DEF Ordered, Ordering, Iterating, Saving, InTransaction
<1>7. CASE \/ InsertOrderRow(r) \/ InsertItemRow(r) \/ InsertFails(r)
           \/ Commit(r) \/ CommitFails(r) \/ Rollback(r) \/ RollbackRefused(r) \/ CloseDone(r)
  <2>1. /\ UNCHANGED <<cartOf, cart>> /\ pc[r] \in InTransaction /\ pc'[r] \in Saving
    BY <1>0, <1>7 DEF InsertOrderRow, InsertItemRow, InsertFails, Commit, CommitFails,
       Rollback, RollbackRefused, CloseDone, Goto, cartVars, Saving, InTransaction
  <2>2. /\ loc'[r].sess = loc[r].sess /\ loc'[r].ref = loc[r].ref
        /\ loc'[r].items = loc[r].items
    <3>1. CASE InsertOrderRow(r)
      BY <1>0, <3>1 DEF InsertOrderRow, Locals
    <3>2. CASE InsertItemRow(r)
      BY <1>0, <3>2 DEF InsertItemRow, Locals
    <3>3. CASE \/ InsertFails(r) \/ Commit(r) \/ CommitFails(r) \/ Rollback(r)
               \/ RollbackRefused(r) \/ CloseDone(r)
      BY <3>3 DEF InsertFails, Commit, CommitFails, Rollback, RollbackRefused, CloseDone
    <3>. QED  BY <1>7, <3>1, <3>2, <3>3
  <2>. QED  BY <1>0, <2>1, <2>2 DEF Ordered, Ordering, Iterating, Saving, InTransaction
<1>. QED  BY <1>2, <1>3, <1>4, <1>5, <1>6, <1>7 DEF Order, Persist

(* Another session's request leaves r's order as it was. *)
LEMMA OrderStays ==
  ASSUME TypeInv, ClearInv, NEW q \in Requests, pc'[q] = pc[q], loc'[q] = loc[q],
         pc[q] \in Ordering => /\ cartOf'[loc[q].sess] = cartOf[loc[q].sess]
                               /\ cart'[loc[q].ref] = cart[loc[q].ref]
  PROVE  Ordered(q)'
BY DEF ClearInv, Ordered

LEMMA OrderingOwns ==
  ASSUME TypeInv, ClearInv, NEW q \in Requests, pc[q] \in Ordering
  PROVE  /\ loc[q].sess \in Sessions /\ loc[q].sess # Null
         /\ loc[q].ref \in Carts /\ loc[q].ref[1] = loc[q].sess
<1>1. loc[q].sess \in Sessions
  BY DEF TypeInv, LocalOK, Updating, Ordering, Iterating, Saving, InTransaction
<1>2. cartOf[loc[q].sess] = loc[q].ref /\ loc[q].ref \in Carts
  BY DEF ClearInv, Ordered
<1>3. loc[q].sess # Null /\ loc[q].ref # Null
  BY <1>1, <1>2, OrderAssumption DEF Carts
<1>. QED  BY <1>1, <1>2, <1>3 DEF TypeInv, TypeOK

(* Where nothing disturbs, no handler touches another session's cart.      *)
LEMMA HandlesOwn ==
  ASSUME TypeInv, OwnCart, ClearInv, Undisturbed, NEW r \in Requests, Handle(r)
  PROVE  /\ loc[r].sess \in Sessions /\ loc[r].sess # Null
         /\ \A s \in Sessions : s # loc[r].sess => cartOf'[s] = cartOf[s]
         /\ \A c \in Carts : c[1] # loc[r].sess => cart'[c] = cart[c]
<1>1. loc[r].sess \in Sessions /\ loc[r].sess # Null
  BY HandleMoves, OrderAssumption DEF TypeInv, LocalOK, ClearInv
<1>2. CASE Update(r)
  <2>1. pc[r] \in Updating
    BY <1>2 DEF Update, UpdateCheck, UpdateGet, UpdateDelete,
                UpdateModify, Updating
  <2>2. \A s \in Sessions : s = loc[r].sess
    BY <1>1, <2>1 DEF ClearInv, Undisturbed
  <2>. QED  BY <1>1, <2>2 DEF Carts
<1>. QED  BY <1>1, <1>2, ChangesOwn DEF Handle

(* Where a request goes that is not making an order.                       *)
LEMMA OtherPlaces ==
  ASSUME TypeInv, NEW r \in Requests
  PROVE  /\ Buy(r) => pc'[r] \in {"idle", "buy_look", "buy_put", "buy_sum"}
         /\ Update(r) => pc[r] \in Updating /\ pc'[r] \in {"idle", "upd_get", "upd_act"}
         /\ Order(r) => pc'[r] \in {"idle"} \cup Iterating
         /\ Persist(r) => pc'[r] \in {"idle"} \cup Saving
<1>0. pc \in [Requests -> Places] /\ loc \in [Requests -> Locals]
  BY DEF TypeInv, TypeOK
<1>1. Buy(r) => pc'[r] \in {"idle", "buy_look", "buy_put", "buy_sum"}
  BY <1>0 DEF Buy, BuyNewCart, BuyNewCartFails, AddNothing, AddLook, AddPut,
              AddSum, Respond
<1>2. Update(r) => pc[r] \in Updating /\ pc'[r] \in {"idle", "upd_get", "upd_act"}
  BY <1>0 DEF Update, UpdateCheck, UpdateGet, UpdateDelete,
              UpdateModify, Respond, Updating
<1>3. Order(r) => pc'[r] \in {"idle"} \cup Iterating
  BY <1>0 DEF Order, OrderCancel, OrderConfirm, CopyStart, SumItem, CopyItem,
              IterationFails, ClearCart, Respond, Goto, Iterating
<1>4. Persist(r) => pc'[r] \in {"idle"} \cup Saving
  <2>1. CASE BeginTx(r) \/ ConnectFails(r) \/ InsertOrderRow(r)
             \/ InsertItemRow(r) \/ InsertFails(r)
    BY <1>0, <2>1 DEF BeginTx, ConnectFails, InsertOrderRow, InsertItemRow,
       InsertFails, Respond, Goto, Saving, InTransaction
  <2>2. CASE \/ Commit(r) \/ CommitFails(r)
             \/ Rollback(r) \/ RollbackFails(r) \/ RollbackRefused(r)
             \/ CloseDone(r) \/ CloseFailed(r) \/ CloseThrows(r)
    BY <1>0, <2>2 DEF Commit, CommitFails, Rollback, RollbackFails, RollbackRefused,
       CloseDone, CloseFailed, CloseThrows, Respond, Goto, Saving, InTransaction
  <2>. QED  BY <2>1, <2>2 DEF Persist
<1>. QED  BY <1>1, <1>2, <1>3, <1>4

LEMMA ClearStep ==
  ASSUME TypeInv, TypeInv', OwnCart, ClearInv, Undisturbed, [Next]_vars
  PROVE  ClearInv'
<1>0. pc \in [Requests -> Places] /\ loc \in [Requests -> Locals]
  BY DEF TypeInv, TypeOK
<1>1. ASSUME NEW r \in Requests, Arrive(r)
      PROVE  ClearInv'
  <2>1. /\ UNCHANGED <<cartOf, cart>>
        /\ \A q \in Requests : q # r => pc'[q] = pc[q] /\ loc'[q] = loc[q]
    BY <1>1, ArriveParts
  <2>2. PICK s \in Sessions, kind \in {"buy", "update", "order"} :
          /\ Arrives(r, s, kind)
          /\ loc'[r].sess = s /\ loc'[r].items = NoItems
          /\ kind = "buy" => pc'[r] \in {"buy_new", "buy_look"}
          /\ kind = "update" => pc'[r] = "upd_check"
          /\ kind = "order" => pc'[r] = "ord_decide" /\ loc'[r].ref = cartOf[s]
    BY <1>1, ArriveParts
  <2>3. kind \in Kinds /\ \A q \in Requests : loc[q].sess # s
    BY <2>2 DEF Arrives, Undisturbed
  <2>4. Ordered(r)'
    <3>1. pc'[r] = "ord_decide" => loc'[r].ref \in Carts
      BY DEF TypeInv, LocalOK, HasCart
    <3>. QED
      BY <2>1, <2>2, <2>3, <3>1 DEF Ordered, Ordering, Iterating, Saving, InTransaction
  <2>5. \A q \in Requests : q # r => Ordered(q)'
    BY <2>1, OrderStays
  <2>6. \A p, q \in Requests : loc'[p].sess = loc'[q].sess /\ loc'[q].sess # Null => p = q
    BY <2>1, <2>2, <2>3 DEF ClearInv
  <2>7. \A q \in Requests :
          pc'[q] \in Updating => "update" \in Kinds /\ loc'[q].sess \in Sessions
    BY <2>1, <2>2, <2>3 DEF ClearInv, Updating
  <2>. QED  BY <2>4, <2>5, <2>6, <2>7 DEF ClearInv
<1>2. ASSUME NEW r \in Requests, Handle(r)
      PROVE  ClearInv'
  <2>1. /\ \A q \in Requests : q # r => pc'[q] = pc[q] /\ loc'[q] = loc[q]
        /\ loc'[r].sess \in {Null, loc[r].sess}
    BY <1>2, HandleMoves, KeepsCart DEF Blank
  <2>3. ASSUME NEW q \in Requests, q # r
        PROVE  Ordered(q)'
    <3>1. ASSUME pc[q] \in Ordering
          PROVE  /\ cartOf'[loc[q].sess] = cartOf[loc[q].sess]
                 /\ cart'[loc[q].ref] = cart[loc[q].ref]
      <4>1. /\ loc[q].sess \in Sessions /\ loc[q].sess # loc[r].sess
            /\ loc[q].ref \in Carts /\ loc[q].ref[1] = loc[q].sess
        BY <2>3, <3>1, OrderingOwns DEF ClearInv
      <4>. QED  BY <1>2, <4>1, HandlesOwn
    <3>. QED  BY <2>1, <2>3, <3>1, OrderStays
  <2>4. /\ Ordered(r)'
        /\ pc'[r] \in Updating => "update" \in Kinds /\ loc'[r].sess \in Sessions
    <3>1. CASE Buy(r) \/ Update(r)
      <4>1. pc'[r] \notin Ordering
        BY <3>1, OtherPlaces DEF Ordering, Iterating, Saving, InTransaction
      <4>2. pc'[r] \in Updating => pc[r] \in Updating /\ loc'[r].sess = loc[r].sess
        BY <1>2, <3>1, OtherPlaces, KeepsCart DEF Updating
      <4>. QED  BY <4>1, <4>2 DEF Ordered, ClearInv
    <3>2. CASE Order(r) \/ Persist(r)
      BY <3>2, OtherPlaces, OrdersOwn DEF Iterating, Saving, InTransaction, Updating
    <3>. QED  BY <1>2, <3>1, <3>2 DEF Handle
  <2>5. \A p, q \in Requests : loc'[p].sess = loc'[q].sess /\ loc'[q].sess # Null => p = q
    BY <2>1 DEF ClearInv
  <2>. QED  BY <2>1, <2>3, <2>4, <2>5 DEF ClearInv
<1>3. CASE \/ \E s \in Sessions : Abort(s) \/ Invalidate(s)
           \/ UNCHANGED vars
  <2>1. UNCHANGED <<pc, loc, cart>>
    BY <1>3 DEF Abort, Invalidate, vars
  <2>2. ASSUME NEW q \in Requests, loc[q].sess \in Sessions
        PROVE  cartOf'[loc[q].sess] = cartOf[loc[q].sess]
    BY <1>3, <2>2 DEF Abort, Invalidate, Quiet, vars, TypeInv, TypeOK,
                      Undisturbed
  <2>3. \A q \in Requests : Ordered(q)'
    BY <2>1, <2>2, OrderingOwns, OrderStays
  <2>. QED  BY <2>1, <2>3 DEF ClearInv
<1>. QED  BY <1>1, <1>2, <1>3, NoStray DEF Next

(* Nobody orders at first.                                                 *)
LEMMA ClearInit == Init => ClearInv
BY DEF Init, ClearInv, Blank, Ordered, Ordering, Iterating, Saving, InTransaction, Updating

(* Undisturbed, a session has one request at a time, and an order holds    *)
(* what the cart of its session holds.                                     *)
THEOREM ClearInvariance == Undisturbed => (Spec => []ClearInv)
<1> SUFFICES ASSUME Undisturbed
             PROVE  Spec => []ClearInv
  OBVIOUS
<1>1. TypeInv /\ TypeInv' /\ OwnCart /\ ClearInv /\ [Next]_vars => ClearInv'
  BY ClearStep
<1>. QED  BY <1>1, ClearInit, Invariance, OwnCarts, PTL DEF Spec

(* The cart that leaves the session when an order is stored holds what was *)
(* ordered, where browsers wait for their answers and nobody else's update *)
(* reaches the cart.                                                       *)
THEOREM ClearsTheOrdered == Undisturbed => (Spec => []ClearsWhatWasOrdered)
<1>1. ClearInv => ClearsWhatWasOrdered
  BY DEF ClearInv, ClearsWhatWasOrdered, Ordered, Ordering, Saving
<1>. QED  BY <1>1, ClearInvariance, PTL

-----------------------------------------------------------------------------
(* Errors.  A request that is to roll back has a number no visible row     *)
(* has, and nobody else will show one: it is a number of its own, or still *)
(* 0.                                                                      *)

Failing == {"tx_rollback", "tx_failed"}
Counted == Failing \cup {"tx_items", "tx_done", "ord_clear"}

FailLocal(r) ==
  /\ pc[r] \notin Counted => loc[r].no = 0
  /\ pc[r] = "tx_items" => loc[r].no # 0
  /\ pc[r] \in Failing => loc[r].no < nextNo /\ RowsOf(rows, loc[r].no) = {}

FailInv ==
  /\ \A x \in asked : x.no # 0
  /\ \A r \in Requests : FailLocal(r)
  /\ \A r, q \in Requests :
       pc[r] \in Failing /\ pc[q] = "tx_items" => loc[r].no # loc[q].no

(* Nothing is shown and no number is given. *)
LEMMA FailStays ==
  ASSUME TypeInv, FailInv, NEW r \in Requests, UNCHANGED <<rows, nextNo, asked>>,
         \A q \in Requests : q # r => pc'[q] = pc[q] /\ loc'[q] = loc[q],
         FailLocal(r)',
         pc'[r] \in Failing => \A q \in Requests :
           q # r /\ pc[q] = "tx_items" => loc'[r].no # loc[q].no,
         pc'[r] = "tx_items" => pc[r] = "tx_items" /\ loc'[r].no = loc[r].no
  PROVE  FailInv'
<1>1. \A q \in Requests : FailLocal(q)'
  BY DEF FailInv, FailLocal, RowsOf
<1>2. ASSUME NEW p \in Requests, NEW q \in Requests, pc'[p] \in Failing, pc'[q] = "tx_items"
      PROVE  loc'[p].no # loc'[q].no
  <2>1. CASE p = r
    BY <1>2, <2>1 DEF Failing
  <2>2. CASE p # r
    BY <1>2, <2>2 DEF FailInv
  <2>. QED  BY <2>1, <2>2
<1>3. \A x \in asked' : x.no # 0
  BY DEF FailInv
<1>. QED  BY <1>1, <1>2, <1>3 DEF FailInv

LEMMA FailNumber ==
  ASSUME TypeInv, TypeInv', TxInv, FailInv, NEW r \in Requests, InsertOrderRow(r)
  PROVE  FailInv'
<1>1. /\ asked' = asked \cup Wanted(r)' /\ loc'[r].no = nextNo /\ UNCHANGED rows
      /\ \A x \in Wanted(r)' : x.no = nextNo
  <2>1. asked' = asked \cup Wanted(r)' /\ loc'[r].no = nextNo /\ UNCHANGED rows
    BY TxInsertOrderRow
  <2>2. \A x \in Wanted(r)' : x.no = loc'[r].no
    BY OrderRowsFacts DEF Wanted
  <2>. QED  BY <2>1, <2>2
<1>2. /\ nextNo' = nextNo + 1 /\ nextNo \in Nat \ {0} /\ pc'[r] = "tx_items"
      /\ \A q \in Requests : q # r => pc'[q] = pc[q] /\ loc'[q] = loc[q]
  BY DEF InsertOrderRow, Goto, TypeInv, TypeOK
<1>3. \A q \in Requests : pc[q] \in Failing => loc[q].no < nextNo /\ loc[q].no \in Nat
  BY DEF FailInv, FailLocal, TypeInv, TypeOK, Locals
<1>4. \A q \in Requests : FailLocal(q)'
  <2>1. FailLocal(r)'
    BY <1>1, <1>2 DEF FailLocal, Counted, Failing
  <2>2. ASSUME NEW q \in Requests, q # r
        PROVE  FailLocal(q)'
    <3>1. FailLocal(q) /\ (pc[q] \in Failing => loc[q].no < nextNo')
      BY <1>2, <1>3 DEF FailInv
    <3>. QED  BY <1>1, <1>2, <2>2, <3>1 DEF FailLocal, RowsOf
  <2>. QED  BY <2>1, <2>2
<1>5. ASSUME NEW p \in Requests, NEW q \in Requests, pc'[p] \in Failing, pc'[q] = "tx_items"
      PROVE  loc'[p].no # loc'[q].no
  <2>1. p # r
    BY <1>2, <1>5 DEF Failing
  <2>2. CASE q = r
    BY <1>1, <1>2, <1>3, <1>5, <2>1, <2>2
  <2>3. CASE q # r
    BY <1>2, <1>5, <2>1, <2>3 DEF FailInv
  <2>. QED  BY <2>2, <2>3
<1>6. \A x \in asked' : x.no # 0
  BY <1>1, <1>2 DEF FailInv
<1>. QED  BY <1>4, <1>5, <1>6 DEF FailInv

(* A commit shows rows with the number of its own order. *)
LEMMA FailCommit ==
  ASSUME TypeInv, TypeInv', TxInv, FailInv, NEW r \in Requests, Commit(r)
  PROVE  FailInv'
<1>1. rows' = rows \cup RowsOf(asked, loc[r].no)
  BY TxCommit DEF Commit, Goto, cartVars
<1>2. /\ pc[r] = "tx_items" /\ pc'[r] = "tx_done" /\ UNCHANGED <<loc, nextNo, asked>>
      /\ \A q \in Requests : q # r => pc'[q] = pc[q]
  BY DEF Commit, Goto, TypeInv, TypeOK
<1>3. ASSUME NEW q \in Requests
      PROVE  FailLocal(q)'
  <2>1. CASE q = r
    BY <1>2, <2>1 DEF FailLocal, Counted, Failing
  <2>2. CASE q # r
    <3>1. pc[q] \in Failing => loc[q].no # loc[r].no
      BY <1>2 DEF FailInv
    <3>2. pc[q] \in Failing => RowsOf(rows', loc[q].no) = {}
      BY <1>1, <3>1 DEF FailInv, FailLocal, RowsOf
    <3>. QED  BY <1>2, <2>2, <3>2 DEF FailInv, FailLocal
  <2>. QED  BY <2>1, <2>2
<1>. QED  BY <1>2, <1>3 DEF FailInv, Failing

(* A request has no number before its order has one. *)
LEMMA KeepsNumber ==
  ASSUME TypeInv, NEW r \in Requests,
         Arrive(r) \/ Stray(r) \/ Buy(r) \/ Update(r) \/ Order(r) \/ ConnectFails(r)
  PROVE  \/ loc'[r].no = 0
         \/ loc'[r].no = loc[r].no /\ pc[r] \notin Counted
<1>0. /\ loc \in [Requests -> Locals] /\ loc[r] \in Locals /\ Blank.no = 0
  BY DEF TypeInv, TypeOK, Blank
<1>1. CASE Arrive(r) \/ Stray(r)
  BY <1>0, <1>1, ArriveParts DEF Stray, UpdateNoSession, Blank
<1>2. CASE \/ BuyNewCartFails(r) \/ AddNothing(r) \/ AddPut(r) \/ AddSum(r)
           \/ UpdateDelete(r) \/ UpdateModify(r)
           \/ OrderCancel(r) \/ IterationFails(r) \/ ClearCart(r) \/ ConnectFails(r)
  BY <1>0, <1>2 DEF BuyNewCartFails, AddNothing, AddPut, AddSum,
     UpdateDelete, UpdateModify, OrderCancel, IterationFails, ClearCart, ConnectFails,
     Respond
<1>3. CASE \/ BuyNewCart(r) \/ AddLook(r) \/ UpdateCheck(r) \/ UpdateGet(r)
           \/ OrderConfirm(r) \/ SumItem(r) \/ CopyStart(r) \/ CopyItem(r)
  <2>1. pc[r] \notin Counted
    BY <1>3 DEF BuyNewCart, AddLook, UpdateCheck, UpdateGet, OrderConfirm, SumItem,
       CopyStart, CopyItem, Goto, Counted, Failing
  <2>2. CASE BuyNewCart(r) \/ AddLook(r) \/ OrderConfirm(r) \/ CopyStart(r)
    BY <1>0, <2>1, <2>2 DEF BuyNewCart, AddLook, OrderConfirm, CopyStart, Locals
  <2>3. CASE SumItem(r) \/ CopyItem(r)
    <3>1. loc'[r].no = loc[r].no
      <4>1. CASE SumItem(r)
        BY <1>0, <4>1 DEF SumItem, Locals
      <4>2. CASE CopyItem(r)
        BY <1>0, <4>2 DEF CopyItem, Locals
      <4>. QED  BY <2>3, <4>1, <4>2
    <3>. QED  BY <2>1, <3>1
  <2>4. CASE UpdateCheck(r) \/ UpdateGet(r)
    BY <1>0, <2>1, <2>4 DEF UpdateCheck, UpdateGet, Respond, Locals
  <2>. QED  BY <1>3, <2>2, <2>3, <2>4
<1>. QED  BY <1>1, <1>2, <1>3 DEF Buy, Update, Order

LEMMA FailStep ==
  ASSUME TypeInv, TypeInv', TxInv, TxInv', FailInv,
         {"commit", "refused"} \cap Faults = {}, [Next]_vars
  PROVE  FailInv'
<1>0. pc \in [Requests -> Places] /\ loc \in [Requests -> Locals]
  BY DEF TypeInv, TypeOK
<1>b. Blank.no = 0
  BY DEF Blank
<1>1. ASSUME NEW r \in Requests, pc'[r] \notin Counted, loc'[r].no = 0,
             UNCHANGED <<rows, nextNo, asked>>,
             \A q \in Requests : q # r => pc'[q] = pc[q] /\ loc'[q] = loc[q]
      PROVE  FailInv'
  <2>1. FailLocal(r)'
    BY <1>1 DEF FailLocal, Counted
  <2>. QED  BY <1>1, <2>1, FailStays DEF Counted
<1>2. ASSUME NEW r \in Requests,
             Arrive(r) \/ Stray(r) \/ Buy(r) \/ Update(r) \/ Order(r) \/ ConnectFails(r)
      PROVE  FailInv'
  <2>1. /\ UNCHANGED <<rows, nextNo, asked>>
        /\ \A q \in Requests : q # r => pc'[q] = pc[q] /\ loc'[q] = loc[q]
        /\ pc'[r] \notin Counted
    BY <1>2, OutsideSteps DEF dbVars, InTransaction, Counted, Failing
  <2>2. \/ loc'[r].no = 0
        \/ loc'[r].no = loc[r].no /\ pc[r] \notin Counted
    BY <1>2, KeepsNumber
  <2>3. loc'[r].no = 0
    BY <2>2 DEF FailInv, FailLocal
  <2>. QED  BY <1>1, <2>1, <2>3
<1>3. ASSUME NEW r \in Requests,
             RollbackFails(r) \/ CloseFailed(r) \/ CloseThrows(r) \/ BeginTx(r)
      PROVE  FailInv'
  <2>1. UNCHANGED <<rows, nextNo, asked>>
    BY <1>3, TxEnds DEF RollbackFails, CloseFailed, CloseThrows, BeginTx
  <2>2. \A q \in Requests : q # r => pc'[q] = pc[q] /\ loc'[q] = loc[q]
    BY <1>3, HandleMoves DEF Handle, Persist
  <2>3. pc'[r] \notin Counted /\ loc'[r].no = 0
    <3>1. CASE BeginTx(r)
      <4>1. pc[r] = "ord_copy" /\ pc'[r] = "tx_order" /\ loc'[r] = loc[r]
        BY <1>0, <3>1 DEF BeginTx, Goto
      <4>. QED  BY <4>1 DEF FailInv, FailLocal, Counted, Failing
    <3>2. CASE RollbackFails(r) \/ CloseFailed(r) \/ CloseThrows(r)
      BY <1>0, <1>b, <3>2 DEF RollbackFails, CloseFailed, CloseThrows, Respond,
                              Counted, Failing
    <3>. QED  BY <1>3, <3>1, <3>2
  <2>. QED  BY <1>1, <2>1, <2>2, <2>3
<1>4. ASSUME NEW r \in Requests, Rollback(r) \/ CloseDone(r)
      PROVE  FailInv'
  <2>1. UNCHANGED <<rows, nextNo, asked, loc>>
    BY <1>4, TxEnds DEF Rollback, CloseDone
  <2>2. \A q \in Requests : q # r => pc'[q] = pc[q] /\ loc'[q] = loc[q]
    BY <1>4, HandleMoves DEF Handle, Persist
  <2>3. \/ pc[r] = "tx_rollback" /\ pc'[r] = "tx_failed"
        \/ pc'[r] = "ord_clear"
    BY <1>0, <1>4 DEF Rollback, CloseDone, Goto
  <2>4. FailLocal(r)'
    BY <2>1, <2>3 DEF FailInv, FailLocal, Counted, Failing
  <2>. QED  BY <2>1, <2>2, <2>3, <2>4, FailStays DEF FailInv, Failing
<1>5. ASSUME NEW r \in Requests, InsertFails(r)
      PROVE  FailInv'
  <2>1. UNCHANGED <<rows, nextNo, asked, loc>>
    BY <1>5 DEF InsertFails, dbVars
  <2>2. \A q \in Requests : q # r => pc'[q] = pc[q] /\ loc'[q] = loc[q]
    BY <1>5, HandleMoves DEF Handle, Persist
  <2>3. pc'[r] = "tx_rollback" /\ pc[r] \in {"tx_order", "tx_items"}
    BY <1>0, <1>5 DEF InsertFails
  <2>4. CASE pc[r] = "tx_order"
    <3>1. loc[r].no = 0 /\ nextNo \in Nat \ {0}
      BY <2>4 DEF FailInv, FailLocal, Counted, Failing, TypeInv, TypeOK
    <3>2. RowsOf(rows, 0) = {}
      BY DEF TxInv, Numbered, FailInv, RowsOf
    <3>3. FailLocal(r)'
      BY <2>1, <2>3, <3>1, <3>2 DEF FailLocal, Counted, Failing
    <3>4. \A q \in Requests : pc[q] = "tx_items" => loc'[r].no # loc[q].no
      BY <2>1, <3>1 DEF FailInv, FailLocal
    <3>. QED  BY <2>1, <2>2, <2>3, <3>3, <3>4, FailStays
  <2>5. CASE pc[r] = "tx_items"
    <3>1. loc[r].no < nextNo /\ RowsOf(rows, loc[r].no) = {}
      BY <2>5 DEF TxInv, TxLocal
    <3>3. FailLocal(r)'
      BY <2>1, <2>3, <3>1 DEF FailLocal, Counted, Failing
    <3>4. \A q \in Requests : q # r /\ pc[q] = "tx_items" => loc'[r].no # loc[q].no
      BY <2>1, <2>5 DEF TxInv, OwnNumbers
    <3>. QED  BY <2>1, <2>2, <2>3, <3>3, <3>4, FailStays
  <2>. QED  BY <2>3, <2>4, <2>5
<1>6. ASSUME NEW r \in Requests, InsertItemRow(r)
      PROVE  FailInv'
  <2>1. UNCHANGED <<rows, nextNo, asked>>
    BY <1>6, TxInsertItemRow DEF InsertItemRow
  <2>2. \A q \in Requests : q # r => pc'[q] = pc[q] /\ loc'[q] = loc[q]
    BY <1>6, HandleMoves DEF Handle, Persist
  <2>3. pc[r] = "tx_items" /\ pc'[r] = "tx_items" /\ loc'[r].no = loc[r].no
    BY <1>0, <1>6 DEF InsertItemRow, Locals
  <2>4. FailLocal(r)'
    BY <2>3 DEF FailInv, FailLocal, Counted, Failing
  <2>. QED  BY <2>1, <2>2, <2>3, <2>4, FailStays DEF Failing
<1>7. ASSUME NEW r \in Requests, Persist(r)
      PROVE  FailInv'
  BY <1>2, <1>3, <1>4, <1>5, <1>6, <1>7, FailNumber, FailCommit
  DEF Persist, CommitFails, RollbackRefused
<1>8. CASE \/ \E s \in Sessions : Abort(s) \/ Invalidate(s)
           \/ UNCHANGED vars
  <2>1. UNCHANGED <<pc, loc, rows, nextNo, asked>>
    BY <1>8 DEF Abort, Invalidate, vars, dbVars
  <2>. QED  BY <2>1 DEF FailInv, FailLocal, RowsOf
<1>. QED  BY <1>2, <1>7, <1>8 DEF Next, Handle

LEMMA FailShowsNothing ==
  ASSUME TypeInv, TypeInv', TxInv, FailInv, {"commit", "close", "refused"} \cap Faults = {},
         [Next]_vars, NEW r \in Requests, pc[r] \in InTransaction, pc'[r] = "idle"
  PROVE  RowsOf(rows', loc[r].no) = {}
<1>0. pc \in [Requests -> Places]
  BY DEF TypeInv, TypeOK
<1>1. ~ (UNCHANGED vars \/ \E s \in Sessions : Abort(s) \/ Invalidate(s))
  BY DEF vars, Abort, Invalidate, InTransaction
<1>2. ASSUME NEW q \in Requests, Arrive(q) \/ Stray(q)
      PROVE  FALSE
  BY <1>2, OutsideSteps DEF InTransaction
<1>3. ASSUME NEW q \in Requests, Handle(q)
      PROVE  Persist(r)
  <2>1. q = r
    BY <1>3, HandleMoves DEF InTransaction
  <2>. QED  BY <1>3, <2>1, OutsideSteps DEF Handle
<1>4. Persist(r)
  BY <1>1, <1>2, <1>3 DEF Next
<1>5. ~ (BeginTx(r) \/ ConnectFails(r) \/ InsertOrderRow(r) \/ InsertItemRow(r)
         \/ InsertFails(r) \/ Commit(r) \/ Rollback(r) \/ CloseDone(r))
  BY <1>0 DEF BeginTx, ConnectFails, InsertOrderRow, InsertItemRow, InsertFails, Commit,
     Rollback, CloseDone, Goto, InTransaction
<1>6. RollbackFails(r) \/ CloseFailed(r)
  BY <1>4, <1>5 DEF Persist, CommitFails, CloseThrows, RollbackRefused
<1>7. pc[r] \in Failing /\ UNCHANGED rows
  BY <1>6, TxEnds DEF RollbackFails, CloseFailed, Failing
<1>. QED  BY <1>7 DEF FailInv, FailLocal, RowsOf

(* A request that ends with the error of persistOrder has left no row,     *)
(* where the database neither loses the answer to a commit, nor fails to   *)
(* take a connection back, nor refuses a rollback and keeps the rows.      *)
THEOREM FailedLeavesNothing ==
  {"commit", "close", "refused"} \cap Faults = {} => (Spec => FailedMeansRolledBack)
<1> SUFFICES ASSUME {"commit", "close", "refused"} \cap Faults = {}
             PROVE  Spec => FailedMeansRolledBack
  OBVIOUS
<1>0. Undone
  BY DEF Undone
<1>1. Init => FailInv
  BY DEF Init, FailInv, FailLocal, Failing, Blank
<1>2. TypeInv /\ TypeInv' /\ TxInv /\ TxInv' /\ FailInv /\ [Next]_vars => FailInv'
  BY FailStep
<1>3. TypeInv /\ TypeInv' /\ TxInv /\ FailInv /\ [Next]_vars
      => [\A r \in Requests : pc[r] \in InTransaction /\ pc'[r] = "idle" =>
            RowsOf(rows', loc[r].no) = {}]_vars
  BY FailShowsNothing
<1>. QED
  BY <1>0, <1>1, <1>2, <1>3, Invariance, TxInvariance, PTL DEF Spec, FailedMeansRolledBack
=============================================================================
