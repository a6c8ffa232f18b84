------------------------------ MODULE ConnPool ------------------------------
(***************************************************************************)
(* The JDBC connections of META-INF/context.xml: at most maxTotal, a       *)
(* request that finds none free waits, and after maxWaitMillis            *)
(* getConnection() throws.  Three kinds of requests borrow:                *)
(*   "one"   a DAO method with a connection in its try-with-resources:     *)
(*           OrderDaoImpl.getOrder(), and all of OssanDaoImpl_Jdbc and     *)
(*           ArticleDaoImpl;                                               *)
(*   "save"  OrderServiceImpl.persistOrder(), which closes in finally;     *)
(*   "list"  OrderDaoImpl.getAllOrders(), which keeps its connection and   *)
(*           result set open while it calls getOrder() for every order.    *)
(* The pool itself (commons-dbcp of Tomcat) is external.                   *)
(***************************************************************************)
EXTENDS Integers, FiniteSets

CONSTANTS
  Requests,     \* the request threads
  Conns,        \* the maxTotal connections of the pool
  MaxOrders,    \* bound: most orders a list request finds
  Faults        \* subset of {"sql", "close"}: the calls that may throw

ASSUME PoolAssumption ==
  /\ IsFiniteSet(Requests)
  /\ IsFiniteSet(Conns)
  /\ MaxOrders \in Nat
  /\ Faults \subseteq {"sql", "close"}

VARIABLES
  pc,     \* pc[r]: where request r is
  own,    \* own[r]: the connections request r has borrowed
  left,   \* left[r]: the orders list request r has still to fetch
  lost    \* connections nobody holds and nobody will return

vars == <<pc, own, left, lost>>

Waiting == {"wait_one", "wait_save", "wait_list", "wait_inner"}
Working == {"one", "save", "list", "inner"}

(* The work that a granted wait begins. *)
Granted(w) == CASE w = "wait_one"  -> "one"
                [] w = "wait_save" -> "save"
                [] w = "wait_list" -> "list"
                [] w = "wait_inner" -> "inner"

Free == (Conns \ UNION {own[r] : r \in Requests}) \ lost

(* The request is over; what it had borrowed is back in the pool. *)
Finish(r) ==
  /\ pc' = [pc EXCEPT ![r] = "idle"]
  /\ own' = [own EXCEPT ![r] = {}]
  /\ left' = [left EXCEPT ![r] = 0]

-----------------------------------------------------------------------------

Arrive(r) ==
  /\ pc[r] = "idle"
  /\ \E w \in Waiting \ {"wait_inner"} : pc' = [pc EXCEPT ![r] = w]
  /\ UNCHANGED <<own, left, lost>>

(* getConnection() returns.  The query of getAllOrders() then finds some   *)
(* number of orders.                                                       *)
Borrow(r) ==
  /\ pc[r] \in Waiting
  /\ \E c \in Free : own' = [own EXCEPT ![r] = @ \cup {c}]
  /\ pc' = [pc EXCEPT ![r] = Granted(@)]
  /\ IF pc[r] = "wait_list"
     THEN \E n \in 0..MaxOrders : left' = [left EXCEPT ![r] = n]
     ELSE UNCHANGED left
  /\ UNCHANGED lost

(* Mutant of Timeout: the connection of getAllOrders() is not closed when  *)
(* getOrder() throws.                                                      *)
TimeoutLeaks(r) ==
  /\ pc[r] \in Waiting
  /\ Free = {}
  /\ pc' = [pc EXCEPT ![r] = "idle"]
  /\ left' = [left EXCEPT ![r] = 0]
  /\ UNCHANGED <<own, lost>>

(* Mutant of Timeout: without maxWaitMillis getOrder() waits forever. *)
TimeoutOuterOnly(r) ==
  /\ pc[r] \in Waiting \ {"wait_inner"}
  /\ Free = {}
  /\ Finish(r)
  /\ UNCHANGED lost

(* maxWaitMillis is over: SQLException.  try-with-resources closes what    *)
(* the request holds already.                                              *)
Timeout(r) ==
  /\ pc[r] \in Waiting
  /\ Free = {}
  /\ Finish(r)
  /\ UNCHANGED lost

-----------------------------------------------------------------------------

(* A method with one connection returns, or throws, and has closed it.     *)
OneDone(r) ==
  /\ pc[r] = "one"
  /\ Finish(r)
  /\ UNCHANGED lost

SaveDone(r) ==
  /\ pc[r] = "save"
  /\ Finish(r)
  /\ UNCHANGED lost

(* In the finally block of persistOrder() setAutoCommit(true) throws - the *)
(* connection is dead - and close() is never reached.                      *)
SaveCloseThrows(r) ==
  /\ "close" \in Faults
  /\ pc[r] = "save"
  /\ lost' = lost \cup own[r]
  /\ Finish(r)

(* Mutant of ListNext: the result set is read past its end. *)
ListNextPastEnd(r) ==
  /\ pc[r] = "list"
  /\ pc' = [pc EXCEPT ![r] = "wait_inner"]
  /\ UNCHANGED <<own, left, lost>>

(* getAllOrders(): rs.next(), getOrder(no) *)
ListNext(r) ==
  /\ pc[r] = "list"
  /\ left[r] > 0
  /\ pc' = [pc EXCEPT ![r] = "wait_inner"]
  /\ UNCHANGED <<own, left, lost>>

(* Mutant of InnerDone: getOrder() does not close its connection. *)
InnerKeeps(r) ==
  /\ pc[r] = "inner"
  /\ pc' = [pc EXCEPT ![r] = "list"]
  /\ left' = [left EXCEPT ![r] = @ - 1]
  /\ UNCHANGED <<own, lost>>

(* getOrder() closes one of the two connections. *)
InnerDone(r) ==
  /\ pc[r] = "inner"
  /\ \E c \in own[r] : own' = [own EXCEPT ![r] = @ \ {c}]
  /\ pc' = [pc EXCEPT ![r] = "list"]
  /\ left' = [left EXCEPT ![r] = @ - 1]
  /\ UNCHANGED lost

(* getOrder() throws; getAllOrders() lets the exception through.           *)
InnerFails(r) ==
  /\ "sql" \in Faults
  /\ pc[r] = "inner"
  /\ Finish(r)
  /\ UNCHANGED lost

ListDone(r) ==
  /\ pc[r] = "list"
  /\ left[r] = 0
  /\ Finish(r)
  /\ UNCHANGED lost

-----------------------------------------------------------------------------

Init ==
  /\ pc = [r \in Requests |-> "idle"]
  /\ own = [r \in Requests |-> {}]
  /\ left = [r \in Requests |-> 0]
  /\ lost = {}

Handle(r) ==
  \/ Borrow(r) \/ Timeout(r)
  \/ OneDone(r) \/ SaveDone(r) \/ SaveCloseThrows(r)
  \/ ListNext(r) \/ InnerDone(r) \/ InnerFails(r) \/ ListDone(r)

Next == \E r \in Requests : Arrive(r) \/ Handle(r)

Spec == Init /\ [][Next]_vars

(* Tomcat runs every thread, and the pool's timer wakes every waiting one. *)
FairSpec == Spec /\ \A r \in Requests : WF_vars(Handle(r))

-----------------------------------------------------------------------------
(* Properties *)

TypeOK ==
  /\ pc \in [Requests -> {"idle"} \cup Waiting \cup Working]
  /\ own \in [Requests -> SUBSET Conns]
  /\ left \in [Requests -> Nat]
  /\ \A r \in Requests : pc[r] \in {"wait_inner", "inner"} => left[r] > 0
  /\ lost \subseteq Conns

(* What request r holds at its place in the code. *)
HoldsWhatItUses(r) ==
  /\ pc[r] \in {"idle", "wait_one", "wait_save", "wait_list"} => own[r] = {}
  /\ pc[r] \in {"one", "save", "list", "wait_inner"} =>
       \E c \in Conns : own[r] = {c}
  /\ pc[r] = "inner" => \E c, d \in Conns : c # d /\ own[r] = {c, d}

(* A connection is never used by two requests, and a request holds exactly *)
(* what its code is using: every exit of getAllOrders(), the timeout       *)
(* inside getOrder() included, returns both connections.                   *)
Exclusive ==
  /\ \A r, q \in Requests : r # q => own[r] \cap own[q] = {}
  /\ \A r \in Requests : own[r] \cap lost = {} /\ HoldsWhatItUses(r)

(* Every connection in the hands of a request that waits for another one.  *)
Stuck ==
  /\ Conns # lost
  /\ Free = {}
  /\ \A r \in Requests : own[r] # {} => pc[r] = "wait_inner"

(* With fewer requests than usable connections the nested getConnection()  *)
(* of getAllOrders() cannot make the requests wait for each other; with as *)
(* many (8 of them, context.xml:30) only maxWaitMillis resolves it.        *)
NeverStuck ==
  Cardinality(Requests) + Cardinality(lost) < Cardinality(Conns) => ~ Stuck

(* Every request is answered, if only with an exception, although          *)
(* getAllOrders() holds a connection and waits for another one.            *)
Answered == \A r \in Requests : pc[r] # "idle" ~> pc[r] = "idle"
=============================================================================
