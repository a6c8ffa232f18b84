-------------------------- MODULE ConnPool_proofs --------------------------
(***************************************************************************)
(* Proofs about ConnPool for every pool, every number of requests and      *)
(* every combination of faults.                                            *)
(***************************************************************************)
EXTENDS ConnPool, FiniteSetTheorems, TLAPS

(* Every variable keeps its type. *)
THEOREM Typing == Spec => []TypeOK
<1>1. Init => TypeOK
  BY DEF Init, TypeOK
<1>2. TypeOK /\ [Next]_vars => TypeOK'
  <2> SUFFICES ASSUME TypeOK, [Next]_vars
               PROVE  TypeOK'
    OBVIOUS
  <2> USE DEF TypeOK
  <2>1. ASSUME NEW r \in Requests, Arrive(r)
        PROVE  TypeOK'
    BY <2>1 DEF Arrive, Waiting
  <2>2. ASSUME NEW r \in Requests, Borrow(r)
        PROVE  TypeOK'
    <3>1. Granted(pc[r]) \in Working
      BY <2>2 DEF Borrow, Granted, Waiting, Working
    <3>2. \A c \in Free : c \in Conns
      BY DEF Free
    <3>3. pc' \in [Requests -> {"idle"} \cup Waiting \cup Working]
      BY <2>2, <3>1 DEF Borrow
    <3>4. own' \in [Requests -> SUBSET Conns] /\ lost' \subseteq Conns
      BY <2>2, <3>2 DEF Borrow
    <3>5. left' \in [Requests -> Nat]
      BY <2>2, PoolAssumption DEF Borrow
    <3>6. \A q \in Requests : pc'[q] \in {"wait_inner", "inner"} => left'[q] > 0
      BY <2>2 DEF Borrow, Granted, Waiting
    <3>. QED  BY <3>3, <3>4, <3>5, <3>6
  <2>3. ASSUME NEW r \in Requests, Timeout(r)
        PROVE  TypeOK'
    BY <2>3 DEF Timeout, Finish
  <2>4. ASSUME NEW r \in Requests, OneDone(r) \/ SaveDone(r) \/ ListDone(r)
        PROVE  TypeOK'
    BY <2>4 DEF OneDone, SaveDone, ListDone, Finish
  <2>5. ASSUME NEW r \in Requests, SaveCloseThrows(r)
        PROVE  TypeOK'
    BY <2>5 DEF SaveCloseThrows, Finish
  <2>6. ASSUME NEW r \in Requests, ListNext(r)
        PROVE  TypeOK'
    BY <2>6 DEF ListNext, Waiting
  <2>7. ASSUME NEW r \in Requests, InnerDone(r)
        PROVE  TypeOK'
    BY <2>7 DEF InnerDone, Working
  <2>8. ASSUME NEW r \in Requests, InnerFails(r)
        PROVE  TypeOK'
    BY <2>8 DEF InnerFails, Finish
  <2>9. CASE UNCHANGED vars
    BY <2>9 DEF vars
  <2>. QED
    BY <2>1, <2>2, <2>3, <2>4, <2>5, <2>6, <2>7, <2>8, <2>9 DEF Next, Handle
<1>. QED  BY <1>1, <1>2, PTL DEF Spec

(* No connection is used twice, and none stays behind: the request that    *)
(* borrows takes a free connection, and every exit of a handler gives back *)
(* what its place in the code says it holds.                               *)
THEOREM NoSharingNoLeak == Spec => []Exclusive
<1>1. Init => Exclusive
  BY DEF Init, Exclusive, HoldsWhatItUses
<1>2. TypeOK /\ Exclusive /\ [Next]_vars => Exclusive'
  <2> SUFFICES ASSUME TypeOK, Exclusive, [Next]_vars
               PROVE  Exclusive'
    OBVIOUS
  <2> USE DEF TypeOK
  <2>1. ASSUME NEW r \in Requests, Arrive(r)
        PROVE  Exclusive'
    BY <2>1 DEF Arrive, Exclusive, HoldsWhatItUses, Waiting
  <2>2. ASSUME NEW r \in Requests, Borrow(r)
        PROVE  Exclusive'
    <3>1. PICK c \in Free : own' = [own EXCEPT ![r] = @ \cup {c}]
      BY <2>2 DEF Borrow
    <3>2. c \in Conns /\ c \notin lost /\ \A q \in Requests : c \notin own[q]
      BY DEF Free
    <3>3. ASSUME NEW q \in Requests, NEW t \in Requests, q # t
          PROVE  own'[q] \cap own'[t] = {}
      BY <3>1, <3>2, <3>3 DEF Exclusive
    <3>4. ASSUME NEW q \in Requests
          PROVE  own'[q] \cap lost' = {}
      BY <2>2, <3>1, <3>2 DEF Exclusive, Borrow
    <3>5. ASSUME NEW q \in Requests
          PROVE  HoldsWhatItUses(q)'
      <4>1. CASE q # r
        BY <2>2, <4>1 DEF Borrow, Exclusive, HoldsWhatItUses
      <4>2. CASE q = r /\ pc[r] = "wait_inner"
        <5>1. PICK d \in Conns : own[r] = {d}
          BY <4>2 DEF Exclusive, HoldsWhatItUses
        <5>2. own'[r] = {d, c} /\ d # c /\ pc'[r] = "inner"
          BY <2>2, <3>1, <3>2, <4>2, <5>1 DEF Borrow, Granted
        <5>. QED  BY <3>2, <4>2, <5>2 DEF HoldsWhatItUses
      <4>3. CASE q = r /\ pc[r] # "wait_inner"
        <5>1. own[r] = {} /\ pc'[r] \in {"one", "save", "list"}
          BY <2>2, <4>3 DEF Borrow, Granted, Waiting, Exclusive, HoldsWhatItUses
        <5>2. own'[r] = {c}
          BY <3>1, <5>1
        <5>. QED  BY <3>2, <4>3, <5>1, <5>2 DEF HoldsWhatItUses
      <4>. QED  BY <4>1, <4>2, <4>3
    <3>. QED  BY <3>3, <3>4, <3>5 DEF Exclusive
  <2>3. ASSUME NEW r \in Requests, Finish(r), lost' \subseteq lost \cup own[r]
        PROVE  Exclusive'
    <3>1. \A q \in Requests : q # r => pc'[q] = pc[q] /\ own'[q] = own[q]
      BY <2>3 DEF Finish
    <3>2. pc'[r] = "idle" /\ own'[r] = {}
      BY <2>3 DEF Finish
    <3>3. \A q \in Requests : own'[q] \cap lost' = {}
      BY <2>3, <3>1, <3>2 DEF Exclusive
    <3>4. \A q \in Requests : HoldsWhatItUses(q)'
      BY <3>1, <3>2 DEF Exclusive, HoldsWhatItUses
    <3>. QED  BY <3>1, <3>2, <3>3, <3>4 DEF Exclusive
  <2>4. ASSUME NEW r \in Requests, ListNext(r)
        PROVE  Exclusive'
    BY <2>4 DEF ListNext, Exclusive, HoldsWhatItUses
  <2>5. ASSUME NEW r \in Requests, InnerDone(r)
        PROVE  Exclusive'
    <3>1. PICK c, d \in Conns : c # d /\ own[r] = {c, d}
      BY <2>5 DEF InnerDone, Exclusive, HoldsWhatItUses
    <3>2. \/ own' = [own EXCEPT ![r] = {c}]
          \/ own' = [own EXCEPT ![r] = {d}]
      <4>1. PICK e \in own[r] : own' = [own EXCEPT ![r] = @ \ {e}]
        BY <2>5 DEF InnerDone
      <4>2. own[r] \ {e} = {c} \/ own[r] \ {e} = {d}
        BY <3>1
      <4>. QED  BY <4>1, <4>2
    <3>3. HoldsWhatItUses(r)'
      BY <2>5, <3>2 DEF InnerDone, HoldsWhatItUses
    <3>4. \A q \in Requests : q # r => pc'[q] = pc[q] /\ own'[q] = own[q]
      BY <2>5, <3>2 DEF InnerDone
    <3>5. own'[r] \subseteq own[r] /\ lost' = lost
      BY <2>5, <3>1, <3>2 DEF InnerDone
    <3>6. \A q \in Requests : HoldsWhatItUses(q)'
      BY <3>3, <3>4 DEF Exclusive, HoldsWhatItUses
    <3>7. \A q, t \in Requests : q # t => own'[q] \cap own'[t] = {}
      BY <3>4, <3>5 DEF Exclusive
    <3>8. \A q \in Requests : own'[q] \cap lost' = {}
      BY <3>4, <3>5 DEF Exclusive
    <3>. QED  BY <3>6, <3>7, <3>8 DEF Exclusive
  <2>6. CASE UNCHANGED vars
    BY <2>6 DEF vars, Exclusive, HoldsWhatItUses
  <2>. QED
    BY <2>1, <2>2, <2>3, <2>4, <2>5, <2>6
    DEF Next, Handle, Timeout, OneDone, SaveDone, SaveCloseThrows, InnerFails,
        ListDone
<1>. QED  BY <1>1, <1>2, Typing, PTL DEF Spec

(* If a connection in use always belongs to a request that waits for its   *)
(* second one, no request can own two: the owners are as many as the       *)
(* connections.                                                            *)
LEMMA StuckNeedsAllConnections ==
  ASSUME TypeOK, Exclusive, Stuck
  PROVE  Cardinality(Conns \ lost) <= Cardinality(Requests)
<1> DEFINE Used == Conns \ lost
           owner == [c \in Used |-> CHOOSE r \in Requests : c \in own[r]]
<1>1. \A c \in Used : \E r \in Requests : c \in own[r]
  BY DEF Stuck, Free
<1>2. \A c \in Used : owner[c] \in Requests /\ c \in own[owner[c]]
  BY <1>1
<1>3. \A c, d \in Used : owner[c] = owner[d] => c = d
  <2> SUFFICES ASSUME NEW c \in Used, NEW d \in Used, owner[c] = owner[d]
               PROVE  c = d
    OBVIOUS
  <2>1. c \in own[owner[c]] /\ d \in own[owner[c]] /\ owner[c] \in Requests
    BY <1>2
  <2>2. pc[owner[c]] = "wait_inner"
    BY <2>1 DEF Stuck
  <2>3. PICK e \in Conns : own[owner[c]] = {e}
    BY <2>1, <2>2 DEF Exclusive, HoldsWhatItUses
  <2>. QED  BY <2>1, <2>3
<1>4. IsFiniteSet(Used) /\ Cardinality(Used) \in Nat
  BY PoolAssumption, FS_Difference, FS_CardinalityType
<1>5. Cardinality(Requests) \in Nat
  BY PoolAssumption, FS_CardinalityType
<1>6. ~ (Cardinality(Requests) < Cardinality(Used))
  <2> SUFFICES ASSUME Cardinality(Requests) < Cardinality(Used)
               PROVE  FALSE
    OBVIOUS
  <2>1. owner \in [Used -> Requests]
    BY <1>2
  <2> HIDE DEF owner, Used
  <2>2. \E c, d \in Used : c # d /\ owner[c] = owner[d]
    BY <1>4, <2>1, PoolAssumption, FS_PigeonHole
  <2>. QED  BY <1>3, <2>2
<1>. QED  BY <1>4, <1>5, <1>6

(* With fewer requests than connections that still work, the second        *)
(* getConnection() of getAllOrders() never closes a circle of waiting      *)
(* requests.                                                               *)
THEOREM NoCircularWait == Spec => []NeverStuck
<1>1. TypeOK /\ Exclusive => NeverStuck
  <2> SUFFICES ASSUME TypeOK, Exclusive, Stuck,
                      Cardinality(Requests) + Cardinality(lost)
                        < Cardinality(Conns)
               PROVE  FALSE
    BY DEF NeverStuck
  <2>1. Cardinality(Conns \ lost) <= Cardinality(Requests)
    BY StuckNeedsAllConnections
  <2>2. Conns \cap lost = lost
    BY DEF TypeOK
  <2>3. Cardinality(Conns \ lost) = Cardinality(Conns) - Cardinality(lost)
    BY <2>2, PoolAssumption, FS_Difference
  <2>4. IsFiniteSet(lost)
    BY PoolAssumption, FS_Subset DEF TypeOK
  <2>5. /\ Cardinality(Conns) \in Nat
        /\ Cardinality(lost) \in Nat
        /\ Cardinality(Requests) \in Nat
    BY <2>4, PoolAssumption, FS_CardinalityType
  <2>. QED  BY <2>1, <2>3, <2>5
<1>. QED  BY <1>1, Typing, NoSharingNoLeak, PTL
=============================================================================
