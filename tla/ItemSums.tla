------------------------------ MODULE ItemSums ------------------------------
(***************************************************************************)
(* Sums over finite sets, as the loops of ShoppingCart.getSubtotal() and   *)
(* of the order's items compute them: a total that starts at 0 and grows   *)
(* by the amount of one element after the other.  A function g "sums f     *)
(* over S" when g[s] is the sum over every subset s of S.                  *)
(*                                                                         *)
(* Facts that one would show by induction over the set are shown by        *)
(* looking at a smallest subset that violates them: subsets of a finite    *)
(* set are well-founded under inclusion.                                   *)
(***************************************************************************)
EXTENDS Integers, FiniteSets, FiniteSetsExt, FiniteSetTheorems, TLAPS

(* Among any subsets of a finite set some are smallest.                    *)
LEMMA MinimalFinite ==
  ASSUME NEW S, IsFiniteSet(S), NEW W \in SUBSET (SUBSET S), W # {}
  PROVE  \E m \in W : \A t \in W : t \subseteq m => t = m
<1>1. FiniteSubsetsOf(S) = SUBSET S
  BY FS_FiniteSubsetsOfFinite
<1>2. IsWellFoundedOn(StrictSubsetOrdering(S), SUBSET S)
  BY <1>1, FS_StrictSubsetOrderingWellFounded
<1>3. PICK m \in W : \A t \in W : ~ (<<t, m>> \in StrictSubsetOrdering(S))
  BY <1>2, WFMin
<1>. QED  BY <1>3 DEF StrictSubsetOrdering

-----------------------------------------------------------------------------
(* One round: the amount of an element on top of the sum over the others   *)
Any(s) == CHOOSE x \in s : TRUE
Round(f, g, s) == IF s = {} THEN 0 ELSE f[Any(s)] + g[s \ {Any(s)}]
Sums(g, f, S) == g = [s \in SUBSET S |-> Round(f, g, s)]

(* Any picks an element.                                                   *)
LEMMA AnyIn == ASSUME NEW s, s # {} PROVE Any(s) \in s
BY DEF Any

(* Sums over the same elements are equal, whichever set they were made for. *)
LEMMA SumsAgree ==
  ASSUME NEW S, IsFiniteSet(S), NEW f, NEW g, NEW h,
         NEW s \in SUBSET S, NEW t \in SUBSET S, Sums(g, f, s), Sums(h, f, t),
         NEW u \in SUBSET S, u \subseteq s, u \subseteq t
  PROVE  g[u] = h[u]
<1> DEFINE W == {v \in SUBSET u : g[v] # h[v]}
<1> SUFFICES ASSUME W # {}
             PROVE  FALSE
  OBVIOUS
<1>2. PICK m \in W : \A v \in W : v \subseteq m => v = m
  <2>1. W \in SUBSET (SUBSET S)
    OBVIOUS
  <2> HIDE DEF W
  <2>. QED  BY <2>1, MinimalFinite
<1>3. g[m] = Round(f, g, m) /\ h[m] = Round(f, h, m)
  BY DEF Sums
<1>4. CASE m = {}
  BY <1>3, <1>4 DEF Round
<1>5. CASE m # {}
  <2>1. Any(m) \in m
    BY <1>5, AnyIn
  <2>2. m \ {Any(m)} \notin W
    BY <1>2, <2>1
  <2>3. g[m \ {Any(m)}] = h[m \ {Any(m)}]
    BY <2>2
  <2>. QED  BY <1>3, <1>5, <2>3 DEF Round
<1>. QED  BY <1>4, <1>5

(* Every function can be summed over every finite set.                     *)
LEMMA SumsExist ==
  ASSUME NEW S, IsFiniteSet(S), NEW f
  PROVE  \E g : Sums(g, f, S)
<1> DEFINE W == {s \in SUBSET S : ~ \E g : Sums(g, f, s)}
<1> SUFFICES ASSUME W # {}
             PROVE  FALSE
  OBVIOUS
<1>1. PICK m \in W : \A v \in W : v \subseteq m => v = m
  <2>1. W \in SUBSET (SUBSET S)
    OBVIOUS
  <2> HIDE DEF W
  <2>. QED  BY <2>1, MinimalFinite
<1> DEFINE G(v) == (CHOOSE t : Sums(t, f, v))[v]
           new == [u \in SUBSET m |-> IF u = {} THEN 0 ELSE f[Any(u)] + G(u \ {Any(u)})]
<1>2. ASSUME NEW v \in SUBSET m, v # m
      PROVE  Sums(CHOOSE t : Sums(t, f, v), f, v)
  <2>1. v \notin W
    BY <1>1, <1>2
  <2>. QED  BY <2>1
<1>3. ASSUME NEW v \in SUBSET m, v # m
      PROVE  new[v] = G(v)
  <2>1. CASE v = {}
    <3> DEFINE g == CHOOSE t : Sums(t, f, v)
    <3>1. Sums(g, f, v)
      BY <1>2, <1>3
    <3> HIDE DEF g
    <3>2. g[v] = 0
      BY <2>1, <3>1 DEF Sums, Round
    <3>. QED  BY <2>1, <3>2 DEF g
  <2>2. CASE v # {}
    <3> DEFINE w == v \ {Any(v)}
    <3>1. Any(v) \in v /\ w \subseteq v /\ w # m /\ w \in SUBSET m
      BY <2>2, AnyIn
    <3> DEFINE g == CHOOSE t : Sums(t, f, v)
               h == CHOOSE t : Sums(t, f, w)
    <3>2. Sums(g, f, v) /\ Sums(h, f, w)
      BY <1>2, <1>3, <3>1
    <3> HIDE DEF g, h
    <3>3. g[w] = h[w]
      BY <3>1, <3>2, SumsAgree
    <3>4. g[v] = f[Any(v)] + g[w]
      BY <2>2, <3>2 DEF Sums, Round
    <3>5. new[v] = f[Any(v)] + h[w]
      BY <2>2 DEF h
    <3>. QED  BY <3>3, <3>4, <3>5 DEF g
  <2>. QED  BY <2>1, <2>2
<1>4. ASSUME NEW u \in SUBSET m
      PROVE  new[u] = Round(f, new, u)
  <2>1. CASE u = {}
    BY <2>1 DEF Round
  <2>2. CASE u # {}
    <3> DEFINE w == u \ {Any(u)}
    <3>1. Any(u) \in u /\ w # m /\ w \in SUBSET m
      BY <2>2, AnyIn
    <3>2. new[w] = G(w)
      BY <1>3, <3>1
    <3>. QED  BY <2>2, <3>2 DEF Round
  <2>. QED  BY <2>1, <2>2
<1>5. Sums(new, f, m)
  <2>1. new = [u \in SUBSET m |-> new[u]]
    OBVIOUS
  <2> HIDE DEF new
  <2>. QED  BY <1>4, <2>1 DEF Sums
<1>. QED  BY <1>1, <1>5

(* Sums of integers are integers.                                          *)
LEMMA SumsType ==
  ASSUME NEW S, IsFiniteSet(S), NEW f, \A x \in S : f[x] \in Int, NEW g, Sums(g, f, S),
         NEW u \in SUBSET S
  PROVE  g[u] \in Int
<1> DEFINE W == {v \in SUBSET S : g[v] \notin Int}
<1> SUFFICES ASSUME W # {}
             PROVE  FALSE
  OBVIOUS
<1>1. PICK m \in W : \A v \in W : v \subseteq m => v = m
  <2>1. W \in SUBSET (SUBSET S)
    OBVIOUS
  <2> HIDE DEF W
  <2>. QED  BY <2>1, MinimalFinite
<1>2. g[m] = Round(f, g, m)
  BY DEF Sums
<1>3. m # {}
  BY <1>2 DEF Round
<1>4. Any(m) \in m /\ m \ {Any(m)} \notin W
  BY <1>1, <1>3, AnyIn
<1>. QED  BY <1>2, <1>3, <1>4 DEF Round

(* The elements may be added in any order: the last one to be added to the *)
(* sum over u can be any element of u.                                     *)
LEMMA SumsAnyOrder ==
  ASSUME NEW S, IsFiniteSet(S), NEW f, \A x \in S : f[x] \in Int, NEW g, Sums(g, f, S),
         NEW u \in SUBSET S, NEW x \in u
  PROVE  g[u] = f[x] + g[u \ {x}]
<1> DEFINE W == {v \in SUBSET S : \E y \in v : g[v] # f[y] + g[v \ {y}]}
<1> SUFFICES ASSUME W # {}
             PROVE  FALSE
  OBVIOUS
<1>1. PICK m \in W : \A v \in W : v \subseteq m => v = m
  <2>1. W \in SUBSET (SUBSET S)
    OBVIOUS
  <2> HIDE DEF W
  <2>. QED  BY <2>1, MinimalFinite
<1>2. PICK y \in m : g[m] # f[y] + g[m \ {y}]
  OBVIOUS
<1> DEFINE a == Any(m)
           rest == m \ {a}
<1>3. a \in m
  BY <1>2, AnyIn
<1>4. g[m] = f[a] + g[rest]
  BY <1>2 DEF Sums, Round
<1>5. y \in rest
  BY <1>2, <1>3, <1>4
<1> HIDE DEF a
<1>6. g[rest] = f[y] + g[rest \ {y}]
  <2>1. rest # m /\ rest \subseteq m /\ rest \in SUBSET S
    BY <1>3
  <2>2. rest \notin W
    BY <1>1, <2>1
  <2>. QED  BY <1>5, <2>1, <2>2
<1>7. (m \ {y}) \ {a} = rest \ {y} /\ a \in m \ {y}
  BY <1>3, <1>5
<1>8. g[m \ {y}] = f[a] + g[rest \ {y}]
  BY <1>1, <1>2, <1>7
<1>9. f[a] \in Int /\ f[y] \in Int /\ g[rest \ {y}] \in Int
  <2>1. rest \ {y} \in SUBSET S
    OBVIOUS
  <2>. QED  BY <1>2, <1>3, <2>1, SumsType
<1>. QED  BY <1>2, <1>4, <1>6, <1>8, <1>9

(* Sums over two sets whose elements correspond, one to one and with the   *)
(* same amounts, are equal.                                                *)
LEMMA SumsCorrespond ==
  ASSUME NEW S, IsFiniteSet(S), NEW e, NEW g, Sums(g, e, S), \A x \in S : e[x] \in Int,
         NEW T, IsFiniteSet(T), NEW f, NEW h, Sums(h, f, T), \A y \in T : f[y] \in Int,
         NEW to, \A x \in S : to[x] \in T /\ f[to[x]] = e[x],
         \A x, y \in S : to[x] = to[y] => x = y,
         NEW u \in SUBSET S
  PROVE  g[u] = h[{to[x] : x \in u}]
<1> DEFINE W == {v \in SUBSET S : g[v] # h[{to[x] : x \in v}]}
<1> SUFFICES ASSUME W # {}
             PROVE  FALSE
  OBVIOUS
<1>1. PICK m \in W : \A v \in W : v \subseteq m => v = m
  <2>1. W \in SUBSET (SUBSET S)
    OBVIOUS
  <2> HIDE DEF W
  <2>. QED  BY <2>1, MinimalFinite
<1>2. m # {}
  BY DEF Sums, Round
<1>3. PICK x \in m : TRUE
  BY <1>2
<1>4. g[m] = e[x] + g[m \ {x}]
  BY SumsAnyOrder
<1>5. g[m \ {x}] = h[{to[y] : y \in m \ {x}}]
  <2> DEFINE v == m \ {x}
  <2>1. v \in SUBSET S /\ v \subseteq m /\ v # m
    OBVIOUS
  <2> HIDE DEF v
  <2>2. v \notin W
    BY <1>1, <2>1
  <2>3. g[v] = h[{to[y] : y \in v}]
    BY <2>1, <2>2
  <2>. QED  BY <2>3 DEF v
<1>6. {to[y] : y \in m \ {x}} = {to[y] : y \in m} \ {to[x]}
  OBVIOUS
<1>7. {to[y] : y \in m} \in SUBSET T /\ to[x] \in {to[y] : y \in m}
  OBVIOUS
<1>8. h[{to[y] : y \in m}] = f[to[x]] + h[{to[y] : y \in m} \ {to[x]}]
  <2> DEFINE v == {to[y] : y \in m}
             y == to[x]
  <2>1. v \in SUBSET T /\ y \in v
    BY <1>7
  <2> HIDE DEF v, y
  <2>2. h[v] = f[y] + h[v \ {y}]
    BY <2>1, SumsAnyOrder
  <2>. QED  BY <2>2 DEF v, y
<1>. QED  BY <1>4, <1>5, <1>6, <1>8
=============================================================================
