--------------------------- MODULE Paging_proofs ---------------------------
(***************************************************************************)
(* Proofs about Paging, for every number of visitors, threads and rows.    *)
(***************************************************************************)
EXTENDS Paging, FiniteSetTheorems, TLAPS

-----------------------------------------------------------------------------
(* Ranks and numbers of pages *)

LEMMA NosFinite == \A S \in SUBSET Nos : IsFiniteSet(S) /\ Cardinality(S) \in Nat
<1>1. IsFiniteSet(Nos)
  BY PagingAssumption, FS_Interval DEF Nos
<1>. QED  BY <1>1, FS_Subset, FS_CardinalityType

LEMMA MoreRows ==
  ASSUME NEW S \in SUBSET Nos, NEW T \in SUBSET Nos, S \subseteq T
  PROVE  Cardinality(S) <= Cardinality(T)
BY NosFinite, FS_Subset

LEMMA RankBounds ==
  ASSUME NEW l, NEW S \in SUBSET Nos, NEW x \in S
  PROVE  /\ Rank(l, S, x) \in Nat
         /\ 1 <= Rank(l, S, x) /\ Rank(l, S, x) <= Cardinality(S)
<1> DEFINE R == {y \in S : IF l = "articles" THEN y >= x ELSE y <= x}
<1>0. x \in Int /\ x >= x /\ x <= x
  BY PagingAssumption DEF Nos
<1>1. R \in SUBSET Nos /\ R \subseteq S /\ x \in R
  BY <1>0
<1>2. Cardinality(R) \in Nat /\ Cardinality(R) <= Cardinality(S) /\ IsFiniteSet(R)
  BY <1>1, NosFinite, MoreRows
<1>3. Cardinality(R) # 0
  BY <1>1, <1>2, FS_EmptySet
<1>4. Rank(l, S, x) = Cardinality(R)
  BY DEF Rank
<1> HIDE DEF R
<1>. QED  BY <1>2, <1>3, <1>4

(* More rows, in whatever place, leave a row where it is or move it on.    *)
LEMMA RankGrows ==
  ASSUME NEW l, NEW S \in SUBSET Nos, NEW T \in SUBSET Nos, S \subseteq T, NEW x \in S
  PROVE  Rank(l, S, x) <= Rank(l, T, x)
<1> DEFINE R(A) == {y \in A : IF l = "articles" THEN y >= x ELSE y <= x}
<1>1. R(S) \in SUBSET Nos /\ R(T) \in SUBSET Nos /\ R(S) \subseteq R(T)
  OBVIOUS
<1>2. Rank(l, S, x) = Cardinality(R(S)) /\ Rank(l, T, x) = Cardinality(R(T))
  BY DEF Rank
<1> HIDE DEF R
<1>. QED  BY <1>1, <1>2, MoreRows

(* Pages of any size, and the division that counts them *)
LEMMA Multiples ==
  ASSUME NEW n \in Int
  PROVE  /\ n * PerPage \in Int
         /\ (n - 1) * PerPage + PerPage = n * PerPage
         /\ (n + 1) * PerPage = n * PerPage + PerPage
BY PagingAssumption

LEMMA MultiplesRise ==
  ASSUME NEW m \in Int, NEW n \in Int, m <= n
  PROVE  m * PerPage <= n * PerPage
BY PagingAssumption

LEMMA RoundedUp ==
  ASSUME NEW S \in SUBSET Nos
  PROVE  /\ TotalPages(S) \in Int
         /\ TotalPages(S) * PerPage <= Cardinality(S) + PerPage - 1
         /\ Cardinality(S) + PerPage - 1 < TotalPages(S) * PerPage + PerPage
BY NosFinite, PagingAssumption DEF TotalPages

(* The pages hold what there is, and there is a page if there is anything. *)
LEMMA Pages ==
  ASSUME NEW S \in SUBSET Nos
  PROVE  /\ TotalPages(S) \in Nat
         /\ Cardinality(S) <= TotalPages(S) * PerPage
         /\ S # {} => 1 <= TotalPages(S)
<1> DEFINE n == TotalPages(S)
<1>1. Cardinality(S) \in Nat /\ (S # {} => Cardinality(S) # 0)
  BY NosFinite, FS_EmptySet
<1>2. n \in Int /\ Cardinality(S) + PerPage - 1 < n * PerPage + PerPage
  BY RoundedUp
<1> HIDE DEF n
<1>3. Cardinality(S) <= n * PerPage
  BY <1>1, <1>2, Multiples, PagingAssumption
<1>4. 0 * PerPage = 0 /\ (-1) * PerPage = - PerPage
  BY PagingAssumption
<1>5. n >= 0
  <2>1. n <= -1 => n * PerPage <= - PerPage
    BY <1>2, <1>4, MultiplesRise
  <2>. QED  BY <1>1, <1>2, <1>3, <2>1, PagingAssumption
<1>6. S # {} => n # 0
  BY <1>1, <1>3, <1>4
<1>. QED  BY <1>2, <1>3, <1>5, <1>6 DEF n

LEMMA MorePages ==
  ASSUME NEW S \in SUBSET Nos, NEW T \in SUBSET Nos, S \subseteq T
  PROVE  TotalPages(S) <= TotalPages(T)
<1> DEFINE m == TotalPages(S)
           n == TotalPages(T)
<1>1. Cardinality(S) \in Nat /\ Cardinality(T) \in Nat /\ Cardinality(S) <= Cardinality(T)
  BY NosFinite, MoreRows
<1>2. /\ m \in Int /\ m * PerPage <= Cardinality(S) + PerPage - 1
      /\ n \in Int /\ Cardinality(T) + PerPage - 1 < n * PerPage + PerPage
  BY RoundedUp
<1> HIDE DEF m, n
<1>3. m * PerPage < (n + 1) * PerPage
  BY <1>1, <1>2, Multiples, PagingAssumption
<1>4. ~ n + 1 <= m
  BY <1>2, <1>3, MultiplesRise, Multiples
<1>. QED  BY <1>2, <1>4 DEF m, n

-----------------------------------------------------------------------------
(* Types *)

Fits(place, l) ==
  /\ place # "idle" => l.visitor \in Visitors /\ l.list \in Lists
  /\ place = "idle" => l.visitor = Null /\ l.list = Null

(* A thread that is free serves nobody; rows are numbered as they come.    *)
Typed ==
  /\ TypeOK
  /\ \A r \in Requests : Fits(pc[r], loc[r])
  /\ \A t \in Tables : items[t] \subseteq 1..(nextNo[t] - 1)

LEMMA ListedRows ==
  ASSUME TypeOK, NEW l \in Lists
  PROVE  Table(l) \in Tables /\ Listed(l) \in SUBSET Nos
BY DEF TypeOK, Table, Tables, Listed

LEMMA Moves ==
  ASSUME Typed, NEW r \in Requests, NEW place \in Places, NEW l \in Locals,
         Fits(place, l),
         pc' = [pc EXCEPT ![r] = place], loc' = [loc EXCEPT ![r] = l]
  PROVE  /\ pc' \in [Requests -> Places] /\ loc' \in [Requests -> Locals]
         /\ \A u \in Requests : Fits(pc'[u], loc'[u])
         /\ \A u \in Requests : u # r => pc'[u] = pc[u] /\ loc'[u] = loc[u]
         /\ pc'[r] = place /\ loc'[r] = l
<1>1. pc' \in [Requests -> Places] /\ loc' \in [Requests -> Locals]
  BY DEF Typed, TypeOK
<1>2. /\ \A u \in Requests : u # r => pc'[u] = pc[u] /\ loc'[u] = loc[u]
      /\ pc'[r] = place /\ loc'[r] = l
  BY DEF Typed, TypeOK
<1>3. \A u \in Requests : Fits(pc'[u], loc'[u])
  BY <1>2 DEF Typed
<1>. QED  BY <1>1, <1>2, <1>3

LEMMA BlankFits == Blank \in Locals /\ Fits("idle", Blank) /\ "idle" \in Places
BY PagingAssumption DEF Blank, Locals, Numbers, Fits, Places

LEMMA Responds ==
  ASSUME Typed, NEW r \in Requests, Respond(r)
  PROVE  /\ pc' \in [Requests -> Places] /\ loc' \in [Requests -> Locals]
         /\ \A u \in Requests : Fits(pc'[u], loc'[u])
         /\ \A u \in Requests : u # r => pc'[u] = pc[u] /\ loc'[u] = loc[u]
         /\ pc'[r] = "idle" /\ loc'[r] = Blank
BY BlankFits, Moves DEF Respond

LEMMA Asks ==
  ASSUME Typed, NEW r \in Requests, NEW v \in Visitors, NEW l \in Lists,
         NEW n \in Nat, Ask(r, v, l, n)
  PROVE  /\ Typed'
         /\ \A u \in Requests : u # r => pc'[u] = pc[u] /\ loc'[u] = loc[u]
         /\ pc'[r] = "first"
         /\ loc'[r].visitor = v /\ loc'[r].list = l /\ loc'[r].asked = n
         /\ loc'[r].members = {}
<1> DEFINE new == [Blank EXCEPT !.visitor = v, !.list = l, !.asked = n]
<1>n. n \in Numbers
  BY PagingAssumption DEF Ask, Numbers
<1>b. new.visitor = v /\ new.list = l /\ new.asked = n /\ new.members = {}
  BY DEF Blank
<1>1. new \in Locals /\ Fits("first", new) /\ "first" \in Places
  BY <1>n, BlankFits DEF Blank, Locals, Fits, Places
<1>2. pc' = [pc EXCEPT ![r] = "first"] /\ loc' = [loc EXCEPT ![r] = new]
  BY DEF Ask
<1>3. field' \in [Lists -> Numbers]
  BY <1>n DEF Ask, Typed, TypeOK
<1>4. Listed(l) \in SUBSET Nos
  BY ListedRows DEF Typed
<1>5. missed' \in [Visitors -> (SUBSET Nos) \cup {Null}]
  BY <1>4 DEF Ask, Typed, TypeOK
<1>6. UNCHANGED <<items, nextNo, open, shown, cookie>>
  BY DEF Ask, rowVars
<1> HIDE DEF new
<1>7. /\ pc' \in [Requests -> Places] /\ loc' \in [Requests -> Locals]
      /\ \A u \in Requests : Fits(pc'[u], loc'[u])
      /\ \A u \in Requests : u # r => pc'[u] = pc[u] /\ loc'[u] = loc[u]
      /\ pc'[r] = "first" /\ loc'[r] = new
  BY <1>1, <1>2, Moves
<1>8. Typed'
  BY <1>3, <1>5, <1>6, <1>7 DEF Typed, TypeOK
<1>. QED  BY <1>b, <1>7, <1>8

(* Every link asks for a page, of the list that is shown or of the menu.   *)
LEMMA Clicks ==
  ASSUME Typed, NEW r \in Requests, NEW v \in Visitors, Click(r, v)
  PROVE  \E l \in Lists, n \in Nat :
           /\ Ask(r, v, l, n)
           /\ \/ n = 1
              \/ /\ OnPage(v) /\ shown[v].list = l
                 /\ \/ n >= 1 /\ n + 1 = shown[v].number
                    \/ shown[v].number # shown[v].total
                       /\ n \in {shown[v].number + 1, shown[v].total}
              \/ l \in HasCookie /\ cookie[v][l] # Null /\ n = cookie[v][l]
<1>1. OnPage(v) => shown[v] \in Shown
  BY DEF OnPage, Typed, TypeOK
<1>2. OnPage(v) => /\ shown[v].list \in Lists /\ shown[v].number \in Nat
                   /\ shown[v].total \in Nat
  BY <1>1 DEF Shown, Numbers
<1>3. CASE FirstLink(r, v)
  BY <1>2, <1>3 DEF FirstLink
<1>4. CASE PrevLink(r, v)
  <2>1. /\ shown[v].number - 1 \in Nat /\ shown[v].number - 1 >= 1
        /\ (shown[v].number - 1) + 1 = shown[v].number
    BY <1>2, <1>4 DEF PrevLink
  <2>. QED  BY <1>2, <1>4, <2>1 DEF PrevLink
<1>5. CASE NextLink(r, v)
  <2>1. shown[v].number + 1 \in Nat
    BY <1>2, <1>5 DEF NextLink
  <2>. QED  BY <1>2, <1>5, <2>1 DEF NextLink
<1>6. CASE LastLink(r, v)
  BY <1>2, <1>6 DEF LastLink
<1>7. ASSUME NEW l \in Lists, Menu(r, v, l)
      PROVE  \/ Ask(r, v, l, 1)
             \/ /\ l \in HasCookie /\ cookie[v][l] # Null /\ cookie[v][l] \in Nat
                /\ Ask(r, v, l, cookie[v][l])
  BY <1>7 DEF Menu, Typed, TypeOK, Numbers
<1>. QED  BY <1>3, <1>4, <1>5, <1>6, <1>7 DEF Click

(* A request goes on: it keeps its visitor, its list and what was asked.   *)
LEMMA GoesOn ==
  ASSUME Typed, NEW r \in Requests, pc[r] # "idle", NEW place \in Places \ {"idle"},
         NEW l \in Locals, l.visitor = loc[r].visitor, l.list = loc[r].list,
         pc' = [pc EXCEPT ![r] = place], loc' = [loc EXCEPT ![r] = l],
         UNCHANGED <<field, rowVars, viewVars>>
  PROVE  /\ Typed'
         /\ \A u \in Requests : u # r => pc'[u] = pc[u] /\ loc'[u] = loc[u]
         /\ pc'[r] = place /\ loc'[r] = l
<1>1. Fits(place, l)
  BY DEF Typed, Fits
<1>. QED  BY <1>1, Moves DEF Typed, TypeOK, rowVars, viewVars

LEMMA Serving ==
  ASSUME Typed, NEW r \in Requests, pc[r] # "idle"
  PROVE  /\ loc[r] \in Locals /\ loc[r].visitor \in Visitors /\ loc[r].list \in Lists
         /\ Table(loc[r].list) \in Tables /\ Listed(loc[r].list) \in SUBSET Nos
         /\ field[loc[r].list] \in Numbers
         /\ \A n : Page(loc[r].list, Listed(loc[r].list), n) \in SUBSET Nos
<1>1. loc[r] \in Locals /\ loc[r].visitor \in Visitors /\ loc[r].list \in Lists
  BY DEF Typed, TypeOK, Fits
<1>2. Table(loc[r].list) \in Tables /\ Listed(loc[r].list) \in SUBSET Nos
  BY <1>1, ListedRows DEF Typed
<1>. QED  BY <1>1, <1>2 DEF Typed, TypeOK, Page

LEMMA First ==
  ASSUME Typed, NEW r \in Requests, FirstQuery(r)
  PROVE  /\ Typed'
         /\ \A u \in Requests : u # r => pc'[u] = pc[u] /\ loc'[u] = loc[u]
         /\ pc'[r] = IF loc[r].list = "articles" THEN "number" ELSE "second"
         /\ loc'[r] = [loc[r] EXCEPT
              !.no = field[loc[r].list],
              !.quotes = IF loc[r].list \in HasCookie
                         THEN Page(loc[r].list, Listed(loc[r].list), field[loc[r].list])
                         ELSE {},
              !.members = IF loc[r].list \in HasCookie THEN {}
                          ELSE Page(loc[r].list, Listed(loc[r].list), field[loc[r].list])]
<1> DEFINE l == [loc[r] EXCEPT
              !.no = field[loc[r].list],
              !.quotes = IF loc[r].list \in HasCookie
                         THEN Page(loc[r].list, Listed(loc[r].list), field[loc[r].list])
                         ELSE {},
              !.members = IF loc[r].list \in HasCookie THEN {}
                          ELSE Page(loc[r].list, Listed(loc[r].list), field[loc[r].list])]
           place == IF loc[r].list = "articles" THEN "number" ELSE "second"
<1>1. pc[r] # "idle" /\ place \in Places \ {"idle"}
  BY DEF FirstQuery, Places
<1>2. l \in Locals /\ l.visitor = loc[r].visitor /\ l.list = loc[r].list
  BY <1>1, Serving DEF Locals
<1>3. /\ pc' = [pc EXCEPT ![r] = place] /\ loc' = [loc EXCEPT ![r] = l]
      /\ UNCHANGED <<field, rowVars, viewVars>>
  BY DEF FirstQuery, Typed, TypeOK
<1> HIDE DEF l, place
<1>4. /\ Typed'
      /\ \A u \in Requests : u # r => pc'[u] = pc[u] /\ loc'[u] = loc[u]
      /\ pc'[r] = place /\ loc'[r] = l
  BY <1>1, <1>2, <1>3, GoesOn
<1>. QED  BY <1>4 DEF l, place

LEMMA ByHibernate ==
  ASSUME NEW l, NEW S \in SUBSET Nos, NEW n, NEW P \in PagesByHibernate(l, S, n)
  PROVE  P \in SUBSET Nos
BY DEF PagesByHibernate, Page

LEMMA Second ==
  ASSUME Typed, NEW r \in Requests, SecondQuery(r)
  PROVE  /\ Typed'
         /\ \A u \in Requests : u # r => pc'[u] = pc[u] /\ loc'[u] = loc[u]
         /\ pc'[r] = "number"
         /\ \/ /\ loc[r].list = "ossans"
               /\ \E page \in PagesByHibernate(loc[r].list, Listed(loc[r].list),
                                               field[loc[r].list]) :
                    loc'[r] = [loc[r] EXCEPT !.no = field[loc[r].list], !.members = page]
            \/ /\ loc[r].list = "north"
               /\ loc'[r] = [loc[r] EXCEPT
                    !.members = Page(loc[r].list, Listed(loc[r].list), loc[r].no)]
            \/ /\ loc[r].list = "maintain"
               /\ loc'[r] = [loc[r] EXCEPT
                    !.quotes = Page(loc[r].list, Listed(loc[r].list), loc[r].no)]
<1>0. pc[r] # "idle" /\ "number" \in Places \ {"idle"}
  BY DEF SecondQuery, Places
<1>1. ASSUME NEW l \in Locals, l.visitor = loc[r].visitor, l.list = loc[r].list,
             loc' = [loc EXCEPT ![r] = l]
      PROVE  /\ Typed'
             /\ \A u \in Requests : u # r => pc'[u] = pc[u] /\ loc'[u] = loc[u]
             /\ pc'[r] = "number" /\ loc'[r] = l
  <2>1. pc' = [pc EXCEPT ![r] = "number"] /\ UNCHANGED <<field, rowVars, viewVars>>
    BY DEF SecondQuery
  <2>. QED  BY <1>0, <1>1, <2>1, GoesOn
<1>2. ASSUME loc[r].list = "ossans",
             NEW page \in PagesByHibernate(loc[r].list, Listed(loc[r].list), field[loc[r].list]),
             loc' = [loc EXCEPT ![r].no = field[loc[r].list], ![r].members = page]
      PROVE  /\ Typed'
             /\ \A u \in Requests : u # r => pc'[u] = pc[u] /\ loc'[u] = loc[u]
             /\ pc'[r] = "number"
             /\ loc'[r] = [loc[r] EXCEPT !.no = field[loc[r].list], !.members = page]
  <2> DEFINE l == [loc[r] EXCEPT !.no = field[loc[r].list], !.members = page]
  <2>1. page \in SUBSET Nos
    BY <1>0, Serving, ByHibernate
  <2>2. l \in Locals /\ l.visitor = loc[r].visitor /\ l.list = loc[r].list
    BY <1>0, <2>1, Serving DEF Locals
  <2>3. loc' = [loc EXCEPT ![r] = l]
    BY <1>2 DEF Typed, TypeOK
  <2> HIDE DEF l
  <2>4. /\ Typed' /\ pc'[r] = "number" /\ loc'[r] = l
        /\ \A u \in Requests : u # r => pc'[u] = pc[u] /\ loc'[u] = loc[u]
    BY <1>1, <2>2, <2>3
  <2>. QED  BY <2>4 DEF l
<1> DEFINE found == Page(loc[r].list, Listed(loc[r].list), loc[r].no)
<1>f. found \in SUBSET Nos
  BY <1>0, Serving
<1> HIDE DEF found
<1>3. ASSUME loc[r].list = "north", loc' = [loc EXCEPT ![r].members = found]
      PROVE  /\ Typed'
             /\ \A u \in Requests : u # r => pc'[u] = pc[u] /\ loc'[u] = loc[u]
             /\ pc'[r] = "number" /\ loc'[r] = [loc[r] EXCEPT !.members = found]
  <2> DEFINE l == [loc[r] EXCEPT !.members = found]
  <2>1. l \in Locals /\ l.visitor = loc[r].visitor /\ l.list = loc[r].list
    BY <1>0, <1>f, Serving DEF Locals
  <2>2. loc' = [loc EXCEPT ![r] = l]
    BY <1>3 DEF Typed, TypeOK
  <2> HIDE DEF l
  <2>3. /\ Typed' /\ pc'[r] = "number" /\ loc'[r] = l
        /\ \A u \in Requests : u # r => pc'[u] = pc[u] /\ loc'[u] = loc[u]
    BY <1>1, <2>1, <2>2
  <2>. QED  BY <2>3 DEF l
<1>4. ASSUME loc[r].list = "maintain", loc' = [loc EXCEPT ![r].quotes = found]
      PROVE  /\ Typed'
             /\ \A u \in Requests : u # r => pc'[u] = pc[u] /\ loc'[u] = loc[u]
             /\ pc'[r] = "number" /\ loc'[r] = [loc[r] EXCEPT !.quotes = found]
  <2> DEFINE l == [loc[r] EXCEPT !.quotes = found]
  <2>1. l \in Locals /\ l.visitor = loc[r].visitor /\ l.list = loc[r].list
    BY <1>0, <1>f, Serving DEF Locals
  <2>2. loc' = [loc EXCEPT ![r] = l]
    BY <1>4 DEF Typed, TypeOK
  <2> HIDE DEF l
  <2>3. /\ Typed' /\ pc'[r] = "number" /\ loc'[r] = l
        /\ \A u \in Requests : u # r => pc'[u] = pc[u] /\ loc'[u] = loc[u]
    BY <1>1, <2>1, <2>2
  <2>. QED  BY <2>3 DEF l
<1>. QED  BY <1>2, <1>3, <1>4 DEF SecondQuery, found

(* The same, component by component *)
LEMMA SecondParts ==
  ASSUME Typed, NEW r \in Requests, SecondQuery(r)
  PROVE  /\ loc'[r].visitor = loc[r].visitor /\ loc'[r].list = loc[r].list
         /\ loc'[r].asked = loc[r].asked /\ loc'[r].cut = loc[r].cut
         /\ \/ /\ loc[r].list = "ossans" /\ loc'[r].quotes = loc[r].quotes
               /\ loc'[r].members \in PagesByHibernate(loc[r].list, Listed(loc[r].list),
                                                       field[loc[r].list])
            \/ /\ loc[r].list = "north" /\ loc'[r].quotes = loc[r].quotes
               /\ loc'[r].members = Page(loc[r].list, Listed(loc[r].list), loc[r].no)
            \/ /\ loc[r].list = "maintain" /\ loc'[r].members = loc[r].members
               /\ loc'[r].quotes = Page(loc[r].list, Listed(loc[r].list), loc[r].no)
<1>0. loc[r] \in Locals
  BY DEF Typed, TypeOK
<1>1. ASSUME NEW page, NEW no, loc'[r] = [loc[r] EXCEPT !.no = no, !.members = page]
      PROVE  /\ loc'[r].visitor = loc[r].visitor /\ loc'[r].list = loc[r].list
             /\ loc'[r].asked = loc[r].asked /\ loc'[r].cut = loc[r].cut
             /\ loc'[r].quotes = loc[r].quotes /\ loc'[r].members = page
  BY <1>0, <1>1 DEF Locals
<1>2. ASSUME NEW page, loc'[r] = [loc[r] EXCEPT !.members = page]
      PROVE  /\ loc'[r].visitor = loc[r].visitor /\ loc'[r].list = loc[r].list
             /\ loc'[r].asked = loc[r].asked /\ loc'[r].cut = loc[r].cut
             /\ loc'[r].quotes = loc[r].quotes /\ loc'[r].members = page
  BY <1>0, <1>2 DEF Locals
<1>3. ASSUME NEW page, loc'[r] = [loc[r] EXCEPT !.quotes = page]
      PROVE  /\ loc'[r].visitor = loc[r].visitor /\ loc'[r].list = loc[r].list
             /\ loc'[r].asked = loc[r].asked /\ loc'[r].cut = loc[r].cut
             /\ loc'[r].members = loc[r].members /\ loc'[r].quotes = page
  BY <1>0, <1>3 DEF Locals
<1>4. ASSUME NEW page \in PagesByHibernate(loc[r].list, Listed(loc[r].list), field[loc[r].list]),
             loc'[r] = [loc[r] EXCEPT !.no = field[loc[r].list], !.members = page]
      PROVE  /\ loc'[r].visitor = loc[r].visitor /\ loc'[r].list = loc[r].list
             /\ loc'[r].asked = loc[r].asked /\ loc'[r].cut = loc[r].cut
             /\ loc'[r].quotes = loc[r].quotes
             /\ loc'[r].members \in PagesByHibernate(loc[r].list, Listed(loc[r].list),
                                                     field[loc[r].list])
  BY <1>1, <1>4
<1> DEFINE found == Page(loc[r].list, Listed(loc[r].list), loc[r].no)
<1>5. \/ /\ loc[r].list = "ossans"
         /\ \E page \in PagesByHibernate(loc[r].list, Listed(loc[r].list), field[loc[r].list]) :
              loc'[r] = [loc[r] EXCEPT !.no = field[loc[r].list], !.members = page]
      \/ loc[r].list = "north" /\ loc'[r] = [loc[r] EXCEPT !.members = found]
      \/ loc[r].list = "maintain" /\ loc'[r] = [loc[r] EXCEPT !.quotes = found]
  BY Second
<1>6. CASE loc[r].list = "north" /\ loc'[r] = [loc[r] EXCEPT !.members = found]
  BY <1>2, <1>6
<1>7. CASE loc[r].list = "maintain" /\ loc'[r] = [loc[r] EXCEPT !.quotes = found]
  BY <1>3, <1>7
<1>8. CASE /\ loc[r].list = "ossans"
           /\ \E page \in PagesByHibernate(loc[r].list, Listed(loc[r].list),
                                            field[loc[r].list]) :
                loc'[r] = [loc[r] EXCEPT !.no = field[loc[r].list], !.members = page]
  BY <1>4, <1>8
<1>. QED  BY <1>5, <1>6, <1>7, <1>8

LEMMA NumberParts ==
  ASSUME NEW r \in Requests, loc[r] \in Locals,
         loc'[r] = [loc[r] EXCEPT !.number = field[loc[r].list]]
  PROVE  /\ loc'[r].visitor = loc[r].visitor /\ loc'[r].list = loc[r].list
         /\ loc'[r].asked = loc[r].asked /\ loc'[r].cut = loc[r].cut
         /\ loc'[r].members = loc[r].members /\ loc'[r].quotes = loc[r].quotes
BY DEF Locals

LEMMA Number ==
  ASSUME Typed, NEW r \in Requests, SetNumber(r)
  PROVE  /\ Typed'
         /\ \A u \in Requests : u # r => pc'[u] = pc[u] /\ loc'[u] = loc[u]
         /\ pc'[r] = "count"
         /\ loc'[r] = [loc[r] EXCEPT !.number = field[loc[r].list]]
<1> DEFINE l == [loc[r] EXCEPT !.number = field[loc[r].list]]
<1>1. pc[r] # "idle" /\ "count" \in Places \ {"idle"}
  BY DEF SetNumber, Places
<1>2. l \in Locals /\ l.visitor = loc[r].visitor /\ l.list = loc[r].list
  BY <1>1, Serving DEF Locals
<1>3. /\ pc' = [pc EXCEPT ![r] = "count"] /\ loc' = [loc EXCEPT ![r] = l]
      /\ UNCHANGED <<field, rowVars, viewVars>>
  BY DEF SetNumber, Typed, TypeOK
<1> HIDE DEF l
<1>4. /\ Typed'
      /\ \A u \in Requests : u # r => pc'[u] = pc[u] /\ loc'[u] = loc[u]
      /\ pc'[r] = "count" /\ loc'[r] = l
  BY <1>1, <1>2, <1>3, GoesOn
<1>. QED  BY <1>4 DEF l

LEMMA Unanswered ==
  ASSUME Typed, NEW r \in Requests, pc[r] # "idle", NoAnswer(r)
  PROVE  /\ Typed'
         /\ \A u \in Requests : u # r => pc'[u] = pc[u] /\ loc'[u] = loc[u]
         /\ pc'[r] = "idle" /\ loc'[r] = Blank
         /\ UNCHANGED <<field, items, nextNo, open, shown, cookie>>
         /\ missed'[loc[r].visitor] = Null
         /\ \A v \in Visitors : v # loc[r].visitor => missed'[v] = missed[v]
<1>1. loc[r].visitor \in Visitors
  BY Serving
<1>2. /\ UNCHANGED <<field, items, nextNo, open, shown, cookie>>
      /\ missed' = [missed EXCEPT ![loc[r].visitor] = Null]
      /\ Respond(r)
  BY DEF NoAnswer, rowVars
<1>. QED  BY <1>1, <1>2, Responds DEF Typed, TypeOK

LEMMA Shows ==
  ASSUME Typed, NEW r \in Requests, Show(r)
  PROVE  /\ Typed'
         /\ \A u \in Requests : u # r => pc'[u] = pc[u] /\ loc'[u] = loc[u]
         /\ pc'[r] = "idle" /\ loc'[r] = Blank
         /\ shown'[loc[r].visitor] = [list |-> loc[r].list, number |-> loc[r].number,
                                      total |-> TotalPages(Listed(loc[r].list))]
         /\ \A v \in Visitors : v # loc[r].visitor
              => shown'[v] = shown[v] /\ missed'[v] = missed[v] /\ cookie'[v] = cookie[v]
         /\ missed'[loc[r].visitor]
              = IF missed[loc[r].visitor] = Null THEN Null
                ELSE missed[loc[r].visitor] \ loc[r].members
         /\ \A l \in HasCookie : cookie'[loc[r].visitor][l] = cookie[loc[r].visitor][l]
                                 \/ cookie'[loc[r].visitor][l] = field[l]
<1> DEFINE v == loc[r].visitor
           l == loc[r].list
           new == [list |-> l, number |-> loc[r].number, total |-> TotalPages(Listed(l))]
<1>1. /\ v \in Visitors /\ l \in Lists /\ Listed(l) \in SUBSET Nos
      /\ field[l] \in Numbers /\ loc[r] \in Locals
  BY Serving DEF Show
<1>2. new \in Shown
  BY <1>1, Pages DEF Shown, Locals
<1>3. /\ shown' = [shown EXCEPT ![v] = new] /\ Respond(r)
      /\ missed' = [missed EXCEPT ![v] = IF @ = Null THEN @ ELSE @ \ loc[r].members]
      /\ UNCHANGED <<field, items, nextNo, open>>
      /\ cookie' = IF l \in HasCookie THEN [cookie EXCEPT ![v][l] = field[l]] ELSE cookie
  BY DEF Show, rowVars
<1>4. cookie' \in [Visitors -> [HasCookie -> Numbers \cup {Null}]]
  BY <1>1, <1>3 DEF Typed, TypeOK
<1>5. missed' \in [Visitors -> (SUBSET Nos) \cup {Null}]
  BY <1>1, <1>3 DEF Typed, TypeOK
<1> HIDE DEF new
<1>6. shown' \in [Visitors -> Shown \cup {Null}] /\ shown'[v] = new
      /\ \A w \in Visitors : w # v => shown'[w] = shown[w]
  BY <1>1, <1>2, <1>3 DEF Typed, TypeOK
<1>7. /\ pc' \in [Requests -> Places] /\ loc' \in [Requests -> Locals]
      /\ \A u \in Requests : Fits(pc'[u], loc'[u])
      /\ \A u \in Requests : u # r => pc'[u] = pc[u] /\ loc'[u] = loc[u]
      /\ pc'[r] = "idle" /\ loc'[r] = Blank
  BY <1>3, Responds
<1>8. Typed'
  BY <1>3, <1>4, <1>5, <1>6, <1>7 DEF Typed, TypeOK
<1>9. /\ \A w \in Visitors : w # v => missed'[w] = missed[w] /\ cookie'[w] = cookie[w]
      /\ missed'[v] = IF missed[v] = Null THEN Null ELSE missed[v] \ loc[r].members
      /\ \A m \in HasCookie : cookie'[v][m] = cookie[v][m] \/ cookie'[v][m] = field[m]
  BY <1>1, <1>3 DEF Typed, TypeOK
<1>. QED  BY <1>6, <1>7, <1>8, <1>9 DEF new

LEMMA Inserts ==
  ASSUME Typed, NEW t \in Tables, Insert(t)
  PROVE  /\ Typed'
         /\ UNCHANGED <<pc, loc, field, open, viewVars>>
         /\ items'[t] = items[t] \cup {nextNo[t]} /\ nextNo'[t] = nextNo[t] + 1
         /\ nextNo[t] \in Nos
         /\ \A u \in Tables : u # t => items'[u] = items[u] /\ nextNo'[u] = nextNo[u]
<1>1. nextNo[t] \in Nos /\ nextNo[t] + 1 \in 1..(MaxNo + 1)
  BY PagingAssumption DEF Insert, Typed, TypeOK, Nos
<1>2. /\ items'[t] = items[t] \cup {nextNo[t]} /\ nextNo'[t] = nextNo[t] + 1
      /\ \A u \in Tables : u # t => items'[u] = items[u] /\ nextNo'[u] = nextNo[u]
      /\ items' \in [Tables -> SUBSET Nos] /\ nextNo' \in [Tables -> 1..(MaxNo + 1)]
  BY <1>1 DEF Insert, Typed, TypeOK
<1>3. UNCHANGED <<pc, loc, field, open, viewVars>>
  BY DEF Insert
<1>4. \A u \in Tables : items'[u] \subseteq 1..(nextNo'[u] - 1)
  <2> SUFFICES ASSUME NEW u \in Tables, NEW x \in items'[u]
               PROVE  x \in 1..(nextNo'[u] - 1)
    OBVIOUS
  <2>1. nextNo[u] \in Nat /\ items[u] \subseteq 1..(nextNo[u] - 1)
    BY PagingAssumption DEF Typed, TypeOK
  <2>2. CASE u = t
    BY <1>1, <1>2, <2>1, <2>2 DEF Nos
  <2>3. CASE u # t
    BY <1>2, <2>1, <2>3
  <2>. QED  BY <2>2, <2>3
<1>. QED  BY <1>1, <1>2, <1>3, <1>4 DEF Typed, TypeOK, viewVars

(* A deletion is noticed by the requests and the walks under way.          *)
LEMMA Deletes ==
  ASSUME Typed, NEW t \in Tables, NEW x \in Nos, Delete(t, x)
  PROVE  /\ Typed'
         /\ UNCHANGED <<pc, field, nextNo, open, shown, cookie>>
         /\ x \in items[t] /\ items'[t] = items[t] \ {x}
         /\ \A u \in Tables : u # t => items'[u] = items[u]
         /\ \A v \in Visitors : missed'[v] = Null
         /\ \A r \in Requests :
              \/ /\ pc[r] # "idle" /\ Table(loc[r].list) = t
                 /\ loc'[r] = [loc[r] EXCEPT !.cut = TRUE]
              \/ /\ pc[r] # "idle" => Table(loc[r].list) # t
                 /\ loc'[r] = loc[r]
<1>1. /\ x \in items[t] /\ items'[t] = items[t] \ {x}
      /\ \A u \in Tables : u # t => items'[u] = items[u]
      /\ items' \in [Tables -> SUBSET Nos]
      /\ UNCHANGED <<pc, field, nextNo, open, shown, cookie>>
  BY DEF Delete, Typed, TypeOK
<1>2. /\ \A v \in Visitors : missed'[v] = Null
      /\ missed' \in [Visitors -> (SUBSET Nos) \cup {Null}]
  BY DEF Delete
<1>3. ASSUME NEW r \in Requests
      PROVE  /\ pc[r] # "idle" => loc[r].list \in Lists /\ loc[r].list # Null
             /\ pc[r] = "idle" => loc[r].list = Null
  BY PagingAssumption DEF Typed, Fits
<1>4. \A r \in Requests :
        \/ /\ pc[r] # "idle" /\ Table(loc[r].list) = t
           /\ loc'[r] = [loc[r] EXCEPT !.cut = TRUE]
        \/ /\ pc[r] # "idle" => Table(loc[r].list) # t
           /\ loc'[r] = loc[r]
  BY <1>3 DEF Delete
<1>5. \A r \in Requests : [loc[r] EXCEPT !.cut = TRUE] \in Locals
  BY DEF Typed, TypeOK, Locals
<1>6. loc' \in [Requests -> Locals]
  BY <1>5 DEF Delete, Typed, TypeOK
<1>7. \A r \in Requests : Fits(pc'[r], loc'[r])
  <2> SUFFICES ASSUME NEW r \in Requests
               PROVE  Fits(pc'[r], loc'[r])
    OBVIOUS
  <2>1. loc[r] \in Locals /\ Fits(pc[r], loc[r])
    BY DEF Typed, TypeOK
  <2>. QED  BY <1>1, <1>4, <2>1 DEF Fits, Locals
<1>8. Typed'
  BY <1>1, <1>2, <1>6, <1>7 DEF Typed, TypeOK
<1>. QED  BY <1>1, <1>2, <1>4, <1>8

LEMMA TypedInit == Init => Typed
<1> SUFFICES ASSUME Init
             PROVE  Typed
  OBVIOUS
<1>1. 1..Start \subseteq Nos /\ Start + 1 \in 1..(MaxNo + 1) /\ 1..Start = 1..((Start + 1) - 1)
  BY PagingAssumption DEF Nos
<1>2. 1 \in Numbers
  BY PagingAssumption DEF Numbers
<1>. QED  BY <1>1, <1>2, BlankFits, PagingAssumption DEF Init, Typed, TypeOK, Places, Numbers

(* A deletion changes nothing else of a request. *)
LEMMA CutOnly ==
  ASSUME Typed, NEW t \in Tables, NEW x \in Nos, Delete(t, x), NEW r \in Requests
  PROVE  /\ loc'[r].visitor = loc[r].visitor /\ loc'[r].list = loc[r].list
         /\ loc'[r].asked = loc[r].asked /\ loc'[r].no = loc[r].no
         /\ loc'[r].number = loc[r].number
         /\ loc'[r].members = loc[r].members /\ loc'[r].quotes = loc[r].quotes
         /\ (pc[r] # "idle" /\ ~ loc'[r].cut) => ~ loc[r].cut /\ Table(loc[r].list) # t
<1>1. loc[r] \in Locals
  BY DEF Typed, TypeOK
<1>2. \/ pc[r] # "idle" /\ loc'[r] = [loc[r] EXCEPT !.cut = TRUE]
      \/ (pc[r] # "idle" => Table(loc[r].list) # t) /\ loc'[r] = loc[r]
  BY Deletes
<1>. QED  BY <1>1, <1>2 DEF Locals

(* What a step is *)
LEMMA Steps ==
  ASSUME Typed, Next
  PROVE  \/ \E r \in Requests, v \in Visitors, l \in Lists, n \in Nat :
              /\ Ask(r, v, l, n)
              /\ \/ n = 1
                 \/ /\ OnPage(v) /\ shown[v].list = l
                    /\ \/ n >= 1 /\ n + 1 = shown[v].number
                       \/ shown[v].number # shown[v].total
                          /\ n \in {shown[v].number + 1, shown[v].total}
                 \/ l \in HasCookie /\ cookie[v][l] # Null /\ n = cookie[v][l]
         \/ \E r \in Requests : FirstQuery(r) \/ SecondQuery(r) \/ SetNumber(r) \/ Show(r)
         \/ \E r \in Requests : pc[r] # "idle" /\ NoAnswer(r)
         \/ \E t \in Tables : Insert(t)
         \/ \E t \in Tables, x \in Nos : Delete(t, x)
<1>1. {Table(l) : l \in open} \subseteq Tables
  BY DEF Typed, TypeOK, Table, Tables
<1>2. ASSUME NEW r \in Requests, Handle(r)
      PROVE  \/ FirstQuery(r) \/ SecondQuery(r) \/ SetNumber(r) \/ Show(r)
             \/ pc[r] # "idle" /\ NoAnswer(r)
  BY <1>2 DEF Handle, NoSession, QueryFails
<1>3. CASE \E t \in {Table(l) : l \in open} : Insert(t) \/ \E x \in Nos : Delete(t, x)
  BY <1>1, <1>3
<1>4. CASE \E r \in Requests : Handle(r)
  BY <1>2, <1>4
<1>5. CASE \E r \in Requests, v \in Visitors : Click(r, v)
  BY <1>5, Clicks
<1>. QED  BY <1>3, <1>4, <1>5 DEF Next

LEMMA TypedStep == Typed /\ [Next]_vars => Typed'
<1>1. Typed /\ Next => Typed'
  BY Steps, Asks, First, Second, Number, Shows, Unanswered, Inserts, Deletes
<1>2. Typed /\ UNCHANGED vars => Typed'
  BY DEF vars, Typed, TypeOK
<1>. QED  BY <1>1, <1>2

LEMMA TypedInvariance == Spec => []Typed
BY TypedInit, TypedStep, PTL DEF Spec

(* Type correctness: the fields, cookies, links and lists hold numbers of  *)
(* pages and of rows.                                                      *)
THEOREM Typing == Spec => []TypeOK
<1>1. Typed => TypeOK
  BY DEF Typed
<1>. QED  BY <1>1, TypedInvariance, PTL

-----------------------------------------------------------------------------
(* The number of the page goes through a field of the servlet; where its   *)
(* requests take turns, it is the number that was asked for.               *)

AskedInv ==
  /\ \A q, r \in Requests : (loc[q].list = loc[r].list /\ loc[r].list # Null) => q = r
  /\ \A r \in Requests :
       /\ pc[r] # "idle" => field[loc[r].list] = loc[r].asked
       /\ pc[r] \in {"second", "number", "count"} => loc[r].no = loc[r].asked
       /\ pc[r] = "count" => loc[r].number = loc[r].asked

LEMMA AskedStep ==
  ASSUME Typed, Turns, AskedInv, [Next]_vars
  PROVE  AskedInv'
<1>f. \A r \in Requests : /\ pc[r] # "idle" => loc[r] \in Locals /\ loc[r].list \in Lists
                                               /\ loc[r].list # Null
                          /\ pc[r] = "idle" => loc[r].list = Null
  BY PagingAssumption DEF Typed, TypeOK, Fits
<1>1. ASSUME NEW r \in Requests, NEW v \in Visitors, NEW l \in Lists, NEW n \in Nat,
             Ask(r, v, l, n)
      PROVE  AskedInv'
  <2>1. \A q \in Requests : loc[q].list # l
    BY <1>1 DEF Ask, Alone
  <2>2. /\ \A u \in Requests : u # r => pc'[u] = pc[u] /\ loc'[u] = loc[u]
        /\ pc'[r] = "first" /\ loc'[r].list = l /\ loc'[r].asked = n
    BY <1>1, Asks
  <2>3. field'[l] = n /\ \A m \in Lists : m # l => field'[m] = field[m]
    BY <1>1 DEF Ask, Typed, TypeOK
  <2>4. \A u \in Requests : u # r => /\ pc'[u] = pc[u] /\ loc'[u] = loc[u]
                                     /\ loc[u].list # l
                                     /\ pc[u] # "idle" => field'[loc[u].list] = field[loc[u].list]
    BY <1>f, <2>1, <2>2, <2>3
  <2>. QED  BY <2>2, <2>3, <2>4 DEF AskedInv
<1>2. ASSUME NEW r \in Requests, pc[r] # "idle", UNCHANGED field,
             \A u \in Requests : u # r => pc'[u] = pc[u] /\ loc'[u] = loc[u],
             \/ pc'[r] = "idle" /\ loc'[r].list = Null
             \/ /\ loc'[r].list = loc[r].list /\ loc'[r].asked = loc[r].asked
                /\ pc'[r] \in {"second", "number", "count"} => loc'[r].no = loc[r].asked
                /\ pc'[r] = "count" => loc'[r].number = loc[r].asked
      PROVE  AskedInv'
  BY <1>2 DEF AskedInv
<1>3. ASSUME NEW r \in Requests, FirstQuery(r)
      PROVE  AskedInv'
  <2>1. pc[r] # "idle" /\ pc[r] = "first" /\ UNCHANGED field
    BY <1>3 DEF FirstQuery
  <2>2. /\ loc'[r].list = loc[r].list /\ loc'[r].asked = loc[r].asked
        /\ loc'[r].no = field[loc[r].list] /\ pc'[r] # "count"
    BY <1>f, <1>3, <2>1, First DEF Locals
  <2>3. field[loc[r].list] = loc[r].asked
    BY <2>1 DEF AskedInv
  <2>4. \A u \in Requests : u # r => pc'[u] = pc[u] /\ loc'[u] = loc[u]
    BY <1>3, First
  <2>. QED  BY <1>2, <2>1, <2>2, <2>3, <2>4
<1>4. ASSUME NEW r \in Requests, SecondQuery(r)
      PROVE  AskedInv'
  <2>1. pc[r] # "idle" /\ pc[r] = "second" /\ UNCHANGED field
    BY <1>4 DEF SecondQuery
  <2>2. /\ loc'[r].list = loc[r].list /\ loc'[r].asked = loc[r].asked
        /\ loc'[r].no \in {loc[r].no, field[loc[r].list]} /\ pc'[r] # "count"
    BY <1>f, <1>4, <2>1, Second DEF Locals
  <2>3. field[loc[r].list] = loc[r].asked /\ loc[r].no = loc[r].asked
    BY <2>1 DEF AskedInv
  <2>4. \A u \in Requests : u # r => pc'[u] = pc[u] /\ loc'[u] = loc[u]
    BY <1>4, Second
  <2>. QED  BY <1>2, <2>1, <2>2, <2>3, <2>4
<1>5. ASSUME NEW r \in Requests, SetNumber(r)
      PROVE  AskedInv'
  <2>1. pc[r] # "idle" /\ pc[r] = "number" /\ UNCHANGED field
    BY <1>5 DEF SetNumber
  <2>2. /\ loc'[r].list = loc[r].list /\ loc'[r].asked = loc[r].asked
        /\ loc'[r].no = loc[r].no /\ loc'[r].number = field[loc[r].list]
    BY <1>f, <1>5, <2>1, Number DEF Locals
  <2>3. field[loc[r].list] = loc[r].asked /\ loc[r].no = loc[r].asked
    BY <2>1 DEF AskedInv
  <2>4. \A u \in Requests : u # r => pc'[u] = pc[u] /\ loc'[u] = loc[u]
    BY <1>5, Number
  <2>. QED  BY <1>2, <2>1, <2>2, <2>3, <2>4
<1>6. ASSUME NEW r \in Requests, Show(r) \/ (pc[r] # "idle" /\ NoAnswer(r))
      PROVE  AskedInv'
  <2>1. pc[r] # "idle" /\ UNCHANGED field
    BY <1>6 DEF Show, NoAnswer
  <2>2. /\ pc'[r] = "idle" /\ loc'[r] = Blank
        /\ \A u \in Requests : u # r => pc'[u] = pc[u] /\ loc'[u] = loc[u]
    BY <1>6, Shows, Unanswered
  <2>. QED  BY <1>2, <2>1, <2>2 DEF Blank
<1>7. ASSUME NEW t \in Tables, Insert(t)
      PROVE  AskedInv'
  BY <1>7, Inserts DEF AskedInv
<1>8. ASSUME NEW t \in Tables, NEW x \in Nos, Delete(t, x)
      PROVE  AskedInv'
  <2>1. UNCHANGED <<pc, field>>
    BY <1>8, Deletes
  <2>2. \A r \in Requests : /\ loc'[r].list = loc[r].list /\ loc'[r].asked = loc[r].asked
                            /\ loc'[r].no = loc[r].no /\ loc'[r].number = loc[r].number
    BY <1>8, CutOnly
  <2>. QED  BY <2>1, <2>2 DEF AskedInv
<1>9. CASE UNCHANGED vars
  BY <1>9 DEF vars, AskedInv
<1>. QED  BY <1>1, <1>3, <1>4, <1>5, <1>6, <1>7, <1>8, <1>9, Steps

LEMMA AskedInit == Init => AskedInv
BY DEF Init, Blank, AskedInv

-----------------------------------------------------------------------------
(* Links and cookies.  While no row of a table is deleted its lists only   *)
(* grow, and a page that has existed exists for ever.                      *)

Within(n, l) == 1 <= n /\ n <= TotalPages(Listed(l))

LinkInv ==
  \A l \in Lists :
    Intact(Table(l))
    => /\ Within(field[l], l)
       /\ \A r \in Requests :
            (pc[r] = "count" /\ loc[r].list = l) => Within(loc[r].number, l)
       /\ \A v \in Visitors :
            /\ (OnPage(v) /\ shown[v].list = l)
               => /\ Within(shown[v].number, l)
                  /\ shown[v].number <= shown[v].total
                  /\ shown[v].total <= TotalPages(Listed(l))
            /\ (l \in HasCookie /\ cookie[v][l] # Null) => Within(cookie[v][l], l)

(* A list changes with the rows of its table only. *)
LEMMA ListedSame ==
  ASSUME NEW l \in Lists, items'[Table(l)] = items[Table(l)]
  PROVE  Listed(l)' = Listed(l)
BY DEF Listed, Table

(* A deletion is seen for ever; until then, lists grow.                    *)
LEMMA IntactLists ==
  ASSUME Typed, [Next]_vars, NEW l \in Lists, Intact(Table(l))'
  PROVE  /\ Intact(Table(l))
         /\ Listed(l) \subseteq Listed(l)'
<1> DEFINE t == Table(l)
<1>t. t \in Tables /\ Listed(l) \in SUBSET Nos
  BY ListedRows DEF Typed
<1>n. nextNo[t] \in Nat /\ items[t] \subseteq 1..(nextNo[t] - 1)
  BY <1>t, PagingAssumption DEF Typed, TypeOK
<1>1. ASSUME items'[t] = items[t], nextNo'[t] = nextNo[t]
      PROVE  Intact(t) /\ Listed(l) \subseteq Listed(l)'
  BY <1>1, ListedSame DEF Intact
<1>2. ASSUME NEW u \in Tables, Insert(u)
      PROVE  Intact(t) /\ Listed(l) \subseteq Listed(l)'
  <2>1. CASE u = t
    <3>1. items'[t] = items[t] \cup {nextNo[t]} /\ nextNo'[t] = nextNo[t] + 1
      BY <1>2, <2>1, Inserts
    <3>2. items'[t] = 1..nextNo[t]
      BY <1>n, <3>1 DEF Intact
    <3>3. nextNo[t] \notin items[t] /\ \A x \in 1..(nextNo[t] - 1) : x \in items'[t] /\ x # nextNo[t]
      BY <1>n, <3>2
    <3>4. items[t] = 1..(nextNo[t] - 1)
      BY <1>n, <3>1, <3>3
    <3>. QED  BY <3>1, <3>4 DEF Intact, Listed, Table
  <2>2. CASE u # t
    BY <1>1, <1>2, <1>t, <2>2, Inserts
  <2>. QED  BY <2>1, <2>2
<1>3. ASSUME NEW u \in Tables, NEW x \in Nos, Delete(u, x)
      PROVE  Intact(t) /\ Listed(l) \subseteq Listed(l)'
  <2>1. CASE u = t
    <3>1. x \in items[t] /\ items'[t] = items[t] \ {x} /\ nextNo'[t] = nextNo[t]
      BY <1>3, <2>1, Deletes
    <3>2. x \in 1..(nextNo'[t] - 1) /\ x \notin items'[t]
      BY <1>n, <3>1
    <3>. QED  BY <3>2 DEF Intact
  <2>2. CASE u # t
    BY <1>1, <1>3, <1>t, <2>2, Deletes
  <2>. QED  BY <2>1, <2>2
<1>4. CASE UNCHANGED <<items, nextNo>>
  BY <1>1, <1>4
<1>5. ASSUME NEW r \in Requests,
             FirstQuery(r) \/ SecondQuery(r) \/ SetNumber(r) \/ Show(r) \/ NoAnswer(r)
      PROVE  UNCHANGED <<items, nextNo>>
  BY <1>5 DEF FirstQuery, SecondQuery, SetNumber, Show, NoAnswer, rowVars
<1>6. ASSUME NEW r \in Requests, NEW v \in Visitors, NEW m \in Lists, NEW n \in Nat,
             Ask(r, v, m, n)
      PROVE  UNCHANGED <<items, nextNo>>
  BY <1>6 DEF Ask, rowVars
<1>7. CASE UNCHANGED vars
  BY <1>4, <1>7 DEF vars
<1>. QED  BY <1>2, <1>3, <1>4, <1>5, <1>6, <1>7, Steps

LEMMA LinkStep ==
  ASSUME Typed, Typed', LinkInv, [Next]_vars
  PROVE  LinkInv'
<1> SUFFICES ASSUME NEW l \in Lists, Intact(Table(l))'
             PROVE  /\ Within(field[l], l)'
                    /\ \A r \in Requests :
                         (pc'[r] = "count" /\ loc'[r].list = l) => Within(loc[r].number, l)'
                    /\ \A v \in Visitors :
                         /\ (OnPage(v)' /\ shown'[v].list = l)
                            => /\ Within(shown[v].number, l)'
                               /\ shown'[v].number <= shown'[v].total
                               /\ shown'[v].total <= TotalPages(Listed(l))'
                         /\ (l \in HasCookie /\ cookie'[v][l] # Null)
                            => Within(cookie[v][l], l)'
  BY DEF LinkInv
<1> DEFINE P == TotalPages(Listed(l))
           Q == TotalPages(Listed(l)')
<1>0. Listed(l)' \in SUBSET Nos
  BY DEF Typed, TypeOK, Table, Tables, Listed
<1>1. Intact(Table(l)) /\ Listed(l) \in SUBSET Nos /\ Listed(l)' \in SUBSET Nos
      /\ Listed(l) \subseteq Listed(l)'
  BY <1>0, IntactLists, ListedRows DEF Typed
<1>2. P \in Nat /\ Q \in Nat /\ P <= Q
  BY <1>1, Pages, MorePages
<1>f. field[l] \in Nat /\ 1 <= field[l] /\ field[l] <= P
  BY <1>1 DEF LinkInv, Within, Typed, TypeOK, Numbers
<1>r. \A r \in Requests :
        (pc[r] = "count" /\ loc[r].list = l)
        => loc[r].number \in Nat /\ 1 <= loc[r].number /\ loc[r].number <= P
  BY <1>1 DEF LinkInv, Within, Typed, TypeOK, Locals, Numbers
<1>v. ASSUME NEW v \in Visitors
      PROVE  /\ (OnPage(v) /\ shown[v].list = l)
                => /\ shown[v].number \in Nat /\ shown[v].total \in Nat
                   /\ 1 <= shown[v].number /\ shown[v].number <= shown[v].total
                   /\ shown[v].total <= P
             /\ (l \in HasCookie /\ cookie[v][l] # Null)
                => cookie[v][l] \in Nat /\ 1 <= cookie[v][l] /\ cookie[v][l] <= P
  BY <1>1 DEF LinkInv, Within, OnPage, Typed, TypeOK, Shown, Numbers
<1> HIDE DEF P, Q
<1>w. \A n \in Nat : (1 <= n /\ n <= P) => (1 <= n /\ n <= Q)
  BY <1>2
(* The three things that may change *)
<1> DEFINE F == 1 <= field'[l] /\ field'[l] <= Q
           R == \A r \in Requests : (pc'[r] = "count" /\ loc'[r].list = l)
                  => 1 <= loc'[r].number /\ loc'[r].number <= Q
           V == \A v \in Visitors :
                  /\ (shown'[v] # Null /\ shown'[v].list = l)
                     => /\ 1 <= shown'[v].number /\ shown'[v].number <= Q
                        /\ shown'[v].number <= shown'[v].total
                        /\ shown'[v].total <= Q
                  /\ (l \in HasCookie /\ cookie'[v][l] # Null)
                     => 1 <= cookie'[v][l] /\ cookie'[v][l] <= Q
<1>g. SUFFICES F /\ R /\ V
  BY DEF Within, OnPage, Q
<1>3. UNCHANGED field => F
  BY <1>2, <1>f
<1>4. ASSUME NEW u \in Requests,
             pc[u] = pc'[u] /\ loc[u] = loc'[u]
      PROVE  (pc'[u] = "count" /\ loc'[u].list = l)
             => 1 <= loc'[u].number /\ loc'[u].number <= Q
  BY <1>4, <1>r, <1>w
<1>5. ASSUME NEW v \in Visitors, shown'[v] = shown[v], cookie'[v] = cookie[v]
      PROVE  /\ (shown'[v] # Null /\ shown'[v].list = l)
                => /\ 1 <= shown'[v].number /\ shown'[v].number <= Q
                   /\ shown'[v].number <= shown'[v].total
                   /\ shown'[v].total <= Q
             /\ (l \in HasCookie /\ cookie'[v][l] # Null)
                => 1 <= cookie'[v][l] /\ cookie'[v][l] <= Q
  BY <1>2, <1>5, <1>v DEF OnPage
<1>6. ASSUME NEW r \in Requests, NEW v \in Visitors, NEW m \in Lists, NEW n \in Nat,
             Ask(r, v, m, n),
             \/ n = 1
             \/ /\ OnPage(v) /\ shown[v].list = m
                /\ \/ n >= 1 /\ n + 1 = shown[v].number
                   \/ shown[v].number # shown[v].total
                      /\ n \in {shown[v].number + 1, shown[v].total}
             \/ m \in HasCookie /\ cookie[v][m] # Null /\ n = cookie[v][m]
      PROVE  F /\ R /\ V
  <2>a. Ask(r, v, m, n)
    BY <1>6
  <2>b. field \in [Lists -> Numbers] /\ field' = [field EXCEPT ![m] = n]
    BY <2>a DEF Ask, Typed, TypeOK
  <2>c. UNCHANGED <<shown, cookie>>
    BY <2>a DEF Ask
  <2>d. /\ \A u \in Requests : u # r => pc'[u] = pc[u] /\ loc'[u] = loc[u]
        /\ pc'[r] = "first"
    BY <2>a, Asks
  <2>1. /\ \A u \in Requests : u # r => pc'[u] = pc[u] /\ loc'[u] = loc[u]
        /\ pc'[r] = "first" /\ UNCHANGED <<shown, cookie>>
        /\ field'[m] = n /\ (m # l => field'[l] = field[l])
    BY <2>b, <2>c, <2>d
  <2>2. R /\ V
    BY <1>4, <1>5, <2>1
  <2>3. CASE m # l
    BY <1>2, <1>f, <2>1, <2>2, <2>3
  <2>4. CASE m = l
    <3>1. 1 <= n /\ n <= P
      BY <1>2, <1>6, <1>f, <1>v, <2>4
    <3>. QED  BY <1>2, <2>1, <2>2, <2>4, <3>1
  <2>. QED  BY <2>3, <2>4
<1>7. ASSUME NEW r \in Requests, FirstQuery(r) \/ SecondQuery(r)
      PROVE  F /\ R /\ V
  <2>1. /\ \A u \in Requests : u # r => pc'[u] = pc[u] /\ loc'[u] = loc[u]
        /\ pc'[r] # "count" /\ UNCHANGED <<field, shown, cookie>>
    BY <1>7, First, Second DEF FirstQuery, SecondQuery, viewVars
  <2>. QED  BY <1>3, <1>4, <1>5, <2>1
<1>8. ASSUME NEW r \in Requests, SetNumber(r)
      PROVE  F /\ R /\ V
  <2>1. /\ \A u \in Requests : u # r => pc'[u] = pc[u] /\ loc'[u] = loc[u]
        /\ UNCHANGED <<field, shown, cookie>> /\ pc[r] # "idle"
        /\ loc'[r] = [loc[r] EXCEPT !.number = field[loc[r].list]]
    BY <1>8, Number DEF SetNumber, viewVars
  <2>2. loc[r] \in Locals
    BY DEF Typed, TypeOK
  <2>3. loc'[r].list = loc[r].list /\ loc'[r].number = field[loc[r].list]
    BY <2>1, <2>2 DEF Locals
  <2>4. loc'[r].list = l => 1 <= loc'[r].number /\ loc'[r].number <= Q
    BY <1>f, <1>w, <2>3
  <2>. QED  BY <1>3, <1>4, <1>5, <2>1, <2>4
<1>9. ASSUME NEW r \in Requests, Show(r)
      PROVE  F /\ R /\ V
  <2>1. /\ \A u \in Requests : u # r => pc'[u] = pc[u] /\ loc'[u] = loc[u]
        /\ pc[r] = "count" /\ pc'[r] = "idle" /\ UNCHANGED field
        /\ loc[r].visitor \in Visitors
    BY <1>9, Shows, Serving DEF Show
  <2>2. /\ shown'[loc[r].visitor] = [list |-> loc[r].list, number |-> loc[r].number,
                                     total |-> TotalPages(Listed(loc[r].list))]
        /\ \A v \in Visitors : v # loc[r].visitor
              => shown'[v] = shown[v] /\ cookie'[v] = cookie[v]
        /\ \A m \in HasCookie : cookie'[loc[r].visitor][m] = cookie[loc[r].visitor][m]
                                \/ cookie'[loc[r].visitor][m] = field[m]
    BY <1>9, Shows
  <2>3. /\ shown'[loc[r].visitor].list = loc[r].list
        /\ shown'[loc[r].visitor].number = loc[r].number
        /\ loc[r].list = l => shown'[loc[r].visitor].total = P
    BY <2>2 DEF P
  <2>4. shown'[loc[r].visitor].list = l
        => /\ 1 <= loc[r].number /\ loc[r].number <= Q
           /\ loc[r].number <= P /\ shown'[loc[r].visitor].total = P
    BY <1>r, <1>w, <2>1, <2>3
  <2>5. (l \in HasCookie /\ cookie'[loc[r].visitor][l] # Null)
        => 1 <= cookie'[loc[r].visitor][l] /\ cookie'[loc[r].visitor][l] <= Q
    BY <1>f, <1>v, <1>w, <2>1, <2>2
  <2>6. V
    BY <1>2, <1>5, <2>1, <2>2, <2>3, <2>4, <2>5
  <2>. QED  BY <1>3, <1>4, <2>1, <2>6
<1>10. ASSUME NEW r \in Requests, pc[r] # "idle", NoAnswer(r)
       PROVE  F /\ R /\ V
  <2>1. /\ \A u \in Requests : u # r => pc'[u] = pc[u] /\ loc'[u] = loc[u]
        /\ pc'[r] = "idle" /\ UNCHANGED <<field, shown, cookie>>
    BY <1>10, Unanswered
  <2>. QED  BY <1>3, <1>4, <1>5, <2>1
<1>11. ASSUME NEW t \in Tables, Insert(t)
       PROVE  F /\ R /\ V
  BY <1>3, <1>4, <1>5, <1>11, Inserts DEF viewVars
<1>12. ASSUME NEW t \in Tables, NEW x \in Nos, Delete(t, x)
       PROVE  F /\ R /\ V
  <2>1. UNCHANGED <<pc, field, shown, cookie>>
    BY <1>12, Deletes
  <2>2. \A u \in Requests : loc'[u].list = loc[u].list /\ loc'[u].number = loc[u].number
    BY <1>12, CutOnly
  <2>. QED  BY <1>3, <1>5, <1>r, <1>w, <2>1, <2>2
<1>13. CASE UNCHANGED vars
  BY <1>3, <1>4, <1>5, <1>13 DEF vars
<1>. QED  BY <1>6, <1>7, <1>8, <1>9, <1>10, <1>11, <1>12, <1>13, Steps

LEMMA LinkInit == Init => LinkInv
<1> SUFFICES ASSUME Init, NEW l \in Lists
             PROVE  Within(field[l], l)
  BY DEF Init, LinkInv, OnPage
<1>1. Table(l) \in Tables /\ 1 \in 1..Start /\ 1 \notin South
  BY PagingAssumption DEF Table, Tables
<1>2. 1 \in Listed(l)
  BY <1>1 DEF Init, Listed, Table, Tables
<1>3. Listed(l) \in SUBSET Nos
  BY TypedInit, ListedRows DEF Typed
<1>. QED  BY <1>2, <1>3, Pages DEF Init, Within

(* Until a row is deleted, the links and the cookie lead to pages there    *)
(* are, of every list and however requests overlap.                        *)
THEOREM LinksLeadSomewhere == Spec => []LinksStayInside
<1>1. Typed /\ Typed' /\ LinkInv /\ [Next]_vars => LinkInv'
  BY LinkStep
<1>2. Typed /\ LinkInv => LinksStayInside
  BY DEF LinkInv, Within, LinksStayInside, OnPage, Typed, TypeOK, Shown
<1>. QED  BY <1>1, <1>2, LinkInit, TypedInvariance, PTL DEF Spec

-----------------------------------------------------------------------------
(* Quotes beside ossans.  What is inserted between the two queries of a    *)
(* page comes after everything the first has seen.                         *)

Early(S, T) == S \subseteq T /\ \A x \in S, y \in T \ S : x < y

LEMMA IndexIsOneToOne ==
  ASSUME NEW B \in SUBSET Nos, NEW a \in B, NEW b \in B, Index(B, a) = Index(B, b)
  PROVE  a = b
<1>0. a \in Int /\ b \in Int /\ B \subseteq Int
  BY PagingAssumption DEF Nos
<1>1. ASSUME NEW x \in B, NEW y \in B, x < y, Index(B, x) = Index(B, y)
      PROVE  FALSE
  <2> DEFINE X == {z \in B : z <= x}
             Y == {z \in B : z <= y}
  <2>0. x \in Int /\ y \in Int
    BY <1>0
  <2>1. /\ \A z \in B : z \in Int /\ (z <= x => z <= y)
        /\ y <= y /\ ~ (y <= x)
    BY <1>0, <1>1, <2>0
  <2>4. X \subseteq Y /\ y \in Y /\ y \notin X /\ Y \in SUBSET Nos
    BY <2>1
  <2>2. Cardinality(X) = Cardinality(Y)
    BY <1>1 DEF Index
  <2>3. IsFiniteSet(Y)
    BY <2>4, NosFinite
  <2> HIDE DEF X, Y
  <2>. QED  BY <2>2, <2>3, <2>4, FS_Subset
<1>2. a < b \/ b < a \/ a = b
  BY <1>0
<1>. QED  BY <1>1, <1>2

LEMMA SameBeside ==
  ASSUME NEW l, l # "articles", NEW S \in SUBSET Nos, NEW T \in SUBSET Nos,
         Early(S, T), NEW n, NEW a \in Page(l, S, n), NEW b \in Page(l, T, n),
         Index(Page(l, S, n), a) = Index(Page(l, T, n), b)
  PROVE  a = b
<1> DEFINE A == Page(l, S, n)
           B == Page(l, T, n)
<1>0. T \subseteq Int /\ S \subseteq T
  BY PagingAssumption DEF Nos, Early
<1>1. ASSUME NEW x \in S
      PROVE  Rank(l, S, x) = Rank(l, T, x)
  <2>1. {y \in S : y <= x} = {y \in T : y <= x}
    <3>1. ASSUME NEW y \in T, y <= x
          PROVE  y \in S
      <4>1. x \in Int /\ y \in Int /\ (y \notin S => x < y)
        BY <1>0, <1>1, <3>1 DEF Early
      <4>. QED  BY <3>1, <4>1
    <3>. QED  BY <1>0, <3>1
  <2>2. Rank(l, S, x) = Cardinality({y \in S : y <= x})
        /\ Rank(l, T, x) = Cardinality({y \in T : y <= x})
    BY DEF Rank
  <2>. QED  BY <2>1, <2>2
<1>2. A = {x \in B : x \in S}
  BY <1>0, <1>1 DEF Page
<1>3. a \in A /\ a \in B /\ a \in S /\ B \in SUBSET Nos /\ b \in B
  BY <1>2 DEF Page
<1>4. {y \in A : y <= a} = {y \in B : y <= a}
  <2>1. ASSUME NEW y \in B, y <= a
        PROVE  y \in S
    <3>1. y \in T /\ a \in Int /\ y \in Int /\ (y \notin S => a < y)
      BY <1>0, <1>3, <2>1 DEF Early, Page
    <3>. QED  BY <2>1, <3>1
  <2>. QED  BY <1>2, <2>1
<1>5. Index(A, a) = Index(B, a)
  BY <1>4 DEF Index
<1>6. Index(B, a) = Index(B, b)
  BY <1>5
<1> HIDE DEF A, B
<1>. QED  BY <1>3, <1>6, IndexIsOneToOne

(* Either list may be the older one. *)
Beside(M, Q) == \A x \in M, q \in Q : Index(M, x) = Index(Q, q) => x = q

LEMMA PagesBeside ==
  ASSUME NEW l, l # "articles", NEW S \in SUBSET Nos, NEW T \in SUBSET Nos,
         Early(S, T), NEW n
  PROVE  /\ Beside(Page(l, S, n), Page(l, T, n))
         /\ Beside(Page(l, T, n), Page(l, S, n))
<1>1. Beside(Page(l, S, n), Page(l, T, n))
  BY SameBeside DEF Beside
<1>2. ASSUME NEW x \in Page(l, T, n), NEW q \in Page(l, S, n),
             Index(Page(l, T, n), x) = Index(Page(l, S, n), q)
      PROVE  x = q
  BY <1>2, SameBeside
<1>. QED  BY <1>1, <1>2 DEF Beside

QuoteInv ==
  \A r \in Requests :
    ~ loc[r].cut
    => /\ pc[r] = "second"
          => /\ loc[r].list # "articles"
             /\ \E S \in SUBSET Nos :
                  /\ Early(S, Listed(loc[r].list))
                  /\ (IF loc[r].list \in HasCookie THEN loc[r].quotes ELSE loc[r].members)
                       = Page(loc[r].list, S, loc[r].no)
       /\ pc[r] \in {"number", "count"} => Beside(loc[r].members, loc[r].quotes)

LEMMA HibernateInOrder ==
  ASSUME KeyOrder, NEW l, NEW S, NEW n, NEW P \in PagesByHibernate(l, S, n)
  PROVE  P = Page(l, S, IF n < 1 THEN 1 ELSE n)
BY DEF PagesByHibernate

LEMMA NoPageZero ==
  ASSUME NEW l, NEW S \in SUBSET Nos
  PROVE  Page(l, S, 0) = {}
<1>1. \A x \in S : Rank(l, S, x) \in Nat /\ 1 <= Rank(l, S, x)
  BY RankBounds
<1>2. 0 * PerPage = 0
  BY PagingAssumption
<1>. QED  BY <1>1, <1>2 DEF Page

LEMMA QuoteStep ==
  ASSUME Typed, KeyOrder, AskedInv, QuoteInv, [Next]_vars
  PROVE  QuoteInv'
<1> USE DEF rowVars
<1>1. ASSUME NEW r \in Requests, UNCHANGED items,
             \A u \in Requests : u # r => pc'[u] = pc[u] /\ loc'[u] = loc[u],
             ~ loc'[r].cut
             => /\ pc'[r] = "second"
                   => /\ loc'[r].list # "articles"
                      /\ \E S \in SUBSET Nos :
                           /\ Early(S, Listed(loc'[r].list))
                           /\ (IF loc'[r].list \in HasCookie THEN loc'[r].quotes
                               ELSE loc'[r].members)
                                = Page(loc'[r].list, S, loc'[r].no)
                /\ pc'[r] \in {"number", "count"} => Beside(loc'[r].members, loc'[r].quotes)
      PROVE  QuoteInv'
  <2>1. \A l : Listed(l)' = Listed(l)
    BY <1>1 DEF Listed
  <2>. QED  BY <1>1, <2>1 DEF QuoteInv, Listed
<1>2. ASSUME NEW r \in Requests, NEW v \in Visitors, NEW l \in Lists, NEW n \in Nat,
             Ask(r, v, l, n)
      PROVE  QuoteInv'
  BY <1>1, <1>2, Asks DEF Ask
<1>3. ASSUME NEW r \in Requests, FirstQuery(r)
      PROVE  QuoteInv'
  <2> DEFINE l == loc[r].list
             found == Page(l, Listed(l), field[l])
  <2>1. loc[r] \in Locals /\ Listed(l) \in SUBSET Nos
    BY <1>3, Serving DEF FirstQuery
  <2>2. /\ loc'[r].list = l /\ loc'[r].no = field[l]
        /\ loc'[r].quotes = (IF l \in HasCookie THEN found ELSE {})
        /\ loc'[r].members = (IF l \in HasCookie THEN {} ELSE found)
        /\ pc'[r] = IF l = "articles" THEN "number" ELSE "second"
    BY <1>3, <2>1, First DEF Locals
  <2>3. Early(Listed(l), Listed(l))
    BY DEF Early
  <2>4. l = "articles" => Beside(loc'[r].members, loc'[r].quotes)
    BY <2>2 DEF Beside, HasCookie
  <2>5. /\ UNCHANGED items
        /\ \A u \in Requests : u # r => pc'[u] = pc[u] /\ loc'[u] = loc[u]
    BY <1>3, First DEF FirstQuery
  <2> HIDE DEF l
  <2>. QED  BY <1>1, <2>1, <2>2, <2>3, <2>4, <2>5
<1>4. ASSUME NEW r \in Requests, SecondQuery(r)
      PROVE  QuoteInv'
  <2> DEFINE l == loc[r].list
             n == loc[r].no
  <2>1. /\ loc[r] \in Locals /\ Listed(l) \in SUBSET Nos
        /\ pc[r] = "second" /\ l \in Lists /\ field[l] = n
    BY <1>4, Serving DEF SecondQuery, AskedInv
  <2>2. /\ UNCHANGED items /\ pc'[r] = "number"
        /\ \A u \in Requests : u # r => pc'[u] = pc[u] /\ loc'[u] = loc[u]
    BY <1>4, Second DEF SecondQuery
  <2>3. ASSUME ~ loc'[r].cut
        PROVE  Beside(loc'[r].members, loc'[r].quotes)
    <3>1. loc'[r].cut = loc[r].cut
      BY <1>4, SecondParts
    <3>2. PICK S \in SUBSET Nos :
            /\ Early(S, Listed(l))
            /\ (IF l \in HasCookie THEN loc[r].quotes ELSE loc[r].members) = Page(l, S, n)
      BY <2>1, <2>3, <3>1 DEF QuoteInv
    <3>3. l # "articles"
      BY <2>1, <2>3, <3>1 DEF QuoteInv
    <3>4. Beside(Page(l, S, n), Page(l, Listed(l), n))
          /\ Beside(Page(l, Listed(l), n), Page(l, S, n))
      BY <2>1, <3>2, <3>3, PagesBeside
    <3>5. CASE l = "ossans"
      <4>1. loc'[r].members \in PagesByHibernate(l, Listed(l), n)
        BY <1>4, <2>1, <3>5, SecondParts
      <4>2. loc'[r].quotes = loc[r].quotes
        BY <1>4, <3>5, SecondParts
      <4>3. loc[r].quotes = Page(l, S, n)
        BY <2>1, <3>2, <3>5 DEF HasCookie
      <4>4. CASE n = 0
        BY <4>2, <4>3, <4>4, NoPageZero DEF Beside
      <4>5. CASE n # 0
        <5>1. n \in Nat
          BY <2>1, PagingAssumption DEF Locals, Numbers
        <5>2. loc'[r].members = Page(l, Listed(l), n)
          BY <4>1, <4>5, <5>1, HibernateInOrder
        <5>. QED  BY <3>4, <4>2, <4>3, <5>2
      <4>. QED  BY <4>4, <4>5
    <3>6. CASE l = "north"
      <4>2. loc'[r].members = Page(l, Listed(l), n) /\ loc'[r].quotes = loc[r].quotes
        BY <1>4, <3>6, SecondParts
      <4>3. loc[r].quotes = Page(l, S, n)
        BY <2>1, <3>2, <3>6 DEF HasCookie
      <4>. QED  BY <3>4, <4>2, <4>3
    <3>7. CASE l = "maintain"
      <4>2. loc'[r].quotes = Page(l, Listed(l), n) /\ loc'[r].members = loc[r].members
        BY <1>4, <3>7, SecondParts
      <4>3. loc[r].members = Page(l, S, n)
        BY <2>1, <3>2, <3>7 DEF HasCookie
      <4>. QED  BY <3>4, <4>2, <4>3
    <3>. QED  BY <2>1, <3>3, <3>5, <3>6, <3>7, PagingAssumption
  <2>. QED  BY <1>1, <2>2, <2>3
<1>5. ASSUME NEW r \in Requests, SetNumber(r)
      PROVE  QuoteInv'
  <2>1. loc[r] \in Locals /\ pc[r] = "number" /\ UNCHANGED items
    BY <1>5, Serving DEF SetNumber
  <2>2. /\ loc'[r].members = loc[r].members /\ loc'[r].quotes = loc[r].quotes
        /\ loc'[r].cut = loc[r].cut /\ pc'[r] = "count"
        /\ \A u \in Requests : u # r => pc'[u] = pc[u] /\ loc'[u] = loc[u]
    BY <1>5, <2>1, Number, NumberParts
  <2>. QED  BY <1>1, <2>1, <2>2 DEF QuoteInv
<1>6. ASSUME NEW r \in Requests, Show(r) \/ (pc[r] # "idle" /\ NoAnswer(r))
      PROVE  QuoteInv'
  <2>1. UNCHANGED items
    BY <1>6 DEF Show, NoAnswer
  <2>. QED  BY <1>1, <1>6, <2>1, Shows, Unanswered
<1>7. ASSUME NEW t \in Tables, Insert(t)
      PROVE  QuoteInv'
  <2>1. UNCHANGED <<pc, loc>>
    BY <1>7, Inserts
  <2>2. ASSUME NEW l \in Lists, NEW S \in SUBSET Nos, Early(S, Listed(l))
        PROVE  Early(S, Listed(l)')
    <3>1. CASE Table(l) # t
      <4>1. Listed(l)' = Listed(l)
        BY <1>7, <3>1, Inserts, ListedRows, ListedSame DEF Typed
      <4>. QED  BY <2>2, <4>1
    <3>2. CASE Table(l) = t
      <4>1. items'[t] = items[t] \cup {nextNo[t]} /\ nextNo[t] \in Nos
            /\ items[t] \subseteq 1..(nextNo[t] - 1)
        BY <1>7, Inserts DEF Typed
      <4>2. Listed(l)' \subseteq Listed(l) \cup {nextNo[t]} /\ Listed(l) \subseteq Listed(l)'
            /\ Listed(l) \subseteq items[t]
        BY <3>2, <4>1 DEF Listed, Table
      <4>3. \A x \in items[t] : x < nextNo[t]
        BY <4>1, PagingAssumption DEF Nos
      <4>. QED  BY <2>2, <4>2, <4>3 DEF Early
    <3>. QED  BY <3>1, <3>2
  <2>3. \A r \in Requests : pc[r] = "second" => loc[r].list \in Lists
    BY DEF Typed, Fits
  <2>4. ASSUME NEW r \in Requests, ~ loc'[r].cut, pc'[r] = "second"
        PROVE  /\ loc'[r].list # "articles"
               /\ \E S \in SUBSET Nos :
                    /\ Early(S, Listed(loc[r].list)')
                    /\ (IF loc'[r].list \in HasCookie THEN loc'[r].quotes
                        ELSE loc'[r].members) = Page(loc'[r].list, S, loc'[r].no)
    BY <2>1, <2>2, <2>3, <2>4 DEF QuoteInv
  <2>. QED  BY <2>1, <2>4 DEF QuoteInv
<1>8. ASSUME NEW t \in Tables, NEW x \in Nos, Delete(t, x)
      PROVE  QuoteInv'
  <2>1. UNCHANGED pc
    BY <1>8, Deletes
  <2>2. ASSUME NEW r \in Requests, ~ loc'[r].cut, pc[r] # "idle"
        PROVE  /\ ~ loc[r].cut /\ loc'[r].list = loc[r].list /\ loc'[r].no = loc[r].no
               /\ loc'[r].members = loc[r].members /\ loc'[r].quotes = loc[r].quotes
               /\ Listed(loc[r].list)' = Listed(loc[r].list)
    <3>1. Table(loc[r].list) # t /\ Table(loc[r].list) \in Tables /\ loc[r].list \in Lists
      BY <1>8, <2>2, CutOnly, Serving
    <3>2. items'[Table(loc[r].list)] = items[Table(loc[r].list)]
      BY <1>8, <3>1, Deletes
    <3>3. /\ ~ loc[r].cut /\ loc'[r].list = loc[r].list /\ loc'[r].no = loc[r].no
          /\ loc'[r].members = loc[r].members /\ loc'[r].quotes = loc[r].quotes
      BY <1>8, <2>2, CutOnly
    <3>4. Listed(loc[r].list)' = Listed(loc[r].list)
      BY <3>2, <3>3 DEF Listed, Table
    <3>. QED  BY <3>3, <3>4
  <2>. QED  BY <2>1, <2>2 DEF QuoteInv
<1>9. CASE UNCHANGED vars
  BY <1>9 DEF vars, QuoteInv, Listed
<1>. QED  BY <1>2, <1>3, <1>4, <1>5, <1>6, <1>7, <1>8, <1>9, Steps

(* The quote beside an ossan is his own, unless somebody was deleted       *)
(* between the two queries of the page, where Hibernate brings the rows by *)
(* their keys and the requests of one servlet take turns.                  *)
THEOREM QuotesBelong == (Turns /\ KeyOrder) => (Spec => []OwnQuote)
<1> SUFFICES ASSUME Turns, KeyOrder
             PROVE  Spec => []OwnQuote
  OBVIOUS
<1>1. Init => QuoteInv
  BY DEF Init, QuoteInv
<1>2. Typed /\ AskedInv /\ QuoteInv /\ [Next]_vars => AskedInv' /\ QuoteInv'
  BY AskedStep, QuoteStep
<1>3. QuoteInv => OwnQuote
  BY DEF QuoteInv, OwnQuote, Beside
<1>. QED  BY <1>1, <1>2, <1>3, AskedInit, TypedInvariance, PTL DEF Spec

-----------------------------------------------------------------------------
(* Walks.  What a walk has not shown comes behind the page it has reached, *)
(* however the list has grown meanwhile.                                   *)

(* All of M comes behind page n of the list l, which is S. *)
Behind(M, S, l, n) == \A x \in M : x \in S /\ Rank(l, S, x) > n * PerPage

LEMMA BehindNothing ==
  ASSUME NEW S \in SUBSET Nos, NEW l
  PROVE  Behind(S, S, l, 0)
<1>1. 0 * PerPage = 0
  BY PagingAssumption
<1>2. \A x \in S : Rank(l, S, x) \in Nat /\ 1 <= Rank(l, S, x)
  BY RankBounds
<1>3. \A x \in S : Rank(l, S, x) > 0 * PerPage
  BY <1>1, <1>2
<1>. QED  BY <1>3 DEF Behind

LEMMA BehindNext ==
  ASSUME NEW S \in SUBSET Nos, NEW l, NEW n \in Nat, NEW M, Behind(M, S, l, n - 1)
  PROVE  Behind(M \ Page(l, S, n), S, l, n)
<1> SUFFICES ASSUME NEW x \in M, x \notin Page(l, S, n)
             PROVE  x \in S /\ Rank(l, S, x) > n * PerPage
  BY DEF Behind
<1>1. x \in S /\ Rank(l, S, x) > (n - 1) * PerPage
  BY DEF Behind
<1>2. Rank(l, S, x) \in Nat
  BY <1>1, RankBounds
<1>3. ~ ((n - 1) * PerPage + 1 <= Rank(l, S, x) /\ Rank(l, S, x) <= n * PerPage)
  BY <1>1 DEF Page
<1>4. (n - 1) * PerPage \in Int /\ n * PerPage \in Int
  BY Multiples
<1>. QED  BY <1>1, <1>2, <1>3, <1>4

LEMMA BehindGrows ==
  ASSUME NEW S \in SUBSET Nos, NEW T \in SUBSET Nos, S \subseteq T, NEW l,
         NEW n \in Int, NEW M, Behind(M, S, l, n)
  PROVE  Behind(M, T, l, n)
<1> SUFFICES ASSUME NEW x \in M
             PROVE  x \in T /\ Rank(l, T, x) > n * PerPage
  BY DEF Behind
<1>1. x \in S /\ Rank(l, S, x) > n * PerPage
  BY DEF Behind
<1>2. Rank(l, S, x) <= Rank(l, T, x)
  BY <1>1, RankGrows
<1>3. Rank(l, S, x) \in Nat /\ Rank(l, T, x) \in Nat /\ n * PerPage \in Int
  BY <1>1, RankBounds, PagingAssumption
<1>. QED  BY <1>1, <1>2, <1>3

(* There is nothing behind the last page. *)
LEMMA BehindLast ==
  ASSUME NEW S \in SUBSET Nos, NEW l, NEW M, Behind(M, S, l, TotalPages(S))
  PROVE  M = {}
<1> SUFFICES ASSUME NEW x \in M
             PROVE  FALSE
  OBVIOUS
<1>1. x \in S /\ Rank(l, S, x) > TotalPages(S) * PerPage
  BY DEF Behind
<1>2. Rank(l, S, x) \in Nat /\ Rank(l, S, x) <= Cardinality(S)
  BY <1>1, RankBounds
<1>3. Cardinality(S) <= TotalPages(S) * PerPage /\ TotalPages(S) * PerPage \in Int
      /\ Cardinality(S) \in Nat
  BY Pages, NosFinite, PagingAssumption
<1>. QED  BY <1>1, <1>2, <1>3

(* The rows of the page have been asked for. *)
Fetched(r) == pc[r] \in {"number", "count"} \/ (pc[r] = "second" /\ loc[r].list = "maintain")

RequestWalk(r) ==
  LET l == loc[r].list
      M == missed[loc[r].visitor]
  IN  (pc[r] # "idle" /\ M # Null)
      => /\ 1 <= loc[r].asked
         /\ Behind(M, Listed(l), l, loc[r].asked - 1)
         /\ Fetched(r) => Behind(M \ loc[r].members, Listed(l), l, loc[r].asked)

VisitorWalk(v) ==
  (missed[v] # Null /\ OnPage(v) /\ Waits(v))
  => /\ Behind(missed[v], Listed(shown[v].list), shown[v].list, shown[v].number)
     /\ shown[v].number = shown[v].total => missed[v] = {}

WalkInv ==
  /\ \A q, r \in Requests : (loc[q].visitor = loc[r].visitor /\ pc[q] # "idle") => q = r
  /\ \A r \in Requests : RequestWalk(r)
  /\ \A v \in Visitors : VisitorWalk(v)

LEMMA WaitsSame ==
  ASSUME NEW v \in Visitors, NEW r \in Requests,
         \A u \in Requests : u # r => loc'[u] = loc[u],
         loc[r].visitor # v, loc'[r].visitor # v
  PROVE  Waits(v)' <=> Waits(v)
BY DEF Waits

LEMMA WalkStays ==
  ASSUME UNCHANGED items, NEW u \in Requests, RequestWalk(u),
         pc'[u] = pc[u], loc'[u] = loc[u], missed'[loc[u].visitor] = missed[loc[u].visitor]
  PROVE  RequestWalk(u)'
<1>1. Listed(loc[u].list)' = Listed(loc[u].list)
  BY DEF Listed
<1>. QED  BY <1>1 DEF RequestWalk, Fetched

LEMMA VisitStays ==
  ASSUME UNCHANGED items, NEW v \in Visitors, VisitorWalk(v), Waits(v)' => Waits(v),
         shown'[v] = shown[v], missed'[v] = missed[v]
  PROVE  VisitorWalk(v)'
<1>1. Listed(shown[v].list)' = Listed(shown[v].list)
  BY DEF Listed
<1>. QED  BY <1>1 DEF VisitorWalk, OnPage

(* A request goes on, and its visitor waits for it. *)
LEMMA WalkGoesOn ==
  ASSUME Typed, WalkInv, UNCHANGED <<items, shown, missed>>,
         NEW r \in Requests, pc[r] # "idle", pc'[r] # "idle",
         \A u \in Requests : u # r => pc'[u] = pc[u] /\ loc'[u] = loc[u],
         loc'[r].visitor = loc[r].visitor, loc'[r].list = loc[r].list,
         loc'[r].asked = loc[r].asked,
         (/\ missed[loc[r].visitor] # Null
          /\ 1 <= loc[r].asked
          /\ Behind(missed[loc[r].visitor], Listed(loc[r].list), loc[r].list,
                    loc[r].asked - 1)
          /\ Fetched(r)')
         => Behind(missed[loc[r].visitor] \ loc'[r].members, Listed(loc[r].list),
                   loc[r].list, loc[r].asked)
  PROVE  WalkInv'
<1>1. \A q, u \in Requests : (loc'[q].visitor = loc'[u].visitor /\ pc'[q] # "idle") => q = u
  <2>1. \A u \in Requests : loc'[u].visitor = loc[u].visitor /\ (pc'[u] # "idle" => pc[u] # "idle")
    OBVIOUS
  <2>. QED  BY <2>1 DEF WalkInv
<1>2. ASSUME NEW u \in Requests
      PROVE  RequestWalk(u)'
  <2>1. CASE u # r
    BY <2>1, WalkStays DEF WalkInv
  <2>2. CASE u = r
    <3>1. Listed(loc[r].list)' = Listed(loc[r].list)
      BY DEF Listed
    <3>2. RequestWalk(r)
      BY DEF WalkInv
    <3>. QED  BY <2>2, <3>1, <3>2 DEF RequestWalk
  <2>. QED  BY <2>1, <2>2
<1>3. ASSUME NEW v \in Visitors
      PROVE  VisitorWalk(v)'
  <2>1. Waits(v)' => Waits(v)
    BY DEF Waits
  <2>. QED  BY <2>1, VisitStays DEF WalkInv
<1>. QED  BY <1>1, <1>2, <1>3 DEF WalkInv

(* A request is over: nobody else has asked for its visitor. *)
LEMMA WalkEnds ==
  ASSUME Typed, WalkInv, UNCHANGED items,
         NEW r \in Requests, pc[r] # "idle", pc'[r] = "idle", loc'[r] = Blank,
         \A u \in Requests : u # r => pc'[u] = pc[u] /\ loc'[u] = loc[u],
         \A v \in Visitors : v # loc[r].visitor
           => shown'[v] = shown[v] /\ missed'[v] = missed[v],
         \/ missed'[loc[r].visitor] = Null
         \/ /\ Behind(missed'[loc[r].visitor], Listed(loc[r].list),
                      loc[r].list, shown'[loc[r].visitor].number)
            /\ shown'[loc[r].visitor].list = loc[r].list
            /\ shown'[loc[r].visitor].number = shown'[loc[r].visitor].total
               => missed'[loc[r].visitor] = {}
  PROVE  WalkInv'
<1> DEFINE w == loc[r].visitor
<1>w. w \in Visitors /\ w # Null /\ Blank.visitor = Null
  BY Serving, PagingAssumption DEF Blank
<1>o. \A u \in Requests : u # r => loc[u].visitor # w
  BY DEF WalkInv
<1>1. ASSUME NEW q \in Requests, NEW u \in Requests, loc'[q].visitor = loc'[u].visitor,
             pc'[q] # "idle"
      PROVE  q = u
  <2>1. q # r /\ pc[q] # "idle" /\ loc'[q] = loc[q]
    BY <1>1
  <2>2. loc[q].visitor # Null
    BY <2>1, Serving, PagingAssumption
  <2>3. u # r
    BY <1>1, <1>w, <2>1, <2>2
  <2>. QED  BY <1>1, <2>1, <2>3 DEF WalkInv
<1>2. ASSUME NEW u \in Requests
      PROVE  RequestWalk(u)'
  <2>1. CASE u = r
    BY <2>1 DEF RequestWalk
  <2>2. CASE u # r
    <3>1. CASE pc[u] = "idle"
      BY <2>2, <3>1 DEF RequestWalk
    <3>2. CASE pc[u] # "idle"
      <4>1. missed'[loc[u].visitor] = missed[loc[u].visitor]
        BY <1>o, <2>2, <3>2, Serving
      <4>. QED  BY <2>2, <4>1, WalkStays DEF WalkInv
    <3>. QED  BY <3>1, <3>2
  <2>. QED  BY <2>1, <2>2
<1>3. ASSUME NEW v \in Visitors, v # w
      PROVE  VisitorWalk(v)'
  <2>1. v # Null
    BY PagingAssumption
  <2>2. Waits(v)' => Waits(v)
    BY <1>3, <1>w, <2>1, WaitsSame
  <2>. QED  BY <1>3, <2>2, VisitStays DEF WalkInv
<1>4. ASSUME NEW v \in Visitors, v = w
      PROVE  VisitorWalk(v)'
  <2>1. CASE missed'[w] = Null
    BY <1>4, <2>1 DEF VisitorWalk
  <2>2. CASE /\ Behind(missed'[w], Listed(loc[r].list), loc[r].list, shown'[w].number)
             /\ shown'[w].list = loc[r].list
             /\ shown'[w].number = shown'[w].total => missed'[w] = {}
    BY <1>4, <2>2 DEF VisitorWalk, OnPage, Listed
  <2>. QED  BY <2>1, <2>2
<1>. QED  BY <1>1, <1>2, <1>3, <1>4 DEF WalkInv

LEMMA WalkAsked ==
  ASSUME Typed, WalkInv, NEW r \in Requests, NEW v \in Visitors, NEW l \in Lists,
         NEW n \in Nat, Ask(r, v, l, n)
  PROVE  WalkInv'
<1>1. /\ \A u \in Requests : u # r => pc'[u] = pc[u] /\ loc'[u] = loc[u]
      /\ pc'[r] = "first"
      /\ loc'[r].visitor = v /\ loc'[r].list = l /\ loc'[r].asked = n
  BY Asks
<1>2. /\ pc[r] = "idle" /\ Waits(v) /\ UNCHANGED <<items, shown>>
      /\ missed' = [missed EXCEPT ![v] = IF n = 1 THEN Listed(l)
                                         ELSE IF Follows(v, l, n) THEN @ ELSE Null]
  BY DEF Ask, rowVars
<1>3. /\ missed'[v] = IF n = 1 THEN Listed(l)
                      ELSE IF Follows(v, l, n) THEN missed[v] ELSE Null
      /\ \A w \in Visitors : w # v => missed'[w] = missed[w]
  BY <1>2 DEF Typed, TypeOK
<1>4. loc[r].visitor = Null /\ v # Null /\ \A u \in Requests : loc[u].visitor # v
  BY <1>2, PagingAssumption DEF Typed, Fits, Waits
<1>5. ASSUME NEW q \in Requests, NEW u \in Requests, loc'[q].visitor = loc'[u].visitor,
             pc'[q] # "idle"
      PROVE  q = u
  <2>1. CASE q = r
    BY <1>1, <1>4, <1>5, <2>1
  <2>2. CASE q # r
    <3>1. u # r
      BY <1>1, <1>4, <1>5, <2>2
    <3>. QED  BY <1>1, <1>5, <2>2, <3>1 DEF WalkInv
  <2>. QED  BY <2>1, <2>2
<1>6. ASSUME NEW u \in Requests
      PROVE  RequestWalk(u)'
  <2>1. CASE u # r /\ pc[u] = "idle"
    BY <1>1, <2>1 DEF RequestWalk
  <2>2. CASE u # r /\ pc[u] # "idle"
    <3>1. missed'[loc[u].visitor] = missed[loc[u].visitor]
      BY <1>3, <1>4, <2>2, Serving
    <3>. QED  BY <1>1, <1>2, <2>2, <3>1, WalkStays DEF WalkInv
  <2>3. CASE u = r
    <3> SUFFICES ASSUME missed'[v] # Null
                 PROVE  1 <= n /\ Behind(missed'[v], Listed(l), l, n - 1)
      BY <1>1, <1>2, <2>3 DEF RequestWalk, Fetched, Listed
    <3>1. CASE n = 1
      <4>1. Behind(Listed(l), Listed(l), l, 0)
        BY BehindNothing, ListedRows DEF Typed
      <4>. QED  BY <1>3, <3>1, <4>1
    <3>2. CASE n # 1 /\ Follows(v, l, n)
      <4>1. /\ OnPage(v) /\ shown[v] \in Shown
            /\ shown[v].list = l /\ shown[v].number + 1 = n
        BY <3>2 DEF Follows, OnPage, Typed, TypeOK
      <4>2. shown[v].number \in Nat /\ 1 <= n /\ shown[v].number = n - 1
        BY <4>1 DEF Shown, Numbers
      <4>3. missed'[v] = missed[v] /\ missed[v] # Null
        BY <1>3, <3>2
      <4>4. Behind(missed[v], Listed(l), l, shown[v].number)
        BY <1>2, <4>1, <4>3 DEF WalkInv, VisitorWalk
      <4>. QED  BY <4>2, <4>3, <4>4
    <3>. QED  BY <1>3, <3>1, <3>2
  <2>. QED  BY <2>1, <2>2, <2>3
<1>7. ASSUME NEW w \in Visitors
      PROVE  VisitorWalk(w)'
  <2>1. CASE w = v
    BY <1>1, <2>1 DEF VisitorWalk, Waits
  <2>2. CASE w # v
    <3>1. Waits(w)' => Waits(w)
      BY <1>1, <1>4, <2>2, WaitsSame, PagingAssumption
    <3>. QED  BY <1>2, <1>3, <2>2, <3>1, VisitStays DEF WalkInv
  <2>. QED  BY <2>1, <2>2
<1>. QED  BY <1>5, <1>6, <1>7 DEF WalkInv

(* The rows of the page that was asked for are fetched. *)
LEMMA WalkFirst ==
  ASSUME Typed, AskedInv, WalkInv, NEW r \in Requests, FirstQuery(r)
  PROVE  WalkInv'
<1> DEFINE l == loc[r].list
           found == Page(l, Listed(l), field[l])
<1>1. /\ loc[r] \in Locals /\ Listed(l) \in SUBSET Nos /\ l \in Lists
      /\ pc[r] = "first" /\ field[l] = loc[r].asked /\ field[l] \in Nat
  BY Serving DEF FirstQuery, AskedInv, Numbers
<1>2. /\ loc'[r].visitor = loc[r].visitor /\ loc'[r].list = l
      /\ loc'[r].asked = loc[r].asked
      /\ loc'[r].members = (IF l \in HasCookie THEN {} ELSE found)
      /\ pc'[r] = IF l = "articles" THEN "number" ELSE "second"
  BY <1>1, First DEF Locals
<1>3. /\ UNCHANGED <<items, shown, missed>>
      /\ \A u \in Requests : u # r => pc'[u] = pc[u] /\ loc'[u] = loc[u]
  BY First DEF FirstQuery, rowVars, viewVars
<1>4. Fetched(r)' => l \in {"articles", "maintain"} /\ l \notin HasCookie
  BY <1>2 DEF Fetched, HasCookie
<1>5. Behind(missed[loc[r].visitor], Listed(l), l, loc[r].asked - 1)
      => Behind(missed[loc[r].visitor] \ found, Listed(l), l, loc[r].asked)
  BY <1>1, BehindNext
<1>6. pc[r] # "idle" /\ pc'[r] # "idle"
  BY <1>1, <1>2
<1> HIDE DEF found, l
<1>7. (/\ missed[loc[r].visitor] # Null
       /\ 1 <= loc[r].asked
       /\ Behind(missed[loc[r].visitor], Listed(l), l, loc[r].asked - 1)
       /\ Fetched(r)')
      => Behind(missed[loc[r].visitor] \ loc'[r].members, Listed(l), l, loc[r].asked)
  BY <1>2, <1>4, <1>5
<1>. QED  BY <1>2, <1>3, <1>6, <1>7, WalkGoesOn DEF l

LEMMA WalkSecond ==
  ASSUME Typed, KeyOrder, AskedInv, WalkInv, NEW r \in Requests, SecondQuery(r)
  PROVE  WalkInv'
<1> DEFINE l == loc[r].list
           S == Listed(l)
           M == missed[loc[r].visitor]
           n == loc[r].asked
<1>1. /\ loc[r] \in Locals /\ S \in SUBSET Nos /\ l \in Lists
      /\ pc[r] = "second" /\ field[l] = n /\ loc[r].no = n /\ n \in Nat
  BY Serving DEF SecondQuery, AskedInv, Numbers
<1>2. /\ UNCHANGED <<items, shown, missed>> /\ pc'[r] = "number"
      /\ \A u \in Requests : u # r => pc'[u] = pc[u] /\ loc'[u] = loc[u]
  BY Second DEF SecondQuery, rowVars, viewVars
<1>3. /\ loc'[r].visitor = loc[r].visitor /\ loc'[r].list = l /\ loc'[r].asked = n
      /\ \/ l = "ossans" /\ loc'[r].members \in PagesByHibernate(l, S, n)
         \/ l = "north" /\ loc'[r].members = Page(l, S, n)
         \/ l = "maintain" /\ loc'[r].members = loc[r].members
  BY <1>1, SecondParts
<1>4. RequestWalk(r)
  BY DEF WalkInv
<1>5. l = "maintain" /\ M # Null => Behind(M \ loc[r].members, S, l, n)
  BY <1>1, <1>4 DEF RequestWalk, Fetched
<1>6. Behind(M, S, l, n - 1) => Behind(M \ Page(l, S, n), S, l, n)
  BY <1>1, BehindNext
<1>7. l = "ossans" /\ 1 <= n => loc'[r].members = Page(l, S, n)
  BY <1>1, <1>3, HibernateInOrder
<1>8. pc[r] # "idle" /\ pc'[r] # "idle"
  BY <1>1, <1>2
<1> HIDE DEF l, S, M, n
<1>9. (M # Null /\ 1 <= n /\ Behind(M, S, l, n - 1) /\ Fetched(r)')
      => Behind(M \ loc'[r].members, S, l, n)
  BY <1>3, <1>5, <1>6, <1>7
<1>. QED  BY <1>2, <1>3, <1>8, <1>9, WalkGoesOn DEF l, S, M, n

LEMMA WalkNumbered ==
  ASSUME Typed, WalkInv, NEW r \in Requests, SetNumber(r)
  PROVE  WalkInv'
<1>1. loc[r] \in Locals /\ pc[r] = "number"
  BY Serving DEF SetNumber
<1>2. /\ loc'[r].visitor = loc[r].visitor /\ loc'[r].list = loc[r].list
      /\ loc'[r].asked = loc[r].asked /\ loc'[r].members = loc[r].members
      /\ pc'[r] = "count"
  BY <1>1, Number, NumberParts
<1>3. /\ UNCHANGED <<items, shown, missed>>
      /\ \A u \in Requests : u # r => pc'[u] = pc[u] /\ loc'[u] = loc[u]
  BY Number DEF SetNumber, rowVars, viewVars
<1>4. RequestWalk(r) /\ Fetched(r)
  BY <1>1 DEF WalkInv, Fetched
<1>5. missed[loc[r].visitor] # Null
      => Behind(missed[loc[r].visitor] \ loc'[r].members, Listed(loc[r].list),
                loc[r].list, loc[r].asked)
  BY <1>1, <1>2, <1>4 DEF RequestWalk
<1>. QED  BY <1>1, <1>2, <1>3, <1>5, WalkGoesOn

(* The page is shown: the walk has got on, maybe to its end. *)
LEMMA WalkShown ==
  ASSUME Typed, AskedInv, WalkInv, NEW r \in Requests, Show(r)
  PROVE  WalkInv'
<1> DEFINE l == loc[r].list
           S == Listed(l)
           v == loc[r].visitor
<1>1. /\ loc[r] \in Locals /\ S \in SUBSET Nos /\ v \in Visitors
      /\ pc[r] = "count" /\ loc[r].number = loc[r].asked
  BY Serving DEF Show, AskedInv
<1>2. /\ UNCHANGED items /\ pc'[r] = "idle" /\ loc'[r] = Blank
      /\ \A u \in Requests : u # r => pc'[u] = pc[u] /\ loc'[u] = loc[u]
      /\ \A w \in Visitors : w # v => shown'[w] = shown[w] /\ missed'[w] = missed[w]
  BY Shows DEF Show, rowVars
<1>3. /\ shown'[v] = [list |-> l, number |-> loc[r].number, total |-> TotalPages(S)]
      /\ missed'[v] = IF missed[v] = Null THEN Null ELSE missed[v] \ loc[r].members
  BY Shows
<1>4. /\ shown'[v].list = l /\ shown'[v].number = loc[r].asked
      /\ shown'[v].total = TotalPages(S)
  BY <1>1, <1>3
<1>5. missed[v] # Null
      => Behind(missed[v] \ loc[r].members, S, l, loc[r].asked)
  <2>1. RequestWalk(r) /\ Fetched(r)
    BY <1>1 DEF WalkInv, Fetched
  <2>. QED  BY <1>1, <2>1 DEF RequestWalk
<1>6. missed[v] # Null /\ loc[r].asked = TotalPages(S) => missed[v] \ loc[r].members = {}
  BY <1>1, <1>5, BehindLast
<1>7. pc[r] # "idle"
  BY <1>1
<1> HIDE DEF S, l, v
<1>8. \/ missed'[v] = Null
      \/ /\ Behind(missed'[v], S, l, shown'[v].number)
         /\ shown'[v].list = l
         /\ shown'[v].number = shown'[v].total => missed'[v] = {}
  BY <1>3, <1>4, <1>5, <1>6
<1>. QED  BY <1>2, <1>7, <1>8, WalkEnds DEF S, l, v

LEMMA WalkUnanswered ==
  ASSUME Typed, WalkInv, NEW r \in Requests, pc[r] # "idle", NoAnswer(r)
  PROVE  WalkInv'
BY Unanswered, WalkEnds

(* Rows are added: what is behind a page stays behind it. *)
LEMMA WalkGrows ==
  ASSUME Typed, WalkInv, NEW t \in Tables, Insert(t)
  PROVE  WalkInv'
<1>1. UNCHANGED <<pc, loc, shown, missed>>
  BY Inserts DEF viewVars
<1>2. ASSUME NEW l \in Lists
      PROVE  /\ Listed(l) \in SUBSET Nos /\ Listed(l)' \in SUBSET Nos
             /\ Listed(l) \subseteq Listed(l)'
  <2>1. Table(l) \in Tables /\ Listed(l) \in SUBSET Nos
    BY ListedRows DEF Typed
  <2>2. items[Table(l)] \subseteq items'[Table(l)] /\ items'[Table(l)] \in SUBSET Nos
    BY <2>1, Inserts DEF Typed, TypeOK
  <2>. QED  BY <2>1, <2>2 DEF Listed, Table
<1>3. ASSUME NEW l \in Lists, NEW n \in Int, NEW M, Behind(M, Listed(l), l, n)
      PROVE  Behind(M, Listed(l)', l, n)
  BY <1>2, <1>3, BehindGrows
<1>4. ASSUME NEW r \in Requests
      PROVE  RequestWalk(r)'
  <2>1. CASE pc[r] = "idle"
    BY <1>1, <2>1 DEF RequestWalk
  <2>2. CASE pc[r] # "idle"
    <3>1. loc[r].list \in Lists /\ loc[r].asked \in Int /\ loc[r].asked - 1 \in Int
      BY <2>2, Serving DEF Locals, Numbers
    <3>2. RequestWalk(r)
      BY DEF WalkInv
    <3>. QED  BY <1>1, <1>3, <3>1, <3>2 DEF RequestWalk, Fetched, Listed
  <2>. QED  BY <2>1, <2>2
<1>5. ASSUME NEW v \in Visitors
      PROVE  VisitorWalk(v)'
  <2>1. OnPage(v) => shown[v].list \in Lists /\ shown[v].number \in Int
    BY DEF OnPage, Typed, TypeOK, Shown, Numbers
  <2>2. VisitorWalk(v)
    BY DEF WalkInv
  <2>3. (OnPage(v)' <=> OnPage(v)) /\ (Waits(v)' <=> Waits(v))
    BY <1>1 DEF OnPage, Waits
  <2>. QED  BY <1>1, <1>3, <2>1, <2>2, <2>3 DEF VisitorWalk, Listed
<1>. QED  BY <1>1, <1>4, <1>5 DEF WalkInv

(* A row is deleted: the walks under way are no longer counted. *)
LEMMA WalkCut ==
  ASSUME Typed, WalkInv, NEW t \in Tables, NEW x \in Nos, Delete(t, x)
  PROVE  WalkInv'
<1>1. UNCHANGED pc /\ \A v \in Visitors : missed'[v] = Null
  BY Deletes
<1>2. \A r \in Requests : loc'[r].visitor = loc[r].visitor
  BY CutOnly
<1>3. \A r \in Requests : pc[r] # "idle" => loc[r].visitor \in Visitors
  BY DEF Typed, Fits
<1>4. \A q, r \in Requests : (loc'[q].visitor = loc'[r].visitor /\ pc'[q] # "idle") => q = r
  BY <1>1, <1>2 DEF WalkInv
<1>5. \A r \in Requests : RequestWalk(r)'
  BY <1>1, <1>2, <1>3 DEF RequestWalk
<1>6. \A v \in Visitors : VisitorWalk(v)'
  BY <1>1 DEF VisitorWalk
<1>. QED  BY <1>4, <1>5, <1>6 DEF WalkInv

LEMMA WalkStep ==
  ASSUME Typed, KeyOrder, AskedInv, WalkInv, [Next]_vars
  PROVE  WalkInv'
<1>1. CASE UNCHANGED vars
  BY <1>1 DEF vars, WalkInv, RequestWalk, VisitorWalk, Fetched, Waits, OnPage, Listed
<1>2. CASE Next
  BY <1>2, Steps, WalkAsked, WalkFirst, WalkSecond, WalkNumbered, WalkShown,
     WalkUnanswered, WalkGrows, WalkCut
<1>. QED  BY <1>1, <1>2

(* Whoever starts at page 1 and follows "next" to the last page has seen   *)
(* all that was there when he started, unless a row was deleted, where the *)
(* rows come by their keys and the requests of one servlet take turns.     *)
THEOREM WalksSeeAll == (Turns /\ KeyOrder) => (Spec => []WalkSeesAll)
<1> SUFFICES ASSUME Turns, KeyOrder
             PROVE  Spec => []WalkSeesAll
  OBVIOUS
<1>1. Init => WalkInv
  BY DEF Init, WalkInv, RequestWalk, VisitorWalk
<1>2. Typed /\ AskedInv /\ WalkInv /\ [Next]_vars => AskedInv' /\ WalkInv'
  BY AskedStep, WalkStep
<1>3. WalkInv => WalkSeesAll
  BY DEF WalkInv, VisitorWalk, WalkSeesAll
<1>. QED  BY <1>1, <1>2, <1>3, AskedInit, TypedInvariance, PTL DEF Spec
=============================================================================
