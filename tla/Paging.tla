------------------------------- MODULE Paging -------------------------------
(***************************************************************************)
(* The lists of ossans and articles, page by page.                         *)
(*                                                                         *)
(* RetrieveOssanProducts ("ossans"), RetrieveOssanProductsNorth ("north"), *)
(* DisplayMaintainProducts ("maintain") and ListArticle_Visitor            *)
(* ("articles") keep the number of the page in a field, ask the database   *)
(* for that page and for the number of pages in separate queries, and show *)
(* links to other pages.  Meanwhile ossans and articles come and go.       *)
(***************************************************************************)
EXTENDS Integers, FiniteSets

CONSTANTS
  Visitors,   \* browsers; each waits for an answer before its next request
  Requests,   \* the request threads
  Lists,      \* the lists in use
  Opened,     \* bound: the sets of lists that are opened in one behaviour
  PerPage,    \* GlobalService.RECORDS_PER_PAGE
  Start,      \* how many ossans and articles the tables are seeded with
  MaxNo,      \* bound: the last number a row gets
  MaxGone,    \* bound: how many rows of a table are deleted
  MaxPage,    \* bound: the last page a browser asks for
  South,      \* the ossans with twnorth = 0
  KeyOrder,   \* TRUE: rows come by their keys where no order is asked for
  Turns,      \* TRUE: the requests of one servlet do not overlap
  Null

ASSUME PagingAssumption ==
  /\ Lists \subseteq {"ossans", "north", "maintain", "articles"}
  /\ Opened \subseteq SUBSET Lists
  /\ PerPage \in Nat \ {0}
  /\ Start \in Nat \ {0}
  /\ MaxNo \in Nat
  /\ Start <= MaxNo
  /\ MaxGone \in Nat
  /\ MaxPage \in Nat \ {0}
  /\ South \subseteq 2..MaxNo
  /\ {KeyOrder, Turns} \subseteq BOOLEAN
  /\ Null \notin Visitors \cup Lists \cup Int

VARIABLES
  pc,        \* pc[r]: where request r is
  loc,       \* loc[r]: the local variables of request r
  field,     \* field[l]: the field pageNo of the servlet of list l
  items,     \* items[t]: the numbers of the rows of table t
  nextNo,    \* nextNo[t]: AUTO_INCREMENT of table t
  shown,     \* shown[v]: the page browser v shows
  cookie,    \* cookie[v][l]: the cookie nonuserpageNo of browser v
  open,      \* the lists that are opened; it never changes
  missed     \* history: missed[v]: the rows that v, who has followed "next"
             \* from page 1 on, has not seen yet; Null if he went elsewhere

rowVars  == <<items, nextNo, open>>
viewVars == <<shown, cookie, missed>>
vars == <<pc, loc, field, items, nextNo, shown, cookie, open, missed>>

Table(l) == IF l = "articles" THEN "article" ELSE "member"
Tables == {"member", "article"}
Nos == 1..MaxNo
HasCookie == Lists \cap {"ossans", "north"}   \* and the session attribute

(* The rows the query of list l is about *)
Listed(l) == IF l = "north" THEN items["member"] \ South ELSE items[Table(l)]

Blank == [visitor |-> Null, list |-> Null, asked |-> 0, no |-> 0,
          members |-> {}, quotes |-> {}, number |-> 0, cut |-> FALSE]

Places == {"idle", "first", "second", "number", "count"}

-----------------------------------------------------------------------------
(* The queries.  ROW_NUMBER() counts ossans by rising, articles by falling *)
(* numbers. *)

Rank(l, S, x) ==
  Cardinality({y \in S : IF l = "articles" THEN y >= x ELSE y <= x})

(* getPageOssans(), getQuoteOssan(), getPageArticles(): rows by RowNum     *)
Page(l, S, n) ==
  {x \in S : (n - 1) * PerPage + 1 <= Rank(l, S, x) /\ Rank(l, S, x) <= n * PerPage}

(* Mutant of PagesByHibernate: the first result is one page too far. *)
PagesByHibernateLate(l, S, n) == {Page(l, S, n + 1)}

(* Hibernate (external): no offset for a first result below 0.  HQL names  *)
(* no order: whether these are the rows of the page is the database's      *)
(* choice.                                                                 *)
PagesByHibernate(l, S, n) ==
  LET page == Page(l, S, IF n < 1 THEN 1 ELSE n)
  IN  IF KeyOrder THEN {page}
      ELSE {P \in SUBSET S : Cardinality(P) = Cardinality(page)}

(* Mutant of TotalPages: the quotient is rounded down. *)
TotalPagesDown(S) == Cardinality(S) \div PerPage

(* Math.ceil(getRecordCounts() / (double) recordsPerPage) *)
TotalPages(S) == (Cardinality(S) + PerPage - 1) \div PerPage

-----------------------------------------------------------------------------
(* Helpers of the actions. *)

Waits(v) == \A q \in Requests : loc[q].visitor # v

Alone(l) == Turns => \A q \in Requests : loc[q].list # l

OnPage(v) == shown[v] # Null

Follows(v, l, n) == OnPage(v) /\ shown[v].list = l /\ shown[v].number + 1 = n

Respond(r) ==
  /\ pc' = [pc EXCEPT ![r] = "idle"]
  /\ loc' = [loc EXCEPT ![r] = Blank]

(* Request r asks for page n of list l: the field pageNo is set.  A walk   *)
(* starts at page 1 and goes on with the page after the one shown.         *)
Ask(r, v, l, n) ==
  /\ pc[r] = "idle"
  /\ Waits(v)
  /\ Alone(l)
  /\ n <= MaxPage
  /\ field' = [field EXCEPT ![l] = n]
  /\ pc' = [pc EXCEPT ![r] = "first"]
  /\ loc' = [loc EXCEPT ![r] = [Blank EXCEPT !.visitor = v, !.list = l, !.asked = n]]
  /\ missed' = [missed EXCEPT ![v] = IF n = 1 THEN Listed(l)
                                    ELSE IF Follows(v, l, n) THEN @ ELSE Null]
  /\ UNCHANGED <<rowVars, shown, cookie>>

-----------------------------------------------------------------------------
(* The links of the list JSPs *)

FirstLink(r, v) ==
  OnPage(v) /\ shown[v].number > 1 /\ Ask(r, v, shown[v].list, 1)

(* Mutant of PrevLink: the link is there on the first page, too. *)
PrevLinkAlways(r, v) ==
  OnPage(v) /\ Ask(r, v, shown[v].list, shown[v].number - 1)

PrevLink(r, v) ==
  OnPage(v) /\ shown[v].number > 1 /\ Ask(r, v, shown[v].list, shown[v].number - 1)

(* Mutant of NextLink: the link is there on the last page, too. *)
NextLinkAlways(r, v) ==
  OnPage(v) /\ Ask(r, v, shown[v].list, shown[v].number + 1)

NextLink(r, v) ==
  /\ OnPage(v)
  /\ shown[v].number # shown[v].total
  /\ Ask(r, v, shown[v].list, shown[v].number + 1)

LastLink(r, v) ==
  /\ OnPage(v)
  /\ shown[v].number # shown[v].total
  /\ Ask(r, v, shown[v].list, shown[v].total)

(* The menu sends no page number: it is that of the cookie, or 1.          *)
Menu(r, v, l) ==
  /\ l \in open
  /\ Ask(r, v, l, IF l \in HasCookie /\ cookie[v][l] # Null THEN cookie[v][l] ELSE 1)

-----------------------------------------------------------------------------
(* The servlets *)

(* setPageNo(pageNo) and the first query: quotes, or what is listed        *)
FirstQuery(r) ==
  LET l == loc[r].list
      found == Page(l, Listed(l), field[l])
  IN  /\ pc[r] = "first"
      /\ loc' = [loc EXCEPT ![r].no = field[l],
                            ![r].quotes = IF l \in HasCookie THEN found ELSE {},
                            ![r].members = IF l \in HasCookie THEN {} ELSE found]
      /\ pc' = [pc EXCEPT ![r] = IF l = "articles" THEN "number" ELSE "second"]
      /\ UNCHANGED <<field, rowVars, viewVars>>

(* The other query of the page.  RetrieveOssanProducts reads the field     *)
(* again and asks Hibernate.                                               *)
SecondQuery(r) ==
  LET l == loc[r].list
      found == Page(l, Listed(l), loc[r].no)
  IN  /\ pc[r] = "second"
      /\ \/ /\ l = "ossans"
            /\ \E page \in PagesByHibernate(l, Listed(l), field[l]) :
                 loc' = [loc EXCEPT ![r].no = field[l], ![r].members = page]
         \/ l = "north" /\ loc' = [loc EXCEPT ![r].members = found]
         \/ l = "maintain" /\ loc' = [loc EXCEPT ![r].quotes = found]
      /\ pc' = [pc EXCEPT ![r] = "number"]
      /\ UNCHANGED <<field, rowVars, viewVars>>

(* setAttribute("pageNo", pageNo): the number the page will show           *)
SetNumber(r) ==
  /\ pc[r] = "number"
  /\ loc' = [loc EXCEPT ![r].number = field[loc[r].list]]
  /\ pc' = [pc EXCEPT ![r] = "count"]
  /\ UNCHANGED <<field, rowVars, viewVars>>

(* The request brings no answer: the browser still shows its page.         *)
NoAnswer(r) ==
  /\ Respond(r)
  /\ missed' = [missed EXCEPT ![loc[r].visitor] = Null]
  /\ UNCHANGED <<field, rowVars, shown, cookie>>

(* getSession(false) is null: there was no session, or it has timed out.   *)
NoSession(r) ==
  /\ pc[r] = "number"
  /\ loc[r].list \in HasCookie
  /\ NoAnswer(r)

(* getTotalPages(), the cookie, and the JSP *)
Show(r) ==
  LET l == loc[r].list
      v == loc[r].visitor
  IN  /\ pc[r] = "count"
      /\ shown' = [shown EXCEPT ![v] = [list |-> l, number |-> loc[r].number,
                                        total |-> TotalPages(Listed(l))]]
      /\ cookie' = IF l \in HasCookie
                   THEN [cookie EXCEPT ![v][l] = field[l]] ELSE cookie
      /\ missed' = [missed EXCEPT ![v] = IF @ = Null THEN @ ELSE @ \ loc[r].members]
      /\ Respond(r)
      /\ UNCHANGED <<field, rowVars>>

(* A query throws. *)
QueryFails(r) ==
  /\ pc[r] \in {"first", "second", "count"}
  /\ NoAnswer(r)

-----------------------------------------------------------------------------
(* The tables *)

(* saveOssan(), saveArticle() *)
Insert(t) ==
  /\ nextNo[t] <= MaxNo
  /\ items' = [items EXCEPT ![t] = @ \cup {nextNo[t]}]
  /\ nextNo' = [nextNo EXCEPT ![t] = @ + 1]
  /\ UNCHANGED <<pc, loc, field, open, viewVars>>

(* deleteOssan(), deleteArticle() *)
Delete(t, x) ==
  /\ x \in items[t]
  /\ nextNo[t] - 1 - Cardinality(items[t]) < MaxGone
  /\ items' = [items EXCEPT ![t] = @ \ {x}]
  /\ loc' = [r \in Requests |->
               IF loc[r].list # Null /\ Table(loc[r].list) = t
               THEN [loc[r] EXCEPT !.cut = TRUE] ELSE loc[r]]
  /\ missed' = [v \in Visitors |-> Null]
  /\ UNCHANGED <<pc, field, nextNo, open, shown, cookie>>

-----------------------------------------------------------------------------
Init ==
  /\ pc = [r \in Requests |-> "idle"]
  /\ loc = [r \in Requests |-> Blank]
  /\ field = [l \in Lists |-> 1]
  /\ items = [t \in Tables |-> 1..Start]
  /\ nextNo = [t \in Tables |-> Start + 1]
  /\ shown = [v \in Visitors |-> Null]
  /\ cookie = [v \in Visitors |-> [l \in HasCookie |-> Null]]
  /\ open \in Opened
  /\ missed = [v \in Visitors |-> Null]

Click(r, v) ==
  \/ FirstLink(r, v) \/ PrevLink(r, v) \/ NextLink(r, v) \/ LastLink(r, v)
  \/ \E l \in Lists : Menu(r, v, l)

Handle(r) ==
  \/ FirstQuery(r) \/ SecondQuery(r) \/ SetNumber(r) \/ NoSession(r)
  \/ Show(r) \/ QueryFails(r)

Next ==
  \/ \E r \in Requests : Handle(r) \/ \E v \in Visitors : Click(r, v)
  \/ \E t \in {Table(l) : l \in open} : Insert(t) \/ \E x \in Nos : Delete(t, x)

Spec == Init /\ [][Next]_vars

-----------------------------------------------------------------------------
(* Properties *)

Numbers == 0..MaxPage
Shown == [list : Lists, number : Numbers, total : Nat]
Locals == [visitor : Visitors \cup {Null}, list : Lists \cup {Null},
           asked : Numbers, no : Numbers, members : SUBSET Nos,
           quotes : SUBSET Nos, number : Numbers, cut : BOOLEAN]

(* The type invariant. *)
TypeOK ==
  /\ pc \in [Requests -> Places]
  /\ loc \in [Requests -> Locals]
  /\ field \in [Lists -> Numbers]
  /\ items \in [Tables -> SUBSET Nos]
  /\ nextNo \in [Tables -> 1..(MaxNo + 1)]
  /\ shown \in [Visitors -> Shown \cup {Null}]
  /\ cookie \in [Visitors -> [HasCookie -> Numbers \cup {Null}]]
  /\ open \subseteq Lists
  /\ missed \in [Visitors -> (SUBSET Nos) \cup {Null}]

(* listOssans.jsp and OssanMaintainList.jsp put the i-th quote beside the  *)
(* i-th ossan, from two queries: it is his own, unless somebody was        *)
(* deleted meanwhile.  Both lists are taken to be in the order of keys     *)
(* (KeyOrder), and the requests of one servlet do not overlap (Turns):     *)
(* otherwise the field pageNo makes the two queries be about two pages.    *)
Index(S, x) == Cardinality({y \in S : y <= x})

OwnQuote ==
  \A r \in Requests :
    (pc[r] = "count" /\ ~ loc[r].cut)
    => \A x \in loc[r].members, q \in loc[r].quotes :
         Index(loc[r].members, x) = Index(loc[r].quotes, q) => x = q

(* A visitor who starts at page 1 and follows "next" to the last page has  *)
(* seen everything that was in the list when he started, although rows are *)
(* added before (articles) or behind (ossans) the page he is on.  A walk   *)
(* during which a row is deleted is no longer counted.  It takes Turns and *)
(* KeyOrder, too.                                                          *)
WalkSeesAll ==
  \A v \in Visitors :
    (missed[v] # Null /\ OnPage(v) /\ Waits(v) /\ shown[v].number = shown[v].total)
    => missed[v] = {}

(* Until a row is deleted, the links and the cookie lead to pages that     *)
(* exist, however old the page is that shows them.                         *)
Intact(t) == items[t] = 1..(nextNo[t] - 1)

LinksStayInside ==
  \A v \in Visitors :
    (OnPage(v) /\ Intact(Table(shown[v].list)))
    => 1 <= shown[v].number /\ shown[v].number <= shown[v].total
=============================================================================
