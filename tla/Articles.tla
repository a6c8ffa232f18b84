------------------------------ MODULE Articles ------------------------------
(***************************************************************************)
(* How members post, edit and delete their articles, and the administrator *)
(* deletes any.                                                            *)
(*                                                                         *)
(* No servlet looks at whose article it is asked to change, and most ask   *)
(* for no login: the number is that of the page a window shows.  A window  *)
(* keeps its page when its session ends and another member logs in.  What  *)
(* a page shows depends on two attributes of the session, "article" and    *)
(* "products_DPP", that all windows of a browser share and that outlive    *)
(* the request.                                                            *)
(***************************************************************************)
EXTENDS Naturals

CONSTANTS
  Browsers,   \* each has one session at a time
  Tabs,       \* the windows of a browser; each waits for an answer
  Members,    \* values of seqNo
  MaxNo,      \* bound: the last artNo that is given to an article
  Turns,      \* TRUE: the requests of one browser do not overlap
  Null

Windows == Browsers \X Tabs
Nos == 1..MaxNo

ASSUME ArticlesAssumption ==
  /\ MaxNo \in Nat
  /\ Turns \in BOOLEAN
  /\ Null \notin Members
  /\ \A arts \in SUBSET Nos : arts # Null

VARIABLES
  pc,        \* pc[w]: where the request of window w is
  loc,       \* loc[w]: the parameters and local variables of that request
  page,      \* page[w]: what window w shows
  member,    \* member[b]: the attribute LoginOK of b's session: its pKey
  article,   \* article[b]: the attribute "article"
  listed,    \* listed[b]: the attribute "products_DPP"
  rows,      \* rows[n]: the article with artNo n, or Null
  nextNo     \* AUTO_INCREMENT of artNo

attributes == <<member, article, listed>>
table == <<rows, nextNo>>
vars == <<pc, loc, page, member, article, listed, rows, nextNo>>

(* An article is known by its number; "text" is the number of the article  *)
(* that its title and text were written for.  "of" is a history: where a   *)
(* page shows an article, the member whose list it was taken from, Null    *)
(* when it was the list of all.                                            *)
Row == [author : Members, text : Nos]
Article == [no : Nos, text : Nos, of : Members \cup {Null}]

(* "mine" and "all" are the lists of a member and of the administrator,    *)
(* with their buttons; "mine" has a form for a new article; "form" is the  *)
(* form for an old one; the others are redirections.                       *)
Page == [kind : {"mine", "all", "to_mine", "to_jsp"}, arts : SUBSET Nos,
         of : Members \cup {Null}]
        \cup [kind : {"form"}, no : Nos \cup {0}, text : Nos, of : Members \cup {Null}]

List(kind, arts, of) == [kind |-> kind, arts |-> arts, of |-> of]

Blank == [alive |-> FALSE, who |-> Null, no |-> 0, text |-> 0, arts |-> Null, of |-> Null]
Locals == [alive : BOOLEAN, who : Members \cup {Null},
           no : Nos \cup {0}, text : Nos \cup {0},
           arts : (SUBSET Nos) \cup {Null}, of : Members \cup {Null}]

Places == {"idle", "list", "jsp", "form", "find", "keep", "delete", "update",
           "clear", "save", "purge", "all"}

-----------------------------------------------------------------------------
(* Helpers of the actions. *)

Shows(w, kind) == page[w] # Null /\ page[w].kind = kind

(* Nothing of browser b is under way.                                      *)
Quiet(b) == \A t \in Tabs : pc[<<b, t>>] = "idle"

(* Window w sends a request, which finds the session of its browser: that  *)
(* of a member, as LoginOK has him, or that of anyone.                     *)
Request(who, no, text, of) ==
  [alive |-> TRUE, who |-> who, no |-> no, text |-> text, arts |-> Null, of |-> of]

MemberRequest(w, no, text, of) == Request(member[w[1]], no, text, of)
AnyRequest(no, of) == Request(Null, no, 0, of)

Send(w, to, l) ==
  /\ pc[w] = "idle"
  /\ Turns => Quiet(w[1])
  /\ pc' = [pc EXCEPT ![w] = to]
  /\ loc' = [loc EXCEPT ![w] = l]
  /\ UNCHANGED <<page, attributes, table>>

Goto(w, from, to) == pc[w] = from /\ pc' = [pc EXCEPT ![w] = to]

Answer(w, p) ==
  /\ pc' = [pc EXCEPT ![w] = "idle"]
  /\ loc' = [loc EXCEPT ![w] = Blank]
  /\ page' = [page EXCEPT ![w] = p]

Existing == {n \in Nos : rows[n] # Null}
Written(m) == {n \in Existing : rows[n].author = m}

-----------------------------------------------------------------------------
(* ListArticle_Osson and PersonalArticle.jsp *)

(* The menu; without LoginOK the servlet fails.                            *)
OpenMine(w) == member[w[1]] # Null /\ Send(w, "list", MemberRequest(w, 0, 0, Null))

(* The redirection to listArticle, or to PersonalArticle.jsp               *)
Follow(w) ==
  \/ Shows(w, "to_mine") /\ OpenMine(w)
  \/ Shows(w, "to_jsp") /\ Send(w, "jsp", AnyRequest(0, Null))

(* Mutant of ListQuery: the query is that of the visitors. *)
ListQueryAll(w) ==
  /\ Goto(w, "list", "jsp")
  /\ loc[w].alive
  /\ \E some \in SUBSET Existing :
       loc' = [loc EXCEPT ![w].arts = some, ![w].of = loc[w].who]
  /\ UNCHANGED <<page, attributes, table>>

(* getPageArticles(mob): a page of what he has written; the page number    *)
(* becomes an attribute of the session, which must not be over.            *)
ListQuery(w) ==
  /\ Goto(w, "list", "jsp")
  /\ loc[w].alive
  /\ \E some \in SUBSET Written(loc[w].who) :
       loc' = [loc EXCEPT ![w].arts = some, ![w].of = loc[w].who]
  /\ UNCHANGED <<page, attributes, table>>

(* The attributes as a JSP finds them: none where the session is over.     *)
FoundArticle(w) == IF loc[w].alive THEN article[w[1]] ELSE Null
FoundListed(w) == IF loc[w].alive THEN listed[w[1]] ELSE {}

(* "article" is empty: products_DPP of the request, or of the session      *)
ShowMine(w) ==
  /\ pc[w] = "jsp"
  /\ FoundArticle(w) = Null
  /\ Answer(w, List("mine", IF loc[w].arts = Null THEN FoundListed(w) ELSE loc[w].arts,
                    loc[w].of))
  /\ UNCHANGED <<attributes, table>>

(* ${article.title}, ${article.sArticle} *)
ShowText(w) ==
  /\ Goto(w, "jsp", "form")
  /\ FoundArticle(w) # Null
  /\ loc' = [loc EXCEPT ![w].text = FoundArticle(w).text]
  /\ UNCHANGED <<page, attributes, table>>

(* ${article.artNo} of what is the attribute by now; it may be empty.      *)
ShowForm(w) ==
  LET art == FoundArticle(w)
  IN  /\ pc[w] = "form"
      /\ Answer(w, [kind |-> "form", text |-> loc[w].text,
                    no |-> IF art = Null THEN 0 ELSE art.no,
                    of |-> IF art = Null THEN Null ELSE art.of])
      /\ UNCHANGED <<attributes, table>>

-----------------------------------------------------------------------------
(* ModifyArticle: it does not ask who is logged in. *)

Click(w, to) ==
  /\ Shows(w, "mine")
  /\ \E n \in page[w].arts : Send(w, to, AnyRequest(n, page[w].of))

EditButton(w) == Click(w, "find")
DeleteButton(w) == Click(w, "delete")

(* getArticle(): the servlet fails when the article is gone.               *)
Find(w) ==
  LET n == loc[w].no
  IN  /\ Goto(w, "find", "keep")
      /\ rows[n] # Null
      /\ loc' = [loc EXCEPT ![w].text = rows[n].text]
      /\ UNCHANGED <<page, attributes, table>>

(* Mutant of Keep: setsArticle() is left out where the attribute exists. *)
KeepNumber(w) ==
  /\ pc[w] = "keep"
  /\ loc[w].alive
  /\ article' = [article EXCEPT ![w[1]] =
       [no |-> loc[w].no, of |-> loc[w].of,
        text |-> IF article[w[1]] = Null THEN loc[w].text ELSE article[w[1]].text]]
  /\ Answer(w, List("to_jsp", {}, Null))
  /\ UNCHANGED <<member, listed, table>>

(* setAttribute("article", art); it fails when the session is over.        *)
Keep(w) ==
  /\ pc[w] = "keep"
  /\ loc[w].alive
  /\ article' = [article EXCEPT ![w[1]] =
       [no |-> loc[w].no, text |-> loc[w].text, of |-> loc[w].of]]
  /\ Answer(w, List("to_jsp", {}, Null))
  /\ UNCHANGED <<member, listed, table>>

Delete(w) ==
  /\ pc[w] = "delete"
  /\ rows' = [rows EXCEPT ![loc[w].no] = Null]
  /\ Answer(w, List("to_mine", {}, Null))
  /\ UNCHANGED <<attributes, nextNo>>

-----------------------------------------------------------------------------
(* UpdateArticle: without LoginOK it fails. *)

(* A form without a number posts its text as a new article.                *)
SendForm(w) ==
  /\ Shows(w, "form")
  /\ member[w[1]] # Null
  /\ Send(w, IF page[w].no = 0 THEN "save" ELSE "update",
          MemberRequest(w, page[w].no, page[w].text, page[w].of))

SendNew(w) == Shows(w, "mine") /\ member[w[1]] # Null /\ Send(w, "save", MemberRequest(w, 0, 0, Null))

(* Mutant of Update: a row that is missing is inserted. *)
UpdateOrInsert(w) ==
  /\ Goto(w, "update", "clear")
  /\ rows' = [rows EXCEPT ![loc[w].no] = [author |-> loc[w].who, text |-> loc[w].text]]
  /\ UNCHANGED <<loc, page, attributes, nextNo>>

(* updateArticle(), with an image or without one: it finds the row by its  *)
(* number, and nobody asks whether it has found one.                       *)
Update(w) ==
  LET n == loc[w].no
  IN  /\ Goto(w, "update", "clear")
      /\ rows' = IF rows[n] = Null THEN rows
                 ELSE [rows EXCEPT ![n].text = loc[w].text]
      /\ UNCHANGED <<loc, page, attributes, nextNo>>

(* setAttribute("article", null) *)
Clear(w) ==
  /\ pc[w] = "clear"
  /\ loc[w].alive
  /\ article' = [article EXCEPT ![w[1]] = Null]
  /\ Answer(w, List("to_mine", {}, Null))
  /\ UNCHANGED <<member, listed, table>>

(* Mutant of Save: the author is not stored. *)
SaveAnonymous(w) ==
  /\ pc[w] = "save"
  /\ nextNo <= MaxNo
  /\ rows' = [rows EXCEPT ![nextNo] = [author |-> Null, text |-> nextNo]]
  /\ nextNo' = nextNo + 1
  /\ Answer(w, List("to_mine", {}, Null))
  /\ UNCHANGED attributes

(* saveArticle() *)
Save(w) ==
  /\ pc[w] = "save"
  /\ nextNo <= MaxNo
  /\ rows' = [rows EXCEPT ![nextNo] =
               [author |-> loc[w].who,
                text |-> IF loc[w].text = 0 THEN nextNo ELSE loc[w].text]]
  /\ nextNo' = nextNo + 1
  /\ Answer(w, List("to_mine", {}, Null))
  /\ UNCHANGED attributes

-----------------------------------------------------------------------------
(* ListArticle_Admin: only the menu asks for an administrator. *)

OpenAll(w) == Send(w, "all", AnyRequest(0, Null))

PurgeButton(w) ==
  /\ Shows(w, "all")
  /\ \E n \in page[w].arts : Send(w, "purge", AnyRequest(n, page[w].of))

Purge(w) ==
  /\ Goto(w, "purge", "all")
  /\ rows' = [rows EXCEPT ![loc[w].no] = Null]
  /\ UNCHANGED <<loc, page, attributes, nextNo>>

(* The page of the list becomes an attribute; ListArticle_Admin.jsp.       *)
ListAll(w) ==
  /\ pc[w] = "all"
  /\ loc[w].alive
  /\ \E some \in SUBSET Existing :
       /\ listed' = [listed EXCEPT ![w[1]] = some]
       /\ Answer(w, List("all", some, Null))
  /\ UNCHANGED <<member, article, table>>

(* An exception: a query fails, an article is missing, a session is over.  *)
(* The window shows it.                                                    *)
Fail(w) ==
  /\ pc[w] # "idle"
  /\ Answer(w, Null)
  /\ UNCHANGED <<attributes, table>>

-----------------------------------------------------------------------------
(* What LoginSession models *)

(* It takes no account of who is logged in already.                        *)
Login(b, m) ==
  /\ member' = [member EXCEPT ![b] = m]
  /\ UNCHANGED <<pc, loc, page, article, listed, table>>

(* logout.jsp, or the timeout.  The windows keep what they show, and go on *)
(* with the next session of their browser.                                 *)
Logout(b) ==
  /\ Turns => Quiet(b)
  /\ member' = [member EXCEPT ![b] = Null]
  /\ article' = [article EXCEPT ![b] = Null]
  /\ listed' = [listed EXCEPT ![b] = {}]
  /\ loc' = [w \in Windows |-> IF w[1] = b THEN [loc[w] EXCEPT !.alive = FALSE]
                               ELSE loc[w]]
  /\ UNCHANGED <<pc, page, table>>

-----------------------------------------------------------------------------
Init ==
  /\ pc = [w \in Windows |-> "idle"]
  /\ loc = [w \in Windows |-> Blank]
  /\ page = [w \in Windows |-> Null]
  /\ member = [b \in Browsers |-> Null]
  /\ article = [b \in Browsers |-> Null]
  /\ listed = [b \in Browsers |-> {}]
  /\ rows = [n \in Nos |-> Null]
  /\ nextNo = 1

User(w) ==
  \/ OpenMine(w) \/ OpenAll(w) \/ Follow(w) \/ EditButton(w) \/ DeleteButton(w)
  \/ SendForm(w) \/ SendNew(w) \/ PurgeButton(w)

Handle(w) ==
  \/ ListQuery(w) \/ ShowMine(w) \/ ShowText(w) \/ ShowForm(w)
  \/ Find(w) \/ Keep(w) \/ Delete(w) \/ Update(w) \/ Clear(w) \/ Save(w)
  \/ Purge(w) \/ ListAll(w) \/ Fail(w)

Next ==
  \/ \E w \in Windows : User(w) \/ Handle(w)
  \/ \E b \in Browsers : Logout(b) \/ \E m \in Members : Login(b, m)

Spec == Init /\ [][Next]_vars

-----------------------------------------------------------------------------
(* Properties *)

(* The type invariant. *)
TypeOK ==
  /\ pc \in [Windows -> Places]
  /\ loc \in [Windows -> Locals]
  /\ page \in [Windows -> Page \cup {Null}]
  /\ member \in [Browsers -> Members \cup {Null}]
  /\ article \in [Browsers -> Article \cup {Null}]
  /\ listed \in [Browsers -> SUBSET Nos]
  /\ rows \in [Nos -> Row \cup {Null}]
  /\ nextNo \in 1..(MaxNo + 1)

(* The article that ModifyArticle deletes or UpdateArticle changes came to *)
(* the window from the list of its author, unless it came from the list of *)
(* all, which a session may hold for PersonalArticle.jsp to show: no other *)
(* member's list, edit or form leads to it.  Neither servlet asks; it is   *)
(* what the pages and the attribute "article" hold, over logouts, logins   *)
(* of others in the same browser, and requests that overlap.               *)
AuthorsOwn ==
  [][\A w \in Windows, n \in Nos :
       (/\ pc[w] \in {"delete", "update"} /\ pc'[w] # pc[w]
        /\ rows[n] # Null /\ rows'[n] # rows[n])
       => loc[w].of \in {rows[n].author, Null}
    ]_vars

(* No article gets the text of another: the number and the text of a form, *)
(* which PersonalArticle.jsp takes from the session one after the other,   *)
(* belong together.  It holds where the requests of a browser take turns   *)
(* (Turns): where they overlap, a form can have one article's text and     *)
(* another's number.                                                       *)
OwnText ==
  \A n \in Nos : rows[n] # Null => rows[n].text = n

(* An article that is deleted, by its author or by the administrator, does *)
(* not come back, although forms for it and the attribute "article" stay.  *)
StaysDeleted ==
  [][\A n \in Nos : (n < nextNo /\ rows[n] = Null) => rows'[n] = Null]_vars
=============================================================================
