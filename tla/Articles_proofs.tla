--------------------------- MODULE Articles_proofs ---------------------------
(***************************************************************************)
(* Proofs about Articles, for every number of members, browsers, windows   *)
(* and articles.                                                           *)
(***************************************************************************)
EXTENDS Articles, TLAPS

-----------------------------------------------------------------------------
(* Types, and what a request knows at each place of a servlet. *)

Fits(place, l) ==
  /\ place \in {"find", "keep", "delete", "update", "purge"} => l.no \in Nos
  /\ place \in {"keep", "form", "update"} => l.text \in Nos
  /\ place \in {"list", "save"} => l.who \in Members

Typed == TypeOK /\ \A w \in Windows : Fits(pc[w], loc[w])

(* A window takes a step: it goes to a place with other local variables,   *)
(* and shows another page.                                                 *)
Moves(w, place, l, p) ==
  /\ pc' = [pc EXCEPT ![w] = place]
  /\ loc' = [loc EXCEPT ![w] = l]
  /\ page' = [page EXCEPT ![w] = p]

LEMMA WindowParts ==
  ASSUME NEW w \in Windows
  PROVE  w[1] \in Browsers /\ w[2] \in Tabs /\ w = <<w[1], w[2]>>
BY DEF Windows

LEMMA MovesTyped ==
  ASSUME Typed, NEW w \in Windows, NEW place \in Places, NEW l \in Locals,
         NEW p \in Page \cup {Null}, Fits(place, l), Moves(w, place, l, p)
  PROVE  /\ pc' \in [Windows -> Places] /\ loc' \in [Windows -> Locals]
         /\ page' \in [Windows -> Page \cup {Null}]
         /\ \A u \in Windows : Fits(pc'[u], loc'[u])
<1>1. /\ pc' \in [Windows -> Places] /\ loc' \in [Windows -> Locals]
      /\ page' \in [Windows -> Page \cup {Null}]
  BY DEF Typed, TypeOK, Moves
<1>2. ASSUME NEW u \in Windows
      PROVE  Fits(pc'[u], loc'[u])
  <2>1. CASE u = w
    <3>1. pc'[u] = place /\ loc'[u] = l
      BY <2>1 DEF Typed, TypeOK, Moves
    <3>. QED  BY <3>1
  <2>2. CASE u # w
    <3>1. pc'[u] = pc[u] /\ loc'[u] = loc[u]
      BY <2>2 DEF Typed, TypeOK, Moves
    <3>. QED  BY <3>1 DEF Typed
  <2>. QED  BY <2>1, <2>2
<1>. QED  BY <1>1, <1>2

LEMMA BlankFits == Blank \in Locals /\ Fits("idle", Blank)
BY DEF Blank, Locals, Fits

LEMMA AnswerMoves ==
  ASSUME NEW w, NEW p, Answer(w, p)
  PROVE  Moves(w, "idle", Blank, p)
BY DEF Answer, Moves

LEMMA AnswersTyped ==
  ASSUME Typed, NEW w \in Windows, NEW p \in Page \cup {Null}, Answer(w, p)
  PROVE  /\ pc' \in [Windows -> Places] /\ loc' \in [Windows -> Locals]
         /\ page' \in [Windows -> Page \cup {Null}]
         /\ \A u \in Windows : Fits(pc'[u], loc'[u])
BY BlankFits, AnswerMoves, MovesTyped DEF Places

(* A step of a servlet after which it goes on *)
LEMMA GoesOn ==
  ASSUME Typed, NEW w \in Windows, NEW place, NEW l,
         pc' = [pc EXCEPT ![w] = place], loc' = [loc EXCEPT ![w] = l], UNCHANGED page
  PROVE  Moves(w, place, l, page[w])
BY DEF Moves, Typed, TypeOK

LEMMA ListIsPage ==
  ASSUME NEW kind \in {"mine", "all", "to_mine", "to_jsp"}, NEW arts \in SUBSET Nos,
         NEW of \in Members \cup {Null}
  PROVE  List(kind, arts, of) \in Page
BY DEF List, Page

(* What a page has *)
LEMMA PageParts ==
  ASSUME Typed, NEW w \in Windows, page[w] # Null
  PROVE  /\ page[w] \in Page /\ page[w].of \in Members \cup {Null}
         /\ page[w].kind # "form" => page[w].arts \subseteq Nos
         /\ page[w].kind = "form" => page[w].no \in Nos \cup {0} /\ page[w].text \in Nos
BY DEF Typed, TypeOK, Page

LEMMA RequestParts ==
  ASSUME Typed, NEW w \in Windows, NEW no \in Nos \cup {0}, NEW text \in Nos \cup {0},
         NEW of \in Members \cup {Null}
  PROVE  /\ AnyRequest(no, of) \in Locals /\ AnyRequest(no, of).no = no
         /\ MemberRequest(w, no, text, of) \in Locals
         /\ MemberRequest(w, no, text, of).no = no
         /\ MemberRequest(w, no, text, of).text = text
         /\ MemberRequest(w, no, text, of).who = member[w[1]]
         /\ member[w[1]] \in Members \cup {Null}
<1>1. member[w[1]] \in Members \cup {Null}
  BY WindowParts DEF Typed, TypeOK
<1>. QED  BY <1>1 DEF AnyRequest, MemberRequest, Request, Locals

LEMMA Sends ==
  ASSUME Typed, NEW w \in Windows, NEW to \in Places, NEW l \in Locals, Send(w, to, l),
         Fits(to, l)
  PROVE  Typed'
<1>1. page[w] \in Page \cup {Null}
  BY DEF Typed, TypeOK
<1>2. Moves(w, to, l, page[w])
  BY GoesOn DEF Send
<1>3. /\ pc' \in [Windows -> Places] /\ loc' \in [Windows -> Locals]
      /\ \A u \in Windows : Fits(pc'[u], loc'[u])
  BY <1>1, <1>2, MovesTyped
<1>. QED  BY <1>3 DEF Send, Typed, TypeOK, attributes, table

LEMMA UserTyped ==
  ASSUME Typed, NEW w \in Windows, User(w)
  PROVE  Typed'
<1> USE DEF Places
<1>z. 0 \in Nos \cup {0} /\ Null \in Members \cup {Null}
  OBVIOUS
<1>m. ASSUME NEW to \in {"list", "save"}, member[w[1]] # Null,
             Send(w, to, MemberRequest(w, 0, 0, Null))
      PROVE  Typed'
  <2>1. MemberRequest(w, 0, 0, Null) \in Locals /\ MemberRequest(w, 0, 0, Null).who \in Members
    BY <1>z, <1>m, RequestParts
  <2>. QED  BY <1>m, <2>1, Sends DEF Fits
<1>a. ASSUME NEW to \in {"jsp", "all"}, Send(w, to, AnyRequest(0, Null))
      PROVE  Typed'
  <2>1. AnyRequest(0, Null) \in Locals
    BY <1>z, RequestParts
  <2>. QED  BY <1>a, <2>1, Sends DEF Fits
<1>1. CASE OpenMine(w)
  BY <1>1, <1>m DEF OpenMine
<1>2. CASE OpenAll(w)
  BY <1>2, <1>a DEF OpenAll
<1>3. CASE Follow(w)
  BY <1>1, <1>3, <1>a DEF Follow
<1>4. ASSUME NEW to \in {"find", "delete", "purge"}, NEW n \in page[w].arts,
             page[w] # Null, page[w].kind # "form", Send(w, to, AnyRequest(n, page[w].of))
      PROVE  Typed'
  <2>1. n \in Nos /\ page[w].of \in Members \cup {Null}
    BY <1>4, PageParts
  <2>2. AnyRequest(n, page[w].of) \in Locals /\ AnyRequest(n, page[w].of).no = n
    BY <1>z, <2>1, RequestParts
  <2>. QED  BY <1>4, <2>1, <2>2, Sends DEF Fits
<1>5. CASE SendForm(w)
  <2> DEFINE l == MemberRequest(w, page[w].no, page[w].text, page[w].of)
  <2>1. page[w].no \in Nos \cup {0} /\ page[w].text \in Nos /\ page[w].of \in Members \cup {Null}
    BY <1>5, PageParts DEF SendForm, Shows
  <2>2. /\ l \in Locals /\ l.no = page[w].no /\ l.text = page[w].text /\ l.who \in Members
    BY <1>5, <2>1, RequestParts DEF SendForm
  <2>3. Send(w, IF page[w].no = 0 THEN "save" ELSE "update", l)
    BY <1>5 DEF SendForm
  <2> HIDE DEF l
  <2>4. CASE page[w].no = 0
    BY <2>1, <2>2, <2>3, <2>4, Sends DEF Fits
  <2>5. CASE page[w].no # 0
    BY <2>1, <2>2, <2>3, <2>5, Sends DEF Fits
  <2>. QED  BY <2>4, <2>5
<1>6. CASE SendNew(w)
  BY <1>6, <1>m DEF SendNew
<1>7. CASE EditButton(w) \/ DeleteButton(w) \/ PurgeButton(w)
  BY <1>4, <1>7 DEF EditButton, DeleteButton, PurgeButton, Click, Shows
<1>. QED  BY <1>1, <1>2, <1>3, <1>5, <1>6, <1>7 DEF User

LEMMA FoundParts ==
  ASSUME Typed, NEW w \in Windows
  PROVE  /\ FoundArticle(w) \in Article \cup {Null} /\ FoundListed(w) \in SUBSET Nos
BY WindowParts DEF Typed, TypeOK, FoundArticle, FoundListed

(* The local variables of a request that goes on *)
LEMMA LocalsParts ==
  ASSUME NEW l \in Locals, NEW text \in Nos, NEW some \in SUBSET Nos
  PROVE  /\ [l EXCEPT !.text = text] \in Locals /\ [l EXCEPT !.text = text].text = text
         /\ [l EXCEPT !.text = text].no = l.no /\ [l EXCEPT !.text = text].of = l.of
         /\ [l EXCEPT !.text = text].alive = l.alive
         /\ [l EXCEPT !.arts = some, !.of = l.who] \in Locals
         /\ [l EXCEPT !.arts = some, !.of = l.who].arts = some
         /\ [l EXCEPT !.arts = some, !.of = l.who].of = l.who
         /\ [l EXCEPT !.arts = some, !.of = l.who].alive = l.alive
BY DEF Locals

LEMMA ListQueryParts ==
  ASSUME Typed, NEW w \in Windows, ListQuery(w)
  PROVE  \E some \in SUBSET Written(loc[w].who) :
           /\ some \in SUBSET Nos
           /\ Moves(w, "jsp", [loc[w] EXCEPT !.arts = some, !.of = loc[w].who], page[w])
<1>1. PICK some \in SUBSET Written(loc[w].who) :
        loc' = [loc EXCEPT ![w].arts = some, ![w].of = loc[w].who]
  BY DEF ListQuery
<1>2. some \in SUBSET Nos
  BY DEF Written, Existing
<1>3. loc' = [loc EXCEPT ![w] = [loc[w] EXCEPT !.arts = some, !.of = loc[w].who]]
  BY <1>1 DEF Typed, TypeOK
<1>. QED  BY <1>2, <1>3, GoesOn DEF ListQuery, Goto

LEMMA ShowTextParts ==
  ASSUME Typed, NEW w \in Windows, ShowText(w)
  PROVE  /\ FoundArticle(w) # Null /\ FoundArticle(w).text \in Nos
         /\ Moves(w, "form", [loc[w] EXCEPT !.text = FoundArticle(w).text], page[w])
<1>1. loc' = [loc EXCEPT ![w] = [loc[w] EXCEPT !.text = FoundArticle(w).text]]
  BY DEF ShowText, Typed, TypeOK
<1>. QED  BY <1>1, FoundParts, GoesOn DEF ShowText, Goto, Article

LEMMA FindParts ==
  ASSUME Typed, NEW w \in Windows, Find(w)
  PROVE  /\ loc[w].no \in Nos /\ rows[loc[w].no] # Null /\ rows[loc[w].no].text \in Nos
         /\ Moves(w, "keep", [loc[w] EXCEPT !.text = rows[loc[w].no].text], page[w])
<1>1. loc' = [loc EXCEPT ![w] = [loc[w] EXCEPT !.text = rows[loc[w].no].text]]
  BY DEF Find, Typed, TypeOK
<1>2. loc[w].no \in Nos /\ rows[loc[w].no] # Null
  BY DEF Find, Goto, Typed, Fits
<1>3. rows[loc[w].no].text \in Nos
  BY <1>2 DEF Typed, TypeOK, Row
<1>. QED  BY <1>1, <1>2, <1>3, GoesOn DEF Find, Goto

LEMMA HandleTyped ==
  ASSUME Typed, NEW w \in Windows, Handle(w)
  PROVE  Typed'
<1> USE DEF attributes, table
<1>p. /\ "jsp" \in Places /\ "form" \in Places /\ "keep" \in Places
      /\ "clear" \in Places /\ "all" \in Places
  BY DEF Places
<1>l. /\ loc[w] \in Locals /\ Fits(pc[w], loc[w])
      /\ loc[w].text \in Nos \cup {0} /\ loc[w].no \in Nos \cup {0}
      /\ loc[w].arts \in (SUBSET Nos) \cup {Null} /\ loc[w].of \in Members \cup {Null}
      /\ page[w] \in Page \cup {Null}
  BY DEF Typed, TypeOK, Locals
<1>w. w[1] \in Browsers
  BY WindowParts
<1>r. {} \in SUBSET Nos /\ Null \in Members \cup {Null}
  OBVIOUS
<1>1. CASE ListQuery(w)
  <2>1. PICK some \in SUBSET Nos :
          Moves(w, "jsp", [loc[w] EXCEPT !.arts = some, !.of = loc[w].who], page[w])
    BY <1>1, ListQueryParts
  <2> DEFINE l == [loc[w] EXCEPT !.arts = some, !.of = loc[w].who]
  <2>2. l \in Locals /\ Fits("jsp", l) /\ Moves(w, "jsp", l, page[w])
    BY <1>l, <2>1 DEF Locals, Fits
  <2> HIDE DEF l
  <2>3. /\ pc' \in [Windows -> Places] /\ loc' \in [Windows -> Locals]
        /\ page' \in [Windows -> Page \cup {Null}]
        /\ \A u \in Windows : Fits(pc'[u], loc'[u])
    BY <1>l, <1>p, <2>2, MovesTyped
  <2>. QED  BY <1>1, <2>3 DEF ListQuery, Typed, TypeOK
<1>2. CASE ShowMine(w)
  <2> DEFINE arts == IF loc[w].arts = Null THEN FoundListed(w) ELSE loc[w].arts
  <2>1. arts \in SUBSET Nos
    BY <1>l, FoundParts
  <2>2. Answer(w, List("mine", arts, loc[w].of))
    BY <1>2 DEF ShowMine
  <2> HIDE DEF arts
  <2>. QED  BY <1>l, <1>2, <2>1, <2>2, ListIsPage, AnswersTyped DEF ShowMine, Typed, TypeOK
<1>3. CASE ShowText(w)
  <2> DEFINE l == [loc[w] EXCEPT !.text = FoundArticle(w).text]
  <2>1. FoundArticle(w).text \in Nos /\ Moves(w, "form", l, page[w])
    BY <1>3, ShowTextParts
  <2>2. l \in Locals /\ Fits("form", l)
    BY <1>l, <2>1 DEF Locals, Fits
  <2> HIDE DEF l
  <2>3. /\ pc' \in [Windows -> Places] /\ loc' \in [Windows -> Locals]
        /\ page' \in [Windows -> Page \cup {Null}]
        /\ \A u \in Windows : Fits(pc'[u], loc'[u])
    BY <1>l, <1>p, <2>1, <2>2, MovesTyped
  <2>. QED  BY <1>3, <2>3 DEF ShowText, Typed, TypeOK
<1>4. CASE ShowForm(w)
  <2> DEFINE art == FoundArticle(w)
             p == [kind |-> "form", text |-> loc[w].text,
                   no |-> IF art = Null THEN 0 ELSE art.no,
                   of |-> IF art = Null THEN Null ELSE art.of]
  <2>1. art \in Article \cup {Null} /\ loc[w].text \in Nos
    BY <1>4, <1>l, FoundParts DEF ShowForm, Fits
  <2>2. p \in Page
    BY <2>1 DEF Page, Article
  <2>3. Answer(w, p)
    BY <1>4 DEF ShowForm
  <2> HIDE DEF p
  <2>. QED  BY <1>4, <2>2, <2>3, AnswersTyped DEF ShowForm, Typed, TypeOK
<1>5. CASE Find(w)
  <2> DEFINE l == [loc[w] EXCEPT !.text = rows[loc[w].no].text]
  <2>1. loc[w].no \in Nos /\ rows[loc[w].no].text \in Nos /\ Moves(w, "keep", l, page[w])
    BY <1>5, FindParts
  <2>2. l \in Locals /\ Fits("keep", l)
    BY <1>l, <2>1 DEF Locals, Fits
  <2> HIDE DEF l
  <2>3. /\ pc' \in [Windows -> Places] /\ loc' \in [Windows -> Locals]
        /\ page' \in [Windows -> Page \cup {Null}]
        /\ \A u \in Windows : Fits(pc'[u], loc'[u])
    BY <1>l, <1>p, <2>1, <2>2, MovesTyped
  <2>. QED  BY <1>5, <2>3 DEF Find, Typed, TypeOK
<1>6. CASE Keep(w)
  <2>1. loc[w].no \in Nos /\ loc[w].text \in Nos
    BY <1>6, <1>l DEF Keep, Fits
  <2>2. article' \in [Browsers -> Article \cup {Null}]
    BY <1>6, <1>l, <1>w, <2>1 DEF Keep, Typed, TypeOK, Article
  <2>3. Answer(w, List("to_jsp", {}, Null))
    BY <1>6 DEF Keep
  <2>. QED  BY <1>6, <1>r, <2>2, <2>3, ListIsPage, AnswersTyped DEF Keep, Typed, TypeOK
<1>7. CASE Delete(w)
  <2>1. Answer(w, List("to_mine", {}, Null)) /\ rows' \in [Nos -> Row \cup {Null}]
    BY <1>7 DEF Delete, Typed, TypeOK
  <2>. QED  BY <1>7, <1>r, <2>1, ListIsPage, AnswersTyped DEF Delete, Typed, TypeOK
<1>8. CASE Update(w)
  <2>1. loc[w].no \in Nos /\ loc[w].text \in Nos
    BY <1>8, <1>l DEF Update, Goto, Fits
  <2>2. rows' \in [Nos -> Row \cup {Null}]
    <3>1. CASE rows[loc[w].no] = Null
      BY <1>8, <3>1 DEF Update, Typed, TypeOK
    <3>2. CASE rows[loc[w].no] # Null
      <4>1. rows[loc[w].no] \in Row
        BY <2>1, <3>2 DEF Typed, TypeOK
      <4>2. [rows[loc[w].no] EXCEPT !.text = loc[w].text] \in Row
        BY <2>1, <4>1 DEF Row
      <4>3. rows' = [rows EXCEPT ![loc[w].no] = [rows[loc[w].no] EXCEPT !.text = loc[w].text]]
        BY <1>8, <2>1, <3>2 DEF Update, Typed, TypeOK
      <4>. QED  BY <4>2, <4>3 DEF Typed, TypeOK
    <3>. QED  BY <3>1, <3>2
  <2>3. Fits("clear", loc[w])
    BY DEF Fits
  <2>4. loc' = [loc EXCEPT ![w] = loc[w]] /\ pc' = [pc EXCEPT ![w] = "clear"]
        /\ UNCHANGED page
    BY <1>8 DEF Update, Goto, Typed, TypeOK
  <2>5. /\ pc' \in [Windows -> Places] /\ loc' \in [Windows -> Locals]
        /\ \A u \in Windows : Fits(pc'[u], loc'[u])
    BY <1>l, <1>p, <2>3, <2>4, GoesOn, MovesTyped
  <2>. QED  BY <1>8, <2>2, <2>5 DEF Update, Typed, TypeOK
<1>9. CASE Clear(w)
  <2>1. Answer(w, List("to_mine", {}, Null))
    BY <1>9 DEF Clear
  <2>. QED  BY <1>9, <1>r, <2>1, ListIsPage, AnswersTyped DEF Clear, Typed, TypeOK
<1>10. CASE Save(w)
  <2>1. Answer(w, List("to_mine", {}, Null)) /\ loc[w].who \in Members
    BY <1>10, <1>l DEF Save, Fits
  <2>2. nextNo \in Nos /\ nextNo' \in 1..(MaxNo + 1)
    BY <1>10, ArticlesAssumption DEF Save, Typed, TypeOK, Nos
  <2>3. (IF loc[w].text = 0 THEN nextNo ELSE loc[w].text) \in Nos
    BY <1>l, <2>2
  <2>4. rows' \in [Nos -> Row \cup {Null}]
    BY <1>10, <2>1, <2>2, <2>3 DEF Save, Row, Typed, TypeOK
  <2>. QED  BY <1>10, <1>r, <2>1, <2>2, <2>4, ListIsPage, AnswersTyped DEF Save, Typed, TypeOK
<1>11. CASE Purge(w)
  <2>1. rows' \in [Nos -> Row \cup {Null}]
    BY <1>11 DEF Purge, Typed, TypeOK
  <2>2. Fits("all", loc[w])
    BY DEF Fits
  <2>3. loc' = [loc EXCEPT ![w] = loc[w]] /\ pc' = [pc EXCEPT ![w] = "all"]
        /\ UNCHANGED page
    BY <1>11 DEF Purge, Goto, Typed, TypeOK
  <2>4. /\ pc' \in [Windows -> Places] /\ loc' \in [Windows -> Locals]
        /\ \A u \in Windows : Fits(pc'[u], loc'[u])
    BY <1>l, <1>p, <2>2, <2>3, GoesOn, MovesTyped
  <2>. QED  BY <1>11, <2>1, <2>4 DEF Purge, Typed, TypeOK
<1>12. CASE ListAll(w)
  <2>1. PICK some \in SUBSET Existing :
          /\ listed' = [listed EXCEPT ![w[1]] = some]
          /\ Answer(w, List("all", some, Null))
    BY <1>12 DEF ListAll
  <2>2. some \in SUBSET Nos
    BY DEF Existing
  <2>3. listed' \in [Browsers -> SUBSET Nos]
    BY <2>1, <2>2 DEF Typed, TypeOK
  <2>. QED  BY <1>12, <1>r, <2>1, <2>2, <2>3, ListIsPage, AnswersTyped DEF ListAll, Typed, TypeOK
<1>13. CASE Fail(w)
  BY <1>13, AnswersTyped DEF Fail, Typed, TypeOK
<1>. QED  BY <1>1, <1>2, <1>3, <1>4, <1>5, <1>6, <1>7, <1>8, <1>9, <1>10,
             <1>11, <1>12, <1>13 DEF Handle

(* The session of a browser is over: its requests are told so.             *)
LEMMA LogoutParts ==
  ASSUME Typed, NEW b \in Browsers, Logout(b), NEW w \in Windows
  PROVE  /\ loc' \in [Windows -> Locals]
         /\ loc'[w].who = loc[w].who /\ loc'[w].no = loc[w].no
         /\ loc'[w].text = loc[w].text /\ loc'[w].arts = loc[w].arts
         /\ loc'[w].of = loc[w].of /\ (w[1] # b => loc'[w] = loc[w])
<1>1. \A u \in Windows : loc[u] \in Locals
  BY DEF Typed, TypeOK
<1>2. \A u \in Windows : [loc[u] EXCEPT !.alive = FALSE] \in Locals
  BY <1>1 DEF Locals
<1>. QED  BY <1>1, <1>2 DEF Logout, Locals

LEMMA SessionTyped ==
  ASSUME Typed, NEW b \in Browsers, Logout(b) \/ \E m \in Members : Login(b, m)
  PROVE  Typed'
<1> USE DEF table
<1>1. CASE Logout(b)
  <2>1. /\ UNCHANGED <<pc, page, rows, nextNo>>
        /\ member' \in [Browsers -> Members \cup {Null}]
        /\ article' \in [Browsers -> Article \cup {Null}]
        /\ listed' \in [Browsers -> SUBSET Nos]
    BY <1>1 DEF Logout, Typed, TypeOK
  <2>2. \A w \in Windows : Fits(pc'[w], loc'[w])
    BY <1>1, <2>1, LogoutParts DEF Typed, Fits
  <2>3. loc' \in [Windows -> Locals]
    <3>1. \A u \in Windows : loc[u] \in Locals /\ [loc[u] EXCEPT !.alive = FALSE] \in Locals
      BY DEF Typed, TypeOK, Locals
    <3>. QED  BY <1>1, <3>1 DEF Logout
  <2>. QED  BY <2>1, <2>2, <2>3 DEF Typed, TypeOK
<1>2. ASSUME NEW m \in Members, Login(b, m)
      PROVE  Typed'
  BY <1>2 DEF Login, Typed, TypeOK
<1>. QED  BY <1>1, <1>2

LEMMA InitTyped == Init => Typed
<1> SUFFICES ASSUME Init PROVE Typed
  OBVIOUS
<1>1. TypeOK
  BY BlankFits, ArticlesAssumption DEF Init, TypeOK, Places
<1>2. \A w \in Windows : Fits(pc[w], loc[w])
  BY BlankFits DEF Init
<1>. QED  BY <1>1, <1>2 DEF Typed

LEMMA StepTyped == Typed /\ [Next]_vars => Typed'
<1> SUFFICES ASSUME Typed, [Next]_vars PROVE Typed'
  OBVIOUS
<1>1. CASE UNCHANGED vars
  BY <1>1 DEF vars, Typed, TypeOK
<1>2. CASE Next
  BY <1>2, UserTyped, HandleTyped, SessionTyped DEF Next
<1>. QED  BY <1>1, <1>2

LEMMA TypedInvariance == Spec => []Typed
BY InitTyped, StepTyped, PTL DEF Spec

(* Every variable keeps its type. *)
THEOREM Typing == Spec => []TypeOK
<1>1. Typed => TypeOK
  BY DEF Typed
<1>. QED  BY <1>1, TypedInvariance, PTL

-----------------------------------------------------------------------------
(* Articles that are deleted stay so: a number is used once, and an update *)
(* changes only a row that is there.                                       *)

LEMMA UserRows ==
  ASSUME NEW w \in Windows, User(w)
  PROVE  UNCHANGED <<rows, nextNo, article>>
BY DEF User, OpenMine, OpenAll, Follow, EditButton, DeleteButton, Click, SendForm,
       SendNew, PurgeButton, Send, attributes, table

LEMMA HandleRows ==
  ASSUME NEW w \in Windows, Handle(w), ~ Delete(w), ~ Purge(w), ~ Update(w), ~ Save(w)
  PROVE  UNCHANGED <<rows, nextNo>>
BY DEF Handle, ListQuery, ShowMine, ShowText, ShowForm, Find, Keep, Clear, ListAll,
       Fail, attributes, table

LEMMA SessionRows ==
  ASSUME NEW b \in Browsers, Logout(b) \/ \E m \in Members : Login(b, m)
  PROVE  UNCHANGED <<pc, page, rows, nextNo>>
BY DEF Logout, Login, table

LEMMA RowsStep ==
  ASSUME Typed, [Next]_vars, NEW n \in Nos
  PROVE  /\ nextNo <= nextNo'
         /\ rows'[n] # Null
            => \/ rows[n] # Null /\ rows'[n].author = rows[n].author
               \/ n = nextNo /\ n < nextNo'
<1> DEFINE Goal == /\ nextNo <= nextNo'
                   /\ rows'[n] # Null
                      => \/ rows[n] # Null /\ rows'[n].author = rows[n].author
                         \/ n = nextNo /\ n < nextNo'
<1>0. nextNo \in Nat
  BY ArticlesAssumption DEF Typed, TypeOK
<1>1. CASE UNCHANGED <<rows, nextNo>>
  BY <1>0, <1>1
<1>2. ASSUME NEW w \in Windows, Delete(w) \/ Purge(w)
      PROVE  Goal
  BY <1>0, <1>2 DEF Delete, Purge, Typed, TypeOK
<1>3. ASSUME NEW w \in Windows, Update(w)
      PROVE  Goal
  <2>1. CASE rows[loc[w].no] = Null
    BY <1>0, <1>3, <2>1 DEF Update
  <2>2. CASE rows[loc[w].no] # Null
    <3>1. rows' = [rows EXCEPT ![loc[w].no].text = loc[w].text] /\ nextNo' = nextNo
      BY <1>3, <2>2 DEF Update
    <3>2. CASE loc[w].no = n
      <4>1. rows[n] \in Row
        BY <2>2, <3>2 DEF Typed, TypeOK
      <4>2. rows'[n] = [rows[n] EXCEPT !.text = loc[w].text]
        BY <3>1, <3>2 DEF Typed, TypeOK
      <4>. QED  BY <1>0, <2>2, <3>1, <3>2, <4>1, <4>2 DEF Row
    <3>3. CASE loc[w].no # n
      BY <1>0, <3>1, <3>3 DEF Typed, TypeOK
    <3>. QED  BY <3>2, <3>3
  <2>. QED  BY <2>1, <2>2
<1>4. ASSUME NEW w \in Windows, Save(w)
      PROVE  Goal
  <2>1. nextNo' = nextNo + 1 /\ (n # nextNo => rows'[n] = rows[n])
    BY <1>4 DEF Save, Typed, TypeOK
  <2>. QED  BY <1>0, <2>1
<1>. QED  BY <1>1, <1>2, <1>3, <1>4, UserRows, HandleRows, SessionRows DEF Next, vars

(* An article that is deleted does not come back. *)
THEOREM NoReturn == Spec => StaysDeleted
<1>1. Typed /\ [Next]_vars
      => [\A n \in Nos : (n < nextNo /\ rows[n] = Null) => rows'[n] = Null]_vars
  BY RowsStep, ArticlesAssumption DEF Typed, TypeOK, Nos
<1>. QED  BY <1>1, TypedInvariance, PTL DEF Spec, StaysDeleted

-----------------------------------------------------------------------------
(* The way to an article.  The servlets do not ask whose an article is;    *)
(* the invariant says what pages, requests and the attribute "article" may *)
(* hold, whoever is logged in.                                             *)

(* The numbers that are given are those below nextNo. *)
Numbered == \A n \in Nos : rows[n] # Null => n < nextNo

(* Article n was written by m, or it is gone for ever; or it was taken     *)
(* from the list of all.                                                   *)
Owned(m, n) == m # Null => (n < nextNo /\ (rows[n] # Null => rows[n].author = m))

PageOwn(w) ==
  page[w] # Null
  => /\ page[w].kind # "form" => \A n \in page[w].arts : Owned(page[w].of, n)
     /\ (page[w].kind = "form" /\ page[w].no # 0) => Owned(page[w].of, page[w].no)

RequestOwn(w) ==
  /\ pc[w] \in {"find", "keep", "delete", "update"} => Owned(loc[w].of, loc[w].no)
  /\ (pc[w] = "jsp" /\ loc[w].arts # Null) => \A n \in loc[w].arts : Owned(loc[w].of, n)
  /\ (pc[w] = "jsp" /\ loc[w].arts = Null) => loc[w].of = Null

ArticleOwn(b) == article[b] # Null => Owned(article[b].of, article[b].no)

AllOwn ==
  /\ Numbered
  /\ \A w \in Windows : PageOwn(w)
  /\ \A w \in Windows : RequestOwn(w)
  /\ \A b \in Browsers : ArticleOwn(b)

LEMMA OwnedStays ==
  ASSUME Typed, [Next]_vars
  PROVE  \A n \in Nos, m \in Members \cup {Null} : Owned(m, n) => Owned(m, n)'
<1>1. /\ nextNo \in Nat /\ nextNo' \in Nat /\ \A n \in Nos : n \in Nat
  BY StepTyped, ArticlesAssumption DEF Typed, TypeOK, Nos
<1> SUFFICES ASSUME NEW n \in Nos, NEW m \in Members \cup {Null}, Owned(m, n), m # Null
             PROVE  Owned(m, n)'
  BY DEF Owned
<1>2. n < nextNo' /\ (rows'[n] # Null => rows[n] # Null /\ rows'[n].author = rows[n].author)
  BY <1>1, RowsStep DEF Owned
<1>. QED  BY <1>2 DEF Owned

LEMMA NumberedStep ==
  ASSUME Typed, Numbered, [Next]_vars
  PROVE  Numbered'
BY StepTyped, RowsStep, ArticlesAssumption DEF Numbered, Typed, TypeOK, Nos

(* What a step leaves alone stays in order. *)
LEMMA RequestStays ==
  ASSUME Typed, AllOwn, [Next]_vars, NEW w \in Windows,
         pc'[w] = pc[w], loc'[w].no = loc[w].no, loc'[w].of = loc[w].of,
         loc'[w].arts = loc[w].arts
  PROVE  RequestOwn(w)'
<1>1. loc[w] \in Locals /\ Fits(pc[w], loc[w]) /\ RequestOwn(w)
  BY DEF Typed, TypeOK, AllOwn
<1>2. loc[w].of \in Members \cup {Null}
  BY <1>1 DEF Locals
<1>3. pc[w] \in {"find", "keep", "delete", "update"} => Owned(loc[w].of, loc[w].no)'
  BY <1>1, <1>2, OwnedStays DEF RequestOwn, Fits, Owned
<1>4. (pc[w] = "jsp" /\ loc[w].arts # Null)
      => \A n \in loc[w].arts : Owned(loc[w].of, n)'
  <2>1. loc[w].arts # Null => loc[w].arts \subseteq Nos
    BY <1>1 DEF Locals
  <2>. QED  BY <1>1, <1>2, <2>1, OwnedStays DEF RequestOwn, Owned
<1>. QED  BY <1>1, <1>3, <1>4 DEF RequestOwn, Owned

LEMMA PageStays ==
  ASSUME Typed, AllOwn, [Next]_vars, NEW w \in Windows, page'[w] = page[w]
  PROVE  PageOwn(w)'
<1> SUFFICES ASSUME page[w] # Null
             PROVE  PageOwn(w)'
  BY DEF PageOwn
<1>1. /\ page[w].of \in Members \cup {Null}
      /\ page[w].kind # "form" => page[w].arts \subseteq Nos
      /\ page[w].kind = "form" => page[w].no \in Nos \cup {0}
      /\ PageOwn(w)
  BY PageParts DEF AllOwn
<1>2. page[w].kind # "form" => \A n \in page[w].arts : Owned(page[w].of, n)'
  BY <1>1, OwnedStays DEF PageOwn, Owned
<1>3. (page[w].kind = "form" /\ page[w].no # 0) => Owned(page[w].of, page[w].no)'
  BY <1>1, OwnedStays DEF PageOwn, Owned
<1>. QED  BY <1>2, <1>3 DEF PageOwn, Owned

LEMMA ArticleStays ==
  ASSUME Typed, AllOwn, [Next]_vars, NEW b \in Browsers, article'[b] = article[b]
  PROVE  ArticleOwn(b)'
<1>1. ArticleOwn(b) /\ article[b] \in Article \cup {Null}
  BY DEF AllOwn, Typed, TypeOK
<1>. QED  BY <1>1, OwnedStays DEF ArticleOwn, Owned, Article

(* A window moves; its own request and page are up to its action.          *)
LEMMA MovesOwn ==
  ASSUME Typed, AllOwn, [Next]_vars, NEW w \in Windows, NEW place, NEW l, NEW p,
         Moves(w, place, l, p), RequestOwn(w)', PageOwn(w)',
         \A b \in Browsers : ArticleOwn(b)'
  PROVE  AllOwn'
<1>1. ASSUME NEW u \in Windows
      PROVE  PageOwn(u)' /\ RequestOwn(u)'
  <2>1. CASE u # w
    <3>1. pc'[u] = pc[u] /\ loc'[u] = loc[u] /\ page'[u] = page[u]
      BY <2>1 DEF Moves, Typed, TypeOK
    <3>. QED  BY <3>1, RequestStays, PageStays
  <2>2. CASE u = w
    BY <2>2
  <2>. QED  BY <2>1, <2>2
<1>2. Numbered'
  BY NumberedStep DEF AllOwn
<1>. QED  BY <1>1, <1>2 DEF AllOwn

(* A request is sent. *)
LEMMA SendOwn ==
  ASSUME Typed, AllOwn, [Next]_vars, NEW w \in Windows, NEW to \in Places,
         NEW l, Send(w, to, l),
         to \in {"find", "keep", "delete", "update"} => Owned(l.of, l.no),
         to = "jsp" => l.arts = Null /\ l.of = Null
  PROVE  AllOwn'
<1>1. Moves(w, to, l, page[w])
  BY GoesOn DEF Send
<1>2. UNCHANGED <<page, article, rows, nextNo>> /\ pc'[w] = to /\ loc'[w] = l
  BY DEF Send, attributes, table, Typed, TypeOK
<1>3. RequestOwn(w)'
  BY <1>2 DEF RequestOwn, Owned
<1>4. PageOwn(w)' /\ \A b \in Browsers : ArticleOwn(b)'
  BY <1>2, PageStays, ArticleStays
<1>. QED  BY <1>1, <1>3, <1>4, MovesOwn

LEMMA UserOwn ==
  ASSUME Typed, AllOwn, [Next]_vars, NEW w \in Windows, User(w)
  PROVE  AllOwn'
<1> USE DEF Places
<1>0. PageOwn(w)
  BY DEF AllOwn
<1>1. ASSUME NEW to \in {"list", "save", "all"}, NEW l, Send(w, to, l)
      PROVE  AllOwn'
  BY <1>1, SendOwn
<1>2. ASSUME Send(w, "jsp", AnyRequest(0, Null))
      PROVE  AllOwn'
  <2>1. AnyRequest(0, Null).arts = Null /\ AnyRequest(0, Null).of = Null
    BY DEF AnyRequest, Request
  <2>. QED  BY <1>2, <2>1, SendOwn
<1>3. ASSUME NEW to \in {"find", "delete", "purge"}, NEW n \in page[w].arts,
             page[w] # Null, page[w].kind # "form", Send(w, to, AnyRequest(n, page[w].of))
      PROVE  AllOwn'
  <2>1. AnyRequest(n, page[w].of).no = n /\ AnyRequest(n, page[w].of).of = page[w].of
    BY DEF AnyRequest, Request
  <2>2. Owned(page[w].of, n)
    BY <1>0, <1>3 DEF PageOwn
  <2>. QED  BY <1>3, <2>1, <2>2, SendOwn
<1>4. CASE SendForm(w)
  <2> DEFINE l == MemberRequest(w, page[w].no, page[w].text, page[w].of)
  <2>1. l.no = page[w].no /\ l.of = page[w].of
    BY DEF MemberRequest, Request
  <2>2. Send(w, IF page[w].no = 0 THEN "save" ELSE "update", l)
    BY <1>4 DEF SendForm
  <2>3. page[w].no # 0 => Owned(page[w].of, page[w].no)
    BY <1>0, <1>4 DEF PageOwn, SendForm, Shows
  <2> HIDE DEF l
  <2>4. CASE page[w].no = 0
    BY <1>1, <2>2, <2>4
  <2>5. CASE page[w].no # 0
    BY <2>1, <2>2, <2>3, <2>5, SendOwn
  <2>. QED  BY <2>4, <2>5
<1>5. CASE EditButton(w) \/ DeleteButton(w) \/ PurgeButton(w)
  BY <1>3, <1>5 DEF EditButton, DeleteButton, PurgeButton, Click, Shows
<1>6. CASE OpenMine(w) \/ OpenAll(w) \/ SendNew(w)
  BY <1>1, <1>6 DEF OpenMine, OpenAll, SendNew
<1>7. CASE Follow(w)
  BY <1>1, <1>2, <1>7 DEF Follow, OpenMine
<1>. QED  BY <1>4, <1>5, <1>6, <1>7 DEF User

(* A request is answered; what it shows and leaves is up to its action.    *)
LEMMA AnswerOwn ==
  ASSUME Typed, AllOwn, [Next]_vars, NEW w \in Windows, NEW p, Answer(w, p), PageOwn(w)',
         \A b \in Browsers : ArticleOwn(b)'
  PROVE  AllOwn'
<1>1. Moves(w, "idle", Blank, p)
  BY AnswerMoves
<1>2. RequestOwn(w)'
  BY <1>1 DEF Moves, RequestOwn, Typed, TypeOK
<1>. QED  BY <1>1, <1>2, MovesOwn

(* A redirection shows no article. *)
LEMMA RedirectOwn ==
  ASSUME Typed, AllOwn, [Next]_vars, NEW w \in Windows, NEW kind,
         Answer(w, List(kind, {}, Null)) \/ Answer(w, Null), kind # "form",
         \A b \in Browsers : ArticleOwn(b)'
  PROVE  AllOwn'
<1>1. page'[w] = List(kind, {}, Null) \/ page'[w] = Null
  BY DEF Answer, Typed, TypeOK
<1>2. PageOwn(w)'
  BY <1>1 DEF PageOwn, List
<1>. QED  BY <1>2, AnswerOwn

(* A request goes on. *)
LEMMA GoesOnOwn ==
  ASSUME Typed, AllOwn, [Next]_vars, UNCHANGED article, NEW w \in Windows,
         NEW place, NEW l, Moves(w, place, l, page[w]), RequestOwn(w)'
  PROVE  AllOwn'
<1>1. page'[w] = page[w]
  BY DEF Moves, Typed, TypeOK
<1>. QED  BY <1>1, PageStays, ArticleStays, MovesOwn

LEMMA HandleOwn ==
  ASSUME Typed, AllOwn, [Next]_vars, NEW w \in Windows, Handle(w)
  PROVE  AllOwn'
<1> USE DEF attributes, table
<1>l. /\ loc[w] \in Locals /\ Fits(pc[w], loc[w]) /\ RequestOwn(w)
      /\ loc[w].arts # Null => loc[w].arts \subseteq Nos
      /\ loc[w].of \in Members \cup {Null}
  BY DEF Typed, TypeOK, Locals, AllOwn
<1>w. w[1] \in Browsers /\ ArticleOwn(w[1])
  BY WindowParts DEF AllOwn
<1>a. ASSUME UNCHANGED article
      PROVE  \A b \in Browsers : ArticleOwn(b)'
  BY <1>a, ArticleStays
<1>1. CASE ListQuery(w)
  <2>1. PICK some \in SUBSET Written(loc[w].who) :
          /\ some \in SUBSET Nos
          /\ Moves(w, "jsp", [loc[w] EXCEPT !.arts = some, !.of = loc[w].who], page[w])
    BY <1>1, ListQueryParts
  <2> DEFINE l == [loc[w] EXCEPT !.arts = some, !.of = loc[w].who]
  <2>2. l.arts = some /\ l.of = loc[w].who
    BY <1>l DEF Locals
  <2>3. \A n \in some : Owned(loc[w].who, n)
    BY <2>1 DEF Written, Existing, AllOwn, Numbered, Owned
  <2>4. UNCHANGED <<article, rows, nextNo>> /\ some # Null
    BY <1>1, <2>1, ArticlesAssumption DEF ListQuery
  <2>5. Moves(w, "jsp", l, page[w]) /\ pc'[w] = "jsp" /\ loc'[w] = l
    BY <2>1 DEF Moves, Typed, TypeOK
  <2> HIDE DEF l
  <2>6. RequestOwn(w)'
    BY <2>2, <2>3, <2>4, <2>5 DEF RequestOwn, Owned
  <2>. QED  BY <2>4, <2>5, <2>6, GoesOnOwn
<1>2. CASE ShowMine(w)
  <2> DEFINE shown == IF loc[w].arts = Null THEN FoundListed(w) ELSE loc[w].arts
  <2>1. /\ pc[w] = "jsp" /\ Answer(w, List("mine", shown, loc[w].of))
        /\ UNCHANGED <<article, rows, nextNo>>
    BY <1>2 DEF ShowMine
  <2>2. \A n \in shown : Owned(loc[w].of, n)
    BY <1>l, <2>1 DEF RequestOwn, Owned
  <2> HIDE DEF shown
  <2>3. page'[w] = List("mine", shown, loc[w].of)
    BY <2>1 DEF Answer, Typed, TypeOK
  <2>4. PageOwn(w)'
    BY <2>1, <2>2, <2>3 DEF PageOwn, List, Owned
  <2>. QED  BY <1>a, <2>1, <2>4, AnswerOwn
<1>3. CASE ShowText(w)
  <2> DEFINE l == [loc[w] EXCEPT !.text = FoundArticle(w).text]
  <2>1. Moves(w, "form", l, page[w]) /\ UNCHANGED article
    BY <1>3, ShowTextParts DEF ShowText
  <2>2. pc'[w] = "form"
    BY <2>1 DEF Moves, Typed, TypeOK
  <2>3. RequestOwn(w)'
    BY <2>2 DEF RequestOwn
  <2> HIDE DEF l
  <2>. QED  BY <2>1, <2>3, GoesOnOwn
<1>4. CASE ShowForm(w)
  <2> DEFINE art == FoundArticle(w)
             p == [kind |-> "form", text |-> loc[w].text,
                   no |-> IF art = Null THEN 0 ELSE art.no,
                   of |-> IF art = Null THEN Null ELSE art.of]
  <2>1. Answer(w, p) /\ UNCHANGED <<article, rows, nextNo>>
    BY <1>4 DEF ShowForm
  <2>2. page'[w] = p
    BY <2>1 DEF Answer, Typed, TypeOK
  <2>3. art # Null => Owned(art.of, art.no)
    BY <1>w DEF FoundArticle, ArticleOwn
  <2>4. p.kind = "form" /\ (p.no # 0 => Owned(p.of, p.no))
    BY <2>3
  <2> HIDE DEF p
  <2>5. PageOwn(w)'
    BY <2>1, <2>2, <2>4 DEF PageOwn, Owned
  <2>. QED  BY <1>a, <2>1, <2>5, AnswerOwn
<1>5. CASE Find(w)
  <2> DEFINE l == [loc[w] EXCEPT !.text = rows[loc[w].no].text]
  <2>1. /\ Moves(w, "keep", l, page[w]) /\ UNCHANGED <<article, rows, nextNo>>
        /\ pc[w] = "find"
    BY <1>5, FindParts DEF Find, Goto
  <2>2. l.no = loc[w].no /\ l.of = loc[w].of
    BY <1>l DEF Locals
  <2>3. pc'[w] = "keep" /\ loc'[w] = l
    BY <2>1 DEF Moves, Typed, TypeOK
  <2> HIDE DEF l
  <2>4. RequestOwn(w)'
    BY <1>l, <2>1, <2>2, <2>3 DEF RequestOwn, Owned
  <2>. QED  BY <2>1, <2>4, GoesOnOwn
<1>6. CASE Keep(w)
  <2>1. /\ Answer(w, List("to_jsp", {}, Null)) /\ UNCHANGED <<rows, nextNo>> /\ pc[w] = "keep"
        /\ article' = [article EXCEPT ![w[1]] =
             [no |-> loc[w].no, text |-> loc[w].text, of |-> loc[w].of]]
    BY <1>6 DEF Keep
  <2>2. ASSUME NEW b \in Browsers
        PROVE  ArticleOwn(b)'
    <3>1. CASE b # w[1]
      BY <2>1, <3>1, ArticleStays DEF Typed, TypeOK
    <3>2. CASE b = w[1]
      <4>1. article'[b].no = loc[w].no /\ article'[b].of = loc[w].of
        BY <2>1, <3>2 DEF Typed, TypeOK
      <4>. QED  BY <1>l, <2>1, <4>1 DEF ArticleOwn, RequestOwn, Owned
    <3>. QED  BY <3>1, <3>2
  <2>. QED  BY <2>1, <2>2, RedirectOwn
<1>7. CASE Delete(w)
  BY <1>a, <1>7, RedirectOwn DEF Delete
<1>8. CASE Update(w)
  <2>1. loc' = [loc EXCEPT ![w] = loc[w]] /\ pc' = [pc EXCEPT ![w] = "clear"]
        /\ UNCHANGED <<page, article>> /\ pc'[w] = "clear"
    BY <1>8 DEF Update, Goto, Typed, TypeOK
  <2>2. RequestOwn(w)'
    BY <2>1 DEF RequestOwn
  <2>. QED  BY <2>1, <2>2, GoesOn, GoesOnOwn
<1>9. CASE Clear(w)
  <2>1. Answer(w, List("to_mine", {}, Null)) /\ article' = [article EXCEPT ![w[1]] = Null]
    BY <1>9 DEF Clear
  <2>2. ASSUME NEW b \in Browsers
        PROVE  ArticleOwn(b)'
    BY <2>1, ArticleStays DEF Typed, TypeOK, ArticleOwn
  <2>. QED  BY <2>1, <2>2, RedirectOwn
<1>10. CASE Save(w)
  BY <1>a, <1>10, RedirectOwn DEF Save
<1>11. CASE Purge(w)
  <2>1. loc' = [loc EXCEPT ![w] = loc[w]] /\ pc' = [pc EXCEPT ![w] = "all"]
        /\ UNCHANGED <<page, article>> /\ pc'[w] = "all"
    BY <1>11 DEF Purge, Goto, Typed, TypeOK
  <2>2. RequestOwn(w)'
    BY <2>1 DEF RequestOwn
  <2>. QED  BY <2>1, <2>2, GoesOn, GoesOnOwn
<1>12. CASE ListAll(w)
  <2>1. PICK some \in SUBSET Existing : Answer(w, List("all", some, Null))
    BY <1>12 DEF ListAll
  <2>2. page'[w] = List("all", some, Null)
    BY <2>1 DEF Answer, Typed, TypeOK
  <2>3. PageOwn(w)'
    BY <2>2 DEF PageOwn, List, Owned
  <2>. QED  BY <1>a, <1>12, <2>1, <2>3, AnswerOwn DEF ListAll
<1>13. CASE Fail(w)
  BY <1>a, <1>13, RedirectOwn DEF Fail
<1>. QED  BY <1>1, <1>2, <1>3, <1>4, <1>5, <1>6, <1>7, <1>8, <1>9, <1>10,
             <1>11, <1>12, <1>13 DEF Handle

LEMMA SessionOwn ==
  ASSUME Typed, AllOwn, [Next]_vars, NEW b \in Browsers,
         Logout(b) \/ \E m \in Members : Login(b, m)
  PROVE  AllOwn'
<1>1. UNCHANGED <<pc, page, rows, nextNo>>
  BY SessionRows
<1>2. ASSUME NEW w \in Windows
      PROVE  RequestOwn(w)' /\ PageOwn(w)'
  <2>1. loc'[w].no = loc[w].no /\ loc'[w].of = loc[w].of /\ loc'[w].arts = loc[w].arts
    BY LogoutParts DEF Login
  <2>. QED  BY <1>1, <2>1, RequestStays, PageStays
<1>3. ASSUME NEW c \in Browsers
      PROVE  ArticleOwn(c)'
  <2>1. article'[c] = article[c] \/ article'[c] = Null
    BY DEF Logout, Login, Typed, TypeOK
  <2>. QED  BY <2>1, ArticleStays DEF ArticleOwn
<1>4. Numbered'
  BY NumberedStep DEF AllOwn
<1>. QED  BY <1>2, <1>3, <1>4 DEF AllOwn

LEMMA StepOwn == Typed /\ AllOwn /\ [Next]_vars => AllOwn'
<1> SUFFICES ASSUME Typed, AllOwn, [Next]_vars PROVE AllOwn'
  OBVIOUS
<1>1. CASE UNCHANGED vars
  BY <1>1, RequestStays, PageStays, ArticleStays, NumberedStep DEF vars, AllOwn
<1>2. CASE Next
  BY <1>2, UserOwn, HandleOwn, SessionOwn DEF Next
<1>. QED  BY <1>1, <1>2

LEMMA InitOwn == Init => AllOwn
BY DEF Init, AllOwn, Numbered, ArticleOwn, PageOwn, RequestOwn

(* The step that changes or deletes a row is the step of its window.       *)
LEMMA OwnStep ==
  ASSUME Typed, AllOwn, [Next]_vars, NEW w \in Windows, NEW n \in Nos,
         pc[w] \in {"delete", "update"}, pc'[w] # pc[w],
         rows[n] # Null, rows'[n] # rows[n]
  PROVE  loc[w].of \in {rows[n].author, Null}
<1>0. rows' # rows /\ pc' # pc
  OBVIOUS
<1>2. PICK u \in Windows : User(u) \/ Handle(u)
  BY <1>0, SessionRows DEF Next, vars
<1>3. ASSUME NEW to, pc' = [pc EXCEPT ![u] = to]
      PROVE  u = w
  BY <1>3 DEF Typed, TypeOK
<1>5. Delete(u) \/ Purge(u) \/ Update(u) \/ Save(u)
  BY <1>0, <1>2, UserRows, HandleRows
<1>6. u = w
  <2>1. pc' = [pc EXCEPT ![u] = "idle"] \/ pc' = [pc EXCEPT ![u] = "all"]
        \/ pc' = [pc EXCEPT ![u] = "clear"]
    BY <1>5 DEF Delete, Purge, Update, Save, Goto, Answer
  <2>. QED  BY <1>3, <2>1
<1>7. Delete(w) \/ Update(w)
  BY <1>5, <1>6 DEF Purge, Save, Goto
<1>8. n = loc[w].no
  BY <1>7 DEF Delete, Update, Typed, TypeOK
<1>9. Owned(loc[w].of, loc[w].no)
  BY DEF AllOwn, RequestOwn
<1>. QED  BY <1>8, <1>9 DEF Owned

(* Whoever is logged in by now, an article is deleted or changed from its  *)
(* author's list, or from the list of all.                                 *)
THEOREM OwnArticles == Spec => AuthorsOwn
<1>1. Typed /\ AllOwn /\ [Next]_vars
      => [\A w \in Windows, n \in Nos :
            (/\ pc[w] \in {"delete", "update"} /\ pc'[w] # pc[w]
             /\ rows[n] # Null /\ rows'[n] # rows[n])
            => loc[w].of \in {rows[n].author, Null}]_vars
  BY OwnStep
<1>. QED  BY <1>1, InitOwn, StepOwn, TypedInvariance, PTL DEF Spec, AuthorsOwn

-----------------------------------------------------------------------------
(* No article gets the text of another, where the requests of a browser    *)
(* take turns: what PersonalArticle.jsp reads of the attribute "article"   *)
(* at two moments is then of one article, and the session is not over in   *)
(* between.                                                                *)

TakeTurns ==
  \A u, w \in Windows : (u[1] = w[1] /\ pc[u] # "idle" /\ pc[w] # "idle") => u = w

RequestText(w) ==
  /\ pc[w] # "idle" => loc[w].alive = TRUE
  /\ pc[w] \in {"keep", "update"} => loc[w].text = loc[w].no
  /\ pc[w] = "save" => loc[w].text = 0
  /\ pc[w] = "form" => article[w[1]] # Null /\ loc[w].text = article[w[1]].text

TextsMatch ==
  /\ OwnText
  /\ \A b \in Browsers : article[b] # Null => article[b].no = article[b].text
  /\ \A w \in Windows :
       (page[w] # Null /\ page[w].kind = "form") => page[w].no = page[w].text
  /\ \A w \in Windows : RequestText(w)

(* A window goes on, or sends a request while its browser is quiet. *)
LEMMA TurnsMove ==
  ASSUME Typed, TakeTurns, NEW w \in Windows, NEW place, pc' = [pc EXCEPT ![w] = place],
         pc[w] # "idle" \/ Quiet(w[1])
  PROVE  TakeTurns'
<1>1. \A u \in Windows : pc'[u] = IF u = w THEN place ELSE pc[u]
  BY DEF Typed, TypeOK
<1>2. ASSUME NEW u \in Windows, u # w, u[1] = w[1]
      PROVE  pc[u] = "idle"
  <2>1. CASE pc[w] # "idle"
    BY <1>2, <2>1 DEF TakeTurns
  <2>2. CASE Quiet(w[1])
    BY <1>2, <2>2, WindowParts DEF Quiet
  <2>. QED  BY <2>1, <2>2
<1>. QED  BY <1>1, <1>2 DEF TakeTurns

(* What a request has read stays true while nobody else moves. *)
LEMMA TextStays ==
  ASSUME TextsMatch, NEW u \in Windows, pc'[u] = pc[u], loc'[u] = loc[u],
         pc[u] = "form" => article'[u[1]] = article[u[1]]
  PROVE  RequestText(u)'
BY DEF TextsMatch, RequestText

(* One window moves, where its browser's other windows are idle.           *)
LEMMA MovesText ==
  ASSUME Typed, TakeTurns, TextsMatch, NEW w \in Windows, NEW place, NEW l, NEW p,
         Moves(w, place, l, p), pc[w] # "idle" \/ Quiet(w[1]),
         \A b \in Browsers : b # w[1] => article'[b] = article[b],
         article'[w[1]] # Null => article'[w[1]].no = article'[w[1]].text,
         (p # Null /\ p.kind = "form") => p.no = p.text,
         RequestText(w)', OwnText'
  PROVE  TakeTurns' /\ TextsMatch'
<1>1. TakeTurns'
  BY TurnsMove DEF Moves
<1>2. ASSUME NEW u \in Windows
      PROVE  RequestText(u)'
  <2>1. CASE u # w
    <3>1. pc'[u] = pc[u] /\ loc'[u] = loc[u] /\ u[1] \in Browsers
      BY <2>1, WindowParts DEF Moves, Typed, TypeOK
    <3>2. pc[u] = "form" => u[1] # w[1]
      <4>1. CASE pc[w] # "idle"
        BY <2>1, <4>1 DEF TakeTurns
      <4>2. CASE Quiet(w[1])
        BY <4>2, WindowParts DEF Quiet
      <4>. QED  BY <4>1, <4>2
    <3>. QED  BY <3>1, <3>2, TextStays
  <2>2. CASE u = w
    BY <2>2
  <2>. QED  BY <2>1, <2>2
<1>3. ASSUME NEW u \in Windows, page'[u] # Null, page'[u].kind = "form"
      PROVE  page'[u].no = page'[u].text
  BY <1>3 DEF Moves, TextsMatch, Typed, TypeOK
<1>4. \A b \in Browsers : article'[b] # Null => article'[b].no = article'[b].text
  BY DEF TextsMatch
<1>. QED  BY <1>1, <1>2, <1>3, <1>4 DEF TextsMatch

LEMMA UserTexts ==
  ASSUME Typed, Turns, TakeTurns, TextsMatch, NEW w \in Windows, User(w)
  PROVE  TakeTurns' /\ TextsMatch'
<1> USE DEF attributes, table
<1>1. ASSUME NEW to \in Places, NEW l, Send(w, to, l), l.alive = TRUE,
             to \notin {"keep", "form"}, to = "update" => l.text = l.no,
             to = "save" => l.text = 0
      PROVE  TakeTurns' /\ TextsMatch'
  <2>1. Moves(w, to, l, page[w]) /\ Quiet(w[1]) /\ UNCHANGED <<article, rows>>
    BY <1>1, GoesOn DEF Send
  <2>2. pc'[w] = to /\ loc'[w] = l
    BY <2>1 DEF Moves, Typed, TypeOK
  <2>3. RequestText(w)' /\ OwnText'
    BY <1>1, <2>1, <2>2 DEF RequestText, TextsMatch, OwnText
  <2>4. /\ (page[w] # Null /\ page[w].kind = "form") => page[w].no = page[w].text
        /\ article'[w[1]] # Null => article'[w[1]].no = article'[w[1]].text
    BY <2>1, WindowParts DEF TextsMatch
  <2>. QED  BY <2>1, <2>3, <2>4, MovesText
<1>2. ASSUME NEW to \in {"list", "save"}, Send(w, to, MemberRequest(w, 0, 0, Null))
      PROVE  TakeTurns' /\ TextsMatch'
  <2>1. /\ MemberRequest(w, 0, 0, Null).alive = TRUE
        /\ MemberRequest(w, 0, 0, Null).text = 0
    BY DEF MemberRequest, Request
  <2>. QED  BY <1>1, <1>2, <2>1 DEF Places
<1>3. ASSUME NEW to \in {"jsp", "all", "find", "delete", "purge"}, NEW no, NEW of,
             Send(w, to, AnyRequest(no, of))
      PROVE  TakeTurns' /\ TextsMatch'
  <2>1. AnyRequest(no, of).alive = TRUE
    BY DEF AnyRequest, Request
  <2>. QED  BY <1>1, <1>3, <2>1 DEF Places
<1>4. CASE SendForm(w)
  <2> DEFINE l == MemberRequest(w, page[w].no, page[w].text, page[w].of)
  <2>1. page[w].no = page[w].text /\ page[w].no # 0
    BY <1>4, PageParts, ArticlesAssumption DEF SendForm, Shows, TextsMatch, Nos
  <2>2. l.alive = TRUE /\ l.no = page[w].no /\ l.text = page[w].text
    BY DEF MemberRequest, Request
  <2>3. Send(w, "update", l)
    BY <1>4, <2>1 DEF SendForm
  <2> HIDE DEF l
  <2>. QED  BY <1>1, <2>1, <2>2, <2>3 DEF Places
<1>. QED  BY <1>2, <1>3, <1>4
          DEF User, OpenMine, OpenAll, Follow, EditButton, DeleteButton, Click,
              SendNew, PurgeButton

LEMMA HandleTexts ==
  ASSUME Typed, TakeTurns, TextsMatch, NEW w \in Windows, Handle(w)
  PROVE  TakeTurns' /\ TextsMatch'
<1> USE DEF attributes, table
<1>l. /\ loc[w] \in Locals /\ Fits(pc[w], loc[w]) /\ RequestText(w)
  BY DEF Typed, TypeOK, TextsMatch
<1>w. w[1] \in Browsers /\ (article[w[1]] # Null => article[w[1]].no = article[w[1]].text)
  BY WindowParts DEF TextsMatch
<1>f. FoundArticle(w) = article[w[1]] \/ pc[w] = "idle"
  BY <1>l DEF RequestText, FoundArticle
<1>a. ASSUME NEW p, Answer(w, p), pc[w] # "idle", OwnText',
             (p # Null /\ p.kind = "form") => p.no = p.text,
             \/ article' = article
             \/ article' = [article EXCEPT ![w[1]] = Null]
             \/ /\ loc[w].text = loc[w].no
                /\ article' = [article EXCEPT ![w[1]] =
                     [no |-> loc[w].no, text |-> loc[w].text, of |-> loc[w].of]]
      PROVE  TakeTurns' /\ TextsMatch'
  <2>1. /\ \A b \in Browsers : b # w[1] => article'[b] = article[b]
        /\ article'[w[1]] # Null => article'[w[1]].no = article'[w[1]].text
    BY <1>a, <1>w DEF Typed, TypeOK
  <2>2. Moves(w, "idle", Blank, p) /\ pc'[w] = "idle"
    BY <1>a, AnswerMoves DEF Moves, Typed, TypeOK
  <2>3. RequestText(w)'
    BY <2>2 DEF RequestText
  <2>. QED  BY <1>a, <2>1, <2>2, <2>3, MovesText
<1>g. ASSUME NEW place, NEW l, Moves(w, place, l, page[w]), UNCHANGED article, pc[w] # "idle",
             l.alive = TRUE, OwnText',
             place \in {"keep", "update"} => l.text = l.no,
             place # "save",
             place = "form" => article[w[1]] # Null /\ l.text = article[w[1]].text
      PROVE  TakeTurns' /\ TextsMatch'
  <2>1. pc'[w] = place /\ loc'[w] = l
    BY <1>g DEF Moves, Typed, TypeOK
  <2>2. RequestText(w)'
    BY <1>g, <2>1 DEF RequestText
  <2>3. (page[w] # Null /\ page[w].kind = "form") => page[w].no = page[w].text
    BY DEF TextsMatch
  <2>. QED  BY <1>g, <1>w, <2>2, <2>3, MovesText
<1>t. ASSUME UNCHANGED rows
      PROVE  OwnText'
  BY <1>t DEF TextsMatch, OwnText
<1>r. ASSUME rows' = [rows EXCEPT ![loc[w].no] = Null]
      PROVE  OwnText'
  BY <1>r DEF TextsMatch, OwnText, Typed, TypeOK
<1>m. \A kind \in {"mine", "all", "to_mine", "to_jsp"} : \A arts, of :
        List(kind, arts, of).kind # "form"
  BY DEF List
<1>1. CASE ListQuery(w)
  <2>1. PICK some \in SUBSET Nos :
          Moves(w, "jsp", [loc[w] EXCEPT !.arts = some, !.of = loc[w].who], page[w])
    BY <1>1, ListQueryParts
  <2> DEFINE l == [loc[w] EXCEPT !.arts = some, !.of = loc[w].who]
  <2>2. l.alive = TRUE
    BY <1>1, <1>l DEF Locals, RequestText, ListQuery, Goto
  <2>3. Moves(w, "jsp", l, page[w]) /\ UNCHANGED <<article, rows>> /\ pc[w] = "list"
    BY <1>1, <2>1 DEF ListQuery, Goto
  <2> HIDE DEF l
  <2>. QED  BY <1>g, <1>t, <2>2, <2>3
<1>2. CASE ShowMine(w)
  BY <1>a, <1>m, <1>t, <1>2 DEF ShowMine
<1>3. CASE ShowText(w)
  <2> DEFINE l == [loc[w] EXCEPT !.text = FoundArticle(w).text]
  <2>1. /\ FoundArticle(w) # Null /\ Moves(w, "form", l, page[w]) /\ pc[w] = "jsp"
        /\ UNCHANGED <<article, rows>>
    BY <1>3, ShowTextParts DEF ShowText, Goto
  <2>2. l.alive = TRUE /\ l.text = FoundArticle(w).text
    BY <1>l, <2>1 DEF Locals, RequestText
  <2> HIDE DEF l
  <2>. QED  BY <1>f, <1>g, <1>t, <2>1, <2>2
<1>4. CASE ShowForm(w)
  <2> DEFINE art == FoundArticle(w)
             p == [kind |-> "form", text |-> loc[w].text,
                   no |-> IF art = Null THEN 0 ELSE art.no,
                   of |-> IF art = Null THEN Null ELSE art.of]
  <2>1. Answer(w, p) /\ pc[w] = "form" /\ UNCHANGED <<article, rows>>
    BY <1>4 DEF ShowForm
  <2>2. art = article[w[1]] /\ article[w[1]] # Null /\ loc[w].text = article[w[1]].text
    BY <1>f, <1>l, <2>1 DEF RequestText
  <2>3. p.no = p.text
    BY <1>w, <2>2
  <2> HIDE DEF p
  <2>. QED  BY <1>a, <1>t, <2>1, <2>3
<1>5. CASE Find(w)
  <2> DEFINE l == [loc[w] EXCEPT !.text = rows[loc[w].no].text]
  <2>1. /\ loc[w].no \in Nos /\ rows[loc[w].no] # Null /\ Moves(w, "keep", l, page[w])
        /\ UNCHANGED <<article, rows>> /\ pc[w] = "find"
    BY <1>5, FindParts DEF Find, Goto
  <2>2. l.alive = TRUE /\ l.no = loc[w].no /\ l.text = rows[loc[w].no].text
    BY <1>l, <2>1 DEF Locals, RequestText
  <2>3. l.text = l.no
    BY <2>1, <2>2 DEF TextsMatch, OwnText
  <2> HIDE DEF l
  <2>. QED  BY <1>g, <1>t, <2>1, <2>2, <2>3
<1>6. CASE Keep(w)
  <2>1. pc[w] = "keep" /\ loc[w].text = loc[w].no
    BY <1>6, <1>l DEF Keep, RequestText
  <2>. QED  BY <1>a, <1>m, <1>t, <1>6, <2>1 DEF Keep
<1>7. CASE Delete(w)
  BY <1>a, <1>m, <1>r, <1>7 DEF Delete
<1>8. CASE Update(w)
  <2>1. loc' = [loc EXCEPT ![w] = loc[w]] /\ pc' = [pc EXCEPT ![w] = "clear"]
        /\ UNCHANGED <<page, article>> /\ pc[w] = "update"
    BY <1>8 DEF Update, Goto, Typed, TypeOK
  <2>2. loc[w].alive = TRUE /\ loc[w].text = loc[w].no
    BY <1>l, <2>1 DEF RequestText
  <2>3. ASSUME NEW n \in Nos, rows'[n] # Null
        PROVE  rows'[n].text = n
    <3>1. CASE n # loc[w].no \/ rows[n] = Null
      <4>1. rows'[n] = rows[n]
        BY <1>8, <3>1 DEF Update, Typed, TypeOK
      <4>. QED  BY <2>3, <4>1 DEF TextsMatch, OwnText
    <3>2. CASE n = loc[w].no /\ rows[n] # Null
      <4>1. rows'[n] = [rows[n] EXCEPT !.text = loc[w].text] /\ rows[n] \in Row
        BY <1>8, <3>2 DEF Update, Typed, TypeOK
      <4>. QED  BY <2>2, <3>2, <4>1 DEF Row
    <3>. QED  BY <3>1, <3>2
  <2>4. OwnText'
    BY <2>3 DEF OwnText
  <2>5. Moves(w, "clear", loc[w], page[w])
    BY <2>1, GoesOn
  <2>. QED  BY <1>g, <2>1, <2>2, <2>4, <2>5
<1>9. CASE Clear(w)
  BY <1>a, <1>m, <1>t, <1>9 DEF Clear
<1>10. CASE Save(w)
  <2>1. ASSUME NEW n \in Nos, rows'[n] # Null
        PROVE  rows'[n].text = n
    <3>1. loc[w].text = 0
      BY <1>10, <1>l DEF Save, RequestText
    <3>. QED  BY <1>10, <2>1, <3>1 DEF Save, TextsMatch, OwnText, Typed, TypeOK
  <2>2. OwnText'
    BY <2>1 DEF OwnText
  <2>. QED  BY <1>a, <1>m, <1>10, <2>2 DEF Save
<1>11. CASE Purge(w)
  <2>1. loc' = [loc EXCEPT ![w] = loc[w]] /\ pc' = [pc EXCEPT ![w] = "all"]
        /\ UNCHANGED <<page, article>> /\ pc[w] = "purge"
    BY <1>11 DEF Purge, Goto, Typed, TypeOK
  <2>2. OwnText' /\ loc[w].alive = TRUE
    BY <1>l, <1>r, <1>11, <2>1 DEF Purge, RequestText
  <2>3. Moves(w, "all", loc[w], page[w])
    BY <2>1, GoesOn
  <2>. QED  BY <1>g, <2>1, <2>2, <2>3
<1>12. CASE ListAll(w)
  <2>1. PICK some : Answer(w, List("all", some, Null))
    BY <1>12 DEF ListAll
  <2>. QED  BY <1>a, <1>m, <1>t, <1>12, <2>1 DEF ListAll
<1>13. CASE Fail(w)
  BY <1>a, <1>t, <1>13 DEF Fail
<1>. QED  BY <1>1, <1>2, <1>3, <1>4, <1>5, <1>6, <1>7, <1>8, <1>9, <1>10,
             <1>11, <1>12, <1>13 DEF Handle

LEMMA SessionTexts ==
  ASSUME Typed, Turns, TakeTurns, TextsMatch, NEW b \in Browsers,
         Logout(b) \/ \E m \in Members : Login(b, m)
  PROVE  TakeTurns' /\ TextsMatch'
<1>1. UNCHANGED <<pc, page, rows, nextNo>>
  BY SessionRows
<1>2. ASSUME NEW w \in Windows
      PROVE  RequestText(w)'
  <2>1. CASE pc[w] = "idle"
    BY <1>1, <2>1 DEF RequestText
  <2>2. CASE pc[w] # "idle"
    <3>1. Logout(b) => w[1] # b
      BY <2>2, WindowParts DEF Logout, Quiet
    <3>2. loc'[w] = loc[w] /\ article'[w[1]] = article[w[1]]
      BY <3>1, LogoutParts, WindowParts DEF Logout, Login, Typed, TypeOK
    <3>. QED  BY <1>1, <3>2, TextStays
  <2>. QED  BY <2>1, <2>2
<1>3. \A c \in Browsers : article'[c] = article[c] \/ article'[c] = Null
  BY DEF Logout, Login, Typed, TypeOK
<1>4. TextsMatch'
  BY <1>1, <1>2, <1>3 DEF TextsMatch, OwnText
<1>. QED  BY <1>1, <1>4 DEF TakeTurns

(* Where the requests of a browser take turns, no article gets the text of *)
(* another.                                                                *)
THEOREM OwnTexts == Turns => (Spec => []OwnText)
<1> SUFFICES ASSUME Turns
             PROVE  Spec => []OwnText
  OBVIOUS
<1>1. Init => TakeTurns /\ TextsMatch
  BY DEF Init, Blank, TakeTurns, TextsMatch, OwnText, RequestText
<1>2. Typed /\ TakeTurns /\ TextsMatch /\ [Next]_vars => TakeTurns' /\ TextsMatch'
  <2> SUFFICES ASSUME Typed, TakeTurns, TextsMatch, [Next]_vars
               PROVE  TakeTurns' /\ TextsMatch'
    OBVIOUS
  <2>1. CASE UNCHANGED vars
    BY <2>1 DEF vars, TakeTurns, TextsMatch, OwnText, RequestText
  <2>2. CASE Next
    BY <2>2, UserTexts, HandleTexts, SessionTexts DEF Next
  <2>. QED  BY <2>1, <2>2
<1>3. TextsMatch => OwnText
  BY DEF TextsMatch
<1>. QED  BY <1>1, <1>2, <1>3, TypedInvariance, PTL DEF Spec
=============================================================================
