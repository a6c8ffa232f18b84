---------------------- MODULE MemberMaintenance_proofs ----------------------
(***************************************************************************)
(* Proofs about MemberMaintenance, for every number of members, browsers   *)
(* and threads.                                                            *)
(***************************************************************************)
EXTENDS MemberMaintenance, TLAPS

(* Every variable keeps its type. *)
THEOREM Typing == Spec => []TypeOK
<1>1. Init => TypeOK
  BY MemberAssumption DEF Init, TypeOK, Row, Locals, Blank, Request
<1>2. TypeOK /\ [Next]_vars => TypeOK'
  <2> SUFFICES ASSUME TypeOK, [Next]_vars
               PROVE  TypeOK'
    OBVIOUS
  <2> USE MemberAssumption DEF TypeOK
  <2>a. \A k \in Keys : queryOssan(k) \in Bean \cup {Null}
    BY DEF queryOssan, Row, Bean
  <2>1. ASSUME NEW s \in Sessions, Browse(s)
        PROVE  TypeOK'
    <3>1. CASE Expire(s)
      BY <3>1 DEF Expire
    <3>2. CASE OssanDelete(s)
      <4>1. page[s] \in Page /\ page[s].key \in Keys
        BY <3>2 DEF OssanDelete, Page
      <4>. QED  BY <3>2, <4>1 DEF OssanDelete, deleteOssan
    <3>3. CASE \E k \in Keys : Login(s, k)
      BY <3>3 DEF Login
    <3>. QED  BY <2>1, <3>1, <3>2, <3>3 DEF Browse
  <2>2. ASSUME NEW r \in Requests, NEW s \in Sessions, NEW form \in Forms,
               NEW k \in Keys, Open(r, s, form, k)
        PROVE  TypeOK'
    <3>1. Request(s, form, k, Null) \in Locals
      BY DEF Request, Locals
    <3>8. loc' = [loc EXCEPT ![r] = Request(s, form, k, Null)]
      BY <2>2 DEF Open, Goto
    <3>9. /\ member' \in [Keys -> Row \cup {Null}] /\ live' \subseteq Sessions
          /\ login' \in [Sessions -> Keys \cup {Null}]
          /\ bean' \in [Sessions -> Bean \cup {Null}]
          /\ page' \in [Sessions -> Page \cup {Null}]
          /\ bb' \in [Forms -> Bean \cup {Null}]
          /\ pc' \in [Requests -> {"idle", "render", "parsed", "update", "set_bean"}]
      BY <2>2, <2>a, <3>1 DEF Open, Goto
    <3>10. loc' \in [Requests -> Locals]
      BY <3>8, <3>1
    <3>11. loc'[r].sess = s /\ loc'[r].form \in Forms /\ pc'[r] \in {"render", "parsed"}
      BY <2>2, <3>8 DEF Open, Goto, Request, Forms
    <3>12. \A q \in Requests : q # r => pc'[q] = pc[q] /\ loc'[q] = loc[q]
      BY <2>2, <3>8 DEF Open, Goto
    <3>13. \A q \in Requests :
             /\ pc'[q] # "idle" => loc'[q].sess # Null /\ loc'[q].form # Null
             /\ pc'[q] \in {"update", "set_bean"} => loc'[q].of # Null
             /\ pc'[q] = "set_bean" => loc'[q].target # Null
      <4> TAKE q \in Requests
      <4>1. CASE q = r
        BY <4>1, <3>11 DEF Forms
      <4>2. CASE q # r
        BY <4>2, <3>12
      <4>. QED  BY <4>1, <4>2
    <3>. QED  BY <3>9, <3>10, <3>13
  <2>3. ASSUME NEW r \in Requests, NEW s \in Sessions, PersonalPreUpdate2(r, s)
        PROVE  TypeOK'
    <3>1. login[s] \in Keys /\ member[login[s]].quote \in Keys
      BY <2>3 DEF PersonalPreUpdate2, Row
    <3>2. Request(s, "quote", login[s], member[login[s]].quote) \in Locals
      BY <3>1 DEF Request, Locals, Forms
    <3>8. loc' = [loc EXCEPT ![r] = Request(s, "quote", login[s], member[login[s]].quote)]
      BY <2>3 DEF PersonalPreUpdate2, Goto, serverVars
    <3>9. /\ member' \in [Keys -> Row \cup {Null}] /\ live' \subseteq Sessions
          /\ login' \in [Sessions -> Keys \cup {Null}]
          /\ bean' \in [Sessions -> Bean \cup {Null}]
          /\ page' \in [Sessions -> Page \cup {Null}]
          /\ bb' \in [Forms -> Bean \cup {Null}]
          /\ pc' \in [Requests -> {"idle", "render", "parsed", "update", "set_bean"}]
      BY <2>3, <3>2 DEF PersonalPreUpdate2, Goto, serverVars
    <3>10. loc' \in [Requests -> Locals]
      BY <3>8, <3>2
    <3>11. loc'[r].sess = s /\ loc'[r].form \in Forms /\ pc'[r] \in {"render", "parsed"}
      BY <2>3, <3>8 DEF PersonalPreUpdate2, Goto, serverVars, Request, Forms
    <3>12. \A q \in Requests : q # r => pc'[q] = pc[q] /\ loc'[q] = loc[q]
      BY <2>3, <3>8 DEF PersonalPreUpdate2, Goto, serverVars
    <3>13. \A q \in Requests :
             /\ pc'[q] # "idle" => loc'[q].sess # Null /\ loc'[q].form # Null
             /\ pc'[q] \in {"update", "set_bean"} => loc'[q].of # Null
             /\ pc'[q] = "set_bean" => loc'[q].target # Null
      <4> TAKE q \in Requests
      <4>1. CASE q = r
        BY <4>1, <3>11 DEF Forms
      <4>2. CASE q # r
        BY <4>2, <3>12
      <4>. QED  BY <4>1, <4>2
    <3>. QED  BY <3>9, <3>10, <3>13
  <2>4. ASSUME NEW r \in Requests, NEW s \in Sessions, NEW form \in Forms,
               Submit(r, s, form)
        PROVE  TypeOK'
    <3>1. page[s].of \in Keys \cup {Null}
      BY <2>4 DEF Submit, Page
    <3>2. Request(s, form, Null, page[s].of) \in Locals
      BY <3>1 DEF Blank, Request, Locals
    <3>3. Attribute(s) \in Bean \cup {Null}
      BY DEF Attribute, NoMember, Bean
    <3>8. loc' = [loc EXCEPT ![r] = Request(s, form, Null, page[s].of)]
      BY <2>4 DEF Submit, Goto
    <3>9. /\ member' \in [Keys -> Row \cup {Null}] /\ live' \subseteq Sessions
          /\ login' \in [Sessions -> Keys \cup {Null}]
          /\ bean' \in [Sessions -> Bean \cup {Null}]
          /\ page' \in [Sessions -> Page \cup {Null}]
          /\ bb' \in [Forms -> Bean \cup {Null}]
          /\ pc' \in [Requests -> {"idle", "render", "parsed", "update", "set_bean"}]
      BY <2>4, <3>3, <3>2 DEF Submit, Goto
    <3>10. loc' \in [Requests -> Locals]
      BY <3>8, <3>2
    <3>11. loc'[r].sess = s /\ loc'[r].form \in Forms /\ pc'[r] \in {"render", "parsed"}
      BY <2>4, <3>8 DEF Submit, Goto, Request, Forms
    <3>12. \A q \in Requests : q # r => pc'[q] = pc[q] /\ loc'[q] = loc[q]
      BY <2>4, <3>8 DEF Submit, Goto
    <3>13. \A q \in Requests :
             /\ pc'[q] # "idle" => loc'[q].sess # Null /\ loc'[q].form # Null
             /\ pc'[q] \in {"update", "set_bean"} => loc'[q].of # Null
             /\ pc'[q] = "set_bean" => loc'[q].target # Null
      <4> TAKE q \in Requests
      <4>1. CASE q = r
        BY <4>1, <3>11 DEF Forms
      <4>2. CASE q # r
        BY <4>2, <3>12
      <4>. QED  BY <4>1, <4>2
    <3>. QED  BY <3>9, <3>10, <3>13
  <2>5. ASSUME NEW r \in Requests, Render(r)
        PROVE  TypeOK'
    <3>1. loc[r] \in Locals /\ loc[r].sess \in Sessions /\ loc[r].form \in Forms
      BY <2>5 DEF Render, Locals
    <3>2. Shown(r) \in Keys \cup {Null}
      BY <3>1 DEF Shown, Locals, Bean
    <3>3. [form |-> loc[r].form, key |-> loc[r].key, of |-> Shown(r)] \in Page
      BY <3>1, <3>2 DEF Page, Locals
    <3>4. Blank \in Locals
      BY DEF Blank, Request, Locals
    <3>. QED  BY <2>5, <3>3, <3>4 DEF Render, Respond
  <2>6. ASSUME NEW r \in Requests, Refuse(r)
        PROVE  TypeOK'
    BY <2>6 DEF Refuse, Goto, serverVars, Locals
  <2>7. ASSUME NEW r \in Requests, NEW form \in Forms, TakeKey(r, form)
        PROVE  TypeOK'
    <3>1. bb[form].pKey \in Keys \cup {Null}
      BY <2>7 DEF TakeKey, Bean
    <3>. QED  BY <2>7, <3>1 DEF TakeKey, Goto, serverVars, Locals
  <2>8. ASSUME NEW r \in Requests, OssanSave(r)
        PROVE  TypeOK'
    <3>1. loc[r].target \in Keys /\ loc[r].of \in Keys /\ Blank \in Locals
      BY <2>8 DEF OssanSave, Locals, Blank, Request
    <3>2. updateOssan(loc[r].target, loc[r].of) \in [Keys -> Row \cup {Null}]
      BY <3>1 DEF updateOssan, Row
    <3>. QED  BY <2>8, <3>1, <3>2 DEF OssanSave, Respond
  <2>9. ASSUME NEW r \in Requests, PersonalSave(r) \/ QuoteSave(r)
        PROVE  TypeOK'
    <3>1. loc[r].target \in Keys /\ loc[r].of \in Keys
      BY <2>9 DEF PersonalSave, QuoteSave, Goto, Locals
    <3>2. /\ updateOssan(loc[r].target, loc[r].of) \in [Keys -> Row \cup {Null}]
          /\ updateOssanQuoteIntro(loc[r].target, loc[r].of) \in [Keys -> Row \cup {Null}]
      BY <3>1 DEF updateOssan, updateOssanQuoteIntro, Row
    <3>. QED  BY <2>9, <3>2 DEF PersonalSave, QuoteSave, Goto
  <2>10. ASSUME NEW r \in Requests, PersonalSetBean(r)
         PROVE  TypeOK'
    <3>1. [pKey |-> loc[r].target, of |-> loc[r].of] \in Bean
      BY <2>10 DEF PersonalSetBean, Goto, Locals, Bean
    <3>. QED  BY <2>10, <3>1 DEF PersonalSetBean, Goto
  <2>11. ASSUME NEW r \in Requests, QuoteSetBean(r)
         PROVE  TypeOK'
    <3>1. bb["quote"].pKey \in Keys
      BY <2>11 DEF QuoteSetBean, Bean, Forms
    <3>2. [loc[r] EXCEPT !.form = "personal"] \in Locals
      BY DEF Locals, Forms
    <3>3. queryOssan(bb["quote"].pKey) \in Bean \cup {Null}
      BY <2>a, <3>1
    <3>4. loc' = [loc EXCEPT ![r] = [loc[r] EXCEPT !.form = "personal"]]
      BY <2>11 DEF QuoteSetBean
    <3>5. loc[r].sess # Null /\ [loc[r] EXCEPT !.form = "personal"].sess = loc[r].sess
          /\ [loc[r] EXCEPT !.form = "personal"].form = "personal"
      BY <2>11 DEF QuoteSetBean, Goto, Locals
    <3>6. /\ bean' \in [Sessions -> Bean \cup {Null}]
          /\ pc' \in [Requests -> {"idle", "render", "parsed", "update", "set_bean"}]
      BY <2>11, <3>3 DEF QuoteSetBean, Goto
    <3>7. loc' \in [Requests -> Locals]
      BY <3>4, <3>2
    <3>8. \A q \in Requests : q # r => pc'[q] = pc[q] /\ loc'[q] = loc[q]
      BY <2>11, <3>4 DEF QuoteSetBean, Goto
    <3>9. pc'[r] = "render" /\ loc'[r] = [loc[r] EXCEPT !.form = "personal"]
      BY <2>11, <3>4 DEF QuoteSetBean, Goto
    <3>10. \A q \in Requests :
             /\ pc'[q] # "idle" => loc'[q].sess # Null /\ loc'[q].form # Null
             /\ pc'[q] \in {"update", "set_bean"} => loc'[q].of # Null
             /\ pc'[q] = "set_bean" => loc'[q].target # Null
      <4> TAKE q \in Requests
      <4>1. CASE q = r
        BY <4>1, <3>5, <3>9 DEF Forms
      <4>2. CASE q # r
        BY <4>2, <3>8
      <4>. QED  BY <4>1, <4>2
    <3>. QED  BY <2>11, <3>6, <3>7, <3>10 DEF QuoteSetBean
  <2>12. ASSUME NEW r \in Requests, UpdateFails(r)
         PROVE  TypeOK'
    BY <2>12 DEF UpdateFails, Respond, Locals, Blank, Request
  <2>13. CASE UNCHANGED vars
    BY <2>13 DEF vars
  <2>14. ASSUME NEW r \in Requests, NEW s \in Sessions, Arrive(r, s)
         PROVE  TypeOK'
    <3>1. login[s] # Null => login[s] \in Keys
      OBVIOUS
    <3>. QED  BY <2>14, <3>1, <2>2, <2>3, <2>4
               DEF Arrive, OssanPreUpdate, PersonalPreUpdate, OssanSubmit,
                   PersonalSubmit, QuoteSubmit, Forms
  <2>15. ASSUME NEW r \in Requests, Handle(r)
         PROVE  TypeOK'
    BY <2>15, <2>5, <2>6, <2>7, <2>8, <2>9, <2>10, <2>11, <2>12
       DEF Handle, OssanTakeKey, PersonalTakeKey, QuoteTakeKey, Forms
  <2>. QED  BY <2>1, <2>13, <2>14, <2>15 DEF Next
<1>. QED  BY <1>1, <1>2, PTL DEF Spec

-----------------------------------------------------------------------------
(* The condition under which the forms are safe: every browser waits for   *)
(* its answers, and the requests that use one form do not overlap, or at   *)
(* most one browser uses the pages of the administrator and at most one    *)
(* those of members.                                                       *)
TakeTurns ==
  /\ Serial
  /\ \/ Turns
     \/ \A r, q \in Requests : r = q
     \/ /\ \A s, t \in Admins : s = t
        /\ \A s, t \in Members : s = t

(* The invariant has two halves.  Order says who is at work: it needs only *)
(* that browsers wait.  Data says that attribute, page, field and local    *)
(* variables of a browser speak of one member: it needs TakeTurns.         *)

(* Two requests under way are of different browsers. *)
Alone ==
  \A r, q \in Requests :
    (pc[r] # "idle" /\ pc[q] # "idle" /\ loc[r].sess = loc[q].sess) => r = q

Busy(s) == \E r \in Requests : pc[r] # "idle" /\ loc[r].sess = s

(* Only administrators have the form of OssanUpdate.jsp, only members the  *)
(* other two.                                                              *)
MayUse(s, form) == IF form = "ossan" THEN s \in Admins ELSE s \in Members

Roles ==
  /\ \A s \in Sessions : page[s] # Null => MayUse(s, page[s].form)
  /\ \A r \in Requests : pc[r] # "idle" => MayUse(loc[r].sess, loc[r].form)

(* The attribute of session s, if it is there, is the bean of member k. *)
BeanOf(s, k) == bean[s] # Null => bean[s] = [pKey |-> k, of |-> k]

(* A form of a member that shows k shows the member who is logged in. *)
OwnForm(s, form, k) == form # "ossan" /\ login[s] # Null => k \in {login[s], Null}

BeanOK(s) == bean[s] # Null => bean[s].pKey # Null /\ bean[s].of = bean[s].pKey

(* The attribute is the bean of the member on the screen, unless a request *)
(* is about to change the one or the other.                                *)
PageOK(s) == page[s] # Null =>
  /\ OwnForm(s, page[s].form, page[s].of)
  /\ page[s].form = "ossan" /\ page[s].key # Null => page[s].of \in {page[s].key, Null}
  /\ page[s].form = "quote" => page[s].of # Null
  /\ ~Busy(s) => BeanOf(s, page[s].of)

(* The JSP is about to show the member it was asked for. *)
RenderOK(r) == pc[r] = "render" =>
  /\ loc[r].form = "ossan" /\ loc[r].key # Null => BeanOf(loc[r].sess, loc[r].key)
  /\ loc[r].form = "personal" /\ login[loc[r].sess] # Null
       => BeanOf(loc[r].sess, login[loc[r].sess])
  /\ loc[r].form = "quote" => /\ loc[r].of # Null
                              /\ OwnForm(loc[r].sess, "quote", loc[r].of)
                              /\ BeanOf(loc[r].sess, loc[r].of)

(* Attribute, field and local variables of an update agree. *)
SaveOK(r) == pc[r] \in {"parsed", "update", "set_bean"} =>
  /\ OwnForm(loc[r].sess, loc[r].form, loc[r].of)
  /\ BeanOf(loc[r].sess, loc[r].of)
  /\ loc[r].form = "quote" => loc[r].of # Null
  /\ bb[loc[r].form] # Null => bb[loc[r].form].pKey \in {Null, loc[r].of}
  /\ pc[r] # "parsed" => loc[r].target \in {Null, loc[r].of}

Order == Alone /\ Roles

Data ==
  /\ RowsDescribeTheirMembers
  /\ \A s \in Sessions : BeanOK(s) /\ PageOK(s)
  /\ \A r \in Requests : RenderOK(r) /\ SaveOK(r)

-----------------------------------------------------------------------------
(* A request that begins is the only one of its browser. *)
LEMMA ArrivalKeepsOrder ==
  ASSUME NEW r \in Requests, NEW s \in Sessions, TypeOK, Order, Serial,
         MaySend(s), pc[r] = "idle", pc'[r] # "idle",
         loc'[r].sess = s, MayUse(s, loc'[r].form),
         \A q \in Requests : q # r => pc'[q] = pc[q] /\ loc'[q] = loc[q],
         page' = page
  PROVE  Order'
<1>1. \A q \in Requests : loc[q].sess # s
  BY DEF MaySend, Silent
<1>2. Alone'
  BY <1>1 DEF Alone, Order
<1>3. Roles'
  BY DEF Roles, Order, MayUse
<1>. QED  BY <1>2, <1>3 DEF Order

(* A request goes on or ends, and its browser's page becomes the form of   *)
(* the request, or goes away, or stays.                                    *)
LEMMA HandlingKeepsOrder ==
  ASSUME NEW r \in Requests, TypeOK, Order, pc[r] # "idle",
         pc'[r] = "idle" \/ ( /\ loc'[r].sess = loc[r].sess
                             /\ MayUse(loc[r].sess, loc'[r].form) ),
         \A q \in Requests : q # r => pc'[q] = pc[q] /\ loc'[q] = loc[q],
         \A s \in Sessions : \/ page'[s] = page[s]
                             \/ page'[s] = Null
                             \/ s = loc[r].sess /\ page'[s].form = loc[r].form
  PROVE  Order'
<1>1. Alone'
  BY DEF Alone, Order
<1>2. Roles'
  BY DEF Roles, Order, MayUse
<1>. QED  BY <1>1, <1>2 DEF Order

(* No step makes a browser send two requests at once or leave its role. *)
LEMMA OrderKept ==
  ASSUME TypeOK, Order, Serial, [Next]_vars
  PROVE  Order'
<1>1. ASSUME NEW s \in Sessions, Browse(s)
      PROVE  Order'
  <2>1. /\ pc' = pc /\ loc' = loc
        /\ \A t \in Sessions : page'[t] \in {page[t], Null}
    BY <1>1 DEF Browse, Expire, OssanDelete, Login, TypeOK
  <2>2. Alone'
    BY <2>1 DEF Order, Alone
  <2>3. Roles'
    BY <2>1 DEF Order, Roles, MayUse
  <2>. QED  BY <2>2, <2>3 DEF Order
<1>2. ASSUME NEW r \in Requests, NEW s \in Sessions, Arrive(r, s)
      PROVE  Order'
  <2>1. MaySend(s) /\ pc[r] = "idle" /\ page' = page
    BY <1>2 DEF Arrive, OssanPreUpdate, PersonalPreUpdate, PersonalPreUpdate2,
       Open, Submit, OssanSubmit, PersonalSubmit, QuoteSubmit, Goto, serverVars
  <2>2. /\ pc'[r] \in {"render", "parsed"} /\ loc'[r].sess = s
        /\ \A q \in Requests : q # r => pc'[q] = pc[q] /\ loc'[q] = loc[q]
    BY <1>2 DEF Arrive, OssanPreUpdate, PersonalPreUpdate, PersonalPreUpdate2,
       Open, Submit, OssanSubmit, PersonalSubmit, QuoteSubmit, Goto, Request, TypeOK
  <2>3. MayUse(s, loc'[r].form)
    BY <1>2 DEF Arrive, OssanPreUpdate, PersonalPreUpdate, PersonalPreUpdate2,
       Open, Submit, OssanSubmit, PersonalSubmit, QuoteSubmit, Request, TypeOK,
       MayUse, Order, Roles
  <2>. QED  BY <2>1, <2>2, <2>3, ArrivalKeepsOrder
<1>3. ASSUME NEW r \in Requests, Handle(r)
      PROVE  Order'
  <2>1. pc[r] # "idle"
    BY <1>3 DEF Handle, Render, Refuse, OssanTakeKey, PersonalTakeKey, QuoteTakeKey,
       TakeKey, OssanSave, PersonalSave, QuoteSave, PersonalSetBean, QuoteSetBean,
       UpdateFails, Goto
  <2>2. \A q \in Requests : q # r => pc'[q] = pc[q] /\ loc'[q] = loc[q]
    BY <1>3 DEF Handle, Render, Refuse, OssanTakeKey, PersonalTakeKey, QuoteTakeKey,
       TakeKey, OssanSave, PersonalSave, QuoteSave, PersonalSetBean, QuoteSetBean,
       UpdateFails, Goto, Respond, serverVars, TypeOK
  <2>3. \A s \in Sessions : \/ page'[s] = page[s]
                            \/ page'[s] = Null
                            \/ s = loc[r].sess /\ page'[s].form = loc[r].form
    BY <1>3 DEF Handle, Render, Refuse, OssanTakeKey, PersonalTakeKey, QuoteTakeKey,
       TakeKey, OssanSave, PersonalSave, QuoteSave, PersonalSetBean, QuoteSetBean,
       UpdateFails, serverVars, TypeOK
  <2>4. MayUse(loc[r].sess, loc[r].form)
    BY <2>1 DEF Order, Roles
  <2>5. CASE QuoteSetBean(r)
    <3>1. loc'[r] = [loc[r] EXCEPT !.form = "personal"]
      BY <2>5 DEF QuoteSetBean, TypeOK
    <3>2. loc'[r].sess = loc[r].sess /\ loc'[r].form = "personal"
      BY <3>1 DEF TypeOK, Locals
    <3>3. loc[r].sess \in Members
      BY <2>4, <2>5 DEF QuoteSetBean, MayUse
    <3>4. MayUse(loc[r].sess, loc'[r].form)
      BY <3>2, <3>3 DEF MayUse
    <3>. QED  BY <3>2, <3>4, <2>1, <2>2, <2>3, HandlingKeepsOrder
  <2>6. CASE Refuse(r) \/ \E form \in Forms : TakeKey(r, form)
    <3>1. loc'[r].sess = loc[r].sess /\ loc'[r].form = loc[r].form
      BY <2>6 DEF Refuse, TakeKey, TypeOK, Locals
    <3>2. MayUse(loc[r].sess, loc'[r].form)
      BY <3>1, <2>4
    <3>. QED  BY <3>1, <3>2, <2>1, <2>2, <2>3, HandlingKeepsOrder
  <2>7. CASE PersonalSave(r) \/ QuoteSave(r) \/ PersonalSetBean(r)
    <3>1. loc'[r] = loc[r]
      BY <2>7 DEF PersonalSave, QuoteSave, PersonalSetBean
    <3>2. loc'[r].sess = loc[r].sess /\ MayUse(loc[r].sess, loc'[r].form)
      BY <3>1, <2>4
    <3>. QED  BY <3>2, <2>1, <2>2, <2>3, HandlingKeepsOrder
  <2>8. CASE Render(r) \/ OssanSave(r) \/ UpdateFails(r)
    <3>1. pc'[r] = "idle"
      BY <2>8 DEF Render, OssanSave, UpdateFails, Respond, TypeOK
    <3>. QED  BY <3>1, <2>1, <2>2, <2>3, HandlingKeepsOrder
  <2>. QED  BY <1>3, <2>5, <2>6, <2>7, <2>8
            DEF Handle, OssanTakeKey, PersonalTakeKey, QuoteTakeKey, Forms
<1>4. CASE UNCHANGED vars
  BY <1>4 DEF vars, Order, Alone, Roles, MayUse
<1>. QED  BY <1>1, <1>2, <1>3, <1>4 DEF Next

(* Where browsers wait for their answers, their requests stay in order. *)
LEMMA OrderInvariance == ASSUME Serial PROVE Spec => []Order
<1>1. Init => Order
  BY DEF Init, Order, Alone, Roles
<1>2. TypeOK /\ Order /\ [Next]_vars => Order'
  BY OrderKept
<1>. QED  BY <1>1, <1>2, Typing, PTL DEF Spec

-----------------------------------------------------------------------------
(* What the requests R of browser t do leaves the other browsers and their *)
(* requests in order, if it leaves their attributes, pages and fields      *)
(* alone.                                                                  *)
LEMMA OthersKept ==
  ASSUME NEW t \in Sessions, NEW R \in SUBSET Requests, TypeOK, Data,
         \A q \in Requests \ R : pc'[q] = pc[q] /\ loc'[q] = loc[q],
         \A q \in Requests \ R : pc[q] # "idle" =>
           loc[q].sess # t /\ bb'[loc[q].form] = bb[loc[q].form],
         \A q \in R : pc[q] = "idle" \/ loc[q].sess = t,
         \A q \in R : pc'[q] = "idle" \/ loc'[q].sess = t,
         \A s \in Sessions : s # t =>
           page'[s] = page[s] /\ bean'[s] = bean[s] /\ login'[s] = login[s]
  PROVE  /\ \A s \in Sessions : s # t => BeanOK(s)' /\ PageOK(s)'
         /\ \A q \in Requests \ R : RenderOK(q)' /\ SaveOK(q)'
<1>1. ASSUME NEW s \in Sessions, s # t
      PROVE  BeanOK(s)' /\ PageOK(s)'
  <2>1. page'[s] = page[s] /\ bean'[s] = bean[s] /\ login'[s] = login[s]
    BY <1>1
  <2>2. BeanOK(s) /\ PageOK(s)
    BY DEF Data
  <2>3. Busy(s) => Busy(s)'
    BY <1>1 DEF Busy
  <2>4. BeanOK(s)'
    BY <2>1, <2>2 DEF BeanOK
  <2>5. PageOK(s)'
    BY <2>1, <2>2, <2>3 DEF PageOK, OwnForm, BeanOf
  <2>. QED  BY <2>4, <2>5
<1>2. ASSUME NEW q \in Requests \ R
      PROVE  RenderOK(q)' /\ SaveOK(q)'
  <2>1. pc'[q] = pc[q] /\ loc'[q] = loc[q] /\ RenderOK(q) /\ SaveOK(q)
    BY DEF Data
  <2>2. CASE pc[q] = "idle"
    BY <2>1, <2>2 DEF RenderOK, SaveOK
  <2>3. CASE pc[q] # "idle"
    <3>1. loc[q].sess \in Sessions /\ loc[q].sess # t
      BY <2>3 DEF TypeOK, Locals
    <3>2. /\ bean'[loc[q].sess] = bean[loc[q].sess]
          /\ login'[loc[q].sess] = login[loc[q].sess]
          /\ bb'[loc[q].form] = bb[loc[q].form]
      BY <2>3, <3>1
    <3>3. RenderOK(q)'
      BY <2>1, <3>2 DEF RenderOK, BeanOf, OwnForm
    <3>4. SaveOK(q)'
      BY <2>1, <3>2 DEF SaveOK, BeanOf, OwnForm
    <3>. QED  BY <3>3, <3>4
  <2>. QED  BY <2>2, <2>3
<1>. QED  BY <1>1, <1>2

(* A browser without a request under way logs in, expires or deletes. *)
LEMMA BrowseKeepsData ==
  ASSUME NEW s \in Sessions, TypeOK, Data, Serial, Browse(s)
  PROVE  Data'
<1>1. /\ Silent(s) /\ pc' = pc /\ loc' = loc /\ bb' = bb
      /\ \A t \in Sessions : t # s =>
           page'[t] = page[t] /\ bean'[t] = bean[t] /\ login'[t] = login[t]
  BY DEF Browse, Expire, OssanDelete, Login, MaySend, TypeOK
<1>2. /\ \A t \in Sessions : t # s => BeanOK(t)' /\ PageOK(t)'
      /\ \A q \in Requests : RenderOK(q)' /\ SaveOK(q)'
  <2>. DEFINE R == {}
  <2>1. R \in SUBSET Requests /\ Requests \ R = Requests
    OBVIOUS
  <2>2. \A q \in Requests : pc[q] # "idle" => loc[q].sess # s
    BY <1>1 DEF Silent
  <2>3. \A q \in Requests \ R :
          /\ pc'[q] = pc[q] /\ loc'[q] = loc[q]
          /\ pc[q] # "idle" => loc[q].sess # s /\ bb'[loc[q].form] = bb[loc[q].form]
    BY <1>1, <2>2
  <2>4. \A q \in R : /\ pc[q] = "idle" \/ loc[q].sess = s
                     /\ pc'[q] = "idle" \/ loc'[q].sess = s
    OBVIOUS
  <2>. HIDE DEF R
  <2>. QED  BY <1>1, <2>1, <2>3, <2>4, OthersKept
<1>3. RowsDescribeTheirMembers'
  BY DEF Browse, Expire, OssanDelete, Login, deleteOssan, Data,
         RowsDescribeTheirMembers, TypeOK
<1>4. BeanOK(s) /\ PageOK(s)
  BY DEF Data
<1>5. BeanOK(s)'
  BY <1>4 DEF Browse, Expire, OssanDelete, Login, BeanOK, TypeOK
<1>6. PageOK(s)'
  <2>1. CASE page'[s] = Null
    BY <2>1 DEF PageOK
  <2>2. CASE Expire(s)
    BY <2>2, <1>4, MemberAssumption DEF Expire, PageOK, OwnForm, BeanOf, TypeOK
  <2>3. OssanDelete(s) \/ (\E k \in Keys : Login(s, k)) => page'[s] = Null
    BY DEF OssanDelete, Login, TypeOK
  <2>. QED  BY <2>1, <2>2, <2>3 DEF Browse
<1>. QED  BY <1>2, <1>3, <1>5, <1>6 DEF Data

(* A request begins: its browser had none, so nothing but the fields bb    *)
(* concerns the others.                                                    *)
LEMMA ArrivalKeepsData ==
  ASSUME NEW r \in Requests, NEW s \in Sessions, TypeOK, Data, Serial,
         MaySend(s), pc[r] = "idle", pc'[r] # "idle", loc'[r].sess = s,
         \A q \in Requests : q # r => pc'[q] = pc[q] /\ loc'[q] = loc[q],
         \A q \in Requests : q # r /\ pc[q] # "idle" =>
           bb'[loc[q].form] = bb[loc[q].form],
         page' = page, login' = login, member' = member,
         \A t \in Sessions : t # s => bean'[t] = bean[t],
         BeanOK(s)', RenderOK(r)', SaveOK(r)'
  PROVE  Data'
<1>1. /\ \A t \in Sessions : t # s => BeanOK(t)' /\ PageOK(t)'
      /\ \A q \in Requests \ {r} : RenderOK(q)' /\ SaveOK(q)'
  <2>1. \A q \in Requests : loc[q].sess # s
    BY DEF MaySend, Silent
  <2>. DEFINE R == {r}
  <2>2. R \in SUBSET Requests
    OBVIOUS
  <2>3. \A q \in Requests \ R :
          /\ pc'[q] = pc[q] /\ loc'[q] = loc[q]
          /\ pc[q] # "idle" => loc[q].sess # s /\ bb'[loc[q].form] = bb[loc[q].form]
    BY <2>1
  <2>4. \A q \in R : /\ pc[q] = "idle" \/ loc[q].sess = s
                     /\ pc'[q] = "idle" \/ loc'[q].sess = s
    OBVIOUS
  <2>5. /\ \A t \in Sessions : t # s => BeanOK(t)' /\ PageOK(t)'
        /\ \A q \in Requests \ R : RenderOK(q)' /\ SaveOK(q)'
    <3>. HIDE DEF R
    <3>. QED  BY <2>2, <2>3, <2>4, OthersKept
  <2>. QED  BY <2>5
<1>2. RowsDescribeTheirMembers'
  BY DEF RowsDescribeTheirMembers, Data
<1>3. PageOK(s)'
  <2>1. Busy(s)'
    BY DEF Busy
  <2>2. PageOK(s)
    BY DEF Data
  <2>. QED  BY <2>1, <2>2 DEF PageOK, OwnForm
<1>. QED  BY <1>1, <1>2, <1>3 DEF Data

(* A request goes on or ends: it disturbs no other one. *)
LEMMA HandlingKeepsData ==
  ASSUME NEW r \in Requests, TypeOK, Data, Order,
         pc[r] # "idle", pc'[r] = "idle" \/ loc'[r].sess = loc[r].sess,
         \A q \in Requests : q # r => pc'[q] = pc[q] /\ loc'[q] = loc[q],
         bb' = bb, login' = login,
         \A t \in Sessions : t # loc[r].sess =>
           page'[t] = page[t] /\ bean'[t] = bean[t],
         RowsDescribeTheirMembers',
         \A s \in Sessions : s = loc[r].sess => BeanOK(s)' /\ PageOK(s)',
         RenderOK(r)', SaveOK(r)'
  PROVE  Data'
<1>. DEFINE t == loc[r].sess
            R == {r}
<1>1. t \in Sessions /\ R \in SUBSET Requests
  BY DEF TypeOK, Locals
<1>2. \A q \in Requests \ R :
        /\ pc'[q] = pc[q] /\ loc'[q] = loc[q]
        /\ pc[q] # "idle" => loc[q].sess # t /\ bb'[loc[q].form] = bb[loc[q].form]
  BY DEF Order, Alone
<1>3. \A q \in R : /\ pc[q] = "idle" \/ loc[q].sess = t
                   /\ pc'[q] = "idle" \/ loc'[q].sess = t
  OBVIOUS
<1>4. \A s \in Sessions : s # t =>
        page'[s] = page[s] /\ bean'[s] = bean[s] /\ login'[s] = login[s]
  OBVIOUS
<1>5. /\ \A s \in Sessions : s # t => BeanOK(s)' /\ PageOK(s)'
      /\ \A q \in Requests \ R : RenderOK(q)' /\ SaveOK(q)'
  <2>. HIDE DEF t, R
  <2>. QED  BY <1>1, <1>2, <1>3, <1>4, OthersKept
<1>. QED  BY <1>5 DEF Data

(* A form is opened. *)
LEMMA OpenKeepsData ==
  ASSUME NEW r \in Requests, NEW s \in Sessions, NEW form \in Forms, NEW k \in Keys,
         TypeOK, Data, Serial, Open(r, s, form, k),
         form = "ossan" \/ (form = "personal" /\ k = login[s])
  PROVE  Data'
<1>1. loc'[r] = Request(s, form, k, Null) /\ pc'[r] = "render"
  BY DEF Open, Goto, TypeOK
<1>2. bean'[s] = Null \/ bean'[s] = [pKey |-> k, of |-> k]
  BY DEF Open, queryOssan, TypeOK, Data, RowsDescribeTheirMembers
<1>3. BeanOK(s)'
  BY <1>2, MemberAssumption DEF BeanOK
<1>4. RenderOK(r)'
  BY <1>1, <1>2 DEF RenderOK, Request, BeanOf, Open
<1>5. SaveOK(r)'
  BY <1>1 DEF SaveOK
<1>6. /\ MaySend(s) /\ pc[r] = "idle" /\ loc'[r].sess = s
      /\ page' = page /\ login' = login /\ member' = member /\ bb' = bb
  BY <1>1 DEF Open, Goto, Request
<1>7. /\ \A q \in Requests : q # r => pc'[q] = pc[q] /\ loc'[q] = loc[q]
      /\ \A t \in Sessions : t # s => bean'[t] = bean[t]
  BY DEF Open, Goto, TypeOK
<1>. QED  BY <1>1, <1>3, <1>4, <1>5, <1>6, <1>7, ArrivalKeepsData

(* The form of the quote is opened from the form of the profile, when the  *)
(* attribute is the bean of the member who is logged in.                   *)
LEMMA OpenQuoteKeepsData ==
  ASSUME NEW r \in Requests, NEW s \in Sessions,
         TypeOK, Data, Serial, PersonalPreUpdate2(r, s)
  PROVE  Data'
<1>1. /\ MaySend(s) /\ pc[r] = "idle" /\ pc'[r] = "render"
      /\ login[s] # Null /\ member[login[s]] # Null
      /\ page[s] # Null /\ page[s].form = "personal"
      /\ loc'[r] = Request(s, "quote", login[s], member[login[s]].quote)
      /\ page' = page /\ login' = login /\ member' = member /\ bb' = bb /\ bean' = bean
  BY DEF PersonalPreUpdate2, Goto, serverVars, TypeOK
<1>2. login[s] \in Keys /\ member[login[s]].quote = login[s]
  BY <1>1 DEF TypeOK, Data, RowsDescribeTheirMembers
<1>3. ~Busy(s)
  BY <1>1 DEF Busy, MaySend, Silent
<1>4. BeanOK(s) /\ PageOK(s)
  BY DEF Data
<1>5. BeanOf(s, page[s].of) /\ page[s].of \in {login[s], Null}
  BY <1>1, <1>3, <1>4 DEF PageOK, OwnForm
<1>6. BeanOf(s, login[s])
  BY <1>4, <1>5 DEF BeanOf, BeanOK
<1>7. RenderOK(r)'
  BY <1>1, <1>2, <1>6, MemberAssumption DEF RenderOK, Request, OwnForm, BeanOf
<1>8. SaveOK(r)'
  BY <1>1 DEF SaveOK
<1>9. BeanOK(s)'
  BY <1>1, <1>4 DEF BeanOK
<1>10. loc'[r].sess = s
  BY <1>1 DEF Request
<1>11. \A q \in Requests : q # r => pc'[q] = pc[q] /\ loc'[q] = loc[q]
  BY DEF PersonalPreUpdate2, Goto, TypeOK
<1>. QED  BY <1>1, <1>7, <1>8, <1>9, <1>10, <1>11, ArrivalKeepsData

(* A form is submitted.  The field bb is not in use by another request:    *)
(* that one would be of the same browser.                                  *)
LEMMA SubmitKeepsData ==
  ASSUME NEW r \in Requests, NEW s \in Sessions, NEW form \in Forms,
         TypeOK, Order, Order', Data, TakeTurns, Submit(r, s, form)
  PROVE  Data'
<1>1. /\ Serial /\ MaySend(s) /\ pc[r] = "idle" /\ pc'[r] = "parsed"
      /\ page[s] # Null /\ page[s].form = form
      /\ loc'[r] = Request(s, form, Null, page[s].of)
      /\ page' = page /\ login' = login /\ member' = member /\ bean' = bean
      /\ bb'[form] = Attribute(s)
      /\ \A f \in Forms : f # form => bb'[f] = bb[f]
  BY DEF Submit, Goto, TypeOK, TakeTurns
<1>2. \A q \in Requests : q # r => pc'[q] = pc[q] /\ loc'[q] = loc[q]
  BY DEF Submit, Goto, TypeOK
<1>3. loc'[r].sess = s /\ loc'[r].form = form /\ loc'[r].of = page[s].of
  BY <1>1 DEF Request
<1>4. ASSUME NEW q \in Requests, q # r, pc[q] # "idle"
      PROVE  bb'[loc[q].form] = bb[loc[q].form]
  <2>1. loc[q].form \in Forms
    BY <1>4 DEF TypeOK, Locals
  <2>2. loc[q].sess # s
    BY <1>1 DEF MaySend, Silent
  <2>3. MayUse(loc[q].sess, loc[q].form)
    BY <1>4 DEF Order, Roles
  <2>4. MayUse(s, form)
    BY <1>1 DEF Order, Roles
  <2>5. loc[q].form # form
    <3>1. CASE Turns
      BY <3>1 DEF Submit
    <3>2. CASE ~Turns
      BY <3>2, <1>4, <2>2, <2>3, <2>4 DEF TakeTurns, MayUse
    <3>. QED  BY <3>1, <3>2
  <2>. QED  BY <1>1, <2>1, <2>5
<1>5. ~Busy(s)
  BY <1>1 DEF Busy, MaySend, Silent
<1>6. BeanOK(s) /\ PageOK(s)
  BY DEF Data
<1>7. /\ OwnForm(s, form, page[s].of) /\ BeanOf(s, page[s].of)
      /\ form = "quote" => page[s].of # Null
  BY <1>1, <1>5, <1>6 DEF PageOK
<1>8. Attribute(s) # Null => Attribute(s).pKey \in {Null, page[s].of}
  BY <1>7 DEF Attribute, NoMember, BeanOf
<1>9. SaveOK(r)'
  BY <1>1, <1>3, <1>7, <1>8 DEF SaveOK, OwnForm, BeanOf
<1>10. RenderOK(r)'
  BY <1>1 DEF RenderOK
<1>11. BeanOK(s)'
  BY <1>1, <1>6 DEF BeanOK
<1>. QED  BY <1>1, <1>2, <1>3, <1>4, <1>9, <1>10, <1>11, ArrivalKeepsData

-----------------------------------------------------------------------------
(* What is known of the browser of a request under way. *)
LEMMA OwnBrowser ==
  ASSUME NEW r \in Requests, TypeOK, Data, pc[r] # "idle"
  PROVE  /\ loc[r] \in Locals /\ loc[r].sess \in Sessions /\ loc[r].form \in Forms
         /\ BeanOK(loc[r].sess) /\ PageOK(loc[r].sess) /\ Busy(loc[r].sess)
         /\ RenderOK(r) /\ SaveOK(r) /\ RowsDescribeTheirMembers
  BY DEF TypeOK, Locals, Data, Busy

(* The form appears on the screen. *)
LEMMA RenderKeepsData ==
  ASSUME NEW r \in Requests, TypeOK, Data, Order, Render(r)
  PROVE  Data'
<1>0. PICK s \in Sessions : s = loc[r].sess
  BY OwnBrowser DEF Render
<1>1. /\ pc[r] = "render" /\ pc'[r] = "idle"
      /\ page'[s] = [form |-> loc[r].form, key |-> loc[r].key, of |-> Shown(r)]
      /\ bb' = bb /\ login' = login /\ bean' = bean /\ member' = member
      /\ \A q \in Requests : q # r => pc'[q] = pc[q] /\ loc'[q] = loc[q]
      /\ \A t \in Sessions : t # s => page'[t] = page[t]
  BY <1>0 DEF Render, Respond, TypeOK
<1>2. /\ s \in Sessions /\ loc[r].form \in Forms
      /\ BeanOK(s) /\ RenderOK(r) /\ RowsDescribeTheirMembers
  BY <1>0, <1>1, OwnBrowser
<1>3. BeanOf(s, Shown(r))
  <2>1. CASE loc[r].form = "quote"
    BY <1>0, <1>1, <1>2, <2>1 DEF Shown, RenderOK
  <2>2. CASE loc[r].form # "quote" /\ bean[s] # Null
    <3>1. Shown(r) = bean[s].of /\ bean[s] \in Bean
      BY <1>0, <1>2, <2>2 DEF Shown, TypeOK
    <3>. QED  BY <1>2, <2>2, <3>1 DEF BeanOf, BeanOK, Bean
  <2>3. CASE bean[s] = Null
    BY <2>3 DEF BeanOf
  <2>. QED  BY <2>1, <2>2, <2>3
<1>4. OwnForm(s, loc[r].form, Shown(r))
  BY <1>0, <1>1, <1>2 DEF OwnForm, Shown, RenderOK, BeanOf, Forms
<1>5. loc[r].form = "ossan" /\ loc[r].key # Null => Shown(r) \in {loc[r].key, Null}
  BY <1>0, <1>1, <1>2 DEF Shown, RenderOK, BeanOf
<1>6. loc[r].form = "quote" => Shown(r) # Null
  BY <1>0, <1>1, <1>2 DEF Shown, RenderOK
<1>7. PageOK(s)'
  BY <1>1, <1>3, <1>4, <1>5, <1>6 DEF PageOK, OwnForm, BeanOf
<1>8. BeanOK(s)' /\ RowsDescribeTheirMembers'
  BY <1>1, <1>2 DEF BeanOK, RowsDescribeTheirMembers
<1>9. RenderOK(r)' /\ SaveOK(r)'
  BY <1>1 DEF RenderOK, SaveOK
<1>. QED  BY <1>0, <1>1, <1>7, <1>8, <1>9, HandlingKeepsData

(* A refused form is shown again. *)
LEMMA RefuseKeepsData ==
  ASSUME NEW r \in Requests, TypeOK, Data, Order, Refuse(r)
  PROVE  Data'
<1>. DEFINE s == loc[r].sess
<1>1. /\ pc[r] = "parsed" /\ pc'[r] = "render"
      /\ loc'[r] = [loc[r] EXCEPT !.key = Null]
      /\ bb' = bb /\ login' = login /\ bean' = bean /\ member' = member /\ page' = page
      /\ \A q \in Requests : q # r => pc'[q] = pc[q] /\ loc'[q] = loc[q]
  BY DEF Refuse, Goto, serverVars, TypeOK
<1>2. /\ s \in Sessions /\ loc[r].form \in Forms /\ loc[r] \in Locals
      /\ BeanOK(s) /\ PageOK(s) /\ SaveOK(r) /\ RowsDescribeTheirMembers
  BY <1>1, OwnBrowser
<1>3. /\ loc'[r].sess = s /\ loc'[r].form = loc[r].form
      /\ loc'[r].of = loc[r].of /\ loc'[r].key = Null
  BY <1>1, <1>2 DEF Locals
<1>4. /\ OwnForm(s, loc[r].form, loc[r].of) /\ BeanOf(s, loc[r].of)
      /\ loc[r].form = "quote" => loc[r].of # Null
  BY <1>1, <1>2 DEF SaveOK
<1>5. loc[r].form = "personal" /\ login[s] # Null => BeanOf(s, login[s])
  BY <1>2, <1>4 DEF OwnForm, BeanOf, BeanOK
<1>6. RenderOK(r)'
  BY <1>1, <1>3, <1>4, <1>5 DEF RenderOK, BeanOf, OwnForm
<1>7. SaveOK(r)'
  BY <1>1 DEF SaveOK
<1>8. Busy(s)'
  BY <1>1, <1>3 DEF Busy
<1>9. PageOK(s)' /\ BeanOK(s)' /\ RowsDescribeTheirMembers'
  BY <1>1, <1>2, <1>8 DEF PageOK, OwnForm, BeanOK, RowsDescribeTheirMembers
<1>. QED  BY <1>1, <1>3, <1>6, <1>7, <1>9, HandlingKeepsData

(* The key is taken from the field. *)
LEMMA TakeKeyKeepsData ==
  ASSUME NEW r \in Requests, NEW form \in Forms, TypeOK, Data, Order, TakeKey(r, form)
  PROVE  Data'
<1>. DEFINE s == loc[r].sess
<1>1. /\ pc[r] = "parsed" /\ pc'[r] = "update"
      /\ loc[r].form = form /\ bb[form] # Null
      /\ loc'[r] = [loc[r] EXCEPT !.target = bb[form].pKey]
      /\ bb' = bb /\ login' = login /\ bean' = bean /\ member' = member /\ page' = page
      /\ \A q \in Requests : q # r => pc'[q] = pc[q] /\ loc'[q] = loc[q]
  BY DEF TakeKey, Goto, serverVars, TypeOK
<1>2. /\ s \in Sessions /\ loc[r] \in Locals
      /\ BeanOK(s) /\ PageOK(s) /\ SaveOK(r) /\ RowsDescribeTheirMembers
  BY <1>1, OwnBrowser
<1>3. /\ loc'[r].sess = s /\ loc'[r].form = form
      /\ loc'[r].of = loc[r].of /\ loc'[r].target = bb[form].pKey
  BY <1>1, <1>2 DEF Locals
<1>4. SaveOK(r)'
  BY <1>1, <1>2, <1>3 DEF SaveOK, OwnForm, BeanOf
<1>5. RenderOK(r)'
  BY <1>1 DEF RenderOK
<1>6. Busy(s)'
  BY <1>1, <1>3 DEF Busy
<1>7. PageOK(s)' /\ BeanOK(s)' /\ RowsDescribeTheirMembers'
  BY <1>1, <1>2, <1>6 DEF PageOK, OwnForm, BeanOK, RowsDescribeTheirMembers
<1>. QED  BY <1>1, <1>3, <1>4, <1>5, <1>7, HandlingKeepsData

(* An update is written: the key is that of the member whose data the form *)
(* held.                                                                   *)
LEMMA SaveHitsItsMember ==
  ASSUME NEW r \in Requests, TypeOK, Data, pc[r] = "update",
         loc[r].target # Null
  PROVE  /\ loc[r].target = loc[r].of /\ loc[r].of \in Keys
         /\ \A k \in Keys : updateOssan(loc[r].target, loc[r].of)[k] = member[k]
         /\ \A k \in Keys : updateOssanQuoteIntro(loc[r].target, loc[r].of)[k] = member[k]
<1>1. loc[r].target = loc[r].of /\ loc[r].of \in Keys
  BY OwnBrowser DEF SaveOK, Locals
<1>2. member[loc[r].of] # Null =>
        member[loc[r].of] = [profile |-> loc[r].of, quote |-> loc[r].of]
  BY <1>1 DEF Data, RowsDescribeTheirMembers
<1>3. \A k \in Keys : updateOssan(loc[r].target, loc[r].of)[k] = member[k]
  BY <1>1, <1>2 DEF updateOssan, TypeOK
<1>4. \A k \in Keys : updateOssanQuoteIntro(loc[r].target, loc[r].of)[k] = member[k]
  BY <1>1, <1>2 DEF updateOssanQuoteIntro, TypeOK
<1>. QED  BY <1>1, <1>3, <1>4

(* The update of an administrator, and every update that fails: the        *)
(* request ends and its page is gone.                                      *)
LEMMA EndKeepsData ==
  ASSUME NEW r \in Requests, TypeOK, Data, Order, OssanSave(r) \/ UpdateFails(r)
  PROVE  Data'
<1>1. pc[r] # "idle"
  BY DEF OssanSave, UpdateFails
<1>2. PICK s \in Sessions : s = loc[r].sess
  BY <1>1, OwnBrowser
<1>3. /\ pc'[r] = "idle" /\ page'[s] = Null
      /\ bb' = bb /\ login' = login /\ bean' = bean
      /\ \A q \in Requests : q # r => pc'[q] = pc[q] /\ loc'[q] = loc[q]
      /\ \A t \in Sessions : t # s => page'[t] = page[t]
  BY <1>2 DEF OssanSave, UpdateFails, Respond, TypeOK
<1>4. \A k \in Keys : member'[k] = member[k]
  BY SaveHitsItsMember DEF OssanSave, UpdateFails
<1>5. RowsDescribeTheirMembers'
  BY <1>4 DEF RowsDescribeTheirMembers, Data
<1>6. BeanOK(s)
  BY DEF Data
<1>7. PageOK(s)' /\ BeanOK(s)'
  BY <1>3, <1>6 DEF PageOK, BeanOK
<1>8. RenderOK(r)' /\ SaveOK(r)'
  BY <1>3 DEF RenderOK, SaveOK
<1>. QED  BY <1>1, <1>2, <1>3, <1>5, <1>7, <1>8, HandlingKeepsData

(* The update of a member. *)
LEMMA SaveKeepsData ==
  ASSUME NEW r \in Requests, TypeOK, Data, Order, PersonalSave(r) \/ QuoteSave(r)
  PROVE  Data'
<1>. DEFINE s == loc[r].sess
<1>1. /\ pc[r] = "update" /\ pc'[r] = "set_bean" /\ loc' = loc
      /\ bb' = bb /\ login' = login /\ bean' = bean /\ page' = page
      /\ \A q \in Requests : q # r => pc'[q] = pc[q]
  BY DEF PersonalSave, QuoteSave, Goto, TypeOK
<1>2. BeanOK(s) /\ PageOK(s) /\ SaveOK(r) /\ RowsDescribeTheirMembers
  BY <1>1, OwnBrowser
<1>3. \A k \in Keys : member'[k] = member[k]
  BY <1>1, SaveHitsItsMember DEF PersonalSave, QuoteSave
<1>4. RowsDescribeTheirMembers'
  BY <1>2, <1>3 DEF RowsDescribeTheirMembers
<1>5. SaveOK(r)'
  BY <1>1, <1>2 DEF SaveOK, OwnForm, BeanOf
<1>6. RenderOK(r)'
  BY <1>1 DEF RenderOK
<1>7. Busy(s)'
  BY <1>1 DEF Busy
<1>8. PageOK(s)' /\ BeanOK(s)'
  BY <1>1, <1>2, <1>7 DEF PageOK, OwnForm, BeanOK
<1>. QED  BY <1>1, <1>4, <1>5, <1>6, <1>8, HandlingKeepsData

(* The attribute is replaced after a member's update. *)
LEMMA SetBeanKeepsData ==
  ASSUME NEW r \in Requests, TypeOK, Data, Order,
         PersonalSetBean(r) \/ QuoteSetBean(r)
  PROVE  Data'
<1>. DEFINE s == loc[r].sess
<1>1. /\ pc[r] = "set_bean" /\ pc'[r] = "render"
      /\ bb' = bb /\ login' = login /\ member' = member /\ page' = page
      /\ \A q \in Requests : q # r => pc'[q] = pc[q] /\ loc'[q] = loc[q]
      /\ \A t \in Sessions : t # s => bean'[t] = bean[t]
      /\ loc[r].form # "ossan"
  BY DEF PersonalSetBean, QuoteSetBean, Goto, TypeOK
<1>2. /\ s \in Sessions /\ loc[r] \in Locals
      /\ PageOK(s) /\ SaveOK(r) /\ RowsDescribeTheirMembers
  BY <1>1, OwnBrowser
<1>3. loc'[r].sess = s /\ loc'[r].form = "personal"
  <2>1. CASE PersonalSetBean(r)
    BY <2>1 DEF PersonalSetBean
  <2>2. CASE QuoteSetBean(r)
    <3>1. loc'[r] = [loc[r] EXCEPT !.form = "personal"]
      BY <2>2 DEF QuoteSetBean, TypeOK
    <3>. QED  BY <1>2, <3>1 DEF Locals
  <2>. QED  BY <2>1, <2>2
<1>4. loc[r].of \in Keys
  BY <1>1, <1>2 DEF TypeOK, Locals
<1>5. bean'[s] = Null \/ bean'[s] = [pKey |-> loc[r].of, of |-> loc[r].of]
  <2>1. CASE PersonalSetBean(r)
    <3>1. loc[r].target = loc[r].of
      BY <1>1, <1>2 DEF SaveOK, TypeOK
    <3>. QED  BY <2>1, <1>2, <3>1 DEF PersonalSetBean, TypeOK
  <2>2. CASE QuoteSetBean(r)
    <3>1. bb["quote"].pKey = loc[r].of
      BY <1>1, <1>2, <2>2 DEF SaveOK, QuoteSetBean
    <3>2. bean'[s] = queryOssan(loc[r].of)
      BY <1>2, <2>2, <3>1 DEF QuoteSetBean, TypeOK
    <3>3. member[loc[r].of] # Null => member[loc[r].of].profile = loc[r].of
      <4>1. \A k \in Keys : member[k] # Null => member[k] = [profile |-> k, quote |-> k]
        BY <1>2 DEF RowsDescribeTheirMembers
      <4>2. member[loc[r].of] # Null
              => member[loc[r].of] = [profile |-> loc[r].of, quote |-> loc[r].of]
        BY <1>4, <4>1
      <4>. QED  BY <4>2
    <3>. QED  BY <3>2, <3>3 DEF queryOssan
  <2>. QED  BY <2>1, <2>2
<1>6. login[s] # Null => login[s] = loc[r].of
  BY <1>1, <1>2, <1>4, MemberAssumption DEF SaveOK, OwnForm
<1>7. RenderOK(r)'
  BY <1>1, <1>3, <1>5, <1>6 DEF RenderOK, BeanOf
<1>8. SaveOK(r)'
  BY <1>1 DEF SaveOK
<1>9. Busy(s)'
  BY <1>1, <1>3 DEF Busy
<1>10. PageOK(s)' /\ BeanOK(s)' /\ RowsDescribeTheirMembers'
  <2>1. PageOK(s)'
    BY <1>1, <1>2, <1>3, <1>9 DEF PageOK, OwnForm
  <2>2. BeanOK(s)'
    BY <1>3, <1>4, <1>5, MemberAssumption DEF BeanOK
  <2>3. RowsDescribeTheirMembers'
    BY <1>1, <1>2 DEF RowsDescribeTheirMembers
  <2>. QED  BY <2>1, <2>2, <2>3
<1>. QED  BY <1>1, <1>3, <1>7, <1>8, <1>10, HandlingKeepsData

-----------------------------------------------------------------------------

(* No step mixes up two members, as long as requests take turns. *)
LEMMA DataKept ==
  ASSUME TakeTurns, TypeOK, Order, Order', Data, [Next]_vars
  PROVE  Data'
<1>1. ASSUME NEW s \in Sessions, Browse(s)
      PROVE  Data'
  BY <1>1, BrowseKeepsData DEF TakeTurns
<1>2. ASSUME NEW r \in Requests, NEW s \in Sessions, Arrive(r, s)
      PROVE  Data'
  <2>1. login[s] # Null => login[s] \in Keys
    BY DEF TypeOK
  <2>2. CASE (\E k \in Keys : OssanPreUpdate(r, s, k)) \/ PersonalPreUpdate(r, s)
    BY <2>1, <2>2, OpenKeepsData DEF OssanPreUpdate, PersonalPreUpdate, TakeTurns, Forms
  <2>3. CASE PersonalPreUpdate2(r, s)
    BY <2>3, OpenQuoteKeepsData DEF TakeTurns
  <2>4. CASE OssanSubmit(r, s) \/ PersonalSubmit(r, s) \/ QuoteSubmit(r, s)
    BY <2>4, SubmitKeepsData DEF OssanSubmit, PersonalSubmit, QuoteSubmit, Forms
  <2>. QED  BY <1>2, <2>2, <2>3, <2>4 DEF Arrive
<1>3. ASSUME NEW r \in Requests, Handle(r)
      PROVE  Data'
  <2>1. CASE OssanTakeKey(r) \/ PersonalTakeKey(r) \/ QuoteTakeKey(r)
    BY <2>1, TakeKeyKeepsData DEF OssanTakeKey, PersonalTakeKey, QuoteTakeKey, Forms
  <2>. QED
    BY <1>3, <2>1, RenderKeepsData, RefuseKeepsData, EndKeepsData, SaveKeepsData,
       SetBeanKeepsData DEF Handle
<1>4. CASE UNCHANGED vars
  BY <1>4 DEF vars, Data, RowsDescribeTheirMembers, BeanOK, PageOK, RenderOK,
              SaveOK, OwnForm, BeanOf, Busy
<1>. QED  BY <1>1, <1>2, <1>3, <1>4 DEF Next

(* Where requests take turns, attribute, page and fields stay in step. *)
LEMMA DataInvariance == ASSUME TakeTurns PROVE Spec => []Data
<1>1. Init => Data
  BY DEF Init, Data, RowsDescribeTheirMembers, BeanOK, PageOK, RenderOK, SaveOK
<1>2. TypeOK /\ Order /\ Order' /\ Data /\ [Next]_vars => Data'
  BY DataKept
<1>3. Spec => []Order
  BY OrderInvariance DEF TakeTurns
<1>. QED  BY <1>1, <1>2, <1>3, Typing, PTL DEF Spec

(* When browsers take turns, no form is saved into the row of a member     *)
(* other than the one it showed.                                           *)
THEOREM RightRow == ASSUME TakeTurns PROVE Spec => []RowsDescribeTheirMembers
<1>1. Data => RowsDescribeTheirMembers
  BY DEF Data
<1>. QED  BY <1>1, DataInvariance, PTL

(* When browsers take turns, a member sees and edits nobody else. *)
THEOREM OwnPage == ASSUME TakeTurns PROVE Spec => []MembersSeeThemselves
<1>1. Data => MembersSeeThemselves
  BY DEF Data, PageOK, OwnForm, MembersSeeThemselves
<1>. QED  BY <1>1, DataInvariance, PTL

(* When browsers take turns, OssanUpdate.jsp asks to delete the member     *)
(* whose name it shows.                                                    *)
THEOREM RightName == ASSUME TakeTurns PROVE Spec => []ConfirmsOneMember
<1>1. Data => ConfirmsOneMember
  BY DEF Data, PageOK, ConfirmsOneMember
<1>. QED  BY <1>1, DataInvariance, PTL

(* Where requests take turns, the member who is told that a change is made *)
(* is the one whose row has it: the run that violates this needs requests  *)
(* of two members that overlap in one servlet.                             *)
THEOREM RightAnnouncement == ASSUME TakeTurns PROVE Spec => []AnnouncedChangeIsTheirs
<1>1. TypeOK /\ Data => AnnouncedChangeIsTheirs
  BY DEF TypeOK, Data, SaveOK, AnnouncedChangeIsTheirs
<1>. QED  BY <1>1, DataInvariance, Typing, PTL

=============================================================================
