-------------------------- MODULE MemberMaintenance --------------------------
(***************************************************************************)
(* Reading a member into a form, saving the form, deleting the member.     *)
(*                                                                         *)
(* Administrators use OssanPreUpdateServlet, OssanUpdateServlet and        *)
(* OssanDeleteServlet; members use PersonalPreUpdateServlet and            *)
(* PersonalUpdateServlet for their profile, and the two servlets with a 2  *)
(* in their names for their quote and introduction.  All of them pass the  *)
(* member on in the session attribute "bean", and each update servlet      *)
(* copies that attribute into its instance field bb, which its threads     *)
(* share.  The table MemberOssan is external.                              *)
(*                                                                         *)
(* Data are abstracted to whom they describe: a profile is the key of the  *)
(* member it belongs to, and so are a quote and introduction.  What a user *)
(* types into a form describes the member the form shows.                  *)
(***************************************************************************)
EXTENDS Naturals, FiniteSets

CONSTANTS
  Keys,      \* seqNo of the members
  Sessions,  \* browsers, each with its current HttpSession
  Requests,  \* the request threads
  Admins,    \* the sessions that use the pages of the administrator
  Members,   \* the sessions that use the pages of a member
  Serial,    \* TRUE: a browser waits for an answer before its next request
  Turns,     \* TRUE: requests that use one form do not overlap
  Null

(* OssanUpdate.jsp, PersonalUpdate.jsp, PersonalUpdate2.jsp *)
Forms == {"ossan", "personal", "quote"}

ASSUME MemberAssumption ==
  /\ Null \notin Keys \cup Sessions \cup Forms
  /\ Admins \subseteq Sessions
  /\ Members \subseteq Sessions
  /\ {Serial, Turns} \subseteq BOOLEAN

VARIABLES
  member,    \* member[k]: the row of the table, Null if there is none
  live,      \* the browsers whose HttpSession exists
  login,     \* login[s]: the session attribute "OssanSessionPKey"
  bean,      \* bean[s]: the session attribute "bean"
  page,      \* page[s]: the form on the screen of browser s
  bb,        \* bb[f]: the field bb of the update servlet of form f
  pc, loc    \* where each request is, and its local variables

serverVars == <<member, live, login, bean, page, bb>>
vars == <<member, live, login, bean, page, bb, pc, loc>>

Row  == [profile : Keys, quote : Keys]
Bean == [pKey : Keys \cup {Null}, of : Keys \cup {Null}]
(* A form shows the data of member "of"; key is its parameter pKey. *)
Page == [form : Forms, key : Keys \cup {Null}, of : Keys \cup {Null}]
Locals == [sess : Sessions \cup {Null}, form : Forms \cup {Null},
           key : Keys \cup {Null}, of : Keys \cup {Null},
           target : Keys \cup {Null}]
(* The parameters and variables of a handler at its start. *)
Request(s, form, key, of) ==
  [sess |-> s, form |-> form, key |-> key, of |-> of, target |-> Null]

(* new MemberOssanBean() *)
NoMember == [pKey |-> Null, of |-> Null]

Blank == Request(Null, Null, Null, Null)

Respond(r) ==
  /\ pc' = [pc EXCEPT ![r] = "idle"]
  /\ loc' = [loc EXCEPT ![r] = Blank]

Silent(s) == \A r \in Requests : loc[r].sess # s

(* Browser s may send a request. *)
MaySend(s) == Serial => Silent(s)

Goto(r, from, to) == pc[r] = from /\ pc' = [pc EXCEPT ![r] = to]

-----------------------------------------------------------------------------
(* The DAO, one statement each *)

(* queryOssan, lines 305-340; rows of administrators are not in the model *)
queryOssan(k) ==
  IF member[k] = Null THEN Null ELSE [pKey |-> k, of |-> member[k].profile]

(* updateOssan without an image, and updateOssanQuoteIntro: an UPDATE that *)
(* finds no row changes nothing, and its caller does not look at the count *)
updateOssan(k, data) ==
  IF member[k] = Null THEN member
  ELSE [member EXCEPT ![k].profile = data]

updateOssanQuoteIntro(k, data) ==
  IF member[k] = Null THEN member
  ELSE [member EXCEPT ![k].quote = data]

deleteOssan(k) == [member EXCEPT ![k] = Null]

-----------------------------------------------------------------------------
(* The browser's session *)

(* LoginServletWithAdmin, the branch of a member; a second login does not  *)
(* clear what an earlier one left in the session.                          *)
Login(s, k) ==
  /\ s \in Members /\ MaySend(s)
  /\ member[k] # Null
  /\ live' = live \cup {s}
  /\ login' = [login EXCEPT ![s] = k]
  /\ page' = [page EXCEPT ![s] = Null]
  /\ UNCHANGED <<member, bean, bb, pc, loc>>

(* Logout or 30 minutes of silence, while no request of s is under way.    *)
(* The form stays on the screen.                                           *)
Expire(s) ==
  /\ s \in live
  /\ Silent(s)
  /\ live' = live \ {s}
  /\ login' = [login EXCEPT ![s] = Null]
  /\ bean' = [bean EXCEPT ![s] = Null]
  /\ UNCHANGED <<member, page, bb, pc, loc>>

-----------------------------------------------------------------------------
(* Opening a form: the member goes into the session, then the JSP shows    *)
(* what the session holds by then.                                         *)

(* Mutant of Open: a bean the session already has is not read again. *)
OpenCached(r, s, form, k) ==
  /\ Goto(r, "idle", "render")
  /\ s \in live /\ MaySend(s)
  /\ loc' = [loc EXCEPT ![r] = Request(s, form, k, Null)]
  /\ bean' = [bean EXCEPT ![s] = IF @ = Null THEN queryOssan(k) ELSE @]
  /\ UNCHANGED <<member, live, login, page, bb>>

Open(r, s, form, k) ==
  /\ Goto(r, "idle", "render")
  /\ s \in live /\ MaySend(s)
  /\ loc' = [loc EXCEPT ![r] = Request(s, form, k, Null)]
  /\ bean' = [bean EXCEPT ![s] = queryOssan(k)]
  /\ UNCHANGED <<member, live, login, page, bb>>

(* The list of members leads to OssanPreUpdate.do?pKey=k *)
OssanPreUpdate(r, s, k) ==
  /\ s \in Admins
  /\ Open(r, s, "ossan", k)

PersonalPreUpdate(r, s) ==
  /\ s \in Members
  /\ login[s] # Null
  /\ Open(r, s, "personal", login[s])

(* The link to this form is on PersonalUpdate.jsp.  The form is filled     *)
(* from request attributes; "bean" stays as it is.                         *)
PersonalPreUpdate2(r, s) ==
  /\ s \in Members \cap live /\ MaySend(s)
  /\ page[s] # Null /\ page[s].form = "personal"
  /\ login[s] # Null /\ member[login[s]] # Null
  /\ Goto(r, "idle", "render")
  /\ loc' = [loc EXCEPT ![r] =
               Request(s, "quote", login[s], member[login[s]].quote)]
  /\ UNCHANGED serverVars

(* Whose data the JSP of request r shows: ${bean}, or its own attributes *)
Shown(r) ==
  IF loc[r].form = "quote" THEN loc[r].of
  ELSE IF bean[loc[r].sess] = Null THEN Null
  ELSE bean[loc[r].sess].of

Render(r) ==
  /\ pc[r] = "render"
  /\ page' = [page EXCEPT ![loc[r].sess] =
                [form |-> loc[r].form, key |-> loc[r].key, of |-> Shown(r)]]
  /\ Respond(r)
  /\ UNCHANGED <<member, live, login, bean, bb>>

-----------------------------------------------------------------------------
(* Submitting a form: the attribute is copied to the field bb, the parts   *)
(* of the form are read and checked, and then the key is taken from bb.    *)

Attribute(s) == IF s \in live THEN bean[s] ELSE NoMember

(* Mutant of Submit: one field bb, in a common superclass. *)
SubmitShared(r, s, form) ==
  /\ Goto(r, "idle", "parsed")
  /\ page[s] # Null /\ page[s].form = form /\ MaySend(s)
  /\ Turns => \A q \in Requests : loc[q].form # form
  /\ live' = live \cup {s}
  /\ bb' = [f \in Forms |-> Attribute(s)]
  /\ loc' = [loc EXCEPT ![r] = Request(s, form, Null, page[s].of)]
  /\ UNCHANGED <<member, login, bean, page>>

Submit(r, s, form) ==
  /\ Goto(r, "idle", "parsed")
  /\ page[s] # Null /\ page[s].form = form /\ MaySend(s)
  /\ Turns => \A q \in Requests : loc[q].form # form
  /\ live' = live \cup {s}
  /\ bb' = [bb EXCEPT ![form] = Attribute(s)]
  /\ loc' = [loc EXCEPT ![r] = Request(s, form, Null, page[s].of)]
  /\ UNCHANGED <<member, login, bean, page>>

OssanSubmit(r, s)    == Submit(r, s, "ossan")
PersonalSubmit(r, s) == Submit(r, s, "personal")
QuoteSubmit(r, s)    == Submit(r, s, "quote")

(* A field is empty: the form comes back.  It shows "bean" again, or what  *)
(* was typed into the quote; its pKey is no longer a number.               *)
Refuse(r) ==
  /\ Goto(r, "parsed", "render")
  /\ loc' = [loc EXCEPT ![r].key = Null]
  /\ UNCHANGED serverVars

(* Mutant of TakeKey: empty fields are not refused. *)
TakeKeyUnchecked(r, form) ==
  /\ loc[r].form = form /\ bb[form] # Null
  /\ Goto(r, "parsed", "update")
  /\ loc' = [loc EXCEPT ![r].target = bb[form].pKey]
  /\ UNCHANGED serverVars

(* new MemberOssanBean(bb.getpKey(), ...).  Nobody fills in a form that    *)
(* came without data.                                                      *)
TakeKey(r, form) ==
  /\ loc[r].form = form
  /\ loc[r].of # Null
  /\ bb[form] # Null
  /\ Goto(r, "parsed", "update")
  /\ loc' = [loc EXCEPT ![r].target = bb[form].pKey]
  /\ UNCHANGED serverVars

OssanTakeKey(r)    == TakeKey(r, "ossan")
PersonalTakeKey(r) == TakeKey(r, "personal")
QuoteTakeKey(r)    == TakeKey(r, "quote")

(* The administrator goes back to the list. *)
OssanSave(r) ==
  /\ pc[r] = "update" /\ loc[r].form = "ossan" /\ loc[r].target # Null
  /\ member' = updateOssan(loc[r].target, loc[r].of)
  /\ page' = [page EXCEPT ![loc[r].sess] = Null]
  /\ Respond(r)
  /\ UNCHANGED <<live, login, bean, bb>>

PersonalSave(r) ==
  /\ loc[r].form = "personal" /\ loc[r].target # Null
  /\ Goto(r, "update", "set_bean")
  /\ member' = updateOssan(loc[r].target, loc[r].of)
  /\ UNCHANGED <<live, login, bean, page, bb, loc>>

QuoteSave(r) ==
  /\ loc[r].form = "quote" /\ loc[r].target # Null
  /\ Goto(r, "update", "set_bean")
  /\ member' = updateOssanQuoteIntro(loc[r].target, loc[r].of)
  /\ UNCHANGED <<live, login, bean, page, bb, loc>>

(* session.setAttribute("bean", newBean), then PersonalUpdate.jsp *)
PersonalSetBean(r) ==
  /\ loc[r].form = "personal"
  /\ Goto(r, "set_bean", "render")
  /\ bean' = [bean EXCEPT ![loc[r].sess] =
                [pKey |-> loc[r].target, of |-> loc[r].of]]
  /\ UNCHANGED <<member, live, login, page, bb, loc>>

(* The member is read again, by the key in the field, which is read again. *)
QuoteSetBean(r) ==
  /\ loc[r].form = "quote"
  /\ bb["quote"] # Null /\ bb["quote"].pKey # Null
  /\ Goto(r, "set_bean", "render")
  /\ bean' = [bean EXCEPT ![loc[r].sess] = queryOssan(bb["quote"].pKey)]
  /\ loc' = [loc EXCEPT ![r].form = "personal"]
  /\ UNCHANGED <<member, live, login, page, bb>>

(* NullPointerException (no bean, no key), SQLException, or an image:      *)
(* updateOssan with an image sets parameters 13 and 14 of 12 and always    *)
(* fails.  The user gets OssanError.jsp.                                   *)
UpdateFails(r) ==
  /\ pc[r] \in {"parsed", "update"} \/ (pc[r] = "set_bean" /\ loc[r].form = "quote")
  /\ page' = [page EXCEPT ![loc[r].sess] = Null]
  /\ Respond(r)
  /\ UNCHANGED <<member, live, login, bean, bb>>

-----------------------------------------------------------------------------
(* OssanDelete.do?pKey=... from OssanUpdate.jsp; the statement and its     *)
(* answer touch nothing another thread sees but the row.                   *)
OssanDelete(s) ==
  /\ page[s] # Null /\ page[s].form = "ossan" /\ page[s].key # Null /\ MaySend(s)
  /\ member' = deleteOssan(page[s].key)
  /\ live' = live \cup {s}
  /\ page' = [page EXCEPT ![s] = Null]
  /\ UNCHANGED <<login, bean, bb, pc, loc>>

-----------------------------------------------------------------------------

Init ==
  /\ member = [k \in Keys |-> [profile |-> k, quote |-> k]]
  /\ live = Admins
  /\ login = [s \in Sessions |-> Null]
  /\ bean = [s \in Sessions |-> Null]
  /\ page = [s \in Sessions |-> Null]
  /\ bb = [f \in Forms |-> Null]
  /\ pc = [r \in Requests |-> "idle"]
  /\ loc = [r \in Requests |-> Blank]

Browse(s) ==
  \/ Expire(s)
  \/ OssanDelete(s)
  \/ \E k \in Keys : Login(s, k)

Arrive(r, s) ==
  \/ \E k \in Keys : OssanPreUpdate(r, s, k)
  \/ PersonalPreUpdate(r, s)
  \/ PersonalPreUpdate2(r, s)
  \/ OssanSubmit(r, s)
  \/ PersonalSubmit(r, s)
  \/ QuoteSubmit(r, s)

Handle(r) ==
  \/ Render(r)
  \/ Refuse(r)
  \/ OssanTakeKey(r)
  \/ PersonalTakeKey(r)
  \/ QuoteTakeKey(r)
  \/ OssanSave(r)
  \/ PersonalSave(r)
  \/ QuoteSave(r)
  \/ PersonalSetBean(r)
  \/ QuoteSetBean(r)
  \/ UpdateFails(r)

Next ==
  \/ \E s \in Sessions : Browse(s)
  \/ \E r \in Requests, s \in Sessions : Arrive(r, s)
  \/ \E r \in Requests : Handle(r)

Spec == Init /\ [][Next]_vars

-----------------------------------------------------------------------------
(* Every variable has its type; a request that is under way has a session, *)
(* and one that saves has data to save.                                    *)
TypeOK ==
  /\ member \in [Keys -> Row \cup {Null}]
  /\ live \subseteq Sessions
  /\ login \in [Sessions -> Keys \cup {Null}]
  /\ bean \in [Sessions -> Bean \cup {Null}]
  /\ page \in [Sessions -> Page \cup {Null}]
  /\ bb \in [Forms -> Bean \cup {Null}]
  /\ pc \in [Requests -> {"idle", "render", "parsed", "update", "set_bean"}]
  /\ loc \in [Requests -> Locals]
  /\ \A r \in Requests :
       /\ pc[r] # "idle" => loc[r].sess # Null /\ loc[r].form # Null
       /\ pc[r] \in {"update", "set_bean"} => loc[r].of # Null
       /\ pc[r] = "set_bean" => loc[r].target # Null

(* Every row describes its own member: no form is saved into the row of a  *)
(* member other than the one it showed.  OssanUpdateServlet and the two    *)
(* PersonalUpdate servlets take the key from the attribute and the data    *)
(* from the form; nothing but the order of requests keeps the two in step: *)
(* browsers that wait (Serial), requests of one servlet that take turns    *)
(* (Turns).  member_wrong_row shows what comes of it without Turns.        *)
RowsDescribeTheirMembers ==
  \A k \in Keys : member[k] # Null => member[k] = [profile |-> k, quote |-> k]

(* A member sees and edits nobody else: whatever was opened, saved or      *)
(* refused before, and whoever was logged in before on this browser, the   *)
(* forms of PersonalUpdate.jsp and PersonalUpdate2.jsp show the member who *)
(* is logged in.  It takes Serial and Turns, too.                          *)
MembersSeeThemselves ==
  \A s \in Sessions :
    (page[s] # Null /\ page[s].form # "ossan" /\ login[s] # Null)
      => page[s].of \in {login[s], Null}

(* What OssanUpdate.jsp, line 26, asks before a deletion: the number       *)
(* (parameter pKey) and the name (attribute bean) are of one member.  It   *)
(* takes a browser that waits (Serial): of two requests to open a member   *)
(* that overlap, the second replaces the name of the first.                *)
ConfirmsOneMember ==
  \A s \in Sessions :
    (page[s] # Null /\ page[s].form = "ossan" /\ page[s].key # Null /\ page[s].of # Null)
      => page[s].of = page[s].key

(* When PersonalUpdateServlet and PersonalUpdateServlet2 go on to tell the *)
(* member that the change is made, the row they wrote is the row of the    *)
(* member whose form it was.  It takes Turns: member_wrong_row.            *)
AnnouncedChangeIsTheirs ==
  \A r \in Requests : pc[r] = "set_bean" => loc[r].target = loc[r].of

=============================================================================
