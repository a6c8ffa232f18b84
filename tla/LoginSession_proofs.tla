------------------------ MODULE LoginSession_proofs ------------------------
(***************************************************************************)
(* Proofs about LoginSession, for every number of sessions, threads,       *)
(* accounts, passwords and rows.                                           *)
(***************************************************************************)
EXTENDS LoginSession, TLAPS

-----------------------------------------------------------------------------
(* Types, and what a request knows at each place of the filter or of its   *)
(* servlet. *)

Fits(place, l) ==
  /\ place # "idle" => l.sess \in Sessions /\ l.page \in Pages
  /\ place \in Registering => l.account \in Accounts /\ l.password \in Passwords
  /\ place = "reg_save" => l.checked \in Nat
  /\ place \in {"login_key", "login_member", "login_set"}
     => l.account \in Accounts /\ l.found \in Keys
  /\ place \in {"login_member", "login_set"} => l.key \in Nat

Typed == TypeOK /\ \A r \in Requests : Fits(pc[r], loc[r])

(* A request goes to another place: the others stay where they are. *)
LEMMA Moves ==
  ASSUME Typed, NEW r \in Requests, NEW place \in Places, NEW l \in Locals,
         Fits(place, l),
         pc' = [pc EXCEPT ![r] = place], loc' = [loc EXCEPT ![r] = l]
  PROVE  /\ pc' \in [Requests -> Places] /\ loc' \in [Requests -> Locals]
         /\ \A u \in Requests : Fits(pc'[u], loc'[u])
<1>1. pc' \in [Requests -> Places] /\ loc' \in [Requests -> Locals]
  BY DEF Typed, TypeOK
<1>2. ASSUME NEW u \in Requests
      PROVE  Fits(pc'[u], loc'[u])
  <2>1. CASE u = r
    <3>1. pc'[u] = place /\ loc'[u] = l
      BY <2>1 DEF Typed, TypeOK
    <3>. QED  BY <3>1
  <2>2. CASE u # r
    <3>1. pc'[u] = pc[u] /\ loc'[u] = loc[u]
      BY <2>2 DEF Typed, TypeOK
    <3>. QED  BY <3>1 DEF Typed
  <2>. QED  BY <2>1, <2>2
<1>. QED  BY <1>1, <1>2

LEMMA Responds ==
  ASSUME Typed, NEW r \in Requests, Respond(r)
  PROVE  /\ pc' \in [Requests -> Places] /\ loc' \in [Requests -> Locals]
         /\ \A u \in Requests : Fits(pc'[u], loc'[u])
<1>1. Blank \in Locals /\ Fits("idle", Blank) /\ "idle" \in Places
  BY DEF Blank, Locals, Fits, Places, Registering
<1>. QED  BY <1>1, Moves DEF Respond

(* A request goes on with the parameters and variables it has. *)
LEMMA GoesOn ==
  ASSUME Typed, NEW r \in Requests, NEW place \in Places, Fits(place, loc[r]),
         pc' = [pc EXCEPT ![r] = place], UNCHANGED loc
  PROVE  /\ pc' \in [Requests -> Places] /\ loc' \in [Requests -> Locals]
         /\ \A u \in Requests : Fits(pc'[u], loc'[u])
<1>1. loc' = [loc EXCEPT ![r] = loc[r]] /\ loc[r] \in Locals
  BY DEF Typed, TypeOK
<1>. QED  BY <1>1, Moves

LEMMA AddRowTyped ==
  ASSUME TypeOK, NEW row \in Row, AddRow(row)
  PROVE  rows' \in [Keys -> Row \cup {Null}] /\ nextKey' \in 1..(MaxKey + 1)
BY LoginAssumption DEF TypeOK, AddRow, Keys

LEMMA NewRowIsRow ==
  ASSUME NEW id \in Accounts, NEW p \in Passwords, NEW n \in Nat \cup {Null}
  PROVE  NewRow(id, Hashed(p), n) \in Row /\ NewRow(id, Plain(p), n) \in Row
BY DEF NewRow, Hashed, Plain, Row

(* What a form makes of a row *)
LEMMA SavedRow ==
  ASSUME NEW row \in Row, NEW id \in Accounts,
         NEW stored \in {row.password} \cup {Plain(p) : p \in Passwords}
  PROVE  /\ Saved(row, id, stored) \in Row
         /\ Saved(row, id, stored).account = id
         /\ Saved(row, id, stored).password = stored
         /\ Saved(row, id, stored).admin = row.admin
         /\ Saved(row, id, stored).checked = row.checked
         /\ ~ Saved(row, id, stored).moved => ~ row.moved /\ id = row.account
<1>1. stored \in [hashed : BOOLEAN, text : Passwords]
  <2>1. ASSUME NEW q \in Passwords
        PROVE  Plain(q) \in [hashed : BOOLEAN, text : Passwords]
    BY DEF Plain
  <2>2. row.password \in [hashed : BOOLEAN, text : Passwords]
    BY DEF Row
  <2>. QED  BY <2>1, <2>2
<1>2. Saved(row, id, stored)
        = [row EXCEPT !.account = id, !.password = stored,
                      !.moved = row.moved \/ id # row.account]
  BY DEF Saved
<1>. QED  BY <1>1, <1>2 DEF Row

(* The filter, and the answers that change nothing *)
LEMMA FilterTyped ==
  ASSUME Typed, NEW r \in Requests,
         \/ \E s \in Sessions, p \in Pages : Arrive(r, s, p)
         \/ Judge(r) \/ Deny(r) \/ Answer(r) \/ DatabaseFails(r)
  PROVE  Typed'
<1> USE DEF fields, table
<1>1. ASSUME NEW s \in Sessions, NEW p \in Pages, Arrive(r, s, p)
      PROVE  Typed'
  <2> DEFINE l == [Blank EXCEPT !.sess = s, !.page = p, !.known = life[s] = "live"]
  <2>1. l \in Locals /\ Fits("judge", l) /\ "judge" \in Places
    BY DEF Blank, Locals, Fits, Places, Filtering, Registering
  <2>2. pc' = [pc EXCEPT ![r] = "judge"] /\ loc' = [loc EXCEPT ![r] = l]
    BY <1>1 DEF Arrive
  <2> HIDE DEF l
  <2>3. /\ pc' \in [Requests -> Places] /\ loc' \in [Requests -> Locals]
        /\ \A u \in Requests : Fits(pc'[u], loc'[u])
    BY <2>1, <2>2, Moves
  <2>4. life' \in [Sessions -> {"new", "live", "dead"}]
    BY <1>1 DEF Arrive, Typed, TypeOK
  <2>. QED  BY <1>1, <2>3, <2>4 DEF Arrive, Typed, TypeOK
<1>2. CASE Judge(r)
  <2>1. loc[r].page \in Pages /\ loc[r].sess \in Sessions
    BY <1>2 DEF Judge, Typed, Fits
  <2>2. Fits("deny", loc[r]) /\ Fits("serve", loc[r])
    BY <2>1 DEF Fits, Registering
  <2>3. {"deny", "serve"} \subseteq Places
    BY DEF Places, Filtering
  <2>4. /\ pc' \in [Requests -> Places] /\ loc' \in [Requests -> Locals]
        /\ \A u \in Requests : Fits(pc'[u], loc'[u])
    BY <1>2, <2>2, <2>3, GoesOn DEF Judge
  <2>. QED  BY <1>2, <2>1, <2>4 DEF Judge, Typed, TypeOK
<1>3. CASE Deny(r)
  <2>1. attr' \in [Sessions -> Attributes]
    BY <1>3 DEF Deny, Typed, TypeOK, Attributes
  <2>. QED  BY <1>3, <2>1, Responds DEF Deny, Typed, TypeOK
<1>4. CASE Answer(r) \/ DatabaseFails(r)
  BY <1>4, Responds DEF Answer, DatabaseFails, Typed, TypeOK
<1>. QED  BY <1>1, <1>2, <1>3, <1>4

LEMMA RegisterTyped ==
  ASSUME Typed, NEW r \in Requests,
         \/ \E id \in Accounts, p \in Passwords : RegisterSubmit(r, id, p)
         \/ RegisterJudge(r) \/ RegisterExists(r) \/ RegisterSave(r)
  PROVE  Typed'
<1> USE DEF fields, table
<1>p. Registering \subseteq Places
  BY DEF Places
<1>1. ASSUME NEW id \in Accounts, NEW p \in Passwords, RegisterSubmit(r, id, p)
      PROVE  Typed'
  <2> DEFINE l == [loc[r] EXCEPT !.account = id, !.password = p]
  <2>1. loc[r] \in Locals /\ loc[r].sess \in Sessions /\ loc[r].page \in Pages
    BY <1>1 DEF RegisterSubmit, At, Typed, TypeOK, Fits
  <2>2. l \in Locals /\ Fits("reg_judge", l)
    BY <2>1 DEF Locals, Fits
  <2>3. pc' = [pc EXCEPT ![r] = "reg_judge"] /\ loc' = [loc EXCEPT ![r] = l]
    BY <1>1, <2>1 DEF RegisterSubmit, Typed, TypeOK
  <2> HIDE DEF l
  <2>4. /\ pc' \in [Requests -> Places] /\ loc' \in [Requests -> Locals]
        /\ \A u \in Requests : Fits(pc'[u], loc'[u])
    BY <1>p, <2>2, <2>3, Moves DEF Registering
  <2>. QED  BY <1>1, <2>4 DEF RegisterSubmit, Typed, TypeOK
<1>2. ASSUME NEW place \in Registering, pc' = [pc EXCEPT ![r] = place], UNCHANGED loc,
             place # "reg_save", pc[r] \in Registering, UNCHANGED <<fields, life, attr, table>>
      PROVE  Typed'
  <2>1. Fits(place, loc[r])
    BY <1>2 DEF Typed, Fits, Registering
  <2>. QED  BY <1>p, <1>2, <2>1, GoesOn DEF Typed, TypeOK
<1>3. CASE RegisterJudge(r)
  BY <1>2, <1>3, Responds DEF RegisterJudge, Registering, Typed, TypeOK
<1>5. CASE RegisterExists(r)
  <2>1. CASE Respond(r)
    BY <1>5, <2>1, Responds DEF RegisterExists, Typed, TypeOK
  <2>2. CASE /\ pc' = [pc EXCEPT ![r] = "reg_save"]
             /\ loc' = [loc EXCEPT ![r].checked = nextKey]
    <3> DEFINE l == [loc[r] EXCEPT !.checked = nextKey]
    <3>1. /\ loc[r] \in Locals /\ loc[r].sess \in Sessions /\ loc[r].page \in Pages
          /\ loc[r].account \in Accounts /\ loc[r].password \in Passwords
          /\ nextKey \in Nat
      BY <1>5, LoginAssumption DEF RegisterExists, Registering, Typed, TypeOK, Fits
    <3>2. l \in Locals /\ Fits("reg_save", l)
      BY <3>1 DEF Locals, Fits
    <3>3. loc' = [loc EXCEPT ![r] = l]
      BY <2>2 DEF Typed, TypeOK
    <3> HIDE DEF l
    <3>4. /\ pc' \in [Requests -> Places] /\ loc' \in [Requests -> Locals]
          /\ \A u \in Requests : Fits(pc'[u], loc'[u])
      BY <1>p, <2>2, <3>2, <3>3, Moves DEF Registering
    <3>. QED  BY <1>5, <3>4 DEF RegisterExists, Typed, TypeOK
  <2>. QED  BY <1>5, <2>1, <2>2 DEF RegisterExists
<1>4. CASE RegisterSave(r)
  <2>1. loc[r].account \in Accounts /\ loc[r].password \in Passwords
    BY <1>4 DEF RegisterSave, Typed, Fits, Registering
  <2>2. NewRow(loc[r].account, Hashed(loc[r].password), loc[r].checked) \in Row
    BY <1>4, <2>1, NewRowIsRow DEF RegisterSave, Typed, Fits
  <2>3. rows' \in [Keys -> Row \cup {Null}] /\ nextKey' \in 1..(MaxKey + 1)
    BY <1>4, <2>2, AddRowTyped DEF RegisterSave, Typed
  <2>. QED  BY <1>4, <2>3, Responds DEF RegisterSave, Typed, TypeOK
<1>. QED  BY <1>1, <1>3, <1>4, <1>5

LEMMA LoginTyped ==
  ASSUME Typed, NEW r \in Requests,
         \/ \E id \in Accounts, p \in Passwords : LoginFind(r, id, p)
         \/ LoginAdmin(r) \/ LoginKey(r) \/ LoginMember(r) \/ LoginSetKey(r)
         \/ LoginFails(r) \/ Logout(r)
  PROVE  Typed'
<1> USE DEF fields, table
<1>p. LoggingIn \subseteq Places
  BY DEF Places
<1>l. loc[r] \in Locals /\ Fits(pc[r], loc[r])
  BY DEF Typed, TypeOK
<1>1. ASSUME NEW id \in Accounts, NEW p \in Passwords, LoginFind(r, id, p)
      PROVE  Typed'
  <2>0. loc[r].sess \in Sessions /\ loc[r].page \in Pages
    BY <1>1, <1>l DEF LoginFind, At, Fits
  <2>1. CASE pc' = [pc EXCEPT ![r] = "login_admin"] /\ UNCHANGED loc
    <3>1. Fits("login_admin", loc[r])
      BY <2>0 DEF Fits, Registering
    <3>. QED  BY <1>p, <1>1, <2>1, <3>1, GoesOn DEF LoginFind, LoggingIn, Typed, TypeOK
  <2>2. ASSUME NEW k \in Keys, pc' = [pc EXCEPT ![r] = "login_key"],
               loc' = [loc EXCEPT ![r].account = id, ![r].found = k]
        PROVE  Typed'
    <3> DEFINE l == [loc[r] EXCEPT !.account = id, !.found = k]
    <3>1. l \in Locals /\ Fits("login_key", l)
      BY <1>l, <2>0 DEF Locals, Fits, Registering
    <3>2. loc' = [loc EXCEPT ![r] = l]
      BY <2>2 DEF Typed, TypeOK
    <3> HIDE DEF l
    <3>. QED  BY <1>p, <1>1, <2>2, <3>1, <3>2, Moves DEF LoginFind, LoggingIn, Typed, TypeOK
  <2>3. CASE Respond(r)
    BY <1>1, <2>3, Responds DEF LoginFind, Typed, TypeOK
  <2>. QED  BY <1>1, <2>1, <2>2, <2>3 DEF LoginFind, Matching
<1>2. CASE LoginAdmin(r)
  <2>1. attr' \in [Sessions -> Attributes]
    BY <1>2 DEF LoginAdmin, Typed, TypeOK, Attributes
  <2>. QED  BY <1>2, <2>1, Responds DEF LoginAdmin, Typed, TypeOK
<1>3. CASE LoginKey(r)
  <2>0. /\ loc[r].sess \in Sessions /\ loc[r].page \in Pages
        /\ loc[r].account \in Accounts /\ loc[r].found \in Keys
    BY <1>3, <1>l DEF LoginKey, Goto, Fits
  <2>1. PICK k \in Nat : loc' = [loc EXCEPT ![r].key = k]
    BY <1>3 DEF LoginKey, OssansNamed, Keys
  <2> DEFINE l == [loc[r] EXCEPT !.key = k]
  <2>2. l \in Locals /\ Fits("login_member", l)
    BY <1>l, <2>0 DEF Locals, Fits, Registering
  <2>3. loc' = [loc EXCEPT ![r] = l]
    BY <2>1 DEF Typed, TypeOK
  <2> HIDE DEF l
  <2>. QED  BY <1>p, <1>3, <2>2, <2>3, Moves DEF LoginKey, Goto, LoggingIn, Typed, TypeOK
<1>4. CASE LoginMember(r)
  <2>0. /\ loc[r].sess \in Sessions /\ loc[r].page \in Pages
        /\ loc[r].account \in Accounts
        /\ loc[r].found \in Keys /\ loc[r].key \in Nat
    BY <1>4, <1>l DEF LoginMember, Fits
  <2>1. Fits("login_set", loc[r])
    BY <2>0 DEF Fits, Registering
  <2>2. attr' \in [Sessions -> Attributes]
    BY <1>4, <2>0 DEF LoginMember, Typed, TypeOK, Attributes
  <2>. QED  BY <1>p, <1>4, <2>1, <2>2, GoesOn DEF LoginMember, LoggingIn, Typed, TypeOK
<1>5. CASE LoginSetKey(r)
  <2>1. loc[r].key \in Nat
    BY <1>5, <1>l DEF LoginSetKey, Fits
  <2>2. attr' \in [Sessions -> Attributes]
    BY <1>5, <2>1 DEF LoginSetKey, Typed, TypeOK, Attributes
  <2>. QED  BY <1>5, <2>2, Responds DEF LoginSetKey, Typed, TypeOK
<1>6. CASE LoginFails(r)
  BY <1>6, Responds DEF LoginFails, Typed, TypeOK
<1>7. CASE Logout(r)
  <2>1. NoAttributes \in Attributes
    BY DEF NoAttributes, Attributes
  <2>2. attr' \in [Sessions -> Attributes] /\ life' \in [Sessions -> {"new", "live", "dead"}]
    BY <1>7, <2>1 DEF Logout, Typed, TypeOK
  <2>. QED  BY <1>7, <2>2, Responds DEF Logout, Typed, TypeOK
<1>. QED  BY <1>1, <1>2, <1>3, <1>4, <1>5, <1>6, <1>7

LEMMA FormTyped ==
  ASSUME Typed, NEW r \in Requests,
         \/ \E id \in Accounts, p \in Passwords : OssanInsert(r, id, p)
         \/ \E k \in Keys : OssanUpdate(r, k) \/ PersonalUpdate(r, k) \/ OssanDelete(r, k)
  PROVE  Typed'
<1> USE DEF fields, table
<1>1. ASSUME NEW id \in Accounts, NEW p \in Passwords, OssanInsert(r, id, p)
      PROVE  Typed'
  <2>1. rows' \in [Keys -> Row \cup {Null}] /\ nextKey' \in 1..(MaxKey + 1)
    BY <1>1, NewRowIsRow, AddRowTyped DEF OssanInsert, Typed
  <2>. QED  BY <1>1, <2>1, Responds DEF OssanInsert, Typed, TypeOK
<1>2. ASSUME NEW k \in Keys, SaveForm(r, k)
      PROVE  Typed'
  <2>1. rows[k] \in Row
    BY <1>2 DEF SaveForm, Typed, TypeOK
  <2>2. PICK id \in Accounts, stored \in {rows[k].password} \cup {Plain(p) : p \in Passwords} :
          rows' = [rows EXCEPT ![k] = Saved(rows[k], id, stored)]
    BY <1>2 DEF SaveForm
  <2>3. Saved(rows[k], id, stored) \in Row
    BY <2>1, SavedRow
  <2>4. rows' \in [Keys -> Row \cup {Null}]
    BY <2>2, <2>3 DEF Typed, TypeOK
  <2>. QED  BY <1>2, <2>4, Responds DEF SaveForm, Typed, TypeOK
<1>3. ASSUME NEW k \in Keys, OssanDelete(r, k)
      PROVE  Typed'
  <2>1. rows' \in [Keys -> Row \cup {Null}]
    BY <1>3 DEF OssanDelete, Typed, TypeOK
  <2>. QED  BY <1>3, <2>1, Responds DEF OssanDelete, Typed, TypeOK
<1>. QED  BY <1>1, <1>2, <1>3 DEF OssanUpdate, PersonalUpdate

LEMMA TypedInit == Init => Typed
<1> SUFFICES ASSUME Init
             PROVE  Typed
  OBVIOUS
<1>1. [NewRow(AdminAccount, Hashed(AdminPassword), Null) EXCEPT !.admin = TRUE] \in Row
  BY LoginAssumption DEF NewRow, Hashed, Row
<1>2. Blank \in Locals /\ NoAttributes \in Attributes
  BY DEF Blank, Locals, NoAttributes, Attributes
<1>3. 2 \in 1..(MaxKey + 1)
  BY LoginAssumption
<1>4. TypeOK
  BY <1>1, <1>2, <1>3 DEF Init, TypeOK, Places
<1>5. \A r \in Requests : Fits(pc[r], loc[r])
  BY DEF Init, Fits, Registering
<1>. QED  BY <1>4, <1>5 DEF Typed

LEMMA TypedStep == Typed /\ [Next]_vars => Typed'
<1> SUFFICES ASSUME Typed, [Next]_vars
             PROVE  Typed'
  OBVIOUS
<1>1. ASSUME NEW r \in Requests, Step(r)
      PROVE  Typed'
  BY <1>1, FilterTyped, RegisterTyped, LoginTyped, FormTyped DEF Step
<1>2. ASSUME NEW s \in Sessions, Expire(s)
      PROVE  Typed'
  <2>1. NoAttributes \in Attributes
    BY DEF NoAttributes, Attributes
  <2>. QED  BY <1>2, <2>1 DEF Expire, Typed, TypeOK, Fits, fields, table
<1>3. CASE UNCHANGED vars
  BY <1>3 DEF vars, Typed, TypeOK, Fits
<1>. QED  BY <1>1, <1>2, <1>3 DEF Next

LEMMA TypedInvariance == Spec => []Typed
BY TypedInit, TypedStep, PTL DEF Spec

(* Type correctness: the parameters, fields, attributes and rows of the    *)
(* filter, the servlets and the table stay what they are.                  *)
THEOREM Typing == Spec => []TypeOK
<1>1. Typed => TypeOK
  BY DEF Typed
<1>. QED  BY <1>1, TypedInvariance, PTL

-----------------------------------------------------------------------------
(* A step of one request leaves the others where they are. *)
LEMMA OneMoves ==
  ASSUME Typed, NEW r \in Requests, Step(r), NEW u \in Requests, u # r
  PROVE  pc'[u] = pc[u] /\ loc'[u] = loc[u]
<1>1. pc \in [Requests -> Places] /\ loc \in [Requests -> Locals]
  BY DEF Typed, TypeOK
<1>2. CASE \/ \E s \in Sessions, p \in Pages : Arrive(r, s, p)
           \/ Judge(r) \/ Deny(r) \/ Answer(r) \/ DatabaseFails(r)
  BY <1>1, <1>2 DEF Arrive, Judge, Deny, Answer, DatabaseFails, Respond
<1>3. CASE \/ \E id \in Accounts, p \in Passwords : RegisterSubmit(r, id, p)
           \/ RegisterJudge(r) \/ RegisterExists(r) \/ RegisterSave(r)
  BY <1>1, <1>3 DEF RegisterSubmit, RegisterJudge, RegisterExists, RegisterSave, Respond
<1>4. CASE \/ \E id \in Accounts, p \in Passwords : LoginFind(r, id, p)
           \/ LoginAdmin(r) \/ LoginKey(r) \/ LoginMember(r) \/ LoginSetKey(r)
           \/ LoginFails(r) \/ Logout(r)
  BY <1>1, <1>4 DEF LoginFind, LoginAdmin, LoginKey, LoginMember, LoginSetKey,
                    LoginFails, Logout, Respond, Goto
<1>5. CASE \/ \E id \in Accounts, p \in Passwords : OssanInsert(r, id, p)
           \/ \E k \in Keys : OssanUpdate(r, k) \/ PersonalUpdate(r, k) \/ OssanDelete(r, k)
  BY <1>1, <1>5 DEF OssanInsert, OssanUpdate, PersonalUpdate, SaveForm, OssanDelete, Respond
<1>. QED  BY <1>2, <1>3, <1>4, <1>5 DEF Step

-----------------------------------------------------------------------------
(* What the steps do to the table *)

Stores(row) == AddRow(row) /\ row \in Row

Deleted(k) ==
  /\ rows[k] # Null /\ ~ rows[k].admin
  /\ rows' = [rows EXCEPT ![k] = Null]
  /\ UNCHANGED nextKey

Edited(k) ==
  /\ rows[k] # Null /\ ~ rows[k].admin
  /\ UNCHANGED nextKey
  /\ \E id \in Accounts, stored \in {rows[k].password} \cup {Plain(p) : p \in Passwords} :
       rows' = [rows EXCEPT ![k] = Saved(rows[k], id, stored)]

RegisteredRow(r) == NewRow(loc[r].account, Hashed(loc[r].password), loc[r].checked)

LEMMA RowSteps ==
  ASSUME Typed, NEW r \in Requests, Step(r)
  PROVE  \/ UNCHANGED table
         \/ RegisterSave(r) /\ Stores(RegisteredRow(r))
         \/ \E id \in Accounts, p \in Passwords :
              OssanInsert(r, id, p) /\ Stores(NewRow(id, Plain(p), Null))
         \/ \E k \in Keys : (OssanUpdate(r, k) \/ PersonalUpdate(r, k)) /\ Edited(k)
         \/ \E k \in Keys : OssanDelete(r, k) /\ Deleted(k)
<1> USE DEF table
<1>1. CASE UNCHANGED table
  BY <1>1
<1>2. CASE RegisterSave(r)
  <2>1. loc[r].account \in Accounts /\ loc[r].password \in Passwords /\ loc[r].checked \in Nat
    BY <1>2 DEF RegisterSave, Typed, Fits, Registering
  <2>. QED  BY <1>2, <2>1, NewRowIsRow DEF RegisterSave, Stores, RegisteredRow
<1>3. ASSUME NEW id \in Accounts, NEW p \in Passwords, OssanInsert(r, id, p)
      PROVE  Stores(NewRow(id, Plain(p), Null))
  BY <1>3, NewRowIsRow DEF OssanInsert, Stores
<1>4. ASSUME NEW k \in Keys, SaveForm(r, k)
      PROVE  Edited(k)
  BY <1>4 DEF SaveForm, Edited
<1>5. ASSUME NEW k \in Keys, OssanDelete(r, k)
      PROVE  Deleted(k)
  BY <1>5 DEF OssanDelete, Deleted
<1>6. CASE \/ \E s \in Sessions, p \in Pages : Arrive(r, s, p)
           \/ Judge(r) \/ Deny(r) \/ Answer(r) \/ DatabaseFails(r)
  BY <1>6 DEF Arrive, Judge, Deny, Answer, DatabaseFails
<1>7. CASE \/ \E id \in Accounts, p \in Passwords : RegisterSubmit(r, id, p)
           \/ RegisterJudge(r) \/ RegisterExists(r)
  BY <1>7 DEF RegisterSubmit, RegisterJudge, RegisterExists
<1>8. CASE \/ \E id \in Accounts, p \in Passwords : LoginFind(r, id, p)
           \/ LoginAdmin(r) \/ LoginKey(r) \/ LoginMember(r) \/ LoginSetKey(r)
           \/ LoginFails(r) \/ Logout(r)
  BY <1>8 DEF LoginFind, LoginAdmin, LoginKey, LoginMember, LoginSetKey, LoginFails, Logout
<1>. QED  BY <1>1, <1>2, <1>3, <1>4, <1>5, <1>6, <1>7, <1>8
          DEF Step, OssanUpdate, PersonalUpdate

LEMMA StoresAt ==
  ASSUME TypeOK, NEW row, Stores(row)
  PROVE  /\ nextKey \in Keys /\ nextKey' = nextKey + 1
         /\ rows'[nextKey] = row
         /\ \A k \in Keys : k # nextKey => rows'[k] = rows[k]
BY LoginAssumption DEF TypeOK, Stores, AddRow, Keys

LEMMA EditedAt ==
  ASSUME TypeOK, NEW k \in Keys, Edited(k)
  PROVE  /\ \A j \in Keys : j # k => rows'[j] = rows[j]
         /\ rows'[k] \in Row /\ rows'[k].admin = rows[k].admin
         /\ rows'[k].checked = rows[k].checked
         /\ ~ rows'[k].moved => ~ rows[k].moved /\ rows'[k].account = rows[k].account
         /\ rows'[k].password \in {rows[k].password} \cup {Plain(p) : p \in Passwords}
<1>1. rows[k] \in Row
  BY DEF TypeOK, Edited
<1>2. PICK id \in Accounts, stored \in {rows[k].password} \cup {Plain(p) : p \in Passwords} :
        rows' = [rows EXCEPT ![k] = Saved(rows[k], id, stored)]
  BY DEF Edited
<1> DEFINE saved == Saved(rows[k], id, stored)
<1>3. /\ saved \in Row
      /\ saved.account = id /\ saved.password = stored /\ saved.admin = rows[k].admin
      /\ saved.checked = rows[k].checked
      /\ ~ saved.moved => ~ rows[k].moved /\ id = rows[k].account
  BY <1>1, SavedRow
<1>4. rows'[k] = saved /\ \A j \in Keys : j # k => rows'[j] = rows[j]
  BY <1>2 DEF TypeOK
<1> HIDE DEF saved
<1>. QED  BY <1>2, <1>3, <1>4

Numbered == \A k \in Keys : rows[k] # Null => k < nextKey

(* Numbers are given once, and a row that has the account it was stored    *)
(* with had it before. *)
RowsKeep ==
  /\ nextKey <= nextKey'
  /\ \A k \in Keys :
       (k < nextKey /\ Stands(k)')
       => /\ Stands(k)
          /\ rows'[k].account = rows[k].account
          /\ rows'[k].admin = rows[k].admin
          /\ rows'[k].checked = rows[k].checked

(* The row that is new is the next, and if RegisterServletMP has stored it,*)
(* with the account it looked up then. *)
NextRow(r) ==
  \A k \in Keys :
    (nextKey <= k /\ rows'[k] # Null)
    => /\ k = nextKey
       /\ rows'[k].checked # Null
          => /\ pc[r] = "reg_save"
             /\ rows'[k].account = loc[r].account
             /\ rows'[k].checked = loc[r].checked

LEMMA RowsStep ==
  ASSUME Typed, Numbered, NEW r \in Requests, Step(r)
  PROVE  Numbered' /\ RowsKeep /\ NextRow(r)
<1>n. nextKey \in Nat /\ Keys \subseteq Nat
  BY LoginAssumption DEF Typed, TypeOK, Keys
<1>1. CASE UNCHANGED table
  <2>1. Numbered' /\ RowsKeep
    BY <1>n, <1>1 DEF table, Numbered, RowsKeep, Stands
  <2>2. NextRow(r)
    BY <1>n, <1>1 DEF table, Numbered, NextRow
  <2>. QED  BY <2>1, <2>2
<1>2. ASSUME NEW row, Stores(row),
             row.checked # Null => /\ pc[r] = "reg_save"
                                   /\ row.account = loc[r].account
                                   /\ row.checked = loc[r].checked
      PROVE  Numbered' /\ RowsKeep /\ NextRow(r)
  <2>1. /\ nextKey \in Keys /\ nextKey' = nextKey + 1
        /\ rows'[nextKey] = row
        /\ \A k \in Keys : k # nextKey => rows'[k] = rows[k]
    BY <1>2, StoresAt DEF Typed
  <2>2. Numbered'
    BY <1>n, <2>1 DEF Numbered
  <2>3. RowsKeep
    BY <1>n, <2>1 DEF RowsKeep, Stands
  <2>4. NextRow(r)
    BY <1>2, <1>n, <2>1 DEF Numbered, NextRow
  <2>. QED  BY <2>2, <2>3, <2>4
<1>3. ASSUME NEW k \in Keys, Edited(k)
      PROVE  Numbered' /\ RowsKeep /\ NextRow(r)
  <2>1. /\ rows[k] # Null /\ nextKey' = nextKey
        /\ \A j \in Keys : j # k => rows'[j] = rows[j]
        /\ rows'[k].admin = rows[k].admin /\ rows'[k].checked = rows[k].checked
        /\ ~ rows'[k].moved => ~ rows[k].moved /\ rows'[k].account = rows[k].account
    BY <1>3, EditedAt DEF Typed, Edited
  <2>2. Numbered'
    BY <1>n, <2>1 DEF Numbered
  <2>3. RowsKeep
    BY <1>n, <2>1 DEF RowsKeep, Stands
  <2>4. NextRow(r)
    <3>1. \A j \in Keys : rows'[j] # Null => j < nextKey
      BY <2>1 DEF Numbered
    <3>2. \A j \in Keys : j < nextKey => ~ (nextKey <= j)
      BY <1>n
    <3>. QED  BY <3>1, <3>2 DEF NextRow
  <2>. QED  BY <2>2, <2>3, <2>4
<1>4. ASSUME NEW k \in Keys, Deleted(k)
      PROVE  Numbered' /\ RowsKeep /\ NextRow(r)
  <2>1. /\ rows'[k] = Null /\ nextKey' = nextKey
        /\ \A j \in Keys : j # k => rows'[j] = rows[j]
    BY <1>4 DEF Deleted, Typed, TypeOK
  <2>2. Numbered'
    BY <1>n, <2>1 DEF Numbered
  <2>3. RowsKeep
    BY <1>n, <2>1 DEF RowsKeep, Stands
  <2>4. NextRow(r)
    <3>1. \A j \in Keys : rows'[j] # Null => j < nextKey
      BY <2>1 DEF Numbered
    <3>2. \A j \in Keys : j < nextKey => ~ (nextKey <= j)
      BY <1>n
    <3>. QED  BY <3>1, <3>2 DEF NextRow
  <2>. QED  BY <2>2, <2>3, <2>4
<1>5. CASE RegisterSave(r) /\ Stores(RegisteredRow(r))
  <2>1. /\ pc[r] = "reg_save"
        /\ RegisteredRow(r).account = loc[r].account
        /\ RegisteredRow(r).checked = loc[r].checked
    BY <1>5 DEF RegisterSave, RegisteredRow, NewRow
  <2>. QED  BY <1>2, <1>5, <2>1
<1>6. ASSUME NEW id \in Accounts, NEW p \in Passwords, Stores(NewRow(id, Plain(p), Null))
      PROVE  Numbered' /\ RowsKeep /\ NextRow(r)
  <2>1. NewRow(id, Plain(p), Null).checked = Null
    BY DEF NewRow
  <2>. QED  BY <1>2, <1>6, <2>1
<1>. QED  BY <1>1, <1>3, <1>4, <1>5, <1>6, RowSteps

LEMMA NumberedInit == Init => Numbered
<1>1. ASSUME Init, NEW k \in Keys, rows[k] # Null
      PROVE  k < nextKey
  <2>1. k = 1
    BY <1>1 DEF Init
  <2>. QED  BY <1>1, <2>1 DEF Init
<1>. QED  BY <1>1 DEF Numbered

-----------------------------------------------------------------------------
(* Registrations of one account *)

(* A registration gets to its insertion by idExists alone, and leaves it   *)
(* by the insertion or a failure. *)
LEMMA ToSave ==
  ASSUME Typed, NEW r \in Requests, Step(r)
  PROVE  /\ pc'[r] = "reg_save"
            => /\ RegisterExists(r) /\ ~ Taken(loc[r].account)
               /\ loc'[r].account = loc[r].account /\ loc'[r].checked = nextKey
         /\ pc[r] = "reg_save"
            => (RegisterSave(r) \/ DatabaseFails(r)) /\ pc'[r] = "idle"
<1>1. pc \in [Requests -> Places] /\ loc \in [Requests -> Locals] /\ loc[r] \in Locals
  BY DEF Typed, TypeOK
<1>2. CASE \/ \E s \in Sessions, p \in Pages : Arrive(r, s, p)
           \/ Judge(r) \/ Deny(r) \/ Answer(r) \/ DatabaseFails(r)
  BY <1>1, <1>2 DEF Arrive, Judge, Deny, Answer, DatabaseFails, Respond
<1>3. CASE RegisterExists(r)
  BY <1>1, <1>3 DEF RegisterExists, Respond, Locals
<1>4. CASE \/ \E id \in Accounts, p \in Passwords : RegisterSubmit(r, id, p)
           \/ RegisterJudge(r) \/ RegisterSave(r)
  BY <1>1, <1>4 DEF RegisterSubmit, RegisterJudge, RegisterSave, Respond, At
<1>5. CASE \/ \E id \in Accounts, p \in Passwords : LoginFind(r, id, p)
           \/ LoginAdmin(r) \/ LoginKey(r) \/ LoginMember(r) \/ LoginSetKey(r)
           \/ LoginFails(r) \/ Logout(r)
  BY <1>1, <1>5 DEF LoginFind, LoginAdmin, LoginKey, LoginMember, LoginSetKey,
                    LoginFails, Logout, Respond, Goto, At
<1>6. CASE \/ \E id \in Accounts, p \in Passwords : OssanInsert(r, id, p)
           \/ \E k \in Keys : OssanUpdate(r, k) \/ PersonalUpdate(r, k) \/ OssanDelete(r, k)
  BY <1>1, <1>6 DEF OssanInsert, OssanUpdate, PersonalUpdate, SaveForm, OssanDelete,
                    Respond, At
<1>. QED  BY <1>2, <1>3, <1>4, <1>5, <1>6 DEF Step

(* What a registration was told still holds of the rows that were there.   *)
ToldInv ==
  \A r \in Requests :
    pc[r] = "reg_save"
    => /\ loc[r].checked <= nextKey
       /\ \A j \in Keys : (j < loc[r].checked /\ Stands(j))
                          => rows[j].account # loc[r].account

CheckedInv ==
  /\ Numbered
  /\ ToldInv
  /\ \A k \in Keys : (Stands(k) /\ rows[k].checked # Null) => rows[k].checked <= k
  /\ DuplicatesOverlap

LEMMA CheckedStep ==
  ASSUME Typed, Typed', CheckedInv, NEW r \in Requests, Step(r)
  PROVE  CheckedInv'
<1>n. nextKey \in Nat /\ nextKey' \in Nat /\ Keys \subseteq Nat
  BY LoginAssumption DEF Typed, TypeOK, Keys
<1>k. Numbered' /\ RowsKeep /\ NextRow(r)
  BY RowsStep DEF CheckedInv
<1>c. ASSUME NEW k \in Keys, Stands(k)
      PROVE  rows[k].checked \in Nat \cup {Null} /\ k < nextKey
  BY <1>c DEF Stands, Typed, TypeOK, Row, CheckedInv, Numbered
<1>d. ASSUME NEW k \in Keys, Stands(k)'
      PROVE  rows'[k].checked \in Nat \cup {Null}
  BY <1>d DEF Stands, Typed, TypeOK, Row
<1>1. ToldInv'
  <2> SUFFICES ASSUME NEW u \in Requests, pc'[u] = "reg_save"
               PROVE  /\ loc'[u].checked <= nextKey'
                      /\ \A j \in Keys : (j < loc'[u].checked /\ Stands(j)')
                                        => rows'[j].account # loc'[u].account
    BY DEF ToldInv
  <2>1. CASE u = r
    <3>1. /\ UNCHANGED <<rows, nextKey>> /\ ~ Taken(loc[r].account)
          /\ loc'[r].account = loc[r].account /\ loc'[r].checked = nextKey
      BY <2>1, ToSave DEF RegisterExists, table
    <3>. QED  BY <1>n, <2>1, <3>1 DEF Taken, Stands
  <2>2. CASE u # r
    <3>1. pc[u] = "reg_save" /\ loc'[u] = loc[u]
      BY <2>2, OneMoves
    <3>2. loc[u].checked \in Nat /\ loc[u].checked <= nextKey
      BY <3>1 DEF Typed, Fits, CheckedInv, ToldInv
    <3>3. ASSUME NEW j \in Keys, j < loc[u].checked, Stands(j)'
          PROVE  rows'[j].account # loc[u].account
      <4>1. j < nextKey
        BY <1>n, <3>2, <3>3
      <4>. QED  BY <1>k, <3>1, <3>3, <4>1 DEF RowsKeep, CheckedInv, ToldInv
    <3>4. loc[u].checked <= nextKey'
      BY <1>n, <1>k, <3>2 DEF RowsKeep
    <3>. QED  BY <3>1, <3>3, <3>4
  <2>. QED  BY <2>1, <2>2
<1>2. ASSUME NEW k \in Keys, Stands(k)', rows'[k].checked # Null
      PROVE  /\ rows'[k].checked <= k
             /\ \A j \in Keys :
                  (Stands(j)' /\ rows'[j].account = rows'[k].account)
                  => rows'[k].checked <= j
  <2>1. CASE k < nextKey
    <3>1. /\ Stands(k) /\ rows'[k].account = rows[k].account
          /\ rows'[k].checked = rows[k].checked
      BY <1>2, <1>k, <2>1 DEF RowsKeep
    <3>2. rows[k].checked \in Nat /\ rows[k].checked <= k
      BY <1>2, <1>c, <3>1 DEF CheckedInv
    <3>3. ASSUME NEW j \in Keys, Stands(j)', rows'[j].account = rows'[k].account
          PROVE  rows[k].checked <= j
      <4>1. CASE j < nextKey
        <5>1. Stands(j) /\ rows'[j].account = rows[j].account
          BY <1>k, <3>3, <4>1 DEF RowsKeep
        <5>. QED  BY <1>2, <3>1, <3>3, <5>1 DEF CheckedInv, DuplicatesOverlap
      <4>2. CASE nextKey <= j
        BY <1>n, <2>1, <3>2, <4>2
      <4>3. j < nextKey \/ nextKey <= j
        BY <1>n
      <4>. QED  BY <4>1, <4>2, <4>3
    <3>. QED  BY <3>1, <3>2, <3>3
  <2>2. CASE nextKey <= k
    <3>1. /\ k = nextKey /\ pc[r] = "reg_save"
          /\ rows'[k].account = loc[r].account
          /\ rows'[k].checked = loc[r].checked
      BY <1>2, <1>k, <2>2 DEF NextRow, Stands
    <3>2. loc[r].checked \in Nat /\ loc[r].checked <= nextKey
      BY <3>1 DEF Typed, Fits, CheckedInv, ToldInv
    <3>3. ASSUME NEW j \in Keys, Stands(j)', rows'[j].account = rows'[k].account
          PROVE  loc[r].checked <= j
      <4>1. CASE j < nextKey
        <5>1. Stands(j) /\ rows[j].account = loc[r].account
          BY <1>k, <3>1, <3>3, <4>1 DEF RowsKeep
        <5>2. ~ (j < loc[r].checked)
          BY <3>1, <5>1 DEF CheckedInv, ToldInv
        <5>. QED  BY <1>n, <3>2, <5>2
      <4>2. CASE nextKey <= j
        BY <1>n, <3>2, <4>2
      <4>. QED  BY <1>n, <4>1, <4>2
    <3>. QED  BY <3>1, <3>2, <3>3
  <2>. QED  BY <1>n, <2>1, <2>2
<1>3. DuplicatesOverlap'
  BY <1>2 DEF DuplicatesOverlap
<1>. QED  BY <1>1, <1>2, <1>3, <1>k DEF CheckedInv

(* Two requests enter one account only while they overlap, whatever forms  *)
(* are saved and rows deleted meanwhile.                                   *)
THEOREM OverlapOnly == Spec => []DuplicatesOverlap
<1>1. Init => CheckedInv
  <2> SUFFICES ASSUME Init
               PROVE  CheckedInv
    OBVIOUS
  <2>1. ASSUME NEW k \in Keys, Stands(k)
        PROVE  rows[k].checked = Null
    <3>1. rows[k] = [NewRow(AdminAccount, Hashed(AdminPassword), Null) EXCEPT !.admin = TRUE]
      BY <2>1 DEF Init, Stands
    <3>. QED  BY <3>1 DEF NewRow
  <2>2. ToldInv
    BY DEF Init, ToldInv
  <2>. QED  BY <2>1, <2>2, NumberedInit DEF CheckedInv, DuplicatesOverlap
<1>2. Typed /\ Typed' /\ CheckedInv /\ [Next]_vars => CheckedInv'
  <2> SUFFICES ASSUME Typed, Typed', CheckedInv, [Next]_vars
               PROVE  CheckedInv'
    OBVIOUS
  <2>1. ASSUME NEW r \in Requests, Step(r)
        PROVE  CheckedInv'
    BY <2>1, CheckedStep
  <2>2. CASE (\E s \in Sessions : Expire(s)) \/ UNCHANGED vars
    BY <2>2 DEF Expire, vars, table, CheckedInv, Numbered, ToldInv, Stands, DuplicatesOverlap
  <2>. QED  BY <2>1, <2>2 DEF Next
<1>3. CheckedInv => DuplicatesOverlap
  BY DEF CheckedInv
<1>. QED  BY <1>1, <1>2, <1>3, TypedInvariance, PTL DEF Spec

-----------------------------------------------------------------------------
(* The attributes a login leaves *)

LoginAlone ==
  \A q, r \in Requests :
    (pc[q] \in LoggingIn /\ pc[r] \in LoggingIn /\ loc[q].sess = loc[r].sess) => q = r

(* What a login knows of the rows its two queries have found, while they   *)
(* stand, and of the bean it has stored *)
Known(r) ==
  /\ pc[r] \in {"login_key", "login_member", "login_set"}
     => /\ loc[r].found < nextKey
        /\ Stands(loc[r].found) => /\ rows[loc[r].found].account = loc[r].account
                                  /\ ~ rows[loc[r].found].admin
  /\ pc[r] \in {"login_member", "login_set"}
     => /\ loc[r].key < nextKey
        /\ (loc[r].key # 0 /\ Stands(loc[r].key))
           => rows[loc[r].key].account = loc[r].account
        /\ Stands(loc[r].found) => loc[r].key # 0
  /\ pc[r] = "login_set"
     => /\ life[loc[r].sess] # "new"
        /\ life[loc[r].sess] = "live"
           => /\ attr[loc[r].sess].member = loc[r].found
              /\ attr[loc[r].sess].account = loc[r].account

Setting(s) == \E r \in Requests : pc[r] = "login_set" /\ loc[r].sess = s

(* The attributes of a session that no login is changing *)
Agreed(s) ==
  (attr[s].member # Null /\ ~ Setting(s))
  => /\ attr[s].member < nextKey
     /\ attr[s].key \in Nat /\ attr[s].key < nextKey
     /\ Stands(attr[s].member) => /\ rows[attr[s].member].account = attr[s].account
                                 /\ attr[s].key # 0
     /\ (attr[s].key # 0 /\ Stands(attr[s].key))
        => rows[attr[s].key].account = attr[s].account

Ended(s) == life[s] # "live" => attr[s].member = Null

KeysInv ==
  /\ LoginAlone
  /\ Numbered
  /\ \A r \in Requests : Known(r)
  /\ \A s \in Sessions : Ended(s) /\ Agreed(s)

(* What becomes of a session in a step that logs nobody in *)
Over(s) == life'[s] = "dead" /\ attr'[s].member = Null
SameMember(s) ==
  /\ attr'[s].member = attr[s].member
  /\ attr'[s].account = attr[s].account
  /\ attr'[s].key = attr[s].key
  /\ life'[s] = life[s] \/ (life[s] = "new" /\ life'[s] = "live")

(* What a request knows, when it and its session stay as they are *)
LEMMA KnownStays ==
  ASSUME Typed, RowsKeep, nextKey' \in Nat,
         NEW u \in Requests, Known(u), pc'[u] = pc[u], loc'[u] = loc[u],
         pc[u] = "login_set" => Over(loc[u].sess) \/ SameMember(loc[u].sess)
  PROVE  Known(u)'
<1>n. nextKey \in Nat /\ nextKey <= nextKey' /\ nextKey <= MaxKey + 1 /\ MaxKey \in Nat
  BY LoginAssumption DEF Typed, TypeOK, RowsKeep
<1>1. ASSUME pc[u] \in {"login_key", "login_member", "login_set"}
      PROVE  /\ loc[u].found \in Keys /\ loc[u].found < nextKey
             /\ loc[u].found < nextKey'
             /\ Stands(loc[u].found)' => /\ Stands(loc[u].found)
                                        /\ rows'[loc[u].found].account = loc[u].account
                                        /\ ~ rows'[loc[u].found].admin
  <2>1. loc[u].found \in Keys /\ loc[u].found < nextKey
    BY <1>1 DEF Typed, Fits, Known
  <2>2. loc[u].found < nextKey'
    BY <1>n, <2>1 DEF Keys
  <2>3. Stands(loc[u].found)'
        => /\ Stands(loc[u].found)
           /\ rows'[loc[u].found].account = rows[loc[u].found].account
           /\ rows'[loc[u].found].admin = rows[loc[u].found].admin
    <3>1. \A k \in Keys :
            (k < nextKey /\ Stands(k)')
            => /\ Stands(k) /\ rows'[k].account = rows[k].account
               /\ rows'[k].admin = rows[k].admin
      BY DEF RowsKeep
    <3>2. loc[u].found = loc[u].found'
      BY DEF Stands
    <3>. QED  BY <2>1, <3>1, <3>2 DEF Stands
  <2>. QED  BY <1>1, <2>1, <2>2, <2>3 DEF Known
<1>2. ASSUME pc[u] \in {"login_member", "login_set"}
      PROVE  /\ loc[u].key < nextKey'
             /\ (loc[u].key # 0 /\ rows'[loc[u].key] # Null /\ ~ rows'[loc[u].key].moved)
                => rows'[loc[u].key].account = loc[u].account
  <2>1. loc[u].key \in Nat /\ loc[u].key < nextKey
    BY <1>2 DEF Typed, Fits, Known
  <2>2. loc[u].key # 0 => loc[u].key \in Keys
    BY <1>n, <2>1 DEF Keys
  <2>3. loc[u].key < nextKey'
    BY <1>n, <2>1
  <2>. QED  BY <1>2, <2>1, <2>2, <2>3 DEF Known, RowsKeep, Stands
<1>3. pc[u] = "login_set"
      => /\ life'[loc[u].sess] # "new"
         /\ life'[loc[u].sess] = "live"
            => /\ attr'[loc[u].sess].member = loc[u].found
               /\ attr'[loc[u].sess].account = loc[u].account
  BY DEF Known, Over, SameMember
<1>. QED  BY <1>1, <1>2, <1>3 DEF Known, Stands

(* The attributes of a session, when no login changes them *)
LEMMA AgreementStays ==
  ASSUME Typed, RowsKeep, nextKey' \in Nat, NEW s \in Sessions, Ended(s), Agreed(s),
         Over(s) \/ (SameMember(s) /\ (Setting(s) => Setting(s)'))
  PROVE  Ended(s)' /\ Agreed(s)'
<1>n. nextKey \in Nat /\ nextKey <= nextKey' /\ nextKey <= MaxKey + 1 /\ MaxKey \in Nat
  BY LoginAssumption DEF Typed, TypeOK, RowsKeep
<1>1. CASE Over(s)
  BY <1>1 DEF Over, Ended, Agreed
<1>2. CASE SameMember(s) /\ (Setting(s) => Setting(s)')
  <2>1. Ended(s)'
    BY <1>2 DEF SameMember, Ended
  <2>2. ASSUME attr[s].member # Null, ~ Setting(s)
        PROVE  /\ attr[s].member \in Keys /\ attr[s].member < nextKey'
               /\ attr[s].key \in Nat /\ attr[s].key < nextKey'
               /\ attr[s].key # 0 => attr[s].key \in Keys
    <3>1. /\ attr[s].member \in Keys /\ attr[s].member < nextKey
          /\ attr[s].key \in Nat /\ attr[s].key < nextKey
      BY <2>2 DEF Typed, TypeOK, Attributes, Agreed
    <3>2. attr[s].key # 0 => attr[s].key \in Keys
      BY <1>n, <3>1 DEF Keys
    <3>3. attr[s].member < nextKey' /\ attr[s].key < nextKey'
      BY <1>n, <3>1 DEF Keys
    <3>. QED  BY <3>1, <3>2, <3>3
  <2>3. ASSUME attr[s].member # Null, ~ Setting(s), NEW k \in Keys, k < nextKey,
               rows'[k] # Null /\ ~ rows'[k].moved
        PROVE  Stands(k) /\ rows'[k].account = rows[k].account
    BY <2>3 DEF RowsKeep, Stands
  <2>4. Agreed(s)'
    BY <1>2, <2>2, <2>3 DEF SameMember, Agreed, Stands
  <2>. QED  BY <2>1, <2>4
<1>. QED  BY <1>1, <1>2

(* Beyond LoginServletWithAdmin nobody is logging in, and the members'     *)
(* attributes are only forgotten. *)
LEMMA LoginFrame ==
  ASSUME Typed, NEW r \in Requests, Step(r),
         ~ (\E id \in Accounts, p \in Passwords : LoginFind(r, id, p)),
         ~ LoginKey(r), ~ LoginMember(r), ~ LoginSetKey(r), ~ LoginFails(r)
  PROVE  /\ pc[r] # "login_set" /\ pc'[r] \notin LoggingIn
         /\ \A s \in Sessions : Over(s) \/ SameMember(s)
<1> USE DEF LoggingIn
<1>1. pc \in [Requests -> Places] /\ attr \in [Sessions -> Attributes]
      /\ life \in [Sessions -> {"new", "live", "dead"}]
  BY DEF Typed, TypeOK
<1>2. ASSUME NEW s \in Sessions, NEW p \in Pages, Arrive(r, s, p)
      PROVE  /\ pc[r] # "login_set" /\ pc'[r] \notin LoggingIn
             /\ \A u \in Sessions : SameMember(u)
  <2>1. /\ pc[r] # "login_set" /\ pc'[r] \notin LoggingIn /\ UNCHANGED attr
        /\ \A u \in Sessions : u # s => life'[u] = life[u]
        /\ life[s] # "dead" /\ life'[s] = "live"
    BY <1>1, <1>2 DEF Arrive
  <2>2. life[s] \in {"new", "live"}
    BY <1>1, <2>1
  <2>. QED  BY <2>1, <2>2 DEF SameMember
<1>3. CASE Judge(r) \/ Answer(r) \/ DatabaseFails(r)
  BY <1>1, <1>3 DEF Judge, Answer, DatabaseFails, Respond, SameMember
<1>4. CASE Deny(r) \/ LoginAdmin(r)
  <2>1. /\ pc[r] # "login_set" /\ pc'[r] \notin LoggingIn /\ UNCHANGED life
    BY <1>1, <1>4 DEF Deny, LoginAdmin, Respond
  <2>2. ASSUME NEW s \in Sessions
        PROVE  /\ attr'[s].member = attr[s].member
               /\ attr'[s].account = attr[s].account
               /\ attr'[s].key = attr[s].key
    <3>1. attr[s] \in Attributes
      BY <1>1
    <3>2. CASE Deny(r)
      BY <1>1, <3>1, <3>2 DEF Deny, Attributes
    <3>3. CASE LoginAdmin(r)
      BY <1>1, <3>1, <3>3 DEF LoginAdmin, Attributes
    <3>. QED  BY <1>4, <3>2, <3>3
  <2>. QED  BY <2>1, <2>2 DEF SameMember
<1>5. CASE \/ \E id \in Accounts, p \in Passwords : RegisterSubmit(r, id, p)
           \/ RegisterJudge(r) \/ RegisterExists(r) \/ RegisterSave(r)
  BY <1>1, <1>5 DEF RegisterSubmit, RegisterJudge, RegisterExists, RegisterSave, Respond, At,
                    SameMember
<1>6. CASE Logout(r)
  <2>1. /\ pc[r] # "login_set" /\ pc'[r] \notin LoggingIn
        /\ \A u \in Sessions : u # loc[r].sess => life'[u] = life[u] /\ attr'[u] = attr[u]
    BY <1>1, <1>6 DEF Logout, Respond, At
  <2>2. loc[r].sess \in Sessions => Over(loc[r].sess)
    BY <1>1, <1>6 DEF Logout, NoAttributes, Over
  <2>. QED  BY <2>1, <2>2 DEF SameMember
<1>7. CASE \/ \E id \in Accounts, p \in Passwords : OssanInsert(r, id, p)
           \/ \E k \in Keys : OssanUpdate(r, k) \/ PersonalUpdate(r, k) \/ OssanDelete(r, k)
  BY <1>1, <1>7 DEF OssanInsert, OssanUpdate, PersonalUpdate, SaveForm, OssanDelete,
                    Respond, At, SameMember
<1>. QED  BY <1>2, <1>3, <1>4, <1>5, <1>6, <1>7 DEF Step

(* Two logins of one session do not overlap. *)
LEMMA LoginsWait ==
  ASSUME Typed, Waits, LoginAlone, [Next]_vars
  PROVE  LoginAlone'
<1>1. ASSUME NEW r \in Requests, NEW id \in Accounts, NEW p \in Passwords,
             LoginFind(r, id, p)
      PROVE  LoginAlone'
  <2>1. \A q \in Requests : loc[q].sess = loc[r].sess => pc[q] \notin LoggingIn
    BY <1>1 DEF LoginFind
  <2>2. Step(r)
    BY <1>1 DEF Step
  <2>3. \A q \in Requests : q # r => pc'[q] = pc[q] /\ loc'[q] = loc[q]
    BY <2>2, OneMoves
  <2>4. pc'[r] \in LoggingIn => loc'[r].sess = loc[r].sess
    <3>1. loc[r] \in Locals
      BY DEF Typed, TypeOK
    <3>. QED  BY <1>1, <3>1 DEF LoginFind, Respond, Typed, TypeOK, Locals, LoggingIn
  <2>. QED  BY <2>1, <2>3, <2>4 DEF LoginAlone
<1>2. ASSUME NEW r \in Requests,
             LoginKey(r) \/ LoginMember(r) \/ LoginSetKey(r) \/ LoginFails(r)
      PROVE  LoginAlone'
  <2>1. Step(r)
    BY <1>2 DEF Step
  <2>2. \A q \in Requests : q # r => pc'[q] = pc[q] /\ loc'[q] = loc[q]
    BY <2>1, OneMoves
  <2>3. pc[r] \in LoggingIn /\ (pc'[r] \in LoggingIn => loc'[r].sess = loc[r].sess)
    <3>1. loc[r] \in Locals
      BY DEF Typed, TypeOK
    <3>. QED  BY <1>2, <3>1 DEF LoginKey, LoginMember, LoginSetKey, LoginFails, Goto,
                    Respond, Typed, TypeOK, Locals, LoggingIn
  <2>. QED  BY <2>2, <2>3 DEF LoginAlone
<1>3. ASSUME NEW r \in Requests, Step(r),
             ~ (\E id \in Accounts, p \in Passwords : LoginFind(r, id, p)),
             ~ LoginKey(r), ~ LoginMember(r), ~ LoginSetKey(r), ~ LoginFails(r)
      PROVE  LoginAlone'
  <2>1. /\ pc'[r] \notin LoggingIn
        /\ \A q \in Requests : q # r => pc'[q] = pc[q] /\ loc'[q] = loc[q]
    BY <1>3, LoginFrame, OneMoves
  <2>. QED  BY <2>1 DEF LoginAlone
<1>4. CASE (\E s \in Sessions : Expire(s)) \/ UNCHANGED vars
  BY <1>4 DEF Expire, vars, LoginAlone
<1>. QED  BY <1>1, <1>2, <1>3, <1>4 DEF Next

(* A step that changes the attributes of its own session t at most         *)
LEMMA SessionStep ==
  ASSUME Typed, KeysInv, RowsKeep, nextKey' \in Nat, NEW r \in Requests, Step(r),
         NEW t \in Sessions, loc[r].sess = t, UNCHANGED life, Known(r)',
         \A s \in Sessions : s # t => attr'[s] = attr[s],
         pc[r] \in LoggingIn \/ SameMember(t),
         \/ Ended(t)' /\ Agreed(t)'
         \/ SameMember(t) /\ (pc[r] # "login_set" \/ attr[t].member = Null)
  PROVE  /\ \A u \in Requests : Known(u)'
         /\ \A s \in Sessions : Ended(s)' /\ Agreed(s)'
<1>o. \A u \in Requests : u # r => pc'[u] = pc[u] /\ loc'[u] = loc[u]
  BY OneMoves
<1>1. \A s \in Sessions : s # t => SameMember(s)
  BY DEF SameMember
<1>2. ASSUME NEW u \in Requests, u # r
      PROVE  Known(u)'
  <2>1. ASSUME pc[u] = "login_set"
        PROVE  SameMember(loc[u].sess)
    <3>1. loc[u].sess \in Sessions
      BY <2>1 DEF Typed, Fits
    <3>2. CASE loc[u].sess = t
      <4>1. pc[r] \notin LoggingIn
        BY <1>2, <2>1, <3>2 DEF KeysInv, LoginAlone, LoggingIn
      <4>. QED  BY <3>2, <4>1
    <3>. QED  BY <1>1, <3>1, <3>2
  <2>2. Known(u)
    BY DEF KeysInv
  <2>. QED  BY <1>o, <1>2, <2>1, <2>2, KnownStays
<1>3. ASSUME NEW s \in Sessions, s # t
      PROVE  Ended(s)' /\ Agreed(s)'
  <2>1. Setting(s) => Setting(s)'
    BY <1>o, <1>3 DEF Setting
  <2>. QED  BY <1>1, <1>3, <2>1, AgreementStays DEF KeysInv
<1>4. Ended(t)' /\ Agreed(t)'
  <2>1. CASE SameMember(t) /\ pc[r] # "login_set"
    <3>1. Setting(t) => Setting(t)'
      BY <1>o, <2>1 DEF Setting
    <3>. QED  BY <2>1, <3>1, AgreementStays DEF KeysInv
  <2>2. CASE SameMember(t) /\ attr[t].member = Null
    BY <2>2 DEF SameMember, Ended, Agreed
  <2>. QED  BY <2>1, <2>2
<1>5. \A u \in Requests : Known(u)'
  BY <1>2
<1>. QED  BY <1>3, <1>4, <1>5

(* The steps of LoginServletWithAdmin *)
LEMMA LoginAgrees ==
  ASSUME Typed, KeysInv, RowsKeep, nextKey' \in Nat, NEW r \in Requests, Step(r),
         \/ \E id \in Accounts, p \in Passwords : LoginFind(r, id, p)
         \/ LoginKey(r) \/ LoginMember(r) \/ LoginSetKey(r) \/ LoginFails(r)
  PROVE  /\ \A u \in Requests : Known(u)'
         /\ \A s \in Sessions : Ended(s)' /\ Agreed(s)'
<1> USE DEF table
<1>n. nextKey \in Nat /\ 0 < nextKey
  BY LoginAssumption DEF Typed, TypeOK
<1>l. /\ loc[r] \in Locals /\ Fits(pc[r], loc[r]) /\ Known(r)
      /\ loc \in [Requests -> Locals] /\ pc \in [Requests -> Places]
  BY DEF Typed, TypeOK, KeysInv
<1>s. loc[r].sess \in Sessions
  <2>1. pc[r] # "idle"
    BY DEF LoginFind, At, LoginKey, LoginMember, LoginSetKey, LoginFails, Goto
  <2>. QED  BY <2>1 DEF Typed, Fits
<1>t. PICK t \in Sessions : loc[r].sess = t
  BY <1>s
<1>1. ASSUME NEW id \in Accounts, NEW p \in Passwords, LoginFind(r, id, p)
      PROVE  /\ \A u \in Requests : Known(u)'
             /\ \A s \in Sessions : Ended(s)' /\ Agreed(s)'
  <2>1. UNCHANGED <<attr, life, rows, nextKey>> /\ pc[r] # "login_set"
    BY <1>1 DEF LoginFind, At
  <2>2. ASSUME pc'[r] = "login_admin" \/ pc'[r] = "idle"
        PROVE  Known(r)'
    BY <2>2 DEF Known
  <2>3. ASSUME NEW k \in Matching(id, p), AdminMatching(id, p) = {},
               pc' = [pc EXCEPT ![r] = "login_key"],
               loc' = [loc EXCEPT ![r].account = id, ![r].found = k]
        PROVE  Known(r)'
    <3>1. /\ k \in Keys /\ rows[k] # Null /\ rows[k].account = id /\ ~ rows[k].admin
      BY <2>3 DEF Matching, AdminMatching
    <3>2. k < nextKey
      BY <3>1 DEF KeysInv, Numbered
    <3>3. pc'[r] = "login_key" /\ loc'[r].account = id /\ loc'[r].found = k
      BY <1>l, <2>3 DEF Locals
    <3>. QED  BY <2>1, <3>1, <3>2, <3>3 DEF Known, Stands
  <2>4. Known(r)'
    <3>1. \/ pc'[r] = "login_admin" \/ pc'[r] = "idle"
          \/ \E k \in Matching(id, p) :
               /\ AdminMatching(id, p) = {}
               /\ pc' = [pc EXCEPT ![r] = "login_key"]
               /\ loc' = [loc EXCEPT ![r].account = id, ![r].found = k]
      BY <1>1, <1>l DEF LoginFind, Respond
    <3>. QED  BY <2>2, <2>3, <3>1
  <2>5. \A s \in Sessions : SameMember(s)
    BY <2>1 DEF SameMember
  <2>. QED  BY <1>t, <2>1, <2>4, <2>5, SessionStep
<1>2. CASE LoginKey(r)
  <2>1. /\ UNCHANGED <<attr, life, rows, nextKey>> /\ pc[r] = "login_key"
        /\ pc'[r] = "login_member"
    BY <1>2, <1>l DEF LoginKey, Goto
  <2>2. PICK k \in Nat :
          /\ loc' = [loc EXCEPT ![r].key = k]
          /\ k \in OssansNamed(loc[r].account)
             \/ (k = 0 /\ OssansNamed(loc[r].account) = {})
    BY <1>2 DEF LoginKey, OssansNamed, Keys
  <2>3. /\ loc'[r].key = k /\ loc'[r].found = loc[r].found
        /\ loc'[r].account = loc[r].account
    BY <1>l, <2>2 DEF Locals
  <2>4. /\ loc[r].found \in Keys /\ loc[r].found < nextKey
        /\ Stands(loc[r].found) => /\ rows[loc[r].found].account = loc[r].account
                                  /\ ~ rows[loc[r].found].admin
    BY <1>l, <2>1 DEF Fits, Known
  <2>5. /\ k < nextKey
        /\ k # 0 => rows[k].account = loc[r].account
    BY <1>n, <2>2 DEF OssansNamed, KeysInv, Numbered
  <2>6. ASSUME Stands(loc[r].found)
        PROVE  k # 0
    <3>1. loc[r].found \in OssansNamed(loc[r].account)
      BY <2>4, <2>6 DEF OssansNamed, Stands
    <3>. QED  BY <2>2, <3>1 DEF OssansNamed, Keys
  <2>7. Known(r)'
    BY <2>1, <2>3, <2>4, <2>5, <2>6 DEF Known, Stands
  <2>8. \A s \in Sessions : SameMember(s)
    BY <2>1 DEF SameMember
  <2>. QED  BY <1>t, <2>1, <2>7, <2>8, SessionStep
<1>3. CASE LoginMember(r)
  <2>1. /\ UNCHANGED <<loc, life, rows, nextKey>> /\ pc[r] = "login_member"
        /\ pc'[r] = "login_set" /\ life[t] = "live"
        /\ \A u \in Sessions : u # t => attr'[u] = attr[u]
    BY <1>3, <1>l, <1>t DEF LoginMember, Typed, TypeOK
  <2>2. attr'[t].member = loc[r].found /\ attr'[t].account = loc[r].account
    BY <1>3, <1>t DEF LoginMember, Typed, TypeOK, Attributes
  <2>3. Known(r)'
    BY <1>l, <1>t, <2>1, <2>2 DEF Known, Stands
  <2>4. Setting(t)'
    BY <1>t, <2>1 DEF Setting
  <2>5. Ended(t)' /\ Agreed(t)'
    BY <2>1, <2>4 DEF Ended, Agreed
  <2>6. pc[r] \in LoggingIn
    BY <2>1 DEF LoggingIn
  <2>. QED  BY <1>t, <2>1, <2>3, <2>5, <2>6, SessionStep
<1>4. CASE LoginSetKey(r)
  <2>1. /\ UNCHANGED <<life, rows, nextKey>> /\ pc[r] = "login_set"
        /\ pc'[r] = "idle" /\ life[t] = "live"
        /\ \A u \in Sessions : u # t => attr'[u] = attr[u]
    BY <1>4, <1>l, <1>t DEF LoginSetKey, Respond, Typed, TypeOK
  <2>2. /\ attr'[t].member = attr[t].member /\ attr'[t].account = attr[t].account
        /\ attr'[t].key = loc[r].key
    BY <1>4, <1>t DEF LoginSetKey, Typed, TypeOK, Attributes
  <2>3. Known(r)'
    BY <2>1 DEF Known
  <2>4. /\ attr[t].member = loc[r].found /\ attr[t].account = loc[r].account
        /\ loc[r].found < nextKey
        /\ Stands(loc[r].found) => /\ rows[loc[r].found].account = loc[r].account
                                  /\ loc[r].key # 0
        /\ loc[r].key \in Nat /\ loc[r].key < nextKey
        /\ (loc[r].key # 0 /\ Stands(loc[r].key))
           => rows[loc[r].key].account = loc[r].account
    BY <1>l, <1>t, <2>1 DEF Known, Fits
  <2>5. Ended(t)' /\ Agreed(t)'
    BY <2>1, <2>2, <2>4 DEF Ended, Agreed, Stands
  <2>6. pc[r] \in LoggingIn
    BY <2>1 DEF LoggingIn
  <2>. QED  BY <1>t, <2>1, <2>3, <2>5, <2>6, SessionStep
<1>5. CASE LoginFails(r)
  <2>1. UNCHANGED <<attr, life>> /\ pc'[r] = "idle" /\ life[t] # "live"
    BY <1>5, <1>l, <1>t DEF LoginFails, Respond
  <2>2. attr[t].member = Null
    BY <2>1 DEF KeysInv, Ended
  <2>3. Known(r)'
    BY <2>1 DEF Known
  <2>4. \A s \in Sessions : SameMember(s)
    BY <2>1 DEF SameMember
  <2>. QED  BY <1>t, <2>1, <2>2, <2>3, <2>4, SessionStep
<1>. QED  BY <1>1, <1>2, <1>3, <1>4, <1>5

(* The other requests *)
LEMMA OthersAgree ==
  ASSUME Typed, KeysInv, RowsKeep, nextKey' \in Nat, NEW r \in Requests, Step(r),
         ~ (\E id \in Accounts, p \in Passwords : LoginFind(r, id, p)),
         ~ LoginKey(r), ~ LoginMember(r), ~ LoginSetKey(r), ~ LoginFails(r)
  PROVE  /\ \A u \in Requests : Known(u)'
         /\ \A s \in Sessions : Ended(s)' /\ Agreed(s)'
<1>1. /\ pc[r] # "login_set" /\ pc'[r] \notin LoggingIn
      /\ \A s \in Sessions : Over(s) \/ SameMember(s)
  BY LoginFrame
<1>2. \A u \in Requests : u # r => pc'[u] = pc[u] /\ loc'[u] = loc[u]
  BY OneMoves
<1>3. ASSUME NEW u \in Requests
      PROVE  Known(u)'
  <2>1. CASE u = r
    BY <1>1, <2>1 DEF Known, LoggingIn
  <2>2. CASE u # r
    <3>1. Known(u) /\ (pc[u] = "login_set" => loc[u].sess \in Sessions)
      BY DEF KeysInv, Typed, Fits
    <3>. QED  BY <1>1, <1>2, <2>2, <3>1, KnownStays
  <2>. QED  BY <2>1, <2>2
<1>4. ASSUME NEW s \in Sessions
      PROVE  Ended(s)' /\ Agreed(s)'
  <2>1. Setting(s) => Setting(s)'
    BY <1>1, <1>2 DEF Setting
  <2>. QED  BY <1>1, <2>1, AgreementStays DEF KeysInv
<1>5. \A u \in Requests : Known(u)'
  BY <1>3
<1>. QED  BY <1>4, <1>5

LEMMA KeysStep ==
  ASSUME Typed, Typed', Waits, KeysInv, [Next]_vars
  PROVE  KeysInv'
<1>n. nextKey' \in Nat /\ nextKey \in Nat
  BY LoginAssumption DEF Typed, TypeOK
<1>a. LoginAlone'
  BY LoginsWait DEF KeysInv
<1>1. ASSUME NEW r \in Requests, Step(r)
      PROVE  KeysInv'
  <2>1. RowsKeep /\ Numbered'
    BY <1>1, RowsStep DEF KeysInv
  <2>2. /\ \A u \in Requests : Known(u)'
        /\ \A s \in Sessions : Ended(s)' /\ Agreed(s)'
    BY <1>1, <1>n, <2>1, LoginAgrees, OthersAgree
  <2>. QED  BY <1>a, <2>1, <2>2 DEF KeysInv
<1>2. ASSUME NEW x \in Sessions, Expire(x)
      PROVE  KeysInv'
  <2>1. UNCHANGED <<pc, loc, rows, nextKey>>
    BY <1>2 DEF Expire, table
  <2>2. \A s \in Sessions : Over(s) \/ SameMember(s)
    BY <1>2 DEF Expire, Typed, TypeOK, NoAttributes, Over, SameMember
  <2>3. RowsKeep
    BY <1>n, <2>1 DEF RowsKeep, Stands
  <2>4. ASSUME NEW u \in Requests
        PROVE  Known(u)'
    <3>1. Known(u) /\ (pc[u] = "login_set" => loc[u].sess \in Sessions)
      BY DEF KeysInv, Typed, Fits
    <3>. QED  BY <1>n, <2>1, <2>2, <2>3, <3>1, KnownStays
  <2>5. ASSUME NEW s \in Sessions
        PROVE  Ended(s)' /\ Agreed(s)'
    <3>1. Setting(s) => Setting(s)'
      BY <2>1 DEF Setting
    <3>. QED  BY <1>n, <2>2, <2>3, <3>1, AgreementStays DEF KeysInv
  <2>6. \A u \in Requests : Known(u)'
    BY <2>4
  <2>. QED  BY <1>a, <2>1, <2>5, <2>6 DEF KeysInv, Numbered
<1>3. CASE UNCHANGED vars
  BY <1>a, <1>3 DEF vars, KeysInv, Numbered, Known, Stands, Ended, Agreed, Setting
<1>. QED  BY <1>1, <1>2, <1>3 DEF Next

(* The profile and the articles a member maintains have the account he has *)
(* logged in with, if a browser waits for the answer to a login before it  *)
(* logs in again: whatever other requests of its session and of others do, *)
(* whatever accounts are edited, and however many rows have one account.   *)
THEOREM AttributesAgree == Waits => (Spec => []KeysAgree)
<1> SUFFICES ASSUME Waits
             PROVE  Spec => []KeysAgree
  OBVIOUS
<1>1. Init => KeysInv
  <2> SUFFICES ASSUME Init
               PROVE  KeysInv
    OBVIOUS
  <2>1. LoginAlone
    BY DEF Init, LoginAlone, LoggingIn
  <2>2. \A r \in Requests : Known(r)
    BY DEF Init, Known
  <2>3. \A s \in Sessions : Ended(s) /\ Agreed(s)
    BY DEF Init, Ended, Agreed, NoAttributes
  <2>. QED  BY <2>1, <2>2, <2>3, NumberedInit DEF KeysInv
<1>2. Typed /\ Typed' /\ KeysInv /\ [Next]_vars => KeysInv'
  BY KeysStep
<1>3. KeysInv => KeysAgree
  BY DEF KeysInv, KeysAgree, Agreed, Setting
<1>. QED  BY <1>1, <1>2, <1>3, TypedInvariance, PTL DEF Spec

-----------------------------------------------------------------------------
(* The registry.  What the servlets do to rows is what AccountRegistry     *)
(* does to entries.                                                        *)

AdminInv ==
  /\ rows[1] # Null /\ rows[1].admin
  /\ rows[1].account = AdminAccount /\ rows[1].password = Hashed(AdminPassword)

RegistryInv == Numbered /\ AdminInv

LEMMA StoresEntry ==
  ASSUME Typed, Numbered, NEW row, Stores(row)
  PROVE  /\ nextKey \in Keys /\ nextKey' = nextKey + 1
         /\ Entries' = Entries \cup {[account |-> row.account, key |-> nextKey,
                                    password |-> row.password]}
<1>1. /\ nextKey \in Keys /\ nextKey' = nextKey + 1
      /\ rows'[nextKey] = row
      /\ \A k \in Keys : k # nextKey => rows'[k] = rows[k]
  BY StoresAt DEF Typed
<1>2. rows[nextKey] = Null
  BY <1>1 DEF Numbered, Keys
<1>3. row # Null
  BY LoginAssumption DEF Stores
<1>. QED  BY <1>1, <1>2, <1>3 DEF Entries, EntryOf

LEMMA EditedEntry ==
  ASSUME Typed, Typed', NEW k \in Keys, Edited(k)
  PROVE  Entries' = (Entries \ {EntryOf(k)}) \cup {EntryOf(k)'}
<1>1. /\ rows[k] # Null /\ \A j \in Keys : j # k => rows'[j] = rows[j]
      /\ rows' \in [Keys -> Row \cup {Null}]
  BY EditedAt DEF Edited, Typed, TypeOK
<1>2. rows'[k] # Null
  <2>1. rows'[k] \in Row
    BY EditedAt DEF Typed
  <2>. QED  BY <2>1, LoginAssumption
<1>3. ASSUME NEW j \in Keys, j # k
      PROVE  EntryOf(j)' = EntryOf(j) /\ (rows'[j] # Null <=> rows[j] # Null)
  BY <1>1, <1>3 DEF EntryOf
<1>4. ASSUME NEW j \in Keys, j # k
      PROVE  EntryOf(j) # EntryOf(k)
  BY <1>4 DEF EntryOf
<1>5. Entries' = {EntryOf(j)' : j \in {i \in Keys : rows'[i] # Null}}
  BY DEF Entries
<1>6. (Entries \ {EntryOf(k)}) \cup {EntryOf(k)'} \subseteq Entries'
  BY <1>1, <1>2, <1>3, <1>5 DEF Entries
<1>7. Entries' \subseteq (Entries \ {EntryOf(k)}) \cup {EntryOf(k)'}
  BY <1>1, <1>3, <1>4, <1>5 DEF Entries
<1>. QED  BY <1>6, <1>7

LEMMA DeletedEntry ==
  ASSUME Typed, NEW k \in Keys, Deleted(k)
  PROVE  Entries' = Entries \ {EntryOf(k)}
<1>1. /\ rows[k] # Null /\ rows'[k] = Null
      /\ \A j \in Keys : j # k => rows'[j] = rows[j]
  BY DEF Deleted, Typed, TypeOK
<1>. QED  BY <1>1 DEF Entries, EntryOf

LEMMA AdminStays ==
  ASSUME Typed, Numbered, AdminInv, NEW r \in Requests, Step(r)
  PROVE  AdminInv'
<1>k. 1 \in Keys /\ 1 < nextKey /\ nextKey \in Nat
  BY LoginAssumption DEF Keys, Numbered, AdminInv, Typed, TypeOK
<1>1. CASE UNCHANGED table
  BY <1>1 DEF table, AdminInv
<1>2. ASSUME NEW row, Stores(row)
      PROVE  AdminInv'
  BY <1>k, <1>2, StoresAt DEF Typed, AdminInv
<1>3. ASSUME NEW k \in Keys, Edited(k)
      PROVE  AdminInv'
  <2>1. k # 1 /\ \A j \in Keys : j # k => rows'[j] = rows[j]
    BY <1>3, EditedAt DEF Typed, Edited, AdminInv
  <2>. QED  BY <1>k, <2>1 DEF AdminInv
<1>4. ASSUME NEW k \in Keys, Deleted(k)
      PROVE  AdminInv'
  BY <1>k, <1>4 DEF Deleted, Typed, TypeOK, AdminInv
<1>. QED  BY <1>1, <1>2, <1>3, <1>4, RowSteps

LEMMA OthersEntries ==
  ASSUME AdminInv, NEW k \in Keys, rows[k] # Null, ~ rows[k].admin
  PROVE  EntryOf(k) \in Entries \ {Registry!AdminEntry}
<1>1. k # 1
  BY DEF AdminInv
<1>2. EntryOf(k).key = k /\ Registry!AdminEntry.key = 1
  BY DEF EntryOf, Registry!AdminEntry, Registry!Entry
<1>. QED  BY <1>1, <1>2 DEF Entries

LEMMA FreeAccounts ==
  ASSUME NEW id, ~ Taken(id)
  PROVE  Registry!Free(id)
BY DEF Taken, Registry!Free, Entries, EntryOf

(* What the step of a request does to what the clients were told *)
LEMMA ToldSteps ==
  ASSUME Typed, NEW r \in Requests, Step(r)
  PROVE  /\ (pc[r] # "reg_save" /\ pc'[r] # "reg_save") => Told' = Told
         /\ pc[r] = "reg_save"
            => /\ Told[r] = loc[r].account /\ Told[r] \in Accounts /\ Told[r] # Null
               /\ Told' = [Told EXCEPT ![r] = Null]
         /\ pc'[r] = "reg_save"
            => /\ Told[r] = Null /\ loc[r].account \in Accounts
               /\ Told' = [Told EXCEPT ![r] = loc[r].account]
<1>1. \A u \in Requests : u # r => pc'[u] = pc[u] /\ loc'[u] = loc[u]
  BY OneMoves
<1>2. /\ pc'[r] = "reg_save" => RegisterExists(r) /\ loc'[r].account = loc[r].account
      /\ pc[r] = "reg_save" => pc'[r] = "idle"
  BY ToSave
<1>3. pc[r] \in Registering => loc[r].account \in Accounts /\ loc[r].account # Null
  BY LoginAssumption DEF Typed, Fits
<1>4. Told' = [u \in Requests |-> IF pc'[u] = "reg_save" THEN loc'[u].account ELSE Null]
  BY DEF Told
<1>5. CASE pc[r] # "reg_save" /\ pc'[r] # "reg_save"
  BY <1>1, <1>4, <1>5 DEF Told
<1>6. CASE pc[r] = "reg_save"
  <2>1. loc[r].account \in Accounts /\ loc[r].account # Null
    BY <1>3, <1>6 DEF Registering
  <2>. QED  BY <1>1, <1>2, <1>4, <1>6, <2>1 DEF Told
<1>7. CASE pc'[r] = "reg_save"
  <2>1. pc[r] = "reg_exists"
    BY <1>2, <1>7 DEF RegisterExists
  <2>2. loc[r].account \in Accounts
    BY <1>3, <2>1 DEF Registering
  <2>. QED  BY <1>1, <1>2, <1>4, <1>7, <2>1, <2>2 DEF Told
<1>. QED  BY <1>2, <1>5, <1>6, <1>7

LEMMA RegistryRows ==
  ASSUME Typed, Typed', RegistryInv, NEW r \in Requests, Step(r)
  PROVE  Registry!Next \/ UNCHANGED Registry!vars
<1>n. nextKey \in Nat \ {0}
  BY LoginAssumption DEF Typed, TypeOK
<1>o. pc \in [Requests -> Places]
  BY DEF Typed, TypeOK
<1>1. CASE UNCHANGED table
  <2>1. Entries' = Entries /\ nextKey' = nextKey
    BY <1>1 DEF table, Entries, EntryOf
  <2>2. CASE pc[r] # "reg_save" /\ pc'[r] # "reg_save"
    BY <2>1, <2>2, ToldSteps DEF Registry!vars
  <2>3. CASE pc[r] = "reg_save"
    <3>1. Registry!Forget(r)
      BY <2>1, <2>3, ToldSteps DEF Registry!Forget
    <3>. QED  BY <3>1 DEF Registry!Next
  <2>4. CASE pc'[r] = "reg_save"
    <3>1. Registry!Free(loc[r].account)
      BY <2>4, ToSave, FreeAccounts
    <3>2. Registry!Look(r, loc[r].account) /\ loc[r].account \in Accounts
      BY <2>1, <2>4, <3>1, ToldSteps DEF Registry!Look
    <3>. QED  BY <3>2 DEF Registry!Next
  <2>. QED  BY <2>2, <2>3, <2>4
<1>2. ASSUME NEW id, NEW stored, NEW row, Stores(row),
             row.account = id, row.password = stored
      PROVE  Registry!Enter(id, stored)
  <2>1. /\ nextKey \in Keys /\ nextKey' = nextKey + 1
        /\ Entries' = Entries \cup {[account |-> id, key |-> nextKey, password |-> stored]}
    BY <1>2, StoresEntry DEF RegistryInv
  <2>2. nextKey' - 1 = (nextKey - 1) + 1 /\ (nextKey - 1) + 1 = nextKey
    BY <1>n, <2>1
  <2>. QED  BY <1>2, <2>1, <2>2 DEF Registry!Enter, Registry!Entry
<1>3. CASE RegisterSave(r) /\ Stores(RegisteredRow(r))
  <2>1. loc[r].password \in Passwords /\ pc[r] = "reg_save"
    BY <1>3 DEF RegisterSave, Typed, Fits, Registering
  <2>2. Registry!Enter(loc[r].account, Hashed(loc[r].password))
    BY <1>2, <1>3 DEF RegisteredRow, NewRow
  <2>3. Registry!Enter(Told[r], Registry!Hashed(loc[r].password))
    BY <2>1, <2>2, ToldSteps DEF Hashed, Registry!Hashed
  <2>4. Registry!Register(r)
    BY <2>1, <2>3, ToldSteps DEF Registry!Register
  <2>. QED  BY <2>4 DEF Registry!Next
<1>4. ASSUME NEW id \in Accounts, NEW p \in Passwords, OssanInsert(r, id, p),
             Stores(NewRow(id, Plain(p), Null))
      PROVE  Registry!Next
  <2>1. Registry!Enter(id, Plain(p))
    BY <1>2, <1>4 DEF NewRow
  <2>2. pc[r] # "reg_save" /\ pc'[r] # "reg_save"
    BY <1>4, <1>o DEF OssanInsert, At, Respond
  <2>3. Registry!Insert(id)
    BY <2>1, <2>2, ToldSteps DEF Registry!Insert, Plain, Registry!Plain
  <2>. QED  BY <2>3 DEF Registry!Next
<1>5. ASSUME NEW k \in Keys, OssanUpdate(r, k) \/ PersonalUpdate(r, k), Edited(k)
      PROVE  Registry!Next
  <2> DEFINE e == EntryOf(k)
  <2>1. e \in Entries \ {Registry!AdminEntry}
    BY <1>5, OthersEntries DEF Edited, RegistryInv
  <2>2. Entries' = (Entries \ {e}) \cup {EntryOf(k)'} /\ UNCHANGED nextKey
    BY <1>5, EditedEntry DEF Edited
  <2> DEFINE id == rows'[k].account
             stored == rows'[k].password
  <2>3. id \in Accounts
    BY <1>5, EditedAt DEF Typed, Row
  <2>4. stored \in {e.password} \cup {Registry!Plain(p) : p \in Passwords}
    BY <1>5, EditedAt DEF Typed, EntryOf, Plain, Registry!Plain
  <2>5. EntryOf(k)' = Registry!Entry(id, e.key, stored)
    BY DEF EntryOf, Registry!Entry
  <2>6. pc[r] # "reg_save" /\ pc'[r] # "reg_save"
    BY <1>5, <1>o DEF OssanUpdate, PersonalUpdate, SaveForm, At, Respond
  <2>7. Told' = Told
    BY <2>6, ToldSteps
  <2> HIDE DEF e, id, stored
  <2>8. Registry!Edit(e)
    BY <2>2, <2>3, <2>4, <2>5, <2>7 DEF Registry!Edit
  <2>. QED  BY <2>1, <2>8 DEF Registry!Next
<1>6. ASSUME NEW k \in Keys, OssanDelete(r, k), Deleted(k)
      PROVE  Registry!Next
  <2>1. EntryOf(k) \in Entries \ {Registry!AdminEntry}
    BY <1>6, OthersEntries DEF Deleted, RegistryInv
  <2>2. pc[r] # "reg_save" /\ pc'[r] # "reg_save"
    BY <1>6, <1>o DEF OssanDelete, At, Respond
  <2>3. Entries' = Entries \ {EntryOf(k)} /\ UNCHANGED nextKey /\ Told' = Told
    BY <1>6, <2>2, DeletedEntry, ToldSteps DEF Deleted
  <2>4. Registry!Remove(EntryOf(k))
    BY <2>3 DEF Registry!Remove
  <2>. QED  BY <2>1, <2>4 DEF Registry!Next
<1>. QED  BY <1>1, <1>3, <1>4, <1>5, <1>6, RowSteps

LEMMA RegistryStep ==
  ASSUME Typed, Typed', RegistryInv, [Next]_vars
  PROVE  RegistryInv' /\ (Registry!Next \/ UNCHANGED Registry!vars)
<1>1. ASSUME NEW r \in Requests, Step(r)
      PROVE  RegistryInv' /\ (Registry!Next \/ UNCHANGED Registry!vars)
  BY <1>1, RowsStep, AdminStays, RegistryRows DEF RegistryInv
<1>2. CASE (\E s \in Sessions : Expire(s)) \/ UNCHANGED vars
  <2>1. UNCHANGED <<pc, loc, rows, nextKey>>
    BY <1>2 DEF Expire, vars, table
  <2>. QED  BY <2>1 DEF RegistryInv, Numbered, AdminInv, Registry!vars, Entries, EntryOf, Told
<1>. QED  BY <1>1, <1>2 DEF Next

LEMMA RegistryInit == Init => RegistryInv /\ Registry!Init
<1> SUFFICES ASSUME Init
             PROVE  RegistryInv /\ Registry!Init
  OBVIOUS
<1>1. 1 \in Keys
  BY LoginAssumption DEF Keys
<1> DEFINE root == [NewRow(AdminAccount, Hashed(AdminPassword), Null) EXCEPT !.admin = TRUE]
<1>2. /\ root.account = AdminAccount /\ root.password = Hashed(AdminPassword)
      /\ root.admin /\ root \in Row
  BY LoginAssumption DEF NewRow, Hashed, Row
<1>3. rows = [k \in Keys |-> IF k = 1 THEN root ELSE Null] /\ nextKey = 2
  BY DEF Init
<1> HIDE DEF root
<1>4. rows[1] = root /\ root # Null /\ \A k \in Keys : rows[k] # Null <=> k = 1
  BY <1>1, <1>2, <1>3, LoginAssumption
<1>5. Numbered /\ AdminInv
  BY <1>2, <1>3, <1>4 DEF Numbered, AdminInv
<1>6. Entries = {[account |-> AdminAccount, key |-> 1, password |-> Hashed(AdminPassword)]}
  BY <1>1, <1>2, <1>4 DEF Entries, EntryOf
<1>7. Told = [c \in Requests |-> Null]
  BY DEF Told, Init
<1>8. Registry!Init
  BY <1>3, <1>6, <1>7
  DEF Registry!Init, Registry!AdminEntry, Registry!Entry, Registry!Hashed, Hashed
<1>. QED  BY <1>5, <1>8 DEF RegistryInv

(* Whatever requests overlap, accounts are looked up, registered, entered, *)
(* changed and removed as AccountRegistry says.                            *)
THEOREM RegistryRefinement == Spec => RegistrySpec
<1>1. Typed /\ Typed' /\ RegistryInv /\ [Next]_vars
      => RegistryInv' /\ [Registry!Next]_(Registry!vars)
  BY RegistryStep
<1>. QED  BY <1>1, RegistryInit, TypedInvariance, PTL
          DEF Spec, RegistrySpec, Registry!Spec

=============================================================================
