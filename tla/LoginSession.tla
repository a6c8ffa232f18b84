---------------------------- MODULE LoginSession ----------------------------
(***************************************************************************)
(* Accounts, login and the page filter.                                    *)
(*                                                                         *)
(* Every request passes LoginCheckingFilter, which keeps the path of the   *)
(* request in fields that all threads share, and then reaches its servlet: *)
(* RegisterServletMP, LoginServletWithAdmin, OssanInsertServlet, a form    *)
(* that changes a member, OssanDeleteServlet or logout.jsp.  They work on  *)
(* the table MemberOssan (external; one SQL statement is one step), which  *)
(* does not know that an account is unique, and on session attributes.     *)
(***************************************************************************)
EXTENDS Naturals

CONSTANTS
  Sessions,       \* HttpSession objects; one that is invalidated stays so
  Requests,       \* the request threads
  Accounts,       \* values of memberId
  Passwords,      \* what users type as passwords
  Strong,         \* the passwords PASSWORD_PATTERN matches
  AdminAccount,   \* the administrator EDMTableReset stores
  AdminPassword,
  MaxKey,         \* bound: the last seqNo that is given to a row
  Visited,        \* bound: the pages that are asked for
  Waits,          \* TRUE: a browser waits for the answer to a login before it
                  \* logs in again
  Null

Protected == {"insert", "edit", "delete"}
Pages == {"view", "register", "login", "logout", "personal"} \cup Protected
Keys == 1..MaxKey

(* A row of MemberOssan.  hashed: the hash of the text is stored, and not   *)
(* the text itself.  History: moved, the account has been changed since;   *)
(* checked, the seqNo that was next when RegisterServletMP looked the      *)
(* account up (Null: the row is not from there).                           *)
Row == [account : Accounts, password : [hashed : BOOLEAN, text : Passwords],
        admin : BOOLEAN, moved : BOOLEAN, checked : Nat \cup {Null}]

ASSUME LoginAssumption ==
  /\ Strong \subseteq Passwords
  /\ AdminAccount \in Accounts
  /\ AdminPassword \in Passwords
  /\ MaxKey \in Nat \ {0}
  /\ Visited \subseteq Pages
  /\ Waits \in BOOLEAN
  /\ Null \notin Sessions \cup Accounts \cup Passwords \cup Pages \cup Nat \cup Row

VARIABLES
  pc,         \* pc[r]: where request r is
  loc,        \* loc[r]: the parameters and local variables of request r
  path,       \* the field servletPath of the filter
  uri,        \* the field requestURI of the filter
  matcher,    \* the field matcher of RegisterServletMP: the password in it
  life,       \* life[s]: session s is "new", "live" or "dead"
  attr,       \* attr[s]: the attributes of session s
  rows,       \* rows[k]: the row of MemberOssan with seqNo k, or Null
  nextKey     \* AUTO_INCREMENT of seqNo

fields == <<path, uri, matcher>>
table  == <<rows, nextKey>>
vars   == <<pc, loc, path, uri, matcher, life, attr, rows, nextKey>>

(* What is stored for a password: its hash, or the text itself.            *)
Hashed(p) == [hashed |-> TRUE, text |-> p]
Plain(p)  == [hashed |-> FALSE, text |-> p]

NewRow(id, stored, checked) ==
  [account |-> id, password |-> stored, admin |-> FALSE, moved |-> FALSE,
   checked |-> checked]

(* LoginOK (pKey and memberId of the bean), OssanSessionPKey, AdminLoginOK *)
(* and requestURI                                                          *)
Attributes == [member : Keys \cup {Null}, account : Accounts \cup {Null},
               key : Nat \cup {Null}, admin : BOOLEAN, uri : Pages \cup {Null}]
NoAttributes == [member |-> Null, account |-> Null, key |-> Null,
                 admin |-> FALSE, uri |-> Null]

Locals == [sess : Sessions \cup {Null}, page : Pages \cup {Null},
           known : BOOLEAN, account : Accounts \cup {Null},
           password : Passwords \cup {Null}, checked : Nat \cup {Null},
           found : Keys \cup {Null}, key : Nat \cup {Null}]
Blank == [sess |-> Null, page |-> Null, known |-> FALSE, account |-> Null,
          password |-> Null, checked |-> Null, found |-> Null, key |-> Null]

Filtering   == {"judge", "deny"}
Registering == {"reg_judge", "reg_exists", "reg_save"}
LoggingIn   == {"login_key", "login_member", "login_set", "login_admin"}
Places == {"idle", "serve"} \cup Filtering \cup Registering \cup LoggingIn

-----------------------------------------------------------------------------
(* Helpers of the actions. *)

Goto(r, from, to) == pc[r] = from /\ pc' = [pc EXCEPT ![r] = to]

(* The handler returns: its thread is free for another request. *)
Respond(r) ==
  /\ pc' = [pc EXCEPT ![r] = "idle"]
  /\ loc' = [loc EXCEPT ![r] = Blank]

(* Request r has passed the filter and is at the servlet of page p. *)
At(r, p) == pc[r] = "serve" /\ loc[r].page = p

Taken(id) == \E k \in Keys : rows[k] # Null /\ rows[k].account = id

(* checkAdmin and checkIDPassword: the keys of the rows they select *)
Matching(id, p) ==
  {k \in Keys : /\ rows[k] # Null
                /\ rows[k].account = id
                /\ rows[k].password = Hashed(p)}
AdminMatching(id, p) == {k \in Matching(id, p) : rows[k].admin}

(* queryOneOssanPKey: no order is asked for, so the last row may be any.   *)
OssansNamed(id) ==
  {k \in Keys : rows[k] # Null /\ rows[k].account = id /\ ~ rows[k].admin}

(* saveOssan *)
AddRow(row) ==
  /\ nextKey <= MaxKey
  /\ rows' = [rows EXCEPT ![nextKey] = row]
  /\ nextKey' = nextKey + 1

-----------------------------------------------------------------------------
(* LoginCheckingFilter *)

(* A request of page p: the field servletPath is set, and whether the      *)
(* session the browser named is valid is looked up.                        *)
Arrive(r, s, p) ==
  /\ pc[r] = "idle"
  /\ life[s] # "dead"
  /\ p \in Visited
  /\ path' = p
  /\ pc' = [pc EXCEPT ![r] = "judge"]
  /\ loc' = [loc EXCEPT ![r] = [Blank EXCEPT !.sess = s, !.page = p,
                                             !.known = life[s] = "live"]]
  /\ life' = [life EXCEPT ![s] = "live"]
  /\ UNCHANGED <<uri, matcher, attr, table>>

(* checkLogin() *)
LoggedIn(s) == attr[s].member # Null \/ attr[s].admin

(* The field requestURI is set; mustLogin() reads the field servletPath.   *)
Judge(r) ==
  /\ pc[r] = "judge"
  /\ uri' = loc[r].page
  /\ pc' = [pc EXCEPT ![r] =
              IF path \in Protected /\ ~ LoggedIn(loc[r].sess)
              THEN "deny" ELSE "serve"]
  /\ UNCHANGED <<loc, path, matcher, life, attr, table>>

(* To login.jsp.  A browser that came with a valid session will be sent    *)
(* where the field requestURI points; any other is told of the timeout.    *)
Deny(r) ==
  /\ pc[r] = "deny"
  /\ attr' = IF loc[r].known /\ life[loc[r].sess] = "live"
             THEN [attr EXCEPT ![loc[r].sess].uri = uri] ELSE attr
  /\ Respond(r)
  /\ UNCHANGED <<fields, life, table>>

(* A page that only shows something, a form with an empty field, a failure *)
(* before anything is changed *)
Answer(r) ==
  /\ pc[r] = "serve"
  /\ Respond(r)
  /\ UNCHANGED <<fields, life, attr, table>>

(* A query or an insertion throws; the servlet shows its form again.       *)
DatabaseFails(r) ==
  /\ pc[r] \in {"reg_exists", "reg_save", "login_key"}
  /\ Respond(r)
  /\ UNCHANGED <<fields, life, attr, table>>

-----------------------------------------------------------------------------
(* RegisterServletMP *)

RegisterSubmit(r, id, p) ==
  /\ At(r, "register")
  /\ matcher' = p
  /\ pc' = [pc EXCEPT ![r] = "reg_judge"]
  /\ loc' = [loc EXCEPT ![r].account = id, ![r].password = p]
  /\ UNCHANGED <<path, uri, life, attr, table>>

(* matches() of the matcher the field holds by now *)
RegisterJudge(r) ==
  /\ pc[r] = "reg_judge"
  /\ IF matcher \in Strong
     THEN pc' = [pc EXCEPT ![r] = "reg_exists"] /\ UNCHANGED loc
     ELSE Respond(r)
  /\ UNCHANGED <<fields, life, attr, table>>

(* Mutant of RegisterExists: the account is not looked up. *)
RegisterExistsNot(r) ==
  /\ Goto(r, "reg_exists", "reg_save")
  /\ loc' = [loc EXCEPT ![r].checked = nextKey]
  /\ UNCHANGED <<fields, life, attr, table>>

(* idExists() *)
RegisterExists(r) ==
  /\ pc[r] = "reg_exists"
  /\ IF Taken(loc[r].account)
     THEN Respond(r)
     ELSE /\ pc' = [pc EXCEPT ![r] = "reg_save"]
          /\ loc' = [loc EXCEPT ![r].checked = nextKey]
  /\ UNCHANGED <<fields, life, attr, table>>

RegisterSave(r) ==
  /\ pc[r] = "reg_save"
  /\ AddRow(NewRow(loc[r].account, Hashed(loc[r].password), loc[r].checked))
  /\ Respond(r)
  /\ UNCHANGED <<fields, life, attr>>

-----------------------------------------------------------------------------
(* LoginServletWithAdmin *)

(* checkAdmin() and checkIDPassword().  The row of an administrator never  *)
(* changes, so the two queries are one step.                               *)
LoginFind(r, id, p) ==
  /\ At(r, "login")
  /\ Waits => \A q \in Requests :
                loc[q].sess = loc[r].sess => pc[q] \notin LoggingIn
  /\ IF AdminMatching(id, p) # {}
     THEN /\ pc' = [pc EXCEPT ![r] = "login_admin"]
          /\ UNCHANGED loc
     ELSE \/ \E k \in Matching(id, p) :
               /\ pc' = [pc EXCEPT ![r] = "login_key"]
               /\ loc' = [loc EXCEPT ![r].account = id, ![r].found = k]
          \/ Matching(id, p) = {} /\ Respond(r)
  /\ UNCHANGED <<fields, life, attr, table>>

(* An administrator: the attributes of a member stay as they are.          *)
LoginAdmin(r) ==
  /\ pc[r] = "login_admin"
  /\ attr' = IF life[loc[r].sess] = "live"
             THEN [attr EXCEPT ![loc[r].sess].admin = TRUE] ELSE attr
  /\ Respond(r)
  /\ UNCHANGED <<fields, life, table>>

(* queryOneOssanPKey() *)
LoginKey(r) ==
  /\ Goto(r, "login_key", "login_member")
  /\ \/ \E k \in OssansNamed(loc[r].account) : loc' = [loc EXCEPT ![r].key = k]
     \/ /\ OssansNamed(loc[r].account) = {}
        /\ loc' = [loc EXCEPT ![r].key = 0]
  /\ UNCHANGED <<fields, life, attr, table>>

(* setAttribute("LoginOK", mb) *)
LoginMember(r) ==
  LET s == loc[r].sess
  IN  /\ pc[r] = "login_member"
      /\ life[s] = "live"
      /\ attr' = [attr EXCEPT ![s].member = loc[r].found,
                                 ![s].account = loc[r].account]
      /\ pc' = [pc EXCEPT ![r] = "login_set"]
      /\ UNCHANGED <<loc, fields, life, table>>

(* Mutant of LoginSetKey: the attribute of an earlier login is kept. *)
LoginSetKeyOnce(r) ==
  LET s == loc[r].sess
  IN  /\ pc[r] = "login_set"
      /\ life[s] = "live"
      /\ attr' = [attr EXCEPT ![s].key = IF @ = Null THEN loc[r].key ELSE @]
      /\ Respond(r)
      /\ UNCHANGED <<fields, life, table>>

(* Mutant of LoginSetKey: the account becomes the attribute. *)
LoginSetAccount(r) ==
  LET s == loc[r].sess
  IN  /\ pc[r] = "login_set"
      /\ life[s] = "live"
      /\ attr' = [attr EXCEPT ![s].key = loc[r].account]
      /\ Respond(r)
      /\ UNCHANGED <<fields, life, table>>

(* setAttribute("OssanSessionPKey", key) *)
LoginSetKey(r) ==
  LET s == loc[r].sess
  IN  /\ pc[r] = "login_set"
      /\ life[s] = "live"
      /\ attr' = [attr EXCEPT ![s].key = loc[r].key]
      /\ Respond(r)
      /\ UNCHANGED <<fields, life, table>>

(* setAttribute() of a session that has been invalidated throws.           *)
LoginFails(r) ==
  /\ pc[r] \in {"login_member", "login_set"}
  /\ life[loc[r].sess] # "live"
  /\ Respond(r)
  /\ UNCHANGED <<fields, life, attr, table>>

(* logout.jsp *)
Logout(r) ==
  /\ At(r, "logout")
  /\ life' = [life EXCEPT ![loc[r].sess] = "dead"]
  /\ attr' = [attr EXCEPT ![loc[r].sess] = NoAttributes]
  /\ Respond(r)
  /\ UNCHANGED <<fields, table>>

(* The session timeout of web.xml *)
Expire(s) ==
  /\ life[s] = "live"
  /\ \A q \in Requests : loc[q].sess # s
  /\ life' = [life EXCEPT ![s] = "dead"]
  /\ attr' = [attr EXCEPT ![s] = NoAttributes]
  /\ UNCHANGED <<pc, loc, fields, table>>

-----------------------------------------------------------------------------
(* The administrator's and the members' forms.  MemberMaintenance models   *)
(* how they are opened and saved; here they are what they do to accounts.  *)

(* OssanInsertServlet stores the password as it was typed. *)
OssanInsert(r, id, p) ==
  /\ At(r, "insert")
  /\ AddRow(NewRow(id, Plain(p), Null))
  /\ Respond(r)
  /\ UNCHANGED <<fields, life, attr>>

Saved(row, id, stored) ==
  [row EXCEPT !.account = id, !.password = stored,
              !.moved = row.moved \/ id # row.account]

(* The form shows the account and the stored password; all that is in its  *)
(* fields by then is saved.                                                *)
SaveForm(r, k) ==
  /\ rows[k] # Null
  /\ ~ rows[k].admin
  /\ \E id \in Accounts, stored \in {rows[k].password} \cup {Plain(p) : p \in Passwords} :
       rows' = [rows EXCEPT ![k] = Saved(rows[k], id, stored)]
  /\ Respond(r)
  /\ UNCHANGED <<fields, life, attr, nextKey>>

(* OssanUpdateServlet *)
OssanUpdate(r, k) == At(r, "edit") /\ SaveForm(r, k)

(* PersonalUpdateServlet: the member OssanSessionPKey names *)
PersonalUpdate(r, k) ==
  /\ At(r, "personal")
  /\ attr[loc[r].sess].key = k
  /\ SaveForm(r, k)

(* OssanDeleteServlet *)
OssanDelete(r, k) ==
  /\ At(r, "delete")
  /\ rows[k] # Null
  /\ ~ rows[k].admin
  /\ rows' = [rows EXCEPT ![k] = Null]
  /\ Respond(r)
  /\ UNCHANGED <<fields, life, attr, nextKey>>

-----------------------------------------------------------------------------
(* EDMTableReset has stored the administrator. *)
Init ==
  /\ pc = [r \in Requests |-> "idle"]
  /\ loc = [r \in Requests |-> Blank]
  /\ path = Null
  /\ uri = Null
  /\ matcher = Null
  /\ life = [s \in Sessions |-> "new"]
  /\ attr = [s \in Sessions |-> NoAttributes]
  /\ rows = [k \in Keys |->
               IF k = 1
               THEN [NewRow(AdminAccount, Hashed(AdminPassword), Null)
                       EXCEPT !.admin = TRUE]
               ELSE Null]
  /\ nextKey = 2

Step(r) ==
  \/ \E s \in Sessions, p \in Pages : Arrive(r, s, p)
  \/ Judge(r) \/ Deny(r) \/ Answer(r) \/ DatabaseFails(r)
  \/ \E id \in Accounts, p \in Passwords :
       RegisterSubmit(r, id, p) \/ LoginFind(r, id, p) \/ OssanInsert(r, id, p)
  \/ RegisterJudge(r) \/ RegisterExists(r) \/ RegisterSave(r)
  \/ LoginAdmin(r) \/ LoginKey(r) \/ LoginMember(r) \/ LoginSetKey(r)
  \/ LoginFails(r) \/ Logout(r)
  \/ \E k \in Keys : OssanUpdate(r, k) \/ PersonalUpdate(r, k) \/ OssanDelete(r, k)

Next == (\E r \in Requests : Step(r)) \/ (\E s \in Sessions : Expire(s))

Spec == Init /\ [][Next]_vars

-----------------------------------------------------------------------------
(* Properties *)

(* The type invariant. *)
TypeOK ==
  /\ pc \in [Requests -> Places]
  /\ loc \in [Requests -> Locals]
  /\ path \in Pages \cup {Null}
  /\ uri \in Pages \cup {Null}
  /\ matcher \in Passwords \cup {Null}
  /\ life \in [Sessions -> {"new", "live", "dead"}]
  /\ attr \in [Sessions -> Attributes]
  /\ rows \in [Keys -> Row \cup {Null}]
  /\ nextKey \in 1..(MaxKey + 1)

(* The row whose seqNo was k still has the account it was stored with.     *)
Stands(k) == rows[k] # Null /\ ~ rows[k].moved

(* Two requests can enter one account only while they overlap: where a     *)
(* registration stored an account that an earlier row has, that row was    *)
(* not there yet when idExists was asked (RegisterServletMP:222 and 241),  *)
(* however the requests of all servlets interleave, and whatever rows were *)
(* entered, changed and deleted meanwhile.                                 *)
DuplicatesOverlap ==
  \A j, k \in Keys :
    (/\ Stands(j) /\ Stands(k)
     /\ rows[k].checked # Null
     /\ rows[j].account = rows[k].account)
    => rows[k].checked <= j

(* A member who is logged in maintains the profile of OssanSessionPKey and *)
(* the articles of LoginOK.  They come from two queries, of which the      *)
(* second asks for the account alone and may find another row or none, and *)
(* an earlier login of the session has left its own.  Yet both name rows   *)
(* with the account of the last login, unless a row is gone or got another *)
(* account since; and that the second finds none (0) takes just that.  Not *)
(* while a login is under way, and it takes Waits: two logins of a session *)
(* that overlap can leave the attributes of two members.                   *)
KeysAgree ==
  \A s \in Sessions :
    (/\ attr[s].member # Null
     /\ \A r \in Requests : pc[r] = "login_set" => loc[r].sess # s)
    => /\ Stands(attr[s].member) => /\ rows[attr[s].member].account = attr[s].account
                                    /\ attr[s].key # 0
       /\ (attr[s].key # 0 /\ Stands(attr[s].key))
          => rows[attr[s].key].account = attr[s].account

(* Looking an account up and storing it are two statements, with requests  *)
(* of all servlets in between (RegisterServletMP:222 and 241), and the     *)
(* table does not know that an account is unique.  What is left is that a  *)
(* registration stores only what it was told is free, that numbers are     *)
(* given once, and that nothing else is stored, changed or removed:        *)
(* LoginSession implements AccountRegistry.                                *)
EntryOf(k) ==
  [account |-> rows[k].account, key |-> k, password |-> rows[k].password]
Entries == {EntryOf(k) : k \in {j \in Keys : rows[j] # Null}}
Told == [r \in Requests |-> IF pc[r] = "reg_save" THEN loc[r].account ELSE Null]
Registry == INSTANCE AccountRegistry WITH
              Clients <- Requests, entries <- Entries, issued <- nextKey - 1,
              told <- Told
RegistrySpec == Registry!Spec

(* LoginCheckingFilter, lines 11-20: "when a request arrives, this filter  *)
(* checks whether the resource it asks for needs a login".  A request is   *)
(* served or sent to the login by its own path and session; a second one   *)
(* that arrives before it is judged makes this fail.                       *)
JudgedByOwnPath ==
  [][\A r \in Requests :
       (pc[r] = "judge" /\ pc'[r] # "judge")
       => (pc'[r] = "deny" <=> loc[r].page \in Protected /\ ~ LoggedIn(loc[r].sess))
    ]_vars
=============================================================================
