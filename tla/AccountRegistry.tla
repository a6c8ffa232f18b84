--------------------------- MODULE AccountRegistry ---------------------------
(***************************************************************************)
(* What registration, login and the forms make of the table MemberOssan: a *)
(* registry that does not see to it that an account has one entry only.  A *)
(* client is told that an account is free; by the time it registers the    *)
(* account, another may have done so.  Each entry gets a number never      *)
(* given before, who registers has a hash stored, and the administrator    *)
(* stays.                                                                  *)
(***************************************************************************)
EXTENDS Naturals

CONSTANTS Clients, Accounts, Passwords, AdminAccount, AdminPassword, Null

VARIABLES
  entries,    \* the accounts there are, with their numbers and passwords
  issued,     \* the last number given
  told        \* told[c]: the account that client c was told is free, or Null

vars == <<entries, issued, told>>

Hashed(p) == [hashed |-> TRUE, text |-> p]
Plain(p)  == [hashed |-> FALSE, text |-> p]
Entry(id, number, stored) == [account |-> id, key |-> number, password |-> stored]

Free(id) == \A e \in entries : e.account # id

AdminEntry == Entry(AdminAccount, 1, Hashed(AdminPassword))

Init ==
  /\ entries = {AdminEntry}
  /\ issued = 1
  /\ told = [c \in Clients |-> Null]

Look(c, id) ==
  /\ told[c] = Null
  /\ Free(id)
  /\ told' = [told EXCEPT ![c] = id]
  /\ UNCHANGED <<entries, issued>>

(* The registration fails. *)
Forget(c) ==
  /\ told[c] # Null
  /\ told' = [told EXCEPT ![c] = Null]
  /\ UNCHANGED <<entries, issued>>

Enter(id, stored) ==
  /\ issued' = issued + 1
  /\ entries' = entries \cup {Entry(id, issued + 1, stored)}

Register(c) ==
  /\ told[c] # Null
  /\ \E p \in Passwords : Enter(told[c], Hashed(p))
  /\ told' = [told EXCEPT ![c] = Null]

(* The administrator enters a member; nothing is looked up. *)
Insert(id) ==
  /\ \E p \in Passwords : Enter(id, Plain(p))
  /\ UNCHANGED told

(* An entry gets another account or password, or goes away. *)
Edit(e) ==
  /\ \E id \in Accounts, stored \in {e.password} \cup {Plain(p) : p \in Passwords} :
       entries' = (entries \ {e}) \cup {Entry(id, e.key, stored)}
  /\ UNCHANGED <<issued, told>>

Remove(e) == entries' = entries \ {e} /\ UNCHANGED <<issued, told>>

Next ==
  \/ \E c \in Clients : \/ \E id \in Accounts : Look(c, id)
                        \/ Forget(c) \/ Register(c)
  \/ \E id \in Accounts : Insert(id)
  \/ \E e \in entries \ {AdminEntry} : Edit(e) \/ Remove(e)

Spec == Init /\ [][Next]_vars
=============================================================================
