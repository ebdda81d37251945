---------------------------- MODULE UserRegister ----------------------------
(***************************************************************************)
(* What Toolmux promises of its browser accounts, without passwords,      *)
(* sessions, requests or transactions.  Accounts are changed one at a     *)
(* time, and a change that is made is kept or dropped: the first account  *)
(* is an administrator, after that only who is an active administrator    *)
(* when the change is made adds an account or changes the access of one,  *)
(* and one active administrator remains.  Accounts are never deleted.     *)
(* Accounts.tla is shown to implement this.                                *)
(***************************************************************************)

CONSTANTS
  Users,  \* usernames
  Roles,  \* "admin" and the others
  None    \* no account, user, change

VARIABLES
  access,  \* the role of each account and whether it is enabled
  change   \* the change that is being made: by whom, to whose access

vars == <<access, change>>

Access == [role : Roles, enabled : BOOLEAN]

Admins(reg) == {u \in Users : reg[u] = [role |-> "admin", enabled |-> TRUE]}

Init ==
  /\ access = [u \in Users |-> None]
  /\ change = None

Make(by, u, a) ==
  /\ change = None
  /\ change' = [by |-> by, user |-> u, access |-> a]
  /\ UNCHANGED access

Found(u) ==
  /\ Make(None, u, [role |-> "admin", enabled |-> TRUE])
  /\ \A v \in Users : access[v] = None

Add(actor, u, role) ==
  /\ Make(actor, u, [role |-> role, enabled |-> TRUE])
  /\ actor \in Admins(access)
  /\ access[u] = None

Change(actor, u, a) ==
  /\ Make(actor, u, a)
  /\ actor \in Admins(access)
  /\ access[u] # None
  /\ Admins([access EXCEPT ![u] = a]) # {}

Keep ==
  /\ change # None
  /\ access' = [access EXCEPT ![change.user] = change.access]
  /\ change' = None

Drop ==
  /\ change # None
  /\ change' = None
  /\ UNCHANGED access

Next ==
  \/ \E u \in Users : Found(u)
  \/ \E actor, u \in Users, role \in Roles : Add(actor, u, role)
  \/ \E actor, u \in Users, a \in Access : Change(actor, u, a)
  \/ Keep
  \/ Drop

Spec == Init /\ [][Next]_vars

-----------------------------------------------------------------------------
TypeOK ==
  /\ access \in [Users -> Access \cup {None}]
  /\ change \in [by : Users \cup {None}, user : Users, access : Access] \cup {None}

\* Once there are accounts, one of them is an administrator who can sign in.
ActiveAdministrator == (\E u \in Users : access[u] # None) => Admins(access) # {}
=============================================================================
