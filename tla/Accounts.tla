------------------------------ MODULE Accounts ------------------------------
(***************************************************************************)
(* The browser accounts of Toolmux, their sessions and the requests that  *)
(* use and change them: first-run setup, signing in and out, creating a   *)
(* user, changing a user's access, changing one's own password.            *)
(*                                                                         *)
(* A step is a statement or several nothing can come between.  A           *)
(* transaction that changes users is two: up to its last statement, with  *)
(* the locks it then holds, and the COMMIT, after which others see it.     *)
(* Creating users and changing access hold one advisory lock; a change of *)
(* access has the user's row updated, a change of password has it FOR     *)
(* UPDATE, which also holds up the foreign key of a new session.           *)
(***************************************************************************)
EXTENDS Naturals

CONSTANTS
  Users,      \* usernames
  Roles,      \* the roles validUser admits
  Passwords,  \* passwords; their hashes are as good as they
  Tokens,     \* session tokens
  Requests,   \* browser requests being served at the same time
  LoginLimit, \* attempts of an address in one window, 10 in AllowLogin
  None        \* no account, session, user, token

Account == [role : Roles, enabled : BOOLEAN, password : Passwords]

ASSUME AccountsAssumption ==
  /\ "admin" \in Roles
  /\ LoginLimit \in Nat
  /\ None \notin Account \cup Users \cup Tokens \cup Requests
  /\ None \notin [role : Roles, enabled : BOOLEAN]
  /\ None \notin [by : Users \cup {None}, user : Users,
                  access : [role : Roles, enabled : BOOLEAN]]
  /\ None \notin [user : Users, read : Account, expired : BOOLEAN, overtaken : BOOLEAN]

VARIABLES
  users,     \* the table users, as committed
  sessions,  \* the table admin_sessions, as committed
  lock,      \* the request that holds pg_advisory_xact_lock(722834682)
  attempts,  \* login_attempts of the address, counted up to LoginLimit + 1
  req        \* what each request has read, and the transaction it is in

vars == <<users, sessions, lock, attempts, req>>

-----------------------------------------------------------------------------
\* A session, with the account as its login read it (history) and whether a
\* change of that account overtook the login (history).
Session == [user : Users, read : Account, expired : BOOLEAN, overtaken : BOOLEAN]

Request ==
  [at        : {"idle", "setup", "login", "verified", "admitted",
                "creating", "access", "password"},
   actor     : Users \cup {None},    \* who is signed in
   token     : Tokens \cup {None},   \* the session's cookie
   user      : Users \cup {None},    \* whose account the request is about
   read      : Account \cup {None},  \* an account as it was read
   next      : Account \cup {None},  \* the account as it will be
   gone      : SUBSET Tokens,        \* the sessions the transaction deleted
   overtaken : BOOLEAN]              \* history: the account changed since read

Idle == [at |-> "idle", actor |-> None, token |-> None, user |-> None,
         read |-> None, next |-> None, gone |-> {}, overtaken |-> FALSE]

Init ==
  /\ users = [u \in Users |-> None]
  /\ sessions = [t \in Tokens |-> None]
  /\ lock = None
  /\ attempts = 0
  /\ req = [r \in Requests |-> Idle]

Become(r, rec) == req' = [req EXCEPT ![r] = rec]

Configured == \E u \in Users : users[u] # None

SessionsOf(u) == {t \in Tokens : sessions[t] # None /\ sessions[t].user = u}

ActiveAdmin(a) == a # None /\ a.role = "admin" /\ a.enabled

\* A transaction that has changed u's row and not committed.
RowTaken(u) == \E q \in Requests : req[q].at \in {"access", "password"} /\ req[q].user = u

\* A session a transaction has deleted and not committed.
Deleting(t) == \E q \in Requests : t \in req[q].gone

-----------------------------------------------------------------------------
(* Setting up and signing in                                               *)

\* The counter of AllowLogin is one statement, so no attempt goes uncounted.
\* The middleware has decided before, by what the users table held, whether
\* the form is the one of first-run setup.
SubmitAuth(r) ==
  /\ req[r] = Idle
  /\ attempts' = IF attempts > LoginLimit THEN attempts ELSE attempts + 1
  /\ IF attempts < LoginLimit
       THEN Become(r, [Idle EXCEPT !.at = IF Configured THEN "login" ELSE "setup"])
       ELSE UNCHANGED req
  /\ UNCHANGED <<users, sessions, lock>>

\* The window of 15 minutes is over.
WindowEnds ==
  /\ attempts > 0
  /\ attempts' = 0
  /\ UNCHANGED <<users, sessions, lock, req>>

\* A setup that trusts what the middleware saw.
SetupTrusted == TRUE

\* Setup looks again, under the lock.
StillUnconfigured == ~Configured

\* What CreateAdmin and CreateUser both do: insert u, who commits below.
InsertUser(r, u, a) ==
  /\ users[u] = None
  /\ lock' = r
  /\ Become(r, [req[r] EXCEPT !.at = "creating", !.user = u, !.next = a])
  /\ UNCHANGED <<users, sessions, attempts>>

CreateAdmin(r, u, p) ==
  /\ req[r].at = "setup"
  /\ lock = None
  /\ StillUnconfigured
  /\ InsertUser(r, u, [role |-> "admin", enabled |-> TRUE, password |-> p])

\* Setup goes on to sign in with the same form, CreateUser is done.
CommitUser(r) ==
  /\ req[r].at = "creating"
  /\ users' = [users EXCEPT ![req[r].user] = req[r].next]
  /\ lock' = None
  /\ IF req[r].actor = None THEN Become(r, [req[r] EXCEPT !.at = "login"])
                            ELSE Become(r, Idle)
  /\ UNCHANGED <<sessions, attempts>>

\* AuthenticateUser reads the row once and compares the hash it read.
Authenticate(r, u, p) ==
  /\ req[r].at = "login"
  /\ req[r].user # None => u = req[r].user /\ p = req[r].next.password
  /\ users[u] # None
  /\ users[u].enabled
  /\ users[u].password = p
  /\ Become(r, [Idle EXCEPT !.at = "verified", !.user = u, !.read = users[u]])
  /\ UNCHANGED <<users, sessions, lock, attempts>>

\* The session is inserted for an account that is enabled by now.
SignsIn(u) == users[u].enabled

\* Expired sessions are deleted by the same statement.  The foreign key waits
\* for a change of u's password, and the deletion for other transactions.
NewAdminSession(r, t) ==
  LET u == req[r].user
  IN /\ req[r].at = "verified"
     /\ sessions[t] = None
     /\ \A q \in Requests : req[q].token # t
     /\ \A q \in Requests : ~(req[q].at = "password" /\ req[q].user = u)
     /\ \A x \in Tokens : sessions[x] # None /\ sessions[x].expired => ~Deleting(x)
     /\ sessions' = [x \in Tokens |->
          IF x = t /\ SignsIn(u)
            THEN [user |-> u, read |-> req[r].read, expired |-> FALSE,
                  overtaken |-> req[r].overtaken \/ RowTaken(u)]
          ELSE IF sessions[x] # None /\ sessions[x].expired THEN None
          ELSE sessions[x]]
     /\ Become(r, Idle)
     /\ UNCHANGED <<users, lock, attempts>>

Expire(t) ==
  /\ sessions[t] # None
  /\ ~sessions[t].expired
  /\ sessions' = [sessions EXCEPT ![t].expired = TRUE]
  /\ UNCHANGED <<users, lock, attempts, req>>

-----------------------------------------------------------------------------
(* Requests of a signed-in user                                            *)

\* The middleware reads the account through the session; the handler goes on
\* with the copy in the request's context.
Admit(r, t) ==
  /\ req[r] = Idle
  /\ sessions[t] # None
  /\ ~sessions[t].expired
  /\ users[sessions[t].user].enabled
  /\ Become(r, [Idle EXCEPT !.at = "admitted", !.token = t,
                            !.actor = sessions[t].user,
                            !.read = users[sessions[t].user]])
  /\ UNCHANGED <<users, sessions, lock, attempts>>

Logout(r) ==
  /\ req[r].at = "admitted"
  /\ ~Deleting(req[r].token)
  /\ sessions' = [sessions EXCEPT ![req[r].token] = None]
  /\ Become(r, Idle)
  /\ UNCHANGED <<users, lock, attempts>>

\* An authorization that trusts the copy in the request's context.
AuthorizedAtFirst(r) == ActiveAdmin(req[r].read)

\* authorizeUserChange reads the actor again, under the lock.
Authorized(r) == ActiveAdmin(users[req[r].actor])

\* The paths below /users are open to administrators.
ManagesUsers(r) ==
  /\ req[r].at = "admitted"
  /\ ActiveAdmin(req[r].read)
  /\ lock = None
  /\ Authorized(r)

CreateUser(r, u, p, role) ==
  /\ ManagesUsers(r)
  /\ InsertUser(r, u, [role |-> role, enabled |-> TRUE, password |-> p])

\* The accounts when u has been given role and enabled.
WithAccess(u, role, enabled) ==
  [users EXCEPT ![u].role = role, ![u].enabled = enabled]

\* The UPDATE, the count and the DELETE of SetUserAccess; without an active
\* administrator it rolls back.
SetUserAccess(r, u, role, enabled) ==
  /\ ManagesUsers(r)
  /\ users[u] # None
  /\ ~RowTaken(u)
  /\ \E v \in Users : ActiveAdmin(WithAccess(u, role, enabled)[v])
  /\ lock' = r
  /\ Become(r, [req[r] EXCEPT !.at = "access", !.user = u,
                              !.next = WithAccess(u, role, enabled)[u],
                              !.gone = SessionsOf(u)])
  /\ UNCHANGED <<users, sessions, attempts>>

\* A comparison with the hash the middleware's query could have brought.
KnewPassword(r, current) == req[r].read.password = current

\* The comparison is with the row, locked.
KnowsPassword(r, current) == users[req[r].actor].password = current

ChangeUserPassword(r, current, p) ==
  LET u == req[r].actor
  IN /\ req[r].at = "admitted"
     /\ ~RowTaken(u)
     /\ users[u].enabled
     /\ KnowsPassword(r, current)
     /\ Become(r, [req[r] EXCEPT !.at = "password", !.user = u,
                                 !.read = [users[u] EXCEPT !.password = current],
                                 !.next = [users[u] EXCEPT !.password = p],
                                 !.gone = SessionsOf(u)])
     /\ UNCHANGED <<users, sessions, lock, attempts>>

\* A change that leaves the sessions of the user.
SessionsKept(r) == sessions

\* The sessions the transaction saw are gone with it.
SessionsAfter(r) == [t \in Tokens |-> IF t \in req[r].gone THEN None ELSE sessions[t]]

\* Either change commits.  Logins of the user that are under way are overtaken.
CommitChange(r) ==
  LET u == req[r].user
  IN /\ req[r].at \in {"access", "password"}
     /\ users' = [users EXCEPT ![u] = req[r].next]
     /\ sessions' = SessionsAfter(r)
     /\ lock' = IF lock = r THEN None ELSE lock
     /\ req' = [q \in Requests |->
          IF q = r THEN Idle
          ELSE IF req[q].at = "verified" /\ req[q].user = u
            THEN [req[q] EXCEPT !.overtaken = TRUE]
          ELSE req[q]]
     /\ UNCHANGED attempts

\* The request is refused or cancelled, a statement fails or the process
\* stops; a transaction is rolled back.
GiveUp(r) ==
  /\ req[r] # Idle
  /\ lock' = IF lock = r THEN None ELSE lock
  /\ Become(r, Idle)
  /\ UNCHANGED <<users, sessions, attempts>>

-----------------------------------------------------------------------------
SignIn(r) ==
  \/ SubmitAuth(r)
  \/ \E u \in Users, p \in Passwords : CreateAdmin(r, u, p) \/ Authenticate(r, u, p)
  \/ \E t \in Tokens : NewAdminSession(r, t)

SignedIn(r) ==
  \/ \E t \in Tokens : Admit(r, t)
  \/ Logout(r)
  \/ \E u \in Users, p \in Passwords, role \in Roles : CreateUser(r, u, p, role)
  \/ \E u \in Users, role \in Roles, on \in BOOLEAN : SetUserAccess(r, u, role, on)
  \/ \E current, p \in Passwords : ChangeUserPassword(r, current, p)

Next ==
  \/ WindowEnds
  \/ \E t \in Tokens : Expire(t)
  \/ \E r \in Requests :
       SignIn(r) \/ SignedIn(r) \/ CommitUser(r) \/ CommitChange(r) \/ GiveUp(r)

Spec == Init /\ [][Next]_vars

-----------------------------------------------------------------------------
(* What the accounts promise                                               *)

TypeOK ==
  /\ users \in [Users -> Account \cup {None}]
  /\ sessions \in [Tokens -> Session \cup {None}]
  /\ lock \in Requests \cup {None}
  /\ attempts \in 0 .. LoginLimit + 1
  /\ req \in [Requests -> Request]

\* "Saving access revokes that user's sessions. Password changes revoke only
\* that user's sessions" (docs/administration.md): a session was opened by a
\* login that read the password and the access its user has now, unless the
\* change overtook that login between its two store calls.
SessionsFollowChanges ==
  \A t \in Tokens :
    sessions[t] # None /\ ~sessions[t].overtaken
      => sessions[t].read = users[sessions[t].user]

\* A password is replaced only by a request that was compared with that very
\* password, not with one that another request has replaced meanwhile
\* (ChangeUserPassword reads it FOR UPDATE).
PasswordChangesAreCompared ==
  [][\A u \in Users :
       users[u] # None /\ users'[u].password # users[u].password
         => \E r \in Requests : /\ req[r].at = "password"
                                /\ req[r].user = u
                                /\ req[r].read.password = users[u].password]_vars

\* What the register knows of an account.
AccessOf(a) == IF a = None THEN None ELSE [role |-> a.role, enabled |-> a.enabled]

\* Sessions, passwords and statements apart, the accounts are the register:
\* one founder, changes made one after another, each by somebody who is an
\* active administrator when it is made and not only when the request was
\* admitted, one of whom remains ("Role changes are serialized to preserve at
\* least one active administrator", DESIGN.md).  A change is under way while
\* its transaction holds the lock.
Register ==
  INSTANCE UserRegister WITH
    access <- [u \in Users |-> AccessOf(users[u])],
    change <- IF lock = None THEN None
              ELSE [by     |-> req[lock].actor,
                    user   |-> req[lock].user,
                    access |-> AccessOf(req[lock].next)]
ImplementsRegister == Register!Spec
=============================================================================
