--------------------------- MODULE AccountsProofs ---------------------------
(* Proofs about Accounts, for any sets of users, roles, passwords, session *)
(* tokens and overlapping requests.                                        *)
EXTENDS Accounts, TLAPS

\* What a request holds at each step: no actor before somebody is signed in,
\* an account to commit, and only accounts that exist, which none ceases to.
Shape(r) ==
  LET q == req[r]
  IN /\ q.at \in {"setup", "login"} => q.actor = None
     /\ q.at = "verified" => q.user \in Users /\ q.read \in Account /\ users[q.user] # None
     /\ q.at \in {"admitted", "access", "password"} =>
          q.actor \in Users /\ q.token \in Tokens /\ users[q.actor] # None
     /\ q.at = "creating" => q.user \in Users /\ q.next \in Account /\ users[q.user] = None
     /\ q.at \in {"access", "password"} =>
          q.user \in Users /\ q.next \in Account /\ users[q.user] # None

\* A transaction that adds an account or changes access holds the lock, and
\* one that changes an account holds its row.
Exclusive ==
  /\ \A r \in Requests : req[r].at \in {"creating", "access"} => lock = r
  /\ \A q, r \in Requests :
       /\ req[q].at \in {"access", "password"} /\ req[r].at \in {"access", "password"}
       /\ req[q].user = req[r].user
       => q = r

Owned == \A t \in Tokens : sessions[t] # None => users[sessions[t].user] # None

Inv ==
  /\ TypeOK
  /\ \A r \in Requests : Shape(r)
  /\ Exclusive
  /\ Owned

LEMMA IdleOK == Idle \in Request /\ Idle.at = "idle" /\ Idle.actor = None /\ Idle.gone = {}
  BY DEF Idle, Request

LEMMA InvInit == Init => Inv
<1> SUFFICES ASSUME Init PROVE Inv
  OBVIOUS
<1>1. TypeOK
  BY IdleOK, AccountsAssumption DEF Init, TypeOK
<1>2. \A r \in Requests : Shape(r)
  BY IdleOK DEF Init, Shape
<1>3. Exclusive /\ Owned
  BY IdleOK DEF Init, Exclusive, Owned
<1> QED BY <1>1, <1>2, <1>3 DEF Inv

\* A step of one request that leaves the accounts and the sessions' users as
\* they are.
LEMMA Stays ==
  ASSUME Inv, NEW r \in Requests, NEW rec \in Request, Become(r, rec), UNCHANGED users,
         attempts' \in 0 .. LoginLimit + 1, lock' \in Requests \cup {None},
         sessions' \in [Tokens -> Session \cup {None}], Owned',
         Shape(r)',
         rec.at \in {"creating", "access"} => lock' = r,
         \A q \in Requests : q # r /\ req[q].at \in {"creating", "access"} => lock' = q,
         rec.at \in {"access", "password"} =>
           \A q \in Requests : q # r /\ req[q].at \in {"access", "password"}
                               => req[q].user # rec.user
  PROVE  Inv'
<1>1. req' = [req EXCEPT ![r] = rec] /\ req \in [Requests -> Request]
  BY DEF Become, Inv, TypeOK
<1>2. req'[r] = rec /\ \A q \in Requests : q # r => req'[q] = req[q]
  BY <1>1
<1>3. TypeOK'
  BY <1>1 DEF Inv, TypeOK
<1>4. ASSUME NEW q \in Requests PROVE Shape(q)'
  <2>1. CASE q = r
    BY <2>1
  <2>2. CASE q # r
    BY <1>2, <2>2 DEF Inv, Shape
  <2> QED BY <2>1, <2>2
<1>5. Exclusive'
  BY <1>2 DEF Inv, Exclusive
<1> QED BY <1>3, <1>4, <1>5 DEF Inv
\* The same for a step that leaves the lock, the attempts and the sessions.
LEMMA Moves ==
  ASSUME Inv, NEW r \in Requests, NEW rec \in Request, Become(r, rec),
         UNCHANGED <<users, sessions, lock, attempts>>, Shape(r)',
         rec.at \notin {"creating", "access", "password"}
  PROVE  Inv'
<1>1. Owned' /\ TypeOK
  BY DEF Inv, Owned
<1>2. attempts' \in 0 .. LoginLimit + 1 /\ lock' \in Requests \cup {None}
      /\ sessions' \in [Tokens -> Session \cup {None}]
  BY <1>1 DEF TypeOK
<1>3. \A q \in Requests : q # r /\ req[q].at \in {"creating", "access"} => lock' = q
  BY DEF Inv, Exclusive
<1> QED BY <1>1, <1>2, <1>3, Stays

\* A request that ends gives back what it holds.
LEMMA Ends ==
  ASSUME Inv, NEW r \in Requests, Become(r, Idle), UNCHANGED users,
         attempts' \in 0 .. LoginLimit + 1,
         lock' = lock \/ (lock = r /\ lock' = None),
         sessions' \in [Tokens -> Session \cup {None}], Owned'
  PROVE  Inv'
<1>1. req' = [req EXCEPT ![r] = Idle] /\ req \in [Requests -> Request]
  BY DEF Become, Inv, TypeOK
<1>2. Shape(r)'
  BY <1>1, IdleOK DEF Shape
<1>3. \A q \in Requests : q # r /\ req[q].at \in {"creating", "access"} => lock' = q
  BY DEF Inv, Exclusive
<1>4. lock' \in Requests \cup {None}
  BY DEF Inv, TypeOK
<1> QED BY <1>2, <1>3, <1>4, IdleOK, Stays

\* What a request of Inv is, for a step of it.
LEMMA ReqOK ==
  ASSUME Inv, NEW r \in Requests
  PROVE  /\ req[r] \in Request /\ Shape(r) /\ req \in [Requests -> Request]
         /\ users \in [Users -> Account \cup {None}]
         /\ sessions \in [Tokens -> Session \cup {None}]
         /\ lock \in Requests \cup {None} /\ attempts \in 0 .. LoginLimit + 1
  BY DEF Inv, TypeOK

LEMMA SubmitAuthOK ==
  ASSUME Inv, NEW r \in Requests, SubmitAuth(r)
  PROVE  Inv'
<1> USE AccountsAssumption, ReqOK
<1>1. attempts' \in 0 .. LoginLimit + 1
  BY DEF SubmitAuth
<1>2. CASE attempts < LoginLimit
  <2> DEFINE rec == [Idle EXCEPT !.at = IF Configured THEN "login" ELSE "setup"]
  <2>1. Become(r, rec) /\ UNCHANGED <<users, sessions, lock>>
    BY <1>2 DEF SubmitAuth
  <2>2. rec \in Request /\ rec.at \in {"login", "setup"} /\ rec.actor = None
    BY IdleOK DEF Idle, Request
  <2> HIDE DEF rec
  <2>3. Shape(r)'
    BY <2>1, <2>2 DEF Become, Shape
  <2>4. Owned' /\ Exclusive
    BY <2>1 DEF Inv, Owned
  <2>5. \A q \in Requests : q # r /\ req[q].at \in {"creating", "access"} => lock' = q
    BY <2>1, <2>4 DEF Exclusive
  <2>6. sessions' \in [Tokens -> Session \cup {None}] /\ lock' \in Requests \cup {None}
    BY <2>1
  <2> QED BY <1>1, <2>1, <2>2, <2>3, <2>4, <2>5, <2>6, Stays
<1>3. CASE ~(attempts < LoginLimit)
  BY <1>1, <1>3 DEF SubmitAuth, Inv, TypeOK, Shape, Exclusive, Owned
<1> QED BY <1>2, <1>3

\* Steps that touch neither accounts nor requests nor the lock.
LEMMA ClockOK ==
  ASSUME Inv, UNCHANGED <<users, lock, req>>, attempts' \in 0 .. LoginLimit + 1,
         sessions' \in [Tokens -> Session \cup {None}], Owned'
  PROVE  Inv'
<1>1. TypeOK'
  BY DEF Inv, TypeOK
<1>2. \A r \in Requests : Shape(r)'
  BY DEF Inv, Shape
<1>3. Exclusive'
  BY DEF Inv, Exclusive
<1> QED BY <1>1, <1>2, <1>3 DEF Inv

LEMMA WindowEndsOK == Inv /\ WindowEnds => Inv'
<1> SUFFICES ASSUME Inv, WindowEnds PROVE Inv'
  OBVIOUS
<1>1. attempts' \in 0 .. LoginLimit + 1 /\ UNCHANGED <<users, sessions, lock, req>>
  BY AccountsAssumption DEF WindowEnds
<1>2. Owned' /\ sessions' \in [Tokens -> Session \cup {None}]
  BY <1>1 DEF Inv, TypeOK, Owned
<1> QED BY <1>1, <1>2, ClockOK

LEMMA ExpireOK ==
  ASSUME Inv, NEW t \in Tokens, Expire(t)
  PROVE  Inv'
<1>1. sessions[t] \in Session /\ sessions \in [Tokens -> Session \cup {None}]
  BY DEF Inv, TypeOK, Expire
<1>2. [sessions[t] EXCEPT !.expired = TRUE] \in Session
      /\ [sessions[t] EXCEPT !.expired = TRUE].user = sessions[t].user
  BY <1>1 DEF Session
<1>3. sessions' = [sessions EXCEPT ![t] = [sessions[t] EXCEPT !.expired = TRUE]]
      /\ UNCHANGED <<users, lock, attempts, req>>
  BY DEF Expire
<1>4. sessions' \in [Tokens -> Session \cup {None}] /\ Owned'
  BY <1>1, <1>2, <1>3 DEF Inv, Owned, Expire
<1>5. attempts' \in 0 .. LoginLimit + 1
  BY <1>3 DEF Inv, TypeOK
<1> QED BY <1>3, <1>4, <1>5, ClockOK

LEMMA GiveUpOK ==
  ASSUME Inv, NEW r \in Requests, GiveUp(r)
  PROVE  Inv'
<1>1. Owned' /\ sessions' \in [Tokens -> Session \cup {None}]
      /\ attempts' \in 0 .. LoginLimit + 1
  BY DEF Inv, TypeOK, Owned, GiveUp
<1> QED BY <1>1, Ends DEF GiveUp

LEMMA LogoutOK ==
  ASSUME Inv, NEW r \in Requests, Logout(r)
  PROVE  Inv'
<1>1. Owned' /\ sessions' \in [Tokens -> Session \cup {None}]
      /\ attempts' \in 0 .. LoginLimit + 1
  BY DEF Inv, TypeOK, Owned, Logout
<1> QED BY <1>1, Ends DEF Logout

\* The insertion of an account, by setup or by an administrator.
\* The record of a request that inserts u.
LEMMA CreatingOK ==
  ASSUME NEW q \in Request, NEW u \in Users, NEW a \in Account
  PROVE  [q EXCEPT !.at = "creating", !.user = u, !.next = a] \in Request
  BY DEF Request

LEMMA InsertUserOK ==
  ASSUME Inv, NEW r \in Requests, NEW u \in Users, NEW a \in Account,
         InsertUser(r, u, a), lock = None
  PROVE  Inv'
<1> USE ReqOK, AccountsAssumption
<1> DEFINE rec == [req[r] EXCEPT !.at = "creating", !.user = u, !.next = a]
<1>1. rec \in Request /\ rec.at = "creating" /\ rec.user = u /\ rec.next = a
  <2>1. rec \in Request
    BY CreatingOK
  <2> QED BY <2>1 DEF Request
<1>2. Become(r, rec) /\ lock' = r /\ UNCHANGED <<users, sessions, attempts>> /\ users[u] = None
  BY DEF InsertUser
<1> HIDE DEF rec
<1>3. Shape(r)'
  BY <1>1, <1>2 DEF Become, Shape
<1>4. Owned'
  BY <1>2 DEF Inv, Owned
<1>5. \A q \in Requests : q # r /\ req[q].at \in {"creating", "access"} => lock' = q
  BY DEF Inv, Exclusive
<1> QED BY <1>1, <1>2, <1>3, <1>4, <1>5, Stays

LEMMA CreateAdminOK ==
  ASSUME Inv, NEW r \in Requests, NEW u \in Users, NEW p \in Passwords, CreateAdmin(r, u, p)
  PROVE  Inv'
  BY InsertUserOK, AccountsAssumption DEF CreateAdmin, Account

LEMMA CreateUserOK ==
  ASSUME Inv, NEW r \in Requests, NEW u \in Users, NEW p \in Passwords, NEW role \in Roles,
         CreateUser(r, u, p, role)
  PROVE  Inv'
  BY InsertUserOK DEF CreateUser, ManagesUsers, Account

LEMMA AuthenticateOK ==
  ASSUME Inv, NEW r \in Requests, NEW u \in Users, NEW p \in Passwords, Authenticate(r, u, p)
  PROVE  Inv'
<1> USE ReqOK, AccountsAssumption
<1> DEFINE rec == [Idle EXCEPT !.at = "verified", !.user = u, !.read = users[u]]
<1>1. rec \in Request /\ rec.at = "verified" /\ rec.user = u /\ rec.read = users[u]
  BY IdleOK DEF Idle, Request
<1>2. Become(r, rec) /\ UNCHANGED <<users, sessions, lock, attempts>> /\ users[u] # None
  BY DEF Authenticate
<1> HIDE DEF rec
<1>3. Shape(r)'
  BY <1>1, <1>2 DEF Become, Shape
<1> QED BY <1>1, <1>2, <1>3, Moves

LEMMA AdmitOK ==
  ASSUME Inv, NEW r \in Requests, NEW t \in Tokens, Admit(r, t)
  PROVE  Inv'
<1> USE ReqOK, AccountsAssumption
<1> DEFINE u == sessions[t].user
           rec == [Idle EXCEPT !.at = "admitted", !.token = t, !.actor = u, !.read = users[u]]
<1>1. u \in Users /\ users[u] # None /\ users[u] \in Account
  BY DEF Admit, Session, Inv, Owned
<1>2. rec \in Request /\ rec.at = "admitted" /\ rec.actor = u /\ rec.token = t
  BY <1>1, IdleOK DEF Idle, Request
<1>3. Become(r, rec) /\ UNCHANGED <<users, sessions, lock, attempts>>
  BY DEF Admit
<1> HIDE DEF rec
<1>4. Shape(r)'
  BY <1>1, <1>2, <1>3 DEF Become, Shape
<1> QED BY <1>2, <1>3, <1>4, Moves

LEMMA NewAdminSessionOK ==
  ASSUME Inv, NEW r \in Requests, NEW t \in Tokens, NewAdminSession(r, t)
  PROVE  Inv'
<1> USE ReqOK, AccountsAssumption
<1> DEFINE u == req[r].user
           s == [user |-> u, read |-> req[r].read, expired |-> FALSE,
                 overtaken |-> req[r].overtaken \/ RowTaken(u)]
<1>1. u \in Users /\ users[u] # None /\ req[r].read \in Account /\ req[r].overtaken \in BOOLEAN
  BY DEF NewAdminSession, Shape, Request
<1>2. (req[r].overtaken \/ RowTaken(u)) \in BOOLEAN
  BY <1>1 DEF RowTaken
<1>3. s \in Session /\ s.user = u
  BY <1>1, <1>2 DEF Session
<1> HIDE DEF s
<1>4. sessions' = [x \in Tokens |->
        IF x = t /\ SignsIn(u) THEN s
        ELSE IF sessions[x] # None /\ sessions[x].expired THEN None ELSE sessions[x]]
  BY DEF NewAdminSession, s
<1>5. sessions' \in [Tokens -> Session \cup {None}]
  BY <1>3, <1>4
<1>6. Owned'
  BY <1>1, <1>3, <1>4 DEF Inv, Owned, NewAdminSession
<1>7. attempts' \in 0 .. LoginLimit + 1 /\ UNCHANGED <<users, lock>> /\ Become(r, Idle)
  BY DEF NewAdminSession
<1> QED BY <1>5, <1>6, <1>7, Ends

\* What a change leaves of the request that makes it.
LEMMA ChangingOK ==
  ASSUME NEW q \in Request, NEW at \in {"access", "password"}, NEW u \in Users,
         NEW known \in Account, NEW a \in Account, NEW gone \in SUBSET Tokens
  PROVE  /\ [q EXCEPT !.at = at, !.user = u, !.next = a, !.gone = gone] \in Request
         /\ [q EXCEPT !.at = at, !.user = u, !.read = known, !.next = a, !.gone = gone]
              \in Request
  BY DEF Request

\* The accounts when one has been given a role and enabled.
LEMMA WithAccessOK ==
  ASSUME Inv, NEW u \in Users, NEW role \in Roles, NEW on \in BOOLEAN, users[u] # None
  PROVE  /\ WithAccess(u, role, on) = [users EXCEPT ![u] = WithAccess(u, role, on)[u]]
         /\ WithAccess(u, role, on)[u] \in Account
         /\ WithAccess(u, role, on)[u].password = users[u].password
<1>1. users[u] \in Account /\ users \in [Users -> Account \cup {None}]
  BY DEF Inv, TypeOK
<1> QED BY <1>1 DEF WithAccess, Account

LEMMA SetUserAccessOK ==
  ASSUME Inv, NEW r \in Requests, NEW u \in Users, NEW role \in Roles, NEW on \in BOOLEAN,
         SetUserAccess(r, u, role, on)
  PROVE  Inv'
<1> USE ReqOK, AccountsAssumption
<1> DEFINE a == WithAccess(u, role, on)[u]
           rec == [req[r] EXCEPT !.at = "access", !.user = u, !.next = a,
                                 !.gone = SessionsOf(u)]
<1>1. a \in Account /\ users[u] # None /\ SessionsOf(u) \subseteq Tokens
  BY WithAccessOK DEF SetUserAccess, SessionsOf
<1>2. rec \in Request /\ rec.at = "access" /\ rec.user = u /\ rec.next = a
      /\ rec.actor = req[r].actor /\ rec.token = req[r].token
  <2>1. rec \in Request
    BY <1>1, ChangingOK
  <2> QED BY <2>1 DEF Request
<1>3. Become(r, rec) /\ lock = None /\ lock' = r /\ UNCHANGED <<users, sessions, attempts>>
      /\ req[r].at = "admitted"
  BY DEF SetUserAccess, ManagesUsers
<1>4. \A q \in Requests : req[q].at \in {"access", "password"} => req[q].user # u
  BY DEF SetUserAccess, RowTaken
<1> HIDE DEF rec, a
<1>5. Shape(r)'
  BY <1>1, <1>2, <1>3 DEF Become, Shape
<1>6. Owned' /\ \A q \in Requests : req[q].at \notin {"creating", "access"}
  BY <1>3 DEF Inv, Owned, Exclusive
<1> QED BY <1>2, <1>3, <1>4, <1>5, <1>6, Stays

LEMMA ChangeUserPasswordOK ==
  ASSUME Inv, NEW r \in Requests, NEW current \in Passwords, NEW p \in Passwords,
         ChangeUserPassword(r, current, p)
  PROVE  Inv'
<1> USE ReqOK, AccountsAssumption
<1> DEFINE u == req[r].actor
           rec == [req[r] EXCEPT !.at = "password", !.user = u,
                                 !.read = [users[u] EXCEPT !.password = current],
                                 !.next = [users[u] EXCEPT !.password = p],
                                 !.gone = SessionsOf(u)]
<1>1. u \in Users /\ req[r].token \in Tokens /\ users[u] \in Account /\ users[u] # None
  BY DEF ChangeUserPassword, Shape
<1>2. /\ [users[u] EXCEPT !.password = current] \in Account
      /\ [users[u] EXCEPT !.password = p] \in Account
      /\ SessionsOf(u) \subseteq Tokens
  BY <1>1 DEF Account, SessionsOf
<1>3. rec \in Request /\ rec.at = "password" /\ rec.user = u /\ rec.next \in Account
      /\ rec.actor = u /\ rec.token = req[r].token
  <2>1. rec \in Request
    BY <1>1, <1>2, ChangingOK
  <2> QED BY <1>2, <2>1 DEF Request
<1>4. Become(r, rec) /\ UNCHANGED <<users, sessions, lock, attempts>>
  BY DEF ChangeUserPassword
<1>5. \A q \in Requests : req[q].at \in {"access", "password"} => req[q].user # u
  BY DEF ChangeUserPassword, RowTaken
<1> HIDE DEF rec
<1>6. Shape(r)'
  BY <1>1, <1>3, <1>4 DEF Become, Shape
<1>7. Owned' /\ \A q \in Requests : req[q].at \in {"creating", "access"} => lock' = q
  BY <1>4 DEF Inv, Owned, Exclusive
<1> QED BY <1>3, <1>4, <1>5, <1>6, <1>7, Stays
LEMMA CommitUserOK ==
  ASSUME Inv, NEW r \in Requests, CommitUser(r)
  PROVE  Inv'
<1> USE ReqOK, AccountsAssumption
<1> DEFINE u == req[r].user
           rec == IF req[r].actor = None THEN [req[r] EXCEPT !.at = "login"] ELSE Idle
<1>1. u \in Users /\ req[r].next \in Account /\ users[u] = None /\ lock = r
  BY DEF CommitUser, Shape, Inv, Exclusive
<1>2. rec \in Request /\ rec.at \in {"login", "idle"} /\ rec.actor = None
  BY IdleOK DEF Request
<1>3. /\ users' = [users EXCEPT ![u] = req[r].next]
      /\ req' = [req EXCEPT ![r] = rec]
      /\ lock' = None
      /\ UNCHANGED <<sessions, attempts>>
  BY DEF CommitUser, Become
<1> HIDE DEF rec
<1>4. \A v \in Users : users[v] # None => users'[v] # None /\ users'[v] = users[v]
  BY <1>1, <1>3
<1>5. \A q \in Requests : q # r => req'[q] = req[q] /\ req[q].at \notin {"creating", "access"}
  BY <1>1, <1>3 DEF Inv, Exclusive
<1>6. TypeOK'
  <2>1. users' \in [Users -> Account \cup {None}]
    BY <1>1, <1>3
  <2>2. req' \in [Requests -> Request]
    BY <1>2, <1>3
  <2> QED BY <1>3, <2>1, <2>2 DEF Inv, TypeOK
<1>7. ASSUME NEW q \in Requests PROVE Shape(q)'
  <2>1. CASE q = r
    BY <1>2, <1>3, <2>1 DEF Shape
  <2>2. CASE q # r
    BY <1>4, <1>5, <2>2 DEF Shape
  <2> QED BY <2>1, <2>2
<1>8. Exclusive'
  BY <1>2, <1>3, <1>5 DEF Inv, Exclusive
<1>9. Owned'
  BY <1>3, <1>4 DEF Inv, Owned, Session
<1> QED BY <1>6, <1>7, <1>8, <1>9 DEF Inv

\* What the commit of a change does to the requests.
LEMMA CommitChangeReq ==
  ASSUME Inv, NEW r \in Requests, CommitChange(r)
  PROVE  /\ req'[r] = Idle
         /\ req' \in [Requests -> Request]
         /\ \A q \in Requests : q # r =>
              req'[q] = IF req[q].at = "verified" /\ req[q].user = req[r].user
                          THEN [req[q] EXCEPT !.overtaken = TRUE] ELSE req[q]
         /\ \A q \in Requests : q # r /\ req[q].at = "verified" /\ req[q].user = req[r].user
                               => req'[q].overtaken
         /\ \A q \in Requests : q # r =>
              /\ req'[q].at = req[q].at /\ req'[q].actor = req[q].actor
              /\ req'[q].token = req[q].token /\ req'[q].user = req[q].user
              /\ req'[q].read = req[q].read /\ req'[q].next = req[q].next
              /\ req'[q].gone = req[q].gone
<1> USE ReqOK
<1> DEFINE marked(q) == [req[q] EXCEPT !.overtaken = TRUE]
<1>1. ASSUME NEW q \in Requests
      PROVE  /\ marked(q) \in Request /\ marked(q).overtaken
             /\ marked(q).at = req[q].at /\ marked(q).actor = req[q].actor
             /\ marked(q).token = req[q].token /\ marked(q).user = req[q].user
             /\ marked(q).read = req[q].read /\ marked(q).next = req[q].next
             /\ marked(q).gone = req[q].gone
  BY DEF Request
<1> HIDE DEF marked
<1>2. req' = [q \in Requests |->
          IF q = r THEN Idle
          ELSE IF req[q].at = "verified" /\ req[q].user = req[r].user THEN marked(q)
          ELSE req[q]]
  BY DEF CommitChange, marked
<1>3. \A q \in Requests : q # r =>
        req'[q] = IF req[q].at = "verified" /\ req[q].user = req[r].user
                    THEN marked(q) ELSE req[q]
  BY <1>2
<1>4. req' \in [Requests -> Request] /\ req'[r] = Idle
  BY <1>1, <1>2, IdleOK
<1>5. \A q \in Requests : q # r =>
        /\ req'[q].at = req[q].at /\ req'[q].actor = req[q].actor
        /\ req'[q].token = req[q].token /\ req'[q].user = req[q].user
        /\ req'[q].read = req[q].read /\ req'[q].next = req[q].next
        /\ req'[q].gone = req[q].gone
  BY <1>1, <1>3
<1>6. \A q \in Requests : q # r /\ req[q].at = "verified" /\ req[q].user = req[r].user
                         => req'[q].overtaken
  BY <1>1, <1>3
<1> QED BY <1>3, <1>4, <1>5, <1>6 DEF marked

LEMMA CommitChangeOK ==
  ASSUME Inv, NEW r \in Requests, CommitChange(r)
  PROVE  Inv'
<1> USE ReqOK, AccountsAssumption
<1> DEFINE u == req[r].user
<1>1. u \in Users /\ req[r].next \in Account /\ users[u] # None
  BY DEF CommitChange, Shape
<1>2. /\ users' = [users EXCEPT ![u] = req[r].next]
      /\ sessions' = [t \in Tokens |-> IF t \in req[r].gone THEN None ELSE sessions[t]]
      /\ lock' = (IF lock = r THEN None ELSE lock)
      /\ UNCHANGED attempts
  BY DEF CommitChange, SessionsAfter
<1>3. users' \in [Users -> Account \cup {None}]
      /\ \A v \in Users : users'[v] = None <=> users[v] = None
  BY <1>1, <1>2
<1>4. TypeOK'
  BY <1>2, <1>3, CommitChangeReq DEF Inv, TypeOK
<1>5. ASSUME NEW q \in Requests PROVE Shape(q)'
  <2>1. CASE q = r
    BY <2>1, CommitChangeReq, IdleOK DEF Shape
  <2>2. CASE q # r
    BY <1>3, <2>2, CommitChangeReq DEF Shape
  <2> QED BY <2>1, <2>2
<1>6. Exclusive'
  BY <1>2, CommitChangeReq, IdleOK DEF Inv, Exclusive
<1>7. Owned'
  BY <1>2, <1>3 DEF Inv, Owned, Session
<1> QED BY <1>4, <1>5, <1>6, <1>7 DEF Inv

LEMMA InvNext == Inv /\ [Next]_vars => Inv'
<1> SUFFICES ASSUME Inv, [Next]_vars PROVE Inv'
  OBVIOUS
<1>1. CASE UNCHANGED vars
  BY <1>1 DEF vars, Inv, TypeOK, Shape, Exclusive, Owned
<1>2. ASSUME NEW r \in Requests, SignIn(r) PROVE Inv'
  BY <1>2, SubmitAuthOK, CreateAdminOK, AuthenticateOK, NewAdminSessionOK DEF SignIn
<1>3. ASSUME NEW r \in Requests, SignedIn(r) PROVE Inv'
  BY <1>3, AdmitOK, LogoutOK, CreateUserOK, SetUserAccessOK, ChangeUserPasswordOK DEF SignedIn
<1> QED BY <1>1, <1>2, <1>3, WindowEndsOK, ExpireOK, CommitUserOK, CommitChangeOK, GiveUpOK
        DEF Next

\* Every table, the lock and every request have their shape, for any users,
\* passwords, sessions and overlapping requests (internal/store/admin.go).
THEOREM TypeCorrect == Spec => []TypeOK
<1>1. Spec => []Inv
  BY InvInit, InvNext, PTL DEF Spec
<1> QED BY <1>1, PTL DEF Inv
-----------------------------------------------------------------------------
(* Sessions end with the access and the password they were opened with.    *)

\* A login that nothing has overtaken holds the account as it is, and a change
\* under way deletes every session of its user but those it will overtake.
Follow ==
  /\ SessionsFollowChanges
  /\ \A r \in Requests :
       /\ req[r].at = "verified" /\ ~req[r].overtaken => req[r].read = users[req[r].user]
       /\ req[r].at \in {"access", "password"} =>
            \A t \in Tokens :
              sessions[t] # None /\ sessions[t].user = req[r].user /\ ~sessions[t].overtaken
                => t \in req[r].gone

LEMMA FollowInit == Init => Follow
  BY IdleOK DEF Init, Follow, SessionsFollowChanges

\* Sessions that are left are as they were, but for their expiry.
Fewer == \A t \in Tokens : sessions'[t] # None =>
  /\ sessions[t] # None
  /\ sessions'[t].user = sessions[t].user
  /\ sessions'[t].read = sessions[t].read
  /\ sessions'[t].overtaken = sessions[t].overtaken

\* A step of one request that opens no session and changes no account.
LEMMA FollowStays ==
  ASSUME Inv, Follow, NEW r \in Requests, NEW rec, Become(r, rec), UNCHANGED users, Fewer,
         rec.at = "verified" => rec.read = users[rec.user],
         rec.at \in {"access", "password"} => rec.gone = SessionsOf(rec.user)
  PROVE  Follow'
<1>1. req'[r] = rec /\ \A q \in Requests : q # r => req'[q] = req[q]
  BY ReqOK DEF Become
<1>2. SessionsFollowChanges'
  BY DEF Follow, SessionsFollowChanges, Fewer
<1>3. ASSUME NEW q \in Requests
      PROVE  /\ req'[q].at = "verified" /\ ~req'[q].overtaken
                  => req'[q].read = users'[req'[q].user]
             /\ req'[q].at \in {"access", "password"} =>
                  \A t \in Tokens :
                    sessions'[t] # None /\ sessions'[t].user = req'[q].user
                      /\ ~sessions'[t].overtaken => t \in req'[q].gone
  <2>1. CASE q = r
    BY <1>1, <2>1 DEF Fewer, SessionsOf
  <2>2. CASE q # r
    BY <1>1, <2>2 DEF Fewer, Follow
  <2> QED BY <2>1, <2>2
<1> QED BY <1>2, <1>3 DEF Follow

\* The same for a step that changes no request.
LEMMA FollowClock ==
  ASSUME Follow, UNCHANGED <<users, req>>, Fewer
  PROVE  Follow'
  BY DEF Follow, SessionsFollowChanges, Fewer

LEMMA FollowSameSessions == UNCHANGED sessions => Fewer
  BY DEF Fewer

LEMMA FollowSignIn ==
  ASSUME Inv, Follow, NEW r \in Requests, SignIn(r)
  PROVE  Follow'
<1> USE ReqOK
<1>1. CASE SubmitAuth(r)
  <2> DEFINE rec == [Idle EXCEPT !.at = IF Configured THEN "login" ELSE "setup"]
  <2>1. UNCHANGED <<users, sessions>> /\ (UNCHANGED req \/ Become(r, rec))
    BY <1>1 DEF SubmitAuth
  <2>2. rec.at \in {"login", "setup"}
    BY DEF Idle
  <2> HIDE DEF rec
  <2> QED BY <2>1, <2>2, FollowStays, FollowClock, FollowSameSessions
<1>2. ASSUME NEW u \in Users, NEW p \in Passwords, CreateAdmin(r, u, p)
      PROVE  Follow'
  <2> DEFINE rec == [req[r] EXCEPT !.at = "creating", !.user = u,
        !.next = [role |-> "admin", enabled |-> TRUE, password |-> p]]
  <2>1. Become(r, rec) /\ UNCHANGED <<users, sessions>>
    BY <1>2 DEF CreateAdmin, InsertUser
  <2>2. rec.at = "creating"
    BY DEF Request
  <2> HIDE DEF rec
  <2> QED BY <2>1, <2>2, FollowStays, FollowSameSessions
<1>3. ASSUME NEW u \in Users, NEW p \in Passwords, Authenticate(r, u, p)
      PROVE  Follow'
  <2> DEFINE rec == [Idle EXCEPT !.at = "verified", !.user = u, !.read = users[u]]
  <2>1. Become(r, rec) /\ UNCHANGED <<users, sessions>>
    BY <1>3 DEF Authenticate
  <2>2. rec.at = "verified" /\ rec.read = users[rec.user]
    BY DEF Idle
  <2> HIDE DEF rec
  <2> QED BY <2>1, <2>2, FollowStays, FollowSameSessions
<1>4. ASSUME NEW t \in Tokens, NewAdminSession(r, t)
      PROVE  Follow'
  <2> DEFINE u == req[r].user
             s == [user |-> u, read |-> req[r].read, expired |-> FALSE,
                   overtaken |-> req[r].overtaken \/ RowTaken(u)]
  <2>1. /\ req' = [req EXCEPT ![r] = Idle]
        /\ UNCHANGED users
        /\ req[r].at = "verified"
        /\ sessions[t] = None
    BY <1>4 DEF NewAdminSession, Become
  <2>2. \A x \in Tokens : sessions'[x] # None =>
          \/ x = t /\ sessions'[x] = s
          \/ sessions[x] # None /\ sessions'[x] = sessions[x]
    BY <1>4 DEF NewAdminSession
  <2>3. s.overtaken <=> (req[r].overtaken \/ RowTaken(u))
    OBVIOUS
  <2>4. s.user = u /\ s.read = req[r].read
    OBVIOUS
  <2>5. ~s.overtaken => s.read = users[u]
    BY <2>1, <2>3, <2>4 DEF Follow
  <2> HIDE DEF s
  <2>6. SessionsFollowChanges'
    BY <2>1, <2>2, <2>4, <2>5 DEF Follow, SessionsFollowChanges
  <2>7. ASSUME NEW q \in Requests, req'[q].at \in {"access", "password"},
               NEW x \in Tokens, sessions'[x] # None, sessions'[x].user = req'[q].user,
               ~sessions'[x].overtaken
        PROVE  x \in req'[q].gone
    <3>1. q # r /\ req'[q] = req[q]
      BY <2>1, <2>7, IdleOK
    <3>2. sessions'[x] # s
      BY <2>3, <2>4, <2>7, <3>1 DEF RowTaken
    <3> QED BY <2>2, <2>7, <3>1, <3>2 DEF Follow
  <2>8. \A q \in Requests : req'[q].at = "verified" /\ ~req'[q].overtaken
                             => req'[q].read = users'[req'[q].user]
    BY <2>1, IdleOK DEF Follow
  <2> QED BY <2>6, <2>7, <2>8 DEF Follow
<1> QED BY <1>1, <1>2, <1>3, <1>4 DEF SignIn
LEMMA FollowSignedIn ==
  ASSUME Inv, Follow, NEW r \in Requests, SignedIn(r)
  PROVE  Follow'
<1> USE ReqOK
<1>1. ASSUME NEW t \in Tokens, Admit(r, t)
      PROVE  Follow'
  <2> DEFINE rec == [Idle EXCEPT !.at = "admitted", !.token = t, !.actor = sessions[t].user,
                                 !.read = users[sessions[t].user]]
  <2>1. Become(r, rec) /\ UNCHANGED <<users, sessions>>
    BY <1>1 DEF Admit
  <2>2. rec.at = "admitted"
    BY DEF Idle
  <2> HIDE DEF rec
  <2> QED BY <2>1, <2>2, FollowStays, FollowSameSessions
<1>2. CASE Logout(r)
  <2>1. Become(r, Idle) /\ UNCHANGED users /\ Fewer
    BY <1>2 DEF Logout, Fewer
  <2> QED BY <2>1, IdleOK, FollowStays
<1>3. ASSUME NEW u \in Users, NEW p \in Passwords, NEW role \in Roles, CreateUser(r, u, p, role)
      PROVE  Follow'
  <2> DEFINE rec == [req[r] EXCEPT !.at = "creating", !.user = u,
        !.next = [role |-> role, enabled |-> TRUE, password |-> p]]
  <2>1. Become(r, rec) /\ UNCHANGED <<users, sessions>>
    BY <1>3 DEF CreateUser, InsertUser
  <2>2. rec.at = "creating"
    BY DEF Request
  <2> HIDE DEF rec
  <2> QED BY <2>1, <2>2, FollowStays, FollowSameSessions
<1>4. ASSUME NEW u \in Users, NEW role \in Roles, NEW on \in BOOLEAN,
             SetUserAccess(r, u, role, on)
      PROVE  Follow'
  <2> DEFINE rec == [req[r] EXCEPT !.at = "access", !.user = u,
        !.next = WithAccess(u, role, on)[u], !.gone = SessionsOf(u)]
  <2>1. Become(r, rec) /\ UNCHANGED <<users, sessions>>
    BY <1>4 DEF SetUserAccess
  <2>2. rec.at = "access" /\ rec.user = u /\ rec.gone = SessionsOf(u)
    BY DEF Request
  <2> HIDE DEF rec
  <2> QED BY <2>1, <2>2, FollowStays, FollowSameSessions
<1>5. ASSUME NEW current \in Passwords, NEW p \in Passwords, ChangeUserPassword(r, current, p)
      PROVE  Follow'
  <2> DEFINE u == req[r].actor
             rec == [req[r] EXCEPT !.at = "password", !.user = u,
               !.read = [users[u] EXCEPT !.password = current],
               !.next = [users[u] EXCEPT !.password = p], !.gone = SessionsOf(u)]
  <2>1. Become(r, rec) /\ UNCHANGED <<users, sessions>>
    BY <1>5 DEF ChangeUserPassword
  <2>2. rec.at = "password" /\ rec.user = u /\ rec.gone = SessionsOf(u)
    BY DEF Request
  <2> HIDE DEF rec
  <2> QED BY <2>1, <2>2, FollowStays, FollowSameSessions
<1> QED BY <1>1, <1>2, <1>3, <1>4, <1>5 DEF SignedIn

\* A new account has no session, and nobody has read it.
LEMMA FollowCommitUser ==
  ASSUME Inv, Follow, NEW r \in Requests, CommitUser(r)
  PROVE  Follow'
<1> USE ReqOK, AccountsAssumption
<1> DEFINE u == req[r].user
           rec == IF req[r].actor = None THEN [req[r] EXCEPT !.at = "login"] ELSE Idle
<1>1. u \in Users /\ users[u] = None
  BY DEF CommitUser, Shape
<1>2. rec.at \in {"login", "idle"}
  BY IdleOK DEF Request
<1>3. /\ users' = [users EXCEPT ![u] = req[r].next]
      /\ req' = [req EXCEPT ![r] = rec]
      /\ UNCHANGED sessions
  BY DEF CommitUser, Become
<1> HIDE DEF rec
<1>4. \A v \in Users : users[v] # None => users'[v] = users[v]
  BY <1>1, <1>3
<1>5. SessionsFollowChanges'
  BY <1>3, <1>4 DEF Inv, Owned, Follow, SessionsFollowChanges, Session
<1>6. ASSUME NEW q \in Requests
      PROVE  /\ req'[q].at = "verified" /\ ~req'[q].overtaken
                  => req'[q].read = users'[req'[q].user]
             /\ req'[q].at \in {"access", "password"} =>
                  \A t \in Tokens :
                    sessions'[t] # None /\ sessions'[t].user = req'[q].user
                      /\ ~sessions'[t].overtaken => t \in req'[q].gone
  <2>1. CASE q = r
    BY <1>2, <1>3, <2>1
  <2>2. CASE q # r
    BY <1>3, <1>4, <2>2 DEF Follow, Shape
  <2> QED BY <2>1, <2>2
<1> QED BY <1>5, <1>6 DEF Follow

\* The sessions of the account that has changed are gone, and logins of it are
\* overtaken.
LEMMA FollowCommitChange ==
  ASSUME Inv, Follow, NEW r \in Requests, CommitChange(r)
  PROVE  Follow'
<1> USE ReqOK, AccountsAssumption
<1> DEFINE u == req[r].user
<1>1. u \in Users /\ req[r].at \in {"access", "password"}
  BY DEF CommitChange, Shape
<1>2. /\ users' = [users EXCEPT ![u] = req[r].next]
      /\ sessions' = [t \in Tokens |-> IF t \in req[r].gone THEN None ELSE sessions[t]]
  BY DEF CommitChange, SessionsAfter
<1>3. \A t \in Tokens : sessions'[t] # None =>
        t \notin req[r].gone /\ sessions[t] # None /\ sessions'[t] = sessions[t]
  BY <1>2
<1>4. ASSUME NEW t \in Tokens, sessions'[t] # None, ~sessions'[t].overtaken
      PROVE  sessions'[t].read = users'[sessions'[t].user]
  <2>1. t \notin req[r].gone /\ sessions[t] # None /\ sessions'[t] = sessions[t]
    BY <1>3, <1>4
  <2>2. sessions[t].user # u
    BY <1>1, <1>4, <2>1 DEF Follow
  <2>3. sessions[t].user \in Users
    BY <2>1 DEF Session
  <2> QED BY <1>2, <1>4, <2>1, <2>2, <2>3 DEF Follow, SessionsFollowChanges
<1>5. \A q \in Requests : q # r /\ req[q].at = "verified" /\ req[q].user = u
                           => req'[q].overtaken
  BY CommitChangeReq
<1>6. \A q \in Requests : q # r /\ req[q].at = "verified" /\ req[q].user # u
                           => req'[q] = req[q]
  BY CommitChangeReq
<1>7. ASSUME NEW q \in Requests, req'[q].at = "verified", ~req'[q].overtaken
      PROVE  req'[q].read = users'[req'[q].user]
  <2>1. q # r /\ req[q].at = "verified"
    BY <1>7, IdleOK, CommitChangeReq
  <2>2. req[q].user # u /\ req'[q] = req[q]
    BY <1>5, <1>6, <1>7, <2>1
  <2> QED BY <1>2, <1>7, <2>1, <2>2 DEF Follow, Shape
<1>8. ASSUME NEW q \in Requests, req'[q].at \in {"access", "password"},
             NEW t \in Tokens, sessions'[t] # None, sessions'[t].user = req'[q].user,
             ~sessions'[t].overtaken
      PROVE  t \in req'[q].gone
  BY <1>3, <1>8, IdleOK, CommitChangeReq DEF Follow
<1> QED BY <1>4, <1>7, <1>8 DEF Follow, SessionsFollowChanges

LEMMA FollowNext == Inv /\ Follow /\ [Next]_vars => Follow'
<1> SUFFICES ASSUME Inv, Follow, [Next]_vars PROVE Follow'
  OBVIOUS
<1>1. CASE UNCHANGED vars
  BY <1>1, FollowClock, FollowSameSessions DEF vars
<1>2. CASE WindowEnds
  BY <1>2, FollowClock, FollowSameSessions DEF WindowEnds
<1>3. ASSUME NEW t \in Tokens, Expire(t) PROVE Follow'
  <2>1. sessions[t] \in Session /\ sessions \in [Tokens -> Session \cup {None}]
    BY <1>3 DEF Inv, TypeOK, Expire
  <2>2. Fewer /\ UNCHANGED <<users, req>>
    BY <1>3, <2>1 DEF Expire, Fewer, Session
  <2> QED BY <2>2, FollowClock
<1>4. ASSUME NEW r \in Requests, GiveUp(r) PROVE Follow'
  BY <1>4, IdleOK, FollowStays, FollowSameSessions DEF GiveUp
<1> QED BY <1>1, <1>2, <1>3, <1>4, FollowSignIn, FollowSignedIn, FollowCommitUser,
           FollowCommitChange DEF Next

\* A session that no change overtook on its way in was opened with the access
\* and the password its user has now (NewAdminSession, SetUserAccess and
\* ChangeUserPassword in internal/store/admin.go).
THEOREM SessionsFollow == Spec => []SessionsFollowChanges
<1>1. Init => Inv /\ Follow
  BY InvInit, FollowInit
<1>2. Inv /\ Follow /\ [Next]_vars => (Inv /\ Follow)'
  BY InvNext, FollowNext
<1>3. Inv /\ Follow => SessionsFollowChanges
  BY DEF Follow
<1> QED BY <1>1, <1>2, <1>3, PTL DEF Spec
-----------------------------------------------------------------------------
(* The accounts are the register, and passwords are compared.              *)

SameAccess(a, b) == a.role = b.role /\ a.enabled = b.enabled

\* What a transaction will commit: setup the first administrator, an active
\* administrator an account or the access of one, and a change of a password
\* nothing but a password, compared with the one that is replaced.
Pending(r) ==
  LET q == req[r]
  IN /\ q.at = "creating" =>
          /\ q.next.enabled = TRUE
          /\ q.actor = None => ~Configured /\ q.next.role = "admin"
          /\ q.actor # None => q.actor \in Users /\ ActiveAdmin(users[q.actor])
     /\ q.at = "access" =>
          /\ ActiveAdmin(users[q.actor])
          /\ q.next.password = users[q.user].password
          /\ \E v \in Users : ActiveAdmin([users EXCEPT ![q.user] = q.next][v])
     /\ q.at = "password" =>
          SameAccess(q.next, users[q.user]) /\ q.read.password = users[q.user].password

AdminRemains == Configured => \E v \in Users : ActiveAdmin(users[v])

Agreed == (\A r \in Requests : Pending(r)) /\ AdminRemains

LEMMA AgreedInit == Init => Agreed
  BY IdleOK DEF Init, Agreed, Pending, AdminRemains, Configured

\* A step that changes no account.
LEMMA AgreedStays ==
  ASSUME Inv, Agreed, NEW r \in Requests, NEW rec, Become(r, rec), UNCHANGED users,
         rec.at \in {"creating", "access", "password"} => Pending(r)'
  PROVE  Agreed'
<1>1. req'[r] = rec /\ \A q \in Requests : q # r => req'[q] = req[q]
  BY ReqOK DEF Become
<1>2. ASSUME NEW q \in Requests PROVE Pending(q)'
  <2>1. CASE q = r
    BY <1>1, <2>1 DEF Pending
  <2>2. CASE q # r
    BY <1>1, <2>2 DEF Agreed, Pending, Configured, ActiveAdmin, SameAccess
  <2> QED BY <2>1, <2>2
<1>3. AdminRemains'
  BY DEF Agreed, AdminRemains, Configured, ActiveAdmin
<1> QED BY <1>2, <1>3 DEF Agreed

LEMMA AgreedClock == Agreed /\ UNCHANGED <<users, req>> => Agreed'
  BY DEF Agreed, Pending, AdminRemains, Configured, ActiveAdmin, SameAccess

LEMMA AgreedSignIn ==
  ASSUME Inv, Agreed, NEW r \in Requests, SignIn(r)
  PROVE  Agreed'
<1> USE ReqOK, AccountsAssumption
<1>1. CASE SubmitAuth(r)
  <2> DEFINE rec == [Idle EXCEPT !.at = IF Configured THEN "login" ELSE "setup"]
  <2>1. UNCHANGED users /\ (UNCHANGED req \/ Become(r, rec))
    BY <1>1 DEF SubmitAuth
  <2>2. rec.at \in {"login", "setup"}
    BY DEF Idle
  <2> HIDE DEF rec
  <2> QED BY <2>1, <2>2, AgreedStays, AgreedClock
<1>2. ASSUME NEW u \in Users, NEW p \in Passwords, CreateAdmin(r, u, p)
      PROVE  Agreed'
  <2> DEFINE a == [role |-> "admin", enabled |-> TRUE, password |-> p]
             rec == [req[r] EXCEPT !.at = "creating", !.user = u, !.next = a]
  <2>1. Become(r, rec) /\ UNCHANGED users /\ req[r].at = "setup" /\ ~Configured
    BY <1>2 DEF CreateAdmin, InsertUser, StillUnconfigured
  <2>2. rec.at = "creating" /\ rec.next = a /\ rec.actor = None
    BY <2>1 DEF Request, Shape
  <2>3. a.enabled = TRUE /\ a.role = "admin"
    OBVIOUS
  <2> HIDE DEF rec, a
  <2>4. Pending(r)'
    BY <2>1, <2>2, <2>3 DEF Become, Pending, Configured
  <2> QED BY <2>1, <2>4, AgreedStays
<1>3. ASSUME NEW u \in Users, NEW p \in Passwords, Authenticate(r, u, p)
      PROVE  Agreed'
  <2> DEFINE rec == [Idle EXCEPT !.at = "verified", !.user = u, !.read = users[u]]
  <2>1. Become(r, rec) /\ UNCHANGED users
    BY <1>3 DEF Authenticate
  <2>2. rec.at = "verified"
    BY DEF Idle
  <2> HIDE DEF rec
  <2> QED BY <2>1, <2>2, AgreedStays
<1>4. ASSUME NEW t \in Tokens, NewAdminSession(r, t)
      PROVE  Agreed'
  BY <1>4, IdleOK, AgreedStays DEF NewAdminSession
<1> QED BY <1>1, <1>2, <1>3, <1>4 DEF SignIn

LEMMA AgreedSignedIn ==
  ASSUME Inv, Agreed, NEW r \in Requests, SignedIn(r)
  PROVE  Agreed'
<1> USE ReqOK, AccountsAssumption
<1>1. ASSUME NEW t \in Tokens, Admit(r, t)
      PROVE  Agreed'
  <2> DEFINE rec == [Idle EXCEPT !.at = "admitted", !.token = t, !.actor = sessions[t].user,
                                 !.read = users[sessions[t].user]]
  <2>1. Become(r, rec) /\ UNCHANGED users
    BY <1>1 DEF Admit
  <2>2. rec.at = "admitted"
    BY DEF Idle
  <2> HIDE DEF rec
  <2> QED BY <2>1, <2>2, AgreedStays
<1>2. CASE Logout(r)
  BY <1>2, IdleOK, AgreedStays DEF Logout
<1>3. ASSUME NEW u \in Users, NEW p \in Passwords, NEW role \in Roles, CreateUser(r, u, p, role)
      PROVE  Agreed'
  <2> DEFINE a == [role |-> role, enabled |-> TRUE, password |-> p]
             rec == [req[r] EXCEPT !.at = "creating", !.user = u, !.next = a]
  <2>1. /\ Become(r, rec) /\ UNCHANGED users
        /\ req[r].actor \in Users /\ ActiveAdmin(users[req[r].actor])
    BY <1>3 DEF CreateUser, ManagesUsers, Authorized, InsertUser, Shape
  <2>2. rec.at = "creating" /\ rec.next = a /\ rec.actor = req[r].actor
    BY DEF Request
  <2>3. a.enabled = TRUE
    OBVIOUS
  <2> HIDE DEF rec, a
  <2>4. Pending(r)'
    BY <2>1, <2>2, <2>3 DEF Become, Pending, ActiveAdmin
  <2> QED BY <2>1, <2>4, AgreedStays
<1>4. ASSUME NEW u \in Users, NEW role \in Roles, NEW on \in BOOLEAN,
             SetUserAccess(r, u, role, on)
      PROVE  Agreed'
  <2> DEFINE a == WithAccess(u, role, on)[u]
             rec == [req[r] EXCEPT !.at = "access", !.user = u, !.next = a,
                                   !.gone = SessionsOf(u)]
  <2>1. /\ Become(r, rec) /\ UNCHANGED users /\ users[u] # None
        /\ ActiveAdmin(users[req[r].actor])
        /\ \E v \in Users : ActiveAdmin(WithAccess(u, role, on)[v])
    BY <1>4 DEF SetUserAccess, ManagesUsers, Authorized
  <2>2. rec.at = "access" /\ rec.user = u /\ rec.next = a /\ rec.actor = req[r].actor
    BY DEF Request
  <2>3. a.password = users[u].password /\ WithAccess(u, role, on) = [users EXCEPT ![u] = a]
    BY <2>1, WithAccessOK
  <2> HIDE DEF rec, a
  <2>4. Pending(r)'
    BY <2>1, <2>2, <2>3 DEF Become, Pending, ActiveAdmin
  <2> QED BY <2>1, <2>4, AgreedStays
<1>5. ASSUME NEW current \in Passwords, NEW p \in Passwords, ChangeUserPassword(r, current, p)
      PROVE  Agreed'
  <2> DEFINE u == req[r].actor
             known == [users[u] EXCEPT !.password = current]
             a == [users[u] EXCEPT !.password = p]
             rec == [req[r] EXCEPT !.at = "password", !.user = u, !.read = known,
                                   !.next = a, !.gone = SessionsOf(u)]
  <2>1. /\ Become(r, rec) /\ UNCHANGED users /\ users[u].password = current
        /\ u \in Users /\ users[u] \in Account
    BY <1>5 DEF ChangeUserPassword, KnowsPassword, Shape
  <2>2. rec.at = "password" /\ rec.user = u /\ rec.next = a /\ rec.read = known
    BY DEF Request
  <2>3. known.password = current /\ SameAccess(a, users[u])
    BY <2>1 DEF Account, SameAccess
  <2> HIDE DEF rec, a, known
  <2>4. Pending(r)'
    BY <2>1, <2>2, <2>3 DEF Become, Pending, SameAccess
  <2> QED BY <2>1, <2>4, AgreedStays
<1> QED BY <1>1, <1>2, <1>3, <1>4, <1>5 DEF SignedIn
LEMMA AgreedCommitUser ==
  ASSUME Inv, Agreed, NEW r \in Requests, CommitUser(r)
  PROVE  Agreed'
<1> USE ReqOK, AccountsAssumption
<1> DEFINE u == req[r].user
           a == req[r].next
           rec == IF req[r].actor = None THEN [req[r] EXCEPT !.at = "login"] ELSE Idle
<1>1. /\ u \in Users /\ users[u] = None /\ a \in Account /\ lock = r /\ a.enabled = TRUE
      /\ req[r].actor = None => a.role = "admin"
      /\ req[r].actor # None => req[r].actor \in Users /\ ActiveAdmin(users[req[r].actor])
  BY DEF CommitUser, Shape, Agreed, Pending, Inv, Exclusive
<1>2. rec.at \in {"login", "idle"}
  BY IdleOK DEF Request
<1>3. users' = [users EXCEPT ![u] = a] /\ req' = [req EXCEPT ![r] = rec]
  BY DEF CommitUser, Become
<1> HIDE DEF rec, a
<1>4. \A v \in Users : users[v] # None => users'[v] = users[v]
  BY <1>1, <1>3
<1>5. \A q \in Requests : q # r => req'[q] = req[q] /\ req[q].at \notin {"creating", "access"}
  BY <1>1, <1>3 DEF Inv, Exclusive
<1>6. ASSUME NEW q \in Requests PROVE Pending(q)'
  <2>1. CASE q = r
    BY <1>2, <1>3, <2>1 DEF Pending
  <2>2. CASE q # r
    <3>1. req'[q] = req[q] /\ req[q].at \notin {"creating", "access"} /\ Shape(q) /\ Pending(q)
      BY <1>5, <2>2 DEF Agreed
    <3> QED BY <1>4, <3>1 DEF Pending, Shape, SameAccess
  <2> QED BY <2>1, <2>2
<1>7. \E v \in Users : ActiveAdmin(users'[v])
  <2>1. CASE req[r].actor = None
    BY <1>1, <1>3, <2>1 DEF ActiveAdmin, Account
  <2>2. CASE req[r].actor # None
    BY <1>1, <1>4, <2>2 DEF ActiveAdmin
  <2> QED BY <2>1, <2>2
<1> QED BY <1>6, <1>7 DEF Agreed, AdminRemains, ActiveAdmin

\* What a change leaves of the accounts, by its kind.
LEMMA CommitChangeUsers ==
  ASSUME Inv, Agreed, NEW r \in Requests, CommitChange(r)
  PROVE  /\ req[r].user \in Users /\ users[req[r].user] # None /\ req[r].next \in Account
         /\ users' = [users EXCEPT ![req[r].user] = req[r].next]
         /\ \A v \in Users : v # req[r].user => users'[v] = users[v]
         /\ users'[req[r].user] = req[r].next
         /\ \/ /\ req[r].at = "access" /\ lock = r
               /\ req[r].next.password = users[req[r].user].password
            \/ /\ req[r].at = "password"
               /\ req[r].read.password = users[req[r].user].password
               /\ \A v \in Users : users[v] # None =>
                    users'[v] # None /\ SameAccess(users'[v], users[v])
<1> USE ReqOK, AccountsAssumption
<1> DEFINE u == req[r].user
<1>1. u \in Users /\ users[u] # None /\ req[r].next \in Account
      /\ req[r].at \in {"access", "password"}
  BY DEF CommitChange, Shape
<1>2. users' = [users EXCEPT ![u] = req[r].next]
  BY DEF CommitChange
<1>3. \A v \in Users : v # u => users'[v] = users[v]
  BY <1>2
<1>4. users'[u] = req[r].next /\ Pending(r)
  BY <1>1, <1>2 DEF Agreed
<1>5. CASE req[r].at = "access"
  BY <1>1, <1>2, <1>3, <1>4, <1>5 DEF Pending, Inv, Exclusive
<1>6. CASE req[r].at = "password"
  <2>1. req[r].read.password = users[u].password /\ SameAccess(users'[u], users[u])
    BY <1>4, <1>6 DEF Pending
  <2>2. \A v \in Users : users[v] # None => users'[v] # None /\ SameAccess(users'[v], users[v])
    BY <1>1, <1>3, <1>4, <2>1 DEF SameAccess
  <2> QED BY <1>1, <1>2, <1>3, <1>4, <1>6, <2>1, <2>2
<1> QED BY <1>1, <1>5, <1>6

LEMMA AgreedCommitChange ==
  ASSUME Inv, Agreed, NEW r \in Requests, CommitChange(r)
  PROVE  Agreed'
<1> USE ReqOK, AccountsAssumption
<1> DEFINE u == req[r].user
<1>1. req[r].at \in {"access", "password"}
  BY DEF CommitChange
<1>2. \A q \in Requests : q # r /\ req[q].at \in {"access", "password"} => req[q].user # u
  BY <1>1 DEF Inv, Exclusive
<1>3. \A v \in Users : users[v] # None /\ v # u => users'[v] = users[v]
  BY CommitChangeUsers
<1>4. ASSUME req[r].at = "password", NEW v \in Users, ActiveAdmin(users[v])
      PROVE  ActiveAdmin(users'[v])
  BY <1>4, CommitChangeUsers DEF SameAccess, ActiveAdmin
<1>5. ASSUME NEW q \in Requests PROVE Pending(q)'
  <2>1. CASE q = r
    BY <2>1, CommitChangeReq, IdleOK DEF Pending
  <2>2. CASE q # r /\ req[q].at = "password"
    BY <1>2, <1>3, <2>2, CommitChangeReq DEF Pending, Agreed, Shape, SameAccess
  <2>3. CASE q # r /\ req[q].at \in {"creating", "access"}
    <3>1. req[r].at = "password"
      BY <2>3, CommitChangeUsers DEF Inv, Exclusive
    <3>2. /\ req'[q].at = req[q].at /\ req'[q].actor = req[q].actor
          /\ req'[q].user = req[q].user /\ req'[q].next = req[q].next
          /\ Pending(q) /\ Shape(q) /\ Configured
      BY <2>3, CommitChangeReq, CommitChangeUsers DEF Agreed, Configured
    <3>3. CASE req[q].at = "creating"
      BY <1>4, <3>1, <3>2, <3>3 DEF Pending
    <3>4. CASE req[q].at = "access"
      <4>1. req[q].user \in Users /\ users'[req[q].user] = users[req[q].user]
            /\ req[q].actor \in Users
        BY <1>2, <1>3, <2>3, <3>2, <3>4 DEF Shape
      <4>2. PICK v \in Users : ActiveAdmin([users EXCEPT ![req[q].user] = req[q].next][v])
        BY <3>2, <3>4 DEF Pending
      <4>3. users' \in [Users -> Account \cup {None}]
        BY CommitChangeUsers
      <4>4. ActiveAdmin([users' EXCEPT ![req[q].user] = req[q].next][v])
        <5>1. CASE v = req[q].user
          BY <4>2, <4>3, <5>1
        <5>2. CASE v # req[q].user
          BY <1>4, <3>1, <4>2, <4>3, <5>2
        <5> QED BY <5>1, <5>2
      <4> QED BY <1>4, <3>1, <3>2, <3>4, <4>1, <4>4 DEF Pending
    <3> QED BY <2>3, <3>3, <3>4
  <2>4. CASE q # r /\ req[q].at \notin {"creating", "access", "password"}
    BY <2>4, CommitChangeReq DEF Pending
  <2> QED BY <2>1, <2>2, <2>3, <2>4
<1>6. \E v \in Users : ActiveAdmin(users'[v])
  <2>1. CASE req[r].at = "access"
    BY <2>1, CommitChangeUsers DEF Agreed, Pending
  <2>2. CASE req[r].at = "password"
    BY <1>4, <2>2, CommitChangeUsers DEF Agreed, AdminRemains, Configured
  <2> QED BY <1>1, <2>1, <2>2
<1> QED BY <1>5, <1>6 DEF Agreed, AdminRemains, ActiveAdmin

LEMMA AgreedNext == Inv /\ Agreed /\ [Next]_vars => Agreed'
<1> SUFFICES ASSUME Inv, Agreed, [Next]_vars PROVE Agreed'
  OBVIOUS
<1>1. CASE UNCHANGED vars
  BY <1>1, AgreedClock DEF vars
<1>2. CASE WindowEnds
  BY <1>2, AgreedClock DEF WindowEnds
<1>3. ASSUME NEW t \in Tokens, Expire(t) PROVE Agreed'
  BY <1>3, AgreedClock DEF Expire
<1>4. ASSUME NEW r \in Requests, GiveUp(r) PROVE Agreed'
  BY <1>4, IdleOK, AgreedStays DEF GiveUp
<1> QED BY <1>1, <1>2, <1>3, <1>4, AgreedSignIn, AgreedSignedIn, AgreedCommitUser,
           AgreedCommitChange DEF Next
\* Only commits change an account.
LEMMA UsersStep ==
  ASSUME [Next]_vars
  PROVE  UNCHANGED users \/ \E r \in Requests : CommitUser(r) \/ CommitChange(r)
<1>1. CASE UNCHANGED vars
  BY <1>1 DEF vars
<1>2. ASSUME NEW r \in Requests, SignIn(r) PROVE UNCHANGED users
  BY <1>2 DEF SignIn, SubmitAuth, CreateAdmin, InsertUser, Authenticate, NewAdminSession
<1>3. ASSUME NEW r \in Requests, SignedIn(r) PROVE UNCHANGED users
  BY <1>3 DEF SignedIn, Admit, Logout, CreateUser, InsertUser, SetUserAccess, ChangeUserPassword
<1> QED BY <1>1, <1>2, <1>3 DEF Next, WindowEnds, Expire, GiveUp

\* A password is replaced only by a request that was compared with it, locked
\* (ChangeUserPassword in internal/store/admin.go).
THEOREM PasswordsAreCompared == Spec => PasswordChangesAreCompared
<1> DEFINE Compared == \A u \in Users :
      users[u] # None /\ users'[u].password # users[u].password
        => \E r \in Requests : /\ req[r].at = "password"
                               /\ req[r].user = u
                               /\ req[r].read.password = users[u].password
<1>1. Inv /\ Agreed /\ [Next]_vars => Compared
  <2> SUFFICES ASSUME Inv, Agreed, [Next]_vars PROVE Compared
    OBVIOUS
  <2>1. CASE UNCHANGED users
    BY <2>1
  <2>2. ASSUME NEW r \in Requests, CommitUser(r) PROVE Compared
    <3>1. req[r].user \in Users /\ users[req[r].user] = None
          /\ users' = [users EXCEPT ![req[r].user] = req[r].next]
      BY <2>2, ReqOK DEF CommitUser, Shape
    <3> QED BY <3>1, ReqOK
  <2>3. ASSUME NEW r \in Requests, CommitChange(r) PROVE Compared
    BY <2>3, CommitChangeUsers
  <2> QED BY <2>1, <2>2, <2>3, UsersStep
<1>2. Init => Inv /\ Agreed
  BY InvInit, AgreedInit
<1>3. Inv /\ Agreed /\ [Next]_vars => (Inv /\ Agreed)'
  BY InvNext, AgreedNext
<1>4. PasswordChangesAreCompared <=> [][Compared]_vars
  BY DEF PasswordChangesAreCompared
<1> HIDE DEF Compared
<1> QED BY <1>1, <1>2, <1>3, <1>4, PTL DEF Spec

\* The accounts and the change under way as the register has them.
RegisterOf(tab) == [u \in Users |-> AccessOf(tab[u])]

ChangeOf(holder, rq) ==
  IF holder = None THEN None
  ELSE [by     |-> rq[holder].actor,
        user   |-> rq[holder].user,
        access |-> AccessOf(rq[holder].next)]

\* What the register reads off the accounts.
LEMMA RegisterReads ==
  ASSUME NEW tab \in [Users -> Account \cup {None}]
  PROVE  \A u \in Users :
           /\ RegisterOf(tab)[u] = None <=> tab[u] = None
           /\ tab[u] # None => RegisterOf(tab)[u] \in [role : Roles, enabled : BOOLEAN]
           /\ u \in Register!Admins(RegisterOf(tab)) <=> ActiveAdmin(tab[u])
<1> SUFFICES ASSUME NEW u \in Users
             PROVE  /\ RegisterOf(tab)[u] = None <=> tab[u] = None
                    /\ tab[u] # None => RegisterOf(tab)[u] \in [role : Roles, enabled : BOOLEAN]
                    /\ u \in Register!Admins(RegisterOf(tab)) <=> ActiveAdmin(tab[u])
  OBVIOUS
<1>1. CASE tab[u] = None
  <2>1. RegisterOf(tab)[u] = None
    BY <1>1 DEF RegisterOf, AccessOf
  <2>2. None # [role |-> "admin", enabled |-> TRUE]
    <3>1. [role |-> "admin", enabled |-> TRUE] \in [role : Roles, enabled : BOOLEAN]
      BY AccountsAssumption DEF AccountsAssumption
    <3> QED BY <3>1, AccountsAssumption, Zenon DEF AccountsAssumption
  <2> QED BY <1>1, <2>1, <2>2 DEF Register!Admins, ActiveAdmin
<1>2. CASE tab[u] # None
  <2>1. tab[u] \in Account
    BY <1>2
  <2>2. RegisterOf(tab)[u] = [role |-> tab[u].role, enabled |-> tab[u].enabled]
    BY <1>2 DEF RegisterOf, AccessOf
  <2>3. RegisterOf(tab)[u] \in [role : Roles, enabled : BOOLEAN]
    BY <2>1, <2>2 DEF Account
  <2>4. RegisterOf(tab)[u] = [role |-> "admin", enabled |-> TRUE] <=> ActiveAdmin(tab[u])
    <3> DEFINE a == tab[u]
    <3>1. a.enabled \in BOOLEAN
      BY <2>1 DEF Account
    <3>2. CASE a.enabled = TRUE
      <4>1. RegisterOf(tab)[u] = [role |-> a.role, enabled |-> TRUE]
        BY <2>2, <3>2, Zenon
      <4>2. RegisterOf(tab)[u] = [role |-> "admin", enabled |-> TRUE] <=> a.role = "admin"
        <5>1. CASE a.role = "admin"
          BY <4>1, <5>1, Zenon
        <5>2. CASE a.role # "admin"
          <6>1. RegisterOf(tab)[u].role = a.role
            BY <4>1
          <6>2. [role |-> "admin", enabled |-> TRUE].role = "admin"
            OBVIOUS
          <6> QED BY <5>2, <6>1, <6>2, Zenon
        <5> QED BY <5>1, <5>2
      <4> QED BY <1>2, <3>2, <4>2 DEF ActiveAdmin
    <3>3. CASE a.enabled = FALSE
      <4>1. RegisterOf(tab)[u].enabled = FALSE
        BY <2>2, <3>3
      <4>2. [role |-> "admin", enabled |-> TRUE].enabled = TRUE
        OBVIOUS
      <4>3. RegisterOf(tab)[u] # [role |-> "admin", enabled |-> TRUE]
        BY <4>1, <4>2, Zenon
      <4> QED BY <3>3, <4>3 DEF ActiveAdmin
    <3> QED BY <3>1, <3>2, <3>3
  <2> QED BY <1>2, <2>3, <2>4, AccountsAssumption DEF Register!Admins
<1> QED BY <1>1, <1>2

\* What the register reads off a change that is under way.
LEMMA ChangeReads ==
  ASSUME NEW rq, NEW r \in Requests, rq[r].actor \in Users \cup {None},
         rq[r].user \in Users, rq[r].next \in Account
  PROVE  /\ ChangeOf(r, rq) = [by |-> rq[r].actor, user |-> rq[r].user,
                               access |-> [role |-> rq[r].next.role,
                                           enabled |-> rq[r].next.enabled]]
         /\ ChangeOf(r, rq) # None
<1> DEFINE a == [role |-> rq[r].next.role, enabled |-> rq[r].next.enabled]
           c == [by |-> rq[r].actor, user |-> rq[r].user, access |-> a]
<1>1. r # None /\ rq[r].next # None
  BY AccountsAssumption DEF AccountsAssumption
<1>2. ChangeOf(r, rq) = c
  BY <1>1, Zenon DEF ChangeOf, AccessOf
<1>3. a \in [role : Roles, enabled : BOOLEAN]
  BY DEF Account
<1> HIDE DEF a
<1>4. c \in [by : Users \cup {None}, user : Users, access : [role : Roles, enabled : BOOLEAN]]
  BY <1>3
<1> HIDE DEF c
<1>5. c # None
  BY <1>4, AccountsAssumption, Zenon DEF AccountsAssumption
<1> QED BY <1>2, <1>5 DEF c, a

\* The lock is held by a transaction that adds an account or changes access.
Held == lock # None => lock \in Requests /\ req[lock].at \in {"creating", "access"}

LEMMA HeldStays ==
  ASSUME Inv, Held, NEW r \in Requests, NEW rec, Become(r, rec),
         \/ lock' = r /\ rec.at \in {"creating", "access"}
         \/ lock' = lock /\ (req[r].at \in {"creating", "access"}
                               => rec.at \in {"creating", "access"})
         \/ lock' = None
  PROVE  Held'
<1>1. req'[r] = rec /\ \A q \in Requests : q # r => req'[q] = req[q]
  BY ReqOK DEF Become
<1> QED BY <1>1 DEF Held

LEMMA HeldNext == Inv /\ Held /\ [Next]_vars => Held'
<1> SUFFICES ASSUME Inv, Held, [Next]_vars PROVE Held'
  OBVIOUS
<1>1. CASE UNCHANGED <<lock, req>>
  BY <1>1 DEF Held
<1>2. ASSUME NEW r \in Requests, SignIn(r) PROVE Held'
  <2>1. CASE SubmitAuth(r)
    BY <1>1, <2>1, IdleOK, HeldStays DEF SubmitAuth
  <2>2. ASSUME NEW u \in Users, NEW p \in Passwords, CreateAdmin(r, u, p) PROVE Held'
    BY <2>2, ReqOK, HeldStays DEF CreateAdmin, InsertUser, Request
  <2>3. ASSUME NEW u \in Users, NEW p \in Passwords, Authenticate(r, u, p) PROVE Held'
    BY <2>3, HeldStays DEF Authenticate
  <2>4. ASSUME NEW t \in Tokens, NewAdminSession(r, t) PROVE Held'
    BY <2>4, HeldStays DEF NewAdminSession
  <2> QED BY <1>2, <2>1, <2>2, <2>3, <2>4 DEF SignIn
<1>3. ASSUME NEW r \in Requests, SignedIn(r) PROVE Held'
  <2>1. ASSUME NEW t \in Tokens, Admit(r, t) PROVE Held'
    BY <2>1, IdleOK, HeldStays DEF Admit
  <2>2. CASE Logout(r)
    BY <2>2, HeldStays DEF Logout
  <2>3. ASSUME NEW u \in Users, NEW p \in Passwords, NEW role \in Roles,
               CreateUser(r, u, p, role)
        PROVE  Held'
    BY <2>3, ReqOK, HeldStays DEF CreateUser, InsertUser, Request
  <2>4. ASSUME NEW u \in Users, NEW role \in Roles, NEW on \in BOOLEAN,
               SetUserAccess(r, u, role, on)
        PROVE  Held'
    BY <2>4, ReqOK, HeldStays DEF SetUserAccess, Request
  <2>5. ASSUME NEW current \in Passwords, NEW p \in Passwords,
               ChangeUserPassword(r, current, p)
        PROVE  Held'
    BY <2>5, HeldStays DEF ChangeUserPassword
  <2> QED BY <1>3, <2>1, <2>2, <2>3, <2>4, <2>5 DEF SignedIn
<1>4. ASSUME NEW r \in Requests, CommitUser(r) PROVE Held'
  BY <1>4 DEF CommitUser, Held
<1>5. ASSUME NEW r \in Requests, CommitChange(r) PROVE Held'
  <2>1. CASE lock = r
    BY <1>5, <2>1 DEF CommitChange, Held
  <2>2. CASE lock # r
    BY <1>5, <2>2, CommitChangeReq DEF CommitChange, Held
  <2> QED BY <2>1, <2>2
<1>6. ASSUME NEW r \in Requests, GiveUp(r) PROVE Held'
  <2>1. CASE lock = r
    BY <1>6, <2>1 DEF GiveUp, Held
  <2>2. CASE lock # r
    BY <1>6, <2>2, ReqOK DEF GiveUp, Held, Become
  <2> QED BY <2>1, <2>2
<1> QED BY <1>1, <1>2, <1>3, <1>4, <1>5, <1>6 DEF Next, WindowEnds, Expire, vars

\* A step of a request that holds no lock and takes none is not the register's.
LEMMA Unseen ==
  ASSUME Inv, Held, NEW r \in Requests, NEW rec, Become(r, rec), UNCHANGED <<users, lock>>,
         req[r].at \notin {"creating", "access"}
  PROVE  RegisterOf(users') = RegisterOf(users) /\ ChangeOf(lock', req') = ChangeOf(lock, req)
<1>1. lock # None => lock # r /\ lock \in Requests
  BY DEF Held
<1>2. lock # None => req'[lock] = req[lock]
  BY <1>1, ReqOK DEF Become
<1> QED BY <1>2 DEF ChangeOf

\* What it is to make a change, over what the register reads off the accounts.
LEMMA RegisterMakes ==
  ASSUME NEW by, NEW u, NEW a
  PROVE  Register!Make(by, u, a) <=>
           /\ ChangeOf(lock, req) = None
           /\ ChangeOf(lock', req') = [by |-> by, user |-> u, access |-> a]
           /\ RegisterOf(users') = RegisterOf(users)
  BY Zenon DEF Register!Make, RegisterOf, ChangeOf

\* The register's steps, likewise.
LEMMA RegisterSteps ==
  /\ Register!Init <=> RegisterOf(users) = [u \in Users |-> None] /\ ChangeOf(lock, req) = None
  /\ \A u \in Users : Register!Found(u) <=>
       /\ Register!Make(None, u, [role |-> "admin", enabled |-> TRUE])
       /\ \A v \in Users : RegisterOf(users)[v] = None
  /\ \A actor, u \in Users, role \in Roles : Register!Add(actor, u, role) <=>
       /\ Register!Make(actor, u, [role |-> role, enabled |-> TRUE])
       /\ actor \in Register!Admins(RegisterOf(users))
       /\ RegisterOf(users)[u] = None
  /\ \A actor, u \in Users, a \in Register!Access : Register!Change(actor, u, a) <=>
       /\ Register!Make(actor, u, a)
       /\ actor \in Register!Admins(RegisterOf(users))
       /\ RegisterOf(users)[u] # None
       /\ Register!Admins([RegisterOf(users) EXCEPT ![u] = a]) # {}
  /\ Register!Keep <=>
       /\ ChangeOf(lock, req) # None
       /\ RegisterOf(users') =
            [RegisterOf(users) EXCEPT ![ChangeOf(lock, req).user] = ChangeOf(lock, req).access]
       /\ ChangeOf(lock', req') = None
  /\ Register!Drop <=>
       /\ ChangeOf(lock, req) # None
       /\ ChangeOf(lock', req') = None
       /\ RegisterOf(users') = RegisterOf(users)
<1>1. Register!Init <=> RegisterOf(users) = [u \in Users |-> None] /\ ChangeOf(lock, req) = None
  BY Zenon DEF Register!Init, RegisterOf, ChangeOf
<1>2. ASSUME NEW u \in Users
      PROVE  Register!Found(u) <=>
       /\ Register!Make(None, u, [role |-> "admin", enabled |-> TRUE])
       /\ \A v \in Users : RegisterOf(users)[v] = None
  BY Zenon DEF Register!Found, RegisterOf
<1>3. ASSUME NEW actor \in Users, NEW u \in Users, NEW role \in Roles
      PROVE  Register!Add(actor, u, role) <=>
       /\ Register!Make(actor, u, [role |-> role, enabled |-> TRUE])
       /\ actor \in Register!Admins(RegisterOf(users))
       /\ RegisterOf(users)[u] = None
  BY Zenon DEF Register!Add, RegisterOf
<1>4. ASSUME NEW actor \in Users, NEW u \in Users, NEW a \in Register!Access
      PROVE  Register!Change(actor, u, a) <=>
       /\ Register!Make(actor, u, a)
       /\ actor \in Register!Admins(RegisterOf(users))
       /\ RegisterOf(users)[u] # None
       /\ Register!Admins([RegisterOf(users) EXCEPT ![u] = a]) # {}
  BY Zenon DEF Register!Change, RegisterOf
<1>5. Register!Keep <=>
       /\ ChangeOf(lock, req) # None
       /\ RegisterOf(users') =
            [RegisterOf(users) EXCEPT ![ChangeOf(lock, req).user] = ChangeOf(lock, req).access]
       /\ ChangeOf(lock', req') = None
  BY Zenon DEF Register!Keep, RegisterOf, ChangeOf
<1>6. Register!Drop <=>
       /\ ChangeOf(lock, req) # None
       /\ ChangeOf(lock', req') = None
       /\ RegisterOf(users') = RegisterOf(users)
  BY Zenon DEF Register!Drop, RegisterOf, ChangeOf
<1> QED BY <1>1, <1>2, <1>3, <1>4, <1>5, <1>6, Zenon

\* What a change does to the register.
LEMMA RegisterEffect ==
  ASSUME NEW tab \in [Users -> Account \cup {None}], NEW u \in Users, NEW a \in Account
  PROVE  RegisterOf([tab EXCEPT ![u] = a]) =
           [RegisterOf(tab) EXCEPT ![u] = [role |-> a.role, enabled |-> a.enabled]]
  BY AccountsAssumption DEF RegisterOf, AccessOf, AccountsAssumption

\* A transaction that takes the lock makes a change.
LEMMA Makes ==
  ASSUME Inv, NEW r \in Requests, NEW rec \in Request, Become(r, rec), lock = None, lock' = r,
         UNCHANGED users, rec.user \in Users, rec.next \in Account
  PROVE  Register!Make(rec.actor, rec.user,
                       [role |-> rec.next.role, enabled |-> rec.next.enabled])
<1>1. req'[r] = rec /\ rec.actor \in Users \cup {None}
  BY ReqOK DEF Become, Request
<1>2. ChangeOf(lock', req') = [by |-> rec.actor, user |-> rec.user,
        access |-> [role |-> rec.next.role, enabled |-> rec.next.enabled]]
  BY <1>1, ChangeReads
<1>3. ChangeOf(lock, req) = None
  BY DEF ChangeOf
<1> QED BY <1>2, <1>3, RegisterMakes, Zenon

LEMMA CreateAdminFounds ==
  ASSUME Inv, NEW r \in Requests, NEW u \in Users, NEW p \in Passwords, CreateAdmin(r, u, p)
  PROVE  Register!Next
<1> USE ReqOK, AccountsAssumption DEF AccountsAssumption
<1> DEFINE a == [role |-> "admin", enabled |-> TRUE, password |-> p]
           rec == [req[r] EXCEPT !.at = "creating", !.user = u, !.next = a]
<1>1. /\ Become(r, rec) /\ UNCHANGED users /\ lock = None /\ lock' = r
      /\ ~Configured /\ req[r].actor = None
  BY DEF CreateAdmin, InsertUser, StillUnconfigured, Shape
<1>2. a \in Account /\ [role |-> a.role, enabled |-> a.enabled] = [role |-> "admin", enabled |-> TRUE]
  BY DEF Account
<1>3. rec \in Request /\ rec.actor = None /\ rec.user = u /\ rec.next = a
  <2> HIDE DEF a
  <2>1. rec \in Request
    BY <1>2, CreatingOK
  <2> QED BY <1>1, <2>1 DEF Request
<1> HIDE DEF a, rec
<1>4. Register!Make(None, u, [role |-> "admin", enabled |-> TRUE])
  BY <1>1, <1>2, <1>3, Makes
<1>5. \A v \in Users : RegisterOf(users)[v] = None
  BY <1>1, RegisterReads DEF Configured
<1>6. Register!Found(u)
  BY <1>4, <1>5, RegisterSteps, Zenon
<1> QED BY <1>6 DEF Register!Next

LEMMA CreateUserAdds ==
  ASSUME Inv, NEW r \in Requests, NEW u \in Users, NEW p \in Passwords, NEW role \in Roles,
         CreateUser(r, u, p, role)
  PROVE  Register!Next
<1> USE ReqOK, AccountsAssumption DEF AccountsAssumption
<1> DEFINE a == [role |-> role, enabled |-> TRUE, password |-> p]
           rec == [req[r] EXCEPT !.at = "creating", !.user = u, !.next = a]
           actor == req[r].actor
<1>1. /\ Become(r, rec) /\ UNCHANGED users /\ lock = None /\ lock' = r /\ users[u] = None
      /\ actor \in Users /\ ActiveAdmin(users[actor])
  BY DEF CreateUser, ManagesUsers, Authorized, InsertUser, Shape
<1>2. a \in Account /\ [role |-> a.role, enabled |-> a.enabled] = [role |-> role, enabled |-> TRUE]
  BY DEF Account
<1>3. rec \in Request /\ rec.actor = actor /\ rec.user = u /\ rec.next = a
  <2> HIDE DEF a
  <2>1. rec \in Request
    BY <1>2, CreatingOK
  <2> QED BY <1>1, <2>1 DEF Request
<1> HIDE DEF a, rec, actor
<1>4. Register!Make(actor, u, [role |-> role, enabled |-> TRUE])
  BY <1>1, <1>2, <1>3, Makes
<1>5. actor \in Register!Admins(RegisterOf(users)) /\ RegisterOf(users)[u] = None
  BY <1>1, RegisterReads
<1>6. Register!Add(actor, u, role)
  BY <1>1, <1>4, <1>5, RegisterSteps, Zenon
<1> QED BY <1>1, <1>6 DEF Register!Next

LEMMA SetUserAccessChanges ==
  ASSUME Inv, NEW r \in Requests, NEW u \in Users, NEW role \in Roles, NEW on \in BOOLEAN,
         SetUserAccess(r, u, role, on)
  PROVE  Register!Next
<1> USE ReqOK, AccountsAssumption DEF AccountsAssumption
<1> DEFINE a == WithAccess(u, role, on)[u]
           rec == [req[r] EXCEPT !.at = "access", !.user = u, !.next = a, !.gone = SessionsOf(u)]
           actor == req[r].actor
           given == [role |-> a.role, enabled |-> a.enabled]
<1>1. /\ Become(r, rec) /\ UNCHANGED users /\ lock = None /\ lock' = r /\ users[u] # None
      /\ actor \in Users /\ ActiveAdmin(users[actor])
      /\ \E v \in Users : ActiveAdmin(WithAccess(u, role, on)[v])
  BY DEF SetUserAccess, ManagesUsers, Authorized, Shape
<1>2. a \in Account /\ WithAccess(u, role, on) = [users EXCEPT ![u] = a]
  BY <1>1, WithAccessOK
<1>3. rec \in Request /\ rec.actor = actor /\ rec.user = u /\ rec.next = a
  <2>1. SessionsOf(u) \subseteq Tokens
    BY DEF SessionsOf
  <2>2. rec \in Request
    BY <1>2, <2>1, ChangingOK
  <2> QED BY <2>2 DEF Request
<1>4. given \in Register!Access
  BY <1>2 DEF Account, Register!Access
<1> HIDE DEF a, rec, actor
<1>5. Register!Make(actor, u, given)
  BY <1>1, <1>2, <1>3, Makes
<1>6. actor \in Register!Admins(RegisterOf(users)) /\ RegisterOf(users)[u] # None
  BY <1>1, RegisterReads
<1>7. Register!Admins([RegisterOf(users) EXCEPT ![u] = given]) # {}
  <2> DEFINE tab == [users EXCEPT ![u] = a]
  <2>1. tab \in [Users -> Account \cup {None}] /\ \E v \in Users : ActiveAdmin(tab[v])
    BY <1>1, <1>2
  <2>2. RegisterOf(tab) = [RegisterOf(users) EXCEPT ![u] = given]
    BY <1>2, RegisterEffect
  <2> HIDE DEF tab
  <2> QED BY <2>1, <2>2, RegisterReads
<1> HIDE DEF given
<1>8. Register!Change(actor, u, given)
  BY <1>1, <1>4, <1>5, <1>6, <1>7, RegisterSteps, Zenon
<1> QED BY <1>1, <1>4, <1>8 DEF Register!Next

\* A commit under the lock keeps the change that was made.
LEMMA CommitKeeps ==
  ASSUME Inv, NEW r \in Requests, lock = r, lock' = None,
         req[r].user \in Users, req[r].next \in Account,
         users' = [users EXCEPT ![req[r].user] = req[r].next]
  PROVE  Register!Next
<1> DEFINE u == req[r].user
           given == [role |-> req[r].next.role, enabled |-> req[r].next.enabled]
<1>1. req[r].actor \in Users \cup {None}
  BY ReqOK DEF Request
<1>2. ChangeOf(lock, req) = [by |-> req[r].actor, user |-> u, access |-> given]
      /\ ChangeOf(lock, req) # None
  BY <1>1, ChangeReads
<1>3. ChangeOf(lock, req).user = u /\ ChangeOf(lock, req).access = given
  BY <1>2
<1>4. RegisterOf(users') = [RegisterOf(users) EXCEPT ![u] = given]
  BY ReqOK, RegisterEffect
<1>5. ChangeOf(lock', req') = None
  BY DEF ChangeOf
<1> HIDE DEF u, given
<1>6. RegisterOf(users') =
        [RegisterOf(users) EXCEPT ![ChangeOf(lock, req).user] = ChangeOf(lock, req).access]
  BY <1>3, <1>4, Zenon
<1>7. Register!Keep
  BY <1>2, <1>5, <1>6, RegisterSteps, Zenon
<1> QED BY <1>7 DEF Register!Next

\* Every step of the accounts is one of the register, or none.
LEMMA RegisterNext ==
  ASSUME Inv, Agreed, Held, [Next]_vars
  PROVE  \/ Register!Next
         \/ RegisterOf(users') = RegisterOf(users) /\ ChangeOf(lock', req') = ChangeOf(lock, req)
<1> DEFINE Same == RegisterOf(users') = RegisterOf(users)
                   /\ ChangeOf(lock', req') = ChangeOf(lock, req)
<1>1. CASE UNCHANGED <<users, lock, req>>
  BY <1>1
<1>2. ASSUME NEW r \in Requests, SignIn(r) PROVE Register!Next \/ Same
  <2>1. CASE SubmitAuth(r)
    <3>1. req[r].at = "idle" /\ UNCHANGED <<users, lock>>
      BY <2>1, IdleOK DEF SubmitAuth
    <3>2. UNCHANGED req \/ \E rec : Become(r, rec)
      BY <2>1 DEF SubmitAuth
    <3> QED BY <1>1, <3>1, <3>2, Unseen
  <2>2. ASSUME NEW u \in Users, NEW p \in Passwords, CreateAdmin(r, u, p)
        PROVE  Register!Next \/ Same
    BY <2>2, CreateAdminFounds
  <2>3. ASSUME NEW u \in Users, NEW p \in Passwords, Authenticate(r, u, p)
        PROVE  Register!Next \/ Same
    BY <2>3, Unseen DEF Authenticate
  <2>4. ASSUME NEW t \in Tokens, NewAdminSession(r, t) PROVE Register!Next \/ Same
    BY <2>4, Unseen DEF NewAdminSession
  <2> QED BY <1>2, <2>1, <2>2, <2>3, <2>4 DEF SignIn
<1>3. ASSUME NEW r \in Requests, SignedIn(r) PROVE Register!Next \/ Same
  <2>1. ASSUME NEW t \in Tokens, Admit(r, t) PROVE Register!Next \/ Same
    BY <2>1, IdleOK, Unseen DEF Admit
  <2>2. CASE Logout(r)
    BY <2>2, Unseen DEF Logout
  <2>3. ASSUME NEW u \in Users, NEW p \in Passwords, NEW role \in Roles,
               CreateUser(r, u, p, role)
        PROVE  Register!Next \/ Same
    BY <2>3, CreateUserAdds
  <2>4. ASSUME NEW u \in Users, NEW role \in Roles, NEW on \in BOOLEAN,
               SetUserAccess(r, u, role, on)
        PROVE  Register!Next \/ Same
    BY <2>4, SetUserAccessChanges
  <2>5. ASSUME NEW current \in Passwords, NEW p \in Passwords,
               ChangeUserPassword(r, current, p)
        PROVE  Register!Next \/ Same
    BY <2>5, Unseen DEF ChangeUserPassword
  <2> QED BY <1>3, <2>1, <2>2, <2>3, <2>4, <2>5 DEF SignedIn
<1>4. ASSUME NEW r \in Requests, CommitUser(r) PROVE Register!Next \/ Same
  <2>1. /\ req[r].user \in Users /\ req[r].next \in Account /\ lock = r /\ lock' = None
        /\ users' = [users EXCEPT ![req[r].user] = req[r].next]
    BY <1>4, ReqOK DEF CommitUser, Shape, Inv, Exclusive
  <2> QED BY <2>1, CommitKeeps
<1>5. ASSUME NEW r \in Requests, CommitChange(r) PROVE Register!Next \/ Same
  <2>1. CASE req[r].at = "access"
    <3>1. lock = r /\ lock' = None
      BY <1>5, <2>1 DEF CommitChange, Inv, Exclusive
    <3> QED BY <1>5, <3>1, CommitChangeUsers, CommitKeeps
  <2>2. CASE req[r].at = "password"
    <3> DEFINE u == req[r].user
               a == req[r].next
               given == [role |-> a.role, enabled |-> a.enabled]
    <3>1. lock # r /\ UNCHANGED lock
      <4>1. lock # r
        BY <2>2, AccountsAssumption DEF AccountsAssumption, Held
      <4>2. lock' = IF lock = r THEN None ELSE lock
        BY <1>5 DEF CommitChange
      <4> QED BY <4>1, <4>2
    <3>2. ChangeOf(lock', req') = ChangeOf(lock, req)
      <4>1. CASE lock = None
        BY <3>1, <4>1 DEF ChangeOf
      <4>2. CASE lock # None
        <5>1. lock \in Requests
          BY <4>2 DEF Held
        <5> QED BY <1>5, <3>1, <4>2, <5>1, CommitChangeReq DEF ChangeOf
      <4> QED BY <4>1, <4>2
    <3>3. u \in Users /\ users[u] # None /\ a \in Account
          /\ users' = [users EXCEPT ![u] = a]
      BY <1>5, CommitChangeUsers
    <3>4. RegisterOf(users') = [RegisterOf(users) EXCEPT ![u] = given]
      BY <3>3, ReqOK, RegisterEffect
    <3>5. a.role = users[u].role /\ a.enabled = users[u].enabled
      BY <2>2 DEF Agreed, Pending, SameAccess
    <3>6. RegisterOf(users)[u] = given
      BY <3>3, <3>5 DEF RegisterOf, AccessOf
    <3>7. RegisterOf(users) = [v \in Users |-> RegisterOf(users)[v]]
      BY DEF RegisterOf
    <3>8. [RegisterOf(users) EXCEPT ![u] = given] = RegisterOf(users)
      BY <3>3, <3>6, <3>7
    <3> QED BY <3>2, <3>4, <3>8
  <2> QED BY <1>5, <2>1, <2>2 DEF CommitChange
<1>6. ASSUME NEW r \in Requests, GiveUp(r) PROVE Register!Next \/ Same
  <2>1. CASE lock = r
    <3>1. req[r].at \in {"creating", "access"} /\ req[r].actor \in Users \cup {None}
      BY <2>1, ReqOK, AccountsAssumption DEF AccountsAssumption, Held, Request
    <3>2. ChangeOf(lock, req) # None
      BY <2>1, <3>1, ReqOK, ChangeReads DEF Shape
    <3>3. ChangeOf(lock', req') = None /\ RegisterOf(users') = RegisterOf(users)
      BY <1>6, <2>1 DEF GiveUp, ChangeOf
    <3>4. Register!Drop
      BY <3>2, <3>3, RegisterSteps, Zenon
    <3> QED BY <3>4 DEF Register!Next
  <2>2. CASE lock # r
    BY <1>6, <2>2, ReqOK DEF GiveUp, Held, Become, ChangeOf
  <2> QED BY <2>1, <2>2
<1> QED BY <1>1, <1>2, <1>3, <1>4, <1>5, <1>6 DEF Next, WindowEnds, Expire, vars

LEMMA RegisterInit == Init => Register!Init /\ Held
<1> SUFFICES ASSUME Init
             PROVE  RegisterOf(users) = [u \in Users |-> None] /\ ChangeOf(lock, req) = None /\ Held
  BY RegisterSteps
<1> QED BY DEF Init, RegisterOf, AccessOf, ChangeOf, Held

\* Sessions, passwords and statements apart, the accounts are the register
\* (CreateAdmin, CreateUser and SetUserAccess in internal/store/admin.go).
THEOREM AccountsImplementRegister == Spec => ImplementsRegister
<1>1. Inv /\ Agreed /\ Held /\ [Next]_vars => (Inv /\ Agreed /\ Held)'
  BY InvNext, AgreedNext, HeldNext
<1>2. Init => Inv /\ Agreed /\ Held /\ Register!Init
  BY InvInit, AgreedInit, RegisterInit
<1>3. Inv /\ Agreed /\ Held /\ [Next]_vars => [Register!Next]_(Register!vars)
  BY RegisterNext DEF RegisterOf, ChangeOf, Register!vars
<1> QED BY <1>1, <1>2, <1>3, PTL DEF Spec, ImplementsRegister, Register!Spec

\* Once there are accounts, one of them is an administrator who can sign in,
\* so that nobody is locked out of Toolmux (SetUserAccess).
THEOREM AnAdministratorRemains == Spec => []Register!ActiveAdministrator
<1>1. Inv /\ Agreed /\ [Next]_vars => (Inv /\ Agreed)'
  BY InvNext, AgreedNext
<1>2. Init => Inv /\ Agreed
  BY InvInit, AgreedInit
<1>3. Inv /\ Agreed => Register!ActiveAdministrator
  <2> SUFFICES ASSUME Inv, Agreed, NEW u \in Users, RegisterOf(users)[u] # None
               PROVE  Register!Admins(RegisterOf(users)) # {}
    BY Zenon DEF Register!ActiveAdministrator, RegisterOf
  <2>1. users \in [Users -> Account \cup {None}]
    BY DEF Inv, TypeOK
  <2>2. Configured
    BY <2>1, RegisterReads DEF Configured
  <2> QED BY <2>1, <2>2, RegisterReads DEF Agreed, AdminRemains
<1> QED BY <1>1, <1>2, <1>3, PTL DEF Spec
=============================================================================
