---------------------------- MODULE OAuthProofs ----------------------------
(* Proofs about OAuth, for any number of requests, authorizations, tokens  *)
(* and clients.                                                            *)
EXTENDS OAuth, TLAPS

\* A handler at a step that uses a state has one, and what it was given and has
\* yet to store are tokens the provider issued.
ProcOK ==
  \A h \in Handlers :
    /\ proc[h].step \in {"callback", "exchanging", "storing"} => proc[h].state \in States

Inv == Typed /\ ProcOK

LEMMA IdleOK == Idle \in Process /\ Idle.step = "idle"
  BY OAuthAssumption DEF Idle, Process, Steps, Kinds, NoCred, Credential, Tokens, Clients

LEMMA InvInit == Init => Inv
<1> SUFFICES ASSUME Init PROVE Inv
  OBVIOUS
<1>1. 0 \in Tokens /\ 1 \in Tokens /\ 0 \in Clients /\ 1 \in Clients
  BY OAuthAssumption DEF Tokens, Clients
<1>2. NoCred \in Credential /\ [NoCred EXCEPT !.secret = 1] \in Credential
  BY <1>1 DEF NoCred, Credential
<1>3. cred \in Credential /\ config \in Config /\ issued \in Tokens /\ clients \in Clients
      /\ live \subseteq Tokens
  <2>1. CASE cred = [NoCred EXCEPT !.secret = 1] /\ config = [client |-> 1, own |-> TRUE]
             /\ issued = 0 /\ live = {} /\ clients = 1
    BY <1>1, <1>2, <2>1 DEF Config
  <2>2. CASE cred = [access |-> 1, refresh |-> 1, secret |-> 1]
             /\ config = [client |-> 1, own |-> FALSE]
             /\ issued = 1 /\ live = {1} /\ clients = 1
    BY <1>1, <2>2 DEF Credential, Config
  <2>3. CASE cred = NoCred /\ config = [client |-> 0, own |-> FALSE]
             /\ issued = 0 /\ live = {} /\ clients = 0
    BY <1>1, <1>2, <2>3 DEF Config
  <2> QED BY <2>1, <2>2, <2>3 DEF Init
<1>4. states \in [States -> Pending] /\ redeemed \in [States -> Nat]
      /\ owner \in [Tokens -> Clients]
  BY <1>1, <1>3 DEF Init, Pending, Config
<1>5. proc \in [Handlers -> Process] /\ ProcOK
  BY IdleOK DEF Init, ProcOK
<1> QED BY <1>3, <1>4, <1>5 DEF Init, Inv, Typed

\* Giving a handler a well-formed record keeps all of them well formed.
LEMMA UpdateOK ==
  ASSUME Typed, ProcOK, NEW h \in Handlers, NEW r \in Process,
         r.step \in {"callback", "exchanging", "storing"} => r.state \in States,
         proc' = [proc EXCEPT ![h] = r]
  PROVE  proc' \in [Handlers -> Process] /\ ProcOK'
  BY DEF Typed, ProcOK

LEMMA GotoOK ==
  ASSUME Typed, ProcOK, NEW h \in Handlers,
         NEW s \in Steps \ {"callback", "exchanging", "storing"}, Goto(h, s)
  PROVE  proc' \in [Handlers -> Process] /\ ProcOK'
<1> DEFINE next == [Idle EXCEPT !.step = s, !.kind = proc[h].kind,
                                !.client = IF s = "newstate" THEN proc[h].client ELSE 0]
<1>1. proc[h] \in Process /\ 0 \in Clients
  BY OAuthAssumption DEF Typed, Clients
<1>2. next \in Process /\ next.step = s
  BY <1>1, IdleOK DEF Process
<1>3. proc' = [proc EXCEPT ![h] = next]
  BY DEF Goto
<1> HIDE DEF next
<1> QED BY <1>2, <1>3, UpdateOK

LEMMA InvNext == Inv /\ [Next]_vars => Inv'
<1> SUFFICES ASSUME Typed, ProcOK, [Next]_vars PROVE Typed' /\ ProcOK'
  BY DEF Inv
<1> USE OAuthAssumption, IdleOK DEF store, provider, history
<1>1. ASSUME NEW h \in Handlers, NEW k \in Kinds, BeginResolve(h, k)
      PROVE  Typed' /\ ProcOK'
  <2> DEFINE next == IF Fresh(cred) THEN [Idle EXCEPT !.step = "resolved", !.kind = k]
                      ELSE [Idle EXCEPT !.step = "wait", !.kind = k, !.cred = cred]
  <2>1. next \in Process /\ next.step \in {"resolved", "wait"}
    BY DEF Typed, Process, Steps, Idle
  <2>2. proc' = [proc EXCEPT ![h] = next]
    BY <1>1 DEF BeginResolve
  <2> HIDE DEF next
  <2> QED BY <1>1, <2>1, <2>2 DEF BeginResolve, Typed, ProcOK
<1>2. ASSUME NEW h \in Handlers, Lock(h)
      PROVE  Typed' /\ ProcOK'
  <2>1. proc' \in [Handlers -> Process] /\ ProcOK'
    <3>1. CASE proc' = [proc EXCEPT ![h].step = "locked", ![h].cred = cred]
      BY <3>1 DEF Typed, ProcOK, Process, Steps
    <3> QED BY <1>2, <3>1, GotoOK DEF Lock, LatestCredential, Steps
  <2> QED BY <1>2, <2>1 DEF Lock, Typed
<1>3. ASSUME NEW h \in Handlers, SendRefresh(h)
      PROVE  Typed' /\ ProcOK'
  <2> DEFINE next == [proc[h] EXCEPT !.step = "refreshing", !.client = config.client]
  <2>1. next \in Process /\ next.step = "refreshing"
    BY DEF Typed, Process, Steps, Config
  <2>2. proc' = [proc EXCEPT ![h] = next]
    BY <1>3 DEF SendRefresh, Typed, Process
  <2> HIDE DEF next
  <2>3. proc' \in [Handlers -> Process] /\ ProcOK'
    BY <2>1, <2>2, UpdateOK
  <2> QED BY <1>3, <2>3 DEF SendRefresh, Typed
<1>4. ASSUME NEW h \in Handlers, NEW rotate \in BOOLEAN, RefreshGranted(h, rotate)
      PROVE  Typed' /\ ProcOK'
  <2>1. issued + 1 \in Tokens
    BY <1>4 DEF RefreshGranted, Redeem, Redeemable, Typed, Tokens
  <2> DEFINE next == [proc[h] EXCEPT !.step = "saving", !.token = issued + 1,
                                     !.refresh = NewRefresh(h, rotate)]
  <2>2. proc[h] \in Process /\ proc[h].cred \in Credential
    BY DEF Typed, Process
  <2>3. NewRefresh(h, rotate) \in Tokens
    BY <2>1, <2>2 DEF NewRefresh, Credential
  <2>4. next \in Process /\ next.step = "saving"
    BY <2>1, <2>2, <2>3 DEF Process, Steps
  <2>5. proc' = [proc EXCEPT ![h] = next]
    BY <1>4, <2>2 DEF RefreshGranted, Typed, Process
  <2> HIDE DEF next
  <2>6. proc' \in [Handlers -> Process] /\ ProcOK'
    BY <2>4, <2>5, UpdateOK
  <2>7. owner' \in [Tokens -> Clients]
    BY <1>4, <2>1, <2>2 DEF RefreshGranted, Redeem, IssuedTo, Typed, Process
  <2> QED BY <1>4, <2>1, <2>2, <2>6, <2>7 DEF RefreshGranted, Redeem, Typed, Credential
<1>5. ASSUME NEW h \in Handlers, NEW rotate \in BOOLEAN, RefreshLost(h, rotate)
      PROVE  Typed' /\ ProcOK'
  <2>1. issued + 1 \in Tokens
    BY <1>5 DEF RefreshLost, Redeem, Redeemable, Typed, Tokens
  <2>2. proc' \in [Handlers -> Process] /\ ProcOK'
    BY <1>5, GotoOK DEF RefreshLost, Steps
  <2>3. owner' \in [Tokens -> Clients]
    BY <1>5, <2>1 DEF RefreshLost, Redeem, IssuedTo, Typed, Process
  <2> QED BY <1>5, <2>1, <2>2, <2>3 DEF RefreshLost, Redeem, Unlock, Typed, Process, Credential
<1>6. ASSUME NEW h \in Handlers, RefreshRejected(h) \/ RefreshFailed(h)
      PROVE  Typed' /\ ProcOK'
  <2>1. proc' \in [Handlers -> Process] /\ ProcOK'
    BY <1>6, GotoOK DEF RefreshRejected, RefreshFailed, Steps
  <2> QED BY <1>6, <2>1 DEF RefreshRejected, RefreshFailed, Unlock, Typed
<1>7. ASSUME NEW h \in Handlers, SaveRefreshed(h)
      PROVE  Typed' /\ ProcOK'
  <2>1. proc' \in [Handlers -> Process] /\ ProcOK'
    BY <1>7, GotoOK DEF SaveRefreshed, Steps
  <2> QED BY <1>7, <2>1 DEF SaveRefreshed, WriteCredential, PutBesideNewClient, Unlock, Typed,
                            Process, Credential
<1>8. ASSUME NEW h \in Handlers, ResolveError(h)
      PROVE  Typed' /\ ProcOK'
  <2>1. proc' \in [Handlers -> Process] /\ ProcOK'
    BY <1>8, GotoOK DEF ResolveError, Steps
  <2> QED BY <1>8, <2>1 DEF ResolveError, Forgotten, Unlock, Typed, Process, Credential
<1>9. ASSUME NEW h \in Handlers, Report(h)
      PROVE  Typed' /\ ProcOK'
  BY <1>9 DEF Report, Typed, ProcOK
<1>10. ASSUME NEW h \in Handlers, Start(h)
       PROVE  Typed' /\ ProcOK'
  <2> DEFINE next == [Idle EXCEPT !.kind = "start", !.client = config.client,
          !.step = IF config.client = 0 \/ ~config.own THEN "register" ELSE "newstate"]
  <2>1. next \in Process /\ next.step \in {"register", "newstate"}
    BY DEF Typed, Process, Steps, Kinds, Config, Idle
  <2>2. proc' = [proc EXCEPT ![h] = next]
    BY <1>10 DEF Start
  <2> HIDE DEF next
  <2> QED BY <1>10, <2>1, <2>2 DEF Start, Typed, ProcOK
<1>11. ASSUME NEW h \in Handlers, Register(h)
       PROVE  Typed' /\ ProcOK'
  <2> DEFINE next == [proc[h] EXCEPT !.step = "merge", !.client = clients + 1]
  <2>1. clients + 1 \in Clients
    BY <1>11 DEF Register, Typed, Clients
  <2>2. next \in Process /\ next.step = "merge"
    BY <2>1 DEF Typed, Process, Steps
  <2>3. proc' = [proc EXCEPT ![h] = next]
    BY <1>11 DEF Register, Typed, Process
  <2> HIDE DEF next
  <2>4. proc' \in [Handlers -> Process] /\ ProcOK'
    BY <2>2, <2>3, UpdateOK
  <2> QED BY <1>11, <2>1, <2>4 DEF Register, Typed
<1>12. ASSUME NEW h \in Handlers, MergeClient(h)
       PROVE  Typed' /\ ProcOK'
  <2> DEFINE next == [proc[h] EXCEPT !.step = "merging", !.cred = cred]
  <2>1. next \in Process /\ next.step = "merging"
    BY DEF Typed, Process, Steps
  <2>2. proc' = [proc EXCEPT ![h] = next]
    BY <1>12 DEF MergeClient, Typed, Process
  <2> HIDE DEF next
  <2>3. proc' \in [Handlers -> Process] /\ ProcOK'
    BY <2>1, <2>2, UpdateOK
  <2> QED BY <1>12, <2>3 DEF MergeClient, Typed
<1>13. ASSUME NEW h \in Handlers, SaveOAuthClient(h)
       PROVE  Typed' /\ ProcOK'
  <2>1. proc' \in [Handlers -> Process] /\ ProcOK'
    BY <1>13, GotoOK DEF SaveOAuthClient, Steps
  <2> QED BY <1>13, <2>1 DEF SaveOAuthClient, MergedSecret, WriteCredential, Typed, Process, Credential, Config
<1>14. ASSUME NEW h \in Handlers, NEW s \in States, CreateOAuthState(h, s)
       PROVE  Typed' /\ ProcOK'
  BY <1>14 DEF CreateOAuthState, Typed, ProcOK, Pending, Process
<1>15. ASSUME NEW h \in Handlers, StartError(h) \/ CompleteError(h)
       PROVE  Typed' /\ ProcOK'
  BY <1>15 DEF StartError, CompleteError, Typed, ProcOK
<1>16. ASSUME NEW h \in Handlers, NEW s \in States, ConsumeOAuthState(h, s)
       PROVE  Typed' /\ ProcOK'
  <2> DEFINE next == [Idle EXCEPT !.step = "callback", !.kind = "complete", !.state = s,
                    !.client = config.client]
  <2>1. next \in Process /\ next.state = s
    BY DEF Typed, Process, Steps, Kinds, Config, Idle
  <2>2. proc' = [proc EXCEPT ![h] = next]
    BY <1>16 DEF ConsumeOAuthState
  <2> HIDE DEF next
  <2>3. states' \in [States -> Pending]
    BY <1>16 DEF ConsumeOAuthState, Consumed, Typed, Pending
  <2> QED BY <1>16, <2>1, <2>2, <2>3 DEF ConsumeOAuthState, Typed, ProcOK
<1>17. ASSUME NEW h \in Handlers, SendCode(h)
       PROVE  Typed' /\ ProcOK'
  <2> DEFINE next == [proc[h] EXCEPT !.step = "exchanging", !.cred = cred]
  <2>1. next \in Process /\ next.state \in States
    BY <1>17 DEF SendCode, Typed, ProcOK, Process, Steps
  <2>2. proc' = [proc EXCEPT ![h] = next]
    BY <1>17 DEF SendCode, Typed, Process
  <2>3. redeemed' \in [States -> Nat]
    BY <1>17 DEF SendCode, Typed, ProcOK
  <2> HIDE DEF next
  <2>4. proc' \in [Handlers -> Process] /\ ProcOK'
    BY <2>1, <2>2, UpdateOK
  <2> QED BY <1>17, <2>3, <2>4 DEF SendCode, Typed
<1>18. ASSUME NEW h \in Handlers, NEW offline \in BOOLEAN, CodeGranted(h, offline)
       PROVE  Typed' /\ ProcOK'
  <2>1. issued + 1 \in Tokens
    BY <1>18 DEF CodeGranted, Typed, Tokens
  <2>2. 0 \in Tokens
    BY DEF Tokens
  <2> DEFINE next == [proc[h] EXCEPT !.step = "storing", !.token = issued + 1,
                          !.refresh = IF offline THEN issued + 1 ELSE 0]
  <2>3. next \in Process /\ next.state \in States
    BY <1>18, <2>1, <2>2 DEF CodeGranted, Typed, ProcOK, Process, Steps
  <2>4. proc' = [proc EXCEPT ![h] = next]
    BY <1>18 DEF CodeGranted, Typed, Process
  <2> HIDE DEF next
  <2>5. proc' \in [Handlers -> Process] /\ ProcOK'
    BY <2>3, <2>4, UpdateOK
  <2>6. owner' \in [Tokens -> Clients]
    BY <1>18, <2>1 DEF CodeGranted, IssuedTo, Typed, Process
  <2> QED BY <1>18, <2>1, <2>5, <2>6 DEF CodeGranted, Typed
<1>19. ASSUME NEW h \in Handlers, StoreTokens(h)
       PROVE  Typed' /\ ProcOK'
  BY <1>19 DEF StoreTokens, WriteCredential, PutBesideNewClient, Typed, ProcOK, Process,
               Credential
<1>20. ASSUME NEW s \in States, StateExpires(s)
       PROVE  Typed' /\ ProcOK'
  BY <1>20 DEF StateExpires, Typed, ProcOK, Pending
<1>21. CASE AccessExpires
  BY <1>21 DEF AccessExpires, Typed, ProcOK, Tokens
<1>22. CASE Restart
  BY <1>22 DEF Restart, Forgotten, Typed, ProcOK, Process, Credential
<1>23. CASE UNCHANGED vars
  BY <1>23 DEF vars, Typed, ProcOK
<1> QED
  BY <1>1, <1>2, <1>3, <1>4, <1>5, <1>6, <1>7, <1>8, <1>9, <1>10, <1>11, <1>12, <1>13,
     <1>14, <1>15, <1>16, <1>17, <1>18, <1>19, <1>20, <1>21, <1>22, <1>23
  DEF Next, Resolving

-----------------------------------------------------------------------------
\* The lock is held by exactly the handlers that are refreshing.
LockedSteps == {"locked", "refreshing", "saving"}
LockOK == \A h \in Handlers : proc[h].step \in LockedSteps <=> mutex = h


\* The other handlers are not disturbed.
Others(h) == \A k \in Handlers \ {h} : proc'[k] = proc[k]

LEMMA GotoEffect ==
  ASSUME Typed, NEW h \in Handlers, NEW s \in Steps, Goto(h, s)
  PROVE  /\ Others(h)
         /\ proc'[h].step = s
         /\ proc'[h].cred = NoCred /\ proc'[h].refresh = 0 /\ proc'[h].token = 0
         /\ proc'[h].state = Nobody
<1> DEFINE next == [Idle EXCEPT !.step = s, !.kind = proc[h].kind,
                                !.client = IF s = "newstate" THEN proc[h].client ELSE 0]
<1>1. next.step = s /\ next.cred = NoCred /\ next.refresh = 0 /\ next.token = 0
      /\ next.state = Nobody
  BY DEF Idle
<1>2. proc' = [proc EXCEPT ![h] = next]
  BY DEF Goto
<1> HIDE DEF next
<1> QED BY <1>1, <1>2 DEF Typed, Others

\* A handler at a step s0 that goes to a step s1, neither of which needs the lock.
LEMMA AwayFromLock ==
  ASSUME LockOK, NEW h \in Handlers, Others(h), UNCHANGED mutex,
         proc[h].step \notin LockedSteps, proc'[h].step \notin LockedSteps
  PROVE  LockOK'
BY DEF LockOK, Others

LEMMA WithLock ==
  ASSUME LockOK, NEW h \in Handlers, Others(h), UNCHANGED mutex,
         proc[h].step \in LockedSteps, proc'[h].step \in LockedSteps
  PROVE  LockOK'
BY DEF LockOK, Others

LEMMA Unlocking ==
  ASSUME LockOK, NEW h \in Handlers, Others(h), Unlock(h),
         proc[h].step \in LockedSteps, proc'[h].step \notin LockedSteps
  PROVE  LockOK'
BY OAuthAssumption DEF LockOK, Others, Unlock

LEMMA LockInit == Init => LockOK
BY IdleOK, OAuthAssumption DEF Init, LockOK, LockedSteps

LEMMA LockNext == Inv /\ LockOK /\ [Next]_vars => LockOK'
<1> SUFFICES ASSUME Typed, ProcOK, LockOK, [Next]_vars PROVE LockOK'
  BY DEF Inv
<1> USE OAuthAssumption, IdleOK
<1>1. ASSUME NEW h \in Handlers, proc[h] = Idle, UNCHANGED mutex, NEW r,
             r.step \notin LockedSteps, proc' = [proc EXCEPT ![h] = r]
      PROVE  LockOK'
  <2>1. Others(h) /\ proc'[h].step \notin LockedSteps
    BY <1>1 DEF Others, Typed
  <2> QED BY <1>1, <2>1, AwayFromLock DEF LockedSteps
<1>2. ASSUME NEW h \in Handlers, proc[h].step \notin LockedSteps, UNCHANGED mutex,
             proc' = [proc EXCEPT ![h] = Idle]
      PROVE  LockOK'
  <2>1. Others(h) /\ proc'[h].step \notin LockedSteps
    BY <1>2 DEF Others, Typed, LockedSteps
  <2> QED BY <1>2, <2>1, AwayFromLock
<1>3. ASSUME NEW h \in Handlers, NEW k \in Kinds, BeginResolve(h, k) PROVE LockOK'
  <2> DEFINE r == IF Fresh(cred) THEN [Idle EXCEPT !.step = "resolved", !.kind = k]
                      ELSE [Idle EXCEPT !.step = "wait", !.kind = k, !.cred = cred]
  <2>1. r.step \notin LockedSteps
    BY DEF Idle, LockedSteps
  <2>2. proc[h] = Idle /\ UNCHANGED mutex /\ proc' = [proc EXCEPT ![h] = r]
    BY <1>3 DEF BeginResolve
  <2> HIDE DEF r
  <2> QED BY <1>1, <2>1, <2>2
<1>4. ASSUME NEW h \in Handlers, Lock(h) PROVE LockOK'
  <2>1. CASE proc' = [proc EXCEPT ![h].step = "locked", ![h].cred = cred] /\ mutex' = h
    <3>1. Others(h) /\ proc'[h].step = "locked"
      BY <2>1 DEF Others, Typed, Process
    <3> QED BY <1>4, <2>1, <3>1 DEF LockOK, Others, Lock, MutexFree, LockedSteps
  <2>2. ASSUME NEW s \in {"resolved", "reauth", "failed"}, Goto(h, s), UNCHANGED mutex
        PROVE  LockOK'
    <3>1. Others(h) /\ proc'[h].step = s
      BY <2>2, GotoEffect DEF Steps
    <3> QED BY <1>4, <2>2, <3>1, AwayFromLock DEF LockedSteps, Lock
  <2> QED BY <1>4, <2>1, <2>2 DEF Lock, LatestCredential
<1>5. ASSUME NEW h \in Handlers, SendRefresh(h) PROVE LockOK'
  <2>1. Others(h) /\ proc'[h].step = "refreshing"
    BY <1>5 DEF SendRefresh, Others, Typed, Process
  <2> QED BY <1>5, <2>1, WithLock DEF SendRefresh, LockedSteps
<1>6. ASSUME NEW h \in Handlers, NEW rotate \in BOOLEAN, RefreshGranted(h, rotate)
      PROVE  LockOK'
  <2>1. Others(h) /\ proc'[h].step = "saving"
    BY <1>6 DEF RefreshGranted, Others, Typed, Process
  <2> QED BY <1>6, <2>1, WithLock DEF RefreshGranted, Redeem, LockedSteps
<1>7. ASSUME NEW h \in Handlers, proc[h].step \in LockedSteps, Unlock(h),
             NEW s \in {"resolved", "rejected", "reauth", "failed"}, Goto(h, s)
      PROVE  LockOK'
  <2>1. Others(h) /\ proc'[h].step = s
    BY <1>7, GotoEffect DEF Steps
  <2> QED BY <1>7, <2>1, Unlocking DEF LockedSteps
<1>8. ASSUME NEW h \in Handlers, NEW rotate \in BOOLEAN, RefreshLost(h, rotate)
      PROVE  LockOK'
  BY <1>7, <1>8 DEF RefreshLost, Redeem, LockedSteps
<1>9. ASSUME NEW h \in Handlers, \/ RefreshRejected(h) \/ RefreshFailed(h)
                                 \/ SaveRefreshed(h) \/ ResolveError(h)
      PROVE  LockOK'
  BY <1>7, <1>9 DEF RefreshRejected, RefreshFailed, SaveRefreshed, ResolveError, LockedSteps
<1>10. ASSUME NEW h \in Handlers, Report(h) PROVE LockOK'
  BY <1>2, <1>10 DEF Report, LockedSteps
<1>11. ASSUME NEW h \in Handlers, Start(h) PROVE LockOK'
  <2> DEFINE r == [Idle EXCEPT !.kind = "start", !.client = config.client,
          !.step = IF config.client = 0 \/ ~config.own THEN "register" ELSE "newstate"]
  <2>1. r.step \notin LockedSteps
    BY DEF Idle, LockedSteps
  <2>2. proc[h] = Idle /\ UNCHANGED mutex /\ proc' = [proc EXCEPT ![h] = r]
    BY <1>11 DEF Start
  <2> HIDE DEF r
  <2> QED BY <1>1, <2>1, <2>2
<1>12. ASSUME NEW h \in Handlers, Register(h) \/ MergeClient(h) PROVE LockOK'
  <2>1. Others(h) /\ proc'[h].step \in {"merge", "merging"}
    BY <1>12 DEF Register, MergeClient, Others, Typed, Process
  <2> QED BY <1>12, <2>1, AwayFromLock DEF Register, MergeClient, LockedSteps
<1>13. ASSUME NEW h \in Handlers, SaveOAuthClient(h) PROVE LockOK'
  <2>1. Others(h) /\ proc'[h].step = "newstate"
    BY <1>13, GotoEffect DEF SaveOAuthClient, Steps
  <2> QED BY <1>13, <2>1, AwayFromLock DEF SaveOAuthClient, LockedSteps
<1>14. ASSUME NEW h \in Handlers, NEW s \in States, CreateOAuthState(h, s) PROVE LockOK'
  BY <1>2, <1>14 DEF CreateOAuthState, LockedSteps
<1>15. ASSUME NEW h \in Handlers, StartError(h) \/ StoreTokens(h) \/ CompleteError(h)
       PROVE  LockOK'
  BY <1>2, <1>15 DEF StartError, StoreTokens, CompleteError, LockedSteps
<1>16. ASSUME NEW h \in Handlers, NEW s \in States, ConsumeOAuthState(h, s) PROVE LockOK'
  <2> DEFINE r == [Idle EXCEPT !.step = "callback", !.kind = "complete", !.state = s,
                    !.client = config.client]
  <2>1. r.step \notin LockedSteps
    BY DEF Idle, LockedSteps
  <2>2. proc[h] = Idle /\ UNCHANGED mutex /\ proc' = [proc EXCEPT ![h] = r]
    BY <1>16 DEF ConsumeOAuthState
  <2> HIDE DEF r
  <2> QED BY <1>1, <2>1, <2>2
<1>17. ASSUME NEW h \in Handlers, SendCode(h) PROVE LockOK'
  <2>1. Others(h) /\ proc'[h].step = "exchanging"
    BY <1>17 DEF SendCode, Others, Typed, Process
  <2> QED BY <1>17, <2>1, AwayFromLock DEF SendCode, LockedSteps
<1>18. ASSUME NEW h \in Handlers, NEW offline \in BOOLEAN, CodeGranted(h, offline)
       PROVE  LockOK'
  <2>1. Others(h) /\ proc'[h].step = "storing"
    BY <1>18 DEF CodeGranted, Others, Typed, Process
  <2> QED BY <1>18, <2>1, AwayFromLock DEF CodeGranted, LockedSteps
<1>19. ASSUME \/ \E s \in States : StateExpires(s)
              \/ AccessExpires \/ UNCHANGED vars
       PROVE  LockOK'
  BY <1>19 DEF StateExpires, AccessExpires, vars, LockOK
<1>20. CASE Restart
  BY <1>20 DEF Restart, LockOK, LockedSteps
<1> QED
  BY <1>3, <1>4, <1>5, <1>6, <1>8, <1>9, <1>10, <1>11, <1>12, <1>13, <1>14, <1>15,
     <1>16, <1>17, <1>18, <1>19, <1>20
  DEF Next, Resolving

\* Every table and every request keeps its shape, and whoever holds the lock of
\* Manager.refreshing is refreshing: no return of Resolve leaves it taken.
THEOREM TypeCorrect == Spec => []TypeOK
<1>1. Inv /\ LockOK => TypeOK
  BY OAuthAssumption DEF Inv, LockOK, LockedSteps, TypeOK, Typed
<1> QED BY <1>1, InvInit, InvNext, LockInit, LockNext, PTL DEF Spec

\* No two requests send the same refresh token at the same time, however many
\* calls and checks run: only the holder of the lock sends one.
THEOREM NoConcurrentRefresh == Spec => []NoConcurrentSpend
<1>1. LockOK => NoConcurrentSpend
  BY DEF LockOK, LockedSteps, NoConcurrentSpend
<1> QED BY <1>1, InvInit, InvNext, LockInit, LockNext, PTL DEF Spec

-----------------------------------------------------------------------------
(* Refresh tokens, client secrets and authorization states, on top of the  *)
(* shape and the lock.                                                     *)

\* Handler h neither writes the credential nor has tokens to store afterwards.
Passive(h) ==
  /\ Others(h)
  /\ proc'[h].step \notin {"locked", "refreshing", "saving", "storing"}
  /\ proc'[h].cred.refresh \in {0, cred.refresh, proc[h].cred.refresh}
  /\ proc'[h].refresh \in {0, proc[h].refresh}

\* Tokens a redeemed refresh can have left in use.
Usable == live \cup unsaved \cup restored

\* Numbers handed out so far bound every refresh token anybody knows.
Known ==
  /\ \A t \in live : t <= issued
  /\ cred.refresh <= issued
  /\ \A h \in Handlers : proc[h].cred.refresh <= issued /\ proc[h].refresh <= issued

\* The refresh token of an authorization is known to that request alone until it
\* is stored.
Exclusive ==
  \A h \in Handlers :
    proc[h].step = "storing" /\ proc[h].refresh # 0 =>
      /\ proc[h].refresh \in live
      /\ cred.refresh # proc[h].refresh
      /\ \A k \in Handlers : proc[k].cred.refresh # proc[h].refresh
      /\ \A k \in Handlers \ {h} : proc[k].refresh # proc[h].refresh

\* What a refresh is about to store is live, and what it sends is usable.
Refreshing ==
  \A h \in Handlers :
    /\ proc[h].step = "saving" => proc[h].refresh \in live
    /\ proc[h].step \in {"locked", "refreshing"} => proc[h].cred.refresh \in Usable

\* The stored refresh token is usable, or a request is about to replace it.
Stored ==
  cred.refresh # 0 =>
    cred.refresh \in Usable \cup {proc[h].cred.refresh :
                                    h \in {k \in Handlers : proc[k].step = "saving"}}

TokenInv == Known /\ Exclusive /\ Refreshing /\ Stored

\* A pending authorization's code has not been sent, and one callback has it.
SingleUse ==
  \A s \in States :
    /\ redeemed[s] <= 1
    /\ states[s].use # "used" => redeemed[s] = 0
    /\ \A h \in Handlers : proc[h].step = "callback" /\ proc[h].state = s =>
         /\ redeemed[s] = 0 /\ states[s].use = "used"
         /\ \A k \in Handlers \ {h} : ~(proc[k].step = "callback" /\ proc[k].state = s)

-----------------------------------------------------------------------------
(* Steps that leave the refresh tokens alone                               *)

LEMMA Numbers ==
  ASSUME Typed
  PROVE  /\ issued \in Nat /\ cred.refresh \in Nat
         /\ \A t \in live : t \in Nat
         /\ \A h \in Handlers : /\ proc[h] \in Process /\ proc[h].cred \in Credential
                                /\ proc[h].refresh \in Nat /\ proc[h].cred.refresh \in Nat
BY OAuthAssumption DEF Typed, Process, Credential, Tokens

LEMMA PassiveStep ==
  ASSUME Typed, TokenInv, NEW h \in Handlers, Passive(h), proc[h].step # "saving",
         UNCHANGED <<cred, issued, live, unsaved, restored>>
  PROVE  TokenInv'
<1> USE Numbers DEF Passive, Others
<1>1. Known'
  BY DEF TokenInv, Known
<1>2. Exclusive'
  BY DEF TokenInv, Exclusive
<1>3. Refreshing'
  BY DEF TokenInv, Refreshing, Usable
<1>4. Stored'
  BY DEF TokenInv, Stored, Usable
<1> QED BY <1>1, <1>2, <1>3, <1>4 DEF TokenInv

LEMMA IdleStep ==
  ASSUME Typed, TokenInv, NEW h \in Handlers, proc' = [proc EXCEPT ![h] = Idle],
         proc[h].step # "saving", UNCHANGED <<cred, issued, live, unsaved, restored>>
  PROVE  TokenInv'
<1>1. Passive(h)
  BY DEF Passive, Others, Typed, Idle, NoCred
<1> QED BY <1>1, PassiveStep

LEMMA GotoStep ==
  ASSUME Typed, TokenInv, NEW h \in Handlers,
         NEW s \in Steps \ {"locked", "refreshing", "saving", "storing"}, Goto(h, s),
         proc[h].step # "saving", UNCHANGED <<cred, issued, live, unsaved, restored>>
  PROVE  TokenInv'
<1>1. Passive(h)
  BY GotoEffect DEF Passive, NoCred
<1> QED BY <1>1, PassiveStep

-----------------------------------------------------------------------------
(* Steps of a refresh                                                      *)

\* The holder of the lock is the only one that refreshes.
LEMMA Alone ==
  ASSUME LockOK, NEW h \in Handlers, proc[h].step \in LockedSteps
  PROVE  \A k \in Handlers \ {h} : proc[k].step \notin LockedSteps
BY DEF LockOK

LEMMA LockStep ==
  ASSUME Typed, LockOK, TokenInv, NEW h \in Handlers, Lock(h)
  PROVE  TokenInv'
<1>1. CASE proc' = [proc EXCEPT ![h].step = "locked", ![h].cred = cred] /\ cred.refresh # 0
  <2>1. \A k \in Handlers : proc[k].step # "saving"
    BY <1>1, OAuthAssumption DEF Lock, MutexFree, LockOK, LockedSteps
  <2>2. cred.refresh \in Usable
    BY <1>1, <2>1 DEF TokenInv, Stored
  <2>3. Others(h) /\ proc'[h].step = "locked" /\ proc'[h].cred = cred
        /\ proc'[h].refresh = proc[h].refresh
    BY <1>1 DEF Others, Typed, Process
  <2>4. UNCHANGED <<cred, issued, live, unsaved, restored>>
    BY DEF Lock, store, provider, history
  <2> USE <2>3, <2>4, Numbers DEF Others
  <2>5. Known'
    BY DEF TokenInv, Known
  <2>6. Exclusive'
    BY DEF TokenInv, Exclusive
  <2>7. Refreshing'
    BY <2>2 DEF TokenInv, Refreshing, Usable
  <2>8. Stored'
    BY <2>2 DEF Stored, Usable
  <2> QED BY <2>5, <2>6, <2>7, <2>8 DEF TokenInv
<1>2. ASSUME NEW s \in {"resolved", "reauth", "failed"}, Goto(h, s) PROVE TokenInv'
  BY <1>2, GotoStep DEF Lock, store, provider, history, Steps
<1> QED BY <1>1, <1>2 DEF Lock, LatestCredential

LEMMA SendStep ==
  ASSUME Typed, TokenInv, NEW h \in Handlers, SendRefresh(h)
  PROVE  TokenInv'
<1>1. Others(h) /\ proc'[h].step = "refreshing" /\ proc'[h].cred = proc[h].cred
      /\ proc'[h].refresh = proc[h].refresh /\ proc[h].step = "locked"
  BY DEF SendRefresh, Others, Typed, Process
<1>2. UNCHANGED <<cred, issued, live, unsaved, restored>>
  BY DEF SendRefresh, store, provider, history
<1> USE <1>1, <1>2, Numbers DEF Others
<1>3. Known'
  BY DEF TokenInv, Known
<1>4. Exclusive'
  BY DEF TokenInv, Exclusive
<1>5. Refreshing'
  BY DEF TokenInv, Refreshing, Usable
<1>6. Stored'
  BY DEF TokenInv, Stored, Usable
<1> QED BY <1>3, <1>4, <1>5, <1>6 DEF TokenInv

\* The token an authorization was given is not the one a refresh redeems.
LEMMA RedeemKeepsOthers ==
  ASSUME Typed, TokenInv, NEW h \in Handlers, NEW rotate \in BOOLEAN, Redeem(h, rotate)
  PROVE  /\ issued' = issued + 1
         /\ live \ {proc[h].cred.refresh} \subseteq live'
         /\ \A t \in live' : t <= issued'
         /\ \A k \in Handlers : proc[k].step = "storing" /\ proc[k].refresh # 0
              => proc[k].refresh \in live'
         /\ NewRefresh(h, rotate) \in live'
BY Numbers DEF Redeem, Redeemable, NewRefresh, TokenInv, Known, Exclusive

LEMMA GrantStep ==
  ASSUME Typed, LockOK, TokenInv, NEW h \in Handlers, NEW rotate \in BOOLEAN,
         RefreshGranted(h, rotate)
  PROVE  TokenInv'
<1>1. Others(h) /\ proc'[h].step = "saving" /\ proc'[h].cred = proc[h].cred
      /\ proc'[h].refresh = NewRefresh(h, rotate)
  BY DEF RefreshGranted, Others, Typed, Process
<1>2. Redeem(h, rotate) /\ UNCHANGED <<cred, unsaved, restored>>
      /\ proc[h].step = "refreshing"
  BY DEF RefreshGranted, Redeem, store, history
<1>3. \A k \in Handlers \ {h} : proc[k].step \notin LockedSteps
  BY <1>2, Alone DEF LockedSteps
<1> USE <1>1, <1>2, Numbers DEF Others
<1>4. Known'
  BY RedeemKeepsOthers DEF TokenInv, Known, NewRefresh
<1>5. Exclusive'
  BY RedeemKeepsOthers DEF TokenInv, Known, Exclusive, NewRefresh
<1>6. Refreshing'
  BY <1>3, RedeemKeepsOthers DEF Refreshing, LockedSteps
<1>7. Stored'
  BY <1>3, RedeemKeepsOthers DEF TokenInv, Stored, Usable, LockedSteps
<1> QED BY <1>4, <1>5, <1>6, <1>7 DEF TokenInv

LEMMA LostStep ==
  ASSUME Typed, LockOK, TokenInv, NEW h \in Handlers, NEW rotate \in BOOLEAN,
         RefreshLost(h, rotate)
  PROVE  TokenInv'
<1>1. Others(h) /\ proc'[h].step = "reauth" /\ proc'[h].cred.refresh = 0
      /\ proc'[h].refresh = 0
  BY GotoEffect DEF RefreshLost, Steps, NoCred
<1>2. /\ Redeem(h, rotate) /\ UNCHANGED <<cred, restored>> /\ proc[h].step = "refreshing"
      /\ unsaved \subseteq unsaved'
      /\ proc[h].cred.refresh \in live' \cup unsaved'
  BY DEF RefreshLost, Redeem, Redeemable, store
<1>3. \A k \in Handlers \ {h} : proc[k].step \notin LockedSteps
  BY <1>2, Alone DEF LockedSteps
<1> USE <1>1, <1>2, Numbers DEF Others
<1>4. Known'
  BY RedeemKeepsOthers DEF TokenInv, Known
<1>5. Exclusive'
  BY RedeemKeepsOthers DEF TokenInv, Known, Exclusive
<1>6. Refreshing'
  BY <1>3, RedeemKeepsOthers DEF Refreshing, LockedSteps
<1>7. Stored'
  BY <1>3, RedeemKeepsOthers DEF TokenInv, Stored, Usable, LockedSteps
<1> QED BY <1>4, <1>5, <1>6, <1>7 DEF TokenInv

LEMMA SaveStep ==
  ASSUME Typed, LockOK, TokenInv, NEW h \in Handlers, SaveRefreshed(h)
  PROVE  TokenInv'
<1>1. Others(h) /\ proc'[h].step = "resolved" /\ proc'[h].cred.refresh = 0
      /\ proc'[h].refresh = 0
  BY GotoEffect DEF SaveRefreshed, Steps, NoCred
<1>2. /\ UNCHANGED <<issued, live, unsaved>> /\ proc[h].step = "saving"
      /\ cred'.refresh = proc[h].refresh
      /\ restored \subseteq restored'
  BY Numbers DEF SaveRefreshed, WriteCredential, provider, Credential
<1>3. \A k \in Handlers \ {h} : proc[k].step \notin LockedSteps
  BY <1>2, Alone DEF LockedSteps
<1> USE <1>1, <1>2, Numbers DEF Others
<1>4. Known'
  BY DEF TokenInv, Known
<1>5. Exclusive'
  BY DEF TokenInv, Exclusive
<1>6. Refreshing'
  BY <1>3 DEF Refreshing, LockedSteps
<1>7. Stored'
  BY DEF TokenInv, Refreshing, Stored, Usable
<1> QED BY <1>4, <1>5, <1>6, <1>7 DEF TokenInv

\* A refresh that is given up leaves the token it sent usable.
LEMMA ErrorStep ==
  ASSUME Typed, LockOK, TokenInv, NEW h \in Handlers, ResolveError(h)
  PROVE  TokenInv'
<1>1. Others(h) /\ proc'[h].step = "failed" /\ proc'[h].cred.refresh = 0
      /\ proc'[h].refresh = 0
  BY GotoEffect DEF ResolveError, Steps, NoCred
<1>2. /\ UNCHANGED <<cred, issued, live, restored>> /\ proc[h].step \in {"locked", "saving"}
      /\ unsaved' = unsaved \cup Forgotten(h)
  BY DEF ResolveError, store, provider
<1>3. \A k \in Handlers \ {h} : proc[k].step \notin LockedSteps
  BY <1>2, Alone DEF LockedSteps
<1> USE <1>1, <1>2, Numbers DEF Others
<1>4. Known'
  BY DEF TokenInv, Known
<1>5. Exclusive'
  BY DEF TokenInv, Exclusive
<1>6. Refreshing'
  BY <1>3 DEF Refreshing, LockedSteps
<1>7. proc[h].step = "saving" => proc[h].cred.refresh \in live' \cup unsaved'
  BY DEF TokenInv, Refreshing, Forgotten
<1>8. Stored'
  BY <1>3, <1>7 DEF TokenInv, Stored, Usable, LockedSteps
<1> QED BY <1>4, <1>5, <1>6, <1>8 DEF TokenInv

-----------------------------------------------------------------------------
(* Steps of an authorization                                               *)

LEMMA ClientStep ==
  ASSUME Typed, TokenInv, NEW h \in Handlers, SaveOAuthClient(h)
  PROVE  TokenInv'
<1>1. Others(h) /\ proc'[h].step = "newstate" /\ proc'[h].cred.refresh = 0
      /\ proc'[h].refresh = 0
  BY GotoEffect DEF SaveOAuthClient, Steps, NoCred
<1>2. /\ UNCHANGED <<issued, live, unsaved>> /\ proc[h].step = "merging"
      /\ cred'.refresh = proc[h].cred.refresh
      /\ cred'.refresh = cred.refresh \/ cred'.refresh \in restored'
      /\ restored \subseteq restored'
  BY Numbers DEF SaveOAuthClient, WriteCredential, MergedSecret, provider, Credential
<1> USE <1>1, <1>2, Numbers DEF Others
<1>3. Known'
  BY DEF TokenInv, Known
<1>4. Exclusive'
  BY DEF TokenInv, Exclusive
<1>5. Refreshing'
  BY DEF TokenInv, Refreshing, Usable
<1>6. Stored'
  BY DEF TokenInv, Stored, Usable
<1> QED BY <1>3, <1>4, <1>5, <1>6 DEF TokenInv

LEMMA CodeStep ==
  ASSUME Typed, TokenInv, NEW h \in Handlers, NEW offline \in BOOLEAN, CodeGranted(h, offline)
  PROVE  TokenInv'
<1>1. Others(h) /\ proc'[h].step = "storing" /\ proc'[h].cred = proc[h].cred
      /\ proc'[h].refresh = IF offline THEN issued + 1 ELSE 0
  BY DEF CodeGranted, Others, Typed, Process
<1>2. /\ UNCHANGED <<cred, unsaved, restored>> /\ proc[h].step = "exchanging"
      /\ issued' = issued + 1
      /\ live' = IF offline THEN live \cup {issued + 1} ELSE live
  BY DEF CodeGranted, store, history
<1> USE <1>1, <1>2, Numbers DEF Others
<1>3. Known'
  BY DEF TokenInv, Known
<1>4. Exclusive'
  BY DEF TokenInv, Known, Exclusive
<1>5. Refreshing'
  BY DEF TokenInv, Refreshing, Usable
<1>6. Stored'
  BY DEF TokenInv, Stored, Usable
<1> QED BY <1>3, <1>4, <1>5, <1>6 DEF TokenInv

LEMMA StoreStep ==
  ASSUME Typed, TokenInv, NEW h \in Handlers, StoreTokens(h)
  PROVE  TokenInv'
<1>1. Others(h) /\ proc'[h].step = "idle" /\ proc'[h].cred.refresh = 0
      /\ proc'[h].refresh = 0
  BY DEF StoreTokens, Others, Typed, Idle, NoCred
<1>2. /\ UNCHANGED <<issued, live, unsaved>> /\ proc[h].step = "storing"
      /\ cred'.refresh = proc[h].refresh
      /\ restored \subseteq restored'
  BY Numbers DEF StoreTokens, WriteCredential, provider, Credential
<1> USE <1>1, <1>2, Numbers DEF Others
<1>3. Known'
  BY DEF TokenInv, Known
<1>4. Exclusive'
  BY DEF TokenInv, Exclusive
<1>5. Refreshing'
  BY DEF TokenInv, Refreshing, Usable
<1>6. Stored'
  BY DEF TokenInv, Exclusive, Stored, Usable
<1> QED BY <1>3, <1>4, <1>5, <1>6 DEF TokenInv

\* A crash loses what the refreshes were about to store, and says so.
LEMMA RestartStep ==
  ASSUME Typed, TokenInv, Restart
  PROVE  TokenInv'
<1>1. \A h \in Handlers : /\ proc'[h].step = "idle" /\ proc'[h].cred.refresh = 0
                          /\ proc'[h].refresh = 0
  BY DEF Restart, Idle, NoCred
<1>2. /\ UNCHANGED <<cred, issued, live, restored>>
      /\ unsaved' = unsaved \cup UNION {Forgotten(h) : h \in Handlers}
  BY DEF Restart, store, provider
<1>3. ASSUME NEW h \in Handlers, proc[h].step = "saving"
      PROVE  proc[h].cred.refresh \in live' \cup unsaved'
  BY <1>2, <1>3 DEF TokenInv, Refreshing, Forgotten
<1> USE <1>1, <1>2, Numbers
<1>4. Known'
  BY DEF TokenInv, Known
<1>5. Exclusive' /\ Refreshing'
  BY DEF Exclusive, Refreshing
<1>6. Stored'
  BY <1>3 DEF TokenInv, Stored, Usable
<1> QED BY <1>4, <1>5, <1>6 DEF TokenInv

-----------------------------------------------------------------------------
LEMMA TokenInit == Init => TokenInv
<1> SUFFICES ASSUME Init PROVE TokenInv
  OBVIOUS
<1>1. /\ issued \in Nat /\ \A t \in live : t <= issued
      /\ cred.refresh <= issued
      /\ cred.refresh # 0 => cred.refresh \in live
  BY DEF Init, NoCred
<1>2. \A h \in Handlers : /\ proc[h].step = "idle" /\ proc[h].cred.refresh = 0
                          /\ proc[h].refresh = 0
  BY DEF Init, Idle, NoCred
<1> QED BY <1>1, <1>2 DEF TokenInv, Known, Exclusive, Refreshing, Stored, Usable

LEMMA TokenNext == Typed /\ LockOK /\ TokenInv /\ [Next]_vars => TokenInv'
<1> SUFFICES ASSUME Typed, LockOK, TokenInv, [Next]_vars PROVE TokenInv'
  OBVIOUS
<1> USE DEF store, provider, history
<1>1. ASSUME NEW h \in Handlers, NEW k \in Kinds, BeginResolve(h, k) PROVE TokenInv'
  <2> DEFINE r == IF Fresh(cred) THEN [Idle EXCEPT !.step = "resolved", !.kind = k]
                      ELSE [Idle EXCEPT !.step = "wait", !.kind = k, !.cred = cred]
  <2>1. r.step \in {"resolved", "wait"} /\ r.cred.refresh \in {0, cred.refresh}
        /\ r.refresh = 0
    BY DEF Idle, NoCred
  <2>2. proc' = [proc EXCEPT ![h] = r]
    BY <1>1 DEF BeginResolve
  <2> HIDE DEF r
  <2>3. Passive(h)
    BY <2>1, <2>2 DEF Passive, Others, Typed
  <2> QED BY <1>1, <2>3, PassiveStep DEF BeginResolve, Idle
<1>2. ASSUME NEW h \in Handlers, Start(h) PROVE TokenInv'
  <2> DEFINE r == [Idle EXCEPT !.kind = "start", !.client = config.client,
          !.step = IF config.client = 0 \/ ~config.own THEN "register" ELSE "newstate"]
  <2>1. r.step \in {"register", "newstate"} /\ r.cred.refresh = 0 /\ r.refresh = 0
    BY DEF Idle, NoCred
  <2>2. proc' = [proc EXCEPT ![h] = r]
    BY <1>2 DEF Start
  <2> HIDE DEF r
  <2>3. Passive(h)
    BY <2>1, <2>2 DEF Passive, Others, Typed
  <2> QED BY <1>2, <2>3, PassiveStep DEF Start, Idle
<1>3. ASSUME NEW h \in Handlers, NEW s \in States, ConsumeOAuthState(h, s) PROVE TokenInv'
  <2> DEFINE r == [Idle EXCEPT !.step = "callback", !.kind = "complete", !.state = s,
                    !.client = config.client]
  <2>1. r.step = "callback" /\ r.cred.refresh = 0 /\ r.refresh = 0
    BY DEF Idle, NoCred
  <2>2. proc' = [proc EXCEPT ![h] = r]
    BY <1>3 DEF ConsumeOAuthState
  <2> HIDE DEF r
  <2>3. Passive(h)
    BY <2>1, <2>2 DEF Passive, Others, Typed
  <2> QED BY <1>3, <2>3, PassiveStep DEF ConsumeOAuthState, Idle
<1>4. ASSUME NEW h \in Handlers, Register(h) PROVE TokenInv'
  <2>1. Passive(h)
    BY <1>4 DEF Register, Passive, Others, Typed, Process
  <2> QED BY <1>4, <2>1, PassiveStep DEF Register
<1>5. ASSUME NEW h \in Handlers, MergeClient(h) PROVE TokenInv'
  <2>1. Passive(h)
    BY <1>5 DEF MergeClient, Passive, Others, Typed, Process
  <2> QED BY <1>5, <2>1, PassiveStep DEF MergeClient
<1>6. ASSUME NEW h \in Handlers, SendCode(h) PROVE TokenInv'
  <2>1. Passive(h)
    BY <1>6 DEF SendCode, Passive, Others, Typed, Process
  <2> QED BY <1>6, <2>1, PassiveStep DEF SendCode
<1>7. ASSUME NEW h \in Handlers, Report(h) \/ StartError(h) \/ CompleteError(h)
      PROVE  TokenInv'
  BY <1>7, IdleStep DEF Report, StartError, CompleteError
<1>8. ASSUME NEW h \in Handlers, NEW s \in States, CreateOAuthState(h, s) PROVE TokenInv'
  BY <1>8, IdleStep DEF CreateOAuthState
<1>9. ASSUME NEW h \in Handlers, RefreshRejected(h) PROVE TokenInv'
  BY <1>9, GotoStep DEF RefreshRejected, Steps
<1>10. ASSUME NEW h \in Handlers, RefreshFailed(h) PROVE TokenInv'
  BY <1>10, GotoStep DEF RefreshFailed, Steps
<1>11. ASSUME \/ \E s \in States : StateExpires(s)
              \/ AccessExpires \/ UNCHANGED vars
       PROVE  TokenInv'
  BY <1>11 DEF StateExpires, AccessExpires, vars, TokenInv, Known, Exclusive, Refreshing,
               Stored, Usable
<1> QED
  BY <1>1, <1>2, <1>3, <1>4, <1>5, <1>6, <1>7, <1>8, <1>9, <1>10, <1>11, LockStep, SendStep,
     GrantStep, LostStep, SaveStep, ErrorStep, ClientStep, CodeStep, StoreStep, RestartStep
  DEF Next, Resolving

LEMMA TokensHold == Spec => [](Typed /\ LockOK /\ TokenInv)
<1>1. Inv => Typed
  BY DEF Inv
<1> QED BY <1>1, InvInit, InvNext, LockInit, LockNext, TokenInit, TokenNext, PTL DEF Spec

\* Waiting for the lock and reading the credential again keep every caller of
\* Resolve from sending a refresh token that was already replaced; the tokens
\* that escape are those whose replacement was lost or that were written back.
THEOREM SpentStayUnused == Spec => []SpentTokensStayUnused
<1>1. TokenInv => SpentTokensStayUnused
  BY DEF TokenInv, Refreshing, Usable, SpentTokensStayUnused
<1> QED BY <1>1, TokensHold, PTL

-----------------------------------------------------------------------------
(* Whose the refresh tokens are                                            *)

\* What a request is about to store was issued to the client it asked as.
Given ==
  \A h \in Handlers : proc[h].step \in {"saving", "storing"} /\ proc[h].refresh # 0
    => owner[proc[h].refresh] = proc[h].client

\* The stored token was issued to the configured client, or that client was
\* registered beside it.
Beside == cred.refresh # 0 => owner[cred.refresh] = config.client \/ cred.refresh \in kept

\* A step that stores nothing: whoever has something to store afterwards had it
\* before, and the owners of the tokens issued so far stay.
LEMMA OwnerStep ==
  ASSUME Typed, Known, Given, Beside, UNCHANGED <<cred, config, kept>>,
         \A t \in Tokens : t <= issued => owner'[t] = owner[t],
         \A h \in Handlers : \/ proc'[h] = proc[h]
                             \/ proc'[h].step \notin {"saving", "storing"}
                             \/ proc'[h].refresh # 0
                                  => owner'[proc'[h].refresh] = proc'[h].client
  PROVE  Given' /\ Beside'
<1>1. cred.refresh \in Tokens /\ \A h \in Handlers : proc[h].refresh \in Tokens
  BY DEF Typed, Process, Credential
<1>2. Given'
  BY <1>1 DEF Known, Given
<1>3. Beside'
  BY <1>1 DEF Known, Beside
<1> QED BY <1>2, <1>3

LEMMA OwnerInit == Init => Given /\ Beside
<1> SUFFICES ASSUME Init PROVE Given /\ Beside
  OBVIOUS
<1>1. Given
  BY DEF Init, Given, Idle
<1>2. Beside
  BY OAuthAssumption DEF Init, Beside, NoCred, Tokens
<1> QED BY <1>1, <1>2

\* A new token takes nobody's owner away.
LEMMA NewOwner ==
  ASSUME Typed, issued < MaxTokens, NEW c \in Clients, IssuedTo(issued + 1, c)
  PROVE  /\ owner'[issued + 1] = c
         /\ \A t \in Tokens : t <= issued => owner'[t] = owner[t]
<1>1. issued \in Nat /\ issued + 1 \in Tokens /\ \A t \in Tokens : t \in Nat
  BY Numbers, OAuthAssumption DEF Tokens
<1>2. owner \in [Tokens -> Clients] /\ owner' = [owner EXCEPT ![issued + 1] = c]
  BY DEF Typed, IssuedTo
<1> QED BY <1>1, <1>2

LEMMA OwnerNext == Typed /\ TokenInv /\ Given /\ Beside /\ [Next]_vars => Given' /\ Beside'
<1> SUFFICES ASSUME Typed, TokenInv, Known, Given, Beside, [Next]_vars PROVE Given' /\ Beside'
  BY DEF TokenInv
<1> USE DEF store, provider, history
<1>1. ASSUME NEW h \in Handlers, Others(h), proc'[h].step \notin {"saving", "storing"},
             UNCHANGED <<cred, config, kept, owner>>
      PROVE  Given' /\ Beside'
  BY <1>1, OwnerStep DEF Others
<1>2. ASSUME NEW h \in Handlers, NEW s \in Steps \ {"saving", "storing"}, Goto(h, s),
             UNCHANGED <<cred, config, kept, owner>>
      PROVE  Given' /\ Beside'
  BY <1>1, <1>2, GotoEffect
<1>3. ASSUME NEW h \in Handlers, NEW rotate \in BOOLEAN, Redeem(h, rotate)
      PROVE  /\ \A t \in Tokens : t <= issued => owner'[t] = owner[t]
             /\ NewRefresh(h, rotate) # 0 => owner'[NewRefresh(h, rotate)] = proc[h].client
  <2>1. issued < MaxTokens /\ proc[h].client \in Clients
    BY <1>3 DEF Redeem, Redeemable, Typed, Process
  <2>2. CASE rotate
    BY <1>3, <2>1, <2>2, NewOwner DEF Redeem, NewRefresh
  <2>3. CASE ~rotate
    BY <1>3, <2>3 DEF Redeem, Redeemable, NewRefresh
  <2> QED BY <2>2, <2>3
<1>4. ASSUME NEW h \in Handlers, NEW rotate \in BOOLEAN, RefreshGranted(h, rotate)
      PROVE  Given' /\ Beside'
  <2>1. Others(h) /\ proc'[h].refresh = NewRefresh(h, rotate) /\ proc'[h].client = proc[h].client
    BY <1>4 DEF RefreshGranted, Others, Typed, Process
  <2>2. Redeem(h, rotate) /\ UNCHANGED <<cred, config, kept>>
    BY <1>4 DEF RefreshGranted
  <2> QED BY <1>3, <2>1, <2>2, OwnerStep DEF Others
<1>5. ASSUME NEW h \in Handlers, NEW rotate \in BOOLEAN, RefreshLost(h, rotate)
      PROVE  Given' /\ Beside'
  <2>1. Others(h) /\ proc'[h].step = "reauth"
    BY <1>5, GotoEffect DEF RefreshLost, Steps
  <2>2. Redeem(h, rotate) /\ UNCHANGED <<cred, config, kept>>
    BY <1>5 DEF RefreshLost
  <2> QED BY <1>3, <2>1, <2>2, OwnerStep DEF Others
<1>6. ASSUME NEW h \in Handlers, NEW offline \in BOOLEAN, CodeGranted(h, offline)
      PROVE  Given' /\ Beside'
  <2>1. Others(h) /\ proc'[h].client = proc[h].client
        /\ (offline => proc'[h].refresh = issued + 1) /\ (~offline => proc'[h].refresh = 0)
    <3> DEFINE given == IF offline THEN issued + 1 ELSE 0
    <3>1. proc' = [proc EXCEPT ![h].step = "storing", ![h].token = issued + 1,
                               ![h].refresh = given]
      BY <1>6 DEF CodeGranted
    <3>2. (offline => given = issued + 1) /\ (~offline => given = 0)
      OBVIOUS
    <3> HIDE DEF given
    <3> QED BY <3>1, <3>2 DEF Others, Typed, Process
  <2>2. issued < MaxTokens /\ proc[h].client \in Clients
    BY <1>6 DEF CodeGranted, Typed, Process
  <2>3. /\ \A t \in Tokens : t <= issued => owner'[t] = owner[t]
        /\ offline => owner'[issued + 1] = proc[h].client
    BY <1>6, <2>2, NewOwner DEF CodeGranted
  <2>4. UNCHANGED <<cred, config, kept>>
    BY <1>6 DEF CodeGranted
  <2>5. proc'[h].refresh # 0 => owner'[proc'[h].refresh] = proc'[h].client
    <3>1. CASE offline
      BY <2>1, <2>3, <3>1
    <3>2. CASE ~offline
      BY <2>1, <3>2
    <3> QED BY <3>1, <3>2
  <2> QED BY <2>1, <2>3, <2>4, <2>5, OwnerStep DEF Others
<1>7. ASSUME NEW h \in Handlers, SaveRefreshed(h) \/ StoreTokens(h)
      PROVE  Given' /\ Beside'
  <2>1. Others(h) /\ proc'[h].step \in {"resolved", "idle"}
    <3>1. CASE SaveRefreshed(h)
      BY <3>1, GotoEffect DEF SaveRefreshed, Steps
    <3>2. CASE StoreTokens(h)
      BY <3>2 DEF StoreTokens, Others, Typed, Idle
    <3> QED BY <1>7, <3>1, <3>2
  <2>2. /\ UNCHANGED <<config, owner>> /\ proc[h].step \in {"saving", "storing"}
        /\ cred'.refresh = proc[h].refresh
        /\ kept' = IF proc[h].client # config.client THEN kept \cup {proc[h].refresh} ELSE kept
    BY <1>7, Numbers DEF SaveRefreshed, StoreTokens, WriteCredential, PutBesideNewClient,
                         Credential
  <2>3. Beside'
    BY <2>2 DEF Given, Beside
  <2>4. Given'
    BY <2>1, <2>2 DEF Given, Others
  <2> QED BY <2>3, <2>4
<1>8. ASSUME NEW h \in Handlers, SaveOAuthClient(h)
      PROVE  Given' /\ Beside'
  <2>1. Others(h) /\ proc'[h].step = "newstate" /\ UNCHANGED owner
    BY <1>8, GotoEffect DEF SaveOAuthClient, Steps
  <2>2. cred'.refresh \in kept'
    BY <1>8, Numbers DEF SaveOAuthClient, WriteCredential, MergedSecret, Credential
  <2>3. Beside'
    BY <2>2 DEF Beside
  <2>4. Given'
    BY <2>1 DEF Given, Others
  <2> QED BY <2>3, <2>4
<1>9. ASSUME NEW h \in Handlers, Lock(h) PROVE Given' /\ Beside'
  <2>1. CASE proc' = [proc EXCEPT ![h].step = "locked", ![h].cred = cred]
    <3>1. Others(h) /\ proc'[h].step = "locked"
      BY <2>1 DEF Others, Typed, Process
    <3> QED BY <1>1, <1>9, <3>1 DEF Lock
  <2> QED BY <1>2, <1>9, <2>1 DEF Lock, LatestCredential, Steps
<1>10. ASSUME NEW h \in Handlers,
              RefreshRejected(h) \/ RefreshFailed(h) \/ ResolveError(h)
       PROVE  Given' /\ Beside'
  BY <1>2, <1>10 DEF RefreshRejected, RefreshFailed, ResolveError, Steps
<1>11. ASSUME NEW h \in Handlers,
              SendRefresh(h) \/ Register(h) \/ MergeClient(h) \/ SendCode(h)
       PROVE  Given' /\ Beside'
  <2>1. Others(h) /\ proc'[h].step \in {"refreshing", "merge", "merging", "exchanging"}
    BY <1>11 DEF SendRefresh, Register, MergeClient, SendCode, Others, Typed, Process
  <2>2. UNCHANGED <<cred, config, kept, owner>>
    BY <1>11 DEF SendRefresh, Register, MergeClient, SendCode
  <2> QED BY <1>1, <2>1, <2>2
<1>12. ASSUME NEW h \in Handlers, proc' = [proc EXCEPT ![h] = Idle],
              UNCHANGED <<cred, config, kept, owner>>
       PROVE  Given' /\ Beside'
  <2>1. Others(h) /\ proc'[h].step = "idle"
    BY <1>12 DEF Others, Typed, Idle
  <2> QED BY <1>1, <1>12, <2>1
<1>13. ASSUME NEW h \in Handlers,
              \/ Report(h) \/ StartError(h) \/ CompleteError(h)
              \/ \E s \in States : CreateOAuthState(h, s)
       PROVE  Given' /\ Beside'
  BY <1>12, <1>13 DEF Report, StartError, CompleteError, CreateOAuthState
<1>14. ASSUME NEW h \in Handlers, NEW k \in Kinds, BeginResolve(h, k) PROVE Given' /\ Beside'
  <2> DEFINE r == IF Fresh(cred) THEN [Idle EXCEPT !.step = "resolved", !.kind = k]
                      ELSE [Idle EXCEPT !.step = "wait", !.kind = k, !.cred = cred]
  <2>1. r.step \in {"resolved", "wait"}
    BY DEF Idle
  <2>2. proc' = [proc EXCEPT ![h] = r] /\ UNCHANGED <<cred, config, kept, owner>>
    BY <1>14 DEF BeginResolve
  <2> HIDE DEF r
  <2>3. Others(h) /\ proc'[h].step \in {"resolved", "wait"}
    BY <2>1, <2>2 DEF Others, Typed
  <2> QED BY <1>1, <2>2, <2>3
<1>15. ASSUME NEW h \in Handlers, Start(h) PROVE Given' /\ Beside'
  <2> DEFINE r == [Idle EXCEPT !.kind = "start", !.client = config.client,
          !.step = IF config.client = 0 \/ ~config.own THEN "register" ELSE "newstate"]
  <2>1. r.step \in {"register", "newstate"}
    BY DEF Idle
  <2>2. proc' = [proc EXCEPT ![h] = r] /\ UNCHANGED <<cred, config, kept, owner>>
    BY <1>15 DEF Start
  <2> HIDE DEF r
  <2>3. Others(h) /\ proc'[h].step \in {"register", "newstate"}
    BY <2>1, <2>2 DEF Others, Typed
  <2> QED BY <1>1, <2>2, <2>3
<1>16. ASSUME NEW h \in Handlers, NEW s \in States, ConsumeOAuthState(h, s)
       PROVE  Given' /\ Beside'
  <2> DEFINE r == [Idle EXCEPT !.step = "callback", !.kind = "complete", !.state = s,
                    !.client = config.client]
  <2>1. r.step = "callback"
    BY DEF Idle
  <2>2. proc' = [proc EXCEPT ![h] = r] /\ UNCHANGED <<cred, config, kept, owner>>
    BY <1>16 DEF ConsumeOAuthState
  <2> HIDE DEF r
  <2>3. Others(h) /\ proc'[h].step = "callback"
    BY <2>1, <2>2 DEF Others, Typed
  <2> QED BY <1>1, <2>2, <2>3
<1>17. ASSUME \/ \E s \in States : StateExpires(s)
              \/ AccessExpires \/ Restart \/ UNCHANGED vars
       PROVE  Given' /\ Beside'
  <2>1. UNCHANGED <<cred, config, kept, owner>>
    BY <1>17 DEF StateExpires, AccessExpires, Restart, vars
  <2>2. \A h \in Handlers : proc'[h] = proc[h] \/ proc'[h].step = "idle"
    BY <1>17 DEF StateExpires, AccessExpires, Restart, vars, Idle
  <2> QED BY <2>1, <2>2, OwnerStep
<1> QED
  BY <1>4, <1>5, <1>6, <1>7, <1>8, <1>9, <1>10, <1>11, <1>13, <1>14, <1>15, <1>16, <1>17
  DEF Next, Resolving

\* The refresh token in connection_credentials is one the provider redeems for
\* the client in oauth_configs, or the request that holds the lock is about to
\* replace it; otherwise its replacement was lost, it was written back, or the
\* client was registered beside another client's tokens.
THEOREM StoredIsLive == Spec => []StoredTokenIsLive
<1>1. LockOK /\ TokenInv /\ Beside => StoredTokenIsLive
  BY DEF LockOK, LockedSteps, TokenInv, Stored, Usable, Beside, StoredTokenIsLive
<1> QED BY <1>1, TokensHold, InvInit, InvNext, OwnerInit, OwnerNext, PTL DEF Spec

-----------------------------------------------------------------------------
(* The client's secret                                                     *)

LEMMA SecretInit == Init => SecretFollowsClient
BY DEF Init, NoCred, SecretFollowsClient

LEMMA SecretNext == Typed /\ SecretFollowsClient /\ [Next]_vars => SecretFollowsClient'
<1> SUFFICES ASSUME Typed, SecretFollowsClient, [Next]_vars PROVE SecretFollowsClient'
  OBVIOUS
<1> USE DEF store, provider, history, SecretFollowsClient
<1>1. ASSUME NEW h \in Handlers, SaveRefreshed(h) \/ StoreTokens(h) PROVE SecretFollowsClient'
  <2>1. cred'.secret = proc[h].cred.secret /\ UNCHANGED config
    BY <1>1, Numbers DEF SaveRefreshed, StoreTokens, WriteCredential, Credential
  <2>2. crossed' = (crossed \/ cred.secret # proc[h].cred.secret)
    BY <1>1 DEF SaveRefreshed, StoreTokens, WriteCredential
  <2> QED BY <2>1, <2>2
<1>2. ASSUME NEW h \in Handlers, SaveOAuthClient(h) PROVE SecretFollowsClient'
  <2>1. cred'.secret = proc[h].client /\ config'.client = proc[h].client
    BY <1>2, Numbers DEF SaveOAuthClient, MergedSecret, WriteCredential, Credential
  <2> QED BY <2>1
<1>3. ASSUME UNCHANGED <<cred, config, crossed>> PROVE SecretFollowsClient'
  BY <1>3
<1>4. ASSUME NEW h \in Handlers,
             \/ Lock(h) \/ SendRefresh(h) \/ RefreshRejected(h) \/ RefreshFailed(h)
             \/ ResolveError(h) \/ Report(h)
             \/ \E rotate \in BOOLEAN : RefreshGranted(h, rotate) \/ RefreshLost(h, rotate)
      PROVE  SecretFollowsClient'
  BY <1>3, <1>4 DEF Lock, SendRefresh, RefreshRejected, RefreshFailed, ResolveError, Report,
                    RefreshGranted, RefreshLost
<1>5. ASSUME NEW h \in Handlers,
             \/ Start(h) \/ Register(h) \/ MergeClient(h) \/ StartError(h)
             \/ SendCode(h) \/ CompleteError(h)
             \/ \E k \in Kinds : BeginResolve(h, k)
             \/ \E s \in States : CreateOAuthState(h, s) \/ ConsumeOAuthState(h, s)
             \/ \E offline \in BOOLEAN : CodeGranted(h, offline)
      PROVE  SecretFollowsClient'
  BY <1>3, <1>5 DEF Start, Register, MergeClient, StartError, SendCode, CompleteError,
                    BeginResolve, CreateOAuthState, ConsumeOAuthState, CodeGranted
<1>6. ASSUME \/ \E s \in States : StateExpires(s)
             \/ AccessExpires \/ Restart \/ UNCHANGED vars
      PROVE  SecretFollowsClient'
  BY <1>3, <1>6 DEF StateExpires, AccessExpires, Restart, vars
<1> QED BY <1>1, <1>2, <1>4, <1>5, <1>6 DEF Next, Resolving

\* The secret in connection_credentials belongs to the client in oauth_configs:
\* SaveOAuthClient changes both at once, and only a handler that read the
\* credential before a registration can part them afterwards.
THEOREM SecretFollows == Spec => []SecretFollowsClient
<1>1. Inv => Typed
  BY DEF Inv
<1> QED BY <1>1, InvInit, InvNext, SecretInit, SecretNext, PTL DEF Spec

-----------------------------------------------------------------------------
(* The authorization states                                                *)

\* Handler h has no callback to serve after the step.
NoCallback(h) == Others(h) /\ proc'[h].step # "callback"

LEMMA OtherStep ==
  ASSUME SingleUse, NEW h \in Handlers, NoCallback(h), UNCHANGED <<states, redeemed>>
  PROVE  SingleUse'
BY DEF SingleUse, NoCallback, Others

LEMMA SingleUseInit == Init => SingleUse
BY DEF Init, SingleUse, Idle

LEMMA SingleUseNext == Inv /\ SingleUse /\ [Next]_vars => SingleUse'
<1> SUFFICES ASSUME Typed, ProcOK, SingleUse, [Next]_vars PROVE SingleUse'
  BY DEF Inv
<1> USE DEF store, provider, history
<1>1. ASSUME NEW h \in Handlers, NEW s \in Steps \ {"callback"}, Goto(h, s),
             UNCHANGED <<states, redeemed>>
      PROVE  SingleUse'
  BY <1>1, GotoEffect, OtherStep DEF NoCallback
<1>2. ASSUME NEW h \in Handlers,
             \/ RefreshRejected(h) \/ RefreshFailed(h) \/ SaveRefreshed(h)
             \/ ResolveError(h) \/ SaveOAuthClient(h)
             \/ \E rotate \in BOOLEAN : RefreshLost(h, rotate)
      PROVE  SingleUse'
  BY <1>1, <1>2 DEF RefreshRejected, RefreshFailed, SaveRefreshed, ResolveError,
                    SaveOAuthClient, RefreshLost, WriteCredential, Steps
<1>3. ASSUME NEW h \in Handlers,
             \/ Report(h) \/ StartError(h) \/ CompleteError(h) \/ StoreTokens(h)
      PROVE  SingleUse'
  <2>1. NoCallback(h)
    BY <1>3 DEF Report, StartError, CompleteError, StoreTokens, NoCallback, Others, Typed, Idle
  <2>2. UNCHANGED <<states, redeemed>>
    BY <1>3 DEF Report, StartError, CompleteError, StoreTokens, WriteCredential
  <2> QED BY <2>1, <2>2, OtherStep
<1>4. ASSUME NEW h \in Handlers, Lock(h) PROVE SingleUse'
  <2>1. UNCHANGED <<states, redeemed>>
    BY <1>4 DEF Lock
  <2>2. CASE proc' = [proc EXCEPT ![h].step = "locked", ![h].cred = cred]
    <3>1. NoCallback(h)
      BY <2>2 DEF NoCallback, Others, Typed, Process
    <3> QED BY <2>1, <3>1, OtherStep
  <2> QED BY <1>1, <1>4, <2>1, <2>2 DEF Lock, LatestCredential, Steps
<1>5. ASSUME NEW h \in Handlers,
             \/ SendRefresh(h) \/ Register(h) \/ MergeClient(h)
             \/ \E rotate \in BOOLEAN : RefreshGranted(h, rotate)
             \/ \E offline \in BOOLEAN : CodeGranted(h, offline)
      PROVE  SingleUse'
  <2>1. NoCallback(h)
    BY <1>5 DEF SendRefresh, Register, MergeClient, RefreshGranted, CodeGranted, NoCallback,
                Others, Typed, Process
  <2>2. UNCHANGED <<states, redeemed>>
    BY <1>5 DEF SendRefresh, Register, MergeClient, RefreshGranted, CodeGranted
  <2> QED BY <2>1, <2>2, OtherStep
<1>6. ASSUME NEW h \in Handlers, NEW k \in Kinds, BeginResolve(h, k) PROVE SingleUse'
  <2> DEFINE r == IF Fresh(cred) THEN [Idle EXCEPT !.step = "resolved", !.kind = k]
                      ELSE [Idle EXCEPT !.step = "wait", !.kind = k, !.cred = cred]
  <2>1. r.step # "callback"
    BY DEF Idle
  <2>2. proc' = [proc EXCEPT ![h] = r]
    BY <1>6 DEF BeginResolve
  <2> HIDE DEF r
  <2>3. NoCallback(h)
    BY <2>1, <2>2 DEF NoCallback, Others, Typed
  <2> QED BY <1>6, <2>3, OtherStep DEF BeginResolve
<1>7. ASSUME NEW h \in Handlers, Start(h) PROVE SingleUse'
  <2> DEFINE r == [Idle EXCEPT !.kind = "start", !.client = config.client,
          !.step = IF config.client = 0 \/ ~config.own THEN "register" ELSE "newstate"]
  <2>1. r.step # "callback"
    BY DEF Idle
  <2>2. proc' = [proc EXCEPT ![h] = r]
    BY <1>7 DEF Start
  <2> HIDE DEF r
  <2>3. NoCallback(h)
    BY <2>1, <2>2 DEF NoCallback, Others, Typed
  <2> QED BY <1>7, <2>3, OtherStep DEF Start
<1>8. ASSUME NEW h \in Handlers, NEW s \in States, CreateOAuthState(h, s) PROVE SingleUse'
  <2>1. Others(h) /\ proc'[h].step = "idle"
    BY <1>8 DEF CreateOAuthState, Others, Typed, Idle
  <2>2. /\ UNCHANGED redeemed /\ states[s].use = "unused"
        /\ \A t \in States \ {s} : states'[t] = states[t]
        /\ states'[s].use = "pending"
    BY <1>8 DEF CreateOAuthState, Typed
  <2> QED BY <2>1, <2>2 DEF SingleUse, Others
<1>9. ASSUME NEW h \in Handlers, NEW s \in States, ConsumeOAuthState(h, s) PROVE SingleUse'
  <2> DEFINE r == [Idle EXCEPT !.step = "callback", !.kind = "complete", !.state = s,
                    !.client = config.client]
  <2>1. r.state = s
    BY DEF Idle
  <2>2. proc' = [proc EXCEPT ![h] = r]
    BY <1>9 DEF ConsumeOAuthState
  <2> HIDE DEF r
  <2>3. Others(h) /\ proc'[h].state = s
    BY <2>1, <2>2 DEF Others, Typed
  <2>4. /\ UNCHANGED redeemed /\ states[s].use = "pending"
        /\ \A t \in States \ {s} : states'[t] = states[t]
        /\ states'[s].use = "used"
    BY <1>9 DEF ConsumeOAuthState, Consumed, Typed, Pending
  <2> QED BY <2>3, <2>4 DEF SingleUse, Others
<1>10. ASSUME NEW h \in Handlers, SendCode(h) PROVE SingleUse'
  <2>1. Others(h) /\ proc'[h].step = "exchanging" /\ proc[h].step = "callback"
    BY <1>10 DEF SendCode, Others, Typed, Process
  <2>2. proc[h].state \in States
    BY <2>1 DEF ProcOK
  <2>3. redeemed[proc[h].state] = 0
    BY <2>1, <2>2 DEF SingleUse
  <2>4. /\ UNCHANGED states
        /\ \A t \in States \ {proc[h].state} : redeemed'[t] = redeemed[t]
        /\ redeemed'[proc[h].state] = 1
    BY <1>10, <2>2, <2>3 DEF SendCode, Typed
  <2> QED BY <2>1, <2>2, <2>4 DEF SingleUse, Others
<1>11. ASSUME NEW s \in States, StateExpires(s) PROVE SingleUse'
  <2>1. /\ UNCHANGED <<redeemed, proc>>
        /\ \A t \in States \ {s} : states'[t] = states[t]
        /\ states[s].use = "pending" /\ states'[s].use = "used"
    BY <1>11 DEF StateExpires, Typed, Pending
  <2> QED BY <2>1 DEF SingleUse
<1>12. CASE Restart
  BY <1>12 DEF Restart, SingleUse, Idle
<1>13. ASSUME AccessExpires \/ UNCHANGED vars PROVE SingleUse'
  BY <1>13 DEF AccessExpires, vars, SingleUse
<1> QED BY <1>2, <1>3, <1>4, <1>5, <1>6, <1>7, <1>8, <1>9, <1>10, <1>11, <1>12, <1>13
  DEF Next, Resolving

\* However often a callback is opened, and however the process is restarted
\* meanwhile, the code of an authorization reaches the provider at most once.
THEOREM StatesAreSingleUse == Spec => []StateIsSingleUse
<1>1. SingleUse => StateIsSingleUse
  BY DEF SingleUse, StateIsSingleUse
<1> QED BY <1>1, InvInit, InvNext, SingleUseInit, SingleUseNext, PTL DEF Spec
=============================================================================
