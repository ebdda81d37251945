------------------------------- MODULE OAuth -------------------------------
(***************************************************************************)
(* The OAuth credential of one connection: agent calls and health checks  *)
(* that refresh it (Resolve), operators who authorize it (Start and       *)
(* Complete), the credential row that all of them read whole and write    *)
(* back whole, and the provider, which redeems refresh tokens and may     *)
(* replace each by a new one.                                              *)
(*                                                                         *)
(* Resolve holds a mutex of the process from reading the latest           *)
(* credential to saving the new one; Start and Complete do not take it.   *)
(* Tokens and clients are numbered in the order they are issued, 0 is     *)
(* none.  A refresh or authorization code exchange that succeeds yields   *)
(* one access token and at most one refresh token, of the same number.    *)
(***************************************************************************)
EXTENDS Naturals

CONSTANTS
  Handlers,    \* requests being served at the same time
  States,      \* authorization states, each created at most once
  Public,      \* the clients registered without a secret
  MaxTokens,   \* bound: the tokens the provider issues
  MaxClients,  \* bound: the clients registered with the provider
  Nobody       \* holds the mutex when no handler does

ASSUME OAuthAssumption ==
  /\ MaxTokens \in Nat \ {0}
  /\ MaxClients \in Nat \ {0}
  /\ Nobody \notin Handlers

VARIABLES
  cred,      \* connection_credentials: access token, refresh token, secret
  config,    \* oauth_configs: client id, and whether it is for our callback
  states,    \* oauth_states, with the client each authorization names
  status,    \* connections.status
  mutex,     \* the connection's lock in Manager.refreshing
  proc,      \* what each handler is doing and has read
  expired,   \* access tokens that are about to expire or have expired
  issued,    \* how many tokens the provider has issued
  clients,   \* how many clients the provider has registered
  live,      \* refresh tokens the provider has not replaced
  owner,     \* the client each refresh token was issued to
  unsaved,   \* history: refresh tokens whose replacement was never stored
  restored,  \* history: refresh tokens written back over a newer credential
  kept,      \* history: refresh tokens put beside a client registered since
  crossed,   \* history: a secret was written back over a newer client's
  redeemed   \* history: how often each state's code was sent to the provider

store == <<cred, config, states, status>>
provider == <<expired, issued, clients, live, owner>>
history == <<unsaved, restored, kept, crossed, redeemed>>
vars == <<store, provider, history, mutex, proc>>

-----------------------------------------------------------------------------
Tokens  == 0 .. MaxTokens
Clients == 0 .. MaxClients

Credential == [access : Tokens, refresh : Tokens, secret : Clients]
Config     == [client : Clients, own : BOOLEAN]
NoCred     == [access |-> 0, refresh |-> 0, secret |-> 0]

Kinds == {"none", "call", "check", "start", "complete"}
Steps == {"idle",
          "wait", "locked", "refreshing", "saving",       \* Resolve
          "resolved", "rejected", "reauth", "failed",     \* its outcomes
          "register", "merge", "merging", "newstate",     \* Start
          "callback", "exchanging", "storing"}            \* Complete

Process == [step : Steps, kind : Kinds, cred : Credential, client : Clients,
            token : Tokens, refresh : Tokens, state : States \cup {Nobody}]
Idle == [step |-> "idle", kind |-> "none", cred |-> NoCred, client |-> 0,
         token |-> 0, refresh |-> 0, state |-> Nobody]

Pending == [use : {"unused", "pending", "used"}, client : Clients]

Fresh(c) == c.access # 0 /\ c.access \notin expired

\* The provider authenticates a client that has a secret by it.
Authentic(client, secret) == client \in Public \/ secret = client

\* A connection created by hand has a client and no tokens yet; an imported one
\* has another application's client, or none, and that application's tokens.
Init ==
  /\ \/ /\ cred = [NoCred EXCEPT !.secret = 1]
        /\ config = [client |-> 1, own |-> TRUE]
        /\ issued = 0 /\ live = {} /\ clients = 1
     \/ /\ cred = [access |-> 1, refresh |-> 1, secret |-> 1]
        /\ config = [client |-> 1, own |-> FALSE]
        /\ issued = 1 /\ live = {1} /\ clients = 1
     \/ /\ cred = NoCred
        /\ config = [client |-> 0, own |-> FALSE]
        /\ issued = 0 /\ live = {} /\ clients = 0
  /\ states = [s \in States |-> [use |-> "unused", client |-> 0]]
  /\ status = "unchecked"
  /\ mutex = Nobody
  /\ proc = [h \in Handlers |-> Idle]
  /\ expired = {}
  /\ owner = [t \in Tokens |-> IF t \in live THEN config.client ELSE 0]
  /\ unsaved = {} /\ restored = {} /\ kept = {} /\ crossed = FALSE
  /\ redeemed = [s \in States |-> 0]

\* Handler h is left with step s of what it does, and nothing it has read.
Goto(h, s) ==
  proc' = [proc EXCEPT ![h] = [Idle EXCEPT !.step = s, !.kind = proc[h].kind,
                                           !.client = IF s = "newstate"
                                                        THEN proc[h].client ELSE 0]]

\* A handler's write of the whole credential c: if the credential has changed
\* since the handler read it, what was read is written back over it.
WriteCredential(h, c) ==
  /\ cred' = c
  /\ restored' = IF cred # proc[h].cred THEN restored \cup {c.refresh} ELSE restored
  /\ crossed' = (crossed \/ cred.secret # proc[h].cred.secret)

\* A token that was asked for as one client is stored beside another, which was
\* registered since.
PutBesideNewClient(h) ==
  kept' = IF proc[h].client # config.client THEN kept \cup {proc[h].refresh} ELSE kept

-----------------------------------------------------------------------------
(* Resolve, from an agent's tool call or from a health check               *)

\* A fresh credential needs no refresh.
BeginResolve(h, k) ==
  /\ k \in {"call", "check"}
  /\ proc[h] = Idle
  /\ proc' = [proc EXCEPT ![h] =
       IF Fresh(cred) THEN [Idle EXCEPT !.step = "resolved", !.kind = k]
                      ELSE [Idle EXCEPT !.step = "wait", !.kind = k, !.cred = cred]]
  /\ UNCHANGED <<store, provider, history, mutex>>

\* A caller that goes on with the credential it came with.
CallersCredential(h) == proc[h].cred

\* Another caller may have refreshed while this one waited for the lock.
LatestCredential(h) == cred

\* A caller that does not wait for its turn.
AnyTurn == TRUE

MutexFree == mutex = Nobody

Lock(h) ==
  LET c == LatestCredential(h)
  IN /\ proc[h].step = "wait"
     /\ MutexFree
     /\ \/ /\ Fresh(c)
           /\ Goto(h, "resolved")
           /\ UNCHANGED mutex
        \/ /\ ~Fresh(c) /\ c.refresh = 0
           /\ Goto(h, "reauth")
           /\ UNCHANGED mutex
        \/ /\ ~Fresh(c) /\ c.refresh # 0
           /\ proc' = [proc EXCEPT ![h].step = "locked", ![h].cred = c]
           /\ mutex' = h
        \/ /\ Goto(h, "failed")          \* the credential could not be read
           /\ UNCHANGED mutex
     /\ UNCHANGED <<store, provider, history>>

\* The configuration is read and the refresh token sent.
SendRefresh(h) ==
  /\ proc[h].step = "locked"
  /\ proc' = [proc EXCEPT ![h].step = "refreshing", ![h].client = config.client]
  /\ UNCHANGED <<store, provider, history, mutex>>

\* An early return that keeps the lock.
KeepLock(h) == UNCHANGED mutex

\* Returning releases it.
Unlock(h) == mutex' = IF mutex = h THEN Nobody ELSE mutex

\* A refresh token works for the client it was issued to and for no other.
Redeemable(h) ==
  /\ proc[h].cred.refresh \in live
  /\ owner[proc[h].cred.refresh] = proc[h].client
  /\ Authentic(proc[h].client, proc[h].cred.secret)
  /\ issued < MaxTokens

\* Token t was issued to client c.
IssuedTo(t, c) == owner' = [owner EXCEPT ![t] = c]

\* The provider redeems the refresh token.  It may replace it, and if it does
\* the token is spent.
Redeem(h, rotate) ==
  /\ proc[h].step = "refreshing"
  /\ Redeemable(h)
  /\ issued' = issued + 1
  /\ live' = IF rotate THEN (live \ {proc[h].cred.refresh}) \cup {issued + 1} ELSE live
  /\ IF rotate THEN IssuedTo(issued + 1, proc[h].client) ELSE UNCHANGED owner
  /\ UNCHANGED <<expired, clients>>

\* The token that was sent is kept whatever the provider answers.
KeptRefresh(h, rotate) == proc[h].cred.refresh

\* A new refresh token in the answer replaces the one that was sent.
NewRefresh(h, rotate) == IF rotate THEN issued + 1 ELSE proc[h].cred.refresh

RefreshGranted(h, rotate) ==
  /\ Redeem(h, rotate)
  /\ proc' = [proc EXCEPT ![h].step = "saving", ![h].token = issued + 1,
                          ![h].refresh = NewRefresh(h, rotate)]
  /\ UNCHANGED <<store, history, mutex>>

\* The answer never arrives: the time limit passes or the connection breaks.
RefreshLost(h, rotate) ==
  /\ Redeem(h, rotate)
  /\ unsaved' = IF rotate THEN unsaved \cup {proc[h].cred.refresh} ELSE unsaved
  /\ Goto(h, "reauth")
  /\ Unlock(h)
  /\ UNCHANGED <<store, restored, kept, crossed, redeemed>>

\* The provider refuses: the token is spent, withdrawn or another client's, or
\* the client is not who it claims.
RefreshRejected(h) ==
  /\ proc[h].step = "refreshing"
  /\ Goto(h, "rejected")
  /\ Unlock(h)
  /\ UNCHANGED <<store, provider, history>>

\* The provider could not be reached, or answers something else than a token.
RefreshFailed(h) ==
  /\ proc[h].step = "refreshing"
  /\ Goto(h, "reauth")
  /\ Unlock(h)
  /\ UNCHANGED <<store, provider, history>>

SaveRefreshed(h) ==
  /\ proc[h].step = "saving"
  /\ UNCHANGED <<config, states, status>>
  /\ WriteCredential(h, [proc[h].cred EXCEPT !.access = proc[h].token,
                                             !.refresh = proc[h].refresh])
  /\ PutBesideNewClient(h)
  /\ Goto(h, "resolved")
  /\ Unlock(h)
  /\ UNCHANGED <<provider, unsaved, redeemed>>

\* The tokens a handler was given and does not store.
Forgotten(h) ==
  IF proc[h].step = "saving" /\ proc[h].refresh # proc[h].cred.refresh
    THEN {proc[h].cred.refresh} ELSE {}

\* A read or the save fails, or the caller's context is cancelled before it.
ResolveError(h) ==
  /\ proc[h].step \in {"locked", "saving"}
  /\ unsaved' = unsaved \cup Forgotten(h)
  /\ Goto(h, "failed")
  /\ Unlock(h)
  /\ UNCHANGED <<store, provider, restored, kept, crossed, redeemed>>

\* A check saves the connection's status, also that of a refresh that did not
\* work; a call reports the error to the agent and saves nothing.
Report(h) ==
  /\ \/ /\ proc[h].kind = "check" /\ proc[h].step = "resolved"
        /\ status' \in {"connected", "unreachable", "reauthorization_required"}
     \/ /\ proc[h].kind = "check" /\ proc[h].step \in {"rejected", "reauth"}
        /\ status' = "reauthorization_required"
     \/ /\ \/ proc[h].kind = "check" /\ proc[h].step = "failed"
           \/ /\ proc[h].kind = "call"
              /\ proc[h].step \in {"resolved", "rejected", "reauth", "failed"}
        /\ UNCHANGED status
  /\ proc' = [proc EXCEPT ![h] = Idle]
  /\ UNCHANGED <<cred, config, states, provider, history, mutex>>

-----------------------------------------------------------------------------
(* Start: an operator begins an authorization                              *)

\* Without a client for our own callback, one is registered first.
Start(h) ==
  /\ proc[h] = Idle
  /\ proc' = [proc EXCEPT ![h] =
       [Idle EXCEPT !.kind = "start", !.client = config.client,
          !.step = IF config.client = 0 \/ ~config.own THEN "register" ELSE "newstate"]]
  /\ UNCHANGED <<store, provider, history, mutex>>

Register(h) ==
  /\ proc[h].step = "register"
  /\ clients < MaxClients
  /\ clients' = clients + 1
  /\ proc' = [proc EXCEPT ![h].step = "merge", ![h].client = clients + 1]
  /\ UNCHANGED <<store, expired, issued, live, owner, history, mutex>>

\* SaveOAuthClient's transaction updates the configuration, which locks its row
\* until the commit, and reads the credential, which does not lock it.
MergeClient(h) ==
  /\ proc[h].step = "merge"
  /\ \A k \in Handlers : proc[k].step # "merging"
  /\ proc' = [proc EXCEPT ![h].step = "merging", ![h].cred = cred]
  /\ UNCHANGED <<store, provider, history, mutex>>

\* A client saved without its secret.
UnmergedSecret(h) == proc[h].cred

MergedSecret(h) == [proc[h].cred EXCEPT !.secret = proc[h].client]

\* The tokens of the client that is replaced stay in the credential.
SaveOAuthClient(h) ==
  /\ proc[h].step = "merging"
  /\ config' = [client |-> proc[h].client, own |-> TRUE]
  /\ WriteCredential(h, MergedSecret(h))
  /\ kept' = kept \cup {proc[h].cred.refresh}
  /\ Goto(h, "newstate")
  /\ UNCHANGED <<states, status, provider, unsaved, redeemed, mutex>>

CreateOAuthState(h, s) ==
  /\ proc[h].step = "newstate"
  /\ states[s].use = "unused"
  /\ states' = [states EXCEPT ![s] = [use |-> "pending", client |-> proc[h].client]]
  /\ proc' = [proc EXCEPT ![h] = Idle]
  /\ UNCHANGED <<cred, config, status, provider, history, mutex>>

StartError(h) ==
  /\ proc[h].step \in {"register", "merge", "merging", "newstate"}
  /\ proc' = [proc EXCEPT ![h] = Idle]
  /\ UNCHANGED <<store, provider, history, mutex>>

-----------------------------------------------------------------------------
(* Complete: the provider sends the operator back with a code              *)

\* Looking the state up without retiring it.
Remembered(s) == states

\* One statement finds the state and deletes it.
Consumed(s) == [states EXCEPT ![s].use = "used"]

ConsumeOAuthState(h, s) ==
  /\ proc[h] = Idle
  /\ states[s].use = "pending"
  /\ states' = Consumed(s)
  /\ proc' = [proc EXCEPT ![h] =
       [Idle EXCEPT !.step = "callback", !.kind = "complete", !.state = s,
                    !.client = config.client]]
  /\ UNCHANGED <<cred, config, status, provider, history, mutex>>

SendCode(h) ==
  /\ proc[h].step = "callback"
  /\ proc' = [proc EXCEPT ![h].step = "exchanging", ![h].cred = cred]
  /\ redeemed' = [redeemed EXCEPT ![proc[h].state] = @ + 1]
  /\ UNCHANGED <<store, provider, unsaved, restored, kept, crossed, mutex>>

\* The provider gives a refresh token or none: what it gives is what is stored.
CodeGranted(h, offline) ==
  /\ proc[h].step = "exchanging"
  /\ proc[h].client = states[proc[h].state].client
  /\ Authentic(proc[h].client, proc[h].cred.secret)
  /\ issued < MaxTokens
  /\ issued' = issued + 1
  /\ live' = IF offline THEN live \cup {issued + 1} ELSE live
  /\ IF offline THEN IssuedTo(issued + 1, proc[h].client) ELSE UNCHANGED owner
  /\ proc' = [proc EXCEPT ![h].step = "storing", ![h].token = issued + 1,
                          ![h].refresh = IF offline THEN issued + 1 ELSE 0]
  /\ UNCHANGED <<store, expired, clients, history, mutex>>

StoreTokens(h) ==
  /\ proc[h].step = "storing"
  /\ UNCHANGED <<config, states, status>>
  /\ WriteCredential(h, [proc[h].cred EXCEPT !.access = proc[h].token,
                                             !.refresh = proc[h].refresh])
  /\ PutBesideNewClient(h)
  /\ proc' = [proc EXCEPT ![h] = Idle]
  /\ UNCHANGED <<provider, unsaved, redeemed, mutex>>

\* The code is refused, the provider or the store fails: the operator starts
\* over.
CompleteError(h) ==
  /\ proc[h].step \in {"callback", "exchanging", "storing"}
  /\ proc' = [proc EXCEPT ![h] = Idle]
  /\ UNCHANGED <<store, provider, history, mutex>>

-----------------------------------------------------------------------------
(* Time and crashes                                                        *)

AccessExpires ==
  /\ expired # 1 .. issued
  /\ expired' = 1 .. issued
  /\ UNCHANGED <<store, issued, clients, live, owner, history, mutex, proc>>

StateExpires(s) ==
  /\ states[s].use = "pending"
  /\ states' = [states EXCEPT ![s].use = "used"]
  /\ UNCHANGED <<cred, config, status, provider, history, mutex, proc>>

\* The process stops; the mutex and everything in flight go with it.
Restart ==
  /\ \E h \in Handlers : proc[h] # Idle
  /\ unsaved' = unsaved \cup UNION {Forgotten(h) : h \in Handlers}
  /\ proc' = [h \in Handlers |-> Idle]
  /\ mutex' = Nobody
  /\ UNCHANGED <<store, provider, restored, kept, crossed, redeemed>>

-----------------------------------------------------------------------------
Resolving(h) ==
  \/ SendRefresh(h)
  \/ \E rotate \in BOOLEAN : RefreshGranted(h, rotate) \/ RefreshLost(h, rotate)
  \/ RefreshRejected(h) \/ RefreshFailed(h)
  \/ SaveRefreshed(h) \/ ResolveError(h) \/ Report(h)

Next ==
  \/ \E h \in Handlers, k \in Kinds : BeginResolve(h, k)
  \/ \E h \in Handlers : Lock(h) \/ Resolving(h)
  \/ \E h \in Handlers : \/ Start(h) \/ Register(h) \/ MergeClient(h)
                         \/ SaveOAuthClient(h) \/ StartError(h)
  \/ \E h \in Handlers, s \in States : CreateOAuthState(h, s) \/ ConsumeOAuthState(h, s)
  \/ \E h \in Handlers : \/ SendCode(h) \/ StoreTokens(h) \/ CompleteError(h)
                         \/ \E offline \in BOOLEAN : CodeGranted(h, offline)
  \/ \E s \in States : StateExpires(s)
  \/ AccessExpires
  \/ Restart

\* Every request to the provider has a time limit of 15 s and every statement
\* the request's context, so a caller that holds the lock goes on; the lock
\* itself is a sync.Mutex, which lets no waiter starve.
Fairness == \A h \in Handlers : WF_vars(Resolving(h)) /\ SF_vars(Lock(h))

Spec == Init /\ [][Next]_vars /\ Fairness

-----------------------------------------------------------------------------
(* What the credential handling promises                                   *)

Typed ==
  /\ cred \in Credential
  /\ config \in Config
  /\ states \in [States -> Pending]
  /\ status \in {"unchecked", "connected", "unreachable", "reauthorization_required"}
  /\ mutex \in Handlers \cup {Nobody}
  /\ proc \in [Handlers -> Process]
  /\ expired \subseteq Tokens
  /\ issued \in Tokens
  /\ clients \in Clients
  /\ live \subseteq Tokens
  /\ owner \in [Tokens -> Clients]
  /\ unsaved \subseteq Tokens
  /\ restored \subseteq Tokens
  /\ kept \subseteq Tokens
  /\ crossed \in BOOLEAN
  /\ redeemed \in [States -> Nat]

\* Every table and every request has its shape, and only a handler that is
\* refreshing holds the lock.
TypeOK ==
  /\ Typed
  /\ mutex # Nobody => proc[mutex].step \in {"locked", "refreshing", "saving"}

\* Two concurrent refreshes never send the same refresh token ("concurrent calls
\* never spend the same refresh token twice", Resolve).
NoConcurrentSpend ==
  \A h, k \in Handlers :
    /\ h # k
    /\ proc[h].step = "refreshing"
    /\ proc[k].step = "refreshing"
    => proc[h].cred.refresh # proc[k].cred.refresh

\* The stored refresh token is one the provider redeems for the configured
\* client, or the handler that holds the lock is about to replace it; there are
\* three ways to another: an answer was lost before it was stored, a handler that
\* had read the credential earlier wrote it back, or a client was registered over
\* the one that owns the tokens (SaveOAuthClient keeps an imported client's).
StoredTokenIsLive ==
  cred.refresh # 0 =>
    \/ cred.refresh \in live /\ owner[cred.refresh] = config.client
    \/ cred.refresh \in unsaved \cup restored \cup kept
    \/ \E h \in Handlers : /\ mutex = h /\ proc[h].step = "saving"
                           /\ proc[h].cred.refresh = cred.refresh

\* A refresh token is sent again only if its replacement never reached the store
\* or an authorization wrote the token back: waiting for the lock and reading
\* the credential again keep every caller from sending one already replaced.
SpentTokensStayUnused ==
  \A h \in Handlers : proc[h].step = "refreshing"
    => proc[h].cred.refresh \in live \cup unsaved \cup restored

\* The stored secret belongs to the configured client, unless a handler that
\* had read the credential before a registration wrote it back afterwards.
SecretFollowsClient == crossed \/ cred.secret = config.client

\* The code of one authorization is sent to the provider at most once, however
\* often the callback is opened (ConsumeOAuthState).
StateIsSingleUse == \A s \in States : redeemed[s] <= 1

\* Every caller of Resolve gets its answer: no path leaves the lock taken.
CallersReturn ==
  \A h \in Handlers : proc[h].kind \in {"call", "check"} ~> proc[h].kind = "none"

-----------------------------------------------------------------------------
(* What the design document says and the code does not do                  *)

\* "A rejected refresh changes the connection to reauthorization_required":
\* whoever asked for the refresh leaves the connection in that status.
RejectedRefreshIsRecorded ==
  [][\A h \in Handlers : proc[h].step = "rejected" /\ Report(h)
       => status' = "reauthorization_required"]_vars
=============================================================================
