---------------------------- MODULE ModelGateway ----------------------------
(***************************************************************************)
(* The model gateway: inference requests of an agent for a model of one    *)
(* provider, while operators save the provider, pause it and switch the    *)
(* model off and on, discoveries report the provider's models and the      *)
(* agent's token is revoked.  Before a request is sent, the gateway reads  *)
(* the catalog, the provider's settings and its key in three queries, and *)
(* exchanges the key for a bearer token if the settings ask for OAuth; it  *)
(* keeps these tokens in memory, one entry for each settings and key, with *)
(* a gate that lets one request at a time do the exchange.  An entry may   *)
(* be cleared from the cache while requests hold or wait for its gate.     *)
(***************************************************************************)
EXTENDS Naturals, FiniteSets

CONSTANTS
  Requests,   \* inference requests that are served at the same time
  Settings,   \* a provider's options: how it authenticates, its token endpoint
  OAuth2,     \* those that exchange the key for a token
  Keys,       \* a provider's secret; none is one of them
  Entries,    \* cache entries, in the cache or still held by a request
  CacheLimit, \* entries at which the cache is cleared, 256 in Resolve
  None        \* no entry, no request, no token

Pairs == Settings \X Keys

ASSUME GatewayAssumption ==
  /\ OAuth2 \subseteq Settings
  /\ CacheLimit \in Nat \ {0}
  /\ None \notin Requests \cup Entries \cup Settings \cup Keys \cup Pairs
  /\ None \notin [pair : Pairs, cached : BOOLEAN, gate : Requests \cup {None},
                  token : Pairs \cup {None}]

VARIABLES
  provider,  \* its row in model_providers
  model,     \* the model's row in provider_models
  word,      \* history: who last had a say on the model, the operator or a discovery
  live,      \* the agent is active and its token not revoked
  cache,     \* the entries: Tokens.cache and what requests still point to
  infer      \* the requests

vars == <<provider, model, word, live, cache, infer>>

-----------------------------------------------------------------------------
Provider == [settings : Settings, key : Keys, enabled : BOOLEAN]
Model == [source : {"absent", "manual", "discovered"}, enabled : BOOLEAN]

\* An entry: whose token it is, whether the cache still finds it, who is
\* exchanging, and for what key and settings the token was issued, if one can
\* be reused.
Entry == [pair : Pairs, cached : BOOLEAN, gate : Requests \cup {None},
          token : Pairs \cup {None}]

Request ==
  [at       : {"idle", "admitted", "found", "configured", "resolved",
               "waiting", "exchanging", "ready", "sent"},
   settings : Settings \cup {None},
   key      : Keys \cup {None},
   entry    : Entries \cup {None},
   token    : Pairs \cup {None},  \* what the bearer token was issued for
   offered  : BOOLEAN]            \* history: the model was available since

Idle == [at |-> "idle", settings |-> None, key |-> None, entry |-> None,
         token |-> None, offered |-> FALSE]

Published(m) == m.source # "absent" /\ m.enabled
Available == provider.enabled /\ Published(model)

Init ==
  /\ provider \in [settings : Settings, key : Keys, enabled : {TRUE}]
  /\ model = [source |-> "absent", enabled |-> FALSE]
  /\ word = "none"
  /\ live = TRUE
  /\ cache = [e \in Entries |-> None]
  /\ infer = [r \in Requests |-> Idle]

-----------------------------------------------------------------------------
(* The provider and its models                                             *)

\* The rows become p and m, which requests under way may be offered.
Update(p, m) ==
  /\ provider' = p
  /\ model' = m
  /\ infer' = [r \in Requests |->
       IF infer[r] = Idle THEN Idle
       ELSE [infer[r] EXCEPT !.offered = @ \/ (p.enabled /\ Published(m))]]
  /\ UNCHANGED <<live, cache>>

\* One transaction with the row FOR UPDATE: an empty key in the form keeps the
\* stored one, manual says that the model's ID was entered.
SaveModelProviderConfig(settings, key, enabled, manual) ==
  /\ word' = IF manual THEN "on" ELSE word
  /\ Update([settings |-> settings, key |-> key, enabled |-> enabled],
            IF manual THEN [source |-> "manual", enabled |-> TRUE] ELSE model)

SetProviderModelEnabled(enabled) ==
  /\ model.source # "absent"
  /\ word' = IF enabled THEN "on" ELSE "off"
  /\ Update(provider, [model EXCEPT !.enabled = enabled])

\* A discovery that takes its result for the whole catalog.
AnySource == model.source # "absent"

\* A model that is missing is switched off if a discovery brought it.
FromDiscovery == model.source = "discovered"

\* What a discovery reports of the model, and what it leaves of it: a failed one
\* leaves it as it is.
Results == {"found", "missing", "failed"}

Discovered(result) ==
  CASE result = "found" ->
         [source  |-> IF model.source = "absent" THEN "discovered" ELSE model.source,
          enabled |-> TRUE]
    [] result = "missing" /\ FromDiscovery -> [model EXCEPT !.enabled = FALSE]
    [] OTHER -> model

SaveDiscoveredModels(result) ==
  /\ word' = IF \/ result = "found"
                \/ result = "missing" /\ model.source = "discovered"
               THEN result ELSE word
  /\ Update(provider, Discovered(result))

\* The token is revoked or the agent disabled, and the reverse.
SetLive(on) ==
  /\ live' = on
  /\ UNCHANGED <<provider, model, word, cache, infer>>

-----------------------------------------------------------------------------
(* From the agent's request to the key                                     *)

Become(r, rec) == infer' = [infer EXCEPT ![r] = rec]

Admit(r) ==
  /\ infer[r] = Idle
  /\ live
  /\ Become(r, [Idle EXCEPT !.at = "admitted", !.offered = Available])
  /\ UNCHANGED <<provider, model, word, live, cache>>

\* A lookup that forgets the provider's switch.
IfPublished == Published(model)

\* ResolveModel finds a model that is enabled at a provider that is.
IfAvailable == Available

FindModel(r) ==
  /\ infer[r].at = "admitted"
  /\ IfAvailable
  /\ Become(r, [infer[r] EXCEPT !.at = "found"])
  /\ UNCHANGED <<provider, model, word, live, cache>>

ReadProvider(r) ==
  /\ infer[r].at = "found"
  /\ Become(r, [infer[r] EXCEPT !.at = "configured", !.settings = provider.settings])
  /\ UNCHANGED <<provider, model, word, live, cache>>

ReadCredential(r) ==
  /\ infer[r].at = "configured"
  /\ Become(r, [infer[r] EXCEPT !.at = "resolved", !.key = provider.key])
  /\ UNCHANGED <<provider, model, word, live, cache>>

-----------------------------------------------------------------------------
(* The token cache                                                         *)

PairOf(r) == <<infer[r].settings, infer[r].key>>

\* Without OAuth the key itself goes upstream.
UseKey(r) ==
  /\ infer[r].at = "resolved"
  /\ infer[r].settings \notin OAuth2
  /\ Become(r, [infer[r] EXCEPT !.at = "ready", !.token = PairOf(r)])
  /\ UNCHANGED <<provider, model, word, live, cache>>

Cached == {e \in Entries : cache[e] # None /\ cache[e].cached}

\* An index that knows the settings only, not the key.
SameSettings(e, r) == cache[e].pair[1] = infer[r].settings

\* The index is a digest of both.
IndexedBy(e, r) == cache[e].pair = PairOf(r)

Hits(r) == {e \in Cached : IndexedBy(e, r)}

\* Which of the entries are still in use, by the cache or by a request.
Swept(c, q) == [e \in Entries |->
  IF c[e] # None /\ (c[e].cached \/ \E r \in Requests : q[r].entry = e) THEN c[e] ELSE None]

Cleared == [e \in Entries |->
  IF cache[e] = None THEN None ELSE [cache[e] EXCEPT !.cached = FALSE]]

\* Under Tokens.mu: the entry, or a new one, for which a full cache is cleared.
Lookup(r, e) ==
  /\ infer[r].at = "resolved"
  /\ infer[r].settings \in OAuth2
  /\ IF Hits(r) # {} THEN e \in Hits(r) ELSE cache[e] = None
  /\ Become(r, [infer[r] EXCEPT !.at = "waiting", !.entry = e])
  /\ cache' = IF Hits(r) # {} THEN cache
              ELSE LET kept == IF Cardinality(Cached) >= CacheLimit THEN Cleared ELSE cache
                   IN Swept([kept EXCEPT ![e] = [pair |-> PairOf(r), cached |-> TRUE,
                                                 gate |-> None, token |-> None]], infer')
  /\ UNCHANGED <<provider, model, word, live>>

\* A gate that lets everybody through.
NoGate(e) == TRUE

GateFree(e) == cache[e].gate = None

\* Through the gate: the token is fresh, and the gate given back at once ...
Reuse(r) ==
  LET e == infer[r].entry
  IN /\ infer[r].at = "waiting"
     /\ GateFree(e)
     /\ cache[e].token # None
     /\ Become(r, [infer[r] EXCEPT !.at = "ready", !.entry = None, !.token = cache[e].token])
     /\ cache' = Swept(cache, infer')
     /\ UNCHANGED <<provider, model, word, live>>

\* ... or there is none, and this request exchanges its key.
BeginExchange(r) ==
  LET e == infer[r].entry
  IN /\ infer[r].at = "waiting"
     /\ GateFree(e)
     /\ cache[e].token = None
     /\ Become(r, [infer[r] EXCEPT !.at = "exchanging"])
     /\ cache' = [cache EXCEPT ![e].gate = r]
     /\ UNCHANGED <<provider, model, word, live>>

\* The entry when r's exchange is over: only a token that states its expiry is
\* kept.
Exchanged(r, token) == [cache EXCEPT ![infer[r].entry].gate = None,
                                     ![infer[r].entry].token = token]

EndExchange(r, reusable) ==
  /\ infer[r].at = "exchanging"
  /\ Become(r, [infer[r] EXCEPT !.at = "ready", !.entry = None, !.token = PairOf(r)])
  /\ cache' = Swept(Exchanged(r, IF reusable THEN PairOf(r) ELSE None), infer')
  /\ UNCHANGED <<provider, model, word, live>>

\* A cached token comes within reach of its expiry.
Expire(e) ==
  /\ cache[e] # None
  /\ cache[e].token # None
  /\ cache' = [cache EXCEPT ![e].token = None]
  /\ UNCHANGED <<provider, model, word, live, infer>>

-----------------------------------------------------------------------------
Send(r) ==
  /\ infer[r].at = "ready"
  /\ Become(r, [infer[r] EXCEPT !.at = "sent"])
  /\ UNCHANGED <<provider, model, word, live, cache>>

\* An end that keeps the gate.
GateKept(r) == cache

\* Whoever holds a gate gives it back, however it ends.
GateReturned(r) == IF infer[r].at = "exchanging" THEN Exchanged(r, None) ELSE cache

\* The answer has been passed on, or the request is refused, fails, or its
\* client has gone.  A usage row is written in any case.
End(r) ==
  /\ infer[r] # Idle
  /\ Become(r, Idle)
  /\ cache' = Swept(GateReturned(r), infer')
  /\ UNCHANGED <<provider, model, word, live>>

\* The Toolmux process stops and starts again.
Restart ==
  /\ cache' = [e \in Entries |-> None]
  /\ infer' = [r \in Requests |-> Idle]
  /\ UNCHANGED <<provider, model, word, live>>

-----------------------------------------------------------------------------
\* An operator asks for a discovery, or the monitor's loop.
Discovery == \E result \in Results : SaveDiscoveredModels(result)

Operator ==
  \/ \E settings \in Settings, key \in Keys, enabled, manual \in BOOLEAN :
       SaveModelProviderConfig(settings, key, enabled, manual)
  \/ \E on \in BOOLEAN : SetProviderModelEnabled(on) \/ SetLive(on)

Inference(r) ==
  \/ Admit(r) \/ FindModel(r) \/ ReadProvider(r) \/ ReadCredential(r) \/ UseKey(r)
  \/ \E e \in Entries : Lookup(r, e)
  \/ Reuse(r) \/ BeginExchange(r)
  \/ \E reusable \in BOOLEAN : EndExchange(r, reusable)
  \/ Send(r) \/ End(r)

Next ==
  \/ Operator
  \/ Discovery
  \/ \E r \in Requests : Inference(r)
  \/ \E e \in Entries : Expire(e)
  \/ Restart

Spec == Init /\ [][Next]_vars

-----------------------------------------------------------------------------
(* What the gateway promises                                               *)

TypeOK ==
  /\ provider \in Provider
  /\ model \in Model
  /\ word \in {"none", "on", "off", "found", "missing"}
  /\ live \in BOOLEAN
  /\ cache \in [Entries -> Entry \cup {None}]
  /\ infer \in [Requests -> Request]

\* "Secret or auth-setting changes invalidate reuse" (MODEL_GATEWAY.md): a
\* request goes upstream with a token issued for the settings and the key it
\* has read itself, whatever the cache holds of other keys, also of requests
\* that have read the settings before a save and the key after it.
UsesOwnToken ==
  \A r \in Requests : infer[r].at \in {"ready", "sent"} => infer[r].token = PairOf(r)

\* One request at a time exchanges a key, and the others wait for its token,
\* unless the cache has been cleared meanwhile; and a gate is held by a request
\* that is exchanging, so that nobody waits for one that is gone (Resolve).
OneExchange ==
  /\ \A q, r \in Requests :
       /\ q # r
       /\ infer[q].at = "exchanging" /\ infer[r].at = "exchanging"
       /\ PairOf(q) = PairOf(r)
       => ~cache[infer[q].entry].cached \/ ~cache[infer[r].entry].cached
  /\ \A e \in Entries : cache[e] # None /\ cache[e].gate # None =>
       infer[cache[e].gate].at = "exchanging" /\ infer[cache[e].gate].entry = e

\* "Pausing a provider prevents new calls through that provider; already-running
\* requests finish normally" (MODEL_GATEWAY.md): a request is sent only if its
\* model was available at some moment since the request arrived.
ServedWasAvailable ==
  \A r \in Requests : infer[r].at = "sent" => infer[r].offered

\* "Manual IDs are preserved, and a failed discovery leaves the last known-good
\* catalog routable" (MODEL_GATEWAY.md): a model is off only by an operator's
\* word, or by that of a discovery if a discovery brought it.
ModelsStayAvailable ==
  model.source # "absent" /\ ~model.enabled
    => word = "off" \/ (word = "missing" /\ model.source = "discovered")
=============================================================================
