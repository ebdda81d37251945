------------------------- MODULE ModelGatewayProofs -------------------------
(* Proofs about ModelGateway, for any sets of requests, settings, keys and *)
(* cache entries and any limit of the cache.                               *)
EXTENDS ModelGateway, TLAPS

Using == {"waiting", "exchanging"}

\* How far a request has come, and what it knows by then.
Progress(q) ==
  /\ q.at \in {"configured", "resolved", "waiting", "exchanging", "ready", "sent"}
       => q.settings \in Settings
  /\ q.at \in {"resolved", "waiting", "exchanging", "ready", "sent"} => q.key \in Keys
  /\ q.at \in {"ready", "sent"} => q.token = <<q.settings, q.key>>
  /\ q.at \in {"found", "configured", "resolved", "waiting", "exchanging", "ready", "sent"}
       => q.offered

\* In a cache c, the requests' entries are there and are those of their
\* settings and keys, whether the cache still finds them or not ...
Held(q, c) == \A r \in Requests : q[r].at \in Using =>
  /\ q[r].entry \in Entries
  /\ c[q[r].entry] # None
  /\ c[q[r].entry].pair = <<q[r].settings, q[r].key>>
  /\ q[r].at = "exchanging" => c[q[r].entry].gate = r

\* ... an entry's token is its own, and its gate is held by an exchange of it,
Gated(q, c) == \A e \in Entries : c[e] # None =>
  /\ c[e].token \in {None, c[e].pair}
  /\ c[e].gate # None =>
       q[c[e].gate].at = "exchanging" /\ q[c[e].gate].entry = e

\* and the cache finds one entry at most for each settings and key.
Distinct(c) == \A e, f \in Entries :
  /\ c[e] # None /\ c[e].cached
  /\ c[f] # None /\ c[f].cached
  /\ c[e].pair = c[f].pair
  => e = f

CacheType == [Entries -> Entry \cup {None}]

Consistent(q, c) == c \in CacheType /\ Held(q, c) /\ Gated(q, c) /\ Distinct(c)

\* A request has been offered the model if it is available now.
Offered == \A r \in Requests : infer[r].at # "idle" /\ Available => infer[r].offered

Inv ==
  /\ TypeOK
  /\ Offered
  /\ \A r \in Requests : Progress(infer[r])
  /\ Consistent(infer, cache)
  /\ ModelsStayAvailable

LEMMA IdleOK == Idle \in Request /\ Idle.at = "idle" /\ Progress(Idle)
  BY DEF Idle, Request, Progress

LEMMA InvInit == Init => Inv
<1> SUFFICES ASSUME Init PROVE Inv
  OBVIOUS
<1>1. TypeOK /\ \A r \in Requests : Progress(infer[r])
  BY IdleOK DEF Init, TypeOK, Provider, Model
<1>2. Consistent(infer, cache)
  BY IdleOK DEF Init, Consistent, CacheType, Held, Gated, Distinct, Using
<1>3. ModelsStayAvailable /\ Offered
  BY IdleOK DEF Init, ModelsStayAvailable, Offered
<1> QED BY <1>1, <1>2, <1>3 DEF Inv

\* Sweeping leaves what is in use.
LEMMA SweepOK ==
  ASSUME NEW q \in [Requests -> Request], NEW c, Consistent(q, c)
  PROVE  Consistent(q, Swept(c, q))
<1> DEFINE s == Swept(c, q)
<1>1. \A e \in Entries : s[e] # None => s[e] = c[e]
  BY DEF Swept
<1>2. s \in CacheType
  BY DEF Swept, Consistent, CacheType
<1>3. \A r \in Requests : q[r].at \in Using => s[q[r].entry] = c[q[r].entry]
  BY DEF Consistent, Held, Swept
<1> HIDE DEF s
<1>4. Held(q, s)
  BY <1>3 DEF Consistent, Held
<1>5. Gated(q, s) /\ Distinct(s)
  BY <1>1 DEF Consistent, Gated, Distinct
<1>6. Consistent(q, s)
  BY <1>2, <1>4, <1>5 DEF Consistent
<1> QED BY <1>6 DEF s

\* A request moves on without the cache.
LEMMA Moves ==
  ASSUME Inv, NEW r \in Requests, NEW rec \in Request, Become(r, rec),
         UNCHANGED <<provider, model, word, live, cache>>,
         infer[r].at # "exchanging", rec.at \notin Using, Progress(rec),
         rec.at # "idle" /\ Available => rec.offered
  PROVE  Inv'
<1>1. infer' = [infer EXCEPT ![r] = rec] /\ infer \in [Requests -> Request]
  BY DEF Become, Inv, TypeOK
<1>2. TypeOK' /\ (\A q \in Requests : Progress(infer[q]))'
  BY <1>1 DEF Inv, TypeOK
<1>3. Held(infer', cache')
  BY <1>1 DEF Inv, Consistent, Held
<1>4. Gated(infer', cache')
  BY <1>1 DEF Inv, Consistent, Gated, CacheType, Entry
<1>5. Consistent(infer, cache)'
  BY <1>3, <1>4 DEF Inv, Consistent
<1>6. ModelsStayAvailable' /\ Offered'
  BY <1>1 DEF Inv, ModelsStayAvailable, Offered, Available, Published
<1> QED BY <1>2, <1>5, <1>6 DEF Inv

\* A request moves on, and the cache with it.
LEMMA MovesCache ==
  ASSUME Inv, NEW r \in Requests, NEW rec \in Request, Become(r, rec),
         UNCHANGED <<provider, model, word, live>>, Progress(rec),
         rec.at # "idle" /\ Available => rec.offered,
         Consistent(infer', cache')
  PROVE  Inv'
<1>1. infer' = [infer EXCEPT ![r] = rec] /\ infer \in [Requests -> Request]
  BY DEF Become, Inv, TypeOK
<1>2. (\A q \in Requests : Progress(infer[q]))'
  BY <1>1 DEF Inv
<1>3. TypeOK'
  BY <1>1 DEF Inv, TypeOK, Consistent, CacheType
<1>4. ModelsStayAvailable' /\ Offered'
  BY <1>1 DEF Inv, ModelsStayAvailable, Offered, Available, Published
<1> QED BY <1>2, <1>3, <1>4 DEF Inv

\* Progress does not look at anything else, and an offer stands.
LEMMA SameProgress ==
  ASSUME NEW q, NEW n, Progress(q), n.at = q.at, n.settings = q.settings, n.key = q.key,
         n.token = q.token, q.offered => n.offered
  PROVE  Progress(n)
<1>1. n.at \in {"ready", "sent"} => n.token = <<n.settings, n.key>>
  BY DEF Progress
<1>2. n.at \in {"found", "configured", "resolved", "waiting", "exchanging", "ready", "sent"}
        => n.offered
  <2>1. q.at \in {"found", "configured", "resolved", "waiting", "exchanging", "ready", "sent"}
          => q.offered
    BY DEF Progress
  <2> HIDE DEF Progress
  <2> QED BY <2>1, Zenon
<1> QED BY <1>1, <1>2 DEF Progress

\* A save or a discovery changes nothing of a request but what it was offered.
LEMMA UpdateOK ==
  ASSUME Inv, NEW p \in Provider, NEW m \in Model, Update(p, m), ModelsStayAvailable',
         word' \in {"none", "on", "off", "found", "missing"}
  PROVE  Inv'
<1> DEFINE offer(r) == [infer[r] EXCEPT !.offered = @ \/ (p.enabled /\ Published(m))]
           after(r) == IF infer[r] = Idle THEN Idle ELSE offer(r)
<1>1. ASSUME NEW r \in Requests
      PROVE  /\ after(r) \in Request
             /\ after(r).at = infer[r].at /\ after(r).settings = infer[r].settings
             /\ after(r).key = infer[r].key /\ after(r).entry = infer[r].entry
             /\ after(r).token = infer[r].token
             /\ infer[r].offered => after(r).offered
             /\ after(r).at # "idle" /\ p.enabled /\ Published(m) => after(r).offered
  <2>1. infer[r] \in Request
    BY DEF Inv, TypeOK
  <2>2. (infer[r].offered \/ (p.enabled /\ Published(m))) \in BOOLEAN
    BY DEF Published
  <2>3. offer(r) \in Request
    BY <2>1, <2>2 DEF Request
  <2>4. /\ offer(r).at = infer[r].at /\ offer(r).settings = infer[r].settings
        /\ offer(r).key = infer[r].key /\ offer(r).entry = infer[r].entry
        /\ offer(r).token = infer[r].token
    BY <2>1 DEF Request
  <2>5. /\ infer[r].offered => offer(r).offered
        /\ p.enabled /\ Published(m) => offer(r).offered
    BY <2>1 DEF Request
  <2> HIDE DEF offer
  <2> QED BY <2>3, <2>4, <2>5, IdleOK
<1> HIDE DEF after
<1>2. infer' = [r \in Requests |-> after(r)] /\ UNCHANGED <<live, cache>>
      /\ provider' = p /\ model' = m
  BY DEF Update, after
<1>3. infer' \in [Requests -> Request]
  BY <1>1, <1>2
<1>4. ASSUME NEW r \in Requests
      PROVE  /\ infer'[r].at = infer[r].at /\ infer'[r].settings = infer[r].settings
             /\ infer'[r].key = infer[r].key /\ infer'[r].entry = infer[r].entry
             /\ infer'[r].token = infer[r].token
             /\ infer[r].offered => infer'[r].offered
  BY <1>1, <1>2
<1>5. TypeOK'
  BY <1>2, <1>3 DEF Inv, TypeOK
<1>6. (\A r \in Requests : Progress(infer[r]))'
  <2> SUFFICES ASSUME NEW r \in Requests PROVE Progress(infer'[r])
    OBVIOUS
  <2>1. Progress(infer[r])
    BY DEF Inv
  <2> QED BY <1>4, <2>1, SameProgress
<1>7. Held(infer', cache')
  <2> SUFFICES ASSUME NEW r \in Requests, infer'[r].at \in Using
               PROVE  /\ infer'[r].entry \in Entries
                      /\ cache'[infer'[r].entry] # None
                      /\ cache'[infer'[r].entry].pair = <<infer'[r].settings, infer'[r].key>>
                      /\ infer'[r].at = "exchanging" => cache'[infer'[r].entry].gate = r
    BY Zenon DEF Held
  <2>1. /\ infer[r].entry \in Entries
        /\ cache[infer[r].entry] # None
        /\ cache[infer[r].entry].pair = <<infer[r].settings, infer[r].key>>
        /\ infer[r].at = "exchanging" => cache[infer[r].entry].gate = r
    BY <1>4 DEF Inv, Consistent, Held
  <2>2. cache' = cache
    BY <1>2
  <2> QED BY <1>4, <2>1, <2>2
<1>8. Gated(infer', cache')
  <2>1. \A e \in Entries : cache[e] # None => cache[e].gate \in Requests \cup {None}
    BY DEF Inv, TypeOK, Entry
  <2> QED BY <1>2, <1>4, <2>1 DEF Inv, Consistent, Gated
<1>9. Consistent(infer, cache)'
  BY <1>2, <1>7, <1>8 DEF Inv, Consistent
<1>10. Offered'
  BY <1>1, <1>2 DEF Offered, Available
<1> QED BY <1>5, <1>6, <1>9, <1>10 DEF Inv

LEMMA OperatorOK == Inv /\ Operator => Inv'
<1> SUFFICES ASSUME Inv, Operator PROVE Inv'
  OBVIOUS
<1>1. ASSUME NEW settings \in Settings, NEW key \in Keys, NEW enabled \in BOOLEAN,
             NEW manual \in BOOLEAN, SaveModelProviderConfig(settings, key, enabled, manual)
      PROVE  Inv'
  <2> DEFINE p == [settings |-> settings, key |-> key, enabled |-> enabled]
             m == IF manual THEN [source |-> "manual", enabled |-> TRUE] ELSE model
  <2>1. p \in Provider /\ m \in Model /\ Update(p, m)
    BY <1>1 DEF SaveModelProviderConfig, Provider, Model, Inv, TypeOK
  <2>2. word' \in {"none", "on", "off", "found", "missing"}
    BY <1>1 DEF SaveModelProviderConfig, Inv, TypeOK
  <2>3. ModelsStayAvailable'
    BY <1>1 DEF SaveModelProviderConfig, Update, Inv, ModelsStayAvailable
  <2> HIDE DEF p, m
  <2> QED BY <2>1, <2>2, <2>3, UpdateOK
<1>2. ASSUME NEW on \in BOOLEAN, SetProviderModelEnabled(on)
      PROVE  Inv'
  <2> DEFINE m == [model EXCEPT !.enabled = on]
  <2>1. m \in Model /\ m.enabled = on /\ provider \in Provider /\ Update(provider, m)
    BY <1>2 DEF SetProviderModelEnabled, Model, Inv, TypeOK
  <2>2. word' = (IF on THEN "on" ELSE "off") /\ model' = m
    BY <1>2 DEF SetProviderModelEnabled, Update
  <2> HIDE DEF m
  <2>3. ModelsStayAvailable'
    BY <2>1, <2>2 DEF ModelsStayAvailable
  <2> QED BY <2>1, <2>2, <2>3, UpdateOK
<1>3. ASSUME NEW on \in BOOLEAN, SetLive(on)
      PROVE  Inv'
  BY <1>3 DEF SetLive, Inv, TypeOK, Consistent, Held, Gated, ModelsStayAvailable, Offered, Available,
              Published
<1> QED BY <1>1, <1>2, <1>3 DEF Operator

LEMMA DiscoveryOK ==
  ASSUME Inv, NEW result \in Results, SaveDiscoveredModels(result)
  PROVE  Inv'
<1> DEFINE m == Discovered(result)
<1>1. model \in Model /\ provider \in Provider
  BY DEF Inv, TypeOK
<1>2. CASE result = "found"
  <2>1. m \in Model /\ m.enabled = TRUE
    BY <1>1, <1>2 DEF Discovered, Model
  <2>2. word' = "found" /\ Update(provider, m) /\ model' = m
    BY <1>2 DEF SaveDiscoveredModels, Update
  <2> HIDE DEF m
  <2>3. ModelsStayAvailable'
    BY <2>1, <2>2 DEF ModelsStayAvailable
  <2> QED BY <1>1, <2>1, <2>2, <2>3, UpdateOK
<1>3. CASE result = "missing" /\ model.source = "discovered"
  <2>1. m \in Model /\ m.source = "discovered"
    BY <1>1, <1>3 DEF Discovered, FromDiscovery, Model
  <2>2. word' = "missing" /\ Update(provider, m) /\ model' = m
    BY <1>3 DEF SaveDiscoveredModels, Update
  <2> HIDE DEF m
  <2>3. ModelsStayAvailable'
    BY <2>1, <2>2 DEF ModelsStayAvailable
  <2> QED BY <1>1, <2>1, <2>2, <2>3, UpdateOK
<1>4. CASE result # "found" /\ ~(result = "missing" /\ model.source = "discovered")
  <2>1. m = model /\ word' = word
    BY <1>4 DEF Discovered, FromDiscovery, SaveDiscoveredModels
  <2>2. Update(provider, model) /\ model' = model
    BY <2>1 DEF SaveDiscoveredModels, Update
  <2>3. ModelsStayAvailable' /\ word' \in {"none", "on", "off", "found", "missing"}
    BY <2>1, <2>2 DEF Inv, TypeOK, ModelsStayAvailable
  <2> QED BY <1>1, <2>2, <2>3, UpdateOK
<1> QED BY <1>2, <1>3, <1>4

\* What Inv says of one request.
LEMMA ReqOK ==
  ASSUME Inv, NEW r \in Requests
  PROVE  /\ infer[r] \in Request /\ Progress(infer[r])
         /\ infer[r].at # "idle" /\ Available => infer[r].offered
         /\ infer \in [Requests -> Request] /\ provider \in Provider
  BY DEF Inv, TypeOK, Offered

\* The steps from the request to the key, and those after the token.
LEMMA ReadsOK ==
  ASSUME Inv, NEW r \in Requests,
         Admit(r) \/ FindModel(r) \/ ReadProvider(r) \/ ReadCredential(r) \/ UseKey(r) \/ Send(r)
  PROVE  Inv'
<1> USE ReqOK DEF Using
<1> DEFINE q == infer[r]
<1>1. CASE Admit(r)
  <2> DEFINE rec == [Idle EXCEPT !.at = "admitted", !.offered = Available]
  <2>1. Become(r, rec) /\ UNCHANGED <<provider, model, word, live, cache>> /\ q = Idle
    BY <1>1 DEF Admit
  <2>2. Available \in BOOLEAN
    BY DEF Available, Published
  <2>3. rec \in Request /\ rec.at = "admitted" /\ (Available => rec.offered)
    BY <2>2, IdleOK DEF Idle, Request
  <2> HIDE DEF rec
  <2>4. Progress(rec)
    BY <2>3 DEF Progress
  <2> QED BY <2>1, <2>3, <2>4, IdleOK, Moves
<1>2. CASE FindModel(r)
  <2> DEFINE rec == [q EXCEPT !.at = "found"]
  <2>1. /\ Become(r, rec) /\ UNCHANGED <<provider, model, word, live, cache>>
        /\ q.at = "admitted" /\ Available
    BY <1>2 DEF FindModel, IfAvailable
  <2>2. rec \in Request /\ rec.at = "found" /\ rec.offered
    BY <2>1 DEF Request
  <2> HIDE DEF rec
  <2>3. Progress(rec)
    BY <2>2 DEF Progress
  <2> QED BY <2>1, <2>2, <2>3, Moves
<1>3. CASE ReadProvider(r)
  <2> DEFINE rec == [q EXCEPT !.at = "configured", !.settings = provider.settings]
  <2>1. /\ Become(r, rec) /\ UNCHANGED <<provider, model, word, live, cache>>
        /\ q.at = "found" /\ q.offered
    BY <1>3 DEF ReadProvider, Progress
  <2>2. /\ rec \in Request /\ rec.at = "configured" /\ rec.offered
        /\ rec.settings \in Settings
    BY <2>1 DEF Request, Provider
  <2> HIDE DEF rec
  <2>3. Progress(rec)
    BY <2>2 DEF Progress
  <2> QED BY <2>1, <2>2, <2>3, Moves
<1>4. CASE ReadCredential(r)
  <2> DEFINE rec == [q EXCEPT !.at = "resolved", !.key = provider.key]
  <2>1. /\ Become(r, rec) /\ UNCHANGED <<provider, model, word, live, cache>>
        /\ q.at = "configured" /\ q.offered /\ q.settings \in Settings
    BY <1>4 DEF ReadCredential, Progress
  <2>2. /\ rec \in Request /\ rec.at = "resolved" /\ rec.offered
        /\ rec.settings \in Settings /\ rec.key \in Keys
    BY <2>1 DEF Request, Provider
  <2> HIDE DEF rec
  <2>3. Progress(rec)
    BY <2>2 DEF Progress
  <2> QED BY <2>1, <2>2, <2>3, Moves
<1>5. CASE UseKey(r)
  <2> DEFINE rec == [q EXCEPT !.at = "ready", !.token = PairOf(r)]
  <2>1. /\ Become(r, rec) /\ UNCHANGED <<provider, model, word, live, cache>>
        /\ q.at = "resolved" /\ q.offered /\ q.settings \in Settings /\ q.key \in Keys
    BY <1>5 DEF UseKey, Progress
  <2>2. PairOf(r) = <<q.settings, q.key>> /\ PairOf(r) \in Pairs
    BY <2>1 DEF PairOf, Pairs
  <2>3. /\ rec \in Request /\ rec.at = "ready" /\ rec.offered
        /\ rec.settings = q.settings /\ rec.key = q.key /\ rec.token = PairOf(r)
    BY <2>1, <2>2 DEF Request
  <2> HIDE DEF rec
  <2>4. Progress(rec)
    BY <2>1, <2>2, <2>3 DEF Progress
  <2> QED BY <2>1, <2>3, <2>4, Moves
<1>6. CASE Send(r)
  <2> DEFINE rec == [q EXCEPT !.at = "sent"]
  <2>1. /\ Become(r, rec) /\ UNCHANGED <<provider, model, word, live, cache>>
        /\ q.at = "ready" /\ q.offered /\ q.settings \in Settings /\ q.key \in Keys
        /\ q.token = <<q.settings, q.key>>
    BY <1>6 DEF Send, Progress
  <2>2. /\ rec \in Request /\ rec.at = "sent" /\ rec.offered /\ rec.token = q.token
        /\ rec.settings = q.settings /\ rec.key = q.key
    BY <2>1 DEF Request
  <2> HIDE DEF rec
  <2>3. Progress(rec)
    BY <2>1, <2>2 DEF Progress
  <2> QED BY <2>1, <2>2, <2>3, Moves
<1> QED BY <1>1, <1>2, <1>3, <1>4, <1>5, <1>6

\* A request that does not hold a gate leaves the cache as it found it.
LEMMA LeaveOK ==
  ASSUME Inv, NEW r \in Requests, NEW rec \in Request, Become(r, rec),
         infer[r].at # "exchanging", rec.at \notin Using
  PROVE  Consistent(infer', cache)
<1>1. infer' = [infer EXCEPT ![r] = rec] /\ infer \in [Requests -> Request]
  BY DEF Become, Inv, TypeOK
<1>2. Held(infer', cache)
  BY <1>1 DEF Inv, Consistent, Held
<1>3. Gated(infer', cache)
  BY <1>1 DEF Inv, Consistent, Gated, CacheType, Entry
<1> QED BY <1>2, <1>3 DEF Inv, Consistent

\* Whoever ends an exchange gives the gate of its entry back.
LEMMA FreeOK ==
  ASSUME Inv, NEW r \in Requests, NEW rec \in Request, Become(r, rec),
         infer[r].at = "exchanging", rec.at \notin Using,
         NEW token \in {None, PairOf(r)}
  PROVE  Consistent(infer', Exchanged(r, token))
<1> DEFINE e == infer[r].entry
           c == Exchanged(r, token)
<1>1. infer' = [infer EXCEPT ![r] = rec] /\ infer \in [Requests -> Request]
  BY DEF Become, Inv, TypeOK
<1>2. /\ cache \in CacheType /\ e \in Entries /\ cache[e] \in Entry
      /\ cache[e].pair = PairOf(r) /\ cache[e].gate = r
  BY DEF Inv, Consistent, Held, Using, CacheType, PairOf
<1>3. /\ c = [cache EXCEPT ![e] = [cache[e] EXCEPT !.gate = None, !.token = token]]
  BY <1>2 DEF Exchanged, CacheType
<1> DEFINE new == [cache[e] EXCEPT !.gate = None, !.token = token]
<1>4. /\ new \in Entry /\ new.pair = cache[e].pair /\ new.cached = cache[e].cached
      /\ new.gate = None /\ new.token = token
  <2>1. token \in Pairs \cup {None}
    BY <1>2 DEF Entry
  <2> QED BY <1>2, <2>1 DEF Entry
<1> HIDE DEF new, c
<1>5. /\ c \in CacheType /\ c[e] = new /\ \A f \in Entries : f # e => c[f] = cache[f]
      /\ cache[e] # None /\ c[e] # None
  BY <1>2, <1>3, <1>4, GatewayAssumption DEF new, CacheType, Entry
<1>6. Held(infer', c)
  <2> SUFFICES ASSUME NEW q \in Requests, infer'[q].at \in Using
               PROVE  /\ infer'[q].entry \in Entries
                      /\ c[infer'[q].entry] # None
                      /\ c[infer'[q].entry].pair = <<infer'[q].settings, infer'[q].key>>
                      /\ infer'[q].at = "exchanging" => c[infer'[q].entry].gate = q
    BY DEF Held
  <2>1. q # r /\ infer'[q] = infer[q]
    BY <1>1
  <2>2. /\ infer[q].entry \in Entries
        /\ cache[infer[q].entry] # None
        /\ cache[infer[q].entry].pair = <<infer[q].settings, infer[q].key>>
        /\ infer[q].at = "exchanging" => cache[infer[q].entry].gate = q
    BY <2>1 DEF Inv, Consistent, Held
  <2>3. CASE infer[q].entry = e
    BY <1>2, <1>4, <1>5, <2>1, <2>2, <2>3
  <2>4. CASE infer[q].entry # e
    BY <1>5, <2>1, <2>2, <2>4
  <2> QED BY <2>3, <2>4
<1>7. Gated(infer', c)
  <2> SUFFICES ASSUME NEW f \in Entries, c[f] # None
               PROVE  /\ c[f].token \in {None, c[f].pair}
                      /\ c[f].gate # None =>
                           infer'[c[f].gate].at = "exchanging" /\ infer'[c[f].gate].entry = f
    BY DEF Gated
  <2>1. CASE f = e
    BY <1>2, <1>4, <1>5, <2>1
  <2>2. CASE f # e
    <3>1. c[f] = cache[f] /\ cache[f] \in Entry
      BY <1>2, <1>5, <2>2 DEF CacheType
    <3>2. /\ cache[f].token \in {None, cache[f].pair}
          /\ cache[f].gate # None =>
               infer[cache[f].gate].at = "exchanging" /\ infer[cache[f].gate].entry = f
      BY <3>1 DEF Inv, Consistent, Gated
    <3>3. cache[f].gate # None => cache[f].gate \in Requests /\ cache[f].gate # r
      BY <2>2, <3>1, <3>2 DEF Entry
    <3> QED BY <1>1, <3>1, <3>2, <3>3
  <2> QED BY <2>1, <2>2
<1>8. Distinct(c)
  BY <1>4, <1>5 DEF Inv, Consistent, Distinct
<1>9. Consistent(infer', c)
  BY <1>5, <1>6, <1>7, <1>8 DEF Consistent
<1> QED BY <1>9 DEF c

LEMMA ReuseOK ==
  ASSUME Inv, NEW r \in Requests, Reuse(r)
  PROVE  Inv'
<1> USE ReqOK DEF Using
<1> DEFINE q == infer[r]
           e == q.entry
           rec == [q EXCEPT !.at = "ready", !.entry = None, !.token = cache[e].token]
<1>1. /\ q.at = "waiting" /\ q.offered /\ q.settings \in Settings /\ q.key \in Keys
      /\ Become(r, rec) /\ UNCHANGED <<provider, model, word, live>>
      /\ cache' = Swept(cache, infer') /\ cache[e].token # None
  BY DEF Reuse, Progress
<1>2. cache[e].token = <<q.settings, q.key>> /\ cache[e].token \in Pairs
  <2>1. e \in Entries /\ cache[e] # None /\ cache[e].pair = <<q.settings, q.key>>
    BY <1>1 DEF Inv, Consistent, Held
  <2>2. cache[e].token \in {None, cache[e].pair}
    BY <2>1 DEF Inv, Consistent, Gated
  <2> QED BY <1>1, <2>1, <2>2 DEF Pairs
<1>3. /\ rec \in Request /\ rec.at = "ready" /\ rec.offered
      /\ rec.settings = q.settings /\ rec.key = q.key /\ rec.token = cache[e].token
  BY <1>1, <1>2 DEF Request
<1> HIDE DEF rec
<1>4. Progress(rec)
  BY <1>1, <1>2, <1>3 DEF Progress
<1>5. Consistent(infer', cache)
  BY <1>1, <1>3, LeaveOK
<1>6. infer' \in [Requests -> Request]
  BY <1>1, <1>3 DEF Become
<1>7. Consistent(infer', cache')
  BY <1>1, <1>5, <1>6, SweepOK
<1> QED BY <1>1, <1>3, <1>4, <1>7, MovesCache

LEMMA EndExchangeOK ==
  ASSUME Inv, NEW r \in Requests, NEW reusable \in BOOLEAN, EndExchange(r, reusable)
  PROVE  Inv'
<1> USE ReqOK DEF Using
<1> DEFINE q == infer[r]
           rec == [q EXCEPT !.at = "ready", !.entry = None, !.token = PairOf(r)]
           token == IF reusable THEN PairOf(r) ELSE None
<1>1. /\ q.at = "exchanging" /\ q.offered /\ q.settings \in Settings /\ q.key \in Keys
      /\ Become(r, rec) /\ UNCHANGED <<provider, model, word, live>>
      /\ cache' = Swept(Exchanged(r, token), infer')
  BY DEF EndExchange, Progress
<1>2. PairOf(r) = <<q.settings, q.key>> /\ PairOf(r) \in Pairs /\ token \in {None, PairOf(r)}
  BY <1>1 DEF PairOf, Pairs
<1>3. /\ rec \in Request /\ rec.at = "ready" /\ rec.offered
      /\ rec.settings = q.settings /\ rec.key = q.key /\ rec.token = PairOf(r)
  BY <1>1, <1>2 DEF Request
<1> HIDE DEF rec, token
<1>4. Progress(rec)
  BY <1>1, <1>2, <1>3 DEF Progress
<1>5. Consistent(infer', Exchanged(r, token))
  BY <1>1, <1>2, <1>3, FreeOK
<1>6. infer' \in [Requests -> Request]
  BY <1>1, <1>3 DEF Become
<1>7. Consistent(infer', cache')
  BY <1>1, <1>5, <1>6, SweepOK
<1> QED BY <1>1, <1>3, <1>4, <1>7, MovesCache

LEMMA EndOK ==
  ASSUME Inv, NEW r \in Requests, End(r)
  PROVE  Inv'
<1> USE ReqOK, IdleOK DEF Using
<1>1. /\ Become(r, Idle) /\ UNCHANGED <<provider, model, word, live>>
      /\ cache' = Swept(GateReturned(r), infer') /\ infer' \in [Requests -> Request]
  BY DEF End, Become
<1>2. CASE infer[r].at = "exchanging"
  <2>1. GateReturned(r) = Exchanged(r, None) /\ None \in {None, PairOf(r)}
    BY <1>2 DEF GateReturned
  <2>2. Consistent(infer', Exchanged(r, None))
    BY <1>1, <1>2, <2>1, FreeOK
  <2>3. Consistent(infer', cache')
    BY <1>1, <2>1, <2>2, SweepOK
  <2> QED BY <1>1, <2>3, MovesCache
<1>3. CASE infer[r].at # "exchanging"
  <2>1. GateReturned(r) = cache
    BY <1>3 DEF GateReturned
  <2>2. Consistent(infer', cache)
    BY <1>1, <1>3, LeaveOK
  <2>3. Consistent(infer', cache')
    BY <1>1, <2>1, <2>2, SweepOK
  <2> QED BY <1>1, <2>3, MovesCache
<1> QED BY <1>2, <1>3

LEMMA BeginExchangeOK ==
  ASSUME Inv, NEW r \in Requests, BeginExchange(r)
  PROVE  Inv'
<1> USE ReqOK DEF Using
<1> DEFINE q == infer[r]
           e == q.entry
           rec == [q EXCEPT !.at = "exchanging"]
           new == [cache[e] EXCEPT !.gate = r]
<1>1. /\ q.at = "waiting" /\ q.offered /\ q.settings \in Settings /\ q.key \in Keys
      /\ Become(r, rec) /\ UNCHANGED <<provider, model, word, live>>
      /\ cache' = [cache EXCEPT ![e].gate = r] /\ cache[e].gate = None
  BY DEF BeginExchange, GateFree, Progress
<1>2. /\ rec \in Request /\ rec.at = "exchanging" /\ rec.offered
      /\ rec.settings = q.settings /\ rec.key = q.key /\ rec.entry = e
  BY <1>1 DEF Request
<1>3. /\ cache \in CacheType /\ e \in Entries /\ cache[e] \in Entry
      /\ cache[e].pair = <<q.settings, q.key>> /\ cache[e] # None
  BY <1>1 DEF Inv, Consistent, Held, CacheType
<1>4. /\ new \in Entry /\ new.pair = cache[e].pair /\ new.cached = cache[e].cached
      /\ new.gate = r /\ new.token = cache[e].token
  BY <1>3 DEF Entry
<1>5. cache' = [cache EXCEPT ![e] = new]
  BY <1>1, <1>3 DEF CacheType
<1> HIDE DEF rec, new
<1>6. /\ cache' \in CacheType /\ cache'[e] = new /\ new # None
      /\ \A f \in Entries : f # e => cache'[f] = cache[f]
  BY <1>3, <1>4, <1>5, GatewayAssumption DEF CacheType, Entry
<1>7. /\ infer'[r] = rec /\ \A p \in Requests : p # r => infer'[p] = infer[p]
  BY <1>1 DEF Become
<1>8. Progress(rec)
  BY <1>1, <1>2 DEF Progress
<1>9. Held(infer', cache')
  <2> SUFFICES ASSUME NEW p \in Requests, infer'[p].at \in Using
               PROVE  /\ infer'[p].entry \in Entries
                      /\ cache'[infer'[p].entry] # None
                      /\ cache'[infer'[p].entry].pair = <<infer'[p].settings, infer'[p].key>>
                      /\ infer'[p].at = "exchanging" => cache'[infer'[p].entry].gate = p
    BY DEF Held
  <2>1. CASE p = r
    BY <1>2, <1>3, <1>4, <1>6, <1>7, <2>1
  <2>2. CASE p # r
    <3>1. /\ infer[p].entry \in Entries
          /\ cache[infer[p].entry] # None
          /\ cache[infer[p].entry].pair = <<infer[p].settings, infer[p].key>>
          /\ infer[p].at = "exchanging" => cache[infer[p].entry].gate = p
      BY <1>7, <2>2 DEF Inv, Consistent, Held
    <3>2. CASE infer[p].entry = e
      BY <1>1, <1>4, <1>6, <1>7, <2>2, <3>1, <3>2, GatewayAssumption
    <3>3. CASE infer[p].entry # e
      BY <1>6, <1>7, <2>2, <3>1, <3>3
    <3> QED BY <3>2, <3>3
  <2> QED BY <2>1, <2>2
<1>10. Gated(infer', cache')
  <2> SUFFICES ASSUME NEW f \in Entries, cache'[f] # None
               PROVE  /\ cache'[f].token \in {None, cache'[f].pair}
                      /\ cache'[f].gate # None =>
                           /\ infer'[cache'[f].gate].at = "exchanging"
                           /\ infer'[cache'[f].gate].entry = f
    BY DEF Gated
  <2>1. CASE f = e
    <3>1. cache[e].token \in {None, cache[e].pair}
      BY <1>3 DEF Inv, Consistent, Gated
    <3> QED BY <1>2, <1>4, <1>6, <1>7, <2>1, <3>1
  <2>2. CASE f # e
    <3>1. cache'[f] = cache[f] /\ cache[f] \in Entry
      BY <1>3, <1>6, <2>2 DEF CacheType
    <3>2. /\ cache[f].token \in {None, cache[f].pair}
          /\ cache[f].gate # None =>
               infer[cache[f].gate].at = "exchanging" /\ infer[cache[f].gate].entry = f
      BY <3>1 DEF Inv, Consistent, Gated
    <3>3. cache[f].gate # None => cache[f].gate \in Requests /\ cache[f].gate # r
      BY <1>1, <3>1, <3>2 DEF Entry
    <3> QED BY <1>7, <3>1, <3>2, <3>3
  <2> QED BY <2>1, <2>2
<1>11. Distinct(cache')
  BY <1>3, <1>4, <1>6 DEF Inv, Consistent, Distinct
<1>12. Consistent(infer', cache')
  BY <1>6, <1>9, <1>10, <1>11 DEF Consistent
<1> QED BY <1>1, <1>2, <1>8, <1>12, MovesCache

LEMMA ExpireOK ==
  ASSUME Inv, NEW e \in Entries, Expire(e)
  PROVE  Inv'
<1> DEFINE new == [cache[e] EXCEPT !.token = None]
<1>1. /\ cache \in CacheType /\ cache[e] \in Entry /\ cache[e] # None
      /\ cache' = [cache EXCEPT ![e].token = None]
      /\ UNCHANGED <<provider, model, word, live, infer>>
  BY DEF Expire, Inv, Consistent, CacheType
<1>2. /\ new \in Entry /\ new.pair = cache[e].pair /\ new.cached = cache[e].cached
      /\ new.gate = cache[e].gate /\ new.token = None
  BY <1>1 DEF Entry
<1>3. cache' = [cache EXCEPT ![e] = new]
  BY <1>1 DEF CacheType
<1> HIDE DEF new
<1>4. /\ cache' \in CacheType
      /\ \A f \in Entries : /\ cache'[f] # None <=> cache[f] # None
                           /\ cache'[f].pair = cache[f].pair
                           /\ cache'[f].cached = cache[f].cached
                           /\ cache'[f].gate = cache[f].gate
                           /\ cache'[f].token \in {None, cache[f].token}
  BY <1>1, <1>2, <1>3, GatewayAssumption DEF CacheType, Entry
<1>5. Held(infer', cache')
  BY <1>1, <1>4 DEF Inv, Consistent, Held
<1>6. Gated(infer', cache')
  BY <1>1, <1>4 DEF Inv, Consistent, Gated
<1>7. Distinct(cache')
  BY <1>4 DEF Inv, Consistent, Distinct
<1>8. Consistent(infer', cache')
  BY <1>4, <1>5, <1>6, <1>7 DEF Consistent
<1>9. TypeOK'
  BY <1>1, <1>4 DEF Inv, TypeOK, CacheType
<1> QED BY <1>1, <1>8, <1>9 DEF Inv, Offered, Available, Published, ModelsStayAvailable

LEMMA RestartOK == Inv /\ Restart => Inv'
<1> SUFFICES ASSUME Inv, Restart PROVE Inv'
  OBVIOUS
<1>1. /\ cache' = [e \in Entries |-> None] /\ infer' = [r \in Requests |-> Idle]
      /\ UNCHANGED <<provider, model, word, live>>
  BY DEF Restart
<1>2. Consistent(infer', cache')
  BY <1>1, IdleOK DEF Consistent, CacheType, Held, Gated, Distinct, Using
<1>3. TypeOK' /\ (\A r \in Requests : Progress(infer[r]))' /\ Offered'
  BY <1>1, IdleOK DEF Inv, TypeOK, Offered
<1> QED BY <1>1, <1>2, <1>3 DEF Inv, ModelsStayAvailable

\* A full cache that is cleared still has the entries of the requests.
LEMMA ClearedOK ==
  ASSUME Inv
  PROVE  /\ Consistent(infer, Cleared)
         /\ \A e \in Entries : Cleared[e] # None <=> cache[e] # None
         /\ \A e \in Entries : Cleared[e] # None => Cleared[e].cached = FALSE
<1> DEFINE off(e) == [cache[e] EXCEPT !.cached = FALSE]
<1>1. cache \in CacheType
  BY DEF Inv, Consistent
<1>2. ASSUME NEW e \in Entries, cache[e] # None
      PROVE  /\ off(e) \in Entry /\ off(e).pair = cache[e].pair /\ off(e).cached = FALSE
             /\ off(e).gate = cache[e].gate /\ off(e).token = cache[e].token
             /\ off(e) # None
  <2>1. cache[e] \in Entry
    BY <1>1, <1>2 DEF CacheType
  <2>2. off(e) \in Entry
    BY <2>1 DEF Entry
  <2>3. off(e) # None
    BY <2>2, GatewayAssumption DEF Entry
  <2> QED BY <2>1, <2>2, <2>3 DEF Entry
<1> HIDE DEF off
<1>3. \A e \in Entries : Cleared[e] = IF cache[e] = None THEN None ELSE off(e)
  BY DEF Cleared, off
<1>4. Cleared \in CacheType
  <2>1. Cleared = [e \in Entries |-> IF cache[e] = None THEN None ELSE off(e)]
    BY DEF Cleared, off
  <2> QED BY <1>2, <2>1 DEF CacheType
<1>5. \A e \in Entries : Cleared[e] # None <=> cache[e] # None
  BY <1>2, <1>3
<1>6. \A e \in Entries : cache[e] # None =>
        /\ Cleared[e].pair = cache[e].pair /\ Cleared[e].gate = cache[e].gate
        /\ Cleared[e].token = cache[e].token /\ Cleared[e].cached = FALSE
  BY <1>2, <1>3
<1>7. Held(infer, Cleared)
  BY <1>5, <1>6 DEF Inv, Consistent, Held
<1>8. Gated(infer, Cleared)
  BY <1>5, <1>6 DEF Inv, Consistent, Gated
<1>9. Distinct(Cleared)
  BY <1>5, <1>6 DEF Distinct
<1> QED BY <1>4, <1>5, <1>6, <1>7, <1>8, <1>9 DEF Consistent

\* A new entry, where the cache has none for its settings and key.
LEMMA InsertOK ==
  ASSUME Inv, NEW r \in Requests, NEW rec \in Request, NEW e \in Entries, NEW kept,
         Become(r, rec), rec.at = "waiting", rec.entry = e,
         <<rec.settings, rec.key>> \in Pairs, infer[r].at \notin Using,
         Consistent(infer, kept), kept[e] = None,
         \A f \in Entries : kept[f] # None /\ kept[f].cached
                            => kept[f].pair # <<rec.settings, rec.key>>
  PROVE  Consistent(infer', [kept EXCEPT ![e] =
           [pair |-> <<rec.settings, rec.key>>, cached |-> TRUE, gate |-> None, token |-> None]])
<1> DEFINE new == [pair |-> <<rec.settings, rec.key>>, cached |-> TRUE,
                   gate |-> None, token |-> None]
           c == [kept EXCEPT ![e] = new]
<1>1. /\ new \in Entry /\ new.pair = <<rec.settings, rec.key>> /\ new.cached = TRUE
      /\ new.gate = None /\ new.token = None
  BY DEF Entry
<1>2. new # None
  BY <1>1, GatewayAssumption DEF Entry
<1> HIDE DEF new
<1>3. kept \in CacheType
  BY DEF Consistent
<1>4. /\ c \in CacheType /\ c[e] = new /\ \A f \in Entries : f # e => c[f] = kept[f]
  BY <1>1, <1>3 DEF CacheType
<1> HIDE DEF c
<1>5. infer'[r] = rec /\ \A q \in Requests : q # r => infer'[q] = infer[q]
  BY DEF Become, Inv, TypeOK
<1>6. Held(infer', c)
  <2> SUFFICES ASSUME NEW q \in Requests, infer'[q].at \in Using
               PROVE  /\ infer'[q].entry \in Entries
                      /\ c[infer'[q].entry] # None
                      /\ c[infer'[q].entry].pair = <<infer'[q].settings, infer'[q].key>>
                      /\ infer'[q].at = "exchanging" => c[infer'[q].entry].gate = q
    BY DEF Held
  <2>1. CASE q = r
    BY <1>1, <1>2, <1>4, <1>5, <2>1
  <2>2. CASE q # r
    <3>1. infer'[q] = infer[q] /\ infer[q].at \in Using
      BY <1>5, <2>2
    <3>2. /\ infer[q].entry \in Entries /\ kept[infer[q].entry] # None
          /\ kept[infer[q].entry].pair = <<infer[q].settings, infer[q].key>>
          /\ infer[q].at = "exchanging" => kept[infer[q].entry].gate = q
      BY <3>1 DEF Consistent, Held
    <3>3. c[infer[q].entry] = kept[infer[q].entry]
      BY <1>4, <3>2
    <3> QED BY <3>1, <3>2, <3>3
  <2> QED BY <2>1, <2>2
<1>7. Gated(infer', c)
  <2> SUFFICES ASSUME NEW f \in Entries, c[f] # None
               PROVE  /\ c[f].token \in {None, c[f].pair}
                      /\ c[f].gate # None =>
                           infer'[c[f].gate].at = "exchanging" /\ infer'[c[f].gate].entry = f
    BY DEF Gated
  <2>1. CASE f = e
    BY <1>1, <1>4, <2>1
  <2>2. CASE f # e
    <3>1. c[f] = kept[f] /\ kept[f] \in Entry
      BY <1>3, <1>4, <2>2 DEF CacheType
    <3>2. /\ kept[f].token \in {None, kept[f].pair}
          /\ kept[f].gate # None =>
               infer[kept[f].gate].at = "exchanging" /\ infer[kept[f].gate].entry = f
      BY <3>1 DEF Consistent, Gated
    <3>3. kept[f].gate # None => kept[f].gate \in Requests /\ kept[f].gate # r
      BY <3>1, <3>2 DEF Entry, Using
    <3> QED BY <1>5, <3>1, <3>2, <3>3
  <2> QED BY <2>1, <2>2
<1>8. Distinct(c)
  <2> SUFFICES ASSUME NEW f \in Entries, NEW g \in Entries, c[f] # None, c[f].cached,
                      c[g] # None, c[g].cached, c[f].pair = c[g].pair
               PROVE  f = g
    BY DEF Distinct
  <2>1. CASE f # e /\ g # e
    BY <1>4, <2>1 DEF Consistent, Distinct
  <2>2. CASE f = e \/ g = e
    BY <1>1, <1>4, <2>2
  <2> QED BY <2>1, <2>2
<1>9. Consistent(infer', c)
  BY <1>4, <1>6, <1>7, <1>8 DEF Consistent
<1> QED BY <1>9 DEF c, new

LEMMA LookupOK ==
  ASSUME Inv, NEW r \in Requests, NEW e \in Entries, Lookup(r, e)
  PROVE  Inv'
<1> USE ReqOK DEF Using
<1> DEFINE q == infer[r]
           rec == [q EXCEPT !.at = "waiting", !.entry = e]
           kept == IF Cardinality(Cached) >= CacheLimit THEN Cleared ELSE cache
           new == [pair |-> PairOf(r), cached |-> TRUE, gate |-> None, token |-> None]
<1>1. /\ q.at = "resolved" /\ q.offered /\ q.settings \in Settings /\ q.key \in Keys
      /\ Become(r, rec) /\ UNCHANGED <<provider, model, word, live>>
      /\ IF Hits(r) # {} THEN e \in Hits(r) ELSE cache[e] = None
      /\ cache' = IF Hits(r) # {} THEN cache ELSE Swept([kept EXCEPT ![e] = new], infer')
  BY DEF Lookup, Progress
<1>2. PairOf(r) = <<q.settings, q.key>> /\ PairOf(r) \in Pairs
  BY <1>1 DEF PairOf, Pairs
<1>3. /\ rec \in Request /\ rec.at = "waiting" /\ rec.offered /\ rec.entry = e
      /\ rec.settings = q.settings /\ rec.key = q.key
  BY <1>1 DEF Request
<1> HIDE DEF rec
<1>4. Progress(rec)
  BY <1>1, <1>3 DEF Progress
<1>5. /\ infer' \in [Requests -> Request] /\ infer'[r] = rec
      /\ \A p \in Requests : p # r => infer'[p] = infer[p]
  BY <1>1, <1>3 DEF Become
<1>6. CASE Hits(r) # {}
  <2>1. cache' = cache /\ cache[e] # None /\ cache[e].pair = PairOf(r)
    BY <1>1, <1>6 DEF Hits, Cached, IndexedBy
  <2>2. Held(infer', cache)
    <3> SUFFICES ASSUME NEW p \in Requests, infer'[p].at \in Using
                 PROVE  /\ infer'[p].entry \in Entries
                        /\ cache[infer'[p].entry] # None
                        /\ cache[infer'[p].entry].pair = <<infer'[p].settings, infer'[p].key>>
                        /\ infer'[p].at = "exchanging" => cache[infer'[p].entry].gate = p
      BY DEF Held
    <3>1. CASE p = r
      BY <1>2, <1>3, <1>5, <2>1, <3>1
    <3>2. CASE p # r
      BY <1>5, <3>2 DEF Inv, Consistent, Held
    <3> QED BY <3>1, <3>2
  <2>3. Gated(infer', cache)
    BY <1>1, <1>5 DEF Inv, Consistent, Gated, CacheType, Entry
  <2>4. Consistent(infer', cache')
    BY <2>1, <2>2, <2>3 DEF Inv, Consistent
  <2> QED BY <1>1, <1>3, <1>4, <2>4, MovesCache
<1>7. CASE Hits(r) = {}
  <2>1. Consistent(infer, kept) /\ kept[e] = None
    <3>1. Consistent(infer, cache) /\ cache[e] = None
      BY <1>1, <1>7 DEF Inv
    <3>2. Consistent(infer, Cleared) /\ Cleared[e] = None
      BY <3>1, ClearedOK
    <3> QED BY <3>1, <3>2
  <2>2. \A f \in Entries : kept[f] # None /\ kept[f].cached => kept[f].pair # PairOf(r)
    <3>1. \A f \in Entries : cache[f] # None /\ cache[f].cached => cache[f].pair # PairOf(r)
      BY <1>7 DEF Hits, Cached, IndexedBy
    <3>2. \A f \in Entries : Cleared[f] # None => ~Cleared[f].cached
      BY ClearedOK
    <3> QED BY <3>1, <3>2
  <2> HIDE DEF kept
  <2>3. Consistent(infer', [kept EXCEPT ![e] = new])
    <3> DEFINE pair == <<rec.settings, rec.key>>
    <3>1. PairOf(r) = pair
      BY <1>2, <1>3
    <3>2. pair \in Pairs /\ infer[r].at \notin Using
          /\ \A f \in Entries : kept[f] # None /\ kept[f].cached => kept[f].pair # pair
      BY <1>1, <1>2, <2>2, <3>1
    <3>3. Consistent(infer', [kept EXCEPT ![e] =
            [pair |-> pair, cached |-> TRUE, gate |-> None, token |-> None]])
      BY <1>1, <1>3, <2>1, <3>2, InsertOK
    <3> QED BY <3>1, <3>3, Zenon
  <2>4. Consistent(infer', cache')
    BY <1>1, <1>5, <1>7, <2>3, SweepOK
  <2> QED BY <1>1, <1>3, <1>4, <2>4, MovesCache
<1> QED BY <1>6, <1>7

LEMMA InvNext == Inv /\ [Next]_vars => Inv'
<1> SUFFICES ASSUME Inv, [Next]_vars PROVE Inv'
  OBVIOUS
<1>1. CASE UNCHANGED vars
  BY <1>1 DEF vars, Inv, TypeOK, Offered, Available, Published, Consistent, Held, Gated,
              ModelsStayAvailable
<1>2. ASSUME NEW r \in Requests, Inference(r) PROVE Inv'
  BY <1>2, ReadsOK, LookupOK, ReuseOK, BeginExchangeOK, EndExchangeOK, EndOK DEF Inference
<1> QED BY <1>1, <1>2, OperatorOK, DiscoveryOK, ExpireOK, RestartOK DEF Next, Discovery

LEMMA Invariance == Spec => []Inv
  BY InvInit, InvNext, PTL DEF Spec

\* The provider, its model, the cache and every request have their shape.
THEOREM TypeCorrect == Spec => []TypeOK
  BY Invariance, PTL DEF Inv

\* A request goes upstream with a token of the settings and the key it has
\* read itself (Tokens.Resolve in internal/gateway/auth.go).
THEOREM OwnToken == Spec => []UsesOwnToken
<1>1. Inv => UsesOwnToken
  BY DEF Inv, Progress, UsesOwnToken, PairOf
<1> QED BY <1>1, Invariance, PTL

\* Two requests exchange the same key at once only if the cache was cleared
\* between them, and a gate is held by an exchange under way (Tokens.Resolve).
THEOREM ExchangesAreSingle == Spec => []OneExchange
<1>1. Inv => OneExchange
  <2> SUFFICES ASSUME Inv PROVE OneExchange
    OBVIOUS
  <2>1. ASSUME NEW q \in Requests, NEW r \in Requests, q # r,
               infer[q].at = "exchanging", infer[r].at = "exchanging", PairOf(q) = PairOf(r)
        PROVE  ~cache[infer[q].entry].cached \/ ~cache[infer[r].entry].cached
    <3> DEFINE e == infer[q].entry
               f == infer[r].entry
    <3>1. /\ e \in Entries /\ cache[e] # None /\ cache[e].pair = PairOf(q) /\ cache[e].gate = q
          /\ f \in Entries /\ cache[f] # None /\ cache[f].pair = PairOf(r) /\ cache[f].gate = r
      BY <2>1 DEF Inv, Consistent, Held, Using, PairOf
    <3>2. e # f
      BY <2>1, <3>1
    <3> QED BY <2>1, <3>1, <3>2 DEF Inv, Consistent, Distinct
  <2>2. \A e \in Entries : cache[e] # None /\ cache[e].gate # None =>
          infer[cache[e].gate].at = "exchanging" /\ infer[cache[e].gate].entry = e
    BY DEF Inv, Consistent, Gated
  <2> QED BY <2>1, <2>2 DEF OneExchange
<1> QED BY <1>1, Invariance, PTL

\* A request is sent only if its model was available at some moment since it
\* arrived (ResolveModel in internal/store/models.go).
THEOREM ServedAvailable == Spec => []ServedWasAvailable
<1>1. Inv => ServedWasAvailable
  BY DEF Inv, Progress, ServedWasAvailable
<1> QED BY <1>1, Invariance, PTL

\* A model is off only by an operator's word, or by a discovery's if a
\* discovery brought it (SaveDiscoveredModels in internal/store/models.go).
THEOREM ModelsStay == Spec => []ModelsStayAvailable
  BY Invariance, PTL DEF Inv
=============================================================================
