------------------------------ MODULE Catalog ------------------------------
(***************************************************************************)
(* The tool catalog of Toolmux and the access agents have to it: the      *)
(* tables connections, tools, agent_connections and grants, the store     *)
(* operations that write them, and the requests (health checks, imports,  *)
(* tool definitions) that read a connection first and write it later.     *)
(*                                                                         *)
(* Each store operation below is one PostgreSQL transaction and is one    *)
(* action.  A transaction that touches the tools, assignments or grants of *)
(* a connection locks the connection's row FOR UPDATE, or inserts a tool, *)
(* whose foreign key takes a KEY SHARE lock that excludes FOR UPDATE, so  *)
(* two of them on one connection never overlap.  The exception is the     *)
(* update of a command tool that exists: it locks that tool's row only,   *)
(* so its two statements are two actions.  What also overlaps is all that *)
(* a request read BEFORE its transaction: `requests' holds both.           *)
(***************************************************************************)

CONSTANTS
  Agents,    \* agent identities
  Conns,     \* connection ids; an id is never used again after a deletion
  Declared,  \* connections of kind http_api or command: their tools are defined
  Sourced,   \* connections that only an import creates (source_key is set)
  Names,     \* upstream tool names, already in their sanitized form
  Slugs,     \* connection slugs
  Handlers,  \* requests being served at the same time
  Failures,  \* how a check ends whose upstream does not answer or refuses
  None       \* no connection, no name, no slug

ASSUME CatalogAssumption ==
  /\ Declared \subseteq Conns
  /\ Sourced \subseteq Conns
  /\ Failures \subseteq {"unreachable", "reauthorization_required"}
  /\ None \notin Conns \cup Names \cup Slugs

VARIABLES
  agents,    \* rows of the table agents
  status,    \* connections.status, or that the row does not exist
  slug,      \* connections.slug
  catalog,   \* rows of the table tools
  enabled,   \* the rows whose column enabled is true
  exposed,   \* the connection slug tools.exposed_name was built from
  assigned,  \* rows of the table agent_connections
  grants,    \* rows of the table grants
  requests,  \* what each handler has read and not yet written
  decision,  \* history: the operator's last decision on an agent and a tool
  raced,     \* history: connections renamed while a request held their slug
  overlapped \* history: withheld while an update had yet to grant the tool

vars == <<agents, status, slug, catalog, enabled, exposed, assigned, grants,
          requests, decision, raced, overlapped>>

-----------------------------------------------------------------------------
(* A tool is identified by its connection and its upstream name: the pair  *)
(* is UNIQUE.  Its exposed name is "<slug>__<upstream name>".              *)

Tools == Conns \X Names
ToolsOf(c) == {t \in catalog : t[1] = c}

LiveStatus == {"unchecked", "connected", "degraded", "unreachable",
               "reauthorization_required", "disabled"}
Status == LiveStatus \cup {"absent", "deleted"}
Live(c) == status[c] \in LiveStatus

Ops == {"idle", "check", "save", "define", "ensure", "grant"}
Request == [op     : Ops,
            conn   : Conns \cup {None},
            name   : Names \cup {None},
            slug   : Slugs \cup {None},
            result : LiveStatus \cup {"none"},
            agents : SUBSET Agents]
Idle == [op |-> "idle", conn |-> None, name |-> None, slug |-> None,
         result |-> "none", agents |-> {}]

\* The requests that hold a connection's slug as they read it.
Holding ==
  {h \in Handlers : requests[h].op \in {"check", "define", "ensure", "grant"}}

\* The tool a request declares.
ToolOf(h) == <<requests[h].conn, requests[h].name>>

\* The tools whose rows the updates in flight have locked FOR UPDATE, and the
\* agents each has read as the assignees it is to grant its tool to.
Locked == {ToolOf(h) : h \in {k \in Handlers : requests[k].op = "grant"}}
Promised == UNION {requests[h].agents \X {ToolOf(h)} : h \in Handlers}

Decisions == {"none", "granted", "withheld"}

Init ==
  /\ agents = Agents
  /\ status = [c \in Conns |-> "absent"]
  /\ slug = [c \in Conns |-> None]
  /\ catalog = {}
  /\ enabled = {}
  /\ exposed = [t \in Tools |-> None]
  /\ assigned = {}
  /\ grants = {}
  /\ requests = [h \in Handlers |-> Idle]
  /\ decision = [a \in Agents |-> [t \in Tools |-> "none"]]
  /\ raced = {}
  /\ overlapped = {}

\* connections.slug is UNIQUE.
SlugFree(c, s) == \A d \in Conns \ {c} : Live(d) => slug[d] # s

\* tools.exposed_name is UNIQUE over all connections, disabled tools included.
NameTaken(t, s) == \E u \in catalog \ {t} : u[2] = t[2] /\ exposed[u] = s

\* The operator decides d on the tools T for agent a; nothing else changes.
Decide(a, T, d) ==
  [decision EXCEPT ![a] = [t \in Tools |-> IF t \in T THEN d ELSE @[t]]]

\* A refresh that takes the assignment of any connection for that of its own.
AnyAssigneeGrants(T) == {p \in agents \X T : \E c \in Conns : <<p[1], c>> \in assigned}

Assignees(c) == {a \in agents : <<a, c>> \in assigned}

\* Whoever is assigned the whole connection of a tool in T receives it.
AssigneeGrants(T) == {p \in agents \X T : <<p[1], p[2][1]>> \in assigned}

-----------------------------------------------------------------------------
(* Connections                                                             *)

CreateConnection(c, s) ==
  /\ c \notin Sourced
  /\ status[c] = "absent"
  /\ SlugFree(c, s)
  /\ status' = [status EXCEPT ![c] = "unchecked"]
  /\ slug' = [slug EXCEPT ![c] = s]
  /\ UNCHANGED <<agents, catalog, enabled, exposed, assigned, grants,
                 requests, decision, raced, overlapped>>

\* A rename that misses the tools a refresh has disabled.
RenamedEnabledTools(c, s) ==
  [t \in Tools |-> IF t \in ToolsOf(c) \cap enabled THEN s ELSE exposed[t]]

\* The exposed names after connection c takes slug s.
RenamedTools(c, s) == [t \in Tools |-> IF t \in ToolsOf(c) THEN s ELSE exposed[t]]

\* A new slug renames every tool of the connection in the same transaction,
\* waiting for a tool that is locked; a slug or a name in use rolls it back.
UpdateConnection(c, s) ==
  /\ Live(c)
  /\ s # slug[c]
  /\ SlugFree(c, s)
  /\ ToolsOf(c) \cap Locked = {}
  /\ \A t \in ToolsOf(c) : ~NameTaken(t, s)
  /\ slug' = [slug EXCEPT ![c] = s]
  /\ exposed' = RenamedTools(c, s)
  /\ raced' = IF \E h \in Holding : requests[h].conn = c
                THEN raced \cup {c} ELSE raced
  /\ UNCHANGED <<agents, status, catalog, enabled, assigned, grants,
                 requests, decision, overlapped>>

SetConnectionEnabled(c, on) ==
  /\ Live(c)
  /\ status' = [status EXCEPT ![c] = IF on THEN "unchecked" ELSE "disabled"]
  /\ UNCHANGED <<agents, slug, catalog, enabled, exposed, assigned, grants,
                 requests, decision, raced, overlapped>>

\* The tools T leave the catalog with everything that refers to them.
RemoveTools(T) ==
  /\ T \cap Locked = {}
  /\ catalog' = catalog \ T
  /\ enabled' = enabled \ T
  /\ exposed' = [t \in Tools |-> IF t \in T THEN None ELSE exposed[t]]
  /\ grants' = {p \in grants : p[2] \notin T}
  /\ decision' = [a \in Agents |->
                    [t \in Tools |-> IF t \in T THEN "none" ELSE decision[a][t]]]
  /\ overlapped' = {p \in overlapped : p[2] \notin T}

\* Deleting a connection deletes its assignments.
OtherAssignments(c) == {p \in assigned : p[2] # c}

DeleteConnection(c) ==
  /\ Live(c)
  /\ status' = [status EXCEPT ![c] = "deleted"]
  /\ slug' = [slug EXCEPT ![c] = None]
  /\ assigned' = OtherAssignments(c)
  /\ RemoveTools(ToolsOf(c))
  /\ UNCHANGED <<agents, requests, raced>>

\* The enabled tools of c become agent a's, now and whenever more are found.  A
\* new grant locks its tool FOR KEY SHARE, and so waits for one that is locked.
AssignTo(a, c) ==
  /\ ({a} \X (ToolsOf(c) \cap enabled \cap Locked)) \subseteq grants
  /\ assigned' = assigned \cup {<<a, c>>}
  /\ grants' = grants \cup ({a} \X (ToolsOf(c) \cap enabled))
  /\ decision' = [decision EXCEPT ![a] = [t \in Tools |->
                    IF t[1] # c THEN @[t]
                    ELSE IF t \in ToolsOf(c) \cap enabled THEN "granted" ELSE "none"]]

\* An import is idempotent: the source key finds the row of an earlier import,
\* whose slug and status it leaves alone.
ImportConnection(a, c, s) ==
  /\ c \in Sourced
  /\ a \in agents
  /\ \/ /\ status[c] = "absent"
        /\ SlugFree(c, s)
        /\ status' = [status EXCEPT ![c] = "unchecked"]
        /\ slug' = [slug EXCEPT ![c] = s]
     \/ /\ Live(c)
        /\ s = slug[c]
        /\ UNCHANGED <<status, slug>>
  /\ AssignTo(a, c)
  /\ UNCHANGED <<agents, catalog, enabled, exposed, requests, raced,
                 overlapped>>

-----------------------------------------------------------------------------
(* Agents and what they are granted                                        *)

DeleteAgent(a) ==
  /\ a \in agents
  /\ agents' = agents \ {a}
  /\ assigned' = {p \in assigned : p[1] # a}
  /\ grants' = {p \in grants : p[1] # a}
  /\ decision' = Decide(a, Tools, "none")
  /\ UNCHANGED <<status, slug, catalog, enabled, exposed, requests, raced,
                 overlapped>>

AssignConnection(a, c) ==
  /\ a \in agents
  /\ Live(c)
  /\ AssignTo(a, c)
  /\ UNCHANGED <<agents, status, slug, catalog, enabled, exposed, requests, raced,
                 overlapped>>

\* An update in flight has read the assignment and grants its tool afterwards.
Overlapped(a, decided, withheld) ==
  (overlapped \ ({a} \X decided)) \cup (Promised \cap ({a} \X withheld))

UnassignConnection(a, c) ==
  /\ a \in agents
  /\ assigned' = assigned \ {<<a, c>>}
  /\ grants' = grants \ ({a} \X ToolsOf(c))
  /\ decision' = Decide(a, ToolsOf(c), "withheld")
  /\ overlapped' = Overlapped(a, ToolsOf(c), ToolsOf(c))
  /\ UNCHANGED <<agents, status, slug, catalog, enabled, exposed, requests, raced>>

\* Saving a page keeps the whole-connection assignments.
KeptAssignments(a, unticked) == assigned

\* Withholding one tool turns the assignment of its connection into individual
\* access to the tools that remain.
IndividualAccess(a, unticked) ==
  assigned \ {<<a, t[1]>> : t \in unticked}

\* What a saved page decides on each tool.
PageDecision(a, shown, granted) ==
  [t \in Tools |-> CASE t \notin shown              -> decision[a][t]
                     [] t \in shown \ granted      -> "withheld"
                     [] t \in shown \cap granted   -> IF t \in enabled THEN "granted"
                                                                       ELSE "none"]

\* The operator saves one page of the agent's tools: `visible' were shown and
\* `granted' of them ticked.  One deleted since the page was rendered no longer
\* counts, one disabled since then loses its grant even if ticked.
SetVisibleGrants(a, visible, granted) ==
  LET shown  == visible \cap catalog
      ticked == granted \cap shown \cap enabled
  IN /\ a \in agents
     /\ ticked \cap Locked = {}
     /\ assigned' = IndividualAccess(a, shown \ granted)
     /\ grants' = (grants \ ({a} \X shown)) \cup ({a} \X ticked)
     /\ decision' = [decision EXCEPT ![a] = PageDecision(a, shown, granted)]
     /\ overlapped' = Overlapped(a, shown, shown \ granted)
     /\ UNCHANGED <<agents, status, slug, catalog, enabled, exposed, requests, raced>>

-----------------------------------------------------------------------------
(* Health checks: read the connection, call the upstream, save the catalog *)
(* it reported, save the outcome.                                          *)

\* A check starts whatever the status is.
RunCheck(h, c) ==
  /\ requests[h] = Idle
  /\ Live(c)
  /\ requests' = [requests EXCEPT ![h] =
                    [Idle EXCEPT !.op = "check", !.conn = c, !.slug = slug[c]]]
  /\ UNCHANGED <<agents, status, slug, catalog, enabled, exposed, assigned,
                 grants, decision, raced, overlapped>>

\* The check moves on to saving outcome r.
Outcome(h, r) ==
  requests' = [requests EXCEPT ![h].op = "save", ![h].slug = None, ![h].result = r]

\* The tools that disappeared are disabled.
EnabledAfter(c, found) == (enabled \ ToolsOf(c)) \cup found

\* The exposed names after `found' were upserted under slug s.
ExposedAfter(found, s) == [t \in Tools |-> IF t \in found THEN s ELSE exposed[t]]

\* Refreshes that revoke with the tools they drop, or forget the assignees.
GrantsOfFound(c, found) ==
  {p \in grants : p[2] \notin ToolsOf(c) \ found} \cup AssigneeGrants(found)
GrantsAsTheyWere(c, found) == grants

\* Every grant is kept, and the agents assigned the connection receive what was
\* found.
GrantsAfter(c, found) == grants \cup AssigneeGrants(found)

\* The discovered tools replace the connection's catalog: those that
\* disappeared are disabled and keep their grants, and every agent assigned
\* the connection receives those found.
RefreshTools(h, names) ==
  LET c     == requests[h].conn
      s     == requests[h].slug
      found == {c} \X names
  IN /\ requests[h].op = "check"
     /\ c \notin Declared
     /\ found # {} => Live(c)
     /\ \A t \in found : ~NameTaken(t, s)
     /\ catalog' = catalog \cup found
     /\ enabled' = EnabledAfter(c, found)
     /\ exposed' = ExposedAfter(found, s)
     /\ grants' = GrantsAfter(c, found)
     /\ Outcome(h, "connected")
     /\ UNCHANGED <<agents, status, slug, assigned, decision, raced, overlapped>>

\* The refresh rolled back: a name is taken, the connection is gone, or the
\* database failed.
RefreshNotSaved(h) ==
  /\ requests[h].op = "check"
  /\ requests[h].conn \notin Declared
  /\ Outcome(h, "degraded")
  /\ UNCHANGED <<agents, status, slug, catalog, enabled, exposed, assigned,
                 grants, decision, raced, overlapped>>

\* The outcomes that leave the catalog alone.
CheckOutcome(h, r) ==
  /\ requests[h].op = "check"
  /\ \/ r \in Failures
     \/ r = "connected" /\ requests[h].conn \in Declared
  /\ Outcome(h, r)
  /\ UNCHANGED <<agents, status, slug, catalog, enabled, exposed, assigned,
                 grants, decision, raced, overlapped>>

\* The outcome becomes the connection's status, whatever it was meanwhile set
\* to; of a deleted connection there is nothing to update.
SaveCheck(h) ==
  LET c == requests[h].conn
  IN /\ requests[h].op = "save"
     /\ status' = IF Live(c) THEN [status EXCEPT ![c] = requests[h].result]
                             ELSE status
     /\ requests' = [requests EXCEPT ![h] = Idle]
     /\ UNCHANGED <<agents, slug, catalog, enabled, exposed, assigned, grants,
                    decision, raced, overlapped>>

\* The request ends early: its context is cancelled, a query fails, a name or a
\* foreign key is violated, or the process stops.
Abandon(h) ==
  /\ requests[h] # Idle
  /\ requests' = [requests EXCEPT ![h] = Idle]
  /\ overlapped' = overlapped \ (requests[h].agents \X {ToolOf(h)})
  /\ UNCHANGED <<agents, status, slug, catalog, enabled, exposed, assigned,
                 grants, decision, raced>>

-----------------------------------------------------------------------------
(* Declared tools: HTTP operations and commands the operator defines       *)

\* Both ways to declare a tool read the connection before their transaction.
BeginDeclare(h, c, n, op) ==
  /\ op \in {"define", "ensure"}
  /\ c \in Declared
  /\ op = "ensure" => c \in Sourced
  /\ requests[h] = Idle
  /\ Live(c)
  /\ requests' = [requests EXCEPT ![h] =
       [Idle EXCEPT !.op = op, !.conn = c, !.name = n, !.slug = slug[c]]]
  /\ UNCHANGED <<agents, status, slug, catalog, enabled, exposed, assigned,
                 grants, decision, raced, overlapped>>

\* What a declaration writes: tool t under the slug it read, and the grants G.
PutTool(h, t, G) ==
  /\ Live(t[1])
  /\ ~NameTaken(t, requests[h].slug)
  /\ catalog' = catalog \cup {t}
  /\ enabled' = enabled \cup {t}
  /\ exposed' = [exposed EXCEPT ![t] = requests[h].slug]
  /\ grants' = grants \cup G
  /\ requests' = [requests EXCEPT ![h] = Idle]
  /\ UNCHANGED <<agents, status, slug, assigned, decision, raced, overlapped>>

\* createDeclaredTool inserts: a tool of that name must not exist.
CreateTool(h) ==
  /\ requests[h].op = "define"
  /\ ToolOf(h) \notin catalog
  /\ PutTool(h, ToolOf(h), AssigneeGrants({ToolOf(h)}))

\* EnsureCommandTool inserts a tool that is not there.
EnsureCommandTool(h) ==
  /\ requests[h].op = "ensure"
  /\ ToolOf(h) \notin catalog
  /\ PutTool(h, ToolOf(h), AssigneeGrants({ToolOf(h)}))

\* One that is there it updates: the statement locks the tool, not its
\* connection, and a later one reads who is assigned the connection ...
UpdateCommandTool(h) ==
  /\ requests[h].op = "ensure"
  /\ ToolOf(h) \in catalog \ Locked
  /\ requests' = [requests EXCEPT ![h].op = "grant",
                    ![h].agents = Assignees(requests[h].conn)]
  /\ UNCHANGED <<agents, status, slug, catalog, enabled, exposed, assigned,
                 grants, decision, raced, overlapped>>

\* ... and grants the tool to those it has read, also to an agent whose
\* assignment has ended since.
GrantCommandTool(h) ==
  /\ requests[h].op = "grant"
  /\ PutTool(h, ToolOf(h), (agents \cap requests[h].agents) \X {ToolOf(h)})

DeleteTool(t) ==
  /\ t \in catalog
  /\ t[1] \in Declared
  /\ RemoveTools({t})
  /\ UNCHANGED <<agents, status, slug, assigned, requests, raced>>

-----------------------------------------------------------------------------
Operator ==
  \/ \E c \in Conns, s \in Slugs : CreateConnection(c, s) \/ UpdateConnection(c, s)
  \/ \E c \in Conns, on \in BOOLEAN : SetConnectionEnabled(c, on)
  \/ \E c \in Conns : DeleteConnection(c)
  \/ \E a \in Agents, c \in Conns, s \in Slugs : ImportConnection(a, c, s)
  \/ \E a \in Agents : DeleteAgent(a)
  \/ \E a \in Agents, c \in Conns : AssignConnection(a, c) \/ UnassignConnection(a, c)
  \/ \E a \in Agents, visible \in SUBSET catalog \ {{}} :
       \E granted \in SUBSET visible : SetVisibleGrants(a, visible, granted)
  \/ \E t \in Tools : DeleteTool(t)

Server ==
  \/ \E h \in Handlers, c \in Conns : RunCheck(h, c)
  \/ \E h \in Handlers, names \in SUBSET Names : RefreshTools(h, names)
  \/ \E h \in Handlers : RefreshNotSaved(h)
  \/ \E h \in Handlers, r \in LiveStatus : CheckOutcome(h, r)
  \/ \E h \in Handlers : SaveCheck(h)
  \/ \E h \in Handlers : Abandon(h)
  \/ \E h \in Handlers, c \in Conns, n \in Names, op \in Ops : BeginDeclare(h, c, n, op)
  \/ \E h \in Handlers : CreateTool(h)
  \/ \E h \in Handlers : EnsureCommandTool(h) \/ UpdateCommandTool(h)
  \/ \E h \in Handlers : GrantCommandTool(h)

Next == Operator \/ Server

Spec == Init /\ [][Next]_vars

-----------------------------------------------------------------------------
(* What the catalog promises                                               *)

\* Every row refers to rows that exist, and a deleted connection leaves none.
TypeOK ==
  /\ agents \subseteq Agents
  /\ status \in [Conns -> Status]
  /\ slug \in [Conns -> Slugs \cup {None}]
  /\ catalog \subseteq {t \in Tools : Live(t[1])}
  /\ enabled \subseteq catalog
  /\ exposed \in [Tools -> Slugs \cup {None}]
  /\ assigned \subseteq {p \in agents \X Conns : Live(p[2])}
  /\ grants \subseteq agents \X catalog
  /\ requests \in [Handlers -> Request]
  /\ decision \in [Agents -> [Tools -> Decisions]]
  /\ raced \subseteq Conns
  /\ overlapped \subseteq Agents \X Tools

\* An agent assigned a whole connection holds a grant on every enabled tool of
\* it, whichever refresh, import or definition brought the tool in and however
\* late ("keeps future discoveries in sync", SetAgentConnection).
AssignedHoldsEveryEnabledTool ==
  \A p \in assigned, t \in enabled : t[1] = p[2] => <<p[1], t>> \in grants

\* A tool the operator withheld from an agent stays withheld: no refresh that
\* was already running, and no later one, grants it again (SetVisibleGrants).
\* Only an update of that very tool that had read the assignment the operator
\* ended may still grant it (EnsureCommandTool takes no lock it would wait for).
WithheldStaysWithheld ==
  \A a \in Agents, t \in Tools :
    decision[a][t] = "withheld" => <<a, t>> \notin grants \/ <<a, t>> \in overlapped

\* A tool the operator granted stays granted, also while it disappears from the
\* upstream's list and returns ("disabled rather than deleted so grants ...
\* survive", ReconcileTools).
ChosenStaysGranted ==
  \A a \in Agents, t \in Tools :
    decision[a][t] = "granted" => <<a, t>> \in grants

\* Tools are exposed under the current slug of their connection, the disabled
\* ones too, as long as no rename overtook a request that had read the old slug.
NamesFollowSlugUnlessRaced ==
  \A t \in catalog : t[1] \notin raced => exposed[t] = slug[t[1]]

\* An agent receives a tool only if the operator chose that tool or the agent
\* is assigned the whole connection when the grant is written, or, for an
\* update that overlapped the end of the assignment, was when it read it.
GrantsJustified ==
  \A p \in grants' \ grants : \/ <<p[1], p[2][1]>> \in assigned'
                              \/ decision'[p[1]][p[2]] = "granted"
                              \/ p \in Promised \cap overlapped
NewGrantsAreJustified == [][GrantsJustified]_vars

-----------------------------------------------------------------------------
(* What the code's comments say and the code does not keep                 *)

\* "A new slug renames the connection's exposed tools in the same transaction"
\* (UpdateConnection): no tool keeps a name with another slug.
NamesFollowSlug == \A t \in catalog : exposed[t] = slug[t[1]]

\* "A disabled connection keeps its tools and grants but agents cannot list or
\* call them" (SetConnectionEnabled): it stays disabled until it is resumed.
DisabledUntilResumed ==
  [][\A c \in Conns : status[c] = "disabled"
       => status'[c] \in {"disabled", "unchecked", "deleted"}]_vars
=============================================================================
