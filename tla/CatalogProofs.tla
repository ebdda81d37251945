--------------------------- MODULE CatalogProofs ---------------------------
(* Proofs about Catalog, for any number of agents, connections, tools,     *)
(* slugs and overlapping requests.                                         *)
EXTENDS Catalog, TLAPS

\* A request in flight names a connection that was there when it was read, one
\* that declares a tool names the tool, and only an update has read assignees.
RequestsOK ==
  \A h \in Handlers :
    /\ requests[h].op # "idle" => /\ requests[h].conn \in Conns
                                  /\ status[requests[h].conn] # "absent"
    /\ requests[h].op \in {"define", "ensure", "grant"} =>
         requests[h].name \in Names /\ requests[h].conn \in Declared
    /\ requests[h].op = "save" => requests[h].result \in LiveStatus
    /\ requests[h].op # "grant" => requests[h].agents = {}

\* An update in flight holds the lock of its tool alone, and a declared tool is
\* never disabled, so the tool's assignees have it.
LocksOK ==
  /\ \A h \in Handlers : requests[h].op = "grant" => ToolOf(h) \in enabled
  /\ \A h, k \in Handlers :
       requests[h].op = "grant" /\ requests[k].op = "grant" /\ ToolOf(h) = ToolOf(k)
         => h = k
  /\ \A t \in catalog : t[1] \in Declared => t \in enabled

Inv == TypeOK /\ RequestsOK /\ LocksOK

LEMMA IdleRequest == Idle \in Request /\ Idle.op = "idle" /\ Idle.agents = {}
  BY DEF Idle, Request, Ops

LEMMA LiveIsThere == \A c \in Conns : Live(c) => status[c] # "absent"
  BY DEF Live, LiveStatus

-----------------------------------------------------------------------------

\* Every row refers to rows that exist and every variable keeps its type.
LEMMA InvInit == Init => Inv
  BY CatalogAssumption, IdleRequest
  DEF Init, Inv, TypeOK, RequestsOK, LocksOK, Status, Decisions, Tools, Live, LiveStatus

\* Moving a check on to its outcome keeps every request well formed.
LEMMA OutcomeOK ==
  ASSUME TypeOK, RequestsOK, NEW h \in Handlers, NEW r \in LiveStatus,
         requests[h].op = "check", Outcome(h, r), UNCHANGED status
  PROVE  requests' \in [Handlers -> Request] /\ RequestsOK'
<1> DEFINE next == [requests[h] EXCEPT !.op = "save", !.slug = None, !.result = r]
<1>1. requests' = [requests EXCEPT ![h] = next]
  BY DEF Outcome, TypeOK, Request
<1>2. /\ next \in Request
      /\ next.op = "save" /\ next.conn = requests[h].conn /\ next.result = r
      /\ next.agents = {}
  <2>1. requests[h] \in Request /\ requests[h].agents = {}
    BY DEF TypeOK, RequestsOK
  <2>2. next \in Request
    BY <2>1 DEF Request, Ops
  <2>3. /\ next.op = "save" /\ next.conn = requests[h].conn /\ next.result = r
        /\ next.agents = requests[h].agents
    BY <2>1 DEF Request
  <2> HIDE DEF next
  <2> QED BY <2>1, <2>2, <2>3
<1> HIDE DEF next
<1>3. requests' \in [Handlers -> Request]
  BY <1>1, <1>2 DEF TypeOK
<1>4. requests'[h] = next /\ \A k \in Handlers \ {h} : requests'[k] = requests[k]
  BY <1>1 DEF TypeOK
<1>5. RequestsOK'
  BY <1>2, <1>4 DEF RequestsOK
<1> QED BY <1>3, <1>5

\* Writing a declared tool keeps the types.
LEMMA PutToolOK ==
  ASSUME TypeOK, RequestsOK, NEW h \in Handlers, NEW t \in Tools,
         NEW G \in SUBSET (agents \X {t}), PutTool(h, t, G)
  PROVE  TypeOK' /\ RequestsOK'
<1>1. requests' \in [Handlers -> Request] /\ RequestsOK'
  BY IdleRequest DEF PutTool, TypeOK, RequestsOK
<1>2. requests[h].slug \in Slugs \cup {None}
  BY DEF TypeOK, Request
<1> QED BY <1>1, <1>2 DEF PutTool, TypeOK, Live

LEMMA GivenToAssignees == \A t : AssigneeGrants({t}) \subseteq agents \X {t}
  BY DEF AssigneeGrants

\* The tool a request declares is one.
LEMMA ToolOfOK ==
  ASSUME RequestsOK, NEW h \in Handlers, requests[h].op \in {"define", "ensure", "grant"}
  PROVE  ToolOf(h) \in Tools
  BY DEF RequestsOK, ToolOf, Tools

\* Assigning a connection that is there keeps the types of what it writes.
LEMMA AssignToOK ==
  ASSUME TypeOK, NEW a \in agents, NEW c \in Conns, AssignTo(a, c)
  PROVE  /\ assigned' = assigned \cup {<<a, c>>}
         /\ grants' \subseteq agents \X catalog
         /\ decision' \in [Agents -> [Tools -> Decisions]]
  BY DEF AssignTo, ToolsOf, TypeOK, Decisions

LEMMA TypeNext == TypeOK /\ RequestsOK /\ [Next]_vars => TypeOK' /\ RequestsOK'
<1> SUFFICES ASSUME TypeOK, RequestsOK, [Next]_vars PROVE TypeOK' /\ RequestsOK'
  OBVIOUS
<1>1. ASSUME NEW c \in Conns, NEW s \in Slugs, CreateConnection(c, s)
      PROVE  TypeOK' /\ RequestsOK'
  BY <1>1 DEF CreateConnection, TypeOK, RequestsOK, Status, Live, LiveStatus, Tools
<1>2. ASSUME NEW c \in Conns, NEW s \in Slugs, UpdateConnection(c, s)
      PROVE  TypeOK' /\ RequestsOK'
  BY <1>2 DEF UpdateConnection, RenamedTools, TypeOK, RequestsOK, Live
<1>3. ASSUME NEW c \in Conns, NEW on \in BOOLEAN, SetConnectionEnabled(c, on)
      PROVE  TypeOK' /\ RequestsOK'
  BY <1>3 DEF SetConnectionEnabled, TypeOK, RequestsOK, Live, LiveStatus, Status, Tools
<1>4. ASSUME NEW c \in Conns, DeleteConnection(c)
      PROVE  TypeOK' /\ RequestsOK'
  BY <1>4 DEF DeleteConnection, RemoveTools, OtherAssignments, ToolsOf, TypeOK, RequestsOK, Live, LiveStatus, Status, Tools, Decisions
<1>5. ASSUME NEW a \in Agents, NEW c \in Conns, NEW s \in Slugs, ImportConnection(a, c, s)
      PROVE  TypeOK' /\ RequestsOK'
  <2>1. \A d \in Conns : /\ Live(d) => Live(d)'
                         /\ status[d] # "absent" => status'[d] # "absent"
    BY <1>5 DEF ImportConnection, TypeOK, Live, LiveStatus
  <2>2. Live(c)' /\ status' \in [Conns -> Status] /\ slug' \in [Conns -> Slugs \cup {None}]
    BY <1>5 DEF ImportConnection, TypeOK, Live, LiveStatus, Status
  <2>3. /\ a \in agents /\ AssignTo(a, c)
        /\ UNCHANGED <<agents, catalog, enabled, exposed, requests, raced, overlapped>>
    BY <1>5 DEF ImportConnection
  <2>4. /\ assigned' = assigned \cup {<<a, c>>}
        /\ grants' \subseteq agents \X catalog
        /\ decision' \in [Agents -> [Tools -> Decisions]]
    BY <2>3, AssignToOK
  <2>5. catalog' \subseteq {t \in Tools : Live(t[1])'}
    BY <2>1, <2>3 DEF TypeOK, Tools
  <2> QED BY <2>1, <2>2, <2>3, <2>4, <2>5 DEF TypeOK, RequestsOK
<1>6. ASSUME NEW a \in Agents, DeleteAgent(a)
      PROVE  TypeOK' /\ RequestsOK'
  BY <1>6 DEF DeleteAgent, Decide, TypeOK, RequestsOK, Live, Decisions
<1>7. ASSUME NEW a \in Agents, NEW c \in Conns, AssignConnection(a, c)
      PROVE  TypeOK' /\ RequestsOK'
  BY <1>7, AssignToOK DEF AssignConnection, TypeOK, RequestsOK, Live
<1>8. ASSUME NEW a \in Agents, NEW c \in Conns, UnassignConnection(a, c)
      PROVE  TypeOK' /\ RequestsOK'
  BY <1>8 DEF UnassignConnection, Overlapped, ToolsOf, Decide, TypeOK, RequestsOK, Live, Decisions
<1>9. ASSUME NEW a \in Agents, NEW visible \in SUBSET catalog \ {{}},
             NEW granted \in SUBSET visible, SetVisibleGrants(a, visible, granted)
      PROVE  TypeOK' /\ RequestsOK'
  BY <1>9 DEF SetVisibleGrants, Overlapped, IndividualAccess, PageDecision, TypeOK, RequestsOK, Live, Decisions
<1>10. ASSUME NEW t \in Tools, DeleteTool(t)
      PROVE  TypeOK' /\ RequestsOK'
  BY <1>10 DEF DeleteTool, RemoveTools, TypeOK, RequestsOK, Live, Decisions
<1>11. ASSUME NEW h \in Handlers, NEW c \in Conns, RunCheck(h, c)
      PROVE  TypeOK' /\ RequestsOK'
  BY <1>11, IdleRequest, LiveIsThere DEF RunCheck, TypeOK, RequestsOK, Live, Idle, Request, Ops
<1>12. ASSUME NEW h \in Handlers, NEW names \in SUBSET Names, RefreshTools(h, names)
      PROVE  TypeOK' /\ RequestsOK'
  <2> DEFINE c == requests[h].conn
             found == {c} \X names
  <2>1. requests' \in [Handlers -> Request] /\ RequestsOK'
    BY <1>12, OutcomeOK DEF RefreshTools, LiveStatus
  <2>2. c \in Conns /\ requests[h].slug \in Slugs \cup {None}
    BY <1>12 DEF RefreshTools, RequestsOK, TypeOK, Request
  <2>3. found \subseteq {t \in Tools : Live(t[1])}
    BY <1>12, <2>2 DEF RefreshTools, Tools
  <2>4. exposed' \in [Tools -> Slugs \cup {None}]
    BY <1>12, <2>2 DEF RefreshTools, ExposedAfter, TypeOK
  <2>5. enabled' \subseteq catalog' /\ catalog' = catalog \cup found
    BY <1>12 DEF RefreshTools, EnabledAfter, TypeOK
  <2>6. grants' \subseteq agents \X catalog'
    BY <1>12 DEF RefreshTools, GrantsAfter, AssigneeGrants, TypeOK
  <2> QED BY <1>12, <2>1, <2>3, <2>4, <2>5, <2>6 DEF RefreshTools, TypeOK, Live
<1>13. ASSUME NEW h \in Handlers, RefreshNotSaved(h)
      PROVE  TypeOK' /\ RequestsOK'
  BY <1>13, OutcomeOK DEF RefreshNotSaved, TypeOK, Live, LiveStatus
<1>14. ASSUME NEW h \in Handlers, NEW r \in LiveStatus, CheckOutcome(h, r)
      PROVE  TypeOK' /\ RequestsOK'
  BY <1>14, OutcomeOK DEF CheckOutcome, TypeOK, Live
<1>15. ASSUME NEW h \in Handlers, SaveCheck(h)
      PROVE  TypeOK' /\ RequestsOK'
  BY <1>15, IdleRequest DEF SaveCheck, TypeOK, RequestsOK, Live, Request, Ops, Status, LiveStatus, Idle, Tools
<1>16. ASSUME NEW h \in Handlers, Abandon(h)
      PROVE  TypeOK' /\ RequestsOK'
  BY <1>16, IdleRequest DEF Abandon, TypeOK, RequestsOK, Live
<1>17. ASSUME NEW h \in Handlers, NEW c \in Conns, NEW n \in Names, NEW op \in Ops,
              BeginDeclare(h, c, n, op)
      PROVE  TypeOK' /\ RequestsOK'
  BY <1>17, IdleRequest, LiveIsThere DEF BeginDeclare, TypeOK, RequestsOK, Live, Idle, Request, Ops
<1>18. ASSUME NEW h \in Handlers, CreateTool(h) \/ EnsureCommandTool(h)
      PROVE  TypeOK' /\ RequestsOK'
  <2>1. ToolOf(h) \in Tools /\ PutTool(h, ToolOf(h), AssigneeGrants({ToolOf(h)}))
    BY <1>18, ToolOfOK DEF CreateTool, EnsureCommandTool
  <2> QED BY <2>1, PutToolOK, GivenToAssignees
<1>19. ASSUME NEW h \in Handlers, UpdateCommandTool(h)
      PROVE  TypeOK' /\ RequestsOK'
  <2> DEFINE next == [requests[h] EXCEPT !.op = "grant", !.agents = Assignees(requests[h].conn)]
  <2>1. /\ requests' = [requests EXCEPT ![h] = next]
        /\ UNCHANGED <<agents, status, slug, catalog, enabled, exposed, assigned,
                       grants, decision, raced, overlapped>>
    BY <1>19 DEF UpdateCommandTool, TypeOK, Request
  <2>2. /\ next \in Request /\ next.op = "grant"
        /\ next.conn = requests[h].conn /\ next.name = requests[h].name
    BY DEF TypeOK, Request, Ops, Assignees
  <2>3. /\ requests[h].conn \in Declared /\ requests[h].name \in Names
        /\ status[requests[h].conn] # "absent" /\ requests[h].conn \in Conns
    BY <1>19 DEF UpdateCommandTool, RequestsOK
  <2> HIDE DEF next
  <2>4. requests' \in [Handlers -> Request] /\ RequestsOK'
    BY <2>1, <2>2, <2>3 DEF TypeOK, RequestsOK
  <2> QED BY <2>1, <2>4 DEF TypeOK, Live
<1>20. ASSUME NEW h \in Handlers, GrantCommandTool(h)
      PROVE  TypeOK' /\ RequestsOK'
  BY <1>20, ToolOfOK, PutToolOK DEF GrantCommandTool
<1>21. ASSUME UNCHANGED vars PROVE TypeOK' /\ RequestsOK'
  BY <1>21 DEF vars, TypeOK, RequestsOK, Live
<1> QED
  BY <1>1, <1>2, <1>3, <1>4, <1>5, <1>6, <1>7, <1>8, <1>9, <1>10, <1>11, <1>12,
     <1>13, <1>14, <1>15, <1>16, <1>17, <1>18, <1>19, <1>20, <1>21
  DEF Next, Operator, Server

\* The steps that neither change which tools there are nor lock one.
LEMMA LocksFrame ==
  ASSUME LocksOK, UNCHANGED <<catalog, enabled>>,
         \A h \in Handlers : requests'[h] = requests[h] \/ requests'[h].op # "grant"
  PROVE  LocksOK'
  BY DEF LocksOK, ToolOf

\* A locked tool is not removed.
LEMMA LocksOnRemoval ==
  ASSUME LocksOK, NEW T, RemoveTools(T), UNCHANGED requests
  PROVE  LocksOK'
<1>1. \A h \in Handlers : requests[h].op = "grant" => ToolOf(h) \notin T
  BY DEF RemoveTools, Locked
<1>2. UNCHANGED requests /\ \A h : ToolOf(h)' = ToolOf(h)
  BY DEF ToolOf
<1> QED BY <1>1, <1>2 DEF LocksOK, RemoveTools

LEMMA LocksOnPut ==
  ASSUME TypeOK, LocksOK, NEW h \in Handlers, NEW t \in Tools, NEW G, PutTool(h, t, G)
  PROVE  LocksOK'
<1>1. /\ requests' = [requests EXCEPT ![h] = Idle]
      /\ catalog' = catalog \cup {t} /\ enabled' = enabled \cup {t}
  BY DEF PutTool
<1>2. \A k \in Handlers : requests'[k] = requests[k] \/ requests'[k].op # "grant"
  BY <1>1, IdleRequest DEF TypeOK
<1> QED BY <1>1, <1>2 DEF LocksOK, ToolOf

\* A request that begins locks nothing.
LEMMA BegunOK ==
  ASSUME TypeOK, NEW h \in Handlers,
         \/ \E c \in Conns : RunCheck(h, c)
         \/ \E c \in Conns, n \in Names, op \in Ops : BeginDeclare(h, c, n, op)
  PROVE  /\ UNCHANGED <<catalog, enabled>>
         /\ requests'[h].op # "grant"
         /\ \A k \in Handlers \ {h} : requests'[k] = requests[k]
<1>1. ASSUME NEW c \in Conns, RunCheck(h, c)
      PROVE  /\ UNCHANGED <<catalog, enabled>>
             /\ requests' = [requests EXCEPT ![h] = requests'[h]]
             /\ requests'[h].op = "check"
  BY <1>1 DEF RunCheck, TypeOK, Idle
<1>2. ASSUME NEW c \in Conns, NEW n \in Names, NEW op \in Ops, BeginDeclare(h, c, n, op)
      PROVE  /\ UNCHANGED <<catalog, enabled>>
             /\ requests' = [requests EXCEPT ![h] = requests'[h]]
             /\ requests'[h].op \in {"define", "ensure"}
  BY <1>2 DEF BeginDeclare, TypeOK, Idle
<1>3. /\ UNCHANGED <<catalog, enabled>>
      /\ requests' = [requests EXCEPT ![h] = requests'[h]]
      /\ requests'[h].op \in {"check", "define", "ensure"}
  BY <1>1, <1>2
<1> QED BY <1>3 DEF TypeOK

LEMMA LocksNext == Inv /\ [Next]_vars => LocksOK'
<1> SUFFICES ASSUME TypeOK, RequestsOK, LocksOK, [Next]_vars PROVE LocksOK'
  BY DEF Inv
<1>1. CASE UNCHANGED <<catalog, enabled, requests>>
  BY <1>1, LocksFrame
<1>2. ASSUME NEW T, RemoveTools(T), UNCHANGED requests PROVE LocksOK'
  BY <1>2, LocksOnRemoval
<1>3. ASSUME NEW h \in Handlers,
             \/ \E c \in Conns : RunCheck(h, c)
             \/ \E c \in Conns, n \in Names, op \in Ops : BeginDeclare(h, c, n, op)
      PROVE  LocksOK'
  <2>1. /\ UNCHANGED <<catalog, enabled>>
        /\ requests'[h].op # "grant"
        /\ \A k \in Handlers \ {h} : requests'[k] = requests[k]
    BY <1>3, BegunOK
  <2> QED BY <2>1, LocksFrame
<1>4. ASSUME NEW h \in Handlers, SaveCheck(h) \/ Abandon(h) PROVE LocksOK'
  <2>1. UNCHANGED <<catalog, enabled>> /\ requests' = [requests EXCEPT ![h] = Idle]
    BY <1>4 DEF SaveCheck, Abandon
  <2> QED BY <2>1, IdleRequest, LocksFrame DEF TypeOK
<1>5. ASSUME NEW h \in Handlers, NEW r \in LiveStatus, Outcome(h, r)
      PROVE  \A k \in Handlers : requests'[k] = requests[k] \/ requests'[k].op # "grant"
  BY <1>5 DEF Outcome, TypeOK, Request
<1>6. ASSUME NEW h \in Handlers,
             RefreshNotSaved(h) \/ \E r \in LiveStatus : CheckOutcome(h, r)
      PROVE  LocksOK'
  <2>1. UNCHANGED <<catalog, enabled>> /\ \E r \in LiveStatus : Outcome(h, r)
    BY <1>6 DEF RefreshNotSaved, CheckOutcome, LiveStatus
  <2> QED BY <2>1, <1>5, LocksFrame
<1>7. ASSUME NEW h \in Handlers, NEW names \in SUBSET Names, RefreshTools(h, names)
      PROVE  LocksOK'
  <2> DEFINE c == requests[h].conn
             found == {c} \X names
  <2>1. /\ c \notin Declared /\ catalog' = catalog \cup found
        /\ enabled' = (enabled \ ToolsOf(c)) \cup found
        /\ Outcome(h, "connected")
    BY <1>7 DEF RefreshTools, EnabledAfter
  <2>2. \A k \in Handlers : requests'[k] = requests[k] \/ requests'[k].op # "grant"
    BY <2>1, <1>5 DEF LiveStatus
  <2>3. \A k \in Handlers : requests[k].op = "grant" => ToolOf(k)[1] \in Declared
    BY DEF RequestsOK, ToolOf
  <2>4. \A t \in catalog : t[1] \in Declared => t \notin ToolsOf(c)
    BY <2>1 DEF ToolsOf
  <2>5. \A t \in found : t[1] = c
    OBVIOUS
  <2>6. enabled \subseteq catalog
    BY DEF TypeOK
  <2> HIDE DEF found, c
  <2>7. \A k \in Handlers : requests'[k].op = "grant" => ToolOf(k)' \in enabled'
    BY <2>1, <2>2, <2>3, <2>4, <2>6 DEF LocksOK, ToolOf
  <2>8. \A t \in catalog' : t[1] \in Declared => t \in enabled'
    BY <2>1, <2>4, <2>5 DEF LocksOK
  <2>9. \A k, m \in Handlers :
          requests'[k].op = "grant" /\ requests'[m].op = "grant" /\ ToolOf(k)' = ToolOf(m)'
            => k = m
    BY <2>2 DEF LocksOK, ToolOf
  <2> QED BY <2>7, <2>8, <2>9 DEF LocksOK
<1>8. ASSUME NEW h \in Handlers, CreateTool(h) \/ EnsureCommandTool(h) \/ GrantCommandTool(h)
      PROVE  LocksOK'
  <2>1. ToolOf(h) \in Tools
    BY <1>8, ToolOfOK DEF CreateTool, EnsureCommandTool, GrantCommandTool
  <2> QED BY <1>8, <2>1, LocksOnPut DEF CreateTool, EnsureCommandTool, GrantCommandTool
<1>9. ASSUME NEW h \in Handlers, UpdateCommandTool(h) PROVE LocksOK'
  <2>1. /\ UNCHANGED <<catalog, enabled>>
        /\ \A k \in Handlers \ {h} : requests'[k] = requests[k]
        /\ requests'[h].conn = requests[h].conn /\ requests'[h].name = requests[h].name
    BY <1>9 DEF UpdateCommandTool, TypeOK, Request
  <2>2. ToolOf(h) \in enabled
    <3>1. ToolOf(h)[1] \in Declared
      BY <1>9 DEF UpdateCommandTool, RequestsOK, ToolOf
    <3> QED BY <1>9, <3>1 DEF UpdateCommandTool, LocksOK
  <2>3. \A k \in Handlers : requests[k].op = "grant" => ToolOf(k) # ToolOf(h)
    BY <1>9 DEF UpdateCommandTool, Locked
  <2>4. \A k \in Handlers : ToolOf(k)' = ToolOf(k)
    BY <2>1 DEF ToolOf
  <2> HIDE DEF ToolOf
  <2> QED BY <2>1, <2>2, <2>3, <2>4 DEF LocksOK
<1>10. CASE Operator
  <2>1. CASE UNCHANGED <<catalog, enabled, requests>>
    BY <2>1, <1>1
  <2>2. CASE \E T : RemoveTools(T) /\ UNCHANGED requests
    BY <2>2, <1>2
  <2>3. \/ UNCHANGED <<catalog, enabled, requests>>
        \/ \E T : RemoveTools(T) /\ UNCHANGED requests
    BY <1>10 DEF Operator, CreateConnection, UpdateConnection, SetConnectionEnabled,
       DeleteConnection, ImportConnection, DeleteAgent, AssignConnection,
       UnassignConnection, SetVisibleGrants, DeleteTool
  <2> QED BY <2>1, <2>2, <2>3
<1>11. CASE Server
  BY <1>11, <1>3, <1>4, <1>6, <1>7, <1>8, <1>9 DEF Server
<1>12. CASE UNCHANGED vars
  BY <1>12, <1>1 DEF vars
<1> QED BY <1>10, <1>11, <1>12 DEF Next

LEMMA InvNext == Inv /\ [Next]_vars => Inv'
  BY TypeNext, LocksNext DEF Inv

LEMMA InvAlways == Spec => []Inv
  BY InvInit, InvNext, PTL DEF Spec

\* No row of the catalog, no assignment and no grant refers to a connection, a
\* tool or an agent that is gone.
THEOREM TypeCorrect == Spec => []TypeOK
  BY InvAlways, PTL DEF Inv

-----------------------------------------------------------------------------
(* Who holds which tools.  All actions that do not write the tables the     *)
(* access properties relate are one case of the proofs below.               *)

access == <<agents, catalog, enabled, assigned, grants, decision, overlapped>>

\* A step either leaves access alone or is one of those that write it.
LEMMA AccessSteps ==
  ASSUME [Next]_vars
  PROVE  \/ UNCHANGED access
         \/ \E c \in Conns : DeleteConnection(c)
         \/ \E a \in agents, c \in Conns :
              AssignTo(a, c) /\ UNCHANGED <<agents, catalog, enabled, requests, overlapped>>
         \/ \E a \in Agents : DeleteAgent(a)
         \/ \E a \in Agents, c \in Conns : UnassignConnection(a, c)
         \/ \E a \in Agents, visible \in SUBSET catalog \ {{}} :
              \E granted \in SUBSET visible : SetVisibleGrants(a, visible, granted)
         \/ \E t \in Tools : DeleteTool(t)
         \/ \E h \in Handlers, names \in SUBSET Names : RefreshTools(h, names)
         \/ \E h \in Handlers : CreateTool(h) \/ EnsureCommandTool(h)
         \/ \E h \in Handlers : GrantCommandTool(h)
         \/ \E h \in Handlers : Abandon(h)
<1>1. ASSUME NEW c \in Conns, NEW s \in Slugs,
             CreateConnection(c, s) \/ UpdateConnection(c, s)
      PROVE  UNCHANGED access
  BY <1>1 DEF CreateConnection, UpdateConnection, access
<1>2. ASSUME NEW c \in Conns, NEW on \in BOOLEAN, SetConnectionEnabled(c, on)
      PROVE  UNCHANGED access
  BY <1>2 DEF SetConnectionEnabled, access
<1>3. ASSUME NEW h \in Handlers,
             \/ \E c \in Conns : RunCheck(h, c)
             \/ RefreshNotSaved(h) \/ SaveCheck(h) \/ UpdateCommandTool(h)
             \/ \E r \in LiveStatus : CheckOutcome(h, r)
             \/ \E c \in Conns, n \in Names, op \in Ops : BeginDeclare(h, c, n, op)
      PROVE  UNCHANGED access
  BY <1>3 DEF RunCheck, RefreshNotSaved, SaveCheck, UpdateCommandTool, CheckOutcome, BeginDeclare, access
<1>4. CASE UNCHANGED vars
  BY <1>4 DEF vars, access
<1>5. CASE Next
  <2>1. CASE Operator
    <3>1. CASE \E c \in Conns, s \in Slugs : CreateConnection(c, s) \/ UpdateConnection(c, s)
      BY <3>1, <1>1
    <3>2. CASE \E c \in Conns, on \in BOOLEAN : SetConnectionEnabled(c, on)
      BY <3>2, <1>2
    <3>3. CASE \/ \E a \in Agents, c \in Conns, s \in Slugs : ImportConnection(a, c, s)
               \/ \E a \in Agents, c \in Conns : AssignConnection(a, c)
      <4>1. PICK a \in agents, c \in Conns :
              AssignTo(a, c) /\ UNCHANGED <<agents, catalog, enabled, requests, overlapped>>
        BY <3>3 DEF ImportConnection, AssignConnection
      <4> QED BY <4>1
    <3>4. CASE \/ \E c \in Conns : DeleteConnection(c)
               \/ \E a \in Agents : DeleteAgent(a)
               \/ \E a \in Agents, c \in Conns : UnassignConnection(a, c)
               \/ \E a \in Agents, visible \in SUBSET catalog \ {{}} :
                    \E granted \in SUBSET visible : SetVisibleGrants(a, visible, granted)
               \/ \E t \in Tools : DeleteTool(t)
      BY <3>4
    <3> QED BY <2>1, <3>1, <3>2, <3>3, <3>4 DEF Operator
  <2>2. CASE Server
    BY <2>2, <1>3 DEF Server
  <2> QED BY <1>5, <2>1, <2>2 DEF Next
<1> QED BY <1>4, <1>5

\* Whom a newly found or defined tool is granted to.
LEMMA AssigneeGrantsOf ==
  ASSUME NEW T
  PROVE  \A a, t : <<a, t>> \in AssigneeGrants(T)
                     <=> a \in agents /\ t \in T /\ <<a, t[1]>> \in assigned
  BY DEF AssigneeGrants

\* A tool written by a definition is granted to the assignees and to no other.
LEMMA PutToolAccess ==
  ASSUME Inv, NEW h \in Handlers, CreateTool(h) \/ EnsureCommandTool(h)
  PROVE  \E t \in Tools \ catalog :
           /\ catalog' = catalog \cup {t} /\ enabled' = enabled \cup {t}
           /\ grants' = grants \cup AssigneeGrants({t})
           /\ UNCHANGED <<agents, assigned, decision, overlapped>>
           /\ requests' = [requests EXCEPT ![h] = Idle]
<1>1. ToolOf(h) \in Tools \ catalog
  BY ToolOfOK DEF CreateTool, EnsureCommandTool, Inv
<1> QED BY <1>1 DEF CreateTool, EnsureCommandTool, PutTool

\* An update grants its tool, which is there, to the agents it has read.
LEMMA GrantAccess ==
  ASSUME Inv, NEW h \in Handlers, GrantCommandTool(h)
  PROVE  /\ requests[h].op = "grant" /\ ToolOf(h) \in enabled
         /\ UNCHANGED <<agents, catalog, enabled, assigned, decision, overlapped>>
         /\ grants' = grants \cup ((agents \cap requests[h].agents) \X {ToolOf(h)})
         /\ requests' = [requests EXCEPT ![h] = Idle]
<1>1. ToolOf(h) \in enabled /\ ToolOf(h) \in catalog
  BY DEF GrantCommandTool, Inv, LocksOK, TypeOK
<1> QED BY <1>1 DEF GrantCommandTool, PutTool

\* A refresh grants what it found to the assignees and to no other.
LEMMA RefreshAccess ==
  ASSUME Inv, NEW h \in Handlers, NEW names \in SUBSET Names, RefreshTools(h, names)
  PROVE  \E c \in Conns, found \in SUBSET Tools :
           /\ found = {c} \X names
           /\ catalog' = catalog \cup found
           /\ enabled' = (enabled \ ToolsOf(c)) \cup found
           /\ grants' = grants \cup AssigneeGrants(found)
           /\ UNCHANGED <<agents, assigned, decision, overlapped>>
<1> DEFINE c == requests[h].conn
<1>1. c \in Conns
  BY DEF RefreshTools, Inv, RequestsOK
<1>2. {c} \X names \in SUBSET Tools
  BY <1>1 DEF Tools
<1> QED BY <1>1, <1>2 DEF RefreshTools, GrantsAfter, EnabledAfter

\* The inductive form of WithheldStaysWithheld: the tool's connection is not
\* assigned either, so nothing that grants to assignees can reach it.
WithheldIsUnassigned ==
  \A a \in Agents, t \in Tools :
    decision[a][t] = "withheld" =>
      /\ <<a, t[1]>> \notin assigned
      /\ <<a, t>> \in grants => <<a, t>> \in overlapped

\* An agent an update is to grant its tool to has it, or it was withheld since.
PromisesOK ==
  \A h \in Handlers : requests[h].op = "grant" =>
    \A a \in agents \cap requests[h].agents :
      IF decision[a][ToolOf(h)] = "withheld"
        THEN <<a, ToolOf(h)>> \in overlapped \ grants
        ELSE <<a, ToolOf(h)>> \in grants


LEMMA AssignedHoldsNext == Inv /\ AssignedHoldsEveryEnabledTool /\ [Next]_vars => AssignedHoldsEveryEnabledTool'
<1> SUFFICES ASSUME Inv, AssignedHoldsEveryEnabledTool, [Next]_vars PROVE AssignedHoldsEveryEnabledTool'
  OBVIOUS
<1> USE DEF AssignedHoldsEveryEnabledTool
<1>1. CASE UNCHANGED access
  BY <1>1 DEF access
<1>2. ASSUME NEW c \in Conns, DeleteConnection(c) PROVE AssignedHoldsEveryEnabledTool'
  BY <1>2 DEF DeleteConnection, RemoveTools, OtherAssignments, ToolsOf, Inv, TypeOK
<1>3. ASSUME NEW a \in agents, NEW c \in Conns, AssignTo(a, c),
             UNCHANGED <<agents, catalog, enabled, requests, overlapped>>
      PROVE  AssignedHoldsEveryEnabledTool'
  BY <1>3 DEF AssignTo, ToolsOf, Inv, TypeOK
<1>4. ASSUME NEW a \in Agents, DeleteAgent(a) PROVE AssignedHoldsEveryEnabledTool'
  BY <1>4 DEF DeleteAgent, Decide, Inv, TypeOK
<1>5. ASSUME NEW a \in Agents, NEW c \in Conns, UnassignConnection(a, c) PROVE AssignedHoldsEveryEnabledTool'
  BY <1>5 DEF UnassignConnection, Decide, ToolsOf, Inv, TypeOK
<1>6. ASSUME NEW a \in Agents, NEW visible \in SUBSET catalog \ {{}},
             NEW granted \in SUBSET visible, SetVisibleGrants(a, visible, granted)
      PROVE  AssignedHoldsEveryEnabledTool'
  BY <1>6 DEF SetVisibleGrants, IndividualAccess, PageDecision, Inv, TypeOK
<1>7. ASSUME NEW t \in Tools, DeleteTool(t) PROVE AssignedHoldsEveryEnabledTool'
  BY <1>7 DEF DeleteTool, RemoveTools, Inv, TypeOK
<1>8. ASSUME NEW h \in Handlers, NEW names \in SUBSET Names, RefreshTools(h, names)
      PROVE  AssignedHoldsEveryEnabledTool'
  <2>1. PICK c \in Conns, found \in SUBSET Tools :
           /\ enabled' = (enabled \ ToolsOf(c)) \cup found
           /\ grants' = grants \cup AssigneeGrants(found)
           /\ UNCHANGED <<agents, assigned>>
    BY <1>8, RefreshAccess
  <2> QED BY <2>1, AssigneeGrantsOf DEF Inv, TypeOK
<1>9. ASSUME NEW h \in Handlers, CreateTool(h) \/ EnsureCommandTool(h) PROVE AssignedHoldsEveryEnabledTool'
  BY <1>9, PutToolAccess DEF AssigneeGrants, Inv, TypeOK
<1>10. ASSUME NEW h \in Handlers, GrantCommandTool(h) PROVE AssignedHoldsEveryEnabledTool'
  BY <1>10, GrantAccess
<1>11. ASSUME NEW h \in Handlers, Abandon(h) PROVE AssignedHoldsEveryEnabledTool'
  BY <1>11 DEF Abandon
<1> QED
  BY AccessSteps, <1>1, <1>2, <1>3, <1>4, <1>5, <1>6, <1>7, <1>8, <1>9, <1>10, <1>11

\* An assignment and the grants it stands for never part, however the refreshes,
\* definitions, imports and page saves interleave (SetAgentConnection's comment).
THEOREM AssignedHolds == Spec => []AssignedHoldsEveryEnabledTool
<1>1. Init => AssignedHoldsEveryEnabledTool
  BY DEF Init, AssignedHoldsEveryEnabledTool
<1> QED BY <1>1, AssignedHoldsNext, InvAlways, PTL DEF Spec

LEMMA WithheldNext ==
  Inv /\ PromisesOK /\ WithheldIsUnassigned /\ [Next]_vars => WithheldIsUnassigned'
<1> SUFFICES ASSUME Inv, PromisesOK, WithheldIsUnassigned, [Next]_vars
             PROVE  WithheldIsUnassigned'
  OBVIOUS
<1> USE DEF WithheldIsUnassigned
<1>1. CASE UNCHANGED access
  BY <1>1 DEF access
<1>2. ASSUME NEW c \in Conns, DeleteConnection(c) PROVE WithheldIsUnassigned'
  BY <1>2 DEF DeleteConnection, RemoveTools, OtherAssignments, ToolsOf, Inv, TypeOK
<1>3. ASSUME NEW a \in agents, NEW c \in Conns, AssignTo(a, c),
             UNCHANGED <<agents, catalog, enabled, requests, overlapped>>
      PROVE  WithheldIsUnassigned'
  BY <1>3 DEF AssignTo, ToolsOf, Inv, TypeOK
<1>4. ASSUME NEW a \in Agents, DeleteAgent(a) PROVE WithheldIsUnassigned'
  BY <1>4 DEF DeleteAgent, Decide, Inv, TypeOK
<1>5. ASSUME NEW a \in Agents, NEW c \in Conns, UnassignConnection(a, c) PROVE WithheldIsUnassigned'
  BY <1>5 DEF UnassignConnection, Overlapped, Decide, ToolsOf, Inv, TypeOK
<1>6. ASSUME NEW a \in Agents, NEW visible \in SUBSET catalog \ {{}},
             NEW granted \in SUBSET visible, SetVisibleGrants(a, visible, granted)
      PROVE  WithheldIsUnassigned'
  BY <1>6 DEF SetVisibleGrants, Overlapped, IndividualAccess, PageDecision, Inv, TypeOK
<1>7. ASSUME NEW t \in Tools, DeleteTool(t) PROVE WithheldIsUnassigned'
  BY <1>7 DEF DeleteTool, RemoveTools, Inv, TypeOK
<1>8. ASSUME NEW h \in Handlers, NEW names \in SUBSET Names, RefreshTools(h, names)
      PROVE  WithheldIsUnassigned'
  <2>1. PICK found \in SUBSET Tools :
           /\ grants' = grants \cup AssigneeGrants(found)
           /\ UNCHANGED <<agents, assigned, decision, overlapped>>
    BY <1>8, RefreshAccess
  <2> QED BY <2>1, AssigneeGrantsOf
<1>9. ASSUME NEW h \in Handlers, CreateTool(h) \/ EnsureCommandTool(h) PROVE WithheldIsUnassigned'
  BY <1>9, PutToolAccess DEF AssigneeGrants, Inv, TypeOK
<1>10. ASSUME NEW h \in Handlers, GrantCommandTool(h) PROVE WithheldIsUnassigned'
  <2>1. /\ requests[h].op = "grant" /\ UNCHANGED <<assigned, decision, overlapped>>
        /\ grants' = grants \cup ((agents \cap requests[h].agents) \X {ToolOf(h)})
    BY <1>10, GrantAccess
  <2> QED BY <2>1 DEF PromisesOK
<1>11. ASSUME NEW h \in Handlers, Abandon(h) PROVE WithheldIsUnassigned'
  <2>1. /\ overlapped' = overlapped \ (requests[h].agents \X {ToolOf(h)})
        /\ UNCHANGED <<agents, assigned, decision, grants>>
    BY <1>11 DEF Abandon
  <2>2. \A a \in Agents, t \in Tools :
          decision[a][t] = "withheld" /\ <<a, t>> \in grants
            => <<a, t>> \notin requests[h].agents \X {ToolOf(h)}
    BY DEF PromisesOK, Inv, TypeOK, RequestsOK
  <2> QED BY <2>1, <2>2
<1> QED
  BY AccessSteps, <1>1, <1>2, <1>3, <1>4, <1>5, <1>6, <1>7, <1>8, <1>9, <1>10, <1>11

\* No step takes a promised tool from an agent but by withholding it, since new
\* decisions to grant it, its removal and other updates of it wait for the lock.
LEMMA PromisesNext ==
  ASSUME Inv, AssignedHoldsEveryEnabledTool, WithheldIsUnassigned, PromisesOK, [Next]_vars
  PROVE  PromisesOK'
<1> SUFFICES ASSUME NEW h \in Handlers, requests'[h].op = "grant",
                    NEW a \in agents', a \in requests'[h].agents
             PROVE  IF decision'[a][ToolOf(h)'] = "withheld"
                      THEN <<a, ToolOf(h)'>> \in overlapped' \ grants'
                      ELSE <<a, ToolOf(h)'>> \in grants'
  BY DEF PromisesOK
<1> DEFINE t == ToolOf(h)
           Kept == IF decision'[a][t] = "withheld" THEN <<a, t>> \in overlapped' \ grants'
                                                   ELSE <<a, t>> \in grants'
<1>1. CASE UpdateCommandTool(h)
  <2>1. /\ requests'[h].agents = Assignees(requests[h].conn) /\ ToolOf(h)' = t
        /\ t \in catalog /\ requests[h].op = "ensure"
        /\ UNCHANGED <<agents, decision, grants, overlapped>>
    BY <1>1 DEF UpdateCommandTool, ToolOf, Inv, TypeOK, Request
  <2>2. <<a, t[1]>> \in assigned
    BY <2>1 DEF Assignees, ToolOf
  <2>3. t \in enabled /\ t \in Tools
    BY <2>1 DEF Inv, LocksOK, RequestsOK, TypeOK, ToolOf
  <2>4. decision[a][t] # "withheld"
    BY <2>1, <2>2, <2>3 DEF WithheldIsUnassigned, Inv, TypeOK
  <2>5. <<a, t>> \in grants
    <3>1. <<a, t[1]>>[1] = a /\ <<a, t[1]>>[2] = t[1]
      OBVIOUS
    <3> QED BY <2>2, <2>3, <3>1 DEF AssignedHoldsEveryEnabledTool
  <2> HIDE DEF t
  <2> QED BY <2>1, <2>4, <2>5
<1>2. CASE /\ requests'[h] = requests[h] /\ agents' \subseteq agents
           /\ Kept
  BY <1>2 DEF ToolOf
<1>3. ASSUME requests'[h] = requests[h], agents' \subseteq agents
      PROVE  /\ a \in agents /\ a \in Agents /\ a \in requests[h].agents
             /\ requests[h].op = "grant" /\ t \in Locked
             /\ t \in enabled /\ t \in catalog /\ t \in Tools
             /\ IF decision[a][t] = "withheld" THEN <<a, t>> \in overlapped \ grants
                                               ELSE <<a, t>> \in grants
             /\ <<a, t>> \in Promised
  BY <1>3 DEF PromisesOK, Inv, TypeOK, LocksOK, Locked, Promised
<1>4. CASE UNCHANGED access /\ requests'[h] = requests[h]
  BY <1>2, <1>3, <1>4 DEF access
<1>5. ASSUME NEW T, RemoveTools(T), UNCHANGED <<agents, requests>> PROVE Kept
  BY <1>3, <1>5 DEF RemoveTools
<1>6. ASSUME NEW b \in agents, NEW c \in Conns, AssignTo(b, c),
             UNCHANGED <<agents, catalog, enabled, requests, overlapped>>
      PROVE  Kept
  <2>1. /\ grants' = grants \cup ({b} \X (ToolsOf(c) \cap enabled))
        /\ ({b} \X (ToolsOf(c) \cap enabled \cap Locked)) \subseteq grants
    BY <1>6 DEF AssignTo
  <2>2. decision'[a][t] = IF a = b /\ t \in ToolsOf(c) THEN "granted" ELSE decision[a][t]
    BY <1>3, <1>6 DEF AssignTo, Inv, TypeOK, ToolsOf
  <2>3. a = b /\ t \in ToolsOf(c) => <<a, t>> \in grants
    BY <1>3, <1>6, <2>1
  <2>4. <<a, t>> \in grants' <=> <<a, t>> \in grants
    BY <1>3, <1>6, <2>1, <2>3
  <2> HIDE DEF t
  <2> QED BY <1>3, <1>6, <2>2, <2>3, <2>4
<1>7. ASSUME NEW b \in Agents, DeleteAgent(b) PROVE Kept
  <2>1. requests'[h] = requests[h] /\ agents' \subseteq agents /\ a # b
    BY <1>7 DEF DeleteAgent
  <2>2. decision'[a][t] = decision[a][t] /\ overlapped' = overlapped
    BY <1>7, <1>3, <2>1 DEF DeleteAgent, Decide, Inv, TypeOK
  <2>3. <<a, t>> \in grants' <=> <<a, t>> \in grants
    BY <1>7, <2>1 DEF DeleteAgent
  <2> HIDE DEF t
  <2> QED BY <1>3, <2>1, <2>2, <2>3
<1>8. ASSUME NEW b \in Agents, NEW c \in Conns, UnassignConnection(b, c) PROVE Kept
  <2>1. requests'[h] = requests[h] /\ agents' = agents
    BY <1>8 DEF UnassignConnection
  <2>2. decision'[a][t] = IF a = b /\ t \in ToolsOf(c) THEN "withheld" ELSE decision[a][t]
    BY <1>8, <1>3, <2>1 DEF UnassignConnection, Decide, Inv, TypeOK
  <2>3. /\ grants' = grants \ ({b} \X ToolsOf(c))
        /\ overlapped' = (overlapped \ ({b} \X ToolsOf(c))) \cup (Promised \cap ({b} \X ToolsOf(c)))
    BY <1>8 DEF UnassignConnection, Overlapped
  <2> HIDE DEF t
  <2> QED BY <1>3, <2>1, <2>2, <2>3
<1>9. ASSUME NEW b \in Agents, NEW visible \in SUBSET catalog \ {{}},
             NEW granted \in SUBSET visible, SetVisibleGrants(b, visible, granted)
      PROVE  Kept
  <2> DEFINE shown == visible \cap catalog
             ticked == granted \cap shown \cap enabled
  <2>1. /\ requests'[h] = requests[h] /\ agents' = agents
        /\ ticked \cap Locked = {}
        /\ grants' = (grants \ ({b} \X shown)) \cup ({b} \X ticked)
        /\ overlapped' = (overlapped \ ({b} \X shown)) \cup (Promised \cap ({b} \X (shown \ granted)))
        /\ decision' = [decision EXCEPT ![b] = PageDecision(b, shown, granted)]
    BY <1>9 DEF SetVisibleGrants, Overlapped
  <2>2. t \in shown => t \notin granted
    BY <1>3, <2>1
  <2>3. decision'[a][t] = IF a = b /\ t \in shown THEN "withheld" ELSE decision[a][t]
    BY <1>3, <2>1, <2>2 DEF PageDecision, Inv, TypeOK
  <2> HIDE DEF t, shown
  <2> QED BY <1>3, <2>1, <2>2, <2>3
<1>10. ASSUME NEW k \in Handlers, NEW names \in SUBSET Names, RefreshTools(k, names)
       PROVE  requests'[h] = requests[h] /\ agents' = agents /\ Kept
  <2>1. h # k /\ requests'[h] = requests[h] /\ agents' = agents
    BY <1>10 DEF RefreshTools, Outcome, Inv, TypeOK, Request
  <2>2. t \notin {requests[k].conn} \X names
    BY <1>3, <1>10, <2>1 DEF RefreshTools, Inv, RequestsOK, ToolOf
  <2>3. /\ grants' = grants \cup AssigneeGrants({requests[k].conn} \X names)
        /\ UNCHANGED <<decision, overlapped>>
    BY <1>10 DEF RefreshTools, GrantsAfter
  <2>4. <<a, t>> \in grants' <=> <<a, t>> \in grants
    BY <2>2, <2>3, AssigneeGrantsOf
  <2> HIDE DEF t
  <2> QED BY <1>3, <2>1, <2>3, <2>4
<1>11. ASSUME NEW k \in Handlers, CreateTool(k) \/ EnsureCommandTool(k)
       PROVE  requests'[h] = requests[h] /\ agents' = agents /\ Kept
  <2>1. PICK u \in Tools \ catalog :
          /\ grants' = grants \cup AssigneeGrants({u})
          /\ UNCHANGED <<agents, assigned, decision, overlapped>>
          /\ requests' = [requests EXCEPT ![k] = Idle]
    BY <1>11, PutToolAccess
  <2>2. h # k /\ requests'[h] = requests[h]
    BY <2>1, IdleRequest DEF Inv, TypeOK
  <2>3. t # u
    BY <1>3, <2>1, <2>2
  <2>4. <<a, t>> \in grants' <=> <<a, t>> \in grants
    <3>1. AssigneeGrants({u}) \subseteq agents \X {u}
      BY GivenToAssignees
    <3>2. <<a, t>> \notin agents \X {u}
      BY <2>3
    <3> HIDE DEF t
    <3> QED BY <2>1, <3>1, <3>2
  <2> HIDE DEF t
  <2> QED BY <1>3, <2>1, <2>2, <2>4
<1>12. ASSUME NEW k \in Handlers, GrantCommandTool(k)
       PROVE  requests'[h] = requests[h] /\ agents' = agents /\ Kept
  <2>1. /\ requests[k].op = "grant" /\ UNCHANGED <<agents, decision, overlapped>>
        /\ grants' = grants \cup ((agents \cap requests[k].agents) \X {ToolOf(k)})
        /\ requests' = [requests EXCEPT ![k] = Idle]
    BY <1>12, GrantAccess
  <2>2. h # k /\ requests'[h] = requests[h]
    BY <2>1, IdleRequest DEF Inv, TypeOK
  <2>3. t # ToolOf(k)
    BY <1>3, <2>1, <2>2 DEF Inv, LocksOK
  <2>4. <<a, t>> \in grants' <=> <<a, t>> \in grants
    BY <2>1, <2>3
  <2> HIDE DEF t
  <2> QED BY <1>3, <2>1, <2>2, <2>4
<1>13. ASSUME NEW k \in Handlers, Abandon(k)
       PROVE  requests'[h] = requests[h] /\ agents' = agents /\ Kept
  <2>1. /\ UNCHANGED <<agents, decision, grants>>
        /\ overlapped' = overlapped \ (requests[k].agents \X {ToolOf(k)})
        /\ requests' = [requests EXCEPT ![k] = Idle]
    BY <1>13 DEF Abandon
  <2>2. h # k /\ requests'[h] = requests[h]
    BY <2>1, IdleRequest DEF Inv, TypeOK
  <2>3. requests[k].op = "grant" => t # ToolOf(k)
    BY <1>3, <2>1, <2>2 DEF Inv, LocksOK
  <2>4. requests[k].op # "grant" => requests[k].agents = {}
    BY DEF Inv, RequestsOK
  <2>5. <<a, t>> \in overlapped' <=> <<a, t>> \in overlapped
    BY <2>1, <2>3, <2>4
  <2> HIDE DEF t
  <2> QED BY <1>3, <2>1, <2>2, <2>5
<1>14. \/ UpdateCommandTool(h)
       \/ UNCHANGED access /\ requests'[h] = requests[h]
       \/ requests'[h] = requests[h] /\ agents' \subseteq agents /\ Kept
  <2>1. ASSUME NEW k \in Handlers,
               \/ \E c \in Conns : RunCheck(k, c)
               \/ RefreshNotSaved(k) \/ SaveCheck(k)
               \/ \E r \in LiveStatus : CheckOutcome(k, r)
               \/ \E c \in Conns, n \in Names, op \in Ops : BeginDeclare(k, c, n, op)
        PROVE  UNCHANGED access /\ requests'[h] = requests[h]
    <3>1. UNCHANGED access
      BY <2>1 DEF RunCheck, RefreshNotSaved, SaveCheck, CheckOutcome, BeginDeclare, access
    <3>2. CASE \/ \E c \in Conns : RunCheck(k, c)
               \/ \E c \in Conns, n \in Names, op \in Ops : BeginDeclare(k, c, n, op)
      <4>1. requests'[k].op # "grant" /\ \A m \in Handlers \ {k} : requests'[m] = requests[m]
        BY <3>2, BegunOK DEF Inv
      <4> QED BY <3>1, <4>1
    <3>3. CASE SaveCheck(k)
      <4>1. requests' = [requests EXCEPT ![k] = Idle]
        BY <3>3 DEF SaveCheck
      <4> QED BY <3>1, <4>1, IdleRequest DEF Inv, TypeOK
    <3>4. CASE RefreshNotSaved(k) \/ \E r \in LiveStatus : CheckOutcome(k, r)
      <4>1. PICK r : Outcome(k, r)
        BY <3>4 DEF RefreshNotSaved, CheckOutcome
      <4>2. requests'[k].op # "grant" /\ \A m \in Handlers \ {k} : requests'[m] = requests[m]
        BY <4>1 DEF Outcome, Inv, TypeOK, Request
      <4> QED BY <3>1, <4>2
    <3> QED BY <2>1, <3>2, <3>3, <3>4
  <2>2. ASSUME NEW k \in Handlers, UpdateCommandTool(k), k # h
        PROVE  UNCHANGED access /\ requests'[h] = requests[h]
    BY <2>2 DEF UpdateCommandTool, access, Inv, TypeOK
  <2>3. CASE Server
    BY <2>3, <2>1, <2>2, <1>10, <1>11, <1>12, <1>13 DEF Server
  <2>4. CASE UNCHANGED requests
    <3>1. \/ UNCHANGED access
          \/ /\ agents' \subseteq agents
             /\ Kept
      <4>1. requests'[h] = requests[h]
        BY <2>4
      <4>2. ASSUME NEW c \in Conns, DeleteConnection(c) PROVE Kept /\ agents' = agents
        BY <4>2, <1>5 DEF DeleteConnection
      <4>3. ASSUME NEW u \in Tools, DeleteTool(u) PROVE Kept /\ agents' = agents
        BY <4>3, <1>5 DEF DeleteTool
      <4>4. ASSUME NEW b \in Agents, DeleteAgent(b) PROVE Kept /\ agents' \subseteq agents
        BY <4>4, <1>7 DEF DeleteAgent
      <4>5. ASSUME NEW b \in Agents, NEW c \in Conns, UnassignConnection(b, c)
            PROVE  Kept /\ agents' = agents
        BY <4>5, <1>8 DEF UnassignConnection
      <4>6. ASSUME NEW b \in Agents, NEW visible \in SUBSET catalog \ {{}},
                   NEW granted \in SUBSET visible, SetVisibleGrants(b, visible, granted)
            PROVE  Kept /\ agents' = agents
        BY <4>6, <1>9 DEF SetVisibleGrants
      <4> HIDE DEF Kept
      <4> QED BY AccessSteps, <4>1, <4>2, <4>3, <4>4, <4>5, <4>6, <1>6, <1>10, <1>11, <1>12, <1>13
    <3> QED BY <2>4, <3>1
  <2>5. Server \/ UNCHANGED requests
    BY DEF Next, Operator, CreateConnection, UpdateConnection, SetConnectionEnabled,
       DeleteConnection, ImportConnection, DeleteAgent, AssignConnection,
       UnassignConnection, SetVisibleGrants, DeleteTool, vars
  <2> QED BY <2>3, <2>4, <2>5
<1> QED BY <1>1, <1>2, <1>4, <1>14

AccessInv == AssignedHoldsEveryEnabledTool /\ WithheldIsUnassigned /\ PromisesOK

LEMMA AccessAlways == Spec => [](Inv /\ AccessInv)
<1>1. Init => AccessInv
  BY IdleRequest DEF Init, AccessInv, AssignedHoldsEveryEnabledTool, WithheldIsUnassigned, PromisesOK
<1>2. Inv /\ AccessInv /\ [Next]_vars => AccessInv'
  BY AssignedHoldsNext, WithheldNext, PromisesNext DEF AccessInv
<1> QED BY <1>1, <1>2, InvAlways, PTL DEF Spec

\* What the operator withheld is never granted again behind their back: it lies
\* on a connection the agent is not assigned, and only an assignment lets a
\* refresh or a definition grant (SetVisibleGrants's comment).  Only an update
\* that read the assignment before it ended grants what it has read.
THEOREM Withheld == Spec => []WithheldStaysWithheld
<1>1. AccessInv => WithheldStaysWithheld
  BY DEF AccessInv, WithheldIsUnassigned, WithheldStaysWithheld
<1> QED BY <1>1, AccessAlways, PTL

LEMMA ChosenNext == Inv /\ ChosenStaysGranted /\ [Next]_vars => ChosenStaysGranted'
<1> SUFFICES ASSUME Inv, ChosenStaysGranted, [Next]_vars PROVE ChosenStaysGranted'
  OBVIOUS
<1> USE DEF ChosenStaysGranted
<1>1. CASE UNCHANGED access
  BY <1>1 DEF access
<1>2. ASSUME NEW c \in Conns, DeleteConnection(c) PROVE ChosenStaysGranted'
  BY <1>2 DEF DeleteConnection, RemoveTools, OtherAssignments, ToolsOf, Inv, TypeOK
<1>3. ASSUME NEW a \in agents, NEW c \in Conns, AssignTo(a, c),
             UNCHANGED <<agents, catalog, enabled, requests, overlapped>>
      PROVE  ChosenStaysGranted'
  BY <1>3 DEF AssignTo, ToolsOf, Inv, TypeOK
<1>4. ASSUME NEW a \in Agents, DeleteAgent(a) PROVE ChosenStaysGranted'
  BY <1>4 DEF DeleteAgent, Decide, Inv, TypeOK
<1>5. ASSUME NEW a \in Agents, NEW c \in Conns, UnassignConnection(a, c) PROVE ChosenStaysGranted'
  BY <1>5 DEF UnassignConnection, Decide, ToolsOf, Inv, TypeOK
<1>6. ASSUME NEW a \in Agents, NEW visible \in SUBSET catalog \ {{}},
             NEW granted \in SUBSET visible, SetVisibleGrants(a, visible, granted)
      PROVE  ChosenStaysGranted'
  BY <1>6 DEF SetVisibleGrants, IndividualAccess, PageDecision, Inv, TypeOK
<1>7. ASSUME NEW t \in Tools, DeleteTool(t) PROVE ChosenStaysGranted'
  BY <1>7 DEF DeleteTool, RemoveTools, Inv, TypeOK
<1>8. ASSUME NEW h \in Handlers, NEW names \in SUBSET Names, RefreshTools(h, names)
      PROVE  ChosenStaysGranted'
  BY <1>8, RefreshAccess DEF AssigneeGrants, ToolsOf, Inv, TypeOK, Tools
<1>9. ASSUME NEW h \in Handlers, CreateTool(h) \/ EnsureCommandTool(h) PROVE ChosenStaysGranted'
  BY <1>9, PutToolAccess DEF AssigneeGrants, Inv, TypeOK
<1>10. ASSUME NEW h \in Handlers, GrantCommandTool(h) PROVE ChosenStaysGranted'
  BY <1>10, GrantAccess
<1>11. ASSUME NEW h \in Handlers, Abandon(h) PROVE ChosenStaysGranted'
  BY <1>11 DEF Abandon
<1> QED
  BY AccessSteps, <1>1, <1>2, <1>3, <1>4, <1>5, <1>6, <1>7, <1>8, <1>9, <1>10, <1>11

\* What the operator granted is never lost to a refresh or a definition: only
\* the operator's own later decision or a deletion ends it.
THEOREM Chosen == Spec => []ChosenStaysGranted
<1>1. Init => ChosenStaysGranted
  BY DEF Init, ChosenStaysGranted
<1> QED BY <1>1, ChosenNext, InvAlways, PTL DEF Spec

\* A grant appears only by the operator's choice or by an assignment, which an
\* update may have read before it ended.
THEOREM GrantsAreJustified == Spec => NewGrantsAreJustified
<1> USE DEF GrantsJustified
<1>1. ASSUME Inv, AccessInv, [Next]_vars PROVE GrantsJustified
  <2>1. CASE UNCHANGED access
    BY <2>1 DEF access
  <2>2. ASSUME NEW c \in Conns, DeleteConnection(c) PROVE GrantsJustified
    BY <2>2 DEF DeleteConnection, RemoveTools
  <2>3. ASSUME NEW a \in agents, NEW c \in Conns, AssignTo(a, c) PROVE GrantsJustified
    BY <2>3 DEF AssignTo, ToolsOf
  <2>4. ASSUME NEW a \in Agents, DeleteAgent(a) PROVE GrantsJustified
    BY <2>4 DEF DeleteAgent
  <2>5. ASSUME NEW a \in Agents, NEW c \in Conns, UnassignConnection(a, c) PROVE GrantsJustified
    BY <2>5 DEF UnassignConnection
  <2>6. ASSUME NEW a \in Agents, NEW visible \in SUBSET catalog \ {{}},
               NEW granted \in SUBSET visible, SetVisibleGrants(a, visible, granted)
        PROVE  GrantsJustified
    <3> DEFINE ticked == granted \cap visible \cap catalog \cap enabled
    <3>1. \A p \in grants' \ grants : p \in {a} \X ticked
      <4>1. grants' = (grants \ ({a} \X (visible \cap catalog))) \cup
                      ({a} \X (granted \cap (visible \cap catalog) \cap enabled))
        BY <2>6 DEF SetVisibleGrants
      <4>2. granted \cap (visible \cap catalog) \cap enabled = ticked
        OBVIOUS
      <4> HIDE DEF ticked
      <4> QED BY <4>1, <4>2
    <3>2. \A t \in ticked : decision'[a][t] = "granted"
      <4>1. decision' = [decision EXCEPT ![a] = PageDecision(a, visible \cap catalog, granted)]
        BY <2>6 DEF SetVisibleGrants
      <4>2. \A t \in ticked : PageDecision(a, visible \cap catalog, granted)[t] = "granted"
        BY <1>1 DEF PageDecision, Inv, TypeOK
      <4> QED BY <1>1, <4>1, <4>2 DEF Inv, TypeOK
    <3>3. \A p \in {a} \X ticked : p[1] = a /\ p[2] \in ticked
      OBVIOUS
    <3> QED BY <3>1, <3>2, <3>3
  <2>7. ASSUME NEW t \in Tools, DeleteTool(t) PROVE GrantsJustified
    BY <2>7 DEF DeleteTool, RemoveTools
  <2>8. ASSUME NEW h \in Handlers, NEW names \in SUBSET Names, RefreshTools(h, names)
        PROVE  GrantsJustified
    BY <2>8 DEF RefreshTools, GrantsAfter, AssigneeGrants
  <2>9. ASSUME NEW h \in Handlers, CreateTool(h) \/ EnsureCommandTool(h) PROVE GrantsJustified
    BY <2>9 DEF CreateTool, EnsureCommandTool, PutTool, AssigneeGrants
  <2>10. ASSUME NEW h \in Handlers, GrantCommandTool(h) PROVE GrantsJustified
    <3>1. /\ requests[h].op = "grant" /\ UNCHANGED <<agents, assigned, decision>>
          /\ grants' = grants \cup ((agents \cap requests[h].agents) \X {ToolOf(h)})
      BY <1>1, <2>10, GrantAccess
    <3>2. \A a \in agents \cap requests[h].agents :
            <<a, ToolOf(h)>> \notin grants => <<a, ToolOf(h)>> \in overlapped
      BY <1>1, <3>1 DEF AccessInv, PromisesOK
    <3>3. \A a \in requests[h].agents : <<a, ToolOf(h)>> \in Promised
      BY DEF Promised
    <3> QED BY <3>1, <3>2, <3>3
  <2>11. ASSUME NEW h \in Handlers, Abandon(h) PROVE GrantsJustified
    BY <2>11 DEF Abandon
  <2> QED
    BY <1>1, AccessSteps, <2>1, <2>2, <2>3, <2>4, <2>5, <2>6, <2>7, <2>8, <2>9, <2>10, <2>11
<1>2. Inv /\ AccessInv /\ [Next]_vars => [GrantsJustified]_vars
  BY <1>1
<1> HIDE DEF GrantsJustified
<1> QED BY <1>2, AccessAlways, PTL DEF Spec, NewGrantsAreJustified

-----------------------------------------------------------------------------
(* Names.  A name can differ from the slug only through a request that      *)
(* still holds the slug of before a rename.                                 *)

HoldersAreCurrent ==
  \A h \in Holding : LET c == requests[h].conn
                     IN c \notin raced /\ Live(c) => requests[h].slug = slug[c]

NamesInv == NamesFollowSlugUnlessRaced /\ HoldersAreCurrent

\* The steps that neither rename nor write a name nor read a slug.
LEMMA NamesFrame ==
  ASSUME Inv, NamesInv,
         UNCHANGED <<slug, raced>>, catalog' \subseteq catalog,
         \A t \in catalog' : exposed'[t] = exposed[t],
         \A c \in Conns : Live(c)' => Live(c),
         \A h \in Handlers :
           \/ requests'[h] = requests[h]
           \/ requests'[h].op \notin {"check", "define", "ensure", "grant"}
  PROVE  NamesInv'
<1>1. NamesFollowSlugUnlessRaced'
  BY DEF NamesInv, NamesFollowSlugUnlessRaced
<1>2. HoldersAreCurrent'
  BY DEF NamesInv, HoldersAreCurrent, Holding, Inv, RequestsOK
<1> QED BY <1>1, <1>2 DEF NamesInv

LEMMA NamesNext == Inv /\ NamesInv /\ [Next]_vars => NamesInv'
<1> SUFFICES ASSUME Inv, NamesInv, [Next]_vars PROVE NamesInv'
  OBVIOUS
<1>1. ASSUME NEW c \in Conns, NEW s \in Slugs, status[c] = "absent",
             status' = [status EXCEPT ![c] = "unchecked"],
             slug' = [slug EXCEPT ![c] = s],
             UNCHANGED <<catalog, exposed, requests, raced>>
      PROVE  NamesInv'
  <2>1. ~Live(c) /\ \A d \in Conns \ {c} : Live(d)' <=> Live(d)
    BY <1>1 DEF Live, LiveStatus, Inv, TypeOK
  <2>2. NamesFollowSlugUnlessRaced'
    BY <1>1, <2>1 DEF NamesInv, NamesFollowSlugUnlessRaced, Inv, TypeOK, Tools
  <2>3. HoldersAreCurrent'
    BY <1>1, <2>1 DEF NamesInv, HoldersAreCurrent, Holding, Inv, TypeOK, RequestsOK
  <2> QED BY <2>2, <2>3 DEF NamesInv
<1>2. ASSUME NEW c \in Conns, NEW s \in Slugs, UpdateConnection(c, s)
      PROVE  NamesInv'
  <2>1. NamesFollowSlugUnlessRaced'
    BY <1>2 DEF UpdateConnection, RenamedTools, ToolsOf, NamesInv,
                NamesFollowSlugUnlessRaced, Inv, TypeOK, Tools
  <2>2. HoldersAreCurrent'
    BY <1>2 DEF UpdateConnection, NamesInv, HoldersAreCurrent, Holding, Live, Inv, TypeOK, RequestsOK
  <2> QED BY <2>1, <2>2 DEF NamesInv
<1>3. ASSUME NEW c \in Conns, NEW on \in BOOLEAN, SetConnectionEnabled(c, on)
      PROVE  NamesInv'
  <2>1. \A d \in Conns : Live(d)' => Live(d)
    BY <1>3 DEF SetConnectionEnabled, Live, Inv, TypeOK
  <2> QED BY <1>3, <2>1, NamesFrame DEF SetConnectionEnabled
<1>4. ASSUME NEW c \in Conns, DeleteConnection(c)
      PROVE  NamesInv'
  <2>1. ~Live(c)' /\ \A d \in Conns \ {c} : Live(d)' <=> Live(d)
    BY <1>4 DEF DeleteConnection, Live, LiveStatus, Inv, TypeOK
  <2>2. NamesFollowSlugUnlessRaced'
    BY <1>4 DEF DeleteConnection, RemoveTools, ToolsOf, NamesInv,
                NamesFollowSlugUnlessRaced, Inv, TypeOK, Tools
  <2>3. HoldersAreCurrent'
    BY <1>4, <2>1 DEF DeleteConnection, NamesInv, HoldersAreCurrent, Holding, Inv, TypeOK, RequestsOK
  <2> QED BY <2>2, <2>3 DEF NamesInv
<1>5. ASSUME UNCHANGED <<status, slug, catalog, exposed, requests, raced>>
      PROVE  NamesInv'
  BY <1>5, NamesFrame DEF Live
<1>6. ASSUME NEW t \in Tools, DeleteTool(t) PROVE NamesInv'
  BY <1>6, NamesFrame DEF DeleteTool, RemoveTools, Live, Inv, TypeOK
<1>7. ASSUME NEW h \in Handlers, NEW c \in Conns,
             requests'[h].conn = c, requests'[h].slug = slug[c],
             \A k \in Handlers \ {h} : requests'[k] = requests[k],
             UNCHANGED <<status, slug, catalog, exposed, raced>>
      PROVE  NamesInv'
  BY <1>7 DEF NamesInv, NamesFollowSlugUnlessRaced, HoldersAreCurrent, Holding, Live
<1>8. ASSUME NEW h \in Handlers, NEW r \in LiveStatus, Outcome(h, r),
             requests[h].op = "check",
             UNCHANGED <<status, slug, catalog, exposed, raced>>
      PROVE  NamesInv'
  <2>1. \A k \in Handlers : requests'[k] = requests[k] \/ requests'[k].op = "save"
    BY <1>8 DEF Outcome, Inv, TypeOK, Request
  <2> QED BY <1>8, <2>1, NamesFrame DEF Live
<1>9. ASSUME NEW h \in Handlers, requests' = [requests EXCEPT ![h] = Idle],
             \A c \in Conns : Live(c)' => Live(c),
             UNCHANGED <<slug, catalog, exposed, raced>>
      PROVE  NamesInv'
  BY <1>9, NamesFrame, IdleRequest DEF Inv, TypeOK
<1>10. ASSUME NEW h \in Handlers, NEW names \in SUBSET Names, RefreshTools(h, names)
       PROVE  NamesInv'
  <2> DEFINE c == requests[h].conn
             found == {c} \X names
  <2>1. \A k \in Handlers : requests'[k] = requests[k] \/ requests'[k].op = "save"
    BY <1>10 DEF RefreshTools, Outcome, Inv, TypeOK, Request
  <2>2. HoldersAreCurrent'
    BY <1>10, <2>1 DEF RefreshTools, NamesInv, HoldersAreCurrent, Holding, Live
  <2>3. found # {} /\ c \notin raced => requests[h].slug = slug[c]
    BY <1>10 DEF RefreshTools, NamesInv, HoldersAreCurrent, Holding
  <2>4. NamesFollowSlugUnlessRaced'
    <3>1. /\ catalog' = catalog \cup found /\ UNCHANGED <<slug, raced>>
          /\ exposed' = [t \in Tools |-> IF t \in found THEN requests[h].slug ELSE exposed[t]]
      BY <1>10 DEF RefreshTools, ExposedAfter
    <3>2. catalog \subseteq Tools /\ found \subseteq Tools
      BY <1>10 DEF RefreshTools, Inv, TypeOK, RequestsOK, Tools
    <3>3. \A t \in found : t[1] = c
      OBVIOUS
    <3> QED BY <2>3, <3>1, <3>2, <3>3 DEF NamesInv, NamesFollowSlugUnlessRaced
  <2> QED BY <2>2, <2>4 DEF NamesInv
<1>11. ASSUME NEW h \in Handlers, NEW t \in Tools, NEW G, PutTool(h, t, G),
              t[1] = requests[h].conn, requests[h].op \in {"define", "ensure", "grant"}
       PROVE  NamesInv'
  <2>1. \A k \in Handlers : requests'[k] = requests[k] \/ requests'[k].op = "idle"
    BY <1>11, IdleRequest DEF PutTool, Inv, TypeOK
  <2>2. HoldersAreCurrent'
    BY <1>11, <2>1 DEF PutTool, NamesInv, HoldersAreCurrent, Holding, Live
  <2>3. t[1] \notin raced => requests[h].slug = slug[t[1]]
    BY <1>11 DEF PutTool, NamesInv, HoldersAreCurrent, Holding
  <2>4. NamesFollowSlugUnlessRaced'
    BY <1>11, <2>3 DEF PutTool, NamesInv, NamesFollowSlugUnlessRaced, Inv, TypeOK
  <2> QED BY <2>2, <2>4 DEF NamesInv
<1>12. CASE Operator
  <2>1. ASSUME NEW c \in Conns, NEW s \in Slugs, CreateConnection(c, s) PROVE NamesInv'
    BY <2>1, <1>1 DEF CreateConnection
  <2>2. ASSUME NEW a \in Agents, NEW c \in Conns, NEW s \in Slugs, ImportConnection(a, c, s)
        PROVE  NamesInv'
    BY <2>2, <1>1, <1>5 DEF ImportConnection
  <2>3. ASSUME NEW a \in Agents, NEW c \in Conns,
               AssignConnection(a, c) \/ UnassignConnection(a, c)
        PROVE  NamesInv'
    BY <2>3, <1>5 DEF AssignConnection, UnassignConnection
  <2>4. ASSUME NEW a \in Agents, DeleteAgent(a) PROVE NamesInv'
    BY <2>4, <1>5 DEF DeleteAgent
  <2>5. ASSUME NEW a \in Agents, NEW visible \in SUBSET catalog \ {{}},
               NEW granted \in SUBSET visible, SetVisibleGrants(a, visible, granted)
        PROVE  NamesInv'
    BY <2>5, <1>5 DEF SetVisibleGrants
  <2> QED BY <1>12, <2>1, <2>2, <2>3, <2>4, <2>5, <1>2, <1>3, <1>4, <1>6 DEF Operator
<1>13. CASE Server
  <2>1. ASSUME NEW h \in Handlers, NEW c \in Conns, RunCheck(h, c) PROVE NamesInv'
    <3>1. /\ requests'[h].conn = c /\ requests'[h].slug = slug[c]
          /\ \A k \in Handlers \ {h} : requests'[k] = requests[k]
      BY <2>1 DEF RunCheck, Idle, Inv, TypeOK
    <3> QED BY <2>1, <3>1, <1>7 DEF RunCheck
  <2>2. ASSUME NEW h \in Handlers, RefreshNotSaved(h) PROVE NamesInv'
    BY <2>2, <1>8 DEF RefreshNotSaved, LiveStatus
  <2>3. ASSUME NEW h \in Handlers, NEW r \in LiveStatus, CheckOutcome(h, r) PROVE NamesInv'
    BY <2>3, <1>8 DEF CheckOutcome
  <2>4. ASSUME NEW h \in Handlers, SaveCheck(h) PROVE NamesInv'
    <3>1. \A c \in Conns : Live(c)' => Live(c)
      BY <2>4 DEF SaveCheck, Live, Inv, TypeOK
    <3> QED BY <2>4, <3>1, <1>9 DEF SaveCheck
  <2>5. ASSUME NEW h \in Handlers, Abandon(h) PROVE NamesInv'
    BY <2>5, <1>9 DEF Abandon, Live
  <2>6. ASSUME NEW h \in Handlers, NEW c \in Conns, NEW n \in Names, NEW op \in Ops,
               BeginDeclare(h, c, n, op)
        PROVE  NamesInv'
    <3>1. /\ requests'[h].conn = c /\ requests'[h].slug = slug[c]
          /\ \A k \in Handlers \ {h} : requests'[k] = requests[k]
      BY <2>6 DEF BeginDeclare, Idle, Inv, TypeOK
    <3> QED BY <2>6, <3>1, <1>7 DEF BeginDeclare
  <2>7. ASSUME NEW h \in Handlers, CreateTool(h) \/ EnsureCommandTool(h) \/ GrantCommandTool(h)
        PROVE  NamesInv'
    <3>1. ToolOf(h) \in Tools /\ ToolOf(h)[1] = requests[h].conn
      BY <2>7, ToolOfOK DEF CreateTool, EnsureCommandTool, GrantCommandTool, Inv, ToolOf
    <3> QED BY <2>7, <3>1, <1>11 DEF CreateTool, EnsureCommandTool, GrantCommandTool
  <2>8. ASSUME NEW h \in Handlers, UpdateCommandTool(h) PROVE NamesInv'
    <3>1. /\ UNCHANGED <<status, slug, catalog, exposed, raced>>
          /\ \A k \in Handlers \ {h} : requests'[k] = requests[k]
          /\ requests'[h].conn = requests[h].conn /\ requests'[h].slug = requests[h].slug
          /\ requests[h].op = "ensure"
      BY <2>8 DEF UpdateCommandTool, Inv, TypeOK, Request
    <3> QED BY <3>1 DEF NamesInv, NamesFollowSlugUnlessRaced, HoldersAreCurrent, Holding, Live
  <2> QED BY <1>13, <2>1, <2>2, <2>3, <2>4, <2>5, <2>6, <2>7, <2>8, <1>10 DEF Server
<1>14. CASE UNCHANGED vars
  BY <1>14, <1>5 DEF vars
<1> QED BY <1>12, <1>13, <1>14 DEF Next

\* Without a request that had read the old slug, a rename leaves no tool behind,
\* and nothing else changes the slug in a name.
THEOREM NamesFollow == Spec => []NamesFollowSlugUnlessRaced
<1>1. Init => NamesInv
  BY IdleRequest DEF Init, NamesInv, NamesFollowSlugUnlessRaced, HoldersAreCurrent, Holding
<1>2. NamesInv => NamesFollowSlugUnlessRaced
  BY DEF NamesInv
<1> QED BY <1>1, <1>2, NamesNext, InvAlways, PTL DEF Spec
=============================================================================
