------------------------------ MODULE ToolCalls ------------------------------
(***************************************************************************)
(* The MCP endpoint: an agent lists its tools page by page and calls them,*)
(* while grants and its token come and go.  A call is authorized, sent to *)
(* the tool's upstream and audited.  The upstream is an MCP server behind *)
(* HTTP, which may open a session, an MCP server run as a process, an HTTP*)
(* API or a command.  Requests over HTTP are repeated after the statuses  *)
(* 429 and 503, answers may be lost, and the client may go at any time,   *)
(* which cancels the context all of this runs in.                          *)
(***************************************************************************)
EXTENDS Naturals, FiniteSets

CONSTANTS
  Calls,     \* tool calls that are served at the same time
  LastTool,  \* tools are the numbers to this one, in the order of their names
  PageSize,  \* tools on a page, 200 in listTools
  Attempts,  \* sendings of a request, 4 in DoWithRetry
  None       \* no row

Tools == 1 .. LastTool

VARIABLES
  live,     \* the agent is active and its token not revoked
  visible,  \* the tools granted to it, enabled, of connections not disabled
  call,     \* the calls
  list      \* the agent's listing

vars == <<live, visible, call, list>>

-----------------------------------------------------------------------------
Kinds == {"mcp", "stdio", "http", "command"}
Steps == {"discover", "initialize", "notify", "call", "closed", "unclosed"}
Decisions == {"denied", "error", "allowed"}

ASSUME ToolCallsAssumption ==
  /\ LastTool \in Nat \ {0}
  /\ PageSize \in Nat \ {0}
  /\ Attempts \in Nat \ {0}
  /\ None \notin Decisions \cup {"lost"}

Call ==
  [at       : {"idle", "arrived", "authorized", "asking", "backoff", "closing",
               "audit", "over"},
   tool     : Tools,
   kind     : Kinds,
   step     : Steps,                            \* what is asked, or was last
   attempt  : 1 .. Attempts,
   open     : SUBSET {"session", "dropped", "probe", "process"}, \* for the call
   gone     : BOOLEAN,                          \* the client
   decision : Decisions,
   row      : Decisions \cup {None, "lost"},    \* in audit_events
   offered  : BOOLEAN,  \* history: the tool was visible since the call arrived
   ran      : Nat]      \* history: how often the upstream ran the tool

Listing ==
  [at      : {"idle", "paging", "complete"},
   offset  : 0 .. LastTool,  \* the cursor
   got     : SUBSET Tools,   \* on the pages so far
   steady  : SUBSET Tools,   \* history: visible since the listing began
   slipped : BOOLEAN]        \* history: a tool the cursor had passed disappeared

Idle == [at |-> "idle", tool |-> 1, kind |-> "http", step |-> "call", attempt |-> 1,
         open |-> {}, gone |-> FALSE, decision |-> "denied", row |-> None,
         offered |-> FALSE, ran |-> 0]

NoList == [at |-> "idle", offset |-> 0, got |-> {}, steady |-> {}, slipped |-> FALSE]

Init ==
  /\ live = TRUE
  /\ visible \in SUBSET Tools
  /\ call = [c \in Calls |-> Idle]
  /\ list = NoList

Become(c, rec) == call' = [call EXCEPT ![c] = rec] /\ UNCHANGED <<live, visible, list>>

-----------------------------------------------------------------------------
(* The operator                                                            *)

\* Where a visible tool is in the catalog, which is in the order of the names.
Position(t) == Cardinality({u \in visible : u <= t})

\* A tool is granted, enabled or resumed, or the reverse.
SetVisible(t) ==
  LET now == IF t \in visible THEN visible \ {t} ELSE visible \cup {t}
      passed == t \in visible /\ Position(t) <= list.offset
  IN /\ visible' = now
     /\ call' = [c \in Calls |->
          [call[c] EXCEPT !.offered = @ \/ (call[c].at # "idle" /\ call[c].tool \in now)]]
     /\ list' = IF list.at # "paging" THEN list
                ELSE [list EXCEPT !.steady = @ \cap now, !.slipped = @ \/ passed]
     /\ UNCHANGED live

\* The token is revoked or the agent disabled, or the reverse.
SetLive(on) ==
  /\ live' = on
  /\ UNCHANGED <<visible, call, list>>

-----------------------------------------------------------------------------
(* Listing                                                                 *)

BeginList ==
  /\ list.at # "paging"
  /\ list' = [NoList EXCEPT !.at = "paging", !.steady = visible]
  /\ UNCHANGED <<live, visible, call>>

\* A cursor that skips a tool.
PastPage(end) == end + 1

\* The cursor is the offset the last page ended at.
NextCursor(end) == end

ListTools ==
  /\ list.at = "paging"
  /\ live
  /\ LET n == Cardinality(visible)
         end == IF list.offset + PageSize > n THEN n ELSE list.offset + PageSize
         page == {t \in visible : Position(t) \in list.offset + 1 .. end}
     IN list' =
          IF list.offset > n THEN NoList
          ELSE [list EXCEPT !.got = @ \cup page,
                            !.offset = IF end < n THEN NextCursor(end) ELSE @,
                            !.at = IF end < n THEN "paging" ELSE "complete"]
  /\ UNCHANGED <<live, visible, call>>

-----------------------------------------------------------------------------
(* Calling: authorization                                                  *)

Arrive(c, t) ==
  /\ call[c] = Idle
  /\ live
  /\ Become(c, [Idle EXCEPT !.at = "arrived", !.tool = t, !.offered = t \in visible])

Ends(c, decision) ==
  Become(c, [call[c] EXCEPT !.at = "audit", !.decision = decision])

\* A lookup by name alone.
NameExists(t) == TRUE

\* ResolveGrantedTool finds the tool among those the agent may call.
Granted(t) == t \in visible

ResolveTool(c, kind) ==
  /\ call[c].at = "arrived"
  /\ IF Granted(call[c].tool)
       THEN Become(c, [call[c] EXCEPT !.at = "authorized", !.kind = kind])
       ELSE Ends(c, "denied")

\* The query fails, or the connection's credential cannot be resolved.
NotAuthorized(c) ==
  /\ call[c].at \in {"arrived", "authorized"}
  /\ Ends(c, "error")

\* A parameter header contradicts the arguments; this answer is not audited.
HeaderMismatch(c) ==
  /\ call[c].at = "authorized"
  /\ Become(c, [call[c] EXCEPT !.at = "over"])

-----------------------------------------------------------------------------
(* Calling: the upstream                                                   *)

\* The first step for a kind of tool.
Dispatch(c) ==
  /\ call[c].at = "authorized"
  /\ Become(c,
       [call[c] EXCEPT !.at = "asking",
                       !.step = IF call[c].kind \in {"mcp", "stdio"} THEN "discover" ELSE "call",
                       !.open = IF call[c].kind = "stdio" THEN {"probe"} ELSE {}])

Asks(c, step, open) ==
  [call[c] EXCEPT !.at = "asking", !.step = step, !.attempt = 1, !.open = open]

MayRetry(c) == call[c].attempt < Attempts

\* The upstream of an HTTP request is busy; it has not done what was asked.
Throttled(c) ==
  /\ call[c].at = "asking"
  /\ call[c].kind \in {"mcp", "http"}
  /\ ~call[c].gone
  /\ MayRetry(c)
  /\ Become(c, [call[c] EXCEPT !.at = "backoff"])

\* A loop that does not count.
SameAttempt(c) == call[c].attempt

NextAttempt(c) == call[c].attempt + 1

RetryAfter(c) ==
  /\ call[c].at = "backoff"
  /\ ~call[c].gone
  /\ Become(c, [call[c] EXCEPT !.at = "asking", !.attempt = NextAttempt(c)])

\* What is open when an answer has been read: an MCP server may have opened a
\* session with it; a probe's process has been waited for.
AfterAnswer(c) ==
  IF call[c].kind = "mcp" THEN {call[c].open, call[c].open \cup {"session"}}
  ELSE {call[c].open \ {"probe"}}

\* With the second process of a stdio server, after the probe.
Started(c, open) == IF call[c].kind = "stdio" THEN open \cup {"process"} ELSE open

Discovered(c) ==
  /\ call[c].at = "asking"
  /\ call[c].step = "discover"
  /\ ~call[c].gone
  /\ \E open \in AfterAnswer(c) : Become(c, Asks(c, "call", Started(c, open)))

\* A wait before a repetition is cut off by the client or the tool's time limit.
CutOff(c) == call[c].at = "backoff" /\ (call[c].gone \/ call[c].kind = "http")

\* A session that is forgotten stays open at the upstream.
Forgotten(open) == IF "session" \in open THEN (open \ {"session"}) \cup {"dropped"} ELSE open

\* Any failure of the discovery but 401 and 403 tries the older handshake, in a
\* new session.
FallBack(c) ==
  /\ call[c].at = "asking" \/ CutOff(c)
  /\ call[c].step = "discover"
  /\ \E open \in AfterAnswer(c) :
       Become(c, Asks(c, "initialize", Started(c, Forgotten(open))))

Initialized(c) ==
  /\ call[c].at = "asking"
  /\ call[c].step = "initialize"
  /\ ~call[c].gone
  /\ \E open \in AfterAnswer(c) : Become(c, Asks(c, "notify", open))

Notified(c) ==
  /\ call[c].at = "asking"
  /\ call[c].step = "notify"
  /\ ~call[c].gone
  /\ Become(c, Asks(c, "call", call[c].open))

\* The tool has run and its answer arrives.
Answered(c) ==
  /\ call[c].at = "asking"
  /\ call[c].step = "call"
  /\ ~call[c].gone
  /\ Become(c, [call[c] EXCEPT !.at = "closing", !.decision = "allowed", !.ran = @ + 1])

\* A retry that repeats what may have been done, after 502 and 504 too.
RetriedFailure(c) ==
  IF MayRetry(c) /\ ~call[c].gone THEN "backoff" ELSE "closing"

\* Only what the upstream has not done is repeated.
AfterFailure(c) == "closing"

\* The tool's answer is an error or lost, with the tool run or not; the request
\* was not sent, was refused, timed out or was cancelled with the client.
Unanswered(c, ran) ==
  /\ call[c].at = "asking" \/ (CutOff(c) /\ ~ran)
  /\ call[c].step = "call"
  /\ Become(c, [call[c] EXCEPT !.at = AfterFailure(c), !.decision = "error",
                               !.ran = IF ran THEN @ + 1 ELSE @])

\* A recovery that leaves the process of a broken handshake.
ProcessLeft(c) == Forgotten(call[c].open)

\* The process of a broken handshake is ended, a session is not.
Abandoned(c) == Forgotten(call[c].open) \ {"probe", "process"}

\* The handshake fails, or the discovery is refused with 401 or 403.
HandshakeFails(c) ==
  /\ call[c].at = "asking" \/ CutOff(c)
  /\ \/ call[c].step \in {"initialize", "notify"}
     \/ call[c].step = "discover" /\ ~call[c].gone
  /\ Become(c, [call[c] EXCEPT !.at = "audit", !.decision = "error", !.open = Abandoned(c)])

\* The deferred close: DELETE of the session, in the call's context, whether
\* or not it arrives; a process is waited for, or killed.
Close(c) ==
  /\ call[c].at = "closing"
  /\ \E step \in {"closed", "unclosed"} :
       /\ step = "closed" => ~("session" \in call[c].open /\ call[c].gone)
       /\ step = "unclosed" => "session" \in call[c].open
       /\ Become(c, [call[c] EXCEPT !.at = "audit", !.step = step,
                       !.open = IF step = "closed" THEN @ \ {"session", "process"}
                                ELSE Forgotten(@) \ {"process"}])

\* A handler that audits successes only.
RowsOfSuccess(c) ==
  IF call[c].gone \/ call[c].decision # "allowed" THEN {None} ELSE {"allowed", "lost"}

\* Every outcome is audited in the request's context, so without a row if the
\* client has gone; the database may refuse it.
Rows(c) == IF call[c].gone THEN {None} ELSE {call[c].decision, "lost"}

Audit(c) ==
  /\ call[c].at = "audit"
  /\ \E row \in Rows(c) : Become(c, [call[c] EXCEPT !.at = "over", !.row = row])

ClientGoes(c) ==
  /\ call[c].at \notin {"idle", "over"}
  /\ ~call[c].gone
  /\ Become(c, [call[c] EXCEPT !.gone = TRUE])

\* The handler has returned.
Forget(c) ==
  /\ call[c].at = "over"
  /\ Become(c, Idle)

-----------------------------------------------------------------------------
Proceed(c) ==
  \/ \E kind \in Kinds : ResolveTool(c, kind)
  \/ NotAuthorized(c) \/ HeaderMismatch(c) \/ Dispatch(c)
  \/ Throttled(c) \/ RetryAfter(c)
  \/ Discovered(c) \/ FallBack(c) \/ Initialized(c) \/ Notified(c)
  \/ Answered(c) \/ \E ran \in BOOLEAN : Unanswered(c, ran)
  \/ HandshakeFails(c)
  \/ Close(c) \/ Audit(c)

\* A call waits for the process of a stdio server, for as long as its client
\* does: only the probe has a time limit.
WaitsForProcess(c) ==
  /\ call[c].kind = "stdio"
  /\ call[c].at = "asking"
  /\ call[c].step # "discover"
  /\ ~call[c].gone

Next ==
  \/ \E t \in Tools : SetVisible(t)
  \/ \E on \in BOOLEAN : SetLive(on)
  \/ BeginList \/ ListTools
  \/ \E c \in Calls :
       \/ \E t \in Tools : Arrive(c, t)
       \/ Proceed(c) \/ ClientGoes(c) \/ Forget(c)

\* Requests and commands have time limits, queries and waits end.
Fairness == \A c \in Calls : WF_vars(Proceed(c) /\ ~WaitsForProcess(c))

Spec == Init /\ [][Next]_vars /\ Fairness

-----------------------------------------------------------------------------
(* What the endpoint promises                                              *)

TypeOK ==
  /\ live \in BOOLEAN
  /\ visible \subseteq Tools
  /\ call \in [Calls -> Call]
  /\ list \in Listing

\* "retrying is safe for non-idempotent tool calls too" (retry.go): an agent's
\* call runs the tool once at most, through retries, fallbacks and lost answers,
\* and only if the tool was visible at some moment since the call arrived.
RunsOnceIfGranted ==
  \A c \in Calls : call[c].ran <= 1 /\ (call[c].ran = 1 => call[c].offered)

\* "audit_events retain authorization and invocation outcomes" (DESIGN.md): a call
\* whose row says allowed has run, one whose row says denied has not, and one that
\* ran has some row, unless the client had gone or the database refused it.  A row
\* that says error tells nothing of whether the tool has run: the answer may have
\* been lost.
OutcomeIsAudited ==
  \A c \in Calls : call[c].at = "over" =>
    /\ call[c].row = "allowed" => call[c].ran = 1
    /\ call[c].row = "denied" => call[c].ran = 0
    /\ call[c].ran = 1 /\ call[c].row = None => call[c].gone

\* No process outlives the call it was started for, and the session in which the
\* tool was asked is closed, unless the client had gone or the DELETE was lost
\* (close): what stays open was dropped by a handshake that failed.
NothingIsLeftOpen ==
  \A c \in Calls : call[c].at \in {"audit", "over"} =>
    /\ call[c].open \subseteq {"dropped"}
    /\ call[c].kind # "mcp" => call[c].open = {}

\* A listing to its last page has every tool that was visible all the time,
\* unless a tool the cursor had passed disappeared and the rest moved up.
ListingIsComplete == list.at = "complete" /\ ~list.slipped => list.steady \subseteq list.got

\* The stage of a call, without its requests, its repetitions and its close.
Stage(x) ==
  CASE x.at = "arrived" -> "waiting"
    [] x.at \in {"authorized", "asking", "backoff"} -> "permitted"
    [] x.at \in {"closing", "audit"} -> "answered"
    [] x.at = "over" -> "over"

InvocationOf(x) ==
  IF x.at = "idle" THEN [stage |-> "idle"]
  ELSE [stage  |-> Stage(x),
        tool   |-> x.tool,
        ran    |-> x.ran,
        answer |-> IF Stage(x) = "answered" THEN x.decision ELSE None,
        row    |-> x.row,
        gone   |-> x.gone]

\* Handshakes, fallbacks, retries and sessions apart, a call is permitted or
\* refused at one moment, by what is visible then ("resolve the exposed tool name
\* through the same grant", DESIGN.md), runs its tool at most once after that, and
\* its row says how it was answered ("Record the decision and outcome").
Service == INSTANCE Invocations WITH invocation <- [c \in Calls |-> InvocationOf(call[c])]
ImplementsInvocations == Service!Spec

\* A call ends, unless it waits for a process and its client for the call.
CallsEnd ==
  \A c \in Calls : call[c].at = "arrived" ~> call[c].at = "over" \/ WaitsForProcess(c)
=============================================================================
