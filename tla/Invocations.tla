----------------------------- MODULE Invocations -----------------------------
(***************************************************************************)
(* What the MCP endpoint promises of a tool call, without upstreams,      *)
(* handshakes, sessions and retries.  A call is permitted at one moment, at*)
(* which the agent can see the tool, or refused at one at which it cannot.*)
(* Only then it may run the tool, once; it is answered, and what the audit*)
(* row says is the answer.  ToolCalls is shown to implement this.          *)
(***************************************************************************)
EXTENDS Naturals

CONSTANTS
  Calls,  \* tool calls that are served at the same time
  Tools,  \* their exposed names
  None    \* no answer or row

VARIABLES
  live,       \* the agent may call tools
  visible,    \* the tools it may call
  invocation  \* the calls

vars == <<live, visible, invocation>>

Answers == {"allowed", "denied", "error"}

Invocation ==
  [stage  : {"waiting", "permitted", "answered", "over"},
   tool   : Tools,
   ran    : {0, 1},
   answer : Answers \cup {None},
   row    : Answers \cup {None, "lost"},
   gone   : BOOLEAN]

Idle == [stage |-> "idle"]

Init ==
  /\ live = TRUE
  /\ visible \in SUBSET Tools
  /\ invocation = [c \in Calls |-> Idle]

At(c, stage) == invocation[c].stage = stage

Become(c, rec) ==
  /\ invocation' = [invocation EXCEPT ![c] = rec]
  /\ UNCHANGED <<live, visible>>

\* The operator and the agent's token.
Administer ==
  /\ live' \in BOOLEAN
  /\ visible' \in SUBSET Tools
  /\ UNCHANGED invocation

Invoke(c, t) ==
  /\ live
  /\ At(c, "idle")
  /\ Become(c, [stage |-> "waiting", tool |-> t, ran |-> 0, answer |-> None,
                row |-> None, gone |-> FALSE])

Permit(c) ==
  /\ At(c, "waiting")
  /\ invocation[c].tool \in visible
  /\ Become(c, [invocation[c] EXCEPT !.stage = "permitted"])

Answer(c, answer, ran) ==
  Become(c, [invocation[c] EXCEPT !.stage = "answered", !.answer = answer, !.ran = ran])

Refuse(c) ==
  /\ At(c, "waiting")
  /\ invocation[c].tool \notin visible
  /\ Answer(c, "denied", 0)

Succeed(c) ==
  /\ At(c, "permitted")
  /\ Answer(c, "allowed", 1)

\* After an error the tool may have run, if the call was permitted.
Fail(c, ran) ==
  /\ \/ At(c, "waiting") /\ ran = 0
     \/ At(c, "permitted")
  /\ Answer(c, "error", ran)

\* The call is answered without having run and without a row.
Reject(c) ==
  /\ At(c, "permitted")
  /\ Become(c, [invocation[c] EXCEPT !.stage = "over"])

Record(c, row) ==
  /\ At(c, "answered")
  /\ row \in IF invocation[c].gone THEN {None} ELSE {invocation[c].answer, "lost"}
  /\ Become(c, [invocation[c] EXCEPT !.stage = "over", !.answer = None, !.row = row])

Leave(c) ==
  /\ ~At(c, "idle")
  /\ ~At(c, "over")
  /\ ~invocation[c].gone
  /\ Become(c, [invocation[c] EXCEPT !.gone = TRUE])

Return(c) ==
  /\ At(c, "over")
  /\ Become(c, Idle)

Next ==
  \/ Administer
  \/ \E c \in Calls :
       \/ \E t \in Tools : Invoke(c, t)
       \/ Permit(c) \/ Refuse(c) \/ Succeed(c) \/ Reject(c)
       \/ \E ran \in {0, 1} : Fail(c, ran)
       \/ \E row \in Answers \cup {None, "lost"} : Record(c, row)
       \/ Leave(c) \/ Return(c)

Spec == Init /\ [][Next]_vars

-----------------------------------------------------------------------------
TypeOK ==
  /\ live \in BOOLEAN
  /\ visible \subseteq Tools
  /\ invocation \in [Calls -> Invocation \cup {Idle}]
=============================================================================
