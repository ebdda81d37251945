-------------------------------- MODULE Codex --------------------------------
(***************************************************************************)
(* The signed-in Codex account of the local model bridge.  Scripts that    *)
(* Toolmux runs inside the bridge's container check the account, list its *)
(* models or sign in; each of them may spend the account's refresh token, *)
(* which is good for one use, so one of them runs at a time.  Callers are *)
(* the monitor's loop, requests that list models and the goroutine of a    *)
(* sign-in.  Cancelling `docker exec' ends the client only: the script may *)
(* go on in the container, an orphan.                                      *)
(***************************************************************************)
CONSTANTS
  Monitors,  \* the loop that checks the account every 30 s
  Listers,   \* requests for the account's models
  SignIns,   \* requests to sign in
  Nobody     \* none of them

Callers == Monitors \cup Listers \cup SignIns

ASSUME CodexAssumption ==
  /\ Nobody \notin Callers
  /\ Monitors \cap (Listers \cup SignIns) = {}
  /\ Listers \cap SignIns = {}

VARIABLES
  work,     \* who holds the mutex Codex.work
  view,     \* Codex.state: what the sign-in page shows
  caller,   \* how far each caller is
  scripts   \* the scripts in the container

codexVars == <<work, view, caller, scripts>>

Outcomes == {"connected", "reauthorization_required", "unavailable"}
Statuses == Outcomes \cup {"unknown", "starting", "awaiting_signin"}

Points == {"idle", "check", "models", "start", "login", "connected", "restart", "done"}

Script(c) == [by |-> c, orphan |-> FALSE]

CodexInit ==
  /\ work = Nobody
  /\ view = [status |-> "unknown", running |-> FALSE]
  /\ caller = [c \in Callers |-> "idle"]
  /\ scripts = {}

-----------------------------------------------------------------------------
Goes(c, at) == caller' = [caller EXCEPT ![c] = at]

\* What is in the container when c's script has ended, or its command was
\* cut off.
Ended(c) == scripts \ {Script(c)}
CutOff(c) == Ended(c) \cup {[by |-> c, orphan |-> TRUE]}

\* A caller that does not wait for the others.
Unguarded == TRUE

\* TryLock of Codex.work.  Models tries it for 5 s, the others once; a caller
\* that does not get it changes nothing.
WorkIsFree == work = Nobody

\* A check does nothing during a sign-in, nor does a second sign-in.
BeginCheck(c) ==
  /\ c \in Monitors
  /\ caller[c] = "idle"
  /\ WorkIsFree
  /\ ~view.running
  /\ work' = c
  /\ scripts' = scripts \cup {Script(c)}
  /\ Goes(c, "check")
  /\ UNCHANGED view

\* The script has ended with a status, or the 25 s are over.
EndCheck(c, status) ==
  /\ caller[c] = "check"
  /\ \/ scripts' = Ended(c)
     \/ status = "unavailable" /\ scripts' = CutOff(c)
  /\ work' = Nobody
  /\ view' = IF view.running THEN view ELSE [status |-> status, running |-> FALSE]
  /\ Goes(c, "idle")

BeginModels(c) ==
  /\ c \in Listers
  /\ caller[c] = "idle"
  /\ WorkIsFree
  /\ work' = c
  /\ scripts' = scripts \cup {Script(c)}
  /\ Goes(c, "models")
  /\ UNCHANGED view

EndModels(c) ==
  /\ caller[c] = "models"
  /\ scripts' \in {Ended(c), CutOff(c)}
  /\ work' = Nobody
  /\ Goes(c, "idle")
  /\ UNCHANGED view

-----------------------------------------------------------------------------
(* A sign-in                                                               *)

Start(c) ==
  /\ c \in SignIns
  /\ caller[c] = "idle"
  /\ WorkIsFree
  /\ ~view.running
  /\ work' = c
  /\ view' = [status |-> "starting", running |-> TRUE]
  /\ Goes(c, "start")
  /\ UNCHANGED scripts

BeginLogin(c) ==
  /\ caller[c] = "start"
  /\ scripts' = scripts \cup {Script(c)}
  /\ Goes(c, "login")
  /\ UNCHANGED <<work, view>>

\* A line taken as the whole state: the script's output says nothing of Running.
LineAsPrinted(status) == [status |-> status, running |-> FALSE]

\* What a line of the script becomes on the page.
LineShown(status) == [status |-> status, running |-> TRUE]

\* The last line decides whether the account is connected.
ReadLine(c, status) ==
  /\ status \in {"awaiting_signin", "connected", "reauthorization_required"}
  /\ caller[c] \in {"login", "connected"}
  /\ view' = LineShown(status)
  /\ Goes(c, IF status = "connected" THEN "connected" ELSE "login")
  /\ UNCHANGED <<work, scripts>>

\* The script ends well after it said connected: the bridge is restarted.
LoginSucceeds(c) ==
  /\ caller[c] = "connected"
  /\ scripts' = Ended(c)
  /\ Goes(c, "restart")
  /\ UNCHANGED <<work, view>>

\* An end that leaves the sign-in on the page.
StillShown(status) == [status |-> status, running |-> TRUE]

\* What the page shows when a sign-in is over.
FinalView(status) == [status |-> status, running |-> FALSE]

Finish(c, status) ==
  /\ view' = FinalView(status)
  /\ Goes(c, "done")
  /\ UNCHANGED work

\* It cannot be started, fails, or the 16 minutes are over.
LoginFails(c) ==
  /\ caller[c] \in {"start", "login", "connected"}
  /\ \/ scripts' = Ended(c)
     \/ caller[c] # "start" /\ scripts' = CutOff(c)
  /\ Finish(c, "reauthorization_required")

\* Restarting the container ends whatever runs in it.
RestartBridge(c) ==
  /\ caller[c] = "restart"
  /\ scripts' = {}
  /\ Finish(c, "connected")

RestartFails(c) ==
  /\ caller[c] = "restart"
  /\ scripts' \in {scripts, {}}
  /\ Finish(c, "unavailable")

\* The deferred Unlock, after onDone has observed the outcome.
Done(c) ==
  /\ caller[c] = "done"
  /\ work' = Nobody
  /\ Goes(c, "idle")
  /\ UNCHANGED <<view, scripts>>

-----------------------------------------------------------------------------
OrphanEnds(s) ==
  /\ s.orphan
  /\ scripts' = scripts \ {s}
  /\ UNCHANGED <<work, view, caller>>

\* The Toolmux process stops, and starts again some time.
ProcessEnds ==
  /\ work' = Nobody
  /\ view' = [status |-> "unknown", running |-> FALSE]
  /\ caller' = [c \in Callers |-> "idle"]
  /\ scripts' = {[s EXCEPT !.orphan = TRUE] : s \in scripts}

\* What ends a command, by its time limit if nothing else does.
Limit(c) ==
  \/ \E status \in Outcomes : EndCheck(c, status)
  \/ EndModels(c)
  \/ LoginSucceeds(c) \/ LoginFails(c) \/ RestartBridge(c) \/ RestartFails(c) \/ Done(c)

CodexNext ==
  \/ \E c \in Callers : \/ BeginCheck(c) \/ BeginModels(c) \/ Start(c) \/ BeginLogin(c)
                        \/ \E status \in Statuses : ReadLine(c, status)
                        \/ Limit(c)
  \/ \E s \in scripts : OrphanEnds(s)

-----------------------------------------------------------------------------
(* What the sign-in promises                                               *)

CodexTypeOK ==
  /\ work \in Callers \cup {Nobody}
  /\ view \in [status : Statuses, running : BOOLEAN]
  /\ caller \in [Callers -> Points]
  /\ scripts \subseteq [by : Callers, orphan : BOOLEAN]

\* The account's single-use refresh token is in the hands of one script at a
\* time, but for scripts that outlived the command that ran them (Codex.work).
OneScriptAtATime ==
  \A s, t \in scripts : ~s.orphan /\ ~t.orphan => s = t

\* The page shows a sign-in as running exactly while one is, whatever checks and
\* listings come in between (Check, Start).
SignInIsShown ==
  view.running
    <=> \E c \in Callers : caller[c] \in {"start", "login", "connected", "restart"}
=============================================================================
