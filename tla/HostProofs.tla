----------------------------- MODULE HostProofs -----------------------------
(* Proofs about Updater and Codex, alone and composed in Host: for any     *)
(* number of revisions, any set of bad ones, and any monitors, listers and *)
(* sign-ins.                                                               *)
EXTENDS Host, TLAPS

-----------------------------------------------------------------------------
(* Updates                                                                 *)

\* What may be installed: what somebody asked for, and the first binary.
Wanted == asked \cup {0}

\* Nothing else is requested, built, backed up or installed.
AskedOK ==
  /\ request \in asked \cup {None}
  /\ binary \in Wanted \cup {Partial}
  /\ backup \in Wanted \cup {Partial, None}
  /\ prior \in Wanted
  /\ helper.at \in {"clone", "build", "stop", "dump", "copy", "replace"} =>
       helper.revision \in asked \cup {None}
  /\ helper.at \in {"build", "stop", "dump", "copy", "replace"} => helper.revision # None

\* The helper works beside the service, or on it while it is stopped.
Beside == {"begin", "request", "clone", "build", "stop"}
Within == {"dump", "copy", "replace", "start"}

\* Whether the service runs at each step of the helper, and with a whole binary.
ServiceOK ==
  /\ Running => binary # Partial
  /\ helper.at = "idle" => helper = Asleep /\ (Running \/ halted \/ unseen \/ binary = Partial)
  /\ helper.at \in Beside => Running /\ ~helper.stopped
  /\ helper.at \in Within => ~Running /\ helper.stopped
  /\ helper.at = "start" => binary # Partial
  /\ helper.at = "health" => Running /\ ~helper.stopped /\ manager.current = binary
  /\ helper.at \in {"except", "restart"} => Running \/ helper.stopped \/ unseen
  /\ helper.at = "recheck" => Running \/ binary = Partial

\* Where the binary from before the update is at each step.
BinaryOK ==
  /\ helper.at \in {"request", "clone", "build", "stop", "dump", "copy", "replace"} =>
       binary = prior
  /\ helper.at \in Beside \cup {"dump"} => ~helper.previous
  /\ helper.at = "copy" => helper.previous
  /\ helper.at \in {"replace", "start", "health"} => helper.previous /\ backup = prior
  /\ helper.at = "except" =>
       \/ ~helper.previous /\ binary = prior
       \/ helper.previous /\ backup = prior
       \/ helper.previous /\ backup \in {Partial, None} /\ ~Running
  /\ helper.at \in {"restart", "recheck"} => binary = backup /\ backup \in {prior, Partial}

\* What has been reported stays true until the next update begins, whether or
\* not a helper was stopped.
ReportOK ==
  /\ helper.at \notin {"idle", "begin"} => status.phase = "running"
  /\ status.phase = "complete" => binary \notin Bad /\ binary # Partial
  /\ status.phase \in {"retained", "restored"} => binary = prior \/ backup = Partial

UpdaterInv == TypeOK /\ AskedOK /\ ServiceOK /\ BinaryOK /\ ReportOK

-----------------------------------------------------------------------------
LEMMA Consts ==
  /\ 0 \in Revisions
  /\ 0 \notin Bad
  /\ Partial \notin Revisions
  /\ None \notin Revisions
  /\ None # Partial
  /\ None \notin Manager
  BY UpdaterAssumption DEF UpdaterAssumption, Revisions, Contents

\* A service that is started runs the whole binary it is given.
LEMMA ServiceIs ==
  ASSUME NEW content \in Contents
  PROVE  /\ ServiceOf(content) \in Manager \cup {None}
         /\ content # Partial => /\ ServiceOf(content) # None
                                 /\ ServiceOf(content).current = content
         /\ content = Partial => ServiceOf(content) = None
  BY Consts DEF ServiceOf, Started, Manager, Contents, Ages

LEMMA UpdaterInit == Init => UpdaterInv
<1> SUFFICES ASSUME Init PROVE UpdaterInv
  OBVIOUS
<1>1. Started(0) \in Manager
  BY Consts DEF Started, Manager, Ages
<1>2. TypeOK
  BY <1>1, Consts DEF Init, TypeOK, Contents, Status, Phases, Helper, Asleep
<1>3. ServiceOK
  BY <1>1, Consts DEF Init, ServiceOK, Running, Asleep, Beside, Within
<1> QED BY <1>2, <1>3, Consts DEF Init, UpdaterInv, AskedOK, Wanted, BinaryOK, ReportOK,
           Asleep, Beside

LEMMA ManagerStepOK ==
  ASSUME UpdaterInv, Push \/ ManagerStep \/ Restart
  PROVE  UpdaterInv'
<1> USE Consts DEF UpdaterInv, Running
<1>1. CASE Push
  BY <1>1, UpdaterAssumption
  DEF Push, Revisions, UpdaterAssumption, TypeOK, AskedOK, Wanted, ServiceOK, BinaryOK, ReportOK
<1>2. CASE CheckMain
  BY <1>2
  DEF CheckMain, Manager, TypeOK, AskedOK, Wanted, ServiceOK, BinaryOK, ReportOK
<1>3. ASSUME NEW rev \in Revisions, Install(rev) PROVE UpdaterInv'
  <2> USE <1>3 DEF Install, CanInstall, Asleep
  <2>1. \/ helper' = helper
        \/ helper'.at = "begin" /\ ~helper'.stopped /\ ~helper'.previous
    <3>1. helper.at = "idle" => helper = Asleep
      BY DEF ServiceOK
    <3> QED BY <3>1
  <2>2. TypeOK'
    BY DEF TypeOK, Manager, Ages, Helper, Commands
  <2>3. AskedOK'
    BY <2>1 DEF AskedOK, Wanted
  <2>4. ServiceOK'
    <3>1. manager'.current = manager.current /\ manager # None /\ manager' # None
      <4>1. manager \in Manager
        BY DEF TypeOK
      <4>2. manager' \in Manager /\ manager'.current = manager.current
        BY <4>1 DEF Manager, Ages
      <4> QED BY <4>2
    <3>2. Running /\ Running' /\ UNCHANGED <<binary, halted>>
      BY <3>1
    <3>3. CASE helper' = helper
      BY <3>1, <3>2, <3>3 DEF ServiceOK, Beside, Within
    <3>4. CASE helper'.at = "begin" /\ ~helper'.stopped
      BY <3>2, <3>4 DEF ServiceOK, Beside, Within
    <3> QED BY <2>1, <3>3, <3>4
  <2>5. BinaryOK' /\ ReportOK'
    BY <2>1 DEF BinaryOK, ReportOK, Beside, ServiceOK
  <2> QED BY <2>2, <2>3, <2>4, <2>5
<1>4. ASSUME NEW rev \in Revisions, InstallFails(rev) PROVE UpdaterInv'
  BY <1>4
  DEF InstallFails, CanInstall, TypeOK, AskedOK, Wanted, ServiceOK, BinaryOK, ReportOK
<1>5. CASE PendingAges
  BY <1>5
  DEF PendingAges, Manager, Ages, TypeOK, AskedOK, Wanted, ServiceOK, BinaryOK, ReportOK
<1>6. CASE StatusAges
  <2> USE <1>6 DEF StatusAges
  <2>1. TypeOK'
    BY DEF TypeOK, Status
  <2>2. ReportOK'
    BY DEF TypeOK, Status, ReportOK
  <2> QED BY <2>1, <2>2 DEF AskedOK, Wanted, ServiceOK, BinaryOK
<1>7. CASE Restart
  BY <1>7, ServiceIs
  DEF Restart, TypeOK, AskedOK, Wanted, ServiceOK, BinaryOK, ReportOK
<1> QED BY <1>1, <1>2, <1>3, <1>4, <1>5, <1>6, <1>7 DEF ManagerStep

\* The steps of the helper up to the end of the build.
LEMMA BesideStepOK ==
  ASSUME UpdaterInv, Begin \/ ReadRequest \/ Clone \/ Build
  PROVE  UpdaterInv'
<1> USE Consts DEF UpdaterInv, TypeOK, AskedOK, Wanted, ServiceOK, BinaryOK, ReportOK,
     Running, Beside, Within, Commands
<1>1. CASE Begin
  BY <1>1 DEF Begin, Report, Proceed, Helper, Status, Phases, Contents
<1>2. CASE ReadRequest
  BY <1>2 DEF ReadRequest, Helper
<1>3. CASE Clone
  <2>1. \/ helper' = [helper EXCEPT !.at = "except"]
        \/ helper' = [helper EXCEPT !.at = "build", !.revision = main]
             /\ main = helper.revision
    BY <1>3 DEF Clone, Verified, Helper
  <2>2. helper.at = "clone"
        /\ UNCHANGED <<main, binary, backup, manager, request, status, prior, asked, halted,
                       unseen>>
    BY <1>3 DEF Clone
  <2>3. CASE helper' = [helper EXCEPT !.at = "except"]
    BY <2>2, <2>3 DEF Helper
  <2>4. CASE helper' = [helper EXCEPT !.at = "build", !.revision = main]
             /\ main = helper.revision
    BY <2>2, <2>4 DEF Helper
  <2> QED BY <2>1, <2>3, <2>4
<1>4. CASE Build
  BY <1>4 DEF Build, Report, Proceed, Helper, Status, Phases
<1> QED BY <1>1, <1>2, <1>3, <1>4

\* Its steps until the service is started.
LEMMA WithinStepOK ==
  ASSUME UpdaterInv,
         \/ StopService \/ StopFails \/ Dump \/ CopyBinary \/ Replace \/ StartService
         \/ StartFails
         \/ \E content \in {Partial, None} : CopyFails(content)
  PROVE  UpdaterInv'
<1> USE Consts DEF UpdaterInv, TypeOK, AskedOK, Wanted, ServiceOK, BinaryOK, ReportOK,
     Running, Beside, Within, Commands
<1>1. CASE StopService
  BY <1>1 DEF StopService, Report, Helper, Status, Phases
<1>2. CASE Dump
  BY <1>2 DEF Dump, Helper
<1>3. CASE CopyBinary
  BY <1>3 DEF CopyBinary, Proceed, Helper
<1>4. CASE Replace
  <2>1. helper.revision \in Revisions /\ helper.revision \in asked
    BY <1>4 DEF Replace, Helper
  <2>2. helper' = [helper EXCEPT !.at = "start"] /\ binary' = helper.revision
    BY <1>4 DEF Replace, Proceed
  <2>3. TypeOK'
    BY <1>4, <2>1, <2>2 DEF Replace, Helper, Contents
  <2>4. AskedOK'
    BY <1>4, <2>1, <2>2 DEF Replace, Helper
  <2> QED BY <1>4, <2>1, <2>2, <2>3, <2>4 DEF Replace, Helper
<1>5. CASE StartService
  <2>1. helper' = [helper EXCEPT !.at = "health", !.stopped = FALSE]
        /\ manager' \in Manager /\ manager' # None /\ manager'.current = binary
    BY <1>5, ServiceIs DEF StartService
  <2>2. TypeOK' /\ AskedOK'
    BY <1>5, <2>1 DEF StartService, Helper
  <2>3. ServiceOK' /\ ReportOK'
    BY <1>5, <2>1 DEF StartService, Helper
  <2>4. BinaryOK'
    BY <1>5, <2>1 DEF StartService, Helper
  <2> QED BY <2>2, <2>3, <2>4
<1>6. ASSUME NEW content \in {Partial, None}, CopyFails(content) PROVE UpdaterInv'
  <2>1. helper' = [helper EXCEPT !.at = "except"] /\ backup' = content
    BY <1>6 DEF CopyFails, Proceed
  <2>2. TypeOK'
    BY <1>6, <2>1 DEF CopyFails, Helper, Contents
  <2>3. AskedOK' /\ ServiceOK' /\ ReportOK'
    BY <1>6, <2>1 DEF CopyFails, Helper
  <2>4. BinaryOK'
    BY <1>6, <2>1 DEF CopyFails, Helper
  <2> QED BY <2>2, <2>3, <2>4
<1>7. CASE StopFails
  BY <1>7 DEF StopFails, Report, Proceed, Helper, Status, Phases
<1>8. CASE StartFails
  BY <1>8, ServiceIs DEF StartFails, Proceed, Helper
<1> QED BY <1>1, <1>2, <1>3, <1>4, <1>5, <1>6, <1>7, <1>8

\* The end of an update, and the recovery from a failure.
LEMMA EndStepOK ==
  ASSUME UpdaterInv,
         \/ CheckHealth \/ CommandFails \/ Retain \/ Rollback \/ RestartService
         \/ ReportRestored \/ Halt \/ StartByHand
  PROVE  UpdaterInv'
<1> USE Consts DEF UpdaterInv, TypeOK, AskedOK, Wanted, ServiceOK, BinaryOK, ReportOK,
     Running, Beside, Within, Commands
<1>0. Asleep \in Helper
  BY DEF Asleep, Helper, Commands
<1>1. CASE CheckHealth
  BY <1>0, <1>1 DEF CheckHealth, Healthy, Report, Asleep, Status, Phases
<1>2. CASE CommandFails
  BY <1>2 DEF CommandFails, Proceed, Helper
<1>3. CASE Retain
  BY <1>0, <1>3, ServiceIs DEF Retain, ServiceRetained, Report, Asleep, Status, Phases
<1>4. CASE Rollback
  BY <1>4 DEF Rollback, RestoredBinary, Proceed, Helper
<1>5. CASE RestartService
  BY <1>5, ServiceIs DEF RestartService, Proceed, Helper
<1>6. CASE ReportRestored
  BY <1>0, <1>6 DEF ReportRestored, Report, Asleep, Status, Phases
<1>7. CASE Halt
  BY <1>0, <1>7 DEF Halt, Asleep
<1>8. CASE StartByHand
  <2>1. binary' \in Contents /\ binary' # Partial /\ binary' \in {binary, prior}
    BY <1>8 DEF StartByHand, Contents
  <2>2. manager' \in Manager /\ manager' # None
    BY <1>8, <2>1, ServiceIs DEF StartByHand
  <2> QED BY <1>8, <2>1, <2>2 DEF StartByHand
<1> QED BY <1>1, <1>2, <1>3, <1>4, <1>5, <1>6, <1>7, <1>8

LEMMA UpdaterNext == UpdaterInv /\ [Next]_vars => UpdaterInv'
<1> SUFFICES ASSUME UpdaterInv, [Next]_vars PROVE UpdaterInv'
  OBVIOUS
<1>1. CASE UNCHANGED vars
  BY <1>1 DEF vars, UpdaterInv, TypeOK, AskedOK, Wanted, ServiceOK, BinaryOK, ReportOK, Running
<1> QED BY <1>1, ManagerStepOK, BesideStepOK, WithinStepOK, EndStepOK
        DEF Next, HelperStep, HelperQuiet, HelperStops

\* The update's promises, as the invariant has them.
LEMMA UpdaterPromises ==
  UpdaterInv => TypeOK /\ InstalledWasAsked /\ ServiceIsStartedAgain /\ OutcomeIsTrue
  BY DEF UpdaterInv, TypeOK, AskedOK, Wanted, ServiceOK, ReportOK, Helper, Commands, Beside, Within,
     InstalledWasAsked, ServiceIsStartedAgain, OutcomeIsTrue

-----------------------------------------------------------------------------
(* The sign-in                                                             *)

\* The points at which a caller's script may be running, and those of a sign-in
\* that is under way.
InScript == {"check", "models", "login", "connected"}
SigningIn == {"start", "login", "connected", "restart"}

\* Whoever is not idle holds the mutex, and no other script than that caller's
\* is anybody's.
CodexInv ==
  /\ CodexTypeOK
  /\ \A c \in Callers : caller[c] # "idle" <=> work = c
  /\ \A s \in scripts : ~s.orphan => s = Script(s.by) /\ caller[s.by] \in InScript
  /\ view.running <=> \E c \in Callers : caller[c] \in SigningIn

LEMMA CodexStart == CodexInit => CodexInv
  BY CodexAssumption DEF CodexInit, CodexInv, CodexTypeOK, Statuses, Outcomes, Points, Script,
     SigningIn, CodexAssumption

\* A step of one caller, which holds the mutex before or after it.
LEMMA CodexMoves ==
  ASSUME CodexInv, NEW c \in Callers, NEW at \in Points, Goes(c, at),
         work \in {Nobody, c}, work' = IF at = "idle" THEN Nobody ELSE c,
         scripts' \subseteq Ended(c)
           \cup {[by |-> c, orphan |-> TRUE]}
           \cup IF at \in InScript THEN {Script(c)} ELSE {},
         view' \in [status : Statuses, running : BOOLEAN],
         view'.running <=> at \in SigningIn
  PROVE  CodexInv'
<1> USE CodexAssumption DEF CodexInv, CodexTypeOK, CodexAssumption
<1>1. caller' = [caller EXCEPT ![c] = at] /\ caller' \in [Callers -> Points]
  BY DEF Goes
<1>2. \A d \in Callers \ {c} : caller[d] = "idle" /\ caller'[d] = "idle"
  BY <1>1
<1>3. caller'[c] = at
  BY <1>1
<1>4. \A d \in Callers : caller'[d] # "idle" <=> work' = d
  BY <1>2, <1>3
<1>5. ASSUME NEW s \in scripts', ~s.orphan
      PROVE  s = Script(s.by) /\ caller'[s.by] \in InScript
  <2>1. CASE s \in Ended(c)
    <3>1. s \in scripts /\ s # Script(c) /\ s = Script(s.by) /\ caller[s.by] \in InScript
      BY <1>5, <2>1 DEF Ended
    <3>2. s.by = c
      BY <1>2, <3>1 DEF InScript
    <3> QED BY <3>1, <3>2
  <2>2. CASE s = Script(c) /\ at \in InScript
    BY <1>3, <2>2 DEF Script
  <2> QED BY <1>5, <2>1, <2>2
<1>6. scripts' \subseteq [by : Callers, orphan : BOOLEAN]
  <2>1. Ended(c) \subseteq [by : Callers, orphan : BOOLEAN]
    BY DEF Ended
  <2>2. Script(c) \in [by : Callers, orphan : BOOLEAN]
        /\ [by |-> c, orphan |-> TRUE] \in [by : Callers, orphan : BOOLEAN]
    BY DEF Script
  <2> QED BY <2>1, <2>2
<1>7. view'.running <=> \E d \in Callers : caller'[d] \in SigningIn
  BY <1>2, <1>3 DEF SigningIn
<1> QED BY <1>1, <1>4, <1>5, <1>6, <1>7

LEMMA CodexLimits ==
  ASSUME CodexInv, NEW c \in Callers, Limit(c)
  PROVE  CodexInv'
<1> USE DEF Points, InScript, SigningIn
<1>0. /\ caller[c] \in Points
      /\ caller[c] # "idle" => work = c /\ \A d \in Callers \ {c} : caller[d] = "idle"
      /\ caller[c] \notin InScript => Script(c) \notin scripts
      /\ view \in [status : Statuses, running : BOOLEAN]
  BY CodexAssumption DEF CodexInv, CodexTypeOK, CodexAssumption, Script
<1>1. ASSUME NEW outcome \in Outcomes, EndCheck(c, outcome) PROVE CodexInv'
  <2>1. view.running = FALSE
    BY <1>0, <1>1 DEF EndCheck, CodexInv
  <2>2. view' = [status |-> outcome, running |-> FALSE] /\ outcome \in Statuses
    BY <1>1, <2>1 DEF EndCheck, Statuses
  <2>3. scripts' \subseteq Ended(c) \cup {[by |-> c, orphan |-> TRUE]}
    BY <1>1 DEF EndCheck, CutOff
  <2> QED BY <1>0, <1>1, <2>2, <2>3, CodexMoves DEF EndCheck
<1>2. CASE EndModels(c)
  <2>1. scripts' \subseteq Ended(c) \cup {[by |-> c, orphan |-> TRUE]}
    BY <1>2 DEF EndModels, CutOff
  <2>2. view.running = FALSE
    BY <1>0, <1>2 DEF EndModels, CodexInv
  <2> QED BY <1>0, <1>2, <2>1, <2>2, CodexMoves DEF EndModels
<1>3. CASE LoginSucceeds(c)
  <2>1. view.running
    BY <1>3 DEF LoginSucceeds, CodexInv
  <2> QED BY <1>0, <1>3, <2>1, CodexMoves DEF LoginSucceeds
<1>4. CASE LoginFails(c)
  <2>1. scripts' \subseteq Ended(c) \cup {[by |-> c, orphan |-> TRUE]}
    BY <1>4 DEF LoginFails, CutOff
  <2>2. view' \in [status : Statuses, running : BOOLEAN] /\ view'.running = FALSE
    BY <1>4 DEF LoginFails, Finish, FinalView, Statuses, Outcomes
  <2> QED BY <1>0, <1>4, <2>1, <2>2, CodexMoves DEF LoginFails, Finish
<1>5. CASE RestartBridge(c)
  <2>1. view' \in [status : Statuses, running : BOOLEAN] /\ view'.running = FALSE
    BY <1>5 DEF RestartBridge, Finish, FinalView, Statuses, Outcomes
  <2> QED BY <1>0, <1>5, <2>1, CodexMoves DEF RestartBridge, Finish
<1>6. CASE RestartFails(c)
  <2>1. view' \in [status : Statuses, running : BOOLEAN] /\ view'.running = FALSE
    BY <1>6 DEF RestartFails, Finish, FinalView, Statuses, Outcomes
  <2>2. scripts' \subseteq Ended(c)
    BY <1>0, <1>6 DEF RestartFails, Ended
  <2> QED BY <1>0, <1>6, <2>1, <2>2, CodexMoves DEF RestartFails, Finish
<1>7. CASE Done(c)
  <2>1. view.running = FALSE
    BY <1>0, <1>7 DEF Done, CodexInv
  <2>2. scripts' \subseteq Ended(c)
    BY <1>0, <1>7 DEF Done, Ended
  <2> QED BY <1>0, <1>7, <2>1, <2>2, CodexMoves DEF Done
<1> QED BY <1>1, <1>2, <1>3, <1>4, <1>5, <1>6, <1>7 DEF Limit

LEMMA CodexBegins ==
  ASSUME CodexInv, NEW c \in Callers,
         \/ BeginCheck(c) \/ BeginModels(c) \/ Start(c) \/ BeginLogin(c)
         \/ \E line \in Statuses : ReadLine(c, line)
  PROVE  CodexInv'
<1> USE DEF Points, InScript, SigningIn
<1>0. /\ work = Nobody => \A d \in Callers : caller[d] = "idle"
      /\ caller[c] # "idle" => work = c
      /\ view \in [status : Statuses, running : BOOLEAN]
      /\ scripts \subseteq Ended(c) \cup {Script(c)}
  BY CodexAssumption DEF CodexInv, CodexTypeOK, CodexAssumption, Ended
<1>1. CASE BeginCheck(c)
  BY <1>0, <1>1, CodexMoves DEF BeginCheck, WorkIsFree
<1>2. CASE BeginModels(c)
  <2>1. view.running = FALSE
    BY <1>0, <1>2 DEF BeginModels, WorkIsFree, CodexInv
  <2> QED BY <1>0, <1>2, <2>1, CodexMoves DEF BeginModels, WorkIsFree
<1>3. CASE Start(c)
  <2>1. view' = [status |-> "starting", running |-> TRUE] /\ view'.status \in Statuses
    BY <1>3 DEF Start, Statuses
  <2>2. scripts' \subseteq Ended(c)
    BY <1>0, <1>3 DEF Start, WorkIsFree, Ended, CodexInv, Script
  <2> QED BY <1>0, <1>3, <2>1, <2>2, CodexMoves DEF Start, WorkIsFree
<1>4. CASE BeginLogin(c)
  <2>1. view.running
    BY <1>4 DEF BeginLogin, CodexInv
  <2> QED BY <1>0, <1>4, <2>1, CodexMoves DEF BeginLogin
<1>5. ASSUME NEW line \in Statuses, ReadLine(c, line) PROVE CodexInv'
  <2>1. view' = [status |-> line, running |-> TRUE]
    BY <1>5 DEF ReadLine, LineShown
  <2> QED BY <1>0, <1>5, <2>1, CodexMoves DEF ReadLine
<1> QED BY <1>1, <1>2, <1>3, <1>4, <1>5

\* A script nobody waits for ends; the process ends, and its scripts are left.
LEMMA CodexEnds ==
  ASSUME CodexInv, ProcessEnds \/ \E s \in scripts : OrphanEnds(s)
  PROVE  CodexInv'
<1> USE DEF CodexInv, CodexTypeOK
<1>1. CASE ProcessEnds
  <2>1. \A s \in scripts' : s \in [by : Callers, orphan : BOOLEAN] /\ s.orphan
    <3> DEFINE left(s) == [s EXCEPT !.orphan = TRUE]
    <3>1. \A s \in scripts : left(s) \in [by : Callers, orphan : BOOLEAN] /\ left(s).orphan
      OBVIOUS
    <3>2. scripts' = {left(s) : s \in scripts}
      BY <1>1 DEF ProcessEnds
    <3> HIDE DEF left
    <3> QED BY <3>1, <3>2
  <2>2. caller' = [c \in Callers |-> "idle"] /\ work' = Nobody
        /\ view' = [status |-> "unknown", running |-> FALSE]
    BY <1>1 DEF ProcessEnds
  <2> QED BY <2>1, <2>2, CodexAssumption DEF CodexAssumption, Points, Statuses, SigningIn
<1>2. ASSUME NEW s \in scripts, OrphanEnds(s) PROVE CodexInv'
  BY <1>2 DEF OrphanEnds
<1> QED BY <1>1, <1>2

LEMMA CodexStep ==
  CodexInv /\ (CodexNext \/ ProcessEnds \/ UNCHANGED codexVars) => CodexInv'
<1> SUFFICES ASSUME CodexInv, CodexNext \/ ProcessEnds \/ UNCHANGED codexVars PROVE CodexInv'
  OBVIOUS
<1>1. CASE UNCHANGED codexVars
  BY <1>1 DEF codexVars, CodexInv, CodexTypeOK
<1> QED BY <1>1, CodexLimits, CodexBegins, CodexEnds DEF CodexNext

LEMMA CodexPromises == CodexInv => CodexTypeOK /\ OneScriptAtATime /\ SignInIsShown
<1> SUFFICES ASSUME CodexInv PROVE OneScriptAtATime /\ SignInIsShown
  BY DEF CodexInv
<1>1. ASSUME NEW s \in scripts, NEW t \in scripts, ~s.orphan, ~t.orphan PROVE s = t
  BY <1>1 DEF CodexInv, CodexTypeOK, InScript
<1> QED BY <1>1 DEF CodexInv, SigningIn, OneScriptAtATime, SignInIsShown

-----------------------------------------------------------------------------
(* The host                                                                *)

\* What the helper does while the process runs on leaves it running.
LEMMA QuietKeepsRunning ==
  ASSUME UpdaterInv, HelperQuiet \/ Push \/ ManagerStep \/ StartByHand, Running
  PROVE  Running'
<1> USE Consts DEF UpdaterInv, TypeOK, ServiceOK, BinaryOK, Running, Within
<1>1. CASE Push \/ ManagerStep \/ StartByHand
  <2>1. manager \in Manager
    OBVIOUS
  <2>2. UNCHANGED manager \/ manager' \in Manager
    BY <1>1, <2>1 DEF Push, ManagerStep, CheckMain, Install, InstallFails, PendingAges,
       StatusAges, StartByHand, Manager, Ages
  <2> QED BY <2>2
<1>2. CASE StartService \/ StartFails
  BY <1>2 DEF StartService, StartFails
<1>3. CASE Retain
  BY <1>3, ServiceIs DEF Retain, ServiceRetained
<1> QED BY <1>1, <1>2, <1>3 DEF HelperQuiet, Begin, ReadRequest, Clone, Build, Dump, CopyBinary,
           CopyFails, Replace, CheckHealth, CommandFails, Rollback, ReportRestored, Halt

\* Nobody is signing in, checking or listing while the process is down.
Quiet == ~Running => work = Nobody

HostInv == UpdaterInv /\ CodexInv /\ Quiet

\* A step of the host is one of the updater and one of the sign-in.
LEMMA HostSteps ==
  ASSUME [HostNext]_hostVars
  PROVE  [Next]_vars /\ (CodexNext \/ ProcessEnds \/ UNCHANGED codexVars)
<1>1. CASE HostHelperStep
  BY <1>1 DEF HostHelperStep, bridgeVars, codexVars, Next, HelperStep
<1>2. CASE Restart /\ ProcessEnds
  BY <1>2 DEF Next
<1>3. CASE (Push \/ ManagerStep \/ StartByHand) /\ UNCHANGED bridgeVars
  BY <1>3 DEF bridgeVars, codexVars, Next
<1>4. CASE UNCHANGED hostVars
  BY <1>4 DEF hostVars, bridgeVars, codexVars
<1> QED BY <1>1, <1>2, <1>3, <1>4 DEF HostNext

LEMMA HostStart == HostInit => HostInv
  BY UpdaterInit, CodexStart DEF HostInit, HostInv, Quiet, CodexInit

LEMMA HostInvNext == HostInv /\ [HostNext]_hostVars => HostInv'
<1> SUFFICES ASSUME HostInv, [HostNext]_hostVars PROVE HostInv'
  OBVIOUS
<1>1. UpdaterInv' /\ CodexInv'
  BY HostSteps, UpdaterNext, CodexStep DEF HostInv
<1>2. Quiet'
  <2>1. CASE ProcessEnds
    BY <2>1 DEF ProcessEnds, Quiet
  <2>2. CASE Running /\ CodexNext /\ UNCHANGED vars
    BY <2>2 DEF Quiet, Running, vars
  <2>3. CASE (HelperQuiet \/ Push \/ ManagerStep \/ StartByHand) /\ UNCHANGED bridgeVars
    BY <2>3, QuietKeepsRunning DEF HostInv, Quiet, bridgeVars
  <2>4. CASE UNCHANGED hostVars
    BY <2>4 DEF HostInv, Quiet, Running, hostVars, vars, bridgeVars
  <2> QED BY <2>1, <2>2, <2>3, <2>4 DEF HostNext, HostHelperStep
<1> QED BY <1>1, <1>2 DEF HostInv

LEMMA HostInvariant == HostSpec => []HostInv
  BY HostStart, HostInvNext, PTL DEF HostSpec

\* The types of the updater's state hold in every update (manager.go and
\* update-host.py).
THEOREM TypeCorrect == HostSpec => []TypeOK
  BY HostInvariant, UpdaterPromises, PTL DEF HostInv

\* Only a revision somebody asked for is installed, however main and the request
\* move on meanwhile (update-host.py verifies the revision it has cloned).
THEOREM OnlyAskedIsInstalled == HostSpec => []InstalledWasAsked
  BY HostInvariant, UpdaterPromises, PTL DEF HostInv

\* A helper has started the service again, whichever of its commands failed after
\* it stopped it (the except clause of update-host.py), unless it was stopped
\* itself, its recovery failed, the binary does not run, or a stop took effect and
\* reported a failure.
THEOREM TheServiceIsStartedAgain == HostSpec => []ServiceIsStartedAgain
  BY HostInvariant, UpdaterPromises, PTL DEF HostInv

\* What an update reports of the binary is so until the next one begins (complete,
\* and the except clause of update-host.py), whichever command failed and wherever
\* a helper was stopped, unless the backup was copied in part.
THEOREM ReportsAreTrue == HostSpec => []OutcomeIsTrue
  BY HostInvariant, UpdaterPromises, PTL DEF HostInv

\* Scripts that Toolmux still waits for are one at most (Codex.work).
THEOREM OneScript == HostSpec => []OneScriptAtATime
  BY HostInvariant, CodexPromises, PTL DEF HostInv

\* The page shows a sign-in exactly while there is one (Check and Start in
\* codex.go).
THEOREM TheSignInIsShown == HostSpec => []SignInIsShown
  BY HostInvariant, CodexPromises, PTL DEF HostInv

\* A stopped service holds nothing: the mutex of the next process is free and
\* its page shows no sign-in, so that one cut off by an update can be repeated.
THEOREM ASignInEndsWithTheService == HostSpec => [](~Running => work = Nobody /\ ~view.running)
<1>1. HostInv => (~Running => work = Nobody /\ ~view.running)
  BY CodexAssumption DEF HostInv, Quiet, CodexInv, SigningIn, CodexAssumption
<1> QED BY <1>1, HostInvariant, PTL
=============================================================================
