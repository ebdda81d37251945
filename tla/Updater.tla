------------------------------ MODULE Updater ------------------------------
(***************************************************************************)
(* Updates from the dashboard on a native host: the manager inside the    *)
(* Toolmux process, which looks for a new revision of GitHub's main and   *)
(* accepts an installation, and the privileged helper that systemd runs   *)
(* for it, which builds that revision, stops the service, backs up the    *)
(* database and the binary, replaces the binary and starts the service,    *)
(* or puts back what was there.  A step of the helper is one command; any *)
(* command may fail, and the helper may be stopped at any time, by the    *)
(* unit's time limit or with the host.                                     *)
(***************************************************************************)
EXTENDS Naturals

CONSTANTS
  Last,    \* the last revision pushed to main; the first installed one is 0
  Bad,     \* revisions that do not pass the startup checks
  Partial, \* a binary that was not copied to the end
  None     \* no file, no revision, no process

Revisions == 0 .. Last
Contents == Revisions \cup {Partial}

VARIABLES
  main,     \* the revision GitHub's main is at
  binary,   \* /usr/local/bin/toolmux
  backup,   \* the last file backups/<stamp>.binary
  manager,  \* the Toolmux process with its Manager, or None
  request,  \* the file update-request
  status,   \* the file status.json
  helper,   \* the run of update-host.py
  prior,    \* history: the binary when the helper began
  asked,    \* history: the revisions administrators asked for
  halted,   \* history: a helper was stopped, or failed to put things back
  unseen    \* history: a failed command had stopped the service all the same

vars == <<main, binary, backup, manager, request, status, helper, prior,
          asked, halted, unseen>>

-----------------------------------------------------------------------------
\* A failure reports the existing binary retained, or the previous restored.
Phases == {"none", "running", "complete", "retained", "restored"}
Status == [phase : Phases, stale : BOOLEAN]  \* stale: older than 46 minutes

\* How long ago Install set pending: less than 30 s, less than a minute, more.
Ages == {"starting", "recent", "past"}
Manager == [current : Revisions,
            latest  : Revisions \cup {None},
            pending : Ages]

ASSUME UpdaterAssumption ==
  /\ Last \in Nat
  /\ Bad \subseteq 1 .. Last
  /\ Partial \notin Revisions
  /\ None \notin Contents \cup Manager

Started(rev) == [current |-> rev, latest |-> None, pending |-> "past"]

\* systemd starts what the binary is; a partial one does not run.
ServiceOf(content) == IF content = Partial THEN None ELSE Started(content)

Commands == {"request", "clone", "build", "stop", "dump", "copy", "replace",
             "start", "health"}
Helper == [at       : Commands \cup {"idle", "begin", "except", "restart", "recheck"},
           revision : Revisions \cup {None},
           stopped  : BOOLEAN,
           previous : BOOLEAN]  \* the variable previous is set
Asleep == [at |-> "idle", revision |-> None, stopped |-> FALSE, previous |-> FALSE]

Running == manager # None

Init ==
  /\ main = 0
  /\ binary = 0
  /\ backup = None
  /\ manager = Started(0)
  /\ request = None
  /\ status = [phase |-> "none", stale |-> FALSE]
  /\ helper = Asleep
  /\ prior = 0
  /\ asked = {}
  /\ halted = FALSE
  /\ unseen = FALSE

Report(phase) == status' = [phase |-> phase, stale |-> FALSE]

-----------------------------------------------------------------------------
(* The manager                                                             *)

Push ==
  /\ main < Last
  /\ main' = main + 1
  /\ UNCHANGED <<binary, backup, manager, request, status, helper, prior, asked, halted, unseen>>

\* A failed check keeps what an earlier one found, which is what this leaves out.
CheckMain ==
  /\ Running
  /\ manager' = [manager EXCEPT !.latest = main]
  /\ UNCHANGED <<main, binary, backup, request, status, helper, prior, asked, halted, unseen>>

\* A phase that is trusted however old it is.
PhaseOnly == status.phase = "running" \/ manager.pending = "starting"

\* What View shows as a running update.
ViewRunning ==
  \/ status.phase = "running" /\ ~status.stale
  \/ manager.pending = "starting"

CanInstall(rev) ==
  /\ Running
  /\ rev = manager.latest
  /\ rev # manager.current
  /\ ~ViewRunning
  /\ manager.pending = "past"

\* Starting a unit that is active already changes nothing.
Install(rev) ==
  /\ CanInstall(rev)
  /\ request' = rev
  /\ helper' = IF helper.at = "idle" THEN [helper EXCEPT !.at = "begin"] ELSE helper
  /\ manager' = [manager EXCEPT !.pending = "starting"]
  /\ asked' = asked \cup {rev}
  /\ UNCHANGED <<main, binary, backup, status, prior, halted, unseen>>

\* The request is written and the unit cannot be started.
InstallFails(rev) ==
  /\ CanInstall(rev)
  /\ request' = rev
  /\ asked' = asked \cup {rev}
  /\ UNCHANGED <<main, binary, backup, manager, status, helper, prior, halted, unseen>>

PendingAges ==
  /\ Running
  /\ manager.pending # "past"
  /\ manager' = [manager EXCEPT !.pending = IF @ = "starting" THEN "recent" ELSE "past"]
  /\ UNCHANGED <<main, binary, backup, request, status, helper, prior, asked, halted, unseen>>

\* The unit's time limit is 45 minutes, so a status that old is of no helper.
StatusAges ==
  /\ status.phase = "running"
  /\ ~status.stale
  /\ helper.at = "idle"
  /\ status' = [status EXCEPT !.stale = TRUE]
  /\ UNCHANGED <<main, binary, backup, manager, request, helper, prior, asked, halted, unseen>>

\* The process ends and systemd restarts it.
Restart ==
  /\ Running
  /\ manager' = ServiceOf(binary)
  /\ UNCHANGED <<main, binary, backup, request, status, helper, prior, asked, halted, unseen>>

-----------------------------------------------------------------------------
(* The helper                                                              *)

Proceed(at) == helper' = [helper EXCEPT !.at = at]

Begin ==
  /\ helper.at = "begin"
  /\ Report("running")
  /\ Proceed("request")
  /\ prior' = binary
  /\ halted' = FALSE
  /\ UNCHANGED <<main, binary, backup, manager, request, asked, unseen>>

ReadRequest ==
  /\ helper.at = "request"
  /\ helper' = [helper EXCEPT !.at = "clone", !.revision = request]
  /\ UNCHANGED <<main, binary, backup, manager, request, status, prior, asked, halted, unseen>>

\* A helper that builds whatever main is at.
BuildsMain(rev) == main

\* The clone of main must be at the revision that was requested.
Verified(rev) == IF main = rev THEN rev ELSE None

Clone ==
  /\ helper.at = "clone"
  /\ LET cloned == Verified(helper.revision)
     IN helper' = [helper EXCEPT !.at = IF cloned = None THEN "except" ELSE "build",
                                 !.revision = IF cloned = None THEN @ ELSE cloned]
  /\ UNCHANGED <<main, binary, backup, manager, request, status, prior, asked, halted, unseen>>

\* docker build, the copy of the binary beside the installed one, its trial.
Build ==
  /\ helper.at = "build"
  /\ Report("running")
  /\ Proceed("stop")
  /\ UNCHANGED <<main, binary, backup, manager, request, prior, asked, halted, unseen>>

StopService ==
  /\ helper.at = "stop"
  /\ Report("running")
  /\ manager' = None
  /\ helper' = [helper EXCEPT !.at = "dump", !.stopped = TRUE]
  /\ UNCHANGED <<main, binary, backup, request, prior, asked, halted, unseen>>

\* pg_dump; then the name of the backup is assigned before the copy is made.
Dump ==
  /\ helper.at = "dump"
  /\ helper' = [helper EXCEPT !.at = "copy", !.previous = TRUE]
  /\ backup' = None
  /\ UNCHANGED <<main, binary, manager, request, status, prior, asked, halted, unseen>>

CopyBinary ==
  /\ helper.at = "copy"
  /\ backup' = binary
  /\ Proceed("replace")
  /\ UNCHANGED <<main, binary, manager, request, status, prior, asked, halted, unseen>>

\* The disk is full: part of the copy is there, or nothing.
CopyFails(content) ==
  /\ helper.at = "copy"
  /\ backup' = content
  /\ Proceed("except")
  /\ UNCHANGED <<main, binary, manager, request, status, prior, asked, halted, unseen>>

Replace ==
  /\ helper.at = "replace"
  /\ binary' = helper.revision
  /\ Proceed("start")
  /\ UNCHANGED <<main, backup, manager, request, status, prior, asked, halted, unseen>>

StartService ==
  /\ helper.at = "start"
  /\ manager' = ServiceOf(binary)
  /\ helper' = [helper EXCEPT !.at = "health", !.stopped = FALSE]
  /\ UNCHANGED <<main, binary, backup, request, status, prior, asked, halted, unseen>>

\* The startup checks can pass only of a service that runs and is not bad.
Healthy == Running /\ manager.current \notin Bad

CheckHealth ==
  /\ helper.at = "health"
  /\ Healthy
  /\ Report("complete")
  /\ helper' = Asleep
  /\ UNCHANGED <<main, binary, backup, manager, request, prior, asked, halted, unseen>>

\* systemctl reports a failure, or takes too long, of a stop that takes effect: the
\* helper does not know that it has stopped the service.
StopFails ==
  /\ helper.at = "stop"
  /\ Report("running")
  /\ manager' = None
  /\ unseen' = TRUE
  /\ Proceed("except")
  /\ UNCHANGED <<main, binary, backup, request, prior, asked, halted>>

\* So it may of a start.
StartFails ==
  /\ helper.at = "start"
  /\ manager' = ServiceOf(binary)
  /\ Proceed("except")
  /\ UNCHANGED <<main, binary, backup, request, status, prior, asked, halted, unseen>>

\* Any command but the copy fails without an effect, or the startup checks do.
CommandFails ==
  /\ helper.at \in Commands \ {"copy"}
  /\ Proceed("except")
  /\ UNCHANGED <<main, binary, backup, manager, request, status, prior, asked, halted, unseen>>

\* A recovery that leaves the service as it is.
ServiceAsItIs == manager

\* Without a backup the service is started if it was stopped.
ServiceRetained == IF helper.stopped THEN ServiceOf(binary) ELSE manager

Retain ==
  /\ helper.at = "except"
  /\ ~helper.previous
  /\ manager' = ServiceRetained
  /\ Report("retained")
  /\ helper' = Asleep
  /\ UNCHANGED <<main, binary, backup, request, prior, asked, halted, unseen>>

\* A rollback that keeps the new binary.
NewBinary == binary

\* The backup is copied beside the binary and takes its place.
RestoredBinary == backup

Rollback ==
  /\ helper.at = "except"
  /\ helper.previous
  /\ backup # None
  /\ binary' = RestoredBinary
  /\ Proceed("restart")
  /\ UNCHANGED <<main, backup, manager, request, status, prior, asked, halted, unseen>>

RestartService ==
  /\ helper.at = "restart"
  /\ manager' = ServiceOf(binary)
  /\ Proceed("recheck")
  /\ UNCHANGED <<main, binary, backup, request, status, prior, asked, halted, unseen>>

\* The message says so whether the service recovered or not.
ReportRestored ==
  /\ helper.at = "recheck"
  /\ Report("restored")
  /\ helper' = Asleep
  /\ UNCHANGED <<main, binary, backup, manager, request, prior, asked, halted, unseen>>

\* The helper is stopped, or the recovery itself fails: nothing more is done.
Halt ==
  /\ helper.at # "idle"
  /\ helper' = Asleep
  /\ halted' = TRUE
  /\ UNCHANGED <<main, binary, backup, manager, request, status, prior, asked, unseen>>

\* Somebody on the host starts the service again, with a binary that runs.
StartByHand ==
  /\ ~Running
  /\ helper.at = "idle"
  /\ binary' = IF binary = Partial THEN prior ELSE binary
  /\ manager' = ServiceOf(binary')
  /\ halted' = FALSE /\ unseen' = FALSE
  /\ UNCHANGED <<main, backup, request, status, helper, prior, asked>>

-----------------------------------------------------------------------------
\* The steps of the helper in which the Toolmux process does not end ...
HelperQuiet ==
  \/ Begin \/ ReadRequest \/ Clone \/ Build \/ Dump
  \/ CopyBinary \/ (\E content \in {Partial, None} : CopyFails(content))
  \/ Replace \/ StartService \/ StartFails \/ CheckHealth \/ CommandFails
  \/ Retain \/ Rollback \/ ReportRestored \/ Halt

\* ... and those in which it does.
HelperStops == StopService \/ StopFails \/ RestartService

HelperStep == HelperQuiet \/ HelperStops

ManagerStep ==
  \/ CheckMain
  \/ \E rev \in Revisions : Install(rev) \/ InstallFails(rev)
  \/ PendingAges \/ StatusAges

Next == Push \/ ManagerStep \/ Restart \/ HelperStep \/ StartByHand

\* The helper's commands have time limits, time passes, and systemd keeps the
\* process running.
Fairness == WF_vars(HelperStep) /\ WF_vars(StatusAges) /\ WF_vars(PendingAges)

Spec == Init /\ [][Next]_vars /\ Fairness

-----------------------------------------------------------------------------
(* What an update promises                                                 *)

TypeOK ==
  /\ main \in Revisions
  /\ binary \in Contents
  /\ backup \in Contents \cup {None}
  /\ manager \in Manager \cup {None}
  /\ request \in Revisions \cup {None}
  /\ status \in Status
  /\ helper \in Helper
  /\ prior \in Revisions
  /\ asked \subseteq Revisions
  /\ halted \in BOOLEAN /\ unseen \in BOOLEAN

\* Only a revision an administrator asked for is ever installed, although
\* main moves on and the request is overwritten meanwhile ("verifies the
\* requested revision is still GitHub main", UPDATES.md).
InstalledWasAsked == binary \in asked \cup {0, Partial}

\* The service is stopped only while the helper is at work between stopping and
\* starting it, whichever command fails there.  The exceptions are a helper that
\* was stopped itself or whose recovery failed, a binary that does not run, and a
\* stop that took effect and reported a failure: the helper leaves the service
\* down then, and says that the existing version is retained.
ServiceIsStartedAgain ==
  ~Running => \/ helper.stopped
              \/ halted
              \/ binary = Partial
              \/ unseen

\* "Update installed successfully" is said of a binary that passed its startup
\* checks, and a failure leaves the binary from before the update, also when the
\* helper or a later one is stopped.  The exception is a backup that was copied in
\* part: the part replaces the binary, and the report says otherwise
\* (FailureKeepsBinary).
OutcomeIsTrue ==
  helper.at = "idle" =>
    /\ status.phase = "complete" => binary \notin Bad /\ binary # Partial
    /\ status.phase \in {"retained", "restored"} => binary = prior \/ backup = Partial

\* An update that was cut off blocks the next one for 46 minutes, not for good:
\* that the status says running does not stay true (View).  It is not about the
\* minute for which a request that was just made is pending.
UpdatesUnblock == []<>(Running => ~ViewRunning)

-----------------------------------------------------------------------------
(* What the texts say and the helper does not keep                         *)

\* "Update failed. Previous binary restored" and "Existing version retained":
\* after a reported failure the binary is the one from before the update.
FailureKeepsBinary ==
  helper.at = "idle" /\ status.phase \in {"retained", "restored"} => binary = prior
=============================================================================
