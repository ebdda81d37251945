-------------------------------- MODULE Host --------------------------------
(***************************************************************************)
(* The native host: the Toolmux process with the update manager (Updater)  *)
(* and the Codex sign-in (Codex), the update helper and the model bridge.  *)
(* Whenever the process ends, for an update or otherwise, the sign-in in   *)
(* it ends too, and what it ran in the bridge is left behind.              *)
(***************************************************************************)
EXTENDS Updater, Codex

bridgeVars == <<work, view, caller, scripts>>
hostVars == <<vars, bridgeVars>>

HostInit == Init /\ CodexInit

\* A step of the helper, with what it does to the process.
HostHelperStep ==
  \/ HelperQuiet /\ UNCHANGED bridgeVars
  \/ HelperStops /\ ProcessEnds

HostNext ==
  \/ HostHelperStep
  \/ Restart /\ ProcessEnds
  \/ (Push \/ ManagerStep \/ StartByHand) /\ UNCHANGED bridgeVars
  \/ Running /\ CodexNext /\ UNCHANGED vars

\* Besides what Updater assumes: every command in the bridge has a time limit.
HostSpec ==
  /\ HostInit /\ [][HostNext]_hostVars
  /\ WF_hostVars(HostHelperStep)
  /\ WF_hostVars(StatusAges /\ UNCHANGED bridgeVars)
  /\ WF_hostVars(PendingAges /\ UNCHANGED bridgeVars)
  /\ \A c \in Callers : WF_hostVars(Running /\ Limit(c) /\ UNCHANGED vars)

-----------------------------------------------------------------------------
\* A sign-in that was started ends, within the 16 minutes it has, and makes
\* room for the next (Start), whether or not an update comes in between.
SignInEnds == view.running ~> ~view.running
=============================================================================
