CONSTANTS
  m1 = m1
  d1 = d1
  s1 = s1
  Last = 2
  Bad = {1}
  Partial = Partial
  None = None
  Nobody = Nobody
  Monitors = {m1}
  Listers = {d1}
  SignIns = {s1}
SPECIFICATION HostSpec
INVARIANT InstalledWasAsked
INVARIANT ServiceIsStartedAgain
INVARIANT OutcomeIsTrue
INVARIANT OneScriptAtATime
INVARIANT SignInIsShown
PROPERTY UpdatesUnblock
PROPERTY SignInEnds
