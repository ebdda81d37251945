CONSTANTS
  c1 = c1
  Calls = {c1}
  LastTool = 2
  PageSize = 1
  Attempts = 3
  None = None
SPECIFICATION Spec
PROPERTY ImplementsInvocations
INVARIANT RunsOnceIfGranted
INVARIANT OutcomeIsAudited
INVARIANT NothingIsLeftOpen
INVARIANT ListingIsComplete
PROPERTY CallsEnd
