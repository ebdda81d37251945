CONSTANTS
  Last = 2
  Bad = {1}
  Partial = Partial
  None = None
SPECIFICATION Spec
INVARIANT FailureKeepsBinary
