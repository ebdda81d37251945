CONSTANTS
  a1 = a1
  c1 = c1
  c2 = c2
  n1 = n1
  n2 = n2
  s1 = s1
  s2 = s2
  s3 = s3
  h1 = h1
  h2 = h2
  Agents = {a1}
  Conns = {c1, c2}
  Declared = {c2}
  Sourced = {c2}
  Names = {n1}
  Slugs = {s1, s2}
  Handlers = {h1, h2}
  Failures = {"unreachable"}
  None = None
SPECIFICATION Spec
SYMMETRY Symmetry
INVARIANT AssignedHoldsEveryEnabledTool
INVARIANT NamesFollowSlugUnlessRaced
INVARIANT WithheldStaysWithheld
INVARIANT ChosenStaysGranted
PROPERTY NewGrantsAreJustified
CHECK_DEADLOCK FALSE
