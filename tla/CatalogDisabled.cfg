CONSTANTS
  a1 = a1
  c1 = c1
  c2 = c2
  n1 = n1
  n2 = n2
  s1 = s1
  s2 = s2
  s3 = s3
  h1 = h1
  h2 = h2
  Agents = {a1}
  Conns = {c1}
  Declared = {}
  Sourced = {}
  Names = {n1}
  Slugs = {s1, s2}
  Handlers = {h1}
  Failures = {"unreachable", "reauthorization_required"}
  None = None
SPECIFICATION Spec
SYMMETRY Symmetry
PROPERTY DisabledUntilResumed
CHECK_DEADLOCK FALSE
