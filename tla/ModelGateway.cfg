CONSTANTS
  r1 = r1
  r2 = r2
  s1 = s1
  s2 = s2
  k1 = k1
  k2 = k2
  e1 = e1
  e2 = e2
  e3 = e3
  Requests = {r1, r2}
  Settings = {s1, s2}
  OAuth2 = {s1}
  Keys = {k1, k2}
  Entries = {e1, e2, e3}
  CacheLimit = 1
  None = None
SPECIFICATION Spec
SYMMETRY Symmetry
INVARIANT UsesOwnToken
INVARIANT OneExchange
INVARIANT ServedWasAvailable
INVARIANT ModelsStayAvailable
