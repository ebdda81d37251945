CONSTANTS
  c1 = c1
  c2 = c2
  o1 = o1
  o2 = o2
  a1 = a1
  a2 = a2
  w1 = w1
  w2 = w2
  Subjects = {c1}
  Deletable = {}
  Found = {"connected", "reauthorization_required"}
  Observers = {o1}
  Operators = {a1}
  Workers = {w1, w2}
  Batch = 2
  MaxMessages = 1
  MaxSaves = 1
  NoSubject = NoSubject
SYMMETRY Symmetry
SPECIFICATION Spec
INVARIANT NoDuplicateDelivery
INVARIANT ThreeAttempts
INVARIANT OldMessagesStayBehind
