CONSTANTS
  c1 = c1
  c2 = c2
  o1 = o1
  o2 = o2
  a1 = a1
  a2 = a2
  w1 = w1
  w2 = w2
  Subjects = {c1}
  Deletable = {c1}
  Found = {"connected", "reauthorization_required", "unreachable"}
  Observers = {o1, o2}
  Operators = {a1}
  Workers = {}
  Batch = 1
  MaxMessages = 2
  MaxSaves = 2
  NoSubject = NoSubject
SYMMETRY Symmetry
SPECIFICATION Spec
INVARIANT OneAlertPerProblem
INVARIANT MarkedAlertIsKept
INVARIANT ProblemIsAlerted
