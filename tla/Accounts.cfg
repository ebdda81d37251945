CONSTANTS
  u1 = u1
  u2 = u2
  p1 = p1
  p2 = p2
  t1 = t1
  t2 = t2
  r1 = r1
  r2 = r2
  Users = {u1, u2}
  Roles = {"admin", "viewer"}
  Passwords = {p1, p2}
  Tokens = {t1, t2}
  Requests = {r1, r2}
  LoginLimit = 2
  None = None
SPECIFICATION Spec
SYMMETRY Symmetry
INVARIANT SessionsFollowChanges
PROPERTY PasswordChangesAreCompared
PROPERTY ImplementsRegister
