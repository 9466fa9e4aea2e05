SPECIFICATION Spec
CONSTANTS
  a1 = a1
  a2 = a2
  v1 = v1
  v2 = v2
  v3 = v3
  u1 = u1
  u2 = u2
  o1 = o1
  w1 = w1
  None = None
  Attempts = {a1, a2}
  Visits = {v1, v2, v3}
  AttemptOf <- TwoTabs
  SignOuts = {o1}
  Users = {u1, u2}
  Workers = {w1}
  Limit = 2
  CodeLife = 1
  StateLife = 1
  MaxTime = 2
SYMMETRY Accounts
INVARIANTS TypeOK GrantedOnce RefusalsJustified
PROPERTIES KeepsLogin
CHECK_DEADLOCK FALSE
