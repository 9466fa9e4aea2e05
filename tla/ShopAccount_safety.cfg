SPECIFICATION Spec
CONSTANTS
  c1 = c1
  c2 = c2
  w1 = w1
  d1 = d1
  None = None
  Checkouts = {c1, c2}
  Syncs = {w1}
  Desks = {d1}
  DeskKinds = {"delete", "override"}
  Live = {"active"}
  MaxChanges = 1
  MaxFailures = 1
  Latest = 1
  Period = 1
  Overrides <- OverridesMC
SYMMETRY Alike
INVARIANTS TypeOK PaidIsOpen CreditOnce
PROPERTIES DeskStands
CHECK_DEADLOCK FALSE
