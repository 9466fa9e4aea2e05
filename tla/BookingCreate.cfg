SPECIFICATION FairSpec
CONSTANTS
  t1 = t1
  r1 = r1
  r2 = r2
  c1 = c1
  c2 = c2
  e1 = e1
  None = None
  Tenants = {t1}
  Resources = {r1, r2}
  TenantOf <- TenantOfMC
  Creators = {c1, c2}
  Editors = {e1}
  Slots = {1, 2}
  SlotOf <- SlotOfTwo
  RecurringSlots = {1, 2}
  Requests <- RequestsTwo
  Buffer = 1
INVARIANTS TypeOK NoDoubleBooking EnqueuedAfterCommit
PROPERTIES ConfirmedWhenCovered OutsideAnswerIsTrue ImplementsLedger EveryRequestAnswered
CHECK_DEADLOCK FALSE
