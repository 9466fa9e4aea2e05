SPECIFICATION Spec
CONSTANTS
  p1 = p1
  p2 = p2
  v1 = v1
  v2 = v2
  o1 = o1
  r1 = r1
  r2 = r2
  s1 = s1
  None = None
  Persons = {p1, p2}
  Visits = {v1, v2}
  Saves = {o1}
  Saved = {p1}
  OldRows = {r1, r2}
  Shifts = {s1}
  KeyOf <- MCKeyOf
  MailOf <- MCMailOf
  RowOf <- MCRowOf
  Hints = {"CONSUMER", "STAFF"}
  MaxUses = 1
INVARIANTS MembershipStays OwnSchedule
PROPERTIES InviteHonoured
SYMMETRY Alike
CHECK_DEADLOCK FALSE
