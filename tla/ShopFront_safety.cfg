SPECIFICATION Spec
CONSTANTS
  t1 = t1
  t2 = t2
  s1 = s1
  s2 = s2
  a = a
  b = b
  None = None
  Gone = Gone
  People = {"owner", "admin"}
  Admin = "admin"
  Tabs = {t1, t2}
  Shops = {s1, s2}
  Slugs = {a, b}
  Resources = {"r"}
  Services = {"v"}
  Customers = {"c"}
  Durations = {1, 2}
  DefaultMinutes = 1
 
PROPERTIES BookedAsShown
SYMMETRY Symm
CHECK_DEADLOCK FALSE
