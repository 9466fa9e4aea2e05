SPECIFICATION FairSpec
CONSTANTS
  t1 = t1
  t2 = t2
  e1 = e1
  None = None
  NoEmail = NoEmail
  Threads = {t1, t2}
  Readers = {t1}
  Emails = {e1}
  Roles = {"ADMIN", "CONSUMER"}
  CacheLife = 2
  MaxChanges = 2
  MaxFailures = 1
PROPERTIES Settles
CHECK_DEADLOCK FALSE
