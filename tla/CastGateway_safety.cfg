SPECIFICATION FairSpec
CONSTANTS
  t1 = t1
  t2 = t2
  l1 = l1
  k1 = k1
  k2 = k2
  a = a
  b = b
  None = None
  Threads = {t1, t2}
  Logins = {t1}
  Late = {l1}
  Clicks = {k1, k2}
  Views <- MCViews
  FirstView <- MCFirst
  MaxEdits = 1
  MaxChanges = 3
  MaxFailures = 1
INVARIANTS AnswersStayTrue
PROPERTIES CastSettles
CHECK_DEADLOCK FALSE
