SPECIFICATION Spec
CONSTANTS
  Flex = Flex
  None = None
  Resources = {"r1", "r2"}
  Requests = {q1, q2}
  Posts <- MCPosts
  OldRows <- MCOldRows
  Orders <- MCOrders
  Cores <- MCCores
  DayLen = 4
  Night = 1
  Week = 2
  Lead = 4
  Buffer = 1
  Latest = 1
  MaxOrders = 2
INVARIANTS TypeOK RowsApart
PROPERTIES WeekTakesEffect FormShowsSaved
SYMMETRY Symm
CHECK_DEADLOCK FALSE
