SPECIFICATION FairSpec
CONSTANTS
  b1 = b1
  b2 = b2
  None = None
  Bookings = {b1, b2}
  MaxRetries = 1
  MaxNotices <- MailBounds
  Settings <- AnyOf
INVARIANTS NoFlood ToldInOrder NoticesJustified
PROPERTIES DeletedStaysQuiet EveryTaskSettles
CHECK_DEADLOCK FALSE
