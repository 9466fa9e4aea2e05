SPECIFICATION OfferSpec
CONSTANTS
  Latest = 8
  Shifts <- ShiftsMC
  Durations = {2, 3}
  Courses = {2}
  Lead = 2
  Window = 6
  Limit = 2
  Buffer = 2
  MinSlot = 2
  MaxBookings = 2
INVARIANTS OfferedIsBookable BookableIsOffered SearchAgrees CalendarAgrees
