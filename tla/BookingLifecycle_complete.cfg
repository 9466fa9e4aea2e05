SPECIFICATION LifeSpec
CONSTANTS
  h1 = h1
  h2 = h2
  h3 = h3
  Absent = Absent
  Handlers = {h1, h2}
  Start = 4
  Window = 3
SYMMETRY Symmetry
PROPERTY CompletedOnlyFromConfirmed
CHECK_DEADLOCK FALSE
