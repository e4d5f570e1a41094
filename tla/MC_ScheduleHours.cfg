SPECIFICATION Spec
CONSTANTS
  i1 = i1
  i2 = i2
  h1 = h1
  h2 = h2
  r1 = r1
  r2 = r2
  Date = {"d1"}
  Id = {i1, i2}
  Hours = {h1, h2}
  Request = {r1, r2}
  MaxTime = 2
  MaxEvents = 3
  Gone = Gone
  NoRow = NoRow
  Idle = Idle
  NoEvent = NoEvent
INVARIANTS
  DayHoursMatch
PROPERTIES
  DeletedStaysDeleted
SYMMETRY MCSymmetry
