SPECIFICATION SpecR
CONSTANTS
  b1 = b1
  b2 = b2
  p1 = p1
  p2 = p2
  Booking = {b1, b2}
  Barber = {"k1"}
  Phone = {ph1, ph2}
  ph1 = ph1
  ph2 = ph2
  Handler = {p1, p2}
  Starts = {0, 1, 2, 3}
  Durations = {2}
  DayLength = 3
  NewStatuses = {"pending", "cancelled"}
  NoRow = NoRow
  NoTx = NoTx
  NoHandler = NoHandler
INVARIANTS
  CheckStaysValid
  TargetStaysLocked
  UniqueActiveStart
  OverlapNeedsRace
  ScanIsComplete
  SecondPendingNeedsRace
PROPERTIES
  ImplementsLedger
SYMMETRY MCSymmetry
