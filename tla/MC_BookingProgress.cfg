SPECIFICATION FairSpec
CONSTANTS
  b1 = b1
  b2 = b2
  b3 = b3
  p1 = p1
  p2 = p2
  Booking = {b1, b2}
  Barber = {"k1"}
  Phone = {"ph1"}
  Handler = {p1, p2}
  Starts = {0, 1}
  Durations = {2}
  DayLength = 2
  NewStatuses = {"pending", "completed", "cancelled"}
  NoRow = NoRow
  NoTx = NoTx
  NoHandler = NoHandler
PROPERTIES
  EveryTxEnds
