SPECIFICATION SlotsSpec
CONSTANTS
  b1 = b1
  b2 = b2
  b3 = b3
  Booking = {b1, b2, b3}
  Client = {"c1"}
  Windows = {2, 3}
  Schedules <- MCSchedules
  Step = 2
  Ahead = 2
  Moments <- MCMoments
  DayEnd = 6
  NoRow = NoRow
  NoWork = NoWork
  NoAnswer = NoAnswer
INVARIANTS
  OffersAreBookable
  NoGaps
  SlotsKeepHours
  BarberSeesBookings
SYMMETRY MCSymmetry
