SPECIFICATION EventsSpec
CONSTANTS
  p1 = p1
  p2 = p2
  t1 = t1
  t2 = t2
  Booking = {"b1"}
  Start = {t1, t2}
  Status = {"pending", "completed"}
  Pending = "pending"
  Handler = {p1, p2}
  Retries = 1
  MaxClock = 1
  MaxCommits = 3
  NoRow = NoRow
  NoTask = NoTask
INVARIANTS
  LastChangeIsTold
  NoSilentLoss
  StampsFollowChanges
SYMMETRY MCSymmetry
