SPECIFICATION Spec
CONSTANTS
  Barber = {"k1", "k2"}
  Active = {"k1", "k2"}
  BarberRank <- MCBarberRank
  NameRank <- MCNameRank
  NameLength <- MCNameLength
  Service = {"s1", "s2"}
  Body <- MCBody
  Booking = {"b1", "b2"}
  StartRank <- MCStartRank
  PastDefault = 1
  PastMax = 1
  Request = {"r1"}
  Limits = {0, 2}
  MaxLimit = 1
  MaxChanges = 3
  NoRow = NoRow
  Idle = Idle
  NoWalk = NoWalk
INVARIANTS
  BookedAsOffered
  BookedAsShown
  PagesAreWhole
