SPECIFICATION FairSpecC
CONSTANTS
  Partition = {"q1"}
  MaxLog = 2
  Booking = {"b1", "b2", "b3"}
  Client = {"c1", "c2"}
  ClientOf <- MCClientOf
  Message <- MCMessage
  MaxStamp = 2
  MaxTries = 2
  MaxStops = 1
  Garbage = Garbage
  NoClient = NoClient
  Nothing = Nothing
  Barber = {"k1", "k2"}
  Caller = {"k1"}
  BarberOf <- MCBarberOf
  Request = {"r1"}
  Notes = {"n1"}
  Blank = Blank
  MaxIds = 3
  Idle = Idle
INVARIANTS
  VisitsMatch
  LastVisitIsLatest
  CommittedIsHandled
  CardsAreTheirOwn
PROPERTIES
  VisitsAreCounted
CHECK_DEADLOCK FALSE
