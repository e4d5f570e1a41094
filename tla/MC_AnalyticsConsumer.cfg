SPECIFICATION FairSpec
CONSTANTS
  Partition = {"q1"}
  MaxLog = 3
  Key = {"k1"}
  Value = {"pending", "completed", "cancelled"}
  Message <- MCMessage
  MaxStamp = 3
  Ticks = 2
  MaxTries = 2
  MaxStops = 2
  Garbage = Garbage
  NoRow = NoRow
  Nothing = Nothing
INVARIANTS
  ReadsLastSecond
  CommittedIsInserted
PROPERTIES
  EventsArrive
CHECK_DEADLOCK FALSE
