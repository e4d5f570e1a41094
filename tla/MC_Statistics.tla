----------------------------- MODULE MC_Statistics -----------------------------
(* The calendar runs through all 146097 days after which it repeats itself; on the *)
(* last two of them, at the end of a year, rows arrive and statistics are asked.   *)
(* b1 stays on its day and is cancelled within a second, b2 moves to the next      *)
(* month, b3 is another barber's.                                                  *)
EXTENDS Statistics

MCFirstDays == {Date(y, 1, 1) : y \in {1627, 1707, 1787, 1867, 1947}}
MCOpening == Date(2026, 12, 31)
MCClosing == Date(2027, 1, 1)

MCPrice == [cut |-> 2, shave |-> 1]
MCLength == [cut |-> 3, shave |-> 2]

Fact(b, k, s, status, day, at) ==
  [key |-> b, barber |-> k, service |-> s, status |-> status, day |-> day, at |-> at]
WorkDay(i, day, minutes, deleted, at) ==
  [key |-> i, barber |-> "k1", minutes |-> minutes, deleted |-> deleted, day |-> day, at |-> at]

MCBookingFact ==
  {Fact("b1", "k1", "cut", "completed", MCOpening, 1),
   Fact("b1", "k1", "cut", "cancelled", MCOpening, 1),
   Fact("b2", "k1", "shave", "completed", MCOpening, 1),
   Fact("b2", "k1", "cut", "completed", MCClosing, 2),
   Fact("b3", "k2", "cut", "completed", MCOpening, 1)}

MCHoursFact ==
  {WorkDay("i1", MCOpening, 4, FALSE, 1), WorkDay("i1", MCOpening, 4, TRUE, 2),
   WorkDay("i2", MCOpening, 6, FALSE, 2)}

MCPaging == {[limit |-> 0, offset |-> 1], [limit |-> 1, offset |-> 1]}
MCCustom == {[from |-> MCOpening, to |-> MCClosing]}
=============================================================================
