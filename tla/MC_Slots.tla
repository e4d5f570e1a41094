------------------------------- MODULE MC_Slots -------------------------------
(* Three bookings and one client with an answer out while others book.  The    *)
(* grid is 2 units, a slot starts every 4; the instant 1 is off the grid.       *)
EXTENDS Slots, TLC

CONSTANTS b1, b2, b3

MCSymmetry == Permutations(Booking)

Hours(a, b) == [from |-> a, to |-> b]
MCSchedules == {Hours(0, 6), Hours(1, 6)}
MCMoments == {-1, 1}
===============================================================================
