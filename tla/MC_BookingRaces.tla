--------------------------- MODULE MC_BookingRaces --------------------------
(* Two bookings of two clients and two requests at a time, on two days of    *)
(* three units: bookings of two units overlap when they start one apart,     *)
(* follow one another on a day, or cross midnight.                           *)
EXTENDS BookingRaces, TLC

CONSTANTS b1, b2, p1, p2, ph1, ph2

MCSymmetry == Permutations(Booking) \union Permutations(Handler) \union Permutations(Phone)
=============================================================================
