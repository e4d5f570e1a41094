-------------------------- MODULE MC_BookingEvents --------------------------
(* One booking, two requests on it; the two start times are alike. *)
EXTENDS BookingEvents, TLC

CONSTANTS p1, p2, t1, t2

MCSymmetry == Permutations(Handler) \union Permutations(Start)
=============================================================================
