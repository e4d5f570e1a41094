------------------------- MODULE MC_BookingProgress -------------------------
(* No symmetry here: it is not sound for liveness. *)
EXTENDS BookingProgress

CONSTANTS b1, b2, b3, p1, p2
=============================================================================
