------------------------------- MODULE Bookings -------------------------------
(* What the modules on the requests to the booking service have in common. *)

CONSTANTS
  Booking,  \* booking ids
  NoRow     \* an id without a row

=============================================================================
