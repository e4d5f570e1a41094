------------------------------ MODULE MC_Clients ------------------------------
(* Two bookings of one client, one of another that is not completed.  A booking    *)
(* is told twice when it is set back and completed again, or delivered again.      *)
(* One of the clients is the barber's who edits and deletes, the other is not.     *)
EXTENDS Clients

MCClientOf == [b1 |-> "c1", b2 |-> "c1", b3 |-> "c2"]
MCBarberOf == [c1 |-> "k1", c2 |-> "k2"]

Told(b, done, at) == [booking |-> b, completed |-> done, stamp |-> at]

MCMessage ==
  {Told("b1", TRUE, 2), Told("b2", TRUE, 1), Told("b3", FALSE, 1), Garbage}
=============================================================================
