------------------------------ MODULE MC_Catalog ------------------------------
(* Two services and two barbers, one booking that is made and changed, and one *)
(* request while a list is leafed through.  Two of the bodies have one name;   *)
(* one is refused by the gateway and one, for its short name, by staff.        *)
EXTENDS Catalog

S(name, price, minutes, active) ==
  [name |-> name, price |-> price, minutes |-> minutes, active |-> active]

MCBody == {S("cut", 2, 30, TRUE), S("cut", 3, 45, FALSE), S("trim", 2, 45, TRUE),
           S("trim", 2, 20, TRUE), S("c", 2, 30, TRUE)}
MCNameLength == [cut |-> 3, trim |-> 4, c |-> 1]
MCNameRank == [cut |-> 2, trim |-> 3, c |-> 1]
MCStartRank == [b1 |-> 1, b2 |-> 2]
MCBarberRank == [k1 |-> 1, k2 |-> 2]
=============================================================================
