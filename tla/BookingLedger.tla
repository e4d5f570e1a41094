---------------------------- MODULE BookingLedger ----------------------------
(***************************************************************************)
(* What the bookings table promises to whoever reads it, with no           *)
(* transactions and no locks: every request changes at most one booking,   *)
(* in one step, and no two active bookings of a barber start together.     *)
(* A booking never changes its barber or its client, moving it leaves its  *)
(* status alone, and changing its status leaves its time alone.            *)
(***************************************************************************)
EXTENDS Integers

CONSTANTS Booking, Barber, Phone, NoRow

Statuses == {"pending", "completed", "cancelled", "no_show"}
Released == {"cancelled", "no_show"}

Row == [barber : Barber, phone : Phone, start : Nat, stop : Nat,
        status : Statuses]

VARIABLE rows

IsActive(r) == r # NoRow /\ r.status \notin Released

Init == rows = [b \in Booking |-> NoRow]

\* Would r, as the row of b, take a start that another active booking has?
Taken(b, r) ==
  /\ IsActive(r)
  /\ \E c \in Booking \ {b} :
       IsActive(rows[c]) /\ rows[c].barber = r.barber /\ rows[c].start = r.start

\* The step gives b a row that the index lets in, and touches nothing else.
Store(b) ==
  /\ rows'[b] \in Row
  /\ ~Taken(b, rows'[b])
  /\ rows' = [rows EXCEPT ![b] = rows'[b]]

Book(b) ==
  /\ rows[b] = NoRow
  /\ Store(b)
  /\ rows'[b].status = "pending"
  /\ rows'[b].start < rows'[b].stop

Reschedule(b) ==
  /\ rows[b] # NoRow
  /\ Store(b)
  /\ rows'[b].start < rows'[b].stop
  /\ rows'[b] = [rows[b] EXCEPT !.start = rows'[b].start, !.stop = rows'[b].stop]

SetStatus(b) ==
  /\ rows[b] # NoRow
  /\ Store(b)
  /\ rows'[b] = [rows[b] EXCEPT !.status = rows'[b].status]

Remove(b) ==
  /\ rows[b] # NoRow
  /\ rows' = [rows EXCEPT ![b] = NoRow]

Next == \E b \in Booking : Book(b) \/ Reschedule(b) \/ SetStatus(b) \/ Remove(b)

Spec == Init /\ [][Next]_rows

-----------------------------------------------------------------------------
TypeOK == rows \in [Booking -> Row \union {NoRow}]

\* What migration 003 creates its partial unique index for: a barber has no two
\* active bookings that start at the same instant.
UniqueActiveStart ==
  \A b, c \in Booking :
    (/\ b # c
     /\ IsActive(rows[b]) /\ IsActive(rows[c])
     /\ rows[b].barber = rows[c].barber)
    => rows[b].start # rows[c].start

=============================================================================
