---------------------------- MODULE BookingRaces -----------------------------
(***************************************************************************)
(* When can a barber be double booked, or a client hold two pending        *)
(* bookings?  FOR UPDATE locks the rows a scan finds; it cannot lock the   *)
(* ones that do not exist yet.  History variables record, for each         *)
(* transaction, whether a row came to match its WHERE clause after the     *)
(* statement took its snapshot, and which bookings were written in spite   *)
(* of that, or given their status back by UpdateBookingStatus, which       *)
(* checks nothing.  The invariants say that there is no other way.         *)
(***************************************************************************)
EXTENDS BookingRepo

VARIABLES
  dayStale,     \* [Handler -> BOOLEAN]: a row entered the day after the scan began
  phoneStale,   \* [Handler -> BOOLEAN]: the client got a pending booking after the check
  lateDay,      \* bookings that became active on a day in spite of a stale scan,
                \* or through UpdateBookingStatus
  latePhone     \* bookings that became pending in the same two ways

history == <<dayStale, phoneStale, lateDay, latePhone>>
varsR == <<rows, owner, tx, history>>

-----------------------------------------------------------------------------
EntersDay(b, k, d) == ~OnDay(rows[b], k, d) /\ OnDay(rows'[b], k, d)
EntersPhone(b, ph) == ~IsPendingOf(rows[b], ph) /\ IsPendingOf(rows'[b], ph)

Scanning(t) == t # NoTx /\ t.stage \in {"scan", "write"}
Creating(t) == t # NoTx /\ t.op = "create"

\* p commits a write of b in this step.
Commits(p, b) == tx[p] # NoTx /\ tx'[p] = NoTx /\ tx[p].target = b /\ rows'[b] # rows[b]

NoteStale ==
  /\ dayStale' =
       [p \in Handler |->
          /\ Scanning(tx[p]) /\ Scanning(tx'[p])
          /\ \/ dayStale[p]
             \/ \E b \in Booking : EntersDay(b, tx[p].barber, Day(tx[p].start))]
  /\ phoneStale' =
       [p \in Handler |->
          /\ Creating(tx[p]) /\ Creating(tx'[p])
          /\ \/ phoneStale[p]
             \/ \E b \in Booking : EntersPhone(b, tx[p].phone)]

\* A write that commits decides afresh whether its booking is late; a status
\* change makes it late when it makes it active, or pending, again.
NoteLate ==
  /\ lateDay' =
       {b \in Booking :
          IF \E p \in Handler : Commits(p, b)
            THEN \E p \in Handler : Commits(p, b) /\ dayStale[p]
            ELSE b \in lateDay \/ (~IsActive(rows[b]) /\ IsActive(rows'[b]))}
  /\ latePhone' =
       {b \in Booking :
          IF rows[b] = NoRow
            THEN \E p \in Handler : Commits(p, b) /\ phoneStale[p]
            ELSE b \in latePhone \/ EntersPhone(b, rows[b].phone)}

InitR ==
  /\ Init
  /\ dayStale = [p \in Handler |-> FALSE]
  /\ phoneStale = [p \in Handler |-> FALSE]
  /\ lateDay = {}
  /\ latePhone = {}

NextR == Next /\ NoteStale /\ NoteLate

SpecR == InitR /\ [][NextR]_varsR

-----------------------------------------------------------------------------
\* repo.go:52-76 and :135-163.  Two active bookings of a barber on one day
\* overlap only if one of them was written by a transaction that scanned the day
\* before another booking entered it, or was reactivated by a status change.
OverlapNeedsRace ==
  \A a, b \in Booking :
    (/\ a # b
     /\ IsActive(rows[a]) /\ IsActive(rows[b])
     /\ rows[a].barber = rows[b].barber
     /\ Day(rows[a].start) = Day(rows[b].start)
     /\ Overlaps(rows[a], rows[b].start, rows[b].stop))
    => a \in lateDay \/ b \in lateDay

\* repo.go:37-50.  A client has two pending bookings only if one of them was
\* created by a transaction that checked before the other became pending, or was
\* set back to pending.
SecondPendingNeedsRace ==
  \A a, b \in Booking :
    (/\ a # b
     /\ IsPendingOf(rows[a], rows[a].phone)
     /\ IsPendingOf(rows[b], rows[a].phone))
    => a \in latePhone \/ b \in latePhone

\* repo.go:62-72.  The transaction that is about to write has seen the whole day
\* as it is now, unless a row entered it since: the locks keep the rest fixed.
ScanIsComplete ==
  \A p \in Handler, b \in Booking :
    (/\ InStage(p, "write")
     /\ ~dayStale[p]
     /\ b # tx[p].target
     /\ OnDay(rows[b], tx[p].barber, Day(tx[p].start)))
    => owner[b] = p /\ ~Overlaps(rows[b], tx[p].start, tx[p].stop)

-----------------------------------------------------------------------------
(* The inductive invariant, on top of TxInv. *)

HistoryTypeOK ==
  /\ dayStale \in [Handler -> BOOLEAN]
  /\ phoneStale \in [Handler -> BOOLEAN]

\* A scan that is not stale has every active row of the day before it or locked.
DayKnown ==
  \A p \in Handler, b \in Booking :
    (/\ Scanning(tx[p])
     /\ ~dayStale[p]
     /\ b # tx[p].target
     /\ OnDay(rows[b], tx[p].barber, Day(tx[p].start)))
    => b \in tx[p].todo \/ owner[b] = p

\* A create whose check is not stale still has every pending booking of its
\* client before it; past the check there is none.
PhoneKnown ==
  \A p \in Handler, b \in Booking :
    (/\ Creating(tx[p])
     /\ ~phoneStale[p]
     /\ IsPendingOf(rows[b], tx[p].phone))
    => tx[p].stage = "phone" /\ b \in tx[p].todo

\* What the scans and the checks of repo.go know as long as nothing raced them.
RaceInv ==
  /\ HistoryTypeOK
  /\ DayKnown
  /\ PhoneKnown
  /\ OverlapNeedsRace
  /\ SecondPendingNeedsRace

=============================================================================
