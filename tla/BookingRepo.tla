----------------------------- MODULE BookingRepo -----------------------------
(***************************************************************************)
(* The bookings table of the booking service and the statements that       *)
(* BookingRepo (services/booking/internal/repo/repo.go) runs against it,   *)
(* interleaved the way PostgreSQL interleaves them at READ COMMITTED, the  *)
(* isolation level the pool uses by default.                               *)
(*                                                                         *)
(* A handler is one gRPC request being served.  CreateBookingTx and        *)
(* UpdateBookingDetailsTx are transactions of several statements; each     *)
(* SELECT ... FOR UPDATE is a snapshot of the matching ids, taken when the *)
(* statement starts, followed by one step per row: wait until no other     *)
(* transaction holds the row, lock it, and evaluate the WHERE clause again *)
(* on the row as it is now.  UpdateBookingStatus and DeleteBooking are     *)
(* single statements that commit by themselves.                            *)
(*                                                                         *)
(* Instants are naturals; DayLength of them make one UTC day, and the      *)
(* column "date" is always the day of time_start.                          *)
(***************************************************************************)
EXTENDS Integers

CONSTANTS
  Booking,      \* booking ids
  Barber,       \* barber ids
  Phone,        \* client phone numbers
  Handler,      \* requests that may run a transaction at the same time
  Starts,       \* the instants clients ask for
  Durations,    \* the lengths of the services staff offers
  DayLength,    \* instants per UTC day
  NewStatuses,  \* the statuses UpdateBookingStatus is called with
  NoRow,        \* a booking id without a row
  NoTx,         \* a handler without a transaction
  NoHandler     \* the owner of a row nobody has locked

Statuses == {"pending", "completed", "cancelled", "no_show"}
Released == {"cancelled", "no_show"}   \* the statuses of the index predicate

Row == [barber : Barber, phone : Phone, start : Nat, stop : Nat,
        status : Statuses]

Tx == [op     : {"create", "reschedule"},
       stage  : {"phone", "target", "scan", "write"},
       target : Booking, barber : Barber, phone : Phone,
       start  : Nat, stop : Nat,
       todo   : SUBSET Booking, clash : BOOLEAN]

ASSUME InputsAssumption ==
  /\ Starts \subseteq Nat
  /\ Durations \subseteq Nat \ {0}
  /\ DayLength \in Nat \ {0}
  /\ NewStatuses \subseteq Statuses

ASSUME NullsAssumption ==
  /\ NoRow \notin Row
  /\ NoTx \notin Tx
  /\ NoHandler \notin Handler

VARIABLES
  rows,    \* the committed table: [Booking -> Row or NoRow]
  owner,   \* the transaction that holds the lock of a row
  tx       \* what each handler's transaction has done so far

vars == <<rows, owner, tx>>

-----------------------------------------------------------------------------
(* Reading the table. *)

Day(t) == t \div DayLength

Exists(b) == rows[b] # NoRow
IsActive(r) == r # NoRow /\ r.status \notin Released

\* The WHERE clause of the day scans.
OnDay(r, k, d) == IsActive(r) /\ r.barber = k /\ Day(r.start) = d

\* The WHERE clause of the pending-booking check.
IsPendingOf(r, ph) == r # NoRow /\ r.status = "pending" /\ r.phone = ph

Overlaps(r, from, to) == from < r.stop /\ to > r.start

\* Mutant: there is no unique index, as before migration 003.
StartTakenNever(b, k, s) == FALSE

\* bookings_barber_time_start_active_idx already holds the key.
StartTaken(b, k, s) ==
  \E c \in Booking \ {b} : IsActive(rows[c]) /\ rows[c].barber = k /\ rows[c].start = s

Free(p, b) == owner[b] \in {NoHandler, p}

\* b is an id nobody has used: gen_random_uuid never repeats one.
Unused(b) ==
  /\ rows[b] = NoRow
  /\ \A q \in Handler : tx[q] # NoTx => tx[q].target # b /\ b \notin tx[q].todo

InStage(p, s) == tx[p] # NoTx /\ tx[p].stage = s

DaySnapshot(k, d) == {b \in Booking : OnDay(rows[b], k, d)}

-----------------------------------------------------------------------------
Init ==
  /\ rows = [b \in Booking |-> NoRow]
  /\ owner = [b \in Booking |-> NoHandler]
  /\ tx = [p \in Handler |-> NoTx]

\* The end of a transaction, whichever way it ends, gives up every lock.
EndTx(p) ==
  /\ tx' = [tx EXCEPT ![p] = NoTx]
  /\ owner' = [b \in Booking |-> IF owner[b] = p THEN NoHandler ELSE owner[b]]

\* Mutant: an early return without the deferred Rollback.
ReturnWithLocks(p) == tx' = [tx EXCEPT ![p] = NoTx] /\ UNCHANGED <<rows, owner>>

Rollback(p) == EndTx(p) /\ UNCHANGED rows

Lock(p, b) == owner' = [owner EXCEPT ![b] = p]

-----------------------------------------------------------------------------
(* CreateBookingTx: the pending-booking check, the day scan, the insert. *)

CreateTx(b, k, ph, s, n) ==
  [op |-> "create", stage |-> "phone", target |-> b, barber |-> k, phone |-> ph,
   start |-> s, stop |-> s + n,
   todo |-> {c \in Booking : IsPendingOf(rows[c], ph)}, clash |-> FALSE]

BeginCreate(p) ==
  /\ tx[p] = NoTx
  /\ \E b \in Booking, k \in Barber, ph \in Phone, s \in Starts, n \in Durations :
       /\ Unused(b)
       /\ tx' = [tx EXCEPT ![p] = CreateTx(b, k, ph, s, n)]
  /\ UNCHANGED <<rows, owner>>

\* Mutant: the row is locked, but hasActive is not looked at.
PhoneRowLocksOnly(p, b) ==
  /\ InStage(p, "phone")
  /\ b \in tx[p].todo
  /\ Free(p, b)
  /\ tx' = [tx EXCEPT ![p].todo = @ \ {b}]
  /\ IF Exists(b) THEN Lock(p, b) ELSE UNCHANGED owner
  /\ UNCHANGED rows

\* One row of the EXISTS subquery.  A row that another transaction changed in
\* the meantime and that no longer matches stays locked without being returned.
PhoneRow(p, b) ==
  /\ InStage(p, "phone")
  /\ b \in tx[p].todo
  /\ Free(p, b)
  /\ IF IsPendingOf(rows[b], tx[p].phone)
       THEN Rollback(p)                      \* ErrActiveBookingExists
       ELSE /\ tx' = [tx EXCEPT ![p].todo = @ \ {b}]
            /\ IF Exists(b) THEN Lock(p, b) ELSE UNCHANGED owner
            /\ UNCHANGED rows

PhoneDone(p) ==
  /\ InStage(p, "phone")
  /\ tx[p].todo = {}
  /\ tx' = [tx EXCEPT ![p].stage = "scan",
                      ![p].todo = DaySnapshot(tx[p].barber, Day(tx[p].start))]
  /\ UNCHANGED <<rows, owner>>

-----------------------------------------------------------------------------
(* UpdateBookingDetailsTx: lock the booking, scan the day, update it. *)

RescheduleTx(b, s, n) ==
  [op |-> "reschedule", stage |-> "target", target |-> b,
   barber |-> rows[b].barber, phone |-> rows[b].phone,
   start |-> s, stop |-> s + n, todo |-> {}, clash |-> FALSE]

BeginReschedule(p) ==
  /\ tx[p] = NoTx
  /\ \E b \in Booking, s \in Starts, n \in Durations :
       /\ Exists(b)                          \* else ErrNotFound at once
       /\ tx' = [tx EXCEPT ![p] = RescheduleTx(b, s, n)]
  /\ UNCHANGED <<rows, owner>>

\* Mutant: the booking is read without FOR UPDATE.
TargetRowUnlocked(p) ==
  /\ InStage(p, "target")
  /\ LET b == tx[p].target IN
       IF Exists(b)
         THEN /\ tx' = [tx EXCEPT
                          ![p].stage = "scan", ![p].barber = rows[b].barber,
                          ![p].todo = DaySnapshot(rows[b].barber, Day(tx[p].start))]
              /\ UNCHANGED <<rows, owner>>
         ELSE Rollback(p)

\* The target row is locked, or it was deleted while the lock was waited for.
TargetRow(p) ==
  /\ InStage(p, "target")
  /\ LET b == tx[p].target IN
       /\ Free(p, b)
       /\ IF Exists(b)
            THEN /\ Lock(p, b)
                 /\ tx' = [tx EXCEPT
                             ![p].stage = "scan", ![p].barber = rows[b].barber,
                             ![p].todo = DaySnapshot(rows[b].barber, Day(tx[p].start))]
                 /\ UNCHANGED rows
            ELSE Rollback(p)                 \* ErrNotFound

-----------------------------------------------------------------------------
(* The day scan and the write, common to both transactions. *)

\* Mutant: each row decides alone, so that the last one wins.
ScanRowLastWins(p, b) ==
  /\ InStage(p, "scan")
  /\ b \in tx[p].todo
  /\ Free(p, b)
  /\ LET t == tx[p]
         returned == OnDay(rows[b], t.barber, Day(t.start))
     IN  tx' = [tx EXCEPT
                  ![p].todo = @ \ {b},
                  ![p].clash = /\ returned
                               /\ b # t.target
                               /\ Overlaps(rows[b], t.start, t.stop)]
  /\ IF Exists(b) THEN Lock(p, b) ELSE UNCHANGED owner
  /\ UNCHANGED rows

\* Mutant: the day is read without FOR UPDATE.
ScanRowUnlocked(p, b) ==
  /\ InStage(p, "scan")
  /\ b \in tx[p].todo
  /\ LET t == tx[p]
         returned == OnDay(rows[b], t.barber, Day(t.start))
     IN  tx' = [tx EXCEPT
                  ![p].todo = @ \ {b},
                  ![p].clash = @ \/ (/\ returned
                                     /\ b # t.target
                                     /\ Overlaps(rows[b], t.start, t.stop))]
  /\ UNCHANGED <<rows, owner>>

ScanRow(p, b) ==
  /\ InStage(p, "scan")
  /\ b \in tx[p].todo
  /\ Free(p, b)
  /\ LET t == tx[p]
         returned == OnDay(rows[b], t.barber, Day(t.start))
     IN  tx' = [tx EXCEPT
                  ![p].todo = @ \ {b},
                  ![p].clash = @ \/ (/\ returned
                                     /\ b # t.target
                                     /\ Overlaps(rows[b], t.start, t.stop))]
  /\ IF Exists(b) THEN Lock(p, b) ELSE UNCHANGED owner
  /\ UNCHANGED rows

ScanDone(p) ==
  /\ InStage(p, "scan")
  /\ tx[p].todo = {}
  /\ IF tx[p].clash
       THEN Rollback(p)                      \* ErrSlotConflict
       ELSE /\ tx' = [tx EXCEPT ![p].stage = "write"]
            /\ UNCHANGED <<rows, owner>>

\* INSERT and COMMIT.  A duplicate key is an error and rolls back.
Insert(p) ==
  /\ InStage(p, "write")
  /\ tx[p].op = "create"
  /\ LET t == tx[p] IN
       IF StartTaken(t.target, t.barber, t.start)
         THEN Rollback(p)
         ELSE /\ rows' = [rows EXCEPT ![t.target] =
                            [barber |-> t.barber, phone |-> t.phone, start |-> t.start,
                             stop |-> t.stop, status |-> "pending"]]
              /\ EndTx(p)

\* UPDATE finds no row (ErrNotFound), or the index refuses the new start.
MoveRefused(p) ==
  LET b == tx[p].target IN
    \/ ~Exists(b)
    \/ IsActive(rows[b]) /\ StartTaken(b, rows[b].barber, tx[p].start)

\* Mutant: the UPDATE puts the booking back to pending.
MoveReopens(p) ==
  /\ InStage(p, "write")
  /\ tx[p].op = "reschedule"
  /\ IF MoveRefused(p)
       THEN Rollback(p)
       ELSE /\ rows' = [rows EXCEPT ![tx[p].target].start = tx[p].start,
                                    ![tx[p].target].stop = tx[p].stop,
                                    ![tx[p].target].status = "pending"]
            /\ EndTx(p)

\* UPDATE and COMMIT.  The status is kept, whatever it is by now.
Move(p) ==
  /\ InStage(p, "write")
  /\ tx[p].op = "reschedule"
  /\ IF MoveRefused(p)
       THEN Rollback(p)
       ELSE /\ rows' = [rows EXCEPT ![tx[p].target].start = tx[p].start,
                                    ![tx[p].target].stop = tx[p].stop]
            /\ EndTx(p)

\* A cancelled request, a lost connection, a crash or a deadlock victim: the
\* deferred Rollback, or the server ending the session.
Abort(p) == tx[p] # NoTx /\ Rollback(p)

-----------------------------------------------------------------------------
(* The single statements.  They wait for the row, then change it as it is. *)

UpdateBookingStatus(b, s) ==
  /\ Exists(b)
  /\ owner[b] = NoHandler
  /\ s # rows[b].status
  /\ s \notin Released /\ ~IsActive(rows[b])
       => ~StartTaken(b, rows[b].barber, rows[b].start)
  /\ rows' = [rows EXCEPT ![b].status = s]
  /\ UNCHANGED <<owner, tx>>

DeleteBooking(b) ==
  /\ Exists(b)
  /\ owner[b] = NoHandler
  /\ rows' = [rows EXCEPT ![b] = NoRow]
  /\ UNCHANGED <<owner, tx>>

-----------------------------------------------------------------------------
\* Every step of p's transaction but the ones that end it from outside.
TxStep(p) ==
  \/ \E b \in Booking : PhoneRow(p, b)
  \/ PhoneDone(p)
  \/ TargetRow(p)
  \/ \E b \in Booking : ScanRow(p, b)
  \/ ScanDone(p)
  \/ Insert(p)
  \/ Move(p)

Next ==
  \/ \E p \in Handler : BeginCreate(p) \/ BeginReschedule(p) \/ TxStep(p) \/ Abort(p)
  \/ \E b \in Booking : DeleteBooking(b) \/ \E s \in NewStatuses : UpdateBookingStatus(b, s)

Spec == Init /\ [][Next]_vars

-----------------------------------------------------------------------------
(* What the locks are for. *)

TypeOK ==
  /\ rows \in [Booking -> Row \union {NoRow}]
  /\ owner \in [Booking -> Handler \union {NoHandler}]
  /\ tx \in [Handler -> Tx \union {NoTx}]

\* The overlap test of repo.go:68 and :155 is not stale for the rows it was made
\* on: until the transaction ends, none of the rows it has locked and passed is
\* turned into one that takes the time it is about to write.
CheckStaysValid ==
  \A p \in Handler, b \in Booking :
    (/\ InStage(p, "write")
     /\ owner[b] = p
     /\ b # tx[p].target
     /\ OnDay(rows[b], tx[p].barber, Day(tx[p].start)))
    => ~Overlaps(rows[b], tx[p].start, tx[p].stop)

\* The booking a reschedule is about to update is still the one it locked: it has
\* not been deleted and belongs to the barber whose day was scanned, so the
\* RowsAffected test of repo.go:176 never fails.
TargetStaysLocked ==
  \A p \in Handler :
    (/\ tx[p] # NoTx
     /\ tx[p].op = "reschedule"
     /\ tx[p].stage \in {"scan", "write"})
    => LET b == tx[p].target IN
         owner[b] = p /\ Exists(b) /\ rows[b].barber = tx[p].barber

\* The table seen without transactions: each request is one atomic change of one
\* booking and the partial unique index holds (migration 003).
Ledger == INSTANCE BookingLedger
ImplementsLedger == Ledger!Spec

\* Neither an insert, nor a move, nor a reactivation leaves a barber with two
\* active bookings that start together, whatever the scans have seen.
UniqueActiveStart == Ledger!UniqueActiveStart

-----------------------------------------------------------------------------
(* The inductive invariant behind them. *)

\* A row is locked only for a transaction that is still running, and only while
\* the row exists: DELETE waits for the lock like everybody else.
LocksBelongToTx ==
  \A b \in Booking : owner[b] # NoHandler => Exists(b) /\ tx[owner[b]] # NoTx

\* Each transaction goes through the stages of its own method, asks for a time of
\* positive length, and reaches its write with a finished scan and no conflict.
StagesInOrder ==
  \A p \in Handler : tx[p] # NoTx =>
    /\ tx[p].start < tx[p].stop
    /\ tx[p].op = "create" => tx[p].stage # "target"
    /\ tx[p].op = "reschedule" => tx[p].stage # "phone"
    /\ tx[p].stage = "write" => tx[p].todo = {} /\ ~tx[p].clash

\* The id of a booking being created is nobody else's until it is inserted.
NewIdIsPrivate ==
  \A p \in Handler : tx[p] # NoTx /\ tx[p].op = "create" =>
    /\ rows[tx[p].target] = NoRow
    /\ \A q \in Handler \ {p} : tx[q] # NoTx => tx[q].target # tx[p].target

\* Of the rows a scan has locked, those that conflict are either still to be
\* looked at or already noted.
ConflictsAreNoted ==
  \A p \in Handler, b \in Booking :
    (/\ tx[p] # NoTx
     /\ tx[p].stage \in {"scan", "write"}
     /\ owner[b] = p
     /\ b # tx[p].target
     /\ OnDay(rows[b], tx[p].barber, Day(tx[p].start))
     /\ Overlaps(rows[b], tx[p].start, tx[p].stop))
    => tx[p].clash \/ b \in tx[p].todo

\* The locks of repo.go and what each transaction knows through them.
TxInv ==
  /\ LocksBelongToTx
  /\ StagesInOrder
  /\ NewIdIsPrivate
  /\ TargetStaysLocked
  /\ ConflictsAreNoted

=============================================================================
