---------------------------- MODULE BookingProofs ----------------------------
(***************************************************************************)
(* Proofs about BookingRepo and BookingRaces, for any number of bookings,  *)
(* handlers, barbers and clients and any instants: the locks, the unique   *)
(* start and the ledger that the repository implements; then that double   *)
(* bookings and second pending bookings come from races or from status     *)
(* changes only.                                                           *)
(***************************************************************************)
EXTENDS BookingRaces, TLAPS

-----------------------------------------------------------------------------
(* Type correctness. *)

LEMMA TypeInit == Init => TypeOK
  BY DEF Init, TypeOK

LEMMA EndTxType ==
  ASSUME TypeOK, NEW p \in Handler, EndTx(p)
  PROVE  /\ owner' \in [Booking -> Handler \union {NoHandler}]
         /\ tx' \in [Handler -> Tx \union {NoTx}]
  BY DEF TypeOK, EndTx

LEMMA DaySnapshotType == \A k, d : DaySnapshot(k, d) \in SUBSET Booking
  BY DEF DaySnapshot

LEMMA RollbackType ==
  ASSUME TypeOK, NEW p \in Handler, Rollback(p)
  PROVE  TypeOK'
  BY EndTxType DEF TypeOK, Rollback

LEMMA CreateTxType ==
  ASSUME NEW b \in Booking, NEW k \in Barber, NEW ph \in Phone,
         NEW s \in Starts, NEW n \in Durations
  PROVE  CreateTx(b, k, ph, s, n) \in Tx
<1>1. s \in Nat /\ s + n \in Nat
  BY InputsAssumption
<1>2. {c \in Booking : IsPendingOf(rows[c], ph)} \in SUBSET Booking
  OBVIOUS
<1>3. QED
  BY <1>1, <1>2 DEF CreateTx, Tx

LEMMA RescheduleTxType ==
  ASSUME TypeOK, NEW b \in Booking, Exists(b), NEW s \in Starts, NEW n \in Durations
  PROVE  RescheduleTx(b, s, n) \in Tx
<1>1. s \in Nat /\ s + n \in Nat
  BY InputsAssumption
<1>2. rows[b] \in Row
  BY DEF TypeOK, Exists
<1>3. QED
  BY <1>1, <1>2 DEF RescheduleTx, Tx, Row

LEMMA TypeStep == TypeOK /\ [Next]_vars => TypeOK'
<1> SUFFICES ASSUME TypeOK, [Next]_vars
             PROVE  TypeOK'
  OBVIOUS
<1> USE InputsAssumption
<1>1. ASSUME NEW p \in Handler, BeginCreate(p)
      PROVE  TypeOK'
  <2>1. PICK b \in Booking, k \in Barber, ph \in Phone, s \in Starts, n \in Durations :
          tx' = [tx EXCEPT ![p] = CreateTx(b, k, ph, s, n)]
    BY <1>1 DEF BeginCreate
  <2>2. CreateTx(b, k, ph, s, n) \in Tx
    BY CreateTxType
  <2>3. QED
    BY <1>1, <2>1, <2>2 DEF BeginCreate, TypeOK
<1>2. ASSUME NEW p \in Handler, BeginReschedule(p)
      PROVE  TypeOK'
  <2>1. PICK b \in Booking, s \in Starts, n \in Durations :
          Exists(b) /\ tx' = [tx EXCEPT ![p] = RescheduleTx(b, s, n)]
    BY <1>2 DEF BeginReschedule
  <2>2. RescheduleTx(b, s, n) \in Tx
    BY <2>1, RescheduleTxType
  <2>3. QED
    BY <1>2, <2>1, <2>2 DEF BeginReschedule, TypeOK
<1>3. ASSUME NEW p \in Handler, NEW b \in Booking, PhoneRow(p, b)
      PROVE  TypeOK'
  <2>1. CASE IsPendingOf(rows[b], tx[p].phone)
    BY <1>3, <2>1, RollbackType DEF PhoneRow
  <2>2. CASE ~IsPendingOf(rows[b], tx[p].phone)
    <3>1. tx[p] \in Tx
      BY <1>3 DEF TypeOK, PhoneRow, InStage
    <3>2. tx' \in [Handler -> Tx \union {NoTx}]
      BY <1>3, <2>2, <3>1 DEF TypeOK, PhoneRow, Tx
    <3>3. owner' \in [Booking -> Handler \union {NoHandler}]
      BY <1>3, <2>2 DEF TypeOK, PhoneRow, Lock
    <3>4. QED
      BY <1>3, <2>2, <3>2, <3>3 DEF TypeOK, PhoneRow
  <2>3. QED
    BY <2>1, <2>2
<1>4. ASSUME NEW p \in Handler, PhoneDone(p)
      PROVE  TypeOK'
  <2>1. tx[p] \in Tx
    BY <1>4 DEF TypeOK, PhoneDone, InStage
  <2>2. QED
    BY <1>4, <2>1 DEF TypeOK, PhoneDone, Tx, DaySnapshot
<1>5. ASSUME NEW p \in Handler, TargetRow(p)
      PROVE  TypeOK'
  <2>1. tx[p] \in Tx
    BY <1>5 DEF TypeOK, TargetRow, InStage
  <2>2. CASE Exists(tx[p].target)
    BY <1>5, <2>1, <2>2 DEF TypeOK, TargetRow, Tx, DaySnapshot, Lock
  <2>3. CASE ~Exists(tx[p].target)
    BY <1>5, <2>3, RollbackType DEF TargetRow
  <2>4. QED
    BY <2>2, <2>3
<1>6. ASSUME NEW p \in Handler, NEW b \in Booking, ScanRow(p, b)
      PROVE  TypeOK'
  <2>1. tx[p] \in Tx
    BY <1>6 DEF TypeOK, ScanRow, InStage
  <2>2. tx' \in [Handler -> Tx \union {NoTx}]
    BY <1>6, <2>1 DEF TypeOK, ScanRow, Tx
  <2>3. owner' \in [Booking -> Handler \union {NoHandler}]
    BY <1>6 DEF TypeOK, ScanRow, Lock
  <2>4. QED
    BY <1>6, <2>2, <2>3 DEF TypeOK, ScanRow
<1>7. ASSUME NEW p \in Handler, ScanDone(p)
      PROVE  TypeOK'
  <2>1. tx[p] \in Tx
    BY <1>7 DEF TypeOK, ScanDone, InStage
  <2>2. CASE tx[p].clash
    BY <1>7, <2>2, RollbackType DEF ScanDone
  <2>3. CASE ~tx[p].clash
    BY <1>7, <2>1, <2>3 DEF TypeOK, ScanDone, Tx
  <2>4. QED
    BY <2>2, <2>3
<1>8. ASSUME NEW p \in Handler, Insert(p)
      PROVE  TypeOK'
  <2>1. tx[p] \in Tx
    BY <1>8 DEF TypeOK, Insert, InStage
  <2>2. CASE StartTaken(tx[p].target, tx[p].barber, tx[p].start)
    BY <1>8, <2>2, RollbackType DEF Insert
  <2>3. CASE ~StartTaken(tx[p].target, tx[p].barber, tx[p].start)
    <3>1. rows' \in [Booking -> Row \union {NoRow}]
      BY <1>8, <2>1, <2>3 DEF TypeOK, Insert, Tx, Row, Statuses
    <3>2. QED
      BY <1>8, <2>3, <3>1, EndTxType DEF TypeOK, Insert
  <2>4. QED
    BY <2>2, <2>3
<1>9. ASSUME NEW p \in Handler, Move(p)
      PROVE  TypeOK'
  <2>1. tx[p] \in Tx
    BY <1>9 DEF TypeOK, Move, InStage
  <2>2. CASE MoveRefused(p)
    BY <1>9, <2>2, RollbackType DEF Move
  <2>3. CASE ~MoveRefused(p)
    <3>1. /\ rows' = [rows EXCEPT ![tx[p].target].start = tx[p].start,
                                  ![tx[p].target].stop = tx[p].stop]
          /\ EndTx(p)
      BY <1>9, <2>3 DEF Move
    <3>2. rows[tx[p].target] \in Row
      BY <2>1, <2>3 DEF TypeOK, Tx, Exists, MoveRefused
    <3>3. rows' \in [Booking -> Row \union {NoRow}]
      BY <2>1, <3>1, <3>2 DEF TypeOK, Tx, Row
    <3>4. QED
      BY <3>1, <3>3, EndTxType DEF TypeOK
  <2>4. QED
    BY <2>2, <2>3
<1>10. ASSUME NEW p \in Handler, Abort(p)
       PROVE  TypeOK'
  BY <1>10, RollbackType DEF Abort
<1>11. ASSUME NEW b \in Booking, NEW s \in NewStatuses, UpdateBookingStatus(b, s)
       PROVE  TypeOK'
  BY <1>11 DEF TypeOK, UpdateBookingStatus, Row, Exists
<1>12. ASSUME NEW b \in Booking, DeleteBooking(b)
       PROVE  TypeOK'
  BY <1>12 DEF TypeOK, DeleteBooking
<1>13. CASE UNCHANGED vars
  BY <1>13 DEF TypeOK, vars
<1>14. QED
  BY <1>1, <1>2, <1>3, <1>4, <1>5, <1>6, <1>7, <1>8, <1>9, <1>10, <1>11, <1>12, <1>13
     DEF Next, TxStep

-----------------------------------------------------------------------------
(* The invariant of the locks is inductive. *)

LEMMA TxInvInit == Init => TxInv
  BY NullsAssumption
     DEF Init, TxInv, LocksBelongToTx, StagesInOrder, NewIdIsPrivate,
         TargetStaysLocked, ConflictsAreNoted

LEMMA RollbackInv ==
  ASSUME TypeOK, TxInv, NEW p \in Handler, tx[p] # NoTx, Rollback(p)
  PROVE  TxInv'
<1>1. /\ rows' = rows
      /\ tx'[p] = NoTx
      /\ \A q \in Handler \ {p} : tx'[q] = tx[q]
      /\ \A b \in Booking : owner'[b] = IF owner[b] = p THEN NoHandler ELSE owner[b]
  BY DEF Rollback, EndTx, TypeOK
<1>2. \A q \in Handler : q # NoHandler
  BY NullsAssumption
<1>3. LocksBelongToTx'
  BY <1>1, <1>2 DEF TxInv, LocksBelongToTx, TypeOK, Exists
<1>4. StagesInOrder'
  BY <1>1 DEF TxInv, StagesInOrder
<1>5. NewIdIsPrivate'
  BY <1>1 DEF TxInv, NewIdIsPrivate
<1>6. TargetStaysLocked'
  BY <1>1 DEF TxInv, TargetStaysLocked, TypeOK, Tx, Exists
<1>7. ConflictsAreNoted'
  BY <1>1, <1>2 DEF TxInv, ConflictsAreNoted, OnDay, IsActive, Overlaps
<1>8. QED
  BY <1>3, <1>4, <1>5, <1>6, <1>7 DEF TxInv

\* A step of p that writes no row, takes at most free locks, and keeps what the
\* invariant says of p itself.
OwnStep(p) ==
  /\ rows' = rows
  /\ tx'[p] # NoTx
  /\ \A q \in Handler \ {p} : tx'[q] = tx[q]
  /\ \A b \in Booking : \/ owner'[b] = owner[b]
                        \/ owner'[b] = p /\ Free(p, b) /\ Exists(b)
  /\ tx'[p].start < tx'[p].stop
  /\ tx'[p].op = "create" => tx'[p].stage # "target"
  /\ tx'[p].op = "reschedule" => tx'[p].stage # "phone"
  /\ tx'[p].stage = "write" => tx'[p].todo = {} /\ ~tx'[p].clash
  /\ tx'[p].op = "create" => rows[tx'[p].target] = NoRow
  /\ \A q \in Handler \ {p} :
       tx[q] # NoTx /\ (tx'[p].op = "create" \/ tx[q].op = "create")
         => tx[q].target # tx'[p].target
  /\ tx'[p].op = "reschedule" /\ tx'[p].stage \in {"scan", "write"}
       => /\ owner'[tx'[p].target] = p
          /\ Exists(tx'[p].target)
          /\ rows[tx'[p].target].barber = tx'[p].barber
  /\ \A b \in Booking :
       (/\ tx'[p].stage \in {"scan", "write"}
        /\ owner'[b] = p
        /\ b # tx'[p].target
        /\ OnDay(rows[b], tx'[p].barber, Day(tx'[p].start))
        /\ Overlaps(rows[b], tx'[p].start, tx'[p].stop))
       => tx'[p].clash \/ b \in tx'[p].todo

LEMMA OwnStepInv ==
  ASSUME TypeOK, TypeOK', TxInv, NEW p \in Handler, OwnStep(p)
  PROVE  TxInv'
<1> USE DEF OwnStep
<1>1. \A q \in Handler : q # NoHandler
  BY NullsAssumption
<1>2. LocksBelongToTx'
  BY <1>1 DEF TxInv, LocksBelongToTx, TypeOK, Exists
<1>3. StagesInOrder'
  BY DEF TxInv, StagesInOrder
<1>4. NewIdIsPrivate'
  BY DEF TxInv, NewIdIsPrivate
<1>5. TargetStaysLocked'
  <2> SUFFICES ASSUME NEW q \in Handler, q # p, tx[q] # NoTx, tx[q].op = "reschedule",
                      tx[q].stage \in {"scan", "write"}
               PROVE  /\ owner'[tx[q].target] = q
                      /\ Exists(tx[q].target)
                      /\ rows[tx[q].target].barber = tx[q].barber
    BY DEF TargetStaysLocked, Exists
  <2>1. tx[q].target \in Booking
    BY DEF TypeOK, Tx
  <2>2. owner[tx[q].target] = q /\ Exists(tx[q].target)
        /\ rows[tx[q].target].barber = tx[q].barber
    BY DEF TxInv, TargetStaysLocked
  <2>3. QED
    BY <1>1, <2>1, <2>2 DEF Free
<1>6. ConflictsAreNoted'
  <2> SUFFICES ASSUME NEW q \in Handler, NEW b \in Booking, q # p, tx[q] # NoTx,
                      tx[q].stage \in {"scan", "write"}, owner'[b] = q,
                      b # tx[q].target,
                      OnDay(rows[b], tx[q].barber, Day(tx[q].start)),
                      Overlaps(rows[b], tx[q].start, tx[q].stop)
               PROVE  tx[q].clash \/ b \in tx[q].todo
    BY DEF ConflictsAreNoted
  <2>1. owner[b] = q
    OBVIOUS
  <2>2. QED
    BY <2>1 DEF TxInv, ConflictsAreNoted
<1>7. QED
  BY <1>2, <1>3, <1>4, <1>5, <1>6 DEF TxInv

LEMMA BeginInv ==
  ASSUME TypeOK, TypeOK', TxInv, NEW p \in Handler, BeginCreate(p) \/ BeginReschedule(p)
  PROVE  TxInv'
<1>1. tx[p] = NoTx /\ rows' = rows /\ owner' = owner
  BY DEF BeginCreate, BeginReschedule
<1>2. CASE BeginCreate(p)
  <2>1. PICK b \in Booking, k \in Barber, ph \in Phone, s \in Starts, n \in Durations :
          /\ Unused(b)
          /\ tx' = [tx EXCEPT ![p] = CreateTx(b, k, ph, s, n)]
    BY <1>2 DEF BeginCreate
  <2>2. tx'[p] = CreateTx(b, k, ph, s, n) /\ \A q \in Handler \ {p} : tx'[q] = tx[q]
    BY <2>1 DEF TypeOK
  <2>3. s < s + n
    BY InputsAssumption
  <2>4. CreateTx(b, k, ph, s, n) # NoTx
    BY CreateTxType, NullsAssumption
  <2>5. OwnStep(p)
    BY <1>1, <2>1, <2>2, <2>3, <2>4 DEF OwnStep, CreateTx, Unused
  <2>6. QED
    BY <2>5, OwnStepInv
<1>3. CASE BeginReschedule(p)
  <2>1. PICK b \in Booking, s \in Starts, n \in Durations :
          Exists(b) /\ tx' = [tx EXCEPT ![p] = RescheduleTx(b, s, n)]
    BY <1>3 DEF BeginReschedule
  <2>2. tx'[p] = RescheduleTx(b, s, n) /\ \A q \in Handler \ {p} : tx'[q] = tx[q]
    BY <2>1 DEF TypeOK
  <2>3. s < s + n
    BY InputsAssumption
  <2>4. RescheduleTx(b, s, n) # NoTx
    BY <2>1, RescheduleTxType, NullsAssumption
  <2>5. \A q \in Handler : tx[q] # NoTx /\ tx[q].op = "create" => tx[q].target # b
    BY <2>1 DEF TxInv, NewIdIsPrivate, Exists
  <2>6. OwnStep(p)
    BY <1>1, <2>1, <2>2, <2>3, <2>4, <2>5 DEF OwnStep, RescheduleTx
  <2>7. QED
    BY <2>6, OwnStepInv
<1>4. QED
  BY <1>2, <1>3

LEMMA PhoneRowInv ==
  ASSUME TypeOK, TypeOK', TxInv, NEW p \in Handler, NEW b \in Booking, PhoneRow(p, b)
  PROVE  TxInv'
<1>1. CASE IsPendingOf(rows[b], tx[p].phone)
  BY <1>1, RollbackInv DEF PhoneRow, InStage
<1>2. CASE ~IsPendingOf(rows[b], tx[p].phone)
  <2>1. tx[p] \in Tx /\ tx[p] # NoTx /\ tx[p].stage = "phone"
    BY DEF PhoneRow, InStage, TypeOK
  <2>2. rows' = rows /\ tx'[p] = [tx[p] EXCEPT !.todo = @ \ {b}]
    BY <1>2 DEF PhoneRow, TypeOK
  <2>3. tx'[p] # NoTx
    BY <2>1, <2>2, NullsAssumption DEF Tx
  <2>4. \A q \in Handler \ {p} : tx'[q] = tx[q]
    BY <1>2 DEF PhoneRow, TypeOK
  <2>5. \A c \in Booking : owner'[c] = owner[c] \/ (owner'[c] = p /\ Free(p, c) /\ Exists(c))
    BY <1>2 DEF PhoneRow, Lock, TypeOK
  <2>6. /\ tx[p].start < tx[p].stop
        /\ tx[p].op = "create"
        /\ rows[tx[p].target] = NoRow
        /\ \A q \in Handler \ {p} : tx[q] # NoTx => tx[q].target # tx[p].target
    BY <2>1 DEF TxInv, StagesInOrder, NewIdIsPrivate, Tx
  <2>7. /\ tx'[p].op = tx[p].op /\ tx'[p].stage = tx[p].stage
        /\ tx'[p].target = tx[p].target
        /\ tx'[p].start = tx[p].start /\ tx'[p].stop = tx[p].stop
    BY <2>1, <2>2 DEF Tx
  <2>8. OwnStep(p)
    BY <2>1, <2>2, <2>3, <2>4, <2>5, <2>6, <2>7 DEF OwnStep
  <2>9. QED
    BY <2>8, OwnStepInv
<1>3. QED
  BY <1>1, <1>2

LEMMA PhoneDoneInv ==
  ASSUME TypeOK, TypeOK', TxInv, NEW p \in Handler, PhoneDone(p)
  PROVE  TxInv'
<1>1. tx[p] \in Tx /\ tx[p] # NoTx /\ tx[p].stage = "phone"
  BY DEF PhoneDone, InStage, TypeOK
<1>2. /\ tx' = [tx EXCEPT ![p] = [tx[p] EXCEPT !.stage = "scan",
                      !.todo = DaySnapshot(tx[p].barber, Day(tx[p].start))]]
      /\ rows' = rows /\ owner' = owner
  BY DEF PhoneDone
<1>3. /\ tx'[p].op = tx[p].op /\ tx'[p].target = tx[p].target
      /\ tx'[p].barber = tx[p].barber
      /\ tx'[p].start = tx[p].start /\ tx'[p].stop = tx[p].stop
      /\ tx'[p].stage = "scan"
      /\ tx'[p].todo = DaySnapshot(tx[p].barber, Day(tx[p].start))
  BY <1>1, <1>2 DEF Tx, TypeOK
<1>4. \A q \in Handler \ {p} : tx'[q] = tx[q]
  BY <1>2 DEF TypeOK
<1>5. tx'[p] # NoTx
  <2>1. [tx[p] EXCEPT !.stage = "scan",
                      !.todo = DaySnapshot(tx[p].barber, Day(tx[p].start))] \in Tx
    BY <1>1, DaySnapshotType DEF Tx
  <2>2. QED
    BY <1>2, <2>1, NullsAssumption DEF TypeOK
<1>6. /\ tx[p].start < tx[p].stop
      /\ tx[p].op = "create"
      /\ rows[tx[p].target] = NoRow
      /\ \A q \in Handler \ {p} : tx[q] # NoTx => tx[q].target # tx[p].target
  BY <1>1 DEF TxInv, StagesInOrder, NewIdIsPrivate, Tx
<1>7. OwnStep(p)
  BY <1>2, <1>3, <1>4, <1>5, <1>6 DEF OwnStep, DaySnapshot
<1>8. QED
  BY <1>7, OwnStepInv

LEMMA TargetRowInv ==
  ASSUME TypeOK, TypeOK', TxInv, NEW p \in Handler, TargetRow(p)
  PROVE  TxInv'
<1> DEFINE b == tx[p].target
<1>1. tx[p] \in Tx /\ tx[p] # NoTx /\ tx[p].stage = "target" /\ b \in Booking
  BY DEF TargetRow, InStage, TypeOK, Tx
<1>2. CASE ~Exists(b)
  BY <1>1, <1>2, RollbackInv DEF TargetRow
<1>3. CASE Exists(b)
  <2>1. /\ tx' = [tx EXCEPT ![p] = [tx[p] EXCEPT !.stage = "scan",
                        !.barber = rows[b].barber,
                        !.todo = DaySnapshot(rows[b].barber, Day(tx[p].start))]]
        /\ rows' = rows /\ owner' = [owner EXCEPT ![b] = p] /\ Free(p, b)
    BY <1>3 DEF TargetRow, Lock
  <2>2. /\ tx'[p].op = tx[p].op /\ tx'[p].target = b
        /\ tx'[p].barber = rows[b].barber
        /\ tx'[p].start = tx[p].start /\ tx'[p].stop = tx[p].stop
        /\ tx'[p].stage = "scan"
        /\ tx'[p].todo = DaySnapshot(rows[b].barber, Day(tx[p].start))
    BY <1>1, <2>1 DEF Tx, TypeOK
  <2>3. \A q \in Handler \ {p} : tx'[q] = tx[q]
    BY <2>1 DEF TypeOK
  <2>4. tx'[p] # NoTx
    <3>1. rows[b].barber \in Barber
      BY <1>1, <1>3 DEF TypeOK, Exists, Row
    <3>2. [tx[p] EXCEPT !.stage = "scan", !.barber = rows[b].barber,
                        !.todo = DaySnapshot(rows[b].barber, Day(tx[p].start))] \in Tx
      BY <1>1, <3>1, DaySnapshotType DEF Tx
    <3>3. QED
      BY <2>1, <3>2, NullsAssumption DEF TypeOK
  <2>5. \A c \in Booking : owner'[c] = owner[c] \/ (owner'[c] = p /\ Free(p, c) /\ Exists(c))
    BY <1>3, <2>1 DEF TypeOK
  <2>6. owner'[b] = p
    BY <1>1, <2>1 DEF TypeOK
  <2>7. /\ tx[p].start < tx[p].stop
        /\ tx[p].op = "reschedule"
        /\ \A q \in Handler \ {p} : tx[q] # NoTx /\ tx[q].op = "create" => tx[q].target # b
    BY <1>1, <1>3 DEF TxInv, StagesInOrder, NewIdIsPrivate, Tx, Exists
  <2>8. OwnStep(p)
    BY <1>1, <1>3, <2>1, <2>2, <2>3, <2>4, <2>5, <2>6, <2>7 DEF OwnStep, DaySnapshot
  <2>9. QED
    BY <2>8, OwnStepInv
<1>4. QED
  BY <1>2, <1>3

LEMMA ScanRowInv ==
  ASSUME TypeOK, TypeOK', TxInv, NEW p \in Handler, NEW b \in Booking, ScanRow(p, b)
  PROVE  TxInv'
<1> DEFINE found == /\ OnDay(rows[b], tx[p].barber, Day(tx[p].start))
                    /\ b # tx[p].target
                    /\ Overlaps(rows[b], tx[p].start, tx[p].stop)
<1>1. tx[p] \in Tx /\ tx[p] # NoTx /\ tx[p].stage = "scan"
  BY DEF ScanRow, InStage, TypeOK
<1>2. /\ tx' = [tx EXCEPT ![p] = [tx[p] EXCEPT !.todo = tx[p].todo \ {b},
                                               !.clash = tx[p].clash \/ found]]
      /\ rows' = rows /\ Free(p, b)
  BY DEF ScanRow
<1>3. /\ tx'[p].op = tx[p].op /\ tx'[p].target = tx[p].target
      /\ tx'[p].barber = tx[p].barber /\ tx'[p].stage = "scan"
      /\ tx'[p].start = tx[p].start /\ tx'[p].stop = tx[p].stop
      /\ tx'[p].todo = tx[p].todo \ {b}
      /\ tx'[p].clash = (tx[p].clash \/ found)
  BY <1>1, <1>2 DEF Tx, TypeOK
<1>4. \A q \in Handler \ {p} : tx'[q] = tx[q]
  BY <1>2 DEF TypeOK
<1>5. tx'[p] # NoTx
  <2>1. [tx[p] EXCEPT !.todo = tx[p].todo \ {b}, !.clash = tx[p].clash \/ found] \in Tx
    <3> HIDE DEF found
    <3>1. tx[p].todo \ {b} \in SUBSET Booking /\ (tx[p].clash \/ found) \in BOOLEAN
      BY <1>1 DEF Tx
    <3>2. QED
      BY <1>1, <3>1 DEF Tx
  <2>2. QED
    BY <1>2, <2>1, NullsAssumption DEF TypeOK
<1>6. \A c \in Booking : \/ c # b /\ owner'[c] = owner[c]
                         \/ c = b /\ Exists(b) /\ owner'[c] = p
                         \/ c = b /\ ~Exists(b) /\ owner'[c] = owner[c]
  BY DEF ScanRow, Lock, TypeOK
<1>7. /\ tx[p].start < tx[p].stop
      /\ tx[p].op = "create" => rows[tx[p].target] = NoRow
      /\ \A q \in Handler \ {p} :
           tx[q] # NoTx /\ (tx[p].op = "create" \/ tx[q].op = "create")
             => tx[q].target # tx[p].target
  BY <1>1 DEF TxInv, StagesInOrder, NewIdIsPrivate
<1>8. tx[p].op = "reschedule"
        => /\ owner[tx[p].target] = p
           /\ Exists(tx[p].target)
           /\ rows[tx[p].target].barber = tx[p].barber
           /\ tx[p].target \in Booking
  BY <1>1 DEF TxInv, TargetStaysLocked, Tx
<1>9. ASSUME NEW c \in Booking, owner'[c] = p, c # tx[p].target,
             OnDay(rows[c], tx[p].barber, Day(tx[p].start)),
             Overlaps(rows[c], tx[p].start, tx[p].stop)
      PROVE  tx'[p].clash \/ c \in tx'[p].todo
  <2>1. CASE c = b
    BY <1>3, <1>9, <2>1
  <2>2. CASE c # b
    <3>1. tx[p].clash \/ c \in tx[p].todo
      BY <1>1, <1>6, <1>9, <2>2 DEF TxInv, ConflictsAreNoted
    <3>2. QED
      BY <1>3, <2>2, <3>1
  <2>3. QED
    BY <2>1, <2>2
<1>10. OwnStep(p)
  <2> HIDE DEF found
  <2>1. \A c \in Booking : owner'[c] = owner[c] \/ (owner'[c] = p /\ Free(p, c) /\ Exists(c))
    BY <1>2, <1>6
  <2>2. tx[p].op = "reschedule" => owner'[tx[p].target] = p
    BY <1>6, <1>8
  <2>3. QED
    BY <1>2, <1>3, <1>4, <1>5, <1>7, <1>8, <1>9, <2>1, <2>2 DEF OwnStep
<1>11. QED
  BY <1>10, OwnStepInv

LEMMA ScanDoneInv ==
  ASSUME TypeOK, TypeOK', TxInv, NEW p \in Handler, ScanDone(p)
  PROVE  TxInv'
<1>1. tx[p] \in Tx /\ tx[p] # NoTx /\ tx[p].stage = "scan" /\ tx[p].todo = {}
  BY DEF ScanDone, InStage, TypeOK
<1>2. CASE tx[p].clash
  BY <1>1, <1>2, RollbackInv DEF ScanDone
<1>3. CASE ~tx[p].clash
  <2>1. /\ tx' = [tx EXCEPT ![p] = [tx[p] EXCEPT !.stage = "write"]]
        /\ rows' = rows /\ owner' = owner
    BY <1>3 DEF ScanDone
  <2>2. /\ tx'[p].op = tx[p].op /\ tx'[p].target = tx[p].target
        /\ tx'[p].barber = tx[p].barber /\ tx'[p].stage = "write"
        /\ tx'[p].start = tx[p].start /\ tx'[p].stop = tx[p].stop
        /\ tx'[p].todo = {} /\ tx'[p].clash = FALSE
    BY <1>1, <1>3, <2>1 DEF Tx, TypeOK
  <2>3. \A q \in Handler \ {p} : tx'[q] = tx[q]
    BY <2>1 DEF TypeOK
  <2>4. tx'[p] # NoTx
    BY <1>1, <2>1, NullsAssumption DEF Tx, TypeOK
  <2>5. /\ tx[p].start < tx[p].stop
        /\ tx[p].op = "create" => rows[tx[p].target] = NoRow
        /\ \A q \in Handler \ {p} :
             tx[q] # NoTx /\ (tx[p].op = "create" \/ tx[q].op = "create")
               => tx[q].target # tx[p].target
    BY <1>1 DEF TxInv, StagesInOrder, NewIdIsPrivate
  <2>6. tx[p].op = "reschedule"
          => /\ owner[tx[p].target] = p
             /\ Exists(tx[p].target)
             /\ rows[tx[p].target].barber = tx[p].barber
    BY <1>1 DEF TxInv, TargetStaysLocked
  <2>7. \A c \in Booking :
          (/\ owner[c] = p /\ c # tx[p].target
           /\ OnDay(rows[c], tx[p].barber, Day(tx[p].start)))
          => ~Overlaps(rows[c], tx[p].start, tx[p].stop)
    BY <1>1, <1>3 DEF TxInv, ConflictsAreNoted
  <2>8. OwnStep(p)
    BY <2>1, <2>2, <2>3, <2>4, <2>5, <2>6, <2>7 DEF OwnStep
  <2>9. QED
    BY <2>8, OwnStepInv
<1>4. QED
  BY <1>2, <1>3

\* The commit of a write: p gives up its locks and its target gets a row.
LEMMA CommitInv ==
  ASSUME TypeOK, TxInv, NEW p \in Handler, NEW b \in Booking,
         tx[p] # NoTx, tx[p].target = b, EndTx(p),
         Free(p, b), rows'[b] # NoRow,
         \A c \in Booking \ {b} : rows'[c] = rows[c],
         \A q \in Handler \ {p} : tx[q] # NoTx /\ tx[q].op = "create" => tx[q].target # b
  PROVE  TxInv'
<1>1. /\ tx'[p] = NoTx
      /\ \A q \in Handler \ {p} : tx'[q] = tx[q]
      /\ \A c \in Booking : owner'[c] = IF owner[c] = p THEN NoHandler ELSE owner[c]
  BY DEF EndTx, TypeOK
<1>2. \A q \in Handler : q # NoHandler
  BY NullsAssumption
<1>3. owner'[b] = NoHandler
  BY <1>1 DEF Free
<1>4. LocksBelongToTx'
  BY <1>1, <1>2, <1>3 DEF TxInv, LocksBelongToTx, TypeOK, Exists
<1>5. StagesInOrder'
  BY <1>1 DEF TxInv, StagesInOrder
<1>6. NewIdIsPrivate'
  <2> SUFFICES ASSUME NEW q \in Handler \ {p}, tx[q] # NoTx, tx[q].op = "create"
               PROVE  /\ rows'[tx[q].target] = NoRow
                      /\ \A r \in Handler \ {q, p} :
                           tx[r] # NoTx => tx[r].target # tx[q].target
    BY <1>1 DEF NewIdIsPrivate
  <2>1. tx[q].target \in Booking \ {b}
    BY DEF TypeOK, Tx
  <2>2. QED
    BY <2>1 DEF TxInv, NewIdIsPrivate
<1>7. TargetStaysLocked'
  <2> SUFFICES ASSUME NEW q \in Handler \ {p}, tx[q] # NoTx, tx[q].op = "reschedule",
                      tx[q].stage \in {"scan", "write"}
               PROVE  /\ owner'[tx[q].target] = q
                      /\ rows'[tx[q].target] # NoRow
                      /\ rows'[tx[q].target].barber = tx[q].barber
    BY <1>1 DEF TargetStaysLocked, Exists
  <2>1. /\ owner[tx[q].target] = q
        /\ rows[tx[q].target] # NoRow
        /\ rows[tx[q].target].barber = tx[q].barber
        /\ tx[q].target \in Booking
    BY DEF TxInv, TargetStaysLocked, TypeOK, Tx, Exists
  <2>2. tx[q].target # b
    BY <1>2, <2>1 DEF Free
  <2>3. QED
    BY <1>1, <2>1, <2>2
<1>8. ConflictsAreNoted'
  <2> SUFFICES ASSUME NEW q \in Handler \ {p}, NEW c \in Booking, tx[q] # NoTx,
                      tx[q].stage \in {"scan", "write"}, owner'[c] = q,
                      c # tx[q].target,
                      OnDay(rows'[c], tx[q].barber, Day(tx[q].start)),
                      Overlaps(rows'[c], tx[q].start, tx[q].stop)
               PROVE  tx[q].clash \/ c \in tx[q].todo
    BY <1>1 DEF ConflictsAreNoted
  <2>1. c # b /\ owner[c] = q /\ rows'[c] = rows[c]
    BY <1>1, <1>2, <1>3
  <2>2. QED
    BY <2>1 DEF TxInv, ConflictsAreNoted
<1>9. QED
  BY <1>4, <1>5, <1>6, <1>7, <1>8 DEF TxInv

LEMMA InsertInv ==
  ASSUME TypeOK, TxInv, NEW p \in Handler, Insert(p)
  PROVE  TxInv'
<1> DEFINE b == tx[p].target
<1>1. /\ tx[p] \in Tx /\ tx[p] # NoTx /\ tx[p].op = "create" /\ b \in Booking
  BY DEF Insert, InStage, TypeOK, Tx
<1>2. CASE StartTaken(b, tx[p].barber, tx[p].start)
  BY <1>1, <1>2, RollbackInv DEF Insert
<1>3. CASE ~StartTaken(b, tx[p].barber, tx[p].start)
  <2> DEFINE r == [barber |-> tx[p].barber, phone |-> tx[p].phone, start |-> tx[p].start,
                   stop |-> tx[p].stop, status |-> "pending"]
  <2>1. rows' = [rows EXCEPT ![b] = r] /\ EndTx(p)
    BY <1>3 DEF Insert
  <2>2. r \in Row
    BY <1>1 DEF Tx, Row, Statuses
  <2> HIDE DEF r
  <2>3. rows'[b] # NoRow
    BY <1>1, <2>1, <2>2, NullsAssumption DEF TypeOK
  <2>4. owner[b] = NoHandler
    BY <1>1 DEF TxInv, NewIdIsPrivate, LocksBelongToTx, Exists
  <2>5. \A q \in Handler \ {p} : tx[q] # NoTx => tx[q].target # b
    BY <1>1 DEF TxInv, NewIdIsPrivate
  <2>6. \A c \in Booking \ {b} : rows'[c] = rows[c]
    BY <2>1 DEF TypeOK
  <2> HIDE DEF b
  <2>7. tx[p].target = b
    BY DEF b
  <2>8. QED
    BY <1>1, <2>1, <2>3, <2>4, <2>5, <2>6, <2>7, CommitInv DEF Free
<1>4. QED
  BY <1>2, <1>3

LEMMA MoveInv ==
  ASSUME TypeOK, TxInv, NEW p \in Handler, Move(p)
  PROVE  TxInv'
<1> DEFINE b == tx[p].target
<1>1. /\ tx[p] \in Tx /\ tx[p] # NoTx /\ tx[p].op = "reschedule"
      /\ tx[p].stage = "write" /\ b \in Booking
  BY DEF Move, InStage, TypeOK, Tx
<1>2. CASE MoveRefused(p)
  BY <1>1, <1>2, RollbackInv DEF Move
<1>3. CASE ~MoveRefused(p)
  <2> DEFINE r == [rows[b] EXCEPT !.start = tx[p].start, !.stop = tx[p].stop]
  <2>1. rows' = [rows EXCEPT ![b] = r] /\ EndTx(p)
    BY <1>3 DEF Move
  <2>2. r \in Row
    BY <1>1, <1>3 DEF Tx, Row, TypeOK, MoveRefused, Exists
  <2> HIDE DEF r
  <2>3. rows'[b] # NoRow
    BY <1>1, <2>1, <2>2, NullsAssumption DEF TypeOK
  <2>4. owner[b] = p /\ rows[b] # NoRow
    BY <1>1 DEF TxInv, TargetStaysLocked, Exists
  <2>5. \A q \in Handler \ {p} : tx[q] # NoTx /\ tx[q].op = "create" => tx[q].target # b
    BY <1>1, <2>4 DEF TxInv, NewIdIsPrivate
  <2>6. \A c \in Booking \ {b} : rows'[c] = rows[c]
    BY <2>1 DEF TypeOK
  <2> HIDE DEF b
  <2>7. tx[p].target = b
    BY DEF b
  <2>8. QED
    BY <1>1, <2>1, <2>3, <2>4, <2>5, <2>6, <2>7, CommitInv DEF Free
<1>4. QED
  BY <1>2, <1>3

\* A single statement changes a row that nobody has locked.
LEMMA StatementInv ==
  ASSUME TypeOK, TxInv, NEW b \in Booking,
         Exists(b), owner[b] = NoHandler, UNCHANGED <<owner, tx>>,
         \A c \in Booking \ {b} : rows'[c] = rows[c]
  PROVE  TxInv'
<1>1. \A q \in Handler : q # NoHandler
  BY NullsAssumption
<1>2. LocksBelongToTx'
  BY DEF TxInv, LocksBelongToTx, Exists
<1>3. StagesInOrder'
  BY DEF TxInv, StagesInOrder
<1>4. NewIdIsPrivate'
  <2> SUFFICES ASSUME NEW q \in Handler, tx[q] # NoTx, tx[q].op = "create"
               PROVE  rows'[tx[q].target] = NoRow
    BY DEF TxInv, NewIdIsPrivate
  <2>1. tx[q].target \in Booking /\ rows[tx[q].target] = NoRow
    BY DEF TypeOK, Tx, TxInv, NewIdIsPrivate
  <2>2. QED
    BY <2>1 DEF Exists
<1>5. TargetStaysLocked'
  <2> SUFFICES ASSUME NEW q \in Handler, tx[q] # NoTx, tx[q].op = "reschedule",
                      tx[q].stage \in {"scan", "write"}
               PROVE  /\ owner[tx[q].target] = q
                      /\ rows'[tx[q].target] # NoRow
                      /\ rows'[tx[q].target].barber = tx[q].barber
    BY DEF TargetStaysLocked, Exists
  <2>1. /\ owner[tx[q].target] = q
        /\ rows[tx[q].target] # NoRow
        /\ rows[tx[q].target].barber = tx[q].barber
        /\ tx[q].target \in Booking
    BY DEF TxInv, TargetStaysLocked, TypeOK, Tx, Exists
  <2>2. QED
    BY <1>1, <2>1
<1>6. ConflictsAreNoted'
  BY <1>1 DEF TxInv, ConflictsAreNoted, OnDay, IsActive, Overlaps
<1>7. QED
  BY <1>2, <1>3, <1>4, <1>5, <1>6 DEF TxInv

LEMMA TxInvStep == TypeOK /\ TxInv /\ [Next]_vars => TxInv'
<1> SUFFICES ASSUME TypeOK, TxInv, [Next]_vars
             PROVE  TxInv'
  OBVIOUS
<1>1. TypeOK'
  BY TypeStep
<1>2. ASSUME NEW p \in Handler,
             BeginCreate(p) \/ BeginReschedule(p) \/ TxStep(p) \/ Abort(p)
      PROVE  TxInv'
  BY <1>1, <1>2, BeginInv, PhoneRowInv, PhoneDoneInv, TargetRowInv, ScanRowInv,
     ScanDoneInv, InsertInv, MoveInv, RollbackInv DEF TxStep, Abort
<1>3. ASSUME NEW b \in Booking, NEW s \in NewStatuses, UpdateBookingStatus(b, s)
      PROVE  TxInv'
  BY <1>3, StatementInv DEF UpdateBookingStatus, TypeOK
<1>4. ASSUME NEW b \in Booking, DeleteBooking(b)
      PROVE  TxInv'
  BY <1>4, StatementInv DEF DeleteBooking, TypeOK
<1>5. CASE UNCHANGED vars
  BY <1>5 DEF vars, TxInv, LocksBelongToTx, StagesInOrder, NewIdIsPrivate,
              TargetStaysLocked, ConflictsAreNoted, Exists, OnDay, IsActive, Overlaps
<1>6. QED
  BY <1>2, <1>3, <1>4, <1>5 DEF Next

-----------------------------------------------------------------------------
(* The theorems. *)

\* The table, the locks and the transactions stay well formed (repo.go).
THEOREM TypeCorrect == Spec => []TypeOK
<1>1. QED
  BY TypeInit, TypeStep, PTL DEF Spec

\* The locks taken by the statements of repo.go always belong to a running
\* transaction and what it has checked under them stays true.
THEOREM LocksCorrect == Spec => []TxInv
<1>1. QED
  BY TypeCorrect, TxInvInit, TxInvStep, PTL DEF Spec

\* The overlap tests of repo.go:68 and :155 stay valid until the write for every
\* row the scan has locked, whatever the other requests do meanwhile.
THEOREM CheckNotStale == Spec => []CheckStaysValid
<1>1. TxInv => CheckStaysValid
  BY DEF TxInv, StagesInOrder, ConflictsAreNoted, CheckStaysValid, InStage
<1>2. QED
  BY <1>1, LocksCorrect, PTL

\* UpdateBookingDetailsTx writes the very row it locked (repo.go:121-131, 166-178).
THEOREM TargetNotStale == Spec => []TargetStaysLocked
<1>1. TxInv => TargetStaysLocked
  BY DEF TxInv
<1>2. QED
  BY <1>1, LocksCorrect, PTL

-----------------------------------------------------------------------------
(* The transactions implement the ledger of atomic changes. *)

LEMMA LedgerRow == Ledger!Row = Row
  BY DEF Ledger!Row, Row, Ledger!Statuses, Statuses

LEMMA LedgerActive == \A r : Ledger!IsActive(r) <=> IsActive(r)
  BY DEF Ledger!IsActive, IsActive, Ledger!Released, Released

LEMMA StoreIntro ==
  ASSUME NEW b \in Booking, NEW r \in Row,
         rows' = [rows EXCEPT ![b] = r], rows'[b] = r, ~Ledger!Taken(b, rows'[b])
  PROVE  Ledger!Store(b)
<1>1. rows'[b] \in Ledger!Row
  BY LedgerRow
<1>2. rows' = [rows EXCEPT ![b] = rows'[b]]
  OBVIOUS
<1>3. QED
  BY <1>1, <1>2 DEF Ledger!Store

LEMMA InsertBooks ==
  ASSUME TypeOK, TxInv, NEW p \in Handler, Insert(p)
  PROVE  rows' = rows \/ Ledger!Next
<1> DEFINE b == tx[p].target
           r == [barber |-> tx[p].barber, phone |-> tx[p].phone, start |-> tx[p].start,
                 stop |-> tx[p].stop, status |-> "pending"]
<1>1. /\ tx[p] \in Tx /\ tx[p] # NoTx /\ tx[p].op = "create" /\ b \in Booking
  BY DEF Insert, InStage, TypeOK, Tx
<1>2. rows[b] = NoRow /\ tx[p].start < tx[p].stop
  BY <1>1 DEF TxInv, NewIdIsPrivate, StagesInOrder
<1>3. CASE StartTaken(b, tx[p].barber, tx[p].start)
  BY <1>3 DEF Insert, Rollback
<1>4. CASE ~StartTaken(b, tx[p].barber, tx[p].start)
  <2>1. rows' = [rows EXCEPT ![b] = r]
    BY <1>4 DEF Insert
  <2>2. rows'[b] = r
    BY <1>1, <2>1 DEF TypeOK
  <2>3. r \in Row
    BY <1>1 DEF Tx, Row, Statuses
  <2>4. ~Ledger!Taken(b, rows'[b])
    BY <1>4, <2>2, LedgerActive DEF Ledger!Taken, StartTaken
  <2>5. Ledger!Store(b)
    BY <1>1, <2>1, <2>2, <2>3, <2>4, StoreIntro
  <2>6. Ledger!Book(b)
    BY <1>2, <2>2, <2>5 DEF Ledger!Book
  <2>7. QED
    BY <1>1, <2>6 DEF Ledger!Next
<1>5. QED
  BY <1>3, <1>4

LEMMA MoveReschedules ==
  ASSUME TypeOK, TxInv, NEW p \in Handler, Move(p)
  PROVE  rows' = rows \/ Ledger!Next
<1> DEFINE b == tx[p].target
           r == [rows[b] EXCEPT !.start = tx[p].start, !.stop = tx[p].stop]
<1>1. /\ tx[p] \in Tx /\ tx[p] # NoTx /\ b \in Booking
      /\ tx[p].start \in Nat /\ tx[p].stop \in Nat
  BY DEF Move, InStage, TypeOK, Tx
<1>2. tx[p].start < tx[p].stop
  BY <1>1 DEF TxInv, StagesInOrder
<1>3. CASE MoveRefused(p)
  BY <1>3 DEF Move, Rollback
<1>4. CASE ~MoveRefused(p)
  <2>1. rows' = [rows EXCEPT ![b] = r]
    BY <1>4 DEF Move
  <2>2. rows[b] # NoRow /\ rows[b] \in Row
    BY <1>1, <1>4 DEF MoveRefused, Exists, TypeOK
  <2>3. rows'[b] = r
    BY <1>1, <2>1 DEF TypeOK
  <2>4. /\ r \in Row
        /\ r.start = tx[p].start /\ r.stop = tx[p].stop
        /\ r.barber = rows[b].barber /\ r.status = rows[b].status
    BY <1>1, <2>2 DEF Row
  <2>5. IsActive(r) => IsActive(rows[b])
    BY <2>2, <2>4 DEF IsActive
  <2>6. ~Ledger!Taken(b, rows'[b])
    BY <1>4, <2>3, <2>4, <2>5, LedgerActive DEF Ledger!Taken, StartTaken, MoveRefused
  <2>7. Ledger!Store(b)
    BY <1>1, <2>1, <2>3, <2>4, <2>6, StoreIntro
  <2>8. Ledger!Reschedule(b)
    BY <1>2, <2>2, <2>3, <2>4, <2>7 DEF Ledger!Reschedule
  <2>9. QED
    BY <1>1, <2>8 DEF Ledger!Next
<1>5. QED
  BY <1>3, <1>4

LEMMA StatusSetsStatus ==
  ASSUME TypeOK, UniqueActiveStart, NEW b \in Booking, NEW s \in NewStatuses,
         UpdateBookingStatus(b, s)
  PROVE  Ledger!Next
<1> DEFINE r == [rows[b] EXCEPT !.status = s]
<1>1. /\ rows[b] # NoRow /\ rows[b] \in Row /\ s \in Statuses
      /\ rows' = [rows EXCEPT ![b] = r]
  BY InputsAssumption DEF UpdateBookingStatus, TypeOK, Exists
<1>2. rows'[b] = r
  BY <1>1 DEF TypeOK
<1>3. /\ r \in Row
      /\ r.status = s
      /\ r.barber = rows[b].barber /\ r.start = rows[b].start
  BY <1>1 DEF Row
<1>4. ~Ledger!Taken(b, rows'[b])
  <2>1. CASE s \in Released
    BY <1>2, <1>3, <2>1, LedgerActive DEF Ledger!Taken, IsActive
  <2>2. CASE s \notin Released /\ ~IsActive(rows[b])
    BY <1>2, <1>3, <2>2, LedgerActive DEF Ledger!Taken, StartTaken, UpdateBookingStatus
  <2>3. CASE IsActive(rows[b])
    BY <1>2, <1>3, <2>3, LedgerActive DEF Ledger!Taken, UniqueActiveStart, Ledger!UniqueActiveStart
  <2>4. QED
    BY <2>1, <2>2, <2>3
<1>5. Ledger!Store(b)
  BY <1>1, <1>2, <1>3, <1>4, StoreIntro
<1>6. Ledger!SetStatus(b)
  BY <1>1, <1>2, <1>3, <1>5 DEF Ledger!SetStatus
<1>7. QED
  BY <1>6 DEF Ledger!Next

LEMMA LedgerStep ==
  ASSUME TypeOK, TxInv, UniqueActiveStart, [Next]_vars
  PROVE  [Ledger!Next]_rows
<1>1. ASSUME NEW p \in Handler,
             BeginCreate(p) \/ BeginReschedule(p) \/ TxStep(p) \/ Abort(p)
      PROVE  rows' = rows \/ Ledger!Next
  BY <1>1, InsertBooks, MoveReschedules
     DEF BeginCreate, BeginReschedule, TxStep, PhoneRow, PhoneDone, TargetRow, ScanRow,
         ScanDone, Abort, Rollback
<1>2. ASSUME NEW b \in Booking, NEW s \in NewStatuses, UpdateBookingStatus(b, s)
      PROVE  Ledger!Next
  BY <1>2, StatusSetsStatus
<1>3. ASSUME NEW b \in Booking, DeleteBooking(b)
      PROVE  Ledger!Next
  BY <1>3 DEF DeleteBooking, Exists, Ledger!Next, Ledger!Remove
<1>4. CASE UNCHANGED vars
  BY <1>4 DEF vars
<1>5. QED
  BY <1>1, <1>2, <1>3, <1>4 DEF Next

LEMMA LedgerKeepsStarts ==
  ASSUME TypeOK, UniqueActiveStart, [Ledger!Next]_rows
  PROVE  UniqueActiveStart'
<1> USE DEF UniqueActiveStart, Ledger!UniqueActiveStart
<1>1. ASSUME NEW b \in Booking, Ledger!Store(b)
      PROVE  UniqueActiveStart'
  <2>1. \A c \in Booking \ {b} : rows'[c] = rows[c]
    BY <1>1 DEF Ledger!Store, TypeOK
  <2>2. ~Ledger!Taken(b, rows'[b])
    BY <1>1 DEF Ledger!Store
  <2>3. QED
    BY <2>1, <2>2 DEF Ledger!Taken, Ledger!IsActive
<1>2. ASSUME NEW b \in Booking, Ledger!Remove(b)
      PROVE  UniqueActiveStart'
  BY <1>2 DEF Ledger!Remove, TypeOK, Ledger!IsActive
<1>3. CASE rows' = rows
  BY <1>3 DEF Ledger!IsActive
<1>4. QED
  BY <1>1, <1>2, <1>3
     DEF Ledger!Next, Ledger!Book, Ledger!Reschedule, Ledger!SetStatus

\* No two active bookings of a barber start together: the partial unique index of
\* migration 003 backs CreateBookingTx, UpdateBookingDetailsTx and UpdateBookingStatus.
THEOREM UniqueStarts == Spec => []UniqueActiveStart
<1>1. Init => UniqueActiveStart
  BY DEF Init, UniqueActiveStart, Ledger!UniqueActiveStart, Ledger!IsActive
<1>2. TypeOK /\ TxInv /\ UniqueActiveStart /\ [Next]_vars => UniqueActiveStart'
  BY LedgerStep, LedgerKeepsStarts
<1>3. QED
  BY <1>1, <1>2, TypeCorrect, LocksCorrect, PTL DEF Spec

\* Seen through the committed table alone, every request of the repository is one
\* atomic change of one booking: repo.go implements BookingLedger.
THEOREM RepoImplementsLedger == Spec => ImplementsLedger
<1>1. Init => Ledger!Init
  BY DEF Init, Ledger!Init
<1>2. TypeOK /\ TxInv /\ UniqueActiveStart /\ [Next]_vars => [Ledger!Next]_rows
  BY LedgerStep
<1>3. QED
  BY <1>1, <1>2, TypeCorrect, LocksCorrect, UniqueStarts, PTL
     DEF Spec, ImplementsLedger, Ledger!Spec

-----------------------------------------------------------------------------
(* What one step of the repository can do to a scan, a check and the table. *)

\* A transaction that is scanning after a step either has just taken its snapshot
\* or goes on with the same request, locking what it takes off its list.
LEMMA ScanFrame ==
  ASSUME TypeOK, [Next]_vars, NEW p \in Handler, Scanning(tx'[p])
  PROVE  \/ /\ ~Scanning(tx[p])
            /\ rows' = rows
            /\ tx'[p].todo = DaySnapshot(tx'[p].barber, Day(tx'[p].start))
         \/ /\ Scanning(tx[p])
            /\ tx'[p].target = tx[p].target
            /\ tx'[p].barber = tx[p].barber
            /\ tx'[p].start = tx[p].start
            /\ \A b \in Booking : owner[b] = p => owner'[b] = p
            /\ \A b \in tx[p].todo : Exists(b) => b \in tx'[p].todo \/ owner'[b] = p
<1> DEFINE Fresh == /\ ~Scanning(tx[p])
                    /\ rows' = rows
                    /\ tx'[p].todo = DaySnapshot(tx'[p].barber, Day(tx'[p].start))
           Same == /\ Scanning(tx[p])
                   /\ tx'[p].target = tx[p].target
                   /\ tx'[p].barber = tx[p].barber
                   /\ tx'[p].start = tx[p].start
                   /\ \A b \in Booking : owner[b] = p => owner'[b] = p
                   /\ \A b \in tx[p].todo : Exists(b) => b \in tx'[p].todo \/ owner'[b] = p
<1>0. tx'[p] # NoTx /\ tx'[p].stage \in {"scan", "write"}
  BY DEF Scanning
<1>1. CASE tx'[p] = tx[p] /\ \A b \in Booking : owner[b] = p => owner'[b] = p
  BY <1>1
<1>2. ASSUME NEW q \in Handler, BeginCreate(q) \/ BeginReschedule(q)
      PROVE  Fresh \/ Same
  <2>1. CASE q = p
    BY <1>0, <1>2, <2>1
       DEF BeginCreate, BeginReschedule, CreateTx, RescheduleTx, TypeOK
  <2>2. CASE q # p
    BY <1>1, <1>2, <2>2 DEF BeginCreate, BeginReschedule, TypeOK
  <2>3. QED
    BY <2>1, <2>2
<1>3. ASSUME NEW q \in Handler, Rollback(q)
      PROVE  Fresh \/ Same
  BY <1>0, <1>1, <1>3 DEF Rollback, EndTx, TypeOK
<1>4. ASSUME NEW q \in Handler, EndTx(q)
      PROVE  Fresh \/ Same
  BY <1>0, <1>1, <1>4 DEF EndTx, TypeOK
<1>5. ASSUME NEW q \in Handler, NEW c \in Booking, PhoneRow(q, c)
      PROVE  Fresh \/ Same
  <2>1. CASE Rollback(q)
    BY <1>3, <2>1
  <2>2. CASE ~Rollback(q)
    <3>1. /\ tx' = [tx EXCEPT ![q].todo = @ \ {c}]
          /\ owner' = owner \/ owner' = [owner EXCEPT ![c] = q]
          /\ Free(q, c) /\ tx[q].stage = "phone"
      BY <1>5, <2>2 DEF PhoneRow, Lock, InStage
    <3>2. CASE q = p
      <4>1. tx[p] \in Tx
        BY <1>5, <3>2 DEF PhoneRow, InStage, TypeOK
      <4>2. tx'[p].stage = "phone"
        BY <3>1, <3>2, <4>1 DEF TypeOK, Tx
      <4>3. QED
        BY <1>0, <4>2
    <3>3. CASE q # p
      BY <1>1, <3>1, <3>3, NullsAssumption DEF Free, TypeOK
    <3>4. QED
      BY <3>2, <3>3
  <2>3. QED
    BY <2>1, <2>2
<1>6. ASSUME NEW q \in Handler, PhoneDone(q)
      PROVE  Fresh \/ Same
  <2>1. CASE q = p
    <3>1. tx[p] \in Tx /\ tx[p].stage = "phone"
      BY <1>6, <2>1 DEF PhoneDone, InStage, TypeOK
    <3>2. /\ tx'[p].todo = DaySnapshot(tx'[p].barber, Day(tx'[p].start))
          /\ rows' = rows
      BY <1>6, <2>1, <3>1 DEF PhoneDone, TypeOK, Tx
    <3>3. QED
      BY <3>1, <3>2 DEF Scanning
  <2>2. CASE q # p
    BY <1>1, <1>6, <2>2 DEF PhoneDone, TypeOK
  <2>3. QED
    BY <2>1, <2>2
<1>7. ASSUME NEW q \in Handler, TargetRow(q)
      PROVE  Fresh \/ Same
  <2>1. CASE Rollback(q)
    BY <1>3, <2>1
  <2>2. CASE ~Rollback(q)
    <3> DEFINE b == tx[q].target
    <3>1. /\ tx' = [tx EXCEPT ![q].stage = "scan", ![q].barber = rows[b].barber,
                              ![q].todo = DaySnapshot(rows[b].barber, Day(tx[q].start))]
          /\ owner' = [owner EXCEPT ![b] = q] /\ Free(q, b) /\ rows' = rows
          /\ tx[q] \in Tx /\ tx[q].stage = "target"
      BY <1>7, <2>2 DEF TargetRow, Lock, InStage, TypeOK
    <3>2. CASE q = p
      <4>1. tx'[p].todo = DaySnapshot(tx'[p].barber, Day(tx'[p].start))
        BY <3>1, <3>2 DEF TypeOK, Tx
      <4>2. QED
        BY <3>1, <3>2, <4>1 DEF Scanning
    <3>3. CASE q # p
      BY <1>1, <3>1, <3>3, NullsAssumption DEF Free, TypeOK
    <3>4. QED
      BY <3>2, <3>3
  <2>3. QED
    BY <2>1, <2>2
<1>8. ASSUME NEW q \in Handler, NEW c \in Booking, ScanRow(q, c)
      PROVE  Fresh \/ Same
  <2>1. CASE q = p
    <3>1. /\ tx[p] \in Tx /\ Scanning(tx[p])
          /\ Free(p, c)
          /\ IF Exists(c) THEN owner' = [owner EXCEPT ![c] = p] ELSE owner' = owner
      BY <1>8, <2>1 DEF ScanRow, InStage, TypeOK, Scanning, Lock
    <3>2. /\ tx'[p].target = tx[p].target
          /\ tx'[p].barber = tx[p].barber
          /\ tx'[p].start = tx[p].start
          /\ tx'[p].todo = tx[p].todo \ {c}
      BY <1>8, <2>1, <3>1 DEF ScanRow, TypeOK, Tx
    <3>3. QED
      BY <3>1, <3>2 DEF TypeOK
  <2>2. CASE q # p
    BY <1>1, <1>8, <2>2, NullsAssumption DEF ScanRow, Lock, Free, TypeOK
  <2>3. QED
    BY <2>1, <2>2
<1>9. ASSUME NEW q \in Handler, ScanDone(q)
      PROVE  Fresh \/ Same
  <2>1. CASE Rollback(q)
    BY <1>3, <2>1
  <2>2. CASE ~Rollback(q)
    <3>1. /\ tx' = [tx EXCEPT ![q].stage = "write"] /\ owner' = owner
          /\ tx[q] \in Tx /\ tx[q] # NoTx /\ tx[q].stage = "scan"
      BY <1>9, <2>2 DEF ScanDone, InStage, TypeOK
    <3>2. CASE q = p
      BY <3>1, <3>2 DEF TypeOK, Tx, Scanning
    <3>3. CASE q # p
      BY <1>1, <3>1, <3>3 DEF TypeOK
    <3>4. QED
      BY <3>2, <3>3
  <2>3. QED
    BY <2>1, <2>2
<1>10. ASSUME NEW q \in Handler, Insert(q) \/ Move(q) \/ Abort(q)
       PROVE  Fresh \/ Same
  BY <1>3, <1>4, <1>10 DEF Insert, Move, Abort
<1>11. CASE UNCHANGED <<owner, tx>>
  BY <1>1, <1>11
<1>12. QED
  BY <1>2, <1>5, <1>6, <1>7, <1>8, <1>9, <1>10, <1>11
     DEF Next, TxStep, UpdateBookingStatus, DeleteBooking, vars

\* A create that is running after a step either has just taken the snapshot of its
\* check or goes on, and does not get past a row that is still pending.
LEMMA CheckFrame ==
  ASSUME TypeOK, [Next]_vars, NEW p \in Handler, Creating(tx'[p])
  PROVE  \/ /\ ~Creating(tx[p])
            /\ rows' = rows
            /\ tx'[p].stage = "phone"
            /\ tx'[p].todo = {c \in Booking : IsPendingOf(rows[c], tx'[p].phone)}
         \/ /\ Creating(tx[p])
            /\ tx'[p].phone = tx[p].phone
            /\ \A b \in tx[p].todo :
                 tx[p].stage = "phone" /\ IsPendingOf(rows[b], tx[p].phone)
                   => tx'[p].stage = "phone" /\ b \in tx'[p].todo
<1> DEFINE Fresh == /\ ~Creating(tx[p])
                    /\ rows' = rows
                    /\ tx'[p].stage = "phone"
                    /\ tx'[p].todo = {c \in Booking : IsPendingOf(rows[c], tx'[p].phone)}
           Same == /\ Creating(tx[p])
                   /\ tx'[p].phone = tx[p].phone
                   /\ \A b \in tx[p].todo :
                        tx[p].stage = "phone" /\ IsPendingOf(rows[b], tx[p].phone)
                          => tx'[p].stage = "phone" /\ b \in tx'[p].todo
<1>0. tx'[p] # NoTx /\ tx'[p].op = "create"
  BY DEF Creating
<1>1. CASE tx'[p] = tx[p]
  BY <1>1
<1>2. ASSUME NEW q \in Handler, BeginCreate(q)
      PROVE  Fresh \/ Same
  <2>1. PICK b \in Booking, k \in Barber, ph \in Phone, s \in Starts, n \in Durations :
          tx' = [tx EXCEPT ![q] = CreateTx(b, k, ph, s, n)]
    BY <1>2 DEF BeginCreate
  <2>2. rows' = rows /\ tx[q] = NoTx
    BY <1>2 DEF BeginCreate
  <2>3. CASE q = p
    BY <2>1, <2>2, <2>3 DEF TypeOK, CreateTx, Creating
  <2>4. CASE q # p
    BY <1>1, <2>1, <2>4 DEF TypeOK
  <2>5. QED
    BY <2>3, <2>4
<1>3. ASSUME NEW q \in Handler, BeginReschedule(q)
      PROVE  Fresh \/ Same
  BY <1>0, <1>1, <1>3 DEF BeginReschedule, RescheduleTx, TypeOK
<1>4. ASSUME NEW q \in Handler, EndTx(q)
      PROVE  Fresh \/ Same
  BY <1>0, <1>1, <1>4 DEF EndTx, TypeOK
<1>5. ASSUME NEW q \in Handler, NEW c \in Booking, PhoneRow(q, c)
      PROVE  Fresh \/ Same
  <2>1. CASE IsPendingOf(rows[c], tx[q].phone)
    BY <1>4, <1>5, <2>1 DEF PhoneRow, Rollback
  <2>2. CASE ~IsPendingOf(rows[c], tx[q].phone)
    <3>1. tx' = [tx EXCEPT ![q].todo = @ \ {c}] /\ tx[q] \in Tx /\ tx[q] # NoTx
      BY <1>5, <2>2 DEF PhoneRow, InStage, TypeOK
    <3>2. CASE q = p
      BY <1>0, <2>2, <3>1, <3>2 DEF TypeOK, Tx, Creating
    <3>3. CASE q # p
      BY <1>1, <3>1, <3>3 DEF TypeOK
    <3>4. QED
      BY <3>2, <3>3
  <2>3. QED
    BY <2>1, <2>2
<1>6. ASSUME NEW q \in Handler, PhoneDone(q)
      PROVE  Fresh \/ Same
  <2>1. tx[q] \in Tx /\ tx[q] # NoTx /\ tx[q].todo = {}
    BY <1>6 DEF PhoneDone, InStage, TypeOK
  <2>2. CASE q = p
    BY <1>0, <1>6, <2>1, <2>2 DEF PhoneDone, TypeOK, Tx, Creating
  <2>3. CASE q # p
    BY <1>1, <1>6, <2>3 DEF PhoneDone, TypeOK
  <2>4. QED
    BY <2>2, <2>3
<1>7. ASSUME NEW q \in Handler,
             NEW b \in Booking, TargetRow(q) \/ ScanRow(q, b) \/ ScanDone(q)
      PROVE  Fresh \/ Same
  <2>1. CASE EndTx(q)
    BY <1>4, <2>1
  <2>2. CASE ~EndTx(q)
    <3>1. tx[q] \in Tx /\ tx[q] # NoTx /\ tx[q].stage # "phone"
      BY <1>7 DEF TargetRow, ScanRow, ScanDone, InStage, TypeOK
    <3>2. CASE q = p
      <4>1. tx'[p].op = tx[p].op /\ tx'[p].phone = tx[p].phone
        BY <1>7, <2>2, <3>1, <3>2
           DEF TargetRow, ScanRow, ScanDone, Rollback, TypeOK, Tx
      <4>2. QED
        BY <1>0, <3>1, <3>2, <4>1 DEF Creating
    <3>3. CASE q # p
      BY <1>1, <1>7, <2>2, <3>3
         DEF TargetRow, ScanRow, ScanDone, Rollback, TypeOK
    <3>4. QED
      BY <3>2, <3>3
  <2>3. QED
    BY <2>1, <2>2
<1>8. ASSUME NEW q \in Handler, Insert(q) \/ Move(q) \/ Abort(q)
      PROVE  Fresh \/ Same
  BY <1>4, <1>8 DEF Insert, Move, Abort, Rollback
<1>9. CASE tx' = tx
  BY <1>1, <1>9
<1>10. CASE \E q \in Handler : BeginCreate(q) \/ BeginReschedule(q) \/ TxStep(q) \/ Abort(q)
  <2>1. PICK q \in Handler : BeginCreate(q) \/ BeginReschedule(q) \/ TxStep(q) \/ Abort(q)
    BY <1>10
  <2>2. CASE BeginCreate(q) \/ BeginReschedule(q)
    BY <1>2, <1>3, <2>2
  <2>3. CASE \E c \in Booking : PhoneRow(q, c) \/ ScanRow(q, c)
    BY <1>5, <1>7, <2>3
  <2>4. CASE PhoneDone(q)
    BY <1>6, <2>4
  <2>5. CASE TargetRow(q) \/ ScanDone(q)
    <3>1. tx[q] # NoTx
      BY <2>5 DEF TargetRow, ScanDone, InStage
    <3>2. tx[q].target \in Booking
      BY <3>1 DEF TypeOK, Tx
    <3>3. QED
      BY <1>7, <2>5, <3>2
  <2>6. CASE Insert(q) \/ Move(q) \/ Abort(q)
    BY <1>8, <2>6
  <2>7. QED
    BY <2>1, <2>2, <2>3, <2>4, <2>5, <2>6 DEF TxStep
<1>11. QED
  BY <1>9, <1>10 DEF Next, UpdateBookingStatus, DeleteBooking, vars

\* What a committed write leaves in the table.
LEMMA WriteFrame ==
  ASSUME TypeOK, TxInv, NEW p \in Handler, Insert(p) \/ Move(p), rows' # rows
  PROVE  LET b == tx[p].target IN
           /\ tx[p] # NoTx /\ tx[p].stage = "write" /\ tx'[p] = NoTx
           /\ tx[p].todo = {} /\ ~tx[p].clash
           /\ b \in Booking
           /\ \A c \in Booking \ {b} : rows'[c] = rows[c]
           /\ rows'[b] # NoRow
           /\ rows'[b].barber = tx[p].barber
           /\ rows'[b].start = tx[p].start
           /\ rows'[b].stop = tx[p].stop
           /\ \/ tx[p].op = "create" /\ rows[b] = NoRow /\ rows'[b].phone = tx[p].phone
              \/ /\ rows[b] # NoRow
                 /\ rows'[b].phone = rows[b].phone
                 /\ rows'[b].status = rows[b].status
<1> DEFINE b == tx[p].target
<1>1. /\ tx[p] \in Tx /\ tx[p] # NoTx /\ tx[p].stage = "write" /\ b \in Booking
  BY DEF Insert, Move, InStage, TypeOK, Tx
<1>2. tx[p].todo = {} /\ ~tx[p].clash
  BY <1>1 DEF TxInv, StagesInOrder
<1>3. tx'[p] = NoTx
  BY DEF Insert, Move, Rollback, EndTx, TypeOK
<1>4. CASE Insert(p)
  <2> DEFINE r == [barber |-> tx[p].barber, phone |-> tx[p].phone, start |-> tx[p].start,
                   stop |-> tx[p].stop, status |-> "pending"]
  <2>1. rows' = [rows EXCEPT ![b] = r] /\ tx[p].op = "create"
    BY <1>4 DEF Insert, Rollback
  <2>2. rows[b] = NoRow
    BY <1>1, <2>1 DEF TxInv, NewIdIsPrivate
  <2>3. r \in Row
    BY <1>1 DEF Tx, Row, Statuses
  <2>4. r # NoRow
    BY <2>3, NullsAssumption
  <2>5. rows'[b] = r /\ \A c \in Booking \ {b} : rows'[c] = rows[c]
    BY <1>1, <2>1 DEF TypeOK
  <2>6. QED
    BY <1>1, <1>2, <1>3, <2>1, <2>2, <2>4, <2>5
<1>5. CASE Move(p)
  <2> DEFINE r == [rows[b] EXCEPT !.start = tx[p].start, !.stop = tx[p].stop]
  <2>1. rows' = [rows EXCEPT ![b] = r] /\ tx[p].op = "reschedule"
    BY <1>5 DEF Move, Rollback
  <2>2. rows[b] # NoRow /\ rows[b] \in Row /\ rows[b].barber = tx[p].barber
    BY <1>1, <2>1 DEF TxInv, TargetStaysLocked, Exists, TypeOK
  <2>3. /\ r \in Row
        /\ r.start = tx[p].start /\ r.stop = tx[p].stop
        /\ r.barber = rows[b].barber /\ r.status = rows[b].status
        /\ r.phone = rows[b].phone
    BY <1>1, <2>2 DEF Tx, Row
  <2>4. r # NoRow
    BY <2>3, NullsAssumption
  <2>5. rows'[b] = r /\ \A c \in Booking \ {b} : rows'[c] = rows[c]
    BY <1>1, <2>1 DEF TypeOK
  <2>6. QED
    BY <1>1, <1>2, <1>3, <2>2, <2>3, <2>4, <2>5
<1>6. QED
  BY <1>4, <1>5

\* Every step that changes the table is one of three.
LEMMA TableFrame ==
  ASSUME [Next]_vars
  PROVE  \/ rows' = rows
         \/ \E p \in Handler : Insert(p) \/ Move(p)
         \/ \E b \in Booking : DeleteBooking(b) \/ \E s \in NewStatuses : UpdateBookingStatus(b, s)
BY DEF Next, vars, BeginCreate, BeginReschedule, TxStep, PhoneRow, PhoneDone, TargetRow,
       ScanRow, ScanDone, Abort, Rollback

-----------------------------------------------------------------------------
(* The invariant of the races is inductive. *)

LEMMA DayKnownStep ==
  ASSUME TypeOK, RaceInv, [Next]_vars, NoteStale
  PROVE  DayKnown'
<1> SUFFICES ASSUME NEW p \in Handler, NEW b \in Booking,
                    Scanning(tx'[p]), ~dayStale'[p], b # tx'[p].target,
                    OnDay(rows'[b], tx'[p].barber, Day(tx'[p].start))
             PROVE  b \in tx'[p].todo \/ owner'[b] = p
  BY DEF DayKnown
<1>1. CASE /\ ~Scanning(tx[p])
           /\ rows' = rows
           /\ tx'[p].todo = DaySnapshot(tx'[p].barber, Day(tx'[p].start))
  BY <1>1 DEF DaySnapshot
<1>2. CASE /\ Scanning(tx[p])
           /\ tx'[p].target = tx[p].target
           /\ tx'[p].barber = tx[p].barber
           /\ tx'[p].start = tx[p].start
           /\ \A c \in Booking : owner[c] = p => owner'[c] = p
           /\ \A c \in tx[p].todo : Exists(c) => c \in tx'[p].todo \/ owner'[c] = p
  <2>1. ~dayStale[p] /\ ~EntersDay(b, tx[p].barber, Day(tx[p].start))
    BY <1>2 DEF NoteStale, RaceInv, HistoryTypeOK
  <2>2. OnDay(rows[b], tx[p].barber, Day(tx[p].start))
    BY <1>2, <2>1 DEF EntersDay
  <2>3. b \in tx[p].todo \/ owner[b] = p
    BY <1>2, <2>1, <2>2 DEF RaceInv, DayKnown
  <2>4. Exists(b)
    BY <2>2 DEF OnDay, IsActive, Exists
  <2>5. QED
    BY <1>2, <2>3, <2>4
<1>3. QED
  BY <1>1, <1>2, ScanFrame

LEMMA PhoneKnownStep ==
  ASSUME TypeOK, RaceInv, [Next]_vars, NoteStale
  PROVE  PhoneKnown'
<1> SUFFICES ASSUME NEW p \in Handler, NEW b \in Booking,
                    Creating(tx'[p]), ~phoneStale'[p], IsPendingOf(rows'[b], tx'[p].phone)
             PROVE  tx'[p].stage = "phone" /\ b \in tx'[p].todo
  BY DEF PhoneKnown
<1>1. CASE /\ ~Creating(tx[p])
           /\ rows' = rows
           /\ tx'[p].stage = "phone"
           /\ tx'[p].todo = {c \in Booking : IsPendingOf(rows[c], tx'[p].phone)}
  BY <1>1
<1>2. CASE /\ Creating(tx[p])
           /\ tx'[p].phone = tx[p].phone
           /\ \A c \in tx[p].todo :
                tx[p].stage = "phone" /\ IsPendingOf(rows[c], tx[p].phone)
                  => tx'[p].stage = "phone" /\ c \in tx'[p].todo
  <2>1. ~phoneStale[p] /\ ~EntersPhone(b, tx[p].phone)
    BY <1>2 DEF NoteStale, RaceInv, HistoryTypeOK
  <2>2. IsPendingOf(rows[b], tx[p].phone)
    BY <1>2, <2>1 DEF EntersPhone
  <2>3. tx[p].stage = "phone" /\ b \in tx[p].todo
    BY <1>2, <2>1, <2>2 DEF RaceInv, PhoneKnown
  <2>4. QED
    BY <1>2, <2>2, <2>3
<1>3. QED
  BY <1>1, <1>2, CheckFrame

\* Bookings a step leaves alone stay as late as they were.
LEMMA LateKept ==
  ASSUME NoteLate, NEW b \in Booking, rows'[b] = rows[b], rows[b] # NoRow
  PROVE  /\ b \in lateDay => b \in lateDay'
         /\ b \in latePhone => b \in latePhone'
  BY DEF NoteLate, Commits

LEMMA OverlapsSymmetric ==
  ASSUME NEW r, NEW s
  PROVE  Overlaps(r, s.start, s.stop) <=> Overlaps(s, r.start, r.stop)
  BY DEF Overlaps

\* A write whose scan nothing raced meets no active booking of its day.
LEMMA CleanWriteFits ==
  ASSUME TypeOK, TxInv, RaceInv, NEW p \in Handler, Insert(p) \/ Move(p), rows' # rows,
         ~dayStale[p], NEW a \in Booking, a # tx[p].target,
         OnDay(rows[a], tx[p].barber, Day(tx[p].start))
  PROVE  ~Overlaps(rows[a], tx[p].start, tx[p].stop)
<1>1. /\ tx[p] # NoTx /\ tx[p].stage = "write"
      /\ tx[p].todo = {} /\ ~tx[p].clash
  BY WriteFrame
<1>2. owner[a] = p
  BY <1>1 DEF RaceInv, DayKnown, Scanning
<1>3. QED
  BY <1>1, <1>2 DEF TxInv, ConflictsAreNoted

LEMMA OverlapStep ==
  ASSUME TypeOK, TypeOK', TxInv, RaceInv, [Next]_vars, NoteLate
  PROVE  OverlapNeedsRace'
<1> DEFINE Both(a, b) == /\ a # b
                         /\ IsActive(rows[a]) /\ IsActive(rows[b])
                         /\ rows[a].barber = rows[b].barber
                         /\ Day(rows[a].start) = Day(rows[b].start)
                         /\ Overlaps(rows[a], rows[b].start, rows[b].stop)
           BothNext(a, b) == /\ a # b
                             /\ IsActive(rows'[a]) /\ IsActive(rows'[b])
                             /\ rows'[a].barber = rows'[b].barber
                             /\ Day(rows'[a].start) = Day(rows'[b].start)
                             /\ Overlaps(rows'[a], rows'[b].start, rows'[b].stop)
<1>1. ASSUME NEW a \in Booking, NEW b \in Booking, Both(a, b)
      PROVE  a \in lateDay \/ b \in lateDay
  BY <1>1 DEF RaceInv, OverlapNeedsRace
<1>2. ASSUME NEW a \in Booking, NEW b \in Booking, BothNext(a, b),
             rows'[a] = rows[a], rows'[b] = rows[b]
      PROVE  a \in lateDay' \/ b \in lateDay'
  <2>1. rows[a] # NoRow /\ rows[b] # NoRow
    BY <1>2 DEF IsActive
  <2>2. QED
    BY <1>1, <1>2, <2>1, LateKept
<1>3. SUFFICES ASSUME NEW a \in Booking, NEW b \in Booking, BothNext(a, b)
               PROVE  a \in lateDay' \/ b \in lateDay'
  BY DEF OverlapNeedsRace
<1>4. CASE rows' = rows
  BY <1>2, <1>3, <1>4
<1>5. ASSUME NEW p \in Handler, Insert(p) \/ Move(p), rows' # rows
      PROVE  a \in lateDay' \/ b \in lateDay'
  <2> DEFINE t == tx[p].target
  <2>1. /\ tx[p] # NoTx /\ tx'[p] = NoTx /\ t \in Booking
        /\ \A c \in Booking \ {t} : rows'[c] = rows[c]
        /\ rows'[t].barber = tx[p].barber
        /\ rows'[t].start = tx[p].start
        /\ rows'[t].stop = tx[p].stop
    BY <1>5, WriteFrame
  <2>2. rows'[t] # rows[t]
    BY <1>5, <2>1 DEF TypeOK
  <2>3. CASE dayStale[p]
    <3>1. t \in lateDay'
      BY <2>1, <2>2, <2>3 DEF NoteLate, Commits
    <3>2. CASE a = t \/ b = t
      BY <3>1, <3>2
    <3>3. CASE a # t /\ b # t
      BY <1>2, <1>3, <2>1, <3>3
    <3>4. QED
      BY <3>2, <3>3
  <2>4. CASE ~dayStale[p]
    <3>1. ASSUME NEW c \in Booking, c # t, BothNext(c, t)
          PROVE  FALSE
      <4>1. /\ rows'[c] = rows[c]
            /\ OnDay(rows[c], tx[p].barber, Day(tx[p].start))
            /\ Overlaps(rows[c], tx[p].start, tx[p].stop)
        BY <2>1, <3>1 DEF OnDay
      <4>2. QED
        BY <1>5, <2>4, <3>1, <4>1, CleanWriteFits
    <3>2. BothNext(a, b) => BothNext(b, a)
      BY OverlapsSymmetric
    <3>3. a # t /\ b # t
      BY <1>3, <3>1, <3>2
    <3>4. QED
      BY <1>2, <1>3, <2>1, <3>3
  <2>5. QED
    BY <2>3, <2>4
<1>6. ASSUME NEW c \in Booking, DeleteBooking(c)
      PROVE  a \in lateDay' \/ b \in lateDay'
  <2>1. rows'[c] = NoRow /\ \A d \in Booking \ {c} : rows'[d] = rows[d]
    BY <1>6 DEF DeleteBooking, TypeOK
  <2>2. a # c /\ b # c
    BY <1>3, <2>1 DEF IsActive
  <2>3. QED
    BY <1>2, <1>3, <2>1, <2>2
<1>7. ASSUME NEW c \in Booking, NEW s \in NewStatuses, UpdateBookingStatus(c, s)
      PROVE  a \in lateDay' \/ b \in lateDay'
  <2>1. /\ rows[c] # NoRow /\ rows[c] \in Row /\ tx' = tx
        /\ rows' = [rows EXCEPT ![c].status = s]
    BY <1>7 DEF UpdateBookingStatus, Exists, TypeOK
  <2>2. /\ \A d \in Booking \ {c} : rows'[d] = rows[d]
        /\ rows'[c] = [rows[c] EXCEPT !.status = s]
    BY <2>1 DEF TypeOK
  <2>3. /\ rows'[c].barber = rows[c].barber
        /\ rows'[c].start = rows[c].start
        /\ rows'[c].stop = rows[c].stop
    BY <2>1, <2>2 DEF Row
  <2>4. ~\E q \in Handler : Commits(q, c)
    BY <2>1 DEF Commits
  <2>5. CASE ~IsActive(rows[c]) /\ IsActive(rows'[c])
    <3>1. c \in lateDay'
      BY <2>4, <2>5 DEF NoteLate
    <3>2. CASE a = c \/ b = c
      BY <3>1, <3>2
    <3>3. CASE a # c /\ b # c
      BY <1>2, <1>3, <2>2, <3>3
    <3>4. QED
      BY <3>2, <3>3
  <2>6. CASE IsActive(rows[c]) \/ ~IsActive(rows'[c])
    <3>1. Both(a, b)
      BY <1>3, <2>2, <2>3, <2>6 DEF Overlaps
    <3>2. c \in lateDay => c \in lateDay'
      BY <2>4 DEF NoteLate
    <3>3. \A d \in {a, b} : d # c => (d \in lateDay => d \in lateDay')
      BY <2>2, <3>1, LateKept DEF IsActive
    <3>4. QED
      BY <1>1, <3>1, <3>2, <3>3
  <2>7. QED
    BY <2>5, <2>6
<1>8. QED
  BY <1>4, <1>5, <1>6, <1>7, TableFrame

LEMMA PendingStep ==
  ASSUME TypeOK, TypeOK', TxInv, RaceInv, [Next]_vars, NoteLate
  PROVE  SecondPendingNeedsRace'
<1> DEFINE Both(a, b) == /\ a # b
                         /\ IsPendingOf(rows[a], rows[a].phone)
                         /\ IsPendingOf(rows[b], rows[a].phone)
           BothNext(a, b) == /\ a # b
                             /\ IsPendingOf(rows'[a], rows'[a].phone)
                             /\ IsPendingOf(rows'[b], rows'[a].phone)
<1>1. ASSUME NEW a \in Booking, NEW b \in Booking, Both(a, b)
      PROVE  a \in latePhone \/ b \in latePhone
  BY <1>1 DEF RaceInv, SecondPendingNeedsRace
<1>2. ASSUME NEW a \in Booking, NEW b \in Booking, BothNext(a, b),
             rows'[a] = rows[a], rows'[b] = rows[b]
      PROVE  a \in latePhone' \/ b \in latePhone'
  <2>1. rows[a] # NoRow /\ rows[b] # NoRow
    BY <1>2 DEF IsPendingOf
  <2>2. QED
    BY <1>1, <1>2, <2>1, LateKept
<1>3. SUFFICES ASSUME NEW a \in Booking, NEW b \in Booking, BothNext(a, b)
               PROVE  a \in latePhone' \/ b \in latePhone'
  BY DEF SecondPendingNeedsRace
<1>4. CASE rows' = rows
  BY <1>2, <1>3, <1>4
<1>5. ASSUME NEW p \in Handler, Insert(p) \/ Move(p), rows' # rows
      PROVE  a \in latePhone' \/ b \in latePhone'
  <2> DEFINE t == tx[p].target
  <2>1. /\ tx[p] # NoTx /\ tx'[p] = NoTx /\ tx[p].stage = "write" /\ t \in Booking
        /\ \A c \in Booking \ {t} : rows'[c] = rows[c]
        /\ \/ tx[p].op = "create" /\ rows[t] = NoRow /\ rows'[t].phone = tx[p].phone
           \/ /\ rows[t] # NoRow
              /\ rows'[t].phone = rows[t].phone
              /\ rows'[t].status = rows[t].status
    BY <1>5, WriteFrame
  <2>2. rows'[t] # rows[t]
    BY <1>5, <2>1 DEF TypeOK
  <2>3. CASE rows[t] # NoRow
    <3>1. rows'[t].phone = rows[t].phone /\ rows'[t].status = rows[t].status
      BY <2>1, <2>3
    <3>2. Both(a, b)
      BY <1>3, <2>1, <2>3, <3>1 DEF IsPendingOf
    <3>3. t \in latePhone => t \in latePhone'
      BY <2>1, <2>3 DEF NoteLate
    <3>4. \A d \in {a, b} : d # t => (d \in latePhone => d \in latePhone')
      BY <2>1, <3>2, LateKept DEF IsPendingOf
    <3>5. QED
      BY <1>1, <3>2, <3>3, <3>4
  <2>4. CASE rows[t] = NoRow /\ phoneStale[p]
    <3>1. t \in latePhone'
      BY <2>1, <2>2, <2>4 DEF NoteLate, Commits
    <3>2. CASE a = t \/ b = t
      BY <3>1, <3>2
    <3>3. CASE a # t /\ b # t
      BY <1>2, <1>3, <2>1, <3>3
    <3>4. QED
      BY <3>2, <3>3
  <2>5. CASE rows[t] = NoRow /\ ~phoneStale[p]
    <3>1. tx[p].op = "create" /\ rows'[t].phone = tx[p].phone
      BY <2>1, <2>5
    <3>2. \A c \in Booking : ~IsPendingOf(rows[c], tx[p].phone)
      BY <2>1, <2>5, <3>1 DEF RaceInv, PhoneKnown, Creating
    <3>3. a # t /\ b # t
      BY <1>3, <2>1, <3>1, <3>2 DEF IsPendingOf
    <3>4. QED
      BY <1>2, <1>3, <2>1, <3>3
  <2>6. QED
    BY <2>3, <2>4, <2>5
<1>6. ASSUME NEW c \in Booking, DeleteBooking(c)
      PROVE  a \in latePhone' \/ b \in latePhone'
  <2>1. rows'[c] = NoRow /\ \A d \in Booking \ {c} : rows'[d] = rows[d]
    BY <1>6 DEF DeleteBooking, TypeOK
  <2>2. a # c /\ b # c
    BY <1>3, <2>1 DEF IsPendingOf
  <2>3. QED
    BY <1>2, <1>3, <2>1, <2>2
<1>7. ASSUME NEW c \in Booking, NEW s \in NewStatuses, UpdateBookingStatus(c, s)
      PROVE  a \in latePhone' \/ b \in latePhone'
  <2>1. /\ rows[c] # NoRow /\ rows[c] \in Row /\ tx' = tx
        /\ rows' = [rows EXCEPT ![c].status = s]
    BY <1>7 DEF UpdateBookingStatus, Exists, TypeOK
  <2>2. /\ \A d \in Booking \ {c} : rows'[d] = rows[d]
        /\ rows'[c] = [rows[c] EXCEPT !.status = s]
    BY <2>1 DEF TypeOK
  <2>3. rows'[c].phone = rows[c].phone
    BY <2>1, <2>2 DEF Row
  <2>4. CASE EntersPhone(c, rows[c].phone)
    <3>1. c \in latePhone'
      BY <2>1, <2>4 DEF NoteLate
    <3>2. CASE a = c \/ b = c
      BY <3>1, <3>2
    <3>3. CASE a # c /\ b # c
      BY <1>2, <1>3, <2>2, <3>3
    <3>4. QED
      BY <3>2, <3>3
  <2>5. CASE ~EntersPhone(c, rows[c].phone)
    <3>1. IsPendingOf(rows'[c], rows[c].phone) => IsPendingOf(rows[c], rows[c].phone)
      BY <2>5 DEF EntersPhone
    <3>2. Both(a, b)
      BY <1>3, <2>1, <2>2, <2>3, <3>1 DEF IsPendingOf
    <3>3. c \in latePhone => c \in latePhone'
      BY <2>1 DEF NoteLate
    <3>4. \A d \in {a, b} : d # c => (d \in latePhone => d \in latePhone')
      BY <2>2, <3>2, LateKept DEF IsPendingOf
    <3>5. QED
      BY <1>1, <3>2, <3>3, <3>4
  <2>6. QED
    BY <2>4, <2>5
<1>8. QED
  BY <1>4, <1>5, <1>6, <1>7, TableFrame

LEMMA RaceInvInit == InitR => RaceInv
  BY DEF InitR, Init, RaceInv, HistoryTypeOK, DayKnown, PhoneKnown, OverlapNeedsRace,
         SecondPendingNeedsRace, Scanning, Creating, IsActive, IsPendingOf

LEMMA RaceInvStep ==
  TypeOK /\ TypeOK' /\ TxInv /\ RaceInv /\ [NextR]_varsR => RaceInv'
<1> SUFFICES ASSUME TypeOK, TypeOK', TxInv, RaceInv, [NextR]_varsR
             PROVE  RaceInv'
  OBVIOUS
<1>1. CASE NextR
  <2>1. [Next]_vars /\ NoteStale /\ NoteLate
    BY <1>1 DEF NextR
  <2>2. HistoryTypeOK'
    BY <2>1 DEF NoteStale, HistoryTypeOK
  <2>3. DayKnown' /\ PhoneKnown'
    BY <2>1, DayKnownStep, PhoneKnownStep
  <2>4. OverlapNeedsRace' /\ SecondPendingNeedsRace'
    BY <2>1, OverlapStep, PendingStep
  <2>5. QED
    BY <2>2, <2>3, <2>4 DEF RaceInv
<1>2. CASE UNCHANGED varsR
  BY <1>2 DEF varsR, history, RaceInv, HistoryTypeOK, DayKnown, PhoneKnown,
              OverlapNeedsRace, SecondPendingNeedsRace, Scanning, Creating
<1>3. QED
  BY <1>1, <1>2

-----------------------------------------------------------------------------
(* The theorems. *)

\* The history only watches: what holds of BookingRepo holds here.
LEMMA HistoryWatches == SpecR => Spec
<1>1. InitR => Init
  BY DEF InitR
<1>2. [NextR]_varsR => [Next]_vars
  BY DEF NextR, varsR, vars
<1>3. QED
  BY <1>1, <1>2, PTL DEF SpecR, Spec

\* The scans and checks of repo.go know all they need unless something raced them.
THEOREM RacesUnderstood == SpecR => []RaceInv
<1>1. QED
  BY HistoryWatches, TypeCorrect, LocksCorrect, RaceInvInit, RaceInvStep, PTL DEF SpecR

\* CreateBookingTx and UpdateBookingDetailsTx double book a barber within a day
\* only when a booking entered the day between their scan and their write; the one
\* other way is a status change that reactivates a booking.
THEOREM DoubleBookingNeedsRace == SpecR => []OverlapNeedsRace
<1>1. RaceInv => OverlapNeedsRace
  BY DEF RaceInv
<1>2. QED
  BY <1>1, RacesUnderstood, PTL

\* A client gets a second pending booking only from a create that checked before
\* the first one became pending, or from a status change back to pending.
THEOREM TwoPendingNeedRace == SpecR => []SecondPendingNeedsRace
<1>1. RaceInv => SecondPendingNeedsRace
  BY DEF RaceInv
<1>2. QED
  BY <1>1, RacesUnderstood, PTL

\* A transaction about to write has every active row of the day locked and free of
\* conflict, unless a row entered the day since its scan began.
THEOREM ScansComplete == SpecR => []ScanIsComplete
<1>1. TxInv /\ RaceInv => ScanIsComplete
  BY DEF TxInv, RaceInv, StagesInOrder, ConflictsAreNoted, DayKnown, ScanIsComplete,
         InStage, Scanning
<1>2. QED
  BY <1>1, RacesUnderstood, HistoryWatches, LocksCorrect, PTL

=============================================================================
