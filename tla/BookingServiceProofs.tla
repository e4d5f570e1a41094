------------------------- MODULE BookingServiceProofs -------------------------
(***************************************************************************)
(* What the booking service sells, tells and shows, proved for any number  *)
(* of bookings, clients and requests: the copies of what staff offers      *)
(* (Catalog), the events of a booking (BookingEvents) and the free slots   *)
(* of a day (Slots).  The three have nothing in common but the ids of      *)
(* bookings.                                                               *)
(***************************************************************************)
EXTENDS Catalog, BookingEvents, Slots, FiniteSetTheorems, FunctionTheorems, TLAPS

-----------------------------------------------------------------------------
(* The catalog. *)

\* What services and bookings are made of.
Name == {b.name : b \in Body}
Price == {b.price : b \in Body}
Minutes == {b.minutes : b \in Body}

ServiceRow == [barber : Barber, name : Name, price : Price, minutes : Minutes,
               active : BOOLEAN \union {b.active : b \in Body}]
TermsRow == [name : Name, price : Price, minutes : Minutes]
Made == [during : SUBSET (ServiceRow \union {NoRow}), shown : TermsRow \union {NoRow},
         window : Minutes \union {0, 60}, touched : BOOLEAN]
BookingRow == [barber : Barber, terms : TermsRow, past : BOOLEAN, made : Made \union {NoRow}]
Demand == [stage : {"listed", "offered", "posted", "priced", "saved"}, barber : Barber, service : Service,
           booking : Booking \union {NoRow}, terms : TermsRow \union {NoRow},
           shown : TermsRow \union {NoRow}, window : Minutes \union {0, 60},
           during : SUBSET (ServiceRow \union {NoRow}), touched : BOOLEAN]

TypeInv ==
  /\ services \in [Service -> ServiceRow \union {NoRow}]
  /\ bookings \in [Booking -> BookingRow \union {NoRow}]
  /\ req \in [Request -> Demand \union {Idle}]

\* What staff stores takes some time.
StoredInv == \A s \in Service : services[s] # NoRow => services[s].minutes # 0

\* The terms of a request are those of its service at some moment since it was posted.
Priced(r) ==
  LET q == req[r] IN
    /\ q.stage = "posted" => services[q.service] \in q.during
    /\ q.stage = "priced" =>
         /\ q.terms \in TermsRow
         /\ \E row \in q.during :
              row # NoRow /\ row.active /\ row.barber = q.barber /\ Terms(row) = q.terms
    /\ q.stage = "saved" => q.booking \in Booking /\ bookings[q.booking] \in BookingRow

\* A service that was not touched since is as it was shown, and the slots fit it.
AsShown(r) ==
  LET q == req[r] IN
    q.shown # NoRow /\ ~q.touched =>
      /\ q.stage # "saved" => /\ services[q.service] # NoRow
                              /\ services[q.service].barber = q.barber
                              /\ q.shown = Terms(services[q.service])
      /\ q.stage \in {"offered", "posted", "priced"} => q.window = q.shown.minutes
      /\ q.stage = "priced" => q.terms = q.shown

\* Of every request in progress.
RequestsInv == \A r \in Request : req[r] # Idle => Priced(r) /\ AsShown(r)

\* A reader of pages and a client take turns.
TurnsInv == walk # NoWalk => \A r \in Request : req[r] = Idle

\* The invariant, of which BookedAsOffered and BookedAsShown are parts.
IInv == StoredInv /\ RequestsInv /\ BookedAsOffered /\ BookedAsShown

-----------------------------------------------------------------------------
\* The types hold at the start.
LEMMA TypeInit == Init => TypeInv
BY DEF Init, TypeInv

\* A request that is in progress has a barber and a service.
LEMMA DemandType ==
  ASSUME TypeInv, NEW r \in Request, req[r] # Idle
  PROVE  req[r] \in Demand /\ req[r].service \in Service /\ req[r].barber \in Barber
BY DEF TypeInv, Demand

\* A service that is stored has terms.
LEMMA ServiceType ==
  ASSUME TypeInv, NEW s \in Service, services[s] # NoRow
  PROVE  services[s] \in ServiceRow /\ Terms(services[s]) \in TermsRow
<1>1. services[s] \in ServiceRow
  BY DEF TypeInv
<1> QED BY <1>1 DEF ServiceRow, TermsRow, Terms

\* The writes of staff: a row that takes some time.
Writes(s, row) == row \in ServiceRow /\ row.minutes # 0 /\ Write(s, row)

\* Creating and changing a service writes a row that takes some time ...
LEMMA PostWrites ==
  ASSUME NEW s \in Service, NEW k \in Barber, NEW body \in Body, PostService(s, k, body) \/ PutService(s, k, body)
  PROVE  \E row \in ServiceRow : Writes(s, row)
<1>1. body.minutes # 0
  BY DEF PostService, PutService, IsAccepted
<1>2. CASE PostService(s, k, body)
  <2>1. PICK row \in ServiceRow : row = [barber |-> k, name |-> body.name, price |-> body.price,
               minutes |-> body.minutes, active |-> TRUE]
    BY DEF ServiceRow, Name, Price, Minutes
  <2>2. row.minutes = body.minutes /\ Write(s, row)
    BY <1>2, <2>1 DEF PostService, CreateService, InsertService
  <2> QED BY <1>1, <2>2 DEF Writes
<1>3. CASE PutService(s, k, body)
  <2>1. PICK row \in ServiceRow : row = [barber |-> k, name |-> body.name, price |-> body.price,
               minutes |-> body.minutes, active |-> body.active]
    BY DEF ServiceRow, Name, Price, Minutes
  <2>2. row.minutes = body.minutes /\ Write(s, row)
    BY <1>3, <2>1 DEF PutService, UpdateService, UpdateRow
  <2> QED BY <1>1, <2>2 DEF Writes
<1> QED BY <1>2, <1>3

\* ... and so does deleting one.
LEMMA DeleteWrites ==
  ASSUME TypeInv, StoredInv, NEW s \in Service, NEW k \in Barber, DeleteService(s, k)
  PROVE  \E row \in ServiceRow : Writes(s, row)
<1>1. services[s] \in ServiceRow /\ services[s].minutes # 0
  BY ServiceType DEF DeleteService, Deactivate, StoredInv
<1>2. PICK row \in ServiceRow : row = [services[s] EXCEPT !.active = FALSE]
  BY <1>1 DEF ServiceRow
<1>3. row.minutes = services[s].minutes
  BY <1>1, <1>2 DEF ServiceRow
<1>4. Write(s, row)
  BY <1>2 DEF DeleteService, Deactivate
<1> QED BY <1>1, <1>3, <1>4 DEF Writes

-----------------------------------------------------------------------------
\* What a step does.
Books(r) ==
  \/ \E k \in Barber, s \in Service : ListServicesByBarber(r, k, s) \/ PostBookingUnseen(r, k, s)
  \/ \E k \in Barber, s \in Service, b \in Booking : PutBooking(r, k, b, s)
  \/ GetSlotsOfService(r) \/ PostBooking(r) \/ FindService(r)

Steps ==
  \/ \E s \in Service, row \in ServiceRow : Writes(s, row)
  \/ \E r \in Request : Books(r) \/ AnswerBooking(r) \/ GiveUp(r) \/ \E b \in Booking : SaveBooking(r, b)
  \/ \E b \in Booking, k \in Barber, past \in BOOLEAN : MarkBooking(b, k, past)
  \/ UNCHANGED <<services, bookings, req>>

\* Every step is one of these.
LEMMA NextSteps == TypeInv /\ StoredInv /\ [Next]_vars => Steps
<1> SUFFICES ASSUME TypeInv, StoredInv, [Next]_vars PROVE Steps
  OBVIOUS
<1> QED BY PostWrites, DeleteWrites DEF Next, Steps, Books, Walk, Turn, Close, vars

\* A request that goes on stays a request, and nothing else changes.
LEMMA BooksType ==
  ASSUME TypeInv, RequestsInv, NEW r \in Request, Books(r)
  PROVE  /\ req'[r] \in Demand \union {Idle} /\ req' = [req EXCEPT ![r] = req'[r]]
         /\ UNCHANGED <<services, bookings>>
<1>1. \A s \in Service : services[s] \in ServiceRow \union {NoRow}
  BY DEF TypeInv
<1>2. ASSUME NEW k \in Barber, NEW s \in Service, ListServicesByBarber(r, k, s)
      PROVE  req'[r] \in Demand
  <2>1. Terms(services[s]) \in TermsRow
    BY <1>2, ServiceType DEF ListServicesByBarber, Listed
  <2>2. req'[r] = [stage |-> "listed", barber |-> k, service |-> s, booking |-> NoRow, terms |-> NoRow,
        shown |-> Terms(services[s]), window |-> 0, during |-> {}, touched |-> FALSE]
    BY <1>2 DEF ListServicesByBarber, TypeInv
  <2> QED BY <2>1, <2>2 DEF Demand
<1>3. ASSUME NEW k \in Barber, NEW s \in Service, PostBookingUnseen(r, k, s)
      PROVE  req'[r] \in Demand
  BY <1>1, <1>3 DEF PostBookingUnseen, TypeInv, Demand
<1>4. ASSUME NEW k \in Barber, NEW s \in Service, NEW b \in Booking, PutBooking(r, k, b, s)
      PROVE  req'[r] \in Demand
  BY <1>1, <1>4 DEF PutBooking, TypeInv, Demand
<1>5. ASSUME GetSlotsOfService(r) PROVE req'[r] \in Demand
  <2>1. req[r] \in Demand /\ req[r].service \in Service
    BY <1>5, DemandType DEF GetSlotsOfService, In
  <2>2. GetService(req[r].service, req[r].barber) # NoRow
    BY <1>5 DEF GetSlotsOfService
  <2>3. GetService(req[r].service, req[r].barber).minutes \in Minutes
    BY <2>1, <2>2, <1>1 DEF GetService, ServiceRow
  <2>4. PICK w \in Minutes \union {0, 60} : req'[r] = [req[r] EXCEPT !.stage = "offered", !.window = w]
    BY <1>5, <2>3 DEF GetSlotsOfService, TypeInv
  <2> QED BY <2>1, <2>4 DEF Demand
<1>6. ASSUME PostBooking(r) PROVE req'[r] \in Demand
  <2>1. req[r] \in Demand /\ req[r].service \in Service
    BY <1>6, DemandType DEF PostBooking, In
  <2>2. req'[r] = [req[r] EXCEPT !.stage = "posted", !.during = {services[req[r].service]}]
    BY <1>6 DEF PostBooking, TypeInv
  <2> QED BY <1>1, <2>1, <2>2 DEF Demand
<1>7. ASSUME FindService(r) PROVE req'[r] \in Demand \union {Idle}
  <2>1. req[r] \in Demand /\ req[r].service \in Service
    BY <1>7, DemandType DEF FindService, In
  <2>2. CASE Offered(r)
    <3>1. Terms(services[req[r].service]) \in TermsRow
      BY <2>1, <2>2, ServiceType DEF Offered, Listed
    <3>2. req'[r] = [req[r] EXCEPT !.stage = "priced", !.terms = Terms(services[req[r].service])]
      BY <1>7, <2>2 DEF FindService, TypeInv
    <3> QED BY <2>1, <3>1, <3>2 DEF Demand
  <2>3. CASE ~Offered(r)
    BY <1>7, <2>3 DEF FindService, TypeInv
  <2> QED BY <2>2, <2>3
<1>8. req' = [req EXCEPT ![r] = req'[r]]
  BY DEF Books, ListServicesByBarber, PostBookingUnseen, PutBooking, GetSlotsOfService,
     PostBooking, FindService, TypeInv
<1>9. UNCHANGED <<services, bookings>>
  BY DEF Books, ListServicesByBarber, PostBookingUnseen, PutBooking, GetSlotsOfService,
     PostBooking, FindService
<1> QED BY <1>2, <1>3, <1>4, <1>5, <1>6, <1>7, <1>8, <1>9 DEF Books

\* What becomes of a request whose service is written, and of a booking that is answered
\* or filed.
Touched(q, row) == [q EXCEPT !.during = @ \union {row}, !.touched = TRUE]
Closed(b) == [b EXCEPT !.made = NoRow]
Filed(b, past) == [b EXCEPT !.past = past]

\* A write touches the requests for its service, and no others.
LEMMA WriteStep ==
  ASSUME TypeInv, NEW s \in Service, NEW row \in ServiceRow, Writes(s, row)
  PROVE  /\ services' = [services EXCEPT ![s] = row] /\ UNCHANGED bookings
         /\ \A r \in Request :
              \/ req'[r] = req[r] /\ (req[r] = Idle \/ req[r].service # s)
              \/ /\ req[r] # Idle /\ req[r].service = s
                 /\ req'[r] = Touched(req[r], row)
                 /\ req'[r] \in Demand
         /\ req' \in [Request -> Demand \union {Idle}]
<1>1. \A r \in Request : req[r] # Idle => Touched(req[r], row) \in Demand
  <2> SUFFICES ASSUME NEW r \in Request, req[r] # Idle
               PROVE  Touched(req[r], row) \in Demand
    OBVIOUS
  <2>1. req[r] \in Demand
    BY DemandType
  <2> QED BY <2>1 DEF Demand, Touched
<1> QED BY <1>1 DEF Writes, Write, TypeInv, Touched

\* The copy that SaveBooking writes.
LEMMA SaveStep ==
  ASSUME TypeInv, RequestsInv, NEW r \in Request, NEW b \in Booking, SaveBooking(r, b)
  PROVE  /\ req[r] \in Demand /\ req[r].stage = "priced" /\ req[r] # Idle
         /\ Copy(r) \in BookingRow /\ Copy(r).made \in Made
         /\ bookings' = [bookings EXCEPT ![b] = Copy(r)]
         /\ req'[r] = [req[r] EXCEPT !.stage = "saved", !.booking = b] /\ req'[r] \in Demand
         /\ req' = [req EXCEPT ![r] = req'[r]] /\ UNCHANGED services
<1>1. req[r] \in Demand /\ req[r].stage = "priced" /\ req[r] # Idle
  BY DemandType DEF SaveBooking, In
<1>2. req[r].terms \in TermsRow
  BY <1>1 DEF RequestsInv, Priced
<1>3. PICK past \in BOOLEAN : past = (req[r].booking # NoRow /\ bookings[req[r].booking].past)
  OBVIOUS
<1>4. Copy(r) \in BookingRow /\ Copy(r).made \in Made
  BY <1>1, <1>2, <1>3 DEF Copy, BookingRow, Made, Demand
<1>5. req' = [req EXCEPT ![r].stage = "saved", ![r].booking = b] /\ UNCHANGED services
      /\ bookings' = [bookings EXCEPT ![b] = Copy(r)]
  BY DEF SaveBooking
<1>6. req'[r] = [req[r] EXCEPT !.stage = "saved", !.booking = b]
  BY <1>5 DEF TypeInv
<1>7. req'[r] \in Demand
  BY <1>1, <1>6 DEF Demand
<1>8. req' = [req EXCEPT ![r] = req'[r]]
  BY <1>5, <1>6 DEF TypeInv
<1> QED BY <1>1, <1>4, <1>5, <1>6, <1>7, <1>8

\* The answer to a request closes its booking.
LEMMA AnswerStep ==
  ASSUME TypeInv, RequestsInv, NEW r \in Request, AnswerBooking(r)
  PROVE  \E b \in Booking :
           /\ bookings[b] \in BookingRow
           /\ bookings' = [bookings EXCEPT ![b] = Closed(bookings[b])]
           /\ Closed(bookings[b]) \in BookingRow
           /\ req' = [req EXCEPT ![r] = Idle] /\ UNCHANGED services
<1>1. req[r] # Idle /\ req[r].stage = "saved"
  BY DEF AnswerBooking, In
<1>2. req[r].booking \in Booking /\ bookings[req[r].booking] \in BookingRow
  BY <1>1 DEF RequestsInv, Priced
<1>3. PICK b \in Booking : b = req[r].booking /\ bookings[b] \in BookingRow
  BY <1>2
<1>4. Closed(bookings[b]) \in BookingRow
  BY <1>3 DEF BookingRow, Closed
<1>5. bookings' = [bookings EXCEPT ![b] = Closed(bookings[b])]
      /\ req' = [req EXCEPT ![r] = Idle] /\ UNCHANGED services
  BY <1>3 DEF AnswerBooking, Closed
<1> QED BY <1>3, <1>4, <1>5

\* A barber files a booking of his.
LEMMA StatusStep ==
  ASSUME TypeInv, NEW b \in Booking, NEW k \in Barber, NEW past \in BOOLEAN, MarkBooking(b, k, past)
  PROVE  /\ bookings[b] \in BookingRow
         /\ bookings' = [bookings EXCEPT ![b] = Filed(bookings[b], past)]
         /\ Filed(bookings[b], past) \in BookingRow /\ UNCHANGED <<services, req>>
<1>1. bookings[b] \in BookingRow
  BY DEF MarkBooking, TypeInv
<1> QED BY <1>1 DEF MarkBooking, BookingRow, Filed

\* Every step keeps the types.
LEMMA TypeStep == TypeInv /\ StoredInv /\ RequestsInv /\ [Next]_vars => TypeInv'
<1> SUFFICES ASSUME TypeInv, StoredInv, RequestsInv, Steps PROVE TypeInv'
  BY NextSteps
<1>1. ASSUME NEW s \in Service, NEW row \in ServiceRow, Writes(s, row) PROVE TypeInv'
  <2>1. services' = [services EXCEPT ![s] = row] /\ UNCHANGED bookings
        /\ req' \in [Request -> Demand \union {Idle}]
    BY <1>1, WriteStep
  <2> QED BY <2>1 DEF TypeInv
<1>2. ASSUME NEW r \in Request, Books(r) PROVE TypeInv'
  BY <1>2, BooksType DEF TypeInv
<1>3. ASSUME NEW r \in Request, AnswerBooking(r) PROVE TypeInv'
  BY <1>3, AnswerStep DEF TypeInv
<1>4. ASSUME NEW r \in Request, GiveUp(r) PROVE TypeInv'
  BY <1>4 DEF GiveUp, TypeInv
<1>5. ASSUME NEW r \in Request, NEW b \in Booking, SaveBooking(r, b) PROVE TypeInv'
  <2>1. Copy(r) \in BookingRow /\ bookings' = [bookings EXCEPT ![b] = Copy(r)] /\ UNCHANGED services
    BY <1>5, SaveStep
  <2>2. req'[r] \in Demand /\ req' = [req EXCEPT ![r] = req'[r]]
    BY <1>5, SaveStep
  <2>3. req' \in [Request -> Demand \union {Idle}]
    BY <2>2 DEF TypeInv
  <2> QED BY <2>1, <2>3 DEF TypeInv
<1>6. ASSUME NEW b \in Booking, NEW k \in Barber, NEW past \in BOOLEAN, MarkBooking(b, k, past) PROVE TypeInv'
  BY <1>6, StatusStep DEF TypeInv
<1>7. CASE UNCHANGED <<services, bookings, req>>
  BY <1>7 DEF TypeInv
<1> QED BY <1>1, <1>2, <1>3, <1>4, <1>5, <1>6, <1>7 DEF Steps

\* No step stores a service that takes no time.
LEMMA StoredStep == TypeInv /\ StoredInv /\ RequestsInv /\ [Next]_vars => StoredInv'
<1> SUFFICES ASSUME TypeInv, StoredInv, RequestsInv, Steps PROVE StoredInv'
  BY NextSteps
<1>1. ASSUME NEW s \in Service, NEW row \in ServiceRow, Writes(s, row) PROVE StoredInv'
  <2>1. services' = [services EXCEPT ![s] = row] /\ row.minutes # 0
    BY <1>1, WriteStep DEF Writes
  <2> QED BY <2>1 DEF StoredInv, TypeInv
<1>2. CASE UNCHANGED services
  BY <1>2 DEF StoredInv
<1>3. UNCHANGED services \/ \E s \in Service, row \in ServiceRow : Writes(s, row)
  BY BooksType, AnswerStep, SaveStep, StatusStep DEF Steps, GiveUp
<1> QED BY <1>1, <1>2, <1>3

\* A booking that is there stays there.
LEMMA BookingStays ==
  ASSUME TypeInv, StoredInv, RequestsInv, Steps, NEW b \in Booking, bookings[b] \in BookingRow
  PROVE  bookings'[b] \in BookingRow
<1>1. ASSUME NEW r \in Request, AnswerBooking(r) PROVE bookings'[b] \in BookingRow
  BY <1>1, AnswerStep DEF TypeInv
<1>2. ASSUME NEW r \in Request, NEW i \in Booking, SaveBooking(r, i) PROVE bookings'[b] \in BookingRow
  BY <1>2, SaveStep DEF TypeInv
<1>3. ASSUME NEW i \in Booking, NEW k \in Barber, NEW past \in BOOLEAN, MarkBooking(i, k, past)
      PROVE  bookings'[b] \in BookingRow
  BY <1>3, StatusStep DEF TypeInv
<1>4. CASE UNCHANGED bookings
  BY <1>4
<1> QED BY <1>1, <1>2, <1>3, <1>4, WriteStep, BooksType DEF Steps, GiveUp

-----------------------------------------------------------------------------
\* A request that goes on has the terms of a row it may have seen.
LEMMA BooksPriced ==
  ASSUME TypeInv, StoredInv, RequestsInv, NEW r \in Request, Books(r), req'[r] # Idle
  PROVE  Priced(r)' /\ AsShown(r)'
<1>0. UNCHANGED <<services, bookings>>
  BY BooksType
<1>1. ASSUME NEW k \in Barber, NEW s \in Service, ListServicesByBarber(r, k, s)
      PROVE  Priced(r)' /\ AsShown(r)'
  <2>1. req'[r] = [stage |-> "listed", barber |-> k, service |-> s, booking |-> NoRow, terms |-> NoRow,
        shown |-> Terms(services[s]), window |-> 0, during |-> {}, touched |-> FALSE]
        /\ services[s] # NoRow /\ services[s].barber = k
    BY <1>1 DEF ListServicesByBarber, TypeInv, Listed
  <2> QED BY <1>0, <2>1 DEF Priced, AsShown
<1>2. ASSUME NEW k \in Barber, NEW s \in Service, NEW b, 
             req'[r] = [stage |-> "posted", barber |-> k, service |-> s, booking |-> b, terms |-> NoRow,
                        shown |-> NoRow, window |-> 0, during |-> {services[s]}, touched |-> FALSE]
      PROVE  Priced(r)' /\ AsShown(r)'
  BY <1>0, <1>2 DEF Priced, AsShown
<1>3. ASSUME GetSlotsOfService(r) PROVE Priced(r)' /\ AsShown(r)'
  <2>1. req[r] \in Demand /\ req[r].service \in Service /\ req[r] # Idle /\ req[r].stage = "listed"
    BY <1>3, DemandType DEF GetSlotsOfService, In
  <2>2. services[req[r].service] # NoRow /\ services[req[r].service].minutes # 0
    BY <1>3, <2>1 DEF GetSlotsOfService, GetService, StoredInv
  <2>3. req'[r] = [req[r] EXCEPT !.stage = "offered", !.window = services[req[r].service].minutes]
    BY <1>3, <2>2 DEF GetSlotsOfService, GetService, TypeInv
  <2>4. /\ req'[r].stage = "offered" /\ req'[r].window = services[req[r].service].minutes
        /\ req'[r].service = req[r].service /\ req'[r].barber = req[r].barber
        /\ req'[r].shown = req[r].shown /\ req'[r].touched = req[r].touched
    BY <2>1, <2>3 DEF Demand
  <2>5. AsShown(r)
    BY <2>1 DEF RequestsInv
  <2>6. Terms(services[req[r].service]).minutes = services[req[r].service].minutes
    BY DEF Terms
  <2> QED BY <1>0, <2>1, <2>4, <2>5, <2>6 DEF Priced, AsShown
<1>4. ASSUME PostBooking(r) PROVE Priced(r)' /\ AsShown(r)'
  <2>1. req[r] \in Demand /\ req[r].service \in Service /\ req[r] # Idle /\ req[r].stage = "offered"
    BY <1>4, DemandType DEF PostBooking, In
  <2>2. req'[r] = [req[r] EXCEPT !.stage = "posted", !.during = {services[req[r].service]}]
    BY <1>4 DEF PostBooking, TypeInv
  <2>3. /\ req'[r].stage = "posted" /\ req'[r].window = req[r].window
        /\ req'[r].service = req[r].service /\ req'[r].barber = req[r].barber
        /\ req'[r].shown = req[r].shown /\ req'[r].touched = req[r].touched
        /\ req'[r].during = {services[req[r].service]}
    BY <2>1, <2>2 DEF Demand
  <2>4. AsShown(r)
    BY <2>1 DEF RequestsInv
  <2> QED BY <1>0, <2>1, <2>3, <2>4 DEF Priced, AsShown
<1>5. ASSUME FindService(r) PROVE Priced(r)' /\ AsShown(r)'
  <2>1. req[r] \in Demand /\ req[r].service \in Service /\ req[r] # Idle /\ req[r].stage = "posted"
    BY <1>5, DemandType DEF FindService, In
  <2>2. Offered(r)
    BY <1>5 DEF FindService, TypeInv
  <2>3. PICK row : /\ row = services[req[r].service] /\ row # NoRow /\ row.active
                   /\ row.barber = req[r].barber /\ Terms(row) \in TermsRow
    BY <2>1, <2>2, ServiceType DEF Offered, Listed
  <2>4. req'[r] = [req[r] EXCEPT !.stage = "priced", !.terms = Terms(row)]
    BY <1>5, <2>2, <2>3 DEF FindService, TypeInv
  <2>5. /\ req'[r].stage = "priced" /\ req'[r].window = req[r].window /\ req'[r].terms = Terms(row)
        /\ req'[r].service = req[r].service /\ req'[r].barber = req[r].barber
        /\ req'[r].shown = req[r].shown /\ req'[r].touched = req[r].touched
        /\ req'[r].during = req[r].during
    BY <2>1, <2>4 DEF Demand
  <2>6. AsShown(r) /\ row \in req[r].during
    BY <2>1, <2>3 DEF RequestsInv, Priced
  <2>7. Priced(r)'
    BY <2>3, <2>5, <2>6 DEF Priced
  <2>8. AsShown(r)'
    BY <1>0, <2>1, <2>3, <2>5, <2>6 DEF AsShown
  <2> QED BY <2>7, <2>8
<1>6. ASSUME NEW k \in Barber, NEW s \in Service, PostBookingUnseen(r, k, s) PROVE Priced(r)' /\ AsShown(r)'
  BY <1>2, <1>6 DEF PostBookingUnseen, TypeInv
<1>7. ASSUME NEW k \in Barber, NEW s \in Service, NEW b \in Booking, PutBooking(r, k, b, s)
      PROVE  Priced(r)' /\ AsShown(r)'
  BY <1>2, <1>7 DEF PutBooking, TypeInv
<1> QED BY <1>1, <1>3, <1>4, <1>5, <1>6, <1>7 DEF Books

\* A request that does not act itself.
LEMMA OthersPriced ==
  ASSUME TypeInv, StoredInv, RequestsInv, Steps, NEW r \in Request, req'[r] = req[r], req[r] # Idle,
         UNCHANGED services
  PROVE  Priced(r)' /\ AsShown(r)'
<1>1. Priced(r) /\ AsShown(r)
  BY DEF RequestsInv
<1>2. req[r].stage = "saved" => bookings'[req[r].booking] \in BookingRow
  BY <1>1, BookingStays DEF Priced
<1> QED BY <1>1, <1>2 DEF Priced, AsShown

\* After a write a request has still seen what it says.
LEMMA WritePriced ==
  ASSUME TypeInv, RequestsInv, NEW s \in Service, NEW row \in ServiceRow, Writes(s, row),
         NEW r \in Request, req'[r] # Idle
  PROVE  Priced(r)' /\ AsShown(r)'
<1>1. services' = [services EXCEPT ![s] = row] /\ UNCHANGED bookings
  BY WriteStep
<1>2. CASE req'[r] = req[r] /\ req[r].service # s
  <2>1. Priced(r) /\ AsShown(r)
    BY <1>2 DEF RequestsInv
  <2>2. services'[req[r].service] = services[req[r].service]
    BY <1>1, <1>2, DemandType DEF TypeInv
  <2> QED BY <1>1, <1>2, <2>1, <2>2 DEF Priced, AsShown
<1>3. CASE /\ req[r] # Idle /\ req[r].service = s
           /\ req'[r] = Touched(req[r], row)
  <2>1. Priced(r) /\ req[r] \in Demand
    BY <1>3, DemandType DEF RequestsInv
  <2>2. /\ req'[r].stage = req[r].stage /\ req'[r].service = s /\ req'[r].barber = req[r].barber
        /\ req'[r].during = req[r].during \union {row} /\ req'[r].touched = TRUE
        /\ req'[r].terms = req[r].terms /\ req'[r].booking = req[r].booking
    BY <1>3, <2>1 DEF Demand, Touched
  <2>3. services'[s] = row
    BY <1>1 DEF TypeInv
  <2>4. req[r].stage = "priced" =>
         \E x \in req'[r].during :
              x # NoRow /\ x.active /\ x.barber = req[r].barber /\ Terms(x) = req[r].terms
    BY <2>1, <2>2 DEF Priced
  <2>5. Priced(r)'
    BY <1>1, <2>1, <2>2, <2>3, <2>4 DEF Priced
  <2> QED BY <2>2, <2>5 DEF AsShown
<1>4. \/ req'[r] = req[r] /\ (req[r] = Idle \/ req[r].service # s)
      \/ /\ req[r] # Idle /\ req[r].service = s
         /\ req'[r] = Touched(req[r], row)
  BY WriteStep
<1> QED BY <1>2, <1>3, <1>4

\* And after its booking is saved.
LEMMA SavePriced ==
  ASSUME TypeInv, RequestsInv, NEW r \in Request, NEW b \in Booking, SaveBooking(r, b)
  PROVE  Priced(r)' /\ AsShown(r)'
<1>1. req[r] \in Demand /\ req'[r] = [req[r] EXCEPT !.stage = "saved", !.booking = b]
      /\ Copy(r) \in BookingRow /\ bookings' = [bookings EXCEPT ![b] = Copy(r)]
  BY SaveStep
<1>2. req'[r].stage = "saved" /\ req'[r].booking = b
  BY <1>1 DEF Demand
<1>3. bookings'[b] \in BookingRow
  BY <1>1 DEF TypeInv
<1> QED BY <1>2, <1>3 DEF Priced, AsShown

\* Whatever the step, requests have seen what they say.
LEMMA RequestsStep == TypeInv /\ StoredInv /\ RequestsInv /\ [Next]_vars => RequestsInv'
<1> SUFFICES ASSUME TypeInv, StoredInv, RequestsInv, Steps, NEW r \in Request, req'[r] # Idle
             PROVE  Priced(r)' /\ AsShown(r)'
  BY NextSteps DEF RequestsInv
<1>1. CASE req'[r] = req[r] /\ UNCHANGED services
  BY <1>1, OthersPriced
<1>2. ASSUME NEW s \in Service, NEW row \in ServiceRow, Writes(s, row) PROVE Priced(r)' /\ AsShown(r)'
  BY <1>2, WritePriced
<1>3. CASE Books(r)
  BY <1>3, BooksPriced
<1>4. ASSUME NEW b \in Booking, SaveBooking(r, b) PROVE Priced(r)' /\ AsShown(r)'
  BY <1>4, SavePriced
<1>5. ASSUME NEW q \in Request, AnswerBooking(q) PROVE req'[r] = req[r] /\ UNCHANGED services
  BY <1>5, AnswerStep DEF TypeInv
<1>6. ASSUME NEW q \in Request, GiveUp(q) PROVE req'[r] = req[r] /\ UNCHANGED services
  BY <1>6 DEF GiveUp, TypeInv
<1>7. ASSUME NEW q \in Request, q # r, Books(q) PROVE req'[r] = req[r] /\ UNCHANGED services
  BY <1>7, BooksType DEF TypeInv
<1>8. ASSUME NEW q \in Request, q # r, NEW b \in Booking, SaveBooking(q, b)
      PROVE  req'[r] = req[r] /\ UNCHANGED services
  <2>1. req' = [req EXCEPT ![q] = req'[q]] /\ UNCHANGED services
    BY <1>8, SaveStep
  <2> QED BY <1>8, <2>1 DEF TypeInv
<1>9. ASSUME NEW b \in Booking, NEW k \in Barber, NEW past \in BOOLEAN, MarkBooking(b, k, past)
      PROVE  req'[r] = req[r] /\ UNCHANGED services
  BY <1>9, StatusStep
<1> QED BY <1>1, <1>2, <1>3, <1>4, <1>5, <1>6, <1>7, <1>8, <1>9 DEF Steps

-----------------------------------------------------------------------------
\* What holds of one booking.
Offer(b) ==
  bookings[b] # NoRow /\ bookings[b].made # NoRow =>
    \E row \in bookings[b].made.during :
      /\ row # NoRow /\ row.active /\ row.barber = bookings[b].barber
      /\ Terms(row) = bookings[b].terms

Picture(b) ==
  bookings[b] # NoRow /\ bookings[b].made # NoRow =>
    (bookings[b].made.shown # NoRow /\ ~bookings[b].made.touched =>
       bookings[b].terms = bookings[b].made.shown
         /\ bookings[b].terms.minutes = bookings[b].made.window)

\* What SaveBooking writes was offered, and shown.
LEMMA SavedAsOffered ==
  ASSUME TypeInv, RequestsInv, NEW r \in Request, NEW b \in Booking, SaveBooking(r, b)
  PROVE  Offer(b)' /\ Picture(b)'
<1>1. req[r] \in Demand /\ req[r].stage = "priced" /\ req[r] # Idle
      /\ bookings' = [bookings EXCEPT ![b] = Copy(r)]
  BY SaveStep
<1>2. bookings'[b] = Copy(r)
  BY <1>1 DEF TypeInv
<1>3. Priced(r) /\ AsShown(r)
  BY <1>1 DEF RequestsInv
<1>4. /\ Copy(r).barber = req[r].barber /\ Copy(r).terms = req[r].terms
      /\ Copy(r).made.during = req[r].during /\ Copy(r).made.shown = req[r].shown
      /\ Copy(r).made.window = req[r].window /\ Copy(r).made.touched = req[r].touched
  BY DEF Copy
<1>5. \E row \in req[r].during :
        row # NoRow /\ row.active /\ row.barber = req[r].barber /\ Terms(row) = req[r].terms
  BY <1>1, <1>3 DEF Priced
<1>6. req[r].shown # NoRow /\ ~req[r].touched =>
        req[r].terms = req[r].shown /\ req[r].terms.minutes = req[r].window
  BY <1>1, <1>3 DEF AsShown
<1>7. Offer(b)'
  BY <1>2, <1>4, <1>5 DEF Offer
<1>8. Picture(b)'
  BY <1>2, <1>4, <1>6 DEF Picture
<1> QED BY <1>7, <1>8

\* Whatever the step, bookings are as offered and as shown.
LEMMA BookedStep ==
  TypeInv /\ StoredInv /\ RequestsInv /\ (\A b \in Booking : Offer(b) /\ Picture(b)) /\ [Next]_vars
    => (\A b \in Booking : Offer(b) /\ Picture(b))'
<1> SUFFICES ASSUME TypeInv, StoredInv, RequestsInv, Steps, NEW b \in Booking, Offer(b), Picture(b)
             PROVE  Offer(b)' /\ Picture(b)'
  BY NextSteps
<1>1. CASE bookings'[b] = bookings[b]
  BY <1>1 DEF Offer, Picture
<1>2. ASSUME NEW r \in Request, SaveBooking(r, b) PROVE Offer(b)' /\ Picture(b)'
  BY <1>2, SavedAsOffered
<1>3. ASSUME NEW r \in Request, NEW i \in Booking, i # b, SaveBooking(r, i) PROVE bookings'[b] = bookings[b]
  <2>1. bookings' = [bookings EXCEPT ![i] = Copy(r)]
    BY <1>3, SaveStep
  <2> QED BY <1>3, <2>1 DEF TypeInv
<1>4. ASSUME NEW r \in Request, AnswerBooking(r) PROVE Offer(b)' /\ Picture(b)'
  <2>1. PICK i \in Booking : bookings[i] \in BookingRow
           /\ bookings' = [bookings EXCEPT ![i] = Closed(bookings[i])]
    BY <1>4, AnswerStep
  <2>2. CASE i = b
    <3>1. bookings'[b].made = NoRow
      BY <2>1, <2>2 DEF TypeInv, BookingRow, Closed
    <3> QED BY <3>1 DEF Offer, Picture
  <2>3. CASE i # b
    BY <1>1, <2>1, <2>3 DEF TypeInv
  <2> QED BY <2>2, <2>3
<1>5. ASSUME NEW i \in Booking, NEW k \in Barber, NEW past \in BOOLEAN, MarkBooking(i, k, past)
      PROVE  Offer(b)' /\ Picture(b)'
  <2>1. bookings[i] \in BookingRow
           /\ bookings' = [bookings EXCEPT ![i] = Filed(bookings[i], past)]
    <3>1. bookings[i] \in BookingRow
      BY <1>5, StatusStep
    <3>2. bookings' = [bookings EXCEPT ![i] = Filed(bookings[i], past)]
      BY <1>5, StatusStep
    <3> QED BY <3>1, <3>2
  <2>2. CASE i = b
    <3>1. bookings[b] # NoRow
      BY <1>5, <2>2 DEF MarkBooking
    <3>2. bookings'[b].made = bookings[b].made /\ bookings'[b].terms = bookings[b].terms
          /\ bookings'[b].barber = bookings[b].barber
      BY <2>1, <2>2 DEF TypeInv, BookingRow, Filed
    <3> QED BY <3>1, <3>2 DEF Offer, Picture
  <2>3. CASE i # b
    BY <1>1, <2>1, <2>3 DEF TypeInv
  <2> QED BY <2>2, <2>3
<1>6. CASE UNCHANGED bookings
  BY <1>1, <1>6
<1> QED BY <1>1, <1>2, <1>3, <1>4, <1>5, <1>6, WriteStep, BooksType DEF Steps, GiveUp

\* The invariant holds at the start.
LEMMA IInvInit == Init => IInv
BY DEF Init, IInv, StoredInv, RequestsInv, BookedAsOffered, BookedAsShown

\* The invariant of the catalog, of which its promises are a part.
THEOREM OffersCorrect == Spec => [](TypeInv /\ IInv)
<1>1. Init => TypeInv /\ IInv
  BY TypeInit, IInvInit
<1>2. (TypeInv /\ IInv) /\ [Next]_vars => (TypeInv /\ IInv)'
  <2> SUFFICES ASSUME TypeInv, IInv, [Next]_vars PROVE (TypeInv /\ IInv)'
    OBVIOUS
  <2>1. TypeInv' /\ StoredInv' /\ RequestsInv'
    BY TypeStep, StoredStep, RequestsStep DEF IInv
  <2>2. \A b \in Booking : Offer(b) /\ Picture(b)
    BY DEF IInv, BookedAsOffered, BookedAsShown, Offer, Picture
  <2>3. (\A b \in Booking : Offer(b) /\ Picture(b))'
    BY <2>2, BookedStep DEF IInv
  <2>4. BookedAsOffered' /\ BookedAsShown'
    BY <2>3 DEF BookedAsOffered, BookedAsShown, Offer, Picture
  <2> QED BY <2>1, <2>4 DEF IInv
<1> QED BY <1>1, <1>2, PTL DEF Spec

\* services.go:88-117 and :153-187.  For any number of barbers, services and requests, and
\* whatever staff stores meanwhile, a booking says what was on offer while it was made.
THEOREM BookingsWereOffered == Spec => []BookedAsOffered
<1>1. IInv => BookedAsOffered
  BY DEF IInv
<1> QED BY <1>1, OffersCorrect, PTL

\* public.go:49-168, services.go:275-283.  And what was shown, if nobody changed it.
THEOREM BookingsWereShown == Spec => []BookedAsShown
<1>1. IInv => BookedAsShown
  BY DEF IInv
<1> QED BY <1>1, OffersCorrect, PTL

-----------------------------------------------------------------------------
(* The pages. *)

\* A list of a finite set has each element at one place and no other elements.
LEMMA ListsAreOnto ==
  ASSUME NEW S, IsFiniteSet(S), NEW q \in SetToSeqs(S)
  PROVE  /\ Cardinality(S) \in Nat /\ q \in [1..Cardinality(S) -> S] /\ q \in Seq(S)
         /\ Len(q) = Cardinality(S) /\ DOMAIN q = 1..Cardinality(S)
         /\ \A i, j \in 1..Cardinality(S) : q[i] = q[j] => i = j
         /\ \A x \in S : \E i \in 1..Cardinality(S) : q[i] = x
<1> DEFINE n == Cardinality(S)
<1>1. n \in Nat
  BY FS_CardinalityType
<1>2. q \in [1..n -> S] /\ \A i, j \in 1..n : q[i] = q[j] => i = j
  BY DEF SetToSeqs
<1>3. q \in Injection(1..n, S)
  BY <1>2 DEF Injection, IsInjective
<1>4. Cardinality(1..n) = n
  BY <1>1, FS_Interval
<1>5. q \in Surjection(1..n, S)
  BY <1>1, <1>3, <1>4, FS_Injection
<1>6. \A x \in S : \E i \in 1..n : q[i] = x
  BY <1>5 DEF Surjection
<1>7. q \in Seq(S) /\ Len(q) = n
  BY <1>1, <1>2
<1> QED BY <1>1, <1>2, <1>6, <1>7

\* The place of an element in an ordered list is how many elements do not come after it.
LEMMA PlaceIsRank ==
  ASSUME NEW S, IsFiniteSet(S), NEW rank, \A x \in S : rank[x] \in Int, Unambiguous(S, rank),
         NEW q \in Ordered(S, rank), NEW i \in 1..Cardinality(S)
  PROVE  i = Cardinality({y \in S : rank[y] <= rank[q[i]]})
<1> DEFINE n == Cardinality(S)
           T == {y \in S : rank[y] <= rank[q[i]]}
<1>1. /\ n \in Nat /\ q \in [1..n -> S] /\ DOMAIN q = 1..n
      /\ \A j, k \in 1..n : q[j] = q[k] => j = k
      /\ \A x \in S : \E j \in 1..n : q[j] = x
  BY ListsAreOnto DEF Ordered
<1>2. \A j, k \in 1..n : j < k => rank[q[j]] <= rank[q[k]]
  BY <1>1 DEF Ordered
<1>3. \A j \in 1..i : j \in 1..n /\ q[j] \in T
  BY <1>1, <1>2
<1>4. \A y \in T : \E j \in 1..i : q[j] = y
  <2> SUFFICES ASSUME NEW y \in T PROVE \E j \in 1..i : q[j] = y
    OBVIOUS
  <2>1. PICK j \in 1..n : q[j] = y
    BY <1>1
  <2>2. CASE j > i
    <3>1. rank[q[i]] <= rank[q[j]] /\ rank[q[j]] <= rank[q[i]]
      BY <1>1, <1>2, <2>1, <2>2
    <3>2. q[i] = q[j]
      BY <1>1, <2>1, <3>1 DEF Unambiguous
    <3> QED BY <1>1, <2>1, <2>2, <3>2
  <2> QED BY <1>1, <2>1, <2>2
<1> DEFINE f == [j \in 1..i |-> q[j]]
<1>5. f \in Bijection(1..i, T)
  <2>1. f \in [1..i -> T]
    BY <1>3
  <2>2. f \in Injection(1..i, T)
    BY <1>1, <1>3, <2>1 DEF Injection, IsInjective
  <2>3. f \in Surjection(1..i, T)
    BY <1>4, <2>1 DEF Surjection
  <2> QED BY <2>2, <2>3 DEF Bijection
<1>6. ExistsBijection(1..i, T)
  BY <1>5 DEF ExistsBijection
<1>7. IsFiniteSet(1..i) /\ Cardinality(1..i) = i
  BY <1>1, FS_Interval
<1> HIDE DEF T
<1>8. Cardinality(T) = Cardinality(1..i)
  BY <1>6, <1>7, FS_Bijection
<1> QED BY <1>7, <1>8 DEF T

\* Where no two rank the same there is one ordered list.
LEMMA OrderIsUnique ==
  ASSUME NEW S, IsFiniteSet(S), NEW rank, \A x \in S : rank[x] \in Int, Unambiguous(S, rank),
         NEW p \in Ordered(S, rank), NEW q \in Ordered(S, rank)
  PROVE  p = q
<1> DEFINE n == Cardinality(S)
<1>1. /\ n \in Nat /\ p \in [1..n -> S] /\ q \in [1..n -> S]
      /\ \A x \in S : \E j \in 1..n : q[j] = x
  BY ListsAreOnto DEF Ordered
<1>2. ASSUME NEW i \in 1..n PROVE p[i] = q[i]
  <2>1. PICK j \in 1..n : q[j] = p[i]
    BY <1>1
  <2>2. i = Cardinality({y \in S : rank[y] <= rank[p[i]]})
    BY PlaceIsRank
  <2>3. j = Cardinality({y \in S : rank[y] <= rank[q[j]]})
    BY PlaceIsRank
  <2> QED BY <2>1, <2>2, <2>3
<1> QED BY <1>1, <1>2

\* The first n rows of a list.
Cut(list, n) == [i \in 1..n |-> list[i]]
GrowsBy(list, n, page) == Cut(list, n) \o page = Cut(list, n + Len(page))

\* The page that begins where a cut ends makes it a longer cut; if it is empty the cut was
\* the list.
LEMMA PageExtendsCut ==
  ASSUME NEW R, NEW list \in Seq(R), NEW n \in 0..Len(list), NEW limit \in Nat, limit = 0 => n = 0,
         NEW page, page = Page(list, limit, n)
  PROVE  /\ page \in Seq(R) /\ Len(page) \in Nat /\ n + Len(page) \in 0..Len(list)
         /\ GrowsBy(list, n, page)
         /\ page = <<>> => n = Len(list)
         /\ limit = 0 => page = list
<1> DEFINE last == IF n + limit < Len(list) THEN n + limit ELSE Len(list)
<1>1. CASE limit = 0
  <2>1. page = list
    BY <1>1 DEF Page
  <2> QED BY <1>1, <2>1 DEF Cut, GrowsBy
<1>2. CASE limit # 0
  <2>1. PICK m \in n..Len(list) : m = last /\ page = SubSeq(list, n + 1, m)
    BY <1>2 DEF Page
  <2>8. Len(list) \in Nat /\ n \in Nat /\ m \in Nat
    BY <2>1
  <2>2. page \in Seq(R)
    BY <2>1
  <2>6. Len(page) = m - n
    BY <2>1
  <2>12. page = SubSeq(list, n + 1, m)
    BY <2>1
  <2>11. ASSUME NEW i \in 1..(m - n) PROVE page[i] = list[n + i]
    <3>1. i \in Int /\ 1 <= i /\ i <= m - n
      BY <2>8
    <3>2. page[i] = list[(n + 1) + i - 1]
      BY <2>8, <2>12, <3>1
    <3>3. (n + 1) + i - 1 = n + i
      BY <2>8, <3>1
    <3> QED BY <3>2, <3>3
  <2>7. \A i \in 1..Len(page) : page[i] = list[n + i]
    BY <2>6, <2>11
  <2>3. Cut(list, n) \in Seq(R) /\ Len(Cut(list, n)) = n
    BY DEF Cut
  <2>4. Cut(list, n) \o page = Cut(list, n + Len(page))
    BY <2>1, <2>2, <2>3, <2>6, <2>7 DEF Cut
  <2>9. page = <<>> => Len(page) = 0
    OBVIOUS
  <2>5. page = <<>> => n = Len(list)
    <3> SUFFICES ASSUME page = <<>> PROVE n = Len(list)
      OBVIOUS
    <3>1. m = n
      BY <2>6, <2>8, <2>9
    <3> QED BY <1>2, <2>1, <2>8, <3>1
  <2>10. Len(page) \in Nat /\ n + Len(page) \in 0..Len(list)
    BY <2>1, <2>6, <2>8
  <2> QED BY <1>2, <2>2, <2>4, <2>5, <2>10 DEF GrowsBy
<1> QED BY <1>1, <1>2

-----------------------------------------------------------------------------
\* The barbers of a list, each with his active services.
WithServices(list) == [i \in 1..Len(list) |-> <<list[i], Listed(list[i], FALSE)>>]

\* Of the list a reader w of pages reads: how it may come out, its rows, and whether its
\* order leaves nothing open.
Whole(w) ==
  CASE w.what = "barbers"  -> {WithServices(list) : list \in Ordered(Active, BarberRank)}
    [] w.what = "past"     -> Ordered(Past(w.barber), [b \in Booking |-> -StartRank[b]])
    [] w.what = "services" -> Ordered(Listed(w.barber, w.all), NameRanks(Listed(w.barber, w.all)))

RowsOf(w) ==
  CASE w.what = "barbers"  -> {<<k, Listed(k, FALSE)>> : k \in Active}
    [] w.what = "past"     -> Past(w.barber)
    [] w.what = "services" -> Listed(w.barber, w.all)

IsClear(w) ==
  CASE w.what = "barbers"  -> Unambiguous(Active, BarberRank)
    [] w.what = "past"     -> Unambiguous(Past(w.barber), StartRank)
    [] w.what = "services" -> Unambiguous(Listed(w.barber, w.all), NameRanks(Listed(w.barber, w.all)))

\* How long his pages are.
PageLength(w) == IF w.what = "past" THEN Few(w.limit) ELSE w.limit

Reader(got, done) == [what : {"barbers", "past", "services"}, barber : Barber, all : BOOLEAN,
                      limit : Nat, got : {got}, done : {done}, clean : BOOLEAN]

\* What he has read is a cut of the list, and when he is done the list.
HasRead(w, list) ==
  /\ \E n \in 0..Len(list) : w.got = Cut(list, n)
  /\ w.done => w.got = list

ReaderInv == walk # NoWalk => walk \in Reader(walk.got, walk.done)

\* ... of every list the rows may come out as: while nobody changes anything.
PagesInv ==
  walk # NoWalk /\ walk.clean /\ IsClear(walk) =>
    /\ \A list \in Whole(walk) : HasRead(walk, list)
    /\ walk.done => Whole(walk) # {}
    /\ PageLength(walk) = 0 /\ ~walk.done => walk.got = <<>>

\* What is listed is finite, and its ranks are integers.
LEMMA ListedFinite ==
  ASSUME TypeInv, NEW k, NEW all
  PROVE  /\ IsFiniteSet(Listed(k, all))
         /\ \A s \in Listed(k, all) : NameRanks(Listed(k, all))[s] \in Int
<1>1. IsFiniteSet(Listed(k, all))
  BY CatalogAssumption, FS_Subset DEF Listed
<1>2. ASSUME NEW s \in Listed(k, all) PROVE NameRank[services[s].name] \in Int
  <2>1. services[s] \in ServiceRow
    BY ServiceType DEF Listed
  <2>2. PICK b \in Body : services[s].name = b.name
    BY <2>1 DEF ServiceRow, Name
  <2> QED BY <2>2, CatalogAssumption
<1> QED BY <1>1, <1>2 DEF NameRanks

LEMMA PastFinite ==
  ASSUME NEW k
  PROVE  /\ IsFiniteSet(Past(k)) /\ Past(k) \subseteq Booking
         /\ \A b \in Past(k) : [x \in Booking |-> -StartRank[x]][b] \in Int
<1>1. Past(k) \subseteq Booking
  BY DEF Past
<1>2. IsFiniteSet(Past(k))
  BY <1>1, CatalogAssumption, FS_Subset
<1>3. ASSUME NEW b \in Past(k) PROVE [x \in Booking |-> -StartRank[x]][b] \in Int
  BY <1>1, CatalogAssumption
<1> QED BY <1>1, <1>2, <1>3

LEMMA ActiveFinite == IsFiniteSet(Active) /\ \A k \in Active : BarberRank[k] \in Int
BY CatalogAssumption, FS_Subset

\* An ordered list of a set has its elements, each once.
LEMMA OrderedLists ==
  ASSUME NEW S, IsFiniteSet(S), NEW rank, NEW q \in Ordered(S, rank)
  PROVE  q \in Seq(S) /\ ToSet(q) = S /\ Len(q) = Cardinality(S)
<1>1. /\ q \in Seq(S) /\ Len(q) = Cardinality(S) /\ DOMAIN q = 1..Cardinality(S)
      /\ \A x \in S : \E i \in 1..Cardinality(S) : q[i] = x
  BY ListsAreOnto DEF Ordered
<1>2. ToSet(q) = S
  BY <1>1 DEF ToSet
<1> QED BY <1>1, <1>2

\* With the services of each the barbers are as many.
LEMMA AsManyBarbers == Cardinality({<<k, Listed(k, FALSE)>> : k \in Active}) = Cardinality(Active)
<1> DEFINE T == {<<k, Listed(k, FALSE)>> : k \in Active}
           f == [k \in Active |-> <<k, Listed(k, FALSE)>>]
<1>1. f \in [Active -> T]
  OBVIOUS
<1>2. f \in Injection(Active, T)
  BY <1>1 DEF Injection, IsInjective
<1>3. f \in Surjection(Active, T)
  BY <1>1 DEF Surjection
<1>4. ExistsBijection(Active, T)
  BY <1>2, <1>3 DEF Bijection, ExistsBijection
<1> HIDE DEF T
<1>5. Cardinality(T) = Cardinality(Active)
  BY <1>4, ActiveFinite, FS_Bijection
<1> QED BY <1>5 DEF T

\* A whole list has the rows, each once, and where its order leaves nothing open there is
\* one.
LEMMA WholeLists ==
  ASSUME TypeInv, NEW w, w.what \in {"barbers", "past", "services"}, NEW list \in Whole(w)
  PROVE  /\ list \in Seq(RowsOf(w)) /\ ToSet(list) = RowsOf(w) /\ Len(list) = Cardinality(RowsOf(w))
         /\ IsClear(w) => \A other \in Whole(w) : other = list
<1>1. CASE w.what = "barbers"
  <2>1. PICK q \in Ordered(Active, BarberRank) : list = WithServices(q)
    BY <1>1 DEF Whole
  <2>2. q \in Seq(Active) /\ ToSet(q) = Active /\ Len(q) = Cardinality(Active)
    BY OrderedLists, ActiveFinite
  <2>3. RowsOf(w) = {<<k, Listed(k, FALSE)>> : k \in Active}
    BY <1>1 DEF RowsOf
  <2>9. PICK n \in Nat : n = Len(q) /\ \A i \in 1..n : q[i] \in Active
    BY <2>2
  <2>4. list = [i \in 1..n |-> <<q[i], Listed(q[i], FALSE)>>]
    BY <2>1, <2>9 DEF WithServices
  <2>10. \A i \in 1..n : <<q[i], Listed(q[i], FALSE)>> \in RowsOf(w)
    BY <2>3, <2>9
  <2>12. DOMAIN list = 1..n /\ \A i \in 1..n : list[i] \in RowsOf(w)
    BY <2>4, <2>10
  <2>13. list \in [1..n -> RowsOf(w)]
    BY <2>4, <2>10
  <2>5. list \in Seq(RowsOf(w)) /\ Len(list) = n /\ DOMAIN list = 1..n
    BY <2>9, <2>12, <2>13
  <2>6. \A k \in Active : \E i \in 1..n : q[i] = k
    BY <2>2, <2>9 DEF ToSet
  <2>11. \A row \in RowsOf(w) : \E i \in 1..n : list[i] = row
    BY <2>3, <2>4, <2>6
  <2>7. ToSet(list) = RowsOf(w)
    BY <2>5, <2>11, <2>12 DEF ToSet
  <2>8. ASSUME IsClear(w), NEW other \in Whole(w) PROVE other = list
    <3>1. PICK p \in Ordered(Active, BarberRank) : other = WithServices(p)
      BY <1>1 DEF Whole
    <3>2. Unambiguous(Active, BarberRank)
      BY <1>1, <2>8 DEF IsClear
    <3>3. p = q
      BY <3>2, OrderIsUnique, ActiveFinite
    <3> QED BY <2>1, <3>1, <3>3
  <2> QED BY <2>2, <2>3, <2>5, <2>7, <2>8, <2>9, AsManyBarbers
<1>2. CASE w.what = "past"
  <2> DEFINE S == Past(w.barber)
             rank == [b \in Booking |-> -StartRank[b]]
  <2>1. Whole(w) = Ordered(S, rank) /\ RowsOf(w) = S /\ (IsClear(w) <=> Unambiguous(S, StartRank))
    BY <1>2 DEF Whole, RowsOf, IsClear
  <2>2. IsFiniteSet(S) /\ S \subseteq Booking /\ \A b \in S : rank[b] \in Int
    BY PastFinite
  <2>3. IsClear(w) => Unambiguous(S, rank)
    <3> SUFFICES ASSUME Unambiguous(S, StartRank), NEW x \in S, NEW y \in S, rank[x] = rank[y]
                 PROVE  x = y
      BY <2>1 DEF Unambiguous
    <3>1. StartRank[x] \in Int /\ StartRank[y] \in Int /\ -StartRank[x] = -StartRank[y]
      BY <2>2, CatalogAssumption
    <3>2. StartRank[x] = StartRank[y]
      BY <3>1
    <3> QED BY <3>2 DEF Unambiguous
  <2> HIDE DEF S, rank
  <2>4. IsClear(w) => \A other \in Whole(w) : other = list
    BY <2>1, <2>2, <2>3, OrderIsUnique
  <2> QED BY <2>1, <2>2, <2>4, OrderedLists
<1>3. CASE w.what = "services"
  <2> DEFINE S == Listed(w.barber, w.all)
             rank == NameRanks(Listed(w.barber, w.all))
  <2>1. Whole(w) = Ordered(S, rank) /\ RowsOf(w) = S /\ (IsClear(w) <=> Unambiguous(S, rank))
    BY <1>3 DEF Whole, RowsOf, IsClear
  <2>2. IsFiniteSet(S) /\ \A b \in S : rank[b] \in Int
    BY ListedFinite
  <2> HIDE DEF S, rank
  <2>3. IsClear(w) => \A other \in Whole(w) : other = list
    BY <2>1, <2>2, OrderIsUnique
  <2> QED BY <2>1, <2>2, <2>3, OrderedLists
<1> QED BY <1>1, <1>2, <1>3

\* A page of the barbers is a page of the list of them with their services.
LEMMA BarbersPage ==
  ASSUME NEW list \in Seq(Active), NEW n \in 0..Len(list), NEW limit \in Nat \ {0}
  PROVE  [i \in 1..Len(Page(list, limit, n)) |->
            LET k == Page(list, limit, n)[i] IN <<k, Listed(k, FALSE)>>]
         = Page(WithServices(list), limit, n)
<1> DEFINE last == IF n + limit < Len(list) THEN n + limit ELSE Len(list)
           whole == WithServices(list)
<1>1. PICK m \in n..Len(list) : m = last
  OBVIOUS
<1>2. Len(list) \in Nat /\ n \in Nat /\ m \in Nat
  BY <1>1
<1>3. DOMAIN whole = 1..Len(list) /\ \A i \in 1..Len(list) : whole[i] = <<list[i], Listed(list[i], FALSE)>>
  BY DEF WithServices
<1>4. whole \in Seq(Active \X SUBSET Service) /\ Len(whole) = Len(list)
  <2>1. \A i \in 1..Len(list) : <<list[i], Listed(list[i], FALSE)>> \in Active \X SUBSET Service
    BY DEF Listed
  <2>2. whole \in [1..Len(list) -> Active \X SUBSET Service]
    BY <2>1 DEF WithServices
  <2> QED BY <1>2, <2>2
<1> HIDE DEF whole
<1>5. Page(list, limit, n) = SubSeq(list, n + 1, m)
  BY <1>1 DEF Page
<1>6. Page(whole, limit, n) = SubSeq(whole, n + 1, m)
  BY <1>1, <1>4 DEF Page
<1>7. Len(SubSeq(list, n + 1, m)) = m - n /\ Len(SubSeq(whole, n + 1, m)) = m - n
  BY <1>1, <1>2, <1>4
<1>8. \A i \in 1..(m - n) : n + i \in 1..Len(list) /\ SubSeq(list, n + 1, m)[i] = list[n + i]
  BY <1>1, <1>2
<1>9. \A i \in 1..(m - n) : SubSeq(whole, n + 1, m)[i] = whole[n + i]
  BY <1>1, <1>2, <1>4
<1>10. SubSeq(whole, n + 1, m) \in Seq(Active \X SUBSET Service)
  BY <1>1, <1>2, <1>4
<1>11. SubSeq(whole, n + 1, m) = [i \in 1..(m - n) |-> <<list[n + i], Listed(list[n + i], FALSE)>>]
  <2>1. PICK p \in Seq(Active \X SUBSET Service) : p = SubSeq(whole, n + 1, m)
    BY <1>10
  <2>5. Len(p) = m - n
    BY <1>7, <2>1
  <2>2. p \in [1..(m - n) -> Active \X SUBSET Service]
    BY <2>5
  <2>3. \A i \in 1..(m - n) : p[i] = <<list[n + i], Listed(list[n + i], FALSE)>>
    BY <1>3, <1>8, <1>9, <2>1
  <2>4. p = [i \in 1..(m - n) |-> <<list[n + i], Listed(list[n + i], FALSE)>>]
    BY <2>2, <2>3
  <2> QED BY <2>1, <2>4
<1>12. [i \in 1..(m - n) |-> LET k == SubSeq(list, n + 1, m)[i] IN <<k, Listed(k, FALSE)>>]
       = [i \in 1..(m - n) |-> <<list[n + i], Listed(list[n + i], FALSE)>>]
  BY <1>8
<1> QED BY <1>5, <1>6, <1>7, <1>11, <1>12 DEF whole

\* An answer is a page of a whole list, with its length, or is empty.
Answers(a, list, n) ==
  /\ a.page = Page(list, PageLength(walk), n)
  /\ a.total = Len(list) \/ (a.page = <<>> /\ a.total = 0)

LEMMA FewType == ASSUME NEW limit \in Nat PROVE Few(limit) \in Nat \ {0}
BY CatalogAssumption DEF Few

LEMMA PageAnswers ==
  ASSUME TypeInv, walk # NoWalk, ReaderInv, NEW n, \A list \in Whole(walk) : n \in 0..Len(list),
         PageLength(walk) = 0 => n = 0, NEW a \in PageAt(n)
  PROVE  \E list \in Whole(walk) : Answers(a, list, n)
<1>1. walk \in Reader(walk.got, walk.done)
  BY DEF ReaderInv
<1>2. walk.what \in {"barbers", "past", "services"} /\ walk.limit \in Nat
  BY <1>1 DEF Reader
<1>3. CASE walk.what = "barbers"
  <2>1. a \in ListBarbers(walk.limit, n) /\ PageLength(walk) = walk.limit
    BY <1>3 DEF PageAt, PageLength
  <2>2. Whole(walk) = {WithServices(q) : q \in Ordered(Active, BarberRank)}
    BY <1>3 DEF Whole
  <2>3. CASE walk.limit > 0
    <3>1. PICK q \in Ordered(Active, BarberRank) :
            a = [page |-> [i \in 1..Len(Page(q, walk.limit, n)) |->
                  LET k == Page(q, walk.limit, n)[i] IN <<k, Listed(k, FALSE)>>],
                 total |-> Cardinality(Active)]
      BY <2>1, <2>3 DEF ListBarbers, ListBarbersPage
    <3>2. q \in Seq(Active) /\ Len(q) = Cardinality(Active)
      BY OrderedLists, ActiveFinite
    <3>3. PICK list \in Whole(walk) : list = WithServices(q)
      BY <2>2
    <3>4. Len(list) = Len(q)
      BY <3>2, <3>3 DEF WithServices
    <3>5. n \in 0..Len(q) /\ walk.limit \in Nat \ {0}
      BY <1>2, <2>3, <3>3, <3>4
    <3>6. [i \in 1..Len(Page(q, walk.limit, n)) |->
             LET k == Page(q, walk.limit, n)[i] IN <<k, Listed(k, FALSE)>>] = Page(list, walk.limit, n)
      BY <3>2, <3>3, <3>5, BarbersPage
    <3>7. a.page = Page(list, walk.limit, n)
      BY <3>1, <3>6
    <3> QED BY <2>1, <3>1, <3>2, <3>4, <3>7 DEF Answers
  <2>4. CASE walk.limit = 0
    <3>6. ListBarbers(walk.limit, n) = ListAllBarbers
      BY <2>4 DEF ListBarbers
    <3>1. PICK q \in Ordered(Active, BarberRank) :
            a = [page |-> [i \in 1..Len(q) |-> <<q[i], Listed(q[i], FALSE)>>], total |-> Len(q)]
      BY <2>1, <3>6 DEF ListAllBarbers
    <3>2. q \in Seq(Active)
      BY OrderedLists, ActiveFinite
    <3>3. PICK list \in Whole(walk) : list = WithServices(q)
      BY <2>2
    <3>4. a.page = list /\ a.total = Len(q)
      BY <3>1, <3>3 DEF WithServices
    <3>5. Len(list) = Len(q)
      BY <3>2, <3>3 DEF WithServices
    <3> QED BY <2>1, <2>4, <3>4, <3>5 DEF Answers, Page
  <2> QED BY <1>2, <2>3, <2>4
<1>4. ASSUME NEW list \in Whole(walk), a = Counted(list, PageLength(walk), n)
      PROVE  \E l \in Whole(walk) : Answers(a, l, n)
  BY <1>4 DEF Counted, Answers
<1>5. CASE walk.what = "past"
  BY <1>4, <1>5 DEF PageAt, PageLength, GetClientBookings, Whole
<1>6. CASE walk.what = "services"
  BY <1>4, <1>6 DEF PageAt, PageLength, ListServices, Whole
<1> QED BY <1>2, <1>3, <1>5, <1>6

-----------------------------------------------------------------------------
\* What happens to a reader: he comes, reads a page, leaves, something changes under his
\* eyes, or nothing happens that he might see.
Began == /\ walk = NoWalk /\ \A r \in Request : req[r] = Idle
         /\ walk' # NoWalk => walk' \in Reader(<<>>, FALSE)
         /\ UNCHANGED <<services, bookings, req>>

Soiled == /\ walk # NoWalk /\ walk' = [walk EXCEPT !.clean = FALSE]
          /\ \A r \in Request : req[r] = Idle => req'[r] = Idle

Unseen == \/ walk' = NoWalk
          \/ UNCHANGED <<services, bookings, req, walk>>

LEMMA WalkBegins ==
  ASSUME NEW what \in {"barbers", "past", "services"}, NEW k \in Barber, NEW all \in BOOLEAN,
         NEW limit \in Limits, Walk(what, k, all, limit)
  PROVE  Began
<1>1. Clamp(what, limit) \in Nat
  BY CatalogAssumption DEF Clamp
<1>2. PICK most \in Nat : most = Clamp(what, limit)
  BY <1>1
<1> QED BY <1>2 DEF Walk, Began, Reader

\* Who books and who reads take turns.
LEMMA WalkSteps ==
  ASSUME TurnsInv, [Next]_vars
  PROVE  Began \/ Soiled \/ Unseen \/ Turn
<1>1. ASSUME NEW s, NEW row, Write(s, row) PROVE Soiled \/ Unseen
  BY <1>1 DEF Write, Soiled, Unseen
<1>2. ASSUME NEW s \in Service, NEW k \in Barber, NEW body \in Body,
             PostService(s, k, body) \/ PutService(s, k, body)
      PROVE  Soiled \/ Unseen
  BY <1>1, <1>2 DEF PostService, PutService, CreateService, UpdateService, InsertService,
     UpdateRow
<1>3. ASSUME NEW s \in Service, NEW k \in Barber, DeleteService(s, k) PROVE Soiled \/ Unseen
  BY <1>1, <1>3 DEF DeleteService, Deactivate
<1>4. ASSUME NEW r \in Request, UNCHANGED walk, req[r] # Idle \/ walk = NoWalk PROVE Unseen
  BY <1>4 DEF TurnsInv, Unseen
<1>5. ASSUME NEW r \in Request, NEW k \in Barber, NEW s \in Service,
             \/ ListServicesByBarber(r, k, s) \/ PostBookingUnseen(r, k, s)
             \/ \E b \in Booking : PutBooking(r, k, b, s)
      PROVE  Unseen
  BY <1>4, <1>5 DEF ListServicesByBarber, PostBookingUnseen, PutBooking, Begins
<1>6. ASSUME NEW r \in Request,
             \/ GetSlotsOfService(r) \/ PostBooking(r) \/ FindService(r) \/ AnswerBooking(r) \/ GiveUp(r)
             \/ \E b \in Booking : SaveBooking(r, b)
      PROVE  Unseen
  BY <1>4, <1>6 DEF GetSlotsOfService, PostBooking, FindService, AnswerBooking, GiveUp,
     SaveBooking, In
<1>7. ASSUME NEW b \in Booking, NEW k \in Barber, NEW past \in BOOLEAN, MarkBooking(b, k, past)
      PROVE  Soiled \/ Unseen
  BY <1>7 DEF MarkBooking, Soiled, Unseen
<1>8. Close \/ UNCHANGED vars => Unseen
  BY DEF Close, Unseen, vars
<1> QED BY <1>2, <1>3, <1>5, <1>6, <1>7, <1>8, WalkBegins DEF Next

LEMMA TurnsStep == TurnsInv /\ [Next]_vars => TurnsInv'
<1> SUFFICES ASSUME TurnsInv, Began \/ Soiled \/ Unseen \/ Turn PROVE TurnsInv'
  BY WalkSteps
<1> QED BY DEF TurnsInv, Began, Soiled, Unseen, Turn

LEMMA ReaderStep == TurnsInv /\ ReaderInv /\ [Next]_vars => ReaderInv'
<1> SUFFICES ASSUME ReaderInv, Began \/ Soiled \/ Unseen \/ Turn PROVE ReaderInv'
  BY WalkSteps
<1>1. CASE Began
  <2> SUFFICES ASSUME walk' # NoWalk PROVE walk' \in Reader(walk'.got, walk'.done)
    BY DEF ReaderInv
  <2>1. walk' \in Reader(<<>>, FALSE)
    BY <1>1 DEF Began
  <2>2. walk'.got = <<>> /\ walk'.done = FALSE
    BY <2>1 DEF Reader
  <2> QED BY <2>1, <2>2
<1>2. CASE Soiled
  BY <1>2 DEF Soiled, ReaderInv, Reader
<1>3. CASE Unseen
  BY <1>3 DEF Unseen, ReaderInv
<1>4. CASE Turn
  <2>1. walk \in Reader(walk.got, walk.done) /\ walk # NoWalk
    BY <1>4 DEF Turn, ReaderInv
  <2>4. PICK a : walk' = [walk EXCEPT !.got = @ \o a.page, !.done = Len(walk.got) + Len(a.page) >= a.total]
    BY <1>4 DEF Turn
  <2>2. PICK g, d : walk' = [walk EXCEPT !.got = g, !.done = d]
    BY <2>4
  <2>3. walk' \in Reader(g, d) /\ walk'.got = g /\ walk'.done = d
    BY <2>1, <2>2 DEF Reader
  <2> QED BY <2>3 DEF ReaderInv
<1> QED BY <1>1, <1>2, <1>3, <1>4

\* What is read stays what it was, as long as the rows do.
LEMMA SameLists ==
  ASSUME UNCHANGED <<services, bookings>>, NEW w, w.what \in {"barbers", "past", "services"}
  PROVE  Whole(w)' = Whole(w) /\ (IsClear(w)' <=> IsClear(w)) /\ RowsOf(w)' = RowsOf(w)
<1>1. \A k, all : Listed(k, all)' = Listed(k, all)
  BY DEF Listed
<1>2. \A k : Past(k)' = Past(k)
  BY DEF Past
<1>3. \A S : NameRanks(S)' = NameRanks(S)
  BY DEF NameRanks
<1>4. \A list : WithServices(list)' = WithServices(list)
  BY <1>1 DEF WithServices
<1>5. CASE w.what = "barbers"
  BY <1>1, <1>4, <1>5 DEF Whole, IsClear, RowsOf
<1>6. CASE w.what = "past"
  BY <1>2, <1>6 DEF Whole, IsClear, RowsOf
<1>7. CASE w.what = "services"
  BY <1>1, <1>3, <1>7 DEF Whole, IsClear, RowsOf
<1> QED BY <1>5, <1>6, <1>7

\* A page more is read.
LEMMA TurnReads ==
  ASSUME TypeInv, ReaderInv, PagesInv, Turn, walk.clean, IsClear(walk)
  PROVE  /\ walk'.done => Whole(walk) # {}
         /\ PageLength(walk) = 0 => walk'.done
         /\ \A list \in Whole(walk) : HasRead(walk', list)
<1>1. walk # NoWalk /\ walk \in Reader(walk.got, walk.done) /\ ~walk.done
  BY DEF Turn, ReaderInv
<1>2. walk.what \in {"barbers", "past", "services"} /\ walk.limit \in Nat /\ PageLength(walk) \in Nat
  BY <1>1, FewType DEF Reader, PageLength
<1>3. \A list \in Whole(walk) : HasRead(walk, list) /\ list \in Seq(RowsOf(walk))
  BY <1>1, <1>2, WholeLists DEF PagesInv
<1>4. PICK n : n = Len(walk.got)
  OBVIOUS
<1>5. \A list \in Whole(walk) : n \in 0..Len(list) /\ walk.got = Cut(list, n)
  <2> SUFFICES ASSUME NEW list \in Whole(walk) PROVE n \in 0..Len(list) /\ walk.got = Cut(list, n)
    OBVIOUS
  <2>1. PICK m \in 0..Len(list) : walk.got = Cut(list, m)
    BY <1>3 DEF HasRead
  <2>2. m = n
    BY <1>3, <1>4, <2>1 DEF Cut
  <2> QED BY <2>1, <2>2
<1>6. PICK a \in PageAt(n) : walk' = [walk EXCEPT !.got = @ \o a.page, !.done = n + Len(a.page) >= a.total]
  BY <1>4 DEF Turn
<1>7. PageLength(walk) = 0 => n = 0
  BY <1>1, <1>4 DEF PagesInv
<1>8. PICK list \in Whole(walk) : Answers(a, list, n)
  BY <1>1, <1>5, <1>6, <1>7, PageAnswers
<1>9. \A other \in Whole(walk) : other = list
  BY <1>2, WholeLists
<1>10. walk'.got = walk.got \o a.page /\ (walk'.done <=> n + Len(a.page) >= a.total)
  BY <1>1, <1>6 DEF Reader
<1>11. PICK limit \in Nat : limit = PageLength(walk)
  BY <1>2
<1>12. n \in 0..Len(list) /\ list \in Seq(RowsOf(walk)) /\ walk.got = Cut(list, n)
  BY <1>3, <1>5
<1>13. a.page = Page(list, limit, n) /\ (limit = 0 => n = 0)
  BY <1>7, <1>8, <1>11 DEF Answers
<1>14. /\ Len(a.page) \in Nat /\ n + Len(a.page) \in 0..Len(list)
       /\ Cut(list, n) \o a.page = Cut(list, n + Len(a.page))
       /\ a.page = <<>> => n = Len(list)
       /\ limit = 0 => a.page = list
  <2>1. PICK R : list \in Seq(R)
    BY <1>12
  <2>2. PICK page : page = a.page
    OBVIOUS
  <2>3. page = Page(list, limit, n) /\ (limit = 0 => n = 0) /\ n \in 0..Len(list)
    BY <1>12, <1>13, <2>2
  <2>4. Len(page) \in Nat /\ n + Len(page) \in 0..Len(list)
    BY <2>1, <2>3, PageExtendsCut
  <2>5. GrowsBy(list, n, page)
    BY <2>1, <2>3, PageExtendsCut
  <2>6. (page = <<>> => n = Len(list)) /\ (limit = 0 => page = list)
    BY <2>1, <2>3, PageExtendsCut
  <2> QED BY <2>2, <2>4, <2>5, <2>6 DEF GrowsBy
<1>15. PICK m \in 0..Len(list) : m = n + Len(a.page) /\ walk'.got = Cut(list, m)
  BY <1>10, <1>12, <1>14
<1>16. Cut(list, Len(list)) = list
  BY <1>12 DEF Cut
<1>17. walk'.done => m = Len(list)
  <2>1. CASE a.total = Len(list)
    BY <1>10, <1>15, <2>1
  <2>2. CASE a.page = <<>>
    BY <1>12, <1>14, <1>15, <2>2
  <2> QED BY <1>8, <2>1, <2>2 DEF Answers
<1>18. limit = 0 => walk'.done
  <2> SUFFICES ASSUME limit = 0 PROVE walk'.done
    OBVIOUS
  <2>1. Len(a.page) = Len(list) /\ n = 0
    BY <1>13, <1>14
  <2> QED BY <1>8, <1>10, <1>12, <2>1 DEF Answers
<1>19. HasRead(walk', list)
  BY <1>15, <1>16, <1>17 DEF HasRead
<1> QED BY <1>9, <1>11, <1>18, <1>19

\* Every step keeps the pages whole.
LEMMA PagesStep == TypeInv /\ TurnsInv /\ ReaderInv /\ PagesInv /\ [Next]_vars => PagesInv'
<1> SUFFICES ASSUME TypeInv, TurnsInv, ReaderInv, PagesInv, Began \/ Soiled \/ Unseen \/ Turn,
                    walk' # NoWalk, walk'.clean, IsClear(walk)'
             PROVE  /\ \A list \in Whole(walk)' : HasRead(walk, list)'
                    /\ walk'.done => Whole(walk)' # {}
                    /\ PageLength(walk)' = 0 /\ ~walk'.done => walk'.got = <<>>
  BY WalkSteps DEF PagesInv
<1>1. CASE Began
  <2>1. walk'.got = <<>> /\ ~walk'.done /\ walk'.what \in {"barbers", "past", "services"}
    BY <1>1 DEF Began, Reader
  <2>2. ASSUME NEW list \in Whole(walk)' PROVE HasRead(walk, list)'
    <3>1. TypeInv'
      BY <1>1 DEF Began, TypeInv
    <3>2. PICK w : w = walk'
      OBVIOUS
    <3>3. Whole(walk)' = Whole(w)
      BY <1>1, <2>1, <3>2, SameLists DEF Began
    <3>4. list \in Seq(RowsOf(w))
      BY <2>1, <3>2, <3>3, WholeLists
    <3>5. Len(list) \in Nat /\ Cut(list, 0) = <<>>
      BY <3>4 DEF Cut
    <3> QED BY <2>1, <3>5 DEF HasRead
  <2> QED BY <2>1, <2>2
<1>2. CASE Soiled
  BY <1>2 DEF Soiled, ReaderInv, Reader
<1>3. CASE UNCHANGED <<services, bookings, req, walk>>
  <2>1. walk.what \in {"barbers", "past", "services"}
    BY <1>3 DEF ReaderInv, Reader
  <2>2. PICK w : w = walk /\ w = walk'
    BY <1>3
  <2>3. Whole(walk)' = Whole(w) /\ IsClear(w)
    BY <1>3, <2>1, <2>2, SameLists
  <2>4. PagesInv <=> PagesInv'
    BY <1>3, <2>1, <2>2, <2>3, SameLists DEF PagesInv, HasRead, PageLength
  <2> QED BY <2>4 DEF PagesInv
<1>4. CASE Turn
  <2>1. walk \in Reader(walk.got, walk.done) /\ UNCHANGED <<services, bookings>>
    BY <1>4 DEF Turn, ReaderInv
  <2>2. PICK a : walk' = [walk EXCEPT !.got = @ \o a.page, !.done = Len(walk.got) + Len(a.page) >= a.total]
    BY <1>4 DEF Turn
  <2>3. /\ walk'.what = walk.what /\ walk'.barber = walk.barber /\ walk'.all = walk.all
        /\ walk'.limit = walk.limit /\ walk'.clean = walk.clean
        /\ walk.what \in {"barbers", "past", "services"}
    BY <2>1, <2>2 DEF Reader
  <2>4. PICK w : w = walk'
    OBVIOUS
  <2>5. Whole(walk)' = Whole(w) /\ (IsClear(walk)' <=> IsClear(w))
    BY <2>1, <2>3, <2>4, SameLists
  <2>6. Whole(w) = Whole(walk) /\ (IsClear(w) <=> IsClear(walk)) /\ PageLength(w) = PageLength(walk)
    BY <2>3, <2>4 DEF Whole, IsClear, PageLength
  <2>7. walk.clean /\ IsClear(walk)
    BY <2>3, <2>5, <2>6
  <2>8. /\ walk'.done => Whole(walk) # {}
        /\ PageLength(walk) = 0 => walk'.done
        /\ \A list \in Whole(walk) : HasRead(walk', list)
    BY <1>4, <2>7, TurnReads
  <2>9. PageLength(walk)' = PageLength(walk)
    BY <2>4, <2>6 DEF PageLength
  <2>10. \A list : HasRead(walk, list)' <=> HasRead(walk', list)
    BY DEF HasRead
  <2> QED BY <2>5, <2>6, <2>8, <2>9, <2>10
<1> QED BY <1>1, <1>2, <1>3, <1>4 DEF Unseen

\* What a reader who is done has read.
LEMMA ReadAreWhole == TypeInv /\ ReaderInv /\ PagesInv => PagesAreWhole
<1> SUFFICES ASSUME TypeInv, ReaderInv, PagesInv, walk # NoWalk, walk.done, walk.clean, IsClear(walk)
             PROVE  ToSet(walk.got) = RowsOf(walk) /\ Len(walk.got) = Cardinality(RowsOf(walk))
  <2>1. ReaderInv /\ walk # NoWalk => walk.what \in {"barbers", "past", "services"}
    BY DEF ReaderInv, Reader
  <2>2. CASE walk.what = "barbers"
    BY <2>2 DEF PagesAreWhole, RowsOf, IsClear
  <2>3. CASE walk.what = "past"
    BY <2>3 DEF PagesAreWhole, RowsOf, IsClear
  <2>4. CASE walk.what = "services"
    BY <2>4 DEF PagesAreWhole, RowsOf, IsClear
  <2> QED BY <2>1, <2>2, <2>3, <2>4 DEF PagesAreWhole
<1>1. walk.what \in {"barbers", "past", "services"}
  BY DEF ReaderInv, Reader
<1>2. PICK list \in Whole(walk) : HasRead(walk, list)
  BY DEF PagesInv
<1>3. walk.got = list
  BY <1>2 DEF HasRead
<1> QED BY <1>1, <1>3, WholeLists

LEMMA PagesInit == Init => TurnsInv /\ ReaderInv /\ PagesInv
BY DEF Init, TurnsInv, ReaderInv, PagesInv

\* repository.go:62-220 of staff, repo.go:261-295 of booking.  Whoever leafs through a list
\* to its end, while nobody changes it, has each row once, and all there are.
THEOREM PagesWhole == Spec => []PagesAreWhole
<1>1. Spec => [](TypeInv /\ IInv)
  BY OffersCorrect
<1>2. Init => TurnsInv /\ ReaderInv /\ PagesInv
  BY PagesInit
<1>3. TypeInv /\ (TurnsInv /\ ReaderInv /\ PagesInv) /\ [Next]_vars
      => (TurnsInv /\ ReaderInv /\ PagesInv)'
  BY TurnsStep, ReaderStep, PagesStep
<1>4. TypeInv /\ TurnsInv /\ ReaderInv /\ PagesInv => PagesAreWhole
  BY ReadAreWhole
<1> QED BY <1>1, <1>2, <1>3, <1>4, PTL DEF Spec

-----------------------------------------------------------------------------
(* The events. *)

\* A change that a request has committed is one of those of its booking.
CarriedInv ==
  \A p \in Handler : ~Free(p) /\ ~InStage(p, "act") =>
    task[p].change \in 1..commits[task[p].booking]

\* An event that may exist tells a change that was made, and was stamped in the past.
StampedInv ==
  \A e \in Stamped : e \in Event /\ e.change <= commits[e.booking] /\ e.stamp <= clock

\* The first change made while another one is not stamped yet has raced it.
RaceInv ==
  \A p \in Handler, b \in Booking :
    Unstamped(p, b) /\ task[p].change < commits[b] => <<b, task[p].change + 1>> \in raced

\* What the request of the last change is about to tell is the row as it is.
RowInv ==
  \A p \in Handler : ~Free(p) =>
    LET r == task[p] IN
      Exists(r.booking) /\ r.change = commits[r.booking] =>
        /\ r.stage = "stamp" => rows[r.booking] = [start |-> r.start, status |-> r.status]
        /\ r.stage = "reread" /\ r.op = "status" => rows[r.booking].status = r.status

\* The invariant.
EventsIInv == /\ CarriedInv /\ StampedInv /\ RaceInv /\ RowInv
              /\ NoSilentLoss /\ StampsFollowChanges /\ LastChangeIsTold

-----------------------------------------------------------------------------
\* A booking that exists has a row.
LEMMA RowsType ==
  ASSUME EventsTypeOK, NEW b \in Booking, Exists(b)
  PROVE  rows[b] \in Row
BY DEF EventsTypeOK, Exists

\* A busy handler has a request ...
LEMMA ReqType ==
  ASSUME EventsTypeOK, NEW p \in Handler, ~Free(p)
  PROVE  task[p] \in Task
BY DEF EventsTypeOK, Free

\* ... and so has one in some stage.
LEMMA InStageReq ==
  ASSUME EventsTypeOK, NEW p \in Handler, NEW s, InStage(p, s)
  PROVE  ~Free(p) /\ task[p] \in Task /\ task[p].stage = s
BY DEF EventsTypeOK, Free, InStage

\* What the handlers begin with is a request.
LEMMA RequestType ==
  ASSUME NEW op \in {"create", "details", "status"}, NEW stage \in {"act", "reread", "stamp", "send"},
         NEW b \in Booking, NEW t \in Start, NEW s \in Status, NEW n \in 0..MaxCommits
  PROVE  TaskOf(op, stage, b, t, s, n) \in Task
BY EventsAssumption DEF TaskOf, Task

\* What a request tells is an event of a change that was made.
LEMMA EventType ==
  ASSUME EventsTypeOK, CarriedInv, NEW p \in Handler, ~Free(p), ~InStage(p, "act")
  PROVE  /\ EventOf(task[p]) \in Event
         /\ ChangeOf(task[p]) \in Change
         /\ task[p].booking \in Booking
         /\ task[p].change \in 1..commits[task[p].booking]
         /\ commits[task[p].booking] \in 0..MaxCommits
<1>1. task[p] \in Task
  BY ReqType
<1>2. task[p].booking \in Booking /\ commits[task[p].booking] \in 0..MaxCommits
  BY <1>1 DEF Task, EventsTypeOK
<1>3. task[p].change \in 1..MaxCommits
  BY <1>1, <1>2, EventsAssumption DEF Task, CarriedInv
<1> QED BY <1>1, <1>2, <1>3 DEF Task, Event, EventOf, ChangeOf, Change, CarriedInv

\* The types hold at the start.
LEMMA EventsTypeInit == EventsInit => EventsTypeOK
BY EventsAssumption DEF EventsInit, EventsTypeOK

\* A committed change keeps the tables in type.
LEMMA CommitType ==
  ASSUME EventsTypeOK, NEW p \in Handler, NEW b \in Booking, NEW r \in Row, Commit(p, b, r)
  PROVE  /\ rows' \in [Booking -> Row \union {NoRow}]
         /\ commits' \in [Booking -> 0..MaxCommits]
         /\ commits[b] + 1 \in 1..MaxCommits
         /\ raced' \subseteq Change
BY EventsAssumption DEF Commit, EventsTypeOK, Change

\* What an UPDATE leaves is a row.
LEMMA UpdatedType ==
  ASSUME EventsTypeOK, NEW p \in Handler, ~Free(p), Exists(task[p].booking)
  PROVE  Updated(task[p]) \in Row
<1>1. task[p] \in Task
  BY ReqType
<1>2. rows[task[p].booking] \in Row
  BY <1>1, RowsType DEF Task
<1> QED BY <1>1, <1>2 DEF Updated, Row, Task

\* Every step keeps the types.
LEMMA EventsTypeStep == EventsTypeOK /\ CarriedInv /\ [EventsNext]_eventsVars => EventsTypeOK'
<1> SUFFICES ASSUME EventsTypeOK, CarriedInv, [EventsNext]_eventsVars PROVE EventsTypeOK'
  OBVIOUS
<1> USE EventsAssumption
<1>1. ASSUME NEW p \in Handler, NEW b \in Booking, NEW t \in Start, CreateBooking(p, b, t)
      PROVE  EventsTypeOK'
  <2>1. [start |-> t, status |-> Pending] \in Row
    BY DEF Row
  <2>2. /\ rows' \in [Booking -> Row \union {NoRow}] /\ commits' \in [Booking -> 0..MaxCommits]
        /\ raced' \subseteq Change /\ 1 \in 1..MaxCommits /\ <<b, 1>> \in Change
    BY <1>1, <2>1, CommitType DEF CreateBooking, Change
  <2>3. task' \in [Handler -> Task \union {NoTask}] /\ dropped' \subseteq Change
    BY <1>1, <2>2, RequestType DEF CreateBooking, LeaveUntold, EventsTypeOK
  <2> QED BY <1>1, <2>2, <2>3 DEF CreateBooking, EventsTypeOK
<1>2. ASSUME NEW p \in Handler, NEW b \in Booking, NEW t \in Start, UpdateBookingDetails(p, b, t)
      PROVE  EventsTypeOK'
  BY <1>2, RowsType, RequestType DEF UpdateBookingDetails, EventsTypeOK, Row
<1>3. ASSUME NEW p \in Handler, NEW b \in Booking, NEW s \in Status, UpdateBookingStatus(p, b, s)
      PROVE  EventsTypeOK'
  BY <1>3, RowsType, RequestType DEF UpdateBookingStatus, EventsTypeOK, Row
<1>4. ASSUME NEW p \in Handler, Act(p) PROVE EventsTypeOK'
  <2>1. task[p] \in Task /\ task[p].booking \in Booking /\ ~Free(p)
    BY <1>4, InStageReq DEF Act, Task
  <2>2. CASE task' = [task EXCEPT ![p] = NoTask] /\ UNCHANGED <<rows, commits, raced, dropped>>
    BY <1>4, <2>2 DEF Act, EventsTypeOK
  <2>3. CASE Exists(task[p].booking) /\ Commit(p, task[p].booking, Updated(task[p]))
    <3>1. Updated(task[p]) \in Row
      BY <2>1, <2>3, UpdatedType
    <3>2. /\ rows' \in [Booking -> Row \union {NoRow}] /\ commits' \in [Booking -> 0..MaxCommits]
          /\ raced' \subseteq Change /\ commits[task[p].booking] + 1 \in 1..MaxCommits
      BY <2>1, <2>3, <3>1, CommitType
    <3>3. [task[p] EXCEPT !.stage = "reread", !.change = commits[task[p].booking] + 1] \in Task
      <4>1. commits[task[p].booking] + 1 \in 0..MaxCommits
        BY <3>2
      <4> QED BY <2>1, <4>1 DEF Task
    <3>4. \/ task' = [task EXCEPT ![p].stage = "reread", ![p].change = commits[task[p].booking] + 1]
             /\ UNCHANGED dropped
          \/ LeaveUntold(p, task[p].booking, commits[task[p].booking] + 1)
          \/ task' = [task EXCEPT ![p] = NoTask] /\ UNCHANGED dropped
      BY <1>4 DEF Act
    <3>5. dropped' \subseteq Change
      BY <2>1, <3>2, <3>4 DEF LeaveUntold, EventsTypeOK, Change
    <3>6. task' = [task EXCEPT ![p] = task'[p]]
            /\ task'[p] \in {[task[p] EXCEPT !.stage = "reread", !.change = commits[task[p].booking] + 1], NoTask}
      BY <2>1, <3>4 DEF LeaveUntold, EventsTypeOK
    <3>7. task' \in [Handler -> Task \union {NoTask}]
      BY <3>3, <3>6 DEF EventsTypeOK
    <3> QED BY <1>4, <3>2, <3>5, <3>7 DEF Act, EventsTypeOK
  <2> QED BY <1>4, <2>2, <2>3 DEF Act
<1>5. ASSUME NEW p \in Handler, Reread(p) PROVE EventsTypeOK'
  <2>1. task[p] \in Task /\ task[p].booking \in Booking /\ ~Free(p) /\ ChangeOf(task[p]) \in Change
    BY <1>5, InStageReq, EventType DEF Reread, Task, InStage
  <2>2. CASE Exists(task[p].booking) /\ UNCHANGED dropped /\
             task' = [task EXCEPT
                       ![p].stage = "stamp",
                       ![p].start = rows[task[p].booking].start,
                       ![p].status = IF task[p].op = "status" THEN @ ELSE rows[task[p].booking].status]
    <3>1. rows[task[p].booking] \in Row
      BY <2>1, <2>2, RowsType
    <3>2. task'[p] \in Task
      BY <2>1, <2>2, <3>1 DEF Task, Row, EventsTypeOK
    <3> QED BY <1>5, <2>1, <2>2, <3>2 DEF Reread, EventsTypeOK
  <2>3. CASE LeaveUntold(p, task[p].booking, task[p].change)
    BY <1>5, <2>1, <2>3 DEF Reread, LeaveUntold, EventsTypeOK, ChangeOf
  <2> QED BY <1>5, <2>2, <2>3 DEF Reread
<1>6. ASSUME NEW p \in Handler, Stamp(p) PROVE EventsTypeOK'
  <2>1. task[p] \in Task
    BY <1>6, InStageReq DEF Stamp
  <2>2. [task[p] EXCEPT !.stage = "send", !.stamp = clock] \in Task
    BY <2>1 DEF Task, EventsTypeOK
  <2> QED BY <1>6, <2>2 DEF Stamp, EventsTypeOK
<1>7. ASSUME NEW p \in Handler, Send(p) PROVE EventsTypeOK'
  <2>1. EventOf(task[p]) \in Event /\ ChangeOf(EventOf(task[p])) \in Change
    BY <1>7, InStageReq, EventType DEF Send, InStage, EventOf, ChangeOf
  <2>2. topic' \subseteq Event /\ sent' \subseteq Change
    BY <1>7, <2>1 DEF Send, Succeeds, Fails, Tried, EventsTypeOK
  <2>3. retries' \subseteq [event : Event, left : 0..Retries]
    BY <1>7, <2>1 DEF Send, EventsTypeOK
  <2> QED BY <1>7, <2>2, <2>3 DEF Send, EventsTypeOK
<1>8. ASSUME NEW r \in retries, Retry(r) PROVE EventsTypeOK'
  <2>1. r \in [event : Event, left : 0..Retries] /\ ChangeOf(r.event) \in Change
    BY DEF EventsTypeOK, Event, ChangeOf, Change
  <2>2. topic' \subseteq Event /\ sent' \subseteq Change /\ dropped' \subseteq Change
    BY <1>8, <2>1 DEF Retry, Succeeds, Fails, Tried, EventsTypeOK
  <2>3. r.left > 0 => [r EXCEPT !.left = @ - 1] \in [event : Event, left : 0..Retries]
    BY <2>1
  <2>4. retries' \subseteq [event : Event, left : 0..Retries]
    BY <1>8, <2>3 DEF Retry, EventsTypeOK
  <2> QED BY <1>8, <2>2, <2>4 DEF Retry, EventsTypeOK
<1>9. ASSUME NEW b \in Booking, DeleteBooking(b) PROVE EventsTypeOK'
  BY <1>9 DEF DeleteBooking, EventsTypeOK
<1>10. CASE Stop
  <2>1. \A r \in retries : ChangeOf(r.event) \in Change
    BY DEF EventsTypeOK, Event, ChangeOf, Change
  <2>2. dropped' \subseteq Change
    BY <1>10, <2>1, EventType DEF Stop, EventsTypeOK
  <2> QED BY <1>10, <2>2 DEF Stop, EventsTypeOK
<1>11. CASE Tick
  BY <1>11 DEF Tick, EventsTypeOK
<1>12. CASE UNCHANGED eventsVars
  BY <1>12 DEF eventsVars, EventsTypeOK
<1> QED BY <1>1, <1>2, <1>3, <1>4, <1>5, <1>6, <1>7, <1>8, <1>9, <1>10, <1>11, <1>12
DEF EventsNext
-----------------------------------------------------------------------------
\* h has made the change n of b in this step, and goes on to tell it.
Makes(h) ==
  LET r == task'[h] IN
    /\ r.change = commits[r.booking] + 1
    /\ Commit(h, r.booking, rows'[r.booking])
    /\ r.stage = "stamp" => rows'[r.booking] = [start |-> r.start, status |-> r.status]
    /\ r.stage = "reread" /\ r.op = "status" => rows'[r.booking].status = r.status
    /\ r.stage \in {"stamp", "reread"}

\* h has read the row again, or stamped its event: the change stays the same.
GoesOn(h) ==
  /\ \/ Reread(h) /\ Exists(task[h].booking) /\ task'[h].stage = "stamp"
        /\ task'[h].start = rows[task[h].booking].start
        /\ task'[h].status = IF task[h].op = "status" THEN task[h].status
                                                    ELSE rows[task[h].booking].status
     \/ Stamp(h) /\ task'[h].stage = "send" /\ task'[h].stamp = clock
        /\ task'[h].start = task[h].start /\ task'[h].status = task[h].status
  /\ task'[h].booking = task[h].booking /\ task'[h].change = task[h].change

\* A request that carries a change made it in this step, goes on with it, or rests.
LEMMA ReqStep ==
  ASSUME EventsTypeOK, [EventsNext]_eventsVars, NEW h \in Handler, task'[h] # NoTask, task'[h].stage # "act"
  PROVE  task'[h] = task[h] \/ Makes(h) \/ GoesOn(h)
<1> USE EventsAssumption
<1>1. ASSUME NEW p \in Handler, NEW b \in Booking, NEW t \in Start, CreateBooking(p, b, t), p = h
      PROVE  Makes(h)
  <2>1. task'[h] = TaskOf("create", "stamp", b, t, Pending, 1) /\ commits[b] = 0
        /\ Commit(h, b, [start |-> t, status |-> Pending])
    BY <1>1 DEF CreateBooking, LeaveUntold, EventsTypeOK
  <2>2. rows'[b] = [start |-> t, status |-> Pending]
    BY <2>1 DEF Commit, EventsTypeOK
  <2> QED BY <2>1, <2>2 DEF Makes, TaskOf
<1>2. ASSUME Act(h) PROVE Makes(h)
  <2>1. task[h] \in Task /\ task[h].booking \in Booking /\ ~Free(h)
    BY <1>2, InStageReq DEF Act, Task
  <2>2. /\ Exists(task[h].booking) /\ Commit(h, task[h].booking, Updated(task[h]))
        /\ task'[h] = [task[h] EXCEPT !.stage = "reread", !.change = commits[task[h].booking] + 1]
    BY <1>2, <2>1 DEF Act, LeaveUntold, EventsTypeOK
  <2>3. rows'[task[h].booking] = Updated(task[h])
    BY <2>1, <2>2 DEF Commit, EventsTypeOK
  <2>4. /\ task'[h].booking = task[h].booking /\ task'[h].stage = "reread" /\ task'[h].op = task[h].op
        /\ task'[h].status = task[h].status /\ task'[h].change = commits[task[h].booking] + 1
    BY <2>1, <2>2 DEF Task
  <2>5. task[h].op = "status" => Updated(task[h]).status = task[h].status
    BY <2>1, <2>2, RowsType DEF Updated, Row
  <2> QED BY <2>2, <2>3, <2>4, <2>5 DEF Makes
<1>3. ASSUME Reread(h) PROVE GoesOn(h)
  <2>1. task[h] \in Task
    BY <1>3, InStageReq DEF Reread
  <2>2. /\ Exists(task[h].booking)
        /\ task'[h] = [task[h] EXCEPT !.stage = "stamp", !.start = rows[task[h].booking].start,
                        !.status = IF task[h].op = "status" THEN @ ELSE rows[task[h].booking].status]
    BY <1>3 DEF Reread, LeaveUntold, EventsTypeOK
  <2> QED BY <1>3, <2>1, <2>2 DEF GoesOn, Task
<1>4. ASSUME Stamp(h) PROVE GoesOn(h)
  <2>1. task[h] \in Task
    BY <1>4, InStageReq DEF Stamp
  <2>2. task'[h] = [task[h] EXCEPT !.stage = "send", !.stamp = clock]
    BY <1>4 DEF Stamp, EventsTypeOK
  <2> QED BY <1>4, <2>1, <2>2 DEF GoesOn, Task
<1>5. ASSUME NEW p \in Handler, NEW b \in Booking, NEW t \in Start,
             CreateBooking(p, b, t) \/ UpdateBookingDetails(p, b, t)
      PROVE  task'[h] = task[h] \/ Makes(h)
  <2>1. CASE p = h /\ CreateBooking(p, b, t)
    BY <1>1, <2>1
  <2>2. CASE p = h /\ UpdateBookingDetails(p, b, t)
    BY <2>2 DEF UpdateBookingDetails, TaskOf, EventsTypeOK
  <2>3. CASE p # h
    BY <1>5, <2>3 DEF CreateBooking, UpdateBookingDetails, LeaveUntold, EventsTypeOK
  <2> QED BY <1>5, <2>1, <2>2, <2>3
<1>6. ASSUME NEW p \in Handler, NEW b \in Booking, NEW s \in Status, UpdateBookingStatus(p, b, s)
      PROVE  task'[h] = task[h]
  BY <1>6 DEF UpdateBookingStatus, TaskOf, EventsTypeOK
<1>7. ASSUME NEW p \in Handler, Act(p) \/ Reread(p) \/ Stamp(p) \/ Send(p)
      PROVE  task'[h] = task[h] \/ Makes(h) \/ GoesOn(h)
  <2>1. CASE p = h /\ Send(p)
    BY <2>1 DEF Send, EventsTypeOK
  <2>2. CASE p # h
    BY <1>7, <2>2 DEF Act, Reread, Stamp, Send, LeaveUntold, EventsTypeOK
  <2> QED BY <1>2, <1>3, <1>4, <1>7, <2>1, <2>2
<1>8. ASSUME Stop PROVE FALSE
  BY <1>8 DEF Stop
<1>9. ASSUME task' = task PROVE task'[h] = task[h]
  BY <1>9
<1> QED BY <1>5, <1>6, <1>7, <1>8, <1>9 DEF EventsNext, Retry, DeleteBooking, Tick, eventsVars

\* One change of one booking at most, by a handler that carries none.
LEMMA ChangesStep ==
  ASSUME EventsTypeOK, [EventsNext]_eventsVars
  PROVE  \/ /\ UNCHANGED <<commits, raced>>
            /\ \A b \in Booking : rows'[b] = rows[b] \/ rows'[b] = NoRow
         \/ \E p \in Handler, b \in Booking, r \in Row :
              /\ Commit(p, b, r) /\ (Free(p) \/ InStage(p, "act"))
              /\ UNCHANGED <<clock, topic, retries, sent>>
              /\ \/ task'[p] # NoTask /\ task'[p].stage \in {"reread", "stamp"}
                    /\ ChangeOf(task'[p]) = <<b, commits[b] + 1>>
                 \/ <<b, commits[b] + 1>> \in dropped'
<1> DEFINE Commits == \E p \in Handler, b \in Booking, r \in Row :
              /\ Commit(p, b, r) /\ (Free(p) \/ InStage(p, "act"))
              /\ UNCHANGED <<clock, topic, retries, sent>>
              /\ \/ task'[p] # NoTask /\ task'[p].stage \in {"reread", "stamp"}
                    /\ ChangeOf(task'[p]) = <<b, commits[b] + 1>>
                 \/ <<b, commits[b] + 1>> \in dropped'
<1> USE EventsAssumption
<1>1. ASSUME NEW p \in Handler, NEW b \in Booking, NEW t \in Start, CreateBooking(p, b, t)
      PROVE  Commits
  <2>1. [start |-> t, status |-> Pending] \in Row
    BY DEF Row
  <2>2. Commit(p, b, [start |-> t, status |-> Pending]) /\ Free(p) /\ commits[b] = 0
        /\ UNCHANGED <<clock, topic, retries, sent>>
    BY <1>1 DEF CreateBooking
  <2>3. CASE task' = [task EXCEPT ![p] = TaskOf("create", "stamp", b, t, Pending, 1)]
    <3>1. 1 \in 0..MaxCommits
      BY <2>2 DEF Commit, EventsTypeOK
    <3>2. TaskOf("create", "stamp", b, t, Pending, 1) \in Task
      BY <3>1, RequestType
    <3>3. task'[p] # NoTask /\ task'[p].stage \in {"reread", "stamp"} /\ ChangeOf(task'[p]) = <<b, commits[b] + 1>>
      BY <2>2, <2>3, <3>2 DEF TaskOf, ChangeOf, EventsTypeOK
    <3> QED BY <2>1, <2>2, <3>3
  <2>4. CASE LeaveUntold(p, b, 1)
    BY <2>1, <2>2, <2>4 DEF LeaveUntold
  <2> QED BY <1>1, <2>3, <2>4 DEF CreateBooking
<1>2. ASSUME NEW p \in Handler, Act(p), ~UNCHANGED <<rows, commits, raced>>
      PROVE  Commits
  <2>1. task[p] \in Task /\ task[p].booking \in Booking /\ ~Free(p) /\ InStage(p, "act")
    BY <1>2, InStageReq DEF Act, Task
  <2>2. Exists(task[p].booking) /\ Commit(p, task[p].booking, Updated(task[p]))
        /\ UNCHANGED <<clock, topic, retries, sent>>
    BY <1>2 DEF Act
  <2>3. Updated(task[p]) \in Row
    BY <2>1, <2>2, UpdatedType
  <2>4. CASE LeaveUntold(p, task[p].booking, commits[task[p].booking] + 1)
    BY <2>1, <2>2, <2>3, <2>4 DEF LeaveUntold
  <2>5. CASE task' = [task EXCEPT ![p].stage = "reread", ![p].change = commits[task[p].booking] + 1]
    <3>1. task'[p] = [task[p] EXCEPT !.stage = "reread", !.change = commits[task[p].booking] + 1]
      BY <2>5 DEF EventsTypeOK
    <3>2. commits[task[p].booking] + 1 \in 0..MaxCommits
      BY <2>1, <2>2 DEF Commit, EventsTypeOK
    <3>3. task'[p] \in Task
      BY <2>1, <3>1, <3>2 DEF Task
    <3>4. task'[p] # NoTask /\ task'[p].stage = "reread" /\ ChangeOf(task'[p]) = <<task[p].booking, commits[task[p].booking] + 1>>
      BY <2>1, <3>1, <3>3 DEF ChangeOf, Task
    <3> QED BY <2>1, <2>2, <2>3, <3>4
  <2> QED BY <1>2, <2>4, <2>5 DEF Act
<1>3. ASSUME NEW b \in Booking, DeleteBooking(b)
      PROVE  UNCHANGED <<commits, raced>> /\ \A i \in Booking : rows'[i] = rows[i] \/ rows'[i] = NoRow
  BY <1>3 DEF DeleteBooking, EventsTypeOK
<1> QED BY <1>1, <1>2, <1>3 DEF EventsNext, UpdateBookingDetails, UpdateBookingStatus, Reread,
Stamp, Send,
          Retry, Stop, Tick, eventsVars

\* Histories and the clock only grow.
LEMMA ChangesGrow ==
  ASSUME EventsTypeOK, [EventsNext]_eventsVars
  PROVE  /\ \A b \in Booking : commits[b] \in Nat /\ commits'[b] \in Nat /\ commits[b] <= commits'[b]
         /\ raced \subseteq raced'
         /\ clock \in Nat /\ clock <= clock'
         /\ sent \subseteq sent' /\ dropped \subseteq dropped'
<1>1. ASSUME NEW b \in Booking
      PROVE  commits[b] \in Nat /\ commits'[b] \in Nat /\ commits[b] <= commits'[b]
  <2>1. commits[b] \in Nat /\ commits \in [Booking -> 0..MaxCommits]
    BY EventsAssumption DEF EventsTypeOK
  <2>2. commits'[b] = commits[b] \/ commits'[b] = commits[b] + 1
    BY <2>1, ChangesStep DEF Commit
  <2> QED BY <2>1, <2>2
<1>2. raced \subseteq raced'
  BY ChangesStep DEF Commit
<1>3a. clock' = clock \/ clock' = clock + 1
  BY DEF EventsNext, CreateBooking, UpdateBookingDetails, UpdateBookingStatus, Act, Reread,
     Stamp, Send, Retry, DeleteBooking, Stop, Tick, eventsVars
<1>3. clock \in Nat /\ clock <= clock'
  BY <1>3a, EventsAssumption DEF EventsTypeOK
<1>4. sent \subseteq sent' /\ dropped \subseteq dropped'
  BY DEF EventsNext, CreateBooking, UpdateBookingDetails, UpdateBookingStatus, Act, Reread,
     LeaveUntold, Succeeds,
     Fails, Stamp, Send, Retry, DeleteBooking, Stop, Tick, eventsVars
<1> QED BY <1>1, <1>2, <1>3, <1>4

\* What a step makes of a row that is still the one of the last change.
LEMMA LastStays ==
  ASSUME EventsTypeOK, [EventsNext]_eventsVars, NEW b \in Booking, NEW n \in Int, n <= commits[b],
         Exists(b)', n = commits'[b]
  PROVE  Exists(b) /\ rows'[b] = rows[b] /\ n = commits[b]
<1>1. CASE UNCHANGED <<commits, raced>> /\ \A i \in Booking : rows'[i] = rows[i] \/ rows'[i] = NoRow
  BY <1>1 DEF Exists
<1>2. ASSUME NEW p \in Handler, NEW i \in Booking, NEW r \in Row, Commit(p, i, r)
      PROVE  Exists(b) /\ rows'[b] = rows[b] /\ n = commits[b]
  BY <1>2 DEF Commit, EventsTypeOK, Exists
<1> QED BY <1>1, <1>2, ChangesStep

\* No request carries a change that was not made.
LEMMA CarriedStep ==
  EventsTypeOK /\ CarriedInv /\ [EventsNext]_eventsVars => CarriedInv'
<1> SUFFICES ASSUME EventsTypeOK, CarriedInv, [EventsNext]_eventsVars, NEW h \in Handler, task'[h] # NoTask,
                    task'[h].stage # "act"
             PROVE  task'[h].change \in 1..commits'[task'[h].booking]
  BY DEF CarriedInv, Free, InStage
<1>0. EventsTypeOK'
  BY EventsTypeStep
<1>1. task'[h].booking \in Booking /\ task'[h] \in Task
  BY <1>0 DEF EventsTypeOK, Task
<1>2. CASE task'[h] = task[h] \/ GoesOn(h)
  <2>1. task[h] # NoTask /\ task[h].stage # "act"
    BY <1>2 DEF GoesOn, Reread, Stamp, InStage
  <2>2. task[h].change \in 1..commits[task[h].booking]
    BY <2>1 DEF CarriedInv, Free, InStage
  <2>3. task'[h].change = task[h].change /\ task'[h].booking = task[h].booking
    BY <1>2 DEF GoesOn
  <2> QED BY <1>1, <2>2, <2>3, ChangesGrow
<1>3. CASE Makes(h)
  BY <1>1, <1>3, ChangesGrow DEF Makes, Commit, EventsTypeOK
<1> QED BY <1>2, <1>3, ReqStep

\* A new event comes from Stamp, with the time of the step.
LEMMA StampedStep ==
  ASSUME EventsTypeOK, [EventsNext]_eventsVars, NEW e \in Stamped'
  PROVE  e \in Stamped \/ \E p \in Handler : Stamp(p) /\ e = EventOf(task[p])' /\ e.stamp = clock
<1>1. ASSUME NEW p \in Handler, InStage(p, "send")'
      PROVE  EventOf(task[p])' \in Stamped
               \/ (Stamp(p) /\ task'[p].stamp = clock)
  <2>1. CASE task'[p] = task[p]
    BY <1>1, <2>1 DEF InStage, Stamped, EventOf
  <2>2. CASE GoesOn(p)
    BY <1>1, <2>2 DEF GoesOn, InStage
  <2>3. CASE Makes(p)
    BY <1>1, <2>3 DEF Makes, InStage
  <2> QED BY <1>1, <2>1, <2>2, <2>3, ReqStep DEF InStage
<1>2. ASSUME NEW p \in Handler, Send(p)
      PROVE  topic' \union {r.event : r \in retries'} \subseteq Stamped
  BY <1>2 DEF Send, Succeeds, Fails, Tried, Stamped
<1>3. ASSUME NEW r \in retries, Retry(r)
      PROVE  topic' \union {x.event : x \in retries'} \subseteq Stamped
  <2>1. topic' \subseteq Stamped
    BY <1>3 DEF Retry, Succeeds, Fails, Tried, Stamped
  <2>2. r \in [event : Event, left : 0..Retries]
    BY DEF EventsTypeOK
  <2>3. ASSUME NEW x \in retries' PROVE x.event \in Stamped
    <3>1. x \in retries \/ x = [r EXCEPT !.left = @ - 1]
      BY <1>3 DEF Retry
    <3> QED BY <2>2, <3>1 DEF Stamped
  <2> QED BY <2>1, <2>3
<1>5. topic' \union {x.event : x \in retries'} \subseteq Stamped \/ (retries' \subseteq retries /\ topic' = topic)
  <2>1. \/ \E p \in Handler : Send(p)
        \/ \E r \in retries : Retry(r)
        \/ retries' \subseteq retries /\ topic' = topic
    BY DEF EventsNext, CreateBooking, UpdateBookingDetails, UpdateBookingStatus, Act, Reread,
       Stamp, DeleteBooking, Stop, Tick, eventsVars
  <2> QED BY <1>2, <1>3, <2>1
<1>6. CASE e \in topic' \union {x.event : x \in retries'}
  <2>1. CASE topic' \union {x.event : x \in retries'} \subseteq Stamped
    BY <1>6, <2>1
  <2>2. CASE retries' \subseteq retries /\ topic' = topic
    BY <1>6, <2>2 DEF Stamped
  <2> QED BY <1>5, <2>1, <2>2
<1>7. CASE \E p \in Handler : InStage(p, "send")' /\ e = EventOf(task[p])'
  <2>1. PICK p \in Handler : InStage(p, "send")' /\ e = EventOf(task[p])'
    BY <1>7
  <2>2. EventOf(task[p])'.stamp = task'[p].stamp
    BY DEF EventOf
  <2> QED BY <1>1, <2>1, <2>2
<1> QED BY <1>6, <1>7 DEF Stamped

-----------------------------------------------------------------------------
\* Events are stamped in the past and tell changes that were made.
LEMMA StampedInvStep ==
  EventsTypeOK /\ CarriedInv /\ StampedInv /\ [EventsNext]_eventsVars => StampedInv'
<1> SUFFICES ASSUME EventsTypeOK, CarriedInv, StampedInv, [EventsNext]_eventsVars, NEW e \in Stamped'
             PROVE  e \in Event /\ e.change <= commits'[e.booking] /\ e.stamp <= clock'
  BY DEF StampedInv
<1>1. CASE e \in Stamped
  <2>1. e \in Event /\ e.change <= commits[e.booking] /\ e.stamp <= clock
    BY <1>1 DEF StampedInv
  <2>2. e.booking \in Booking /\ e.change \in Int /\ e.stamp \in Int
    BY <2>1, EventsAssumption DEF Event
  <2>3. commits[e.booking] <= commits'[e.booking] /\ commits[e.booking] \in Int
        /\ commits'[e.booking] \in Int
    BY <2>2, ChangesGrow
  <2>4. clock \in Int /\ clock' \in Int /\ clock <= clock'
    BY EventsTypeStep, ChangesGrow, EventsAssumption DEF EventsTypeOK
  <2> QED BY <2>1, <2>2, <2>3, <2>4
<1>2. ASSUME NEW p \in Handler, Stamp(p), e = EventOf(task[p])', e.stamp = clock
      PROVE  e \in Event /\ e.change <= commits'[e.booking] /\ e.stamp <= clock'
  <2>1. EventsTypeOK' /\ CarriedInv'
    BY EventsTypeStep, CarriedStep
  <2>2. /\ task'[p] # NoTask /\ task'[p].stage = "send"
    <3>1. task[p] \in Task
      BY <1>2, InStageReq DEF Stamp
    <3>2. task'[p] = [task[p] EXCEPT !.stage = "send", !.stamp = clock]
      BY <1>2 DEF Stamp, EventsTypeOK
    <3>3. task'[p] \in Task /\ task'[p].stage = "send"
      BY <3>1, <3>2 DEF Task, EventsTypeOK
    <3> QED BY <3>3, EventsAssumption
  <2>3. EventOf(task[p])' \in Event /\ task'[p].change <= commits'[task'[p].booking]
        /\ task'[p].booking \in Booking
    BY <2>1, <2>2, EventsAssumption DEF CarriedInv, Free, InStage, EventOf, Event,
       EventsTypeOK, Task
  <2> QED BY <1>2, <2>3, ChangesGrow DEF EventOf
<1> QED BY <1>1, <1>2, StampedStep

\* The first change that overtakes an unstamped one is recorded as a race.
LEMMA RaceStep ==
  EventsTypeOK /\ CarriedInv /\ RaceInv /\ [EventsNext]_eventsVars => RaceInv'
<1> SUFFICES ASSUME EventsTypeOK, CarriedInv, RaceInv, [EventsNext]_eventsVars, NEW h \in Handler, NEW b \in Booking,
                    Unstamped(h, b)', task'[h].change < commits'[b]
             PROVE  <<b, task'[h].change + 1>> \in raced'
  BY DEF RaceInv
<1>0. task'[h] # NoTask /\ task'[h].stage \in {"reread", "stamp"} /\ task'[h].booking = b
  BY DEF Unstamped, InStage
<1>1. CASE Makes(h)
  BY <1>0, <1>1, ChangesGrow DEF Makes, Commit, EventsTypeOK
<1>2. CASE task'[h] = task[h] \/ GoesOn(h)
  <2>1. Unstamped(h, b) /\ ~Free(h) /\ ~InStage(h, "act") /\ task'[h].change = task[h].change
        /\ task[h].booking = b
    BY <1>0, <1>2 DEF GoesOn, Reread, Stamp, Unstamped, InStage, Free
  <2>2. task[h].change \in Int /\ task[h].change <= commits[b]
    BY <2>1 DEF CarriedInv
  <2>3. CASE task[h].change < commits[b]
    BY <2>1, <2>3, ChangesGrow DEF RaceInv
  <2>4. CASE task[h].change = commits[b]
    <3>1. PICK p \in Handler, i \in Booking, r \in Row :
            Commit(p, i, r) /\ (Free(p) \/ InStage(p, "act"))
      <4>1. commits[b] # commits'[b]
        BY <1>0, <2>1, <2>2, <2>4
      <4> QED BY <4>1, ChangesStep
    <3>2. i = b /\ h # p
      BY <2>1, <2>4, <3>1 DEF Commit, EventsTypeOK
    <3> QED BY <2>1, <2>4, <3>1, <3>2 DEF Commit
  <2> QED BY <2>2, <2>3, <2>4, ChangesGrow
<1> QED BY <1>0, <1>1, <1>2, ReqStep

\* Nobody but the last change has altered the row it is about to tell.
LEMMA RowStep ==
  EventsTypeOK /\ CarriedInv /\ RowInv /\ [EventsNext]_eventsVars => RowInv'
<1> SUFFICES ASSUME EventsTypeOK, CarriedInv, RowInv, [EventsNext]_eventsVars, NEW h \in Handler, task'[h] # NoTask,
                    Exists(task[h].booking)', task'[h].change = commits'[task'[h].booking],
                    task'[h].stage \in {"stamp", "reread"}
             PROVE  LET r == task'[h] IN
                      /\ r.stage = "stamp" => rows'[r.booking] = [start |-> r.start, status |-> r.status]
                      /\ r.stage = "reread" /\ r.op = "status" => rows'[r.booking].status = r.status
  BY DEF RowInv, Free
<1>1. CASE Makes(h)
  BY <1>1 DEF Makes
<1>2. CASE task'[h] = task[h] \/ GoesOn(h)
  <2>1. ~Free(h) /\ ~InStage(h, "act") /\ task[h] \in Task /\ task[h].booking \in Booking
    BY <1>2, ReqType DEF GoesOn, Reread, Stamp, InStage, Free, Task
  <2>2. task[h].change \in Int /\ task[h].change <= commits[task[h].booking]
        /\ task'[h].change = task[h].change /\ task'[h].booking = task[h].booking
    BY <1>2, <2>1, ChangesGrow DEF CarriedInv, GoesOn
  <2>3. Exists(task[h].booking) /\ rows'[task[h].booking] = rows[task[h].booking]
        /\ task[h].change = commits[task[h].booking]
    <3>1. PICK b \in Booking, n \in Int : b = task[h].booking /\ n = task[h].change
      BY <2>1, <2>2
    <3>2. n <= commits[b] /\ Exists(b)' /\ n = commits'[b]
      BY <2>2, <3>1 DEF Exists
    <3> QED BY <3>1, <3>2, LastStays
  <2>4. CASE task'[h] = task[h]
    BY <2>1, <2>3, <2>4 DEF RowInv
  <2>5. CASE GoesOn(h) /\ Reread(h)
    <3>1. task[h].stage = "reread" /\ rows[task[h].booking] \in Row
      BY <2>1, <2>3, <2>5, RowsType DEF Reread, InStage
    <3>2. /\ task'[h].stage = "stamp" /\ task'[h].start = rows[task[h].booking].start
          /\ task'[h].status = rows[task[h].booking].status
      BY <2>1, <2>3, <2>5, <3>1 DEF RowInv, GoesOn, Stamp, InStage
    <3> QED BY <2>2, <2>3, <3>1, <3>2 DEF Row
  <2>6. CASE GoesOn(h) /\ ~Reread(h)
    BY <2>6 DEF GoesOn
  <2> QED BY <1>2, <2>4, <2>5, <2>6
<1> QED BY <1>1, <1>2, ReqStep

\* The event of the last change tells the row, whatever the step.
LEMMA LastStep ==
  EventsTypeOK /\ CarriedInv /\ StampedInv /\ RowInv /\ LastChangeIsTold /\ [EventsNext]_eventsVars => LastChangeIsTold'
<1> SUFFICES ASSUME EventsTypeOK, CarriedInv, StampedInv, RowInv, LastChangeIsTold, [EventsNext]_eventsVars,
                    NEW e \in Stamped', Exists(e.booking)', e.change = commits'[e.booking]
             PROVE  rows'[e.booking] = [start |-> e.start, status |-> e.status]
  BY DEF LastChangeIsTold
<1>1. CASE e \in Stamped
  <2>1. e.booking \in Booking /\ e.change \in Int /\ e.change <= commits[e.booking]
    BY <1>1, EventsAssumption DEF StampedInv, Event
  <2> QED BY <1>1, <2>1, LastStays DEF LastChangeIsTold
<1>2. ASSUME NEW p \in Handler, Stamp(p), e = EventOf(task[p])' PROVE rows'[e.booking] = [start |-> e.start, status |-> e.status]
  <2>1. ~Free(p) /\ task[p] \in Task /\ task[p].stage = "stamp"
    BY <1>2, InStageReq DEF Stamp
  <2>2. task'[p] = [task[p] EXCEPT !.stage = "send", !.stamp = clock] /\ rows' = rows /\ commits' = commits
    BY <1>2 DEF Stamp, EventsTypeOK
  <2>3. e.booking = task[p].booking /\ e.change = task[p].change /\ e.start = task[p].start /\ e.status = task[p].status
    BY <1>2, <2>1, <2>2 DEF EventOf, Task
  <2> QED BY <2>1, <2>2, <2>3 DEF RowInv, Exists
<1> QED BY <1>1, <1>2, StampedStep

\* Stamps follow the changes: a new stamp is later than all, and the changes after it raced it.
LEMMA OrderStep ==
  EventsTypeOK /\ CarriedInv /\ StampedInv /\ RaceInv /\ StampsFollowChanges /\ [EventsNext]_eventsVars
    => StampsFollowChanges'
<1> SUFFICES ASSUME EventsTypeOK, CarriedInv, StampedInv, RaceInv, StampsFollowChanges, [EventsNext]_eventsVars,
                    NEW e \in Stamped', NEW f \in Stamped',
                    e.booking = f.booking, e.change < f.change, e.stamp > f.stamp
             PROVE  \E n \in (e.change + 1)..f.change : <<e.booking, n>> \in raced'
  BY DEF StampsFollowChanges
<1>0. StampedInv' /\ clock \in Nat
  BY StampedInvStep, ChangesGrow
<1>1. /\ e.change \in Int /\ f.change \in Int /\ e.stamp \in Int /\ f.stamp \in Int
  BY <1>0, EventsAssumption DEF StampedInv, Event
<1>2. CASE e \in Stamped /\ f \in Stamped
  BY <1>2, ChangesGrow DEF StampsFollowChanges
<1>3. CASE e \in Stamped /\ f.stamp = clock
  BY <1>0, <1>1, <1>3 DEF StampedInv
<1>4. ASSUME NEW p \in Handler, Stamp(p), e = EventOf(task[p])', f \in Stamped
      PROVE  <<e.booking, e.change + 1>> \in raced'
  <2>1. ~Free(p) /\ task[p] \in Task /\ task[p].stage = "stamp" /\ task[p].booking \in Booking
    BY <1>4, InStageReq DEF Stamp, Task
  <2>2. task'[p] = [task[p] EXCEPT !.stage = "send", !.stamp = clock] /\ raced' = raced
    BY <1>4 DEF Stamp, EventsTypeOK
  <2>3. e.booking = task[p].booking /\ e.change = task[p].change
    BY <1>4, <2>1, <2>2 DEF EventOf, Task
  <2>4. Unstamped(p, task[p].booking)
    BY <2>1 DEF Unstamped, InStage, Free
  <2>5. f.change <= commits[task[p].booking] /\ commits[task[p].booking] \in Nat
    BY <1>4, <2>1, <2>3, ChangesGrow DEF StampedInv
  <2> QED BY <1>1, <2>1, <2>2, <2>3, <2>4, <2>5 DEF RaceInv
<1>5. CASE e.stamp = clock /\ f.stamp = clock
  BY <1>0, <1>5
<1> QED BY <1>1, <1>2, <1>3, <1>4, <1>5, StampedStep

\* A change that is carried is carried on, sent or dropped.
LEMMA ToldStep ==
  ASSUME EventsTypeOK, CarriedInv, [EventsNext]_eventsVars, NEW c \in Carried
  PROVE  c \in (sent \union Carried \union dropped)'
<1> DEFINE Kept == c \in (sent \union Carried \union dropped)'
<1>1. ASSUME NEW h \in Handler, ~Free(h), ~InStage(h, "act"), c = ChangeOf(task[h]) PROVE Kept
  <2>0. task[h] \in Task /\ task[h].stage # "act"
    BY <1>1, ReqType DEF InStage, Free
  <2>1. CASE task'[h] = task[h]
    BY <1>1, <2>1 DEF Carried, ChangeOf, Free, InStage
  <2>2. CASE Reread(h)
    <3>1. CASE LeaveUntold(h, task[h].booking, task[h].change)
      BY <1>1, <3>1 DEF LeaveUntold, ChangeOf
    <3>2. CASE ~LeaveUntold(h, task[h].booking, task[h].change)
      <4>1. task'[h].booking = task[h].booking /\ task'[h].change = task[h].change /\ task'[h].stage = "stamp"
            /\ task'[h] # NoTask
        <5>1. task'[h] \in Task \union {NoTask}
          BY EventsTypeStep DEF EventsTypeOK
        <5>2. task'[h] = [task[h] EXCEPT !.stage = "stamp", !.start = rows[task[h].booking].start,
                        !.status = IF task[h].op = "status" THEN @ ELSE rows[task[h].booking].status]
              /\ Exists(task[h].booking)
          BY <2>2, <3>2 DEF Reread, EventsTypeOK
        <5>3. rows[task[h].booking] \in Row
          BY <2>0, <5>2, RowsType DEF Task
        <5>4. task'[h] \in Task
          BY <2>0, <5>2, <5>3 DEF Task, Row
        <5> QED BY <2>0, <5>2, <5>4, EventsAssumption DEF Task
      <4> QED BY <1>1, <4>1 DEF Carried, ChangeOf, Free, InStage
    <3> QED BY <3>1, <3>2
  <2>3. CASE Stamp(h)
    <3>1. task'[h] = [task[h] EXCEPT !.stage = "send", !.stamp = clock]
      BY <2>3 DEF Stamp, EventsTypeOK
    <3>2. task'[h] \in Task /\ task'[h].booking = task[h].booking /\ task'[h].change = task[h].change
          /\ task'[h].stage = "send"
      BY <2>0, <3>1 DEF Task, EventsTypeOK
    <3> QED BY <1>1, <3>2, EventsAssumption DEF Carried, ChangeOf, Free, InStage
  <2>4. CASE Send(h)
    <3>1. ChangeOf(EventOf(task[h])) = c
      BY <1>1 DEF ChangeOf, EventOf
    <3>2. CASE Succeeds(EventOf(task[h]))
      BY <3>1, <3>2 DEF Succeeds
    <3>3. CASE retries' = retries \union {[event |-> EventOf(task[h]), left |-> Retries]}
      BY <3>1, <3>3 DEF Carried, ChangeOf
    <3> QED BY <2>4, <3>2, <3>3 DEF Send
  <2>5. CASE Stop
    BY <1>1, <2>5 DEF Stop
  <2> QED BY <1>1, <2>1, <2>2, <2>3, <2>4, <2>5
      DEF EventsNext, CreateBooking, UpdateBookingDetails, UpdateBookingStatus, Act,
          LeaveUntold, Reread, Stamp, Send,
          Retry, DeleteBooking, Tick, eventsVars, EventsTypeOK
<1>2. ASSUME NEW r \in retries, c = ChangeOf(r.event) PROVE Kept
  <2>1. CASE r \in retries'
    BY <1>2, <2>1 DEF Carried, ChangeOf
  <2>2. CASE Retry(r)
    <3>1. r \in [event : Event, left : 0..Retries]
      BY DEF EventsTypeOK
    <3>2. CASE Succeeds(r.event)
      BY <1>2, <3>2 DEF Succeeds
    <3>3. CASE retries' = (retries \ {r}) \union {[r EXCEPT !.left = @ - 1]}
      <4>1. PICK x \in retries' : x.event = r.event
        <5>1. [r EXCEPT !.left = @ - 1].event = r.event
          BY <3>1
        <5>2. [r EXCEPT !.left = @ - 1] \in retries'
          BY <3>3
        <5> QED BY <5>1, <5>2
      <4>2. c = ChangeOf(x.event)
        BY <1>2, <4>1 DEF ChangeOf
      <4> QED BY <4>2 DEF Carried, ChangeOf
    <3>4. CASE dropped' = dropped \union {ChangeOf(r.event)}
      BY <1>2, <3>4
    <3> QED BY <2>2, <3>2, <3>3, <3>4 DEF Retry
  <2>3. CASE Stop
    BY <1>2, <2>3 DEF Stop
  <2>4. \/ r \in retries' \/ Stop \/ Retry(r)
    BY <1>2 DEF EventsNext, CreateBooking, UpdateBookingDetails, UpdateBookingStatus, Act,
       Reread,
       Stamp, Send, Retry, DeleteBooking, Tick, eventsVars
  <2> QED BY <2>1, <2>2, <2>3, <2>4
<1> QED BY <1>1, <1>2 DEF Carried

\* No committed change is forgotten.
LEMMA LossStep ==
  EventsTypeOK /\ CarriedInv /\ NoSilentLoss /\ [EventsNext]_eventsVars => NoSilentLoss'
<1> SUFFICES ASSUME EventsTypeOK, CarriedInv, NoSilentLoss, [EventsNext]_eventsVars, NEW b \in Booking,
                    NEW n \in 1..commits'[b]
             PROVE  <<b, n>> \in (sent \union Carried \union dropped)'
  BY DEF NoSilentLoss
<1>1. commits[b] \in Nat /\ commits'[b] \in Nat
  BY ChangesGrow
<1>2. CASE n <= commits[b]
  <2>1. <<b, n>> \in sent \union Carried \union dropped
    BY <1>1, <1>2 DEF NoSilentLoss
  <2> QED BY <2>1, ToldStep, ChangesGrow
<1>3. CASE ~(n <= commits[b])
  <2>1. PICK p \in Handler, i \in Booking, r \in Row :
          /\ Commit(p, i, r)
          /\ \/ task'[p] # NoTask /\ task'[p].stage \in {"reread", "stamp"}
                /\ ChangeOf(task'[p]) = <<i, commits[i] + 1>>
             \/ <<i, commits[i] + 1>> \in dropped'
    BY <1>1, <1>3, ChangesStep
  <2>2. i = b /\ n = commits[b] + 1
    BY <1>1, <1>3, <2>1 DEF Commit, EventsTypeOK
  <2> QED BY <2>1, <2>2 DEF Carried, ChangeOf, Free, InStage
<1> QED BY <1>2, <1>3

-----------------------------------------------------------------------------
\* The invariant holds at the start.
LEMMA EventsIInvInit == EventsInit => EventsIInv
BY DEF EventsInit, EventsIInv, CarriedInv, StampedInv, RaceInv, RowInv, NoSilentLoss,
   StampsFollowChanges,
       LastChangeIsTold, Stamped, Unstamped, InStage, Free

\* The invariant of the publication of events, of which its promises are a part.
THEOREM EventsCorrect == EventsSpec => [](EventsTypeOK /\ EventsIInv)
<1>1. EventsInit => EventsTypeOK /\ EventsIInv
  BY EventsTypeInit, EventsIInvInit
<1>2. (EventsTypeOK /\ EventsIInv) /\ [EventsNext]_eventsVars => (EventsTypeOK /\ EventsIInv)'
  BY EventsTypeStep, CarriedStep, StampedInvStep, RaceStep, RowStep, LastStep, OrderStep,
     LossStep DEF EventsIInv
<1> QED BY <1>1, <1>2, PTL DEF EventsSpec

\* services.go:117-132, :187-206, :227-238 and :583-608.  For any number of handlers,
\* bookings and retries, no committed change is forgotten on a path of its own.
THEOREM ChangesAreNotLost == EventsSpec => []NoSilentLoss
<1>1. EventsIInv => NoSilentLoss
  BY DEF EventsIInv
<1> QED BY <1>1, EventsCorrect, PTL

\* services.go:581.  Stamps follow changes but for the races that are recorded.
THEOREM StampsAreInOrder == EventsSpec => []StampsFollowChanges
<1>1. EventsIInv => StampsFollowChanges
  BY DEF EventsIInv
<1> QED BY <1>1, EventsCorrect, PTL

\* services.go:202-206 and :234-238.  The event of the last change tells the row as it is.
THEOREM RowIsTold == EventsSpec => []LastChangeIsTold
<1>1. EventsIInv => LastChangeIsTold
  BY DEF EventsIInv
<1> QED BY <1>1, EventsCorrect, PTL

-----------------------------------------------------------------------------
(* The free slots. *)

\* Every booking has some length.
RowsInv == \A b \in Booking : dayRows[b] # NoRow => dayRows[b].start < dayRows[b].stop

\* What an answer holds before its bookings are read: no slots yet, and the day's hours.
AskedInv ==
  \A c \in Client : answer[c] # NoAnswer =>
    LET a == answer[c] IN
      /\ a.stage # "shown" => a.slots = {} /\ a.seen = {}
      /\ a.stage = "schedule" => a.to = 0 /\ a.begin = 0 /\ a.from = 0 /\ ~a.today
      /\ a.stage # "schedule" /\ ~a.today => a.from = a.begin
      /\ a.today => a.mode # "day" /\ a.from >= a.at + Ahead
      /\ a.mode = "day" => a.window = Step

\* A compact slot adjoins a booking, unless the day was taken to be free, for as long as
\* the bookings are those it was made from.
CompactInv ==
  \A c \in Client : Shown(c) /\ answer[c].mode = "compact" /\ ~answer[c].full /\ c \notin stale =>
    \A t \in answer[c].slots : t \in Beside(answer[c].window, ActiveRows)

\* The invariant.
SlotsIInv == RowsInv /\ AskedInv /\ CompactInv /\ OffersAreBookable /\ NoGaps /\ SlotsKeepHours
        /\ BarberSeesBookings

-----------------------------------------------------------------------------
\* The times of a booking are within the day.
LEMMA RowNumbers ==
  ASSUME SlotsTypeOK, NEW b \in Booking, dayRows[b] # NoRow
  PROVE  /\ dayRows[b] \in DayRow
         /\ dayRows[b].start \in Int /\ dayRows[b].stop \in Int
         /\ dayRows[b].start >= 0 /\ dayRows[b].stop <= DayEnd
BY SlotsAssumption DEF SlotsTypeOK, DayRow

\* An active row is the row of some booking.
LEMMA SlotsActiveRows ==
  ASSUME SlotsTypeOK, NEW r \in ActiveRows
  PROVE  \E b \in Booking : dayRows[b] = r /\ dayRows[b] # NoRow
BY DEF ActiveRows

\* What an answer holds.
LEMMA AnswerType ==
  ASSUME SlotsTypeOK, NEW c \in Client, answer[c] # NoAnswer
  PROVE  /\ answer[c] \in Answer
         /\ answer[c].window \in Nat \ {0} /\ answer[c].from \in Nat /\ answer[c].to \in 0..DayEnd
         /\ answer[c].begin \in 0..DayEnd /\ answer[c].at \in Int /\ answer[c].slots \subseteq 0..DayEnd
<1>1. answer[c] \in Answer
  BY DEF SlotsTypeOK
<1>2. answer[c].window \in Windows \union {Step} /\ answer[c].at \in Moments
  BY <1>1 DEF Answer
<1>3. answer[c].window \in Nat \ {0}
  BY <1>2, SlotsAssumption
<1>3a. answer[c].at \in Int
  <2>1. -1..DayEnd \subseteq Int
    BY SlotsAssumption
  <2> QED BY <1>2, <2>1, SlotsAssumption
<1>4. /\ answer[c].from \in Nat /\ answer[c].to \in 0..DayEnd /\ answer[c].begin \in 0..DayEnd
      /\ answer[c].slots \subseteq 0..DayEnd
  BY <1>1 DEF Answer
<1> QED BY <1>1, <1>3, <1>3a, <1>4

\* Rounding up to the next quarter never goes back.
LEMMA RoundUpBounds ==
  ASSUME NEW t \in Nat
  PROVE  RoundUp(t) \in Nat /\ t <= RoundUp(t)
<1>1. (t + Step) % Step \in 0..(Step - 1)
  BY SlotsAssumption
<1> QED BY <1>1, SlotsAssumption DEF RoundUp

\* Slots of either mode lie within the hours.
LEMMA WithinGrid ==
  ASSUME NEW from \in Nat, NEW to \in 0..DayEnd, NEW w \in Nat \ {0}
  PROVE  \A t \in Grid(from, to, w) : t \in 0..DayEnd /\ from <= t /\ t + w <= to
BY SlotsAssumption DEF Grid

\* The same of the compact mode.
LEMMA WithinCompact ==
  ASSUME NEW from \in Nat, NEW to \in 0..DayEnd, NEW w \in Nat \ {0}, NEW today, NEW bs,
         \A r \in bs : r.start \in Int /\ r.stop \in Int
  PROVE  \A t \in CompactSlots(from, to, w, today, bs) : t \in 0..DayEnd /\ from <= t /\ t + w <= to
BY SlotsAssumption, WithinGrid DEF CompactSlots, Beside

\* The same of the normal mode.
LEMMA WithinFree ==
  ASSUME NEW from \in Nat, NEW to \in 0..DayEnd, NEW w \in Nat \ {0}, NEW bs
  PROVE  \A t \in FreeSlots(from, to, w, bs) : t \in 0..DayEnd /\ from <= t /\ t + w <= to
BY WithinGrid DEF FreeSlots

\* The barber's quarters lie within the day.
LEMMA WithinQuarters ==
  ASSUME NEW from \in Nat, NEW to \in 0..DayEnd
  PROVE  \A t \in Quarters(from, to) : t \in 0..DayEnd
BY SlotsAssumption DEF Quarters

-----------------------------------------------------------------------------
\* What a step does to the bookings: their times stay, or one of them changes.
Kept == /\ \A b \in Booking : /\ (dayRows'[b] = NoRow) <=> (dayRows[b] = NoRow)
                              /\ dayRows[b] # NoRow => /\ dayRows'[b].start = dayRows[b].start
                                                       /\ dayRows'[b].stop = dayRows[b].stop
        /\ loose' = loose

\* c has booked a compact slot of the day as it still is.
Tight(b, r) ==
  /\ ~loose /\ dayRows[b] = NoRow
  /\ \E c \in Client :
       /\ Shown(c) /\ answer[c].mode = "compact" /\ c \notin stale
       /\ answer[c].full => ActiveRows = {}
       /\ r.start \in answer[c].slots /\ r.stop = r.start + answer[c].window
       /\ ~Clash(r.start, answer[c].window, ActiveRows)

\* b becomes r, and every answer that is out knows it.
Becomes(b, r) ==
  /\ dayRows' = [dayRows EXCEPT ![b] = r]
  /\ r # NoRow => r.start < r.stop
  /\ unseen' = [c \in Client |-> IF Shown(c) /\ r # NoRow THEN unseen[c] \union {b} ELSE unseen[c]]
  /\ stale' = stale \union {c \in Client : Shown(c)}
  /\ ~loose' => Tight(b, r) \/ \A i \in Booking : dayRows'[i] = NoRow
  /\ UNCHANGED answer

\* Some booking changes.
Changes == \E b \in Booking, r \in DayRow \union {NoRow} : Becomes(b, r)

\* Book changes one booking, and keeps a compact day compact.
LEMMA BookChanges ==
  ASSUME SlotsTypeOK, NEW c \in Client, NEW b \in Booking, NEW t \in 0..DayEnd, Book(c, b, t)
  PROVE  Changes
<1>1. answer[c].window \in Nat \ {0}
  BY AnswerType DEF Book, Shown
<1>2. PICK r \in DayRow : r = [start |-> t, stop |-> t + answer[c].window, status |-> "pending"]
  BY <1>1, SlotsAssumption DEF Book, Bookable, DayRow
<1>3. r.start = t /\ r.stop = t + answer[c].window /\ r.start < r.stop
  BY <1>1, <1>2
<1>4. ~loose' => Tight(b, r) \/ \A i \in Booking : dayRows'[i] = NoRow
  BY <1>3 DEF Book, Become, Bookable, Tight
<1>5. Becomes(b, r)
  BY <1>2, <1>3, <1>4 DEF Book, Become, Becomes
<1> QED BY <1>5 DEF Changes

\* So do those who book at times of their own, but for the compactness.
LEMMA ElsewhereChanges ==
  ASSUME SlotsTypeOK, NEW b \in Booking, NEW t \in 0..DayEnd, NEW w \in Windows,
         BookElsewhere(b, t, w) \/ Reactivate(b, t, w)
  PROVE  Changes
<1>1. w \in Nat \ {0} /\ t + w <= DayEnd
  BY SlotsAssumption DEF BookElsewhere, Reactivate
<1>2. \A s \in {"pending", "completed"} : [start |-> t, stop |-> t + w, status |-> s] \in DayRow
  BY <1>1, SlotsAssumption DEF DayRow
<1>3. dayRows[b] # NoRow => dayRows[b].status \in {"pending", "completed"}
  BY DEF SlotsTypeOK, DayRow
<1>4. PICK s \in {"pending", "completed"} :
        Become(b, [start |-> t, stop |-> t + w, status |-> s], FALSE) /\ UNCHANGED answer
  BY <1>3 DEF BookElsewhere, Reactivate
<1>5. PICK r \in DayRow : r = [start |-> t, stop |-> t + w, status |-> s]
  BY <1>2
<1>6. r.start < r.stop
  BY <1>1, <1>5
<1>7. Become(b, r, FALSE) /\ UNCHANGED answer
  BY <1>4, <1>5
<1>8. Becomes(b, r)
  BY <1>6, <1>7 DEF Become, Becomes
<1> QED BY <1>8 DEF Changes

\* So does a release.
LEMMA ReleaseChanges == \A b \in Booking : Release(b) => Changes
<1> SUFFICES ASSUME NEW b \in Booking, Release(b) PROVE Changes
  OBVIOUS
<1>1. Becomes(b, NoRow)
  BY DEF Release, Become, Becomes
<1> QED BY <1>1 DEF Changes

\* There is no other change of a booking.
LEMMA RowsStep ==
  ASSUME SlotsTypeOK, [SlotsNext]_slotsVars
  PROVE  Kept \/ Changes
<1>2. ASSUME NEW b \in Booking, NEW s \in {"pending", "completed"}, Complete(b, s) PROVE Kept
  <2>1. dayRows[b] \in DayRow /\ [dayRows[b] EXCEPT !.status = s] \in DayRow
    BY <1>2 DEF Complete, SlotsTypeOK, DayRow
  <2>2. dayRows' = [dayRows EXCEPT ![b] = [dayRows[b] EXCEPT !.status = s]] /\ UNCHANGED loose
    BY <1>2 DEF Complete
  <2>3. [dayRows[b] EXCEPT !.status = s].start = dayRows[b].start /\ [dayRows[b] EXCEPT !.status = s].stop = dayRows[b].stop
    BY <2>1 DEF DayRow
  <2> QED BY <2>1, <2>2, <2>3, SlotsAssumption DEF Kept, SlotsTypeOK
<1>3. ASSUME UNCHANGED <<dayRows, loose>> PROVE Kept
  BY <1>3 DEF Kept
<1> QED BY <1>2, <1>3, ReleaseChanges, BookChanges, ElsewhereChanges
      DEF SlotsNext, GetFreeSlots, GetSlots, Ask, SetCompactSlots, ReadSchedule, ReadBookings,
          Later, slotsVars

\* What a step does to the answer to c.
Asks(c) ==
  /\ answer'[c] = [stage |-> "schedule", mode |-> answer'[c].mode, window |-> answer'[c].window,
                   today |-> FALSE, at |-> -1, begin |-> 0, from |-> 0, to |-> 0, full |-> FALSE,
                   slots |-> {}, seen |-> {}]
  /\ answer'[c].mode \in Modes /\ answer'[c].window \in Windows \union {Step}
  /\ answer'[c].mode = "day" => answer'[c].window = Step

\* An answer stays, with more unseen bookings at most, or is asked for, or goes on.
LEMMA SlotsAnswerStep ==
  ASSUME SlotsTypeOK, [SlotsNext]_slotsVars, NEW c \in Client
  PROVE  \/ answer'[c] = answer[c] /\ unseen[c] \subseteq unseen'[c] /\ (c \in stale => c \in stale')
         \/ Asks(c)
         \/ \E work \in Schedules \union {NoWork} : ReadSchedule(c, work)
         \/ ReadBookings(c)
<1> DEFINE Goal == \/ answer'[c] = answer[c] /\ unseen[c] \subseteq unseen'[c] /\ (c \in stale => c \in stale')
         \/ Asks(c)
         \/ \E work \in Schedules \union {NoWork} : ReadSchedule(c, work)
         \/ ReadBookings(c)
<1>1. ASSUME NEW d \in Client, NEW mode \in Modes, NEW w \in Windows \union {Step},
             mode = "day" => w = Step, Ask(d, mode, w)
      PROVE  Goal
  <2>1. CASE d = c
    <3>1. answer'[c] = [stage |-> "schedule", mode |-> mode, window |-> w,
                   today |-> FALSE, at |-> -1, begin |-> 0, from |-> 0, to |-> 0, full |-> FALSE,
                   slots |-> {}, seen |-> {}]
      BY <1>1, <2>1 DEF Ask, SlotsTypeOK
    <3> QED BY <1>1, <3>1 DEF Asks
  <2>2. CASE d # c
    BY <1>1, <2>2 DEF Ask, SlotsTypeOK
  <2> QED BY <2>1, <2>2
<1>2. ASSUME NEW d \in Client, NEW work \in Schedules \union {NoWork}, ReadSchedule(d, work), d # c
      PROVE  Goal
  BY <1>2 DEF ReadSchedule, SlotsTypeOK
<1>3. ASSUME NEW d \in Client, ReadBookings(d), d # c PROVE Goal
  BY <1>3 DEF ReadBookings, SlotsTypeOK
<1>4. ASSUME NEW b \in Booking, NEW r, NEW tight, Become(b, r, tight), UNCHANGED answer PROVE Goal
  BY <1>4 DEF Become, SlotsTypeOK
<1>5. ASSUME UNCHANGED <<answer, unseen, stale>> PROVE Goal
  BY <1>5
<1>6. ModeOfClients \in Modes
  BY DEF ModeOfClients, Modes
<1>7. ASSUME NEW d \in Client, NEW b \in Booking, NEW t \in 0..DayEnd, Book(d, b, t) PROVE Goal
  BY <1>4, <1>7 DEF Book
<1>8. ASSUME NEW b \in Booking, NEW t \in 0..DayEnd, NEW w \in Windows,
             BookElsewhere(b, t, w) \/ Reactivate(b, t, w) PROVE Goal
  BY <1>4, <1>8 DEF BookElsewhere, Reactivate
<1>9. ASSUME NEW b \in Booking, Release(b) PROVE Goal
  BY <1>4, <1>9 DEF Release
<1>10. ASSUME NEW d \in Client, NEW w \in Windows, GetFreeSlots(d, w) PROVE Goal
  BY <1>1, <1>6, <1>10 DEF GetFreeSlots, ModeOfClients
<1>11. ASSUME NEW d \in Client, GetSlots(d) PROVE Goal
  BY <1>1, <1>11 DEF GetSlots, Modes
<1> QED BY <1>2, <1>3, <1>5, <1>7, <1>8, <1>9, <1>10, <1>11
      DEF SlotsNext, SetCompactSlots, Complete, Later, slotsVars

\* The two reads of a request, spelled out.
LEMMA ReadSteps ==
  ASSUME SlotsTypeOK, NEW c \in Client
  PROVE  /\ \A work \in Schedules \union {NoWork} : ReadSchedule(c, work) =>
              /\ answer[c] # NoAnswer /\ answer[c] \in Answer /\ answer[c].stage = "schedule"
              /\ answer'[c] = IF work = NoWork THEN [answer[c] EXCEPT !.stage = "shown"]
                   ELSE [answer[c] EXCEPT !.stage = "bookings", !.today = Soon(answer[c].mode), !.at = now,
                          !.begin = work.from, !.to = work.to, !.from = StartOfWork(answer[c].mode, work)]
              /\ UNCHANGED <<dayRows, unseen, stale>>
         /\ ReadBookings(c) =>
              /\ answer[c] # NoAnswer /\ answer[c] \in Answer /\ answer[c].stage = "bookings"
              /\ answer'[c] = Show(c, ActiveRows, PendingRows)
              /\ unseen'[c] = LookedOver(answer'[c])
              /\ UNCHANGED <<dayRows, stale>>
BY DEF ReadSchedule, ReadBookings, SlotsTypeOK

-----------------------------------------------------------------------------
\* The types hold at the start.
LEMMA SlotsTypeInit == SlotsInit => SlotsTypeOK
BY SlotsAssumption DEF SlotsInit, SlotsTypeOK

\* The hours an answer is made of.
LEMMA HoursType ==
  ASSUME SlotsTypeOK, NEW mode \in Modes, NEW work \in Schedules
  PROVE  /\ Soon(mode) \in BOOLEAN /\ StartOfWork(mode, work) \in Nat
         /\ work.from \in 0..DayEnd /\ work.to \in 0..DayEnd
         /\ Soon(mode) => StartOfWork(mode, work) >= now + Ahead /\ mode # "day"
         /\ ~Soon(mode) => StartOfWork(mode, work) = work.from
<1>1. work.from \in 0..DayEnd /\ work.to \in 0..DayEnd
  BY SlotsAssumption
<1>2. CASE Soon(mode)
  <2>1. now + Ahead \in Nat
    BY <1>2, SlotsAssumption DEF Soon, Today
  <2> QED BY <1>1, <1>2, <2>1, RoundUpBounds DEF StartOfWork, Soon
<1> QED BY <1>1, <1>2, SlotsAssumption DEF StartOfWork, Soon

\* What is shown is an answer.
LEMMA ShowType ==
  ASSUME SlotsTypeOK, NEW c \in Client, answer[c] # NoAnswer
  PROVE  Show(c, ActiveRows, PendingRows) \in Answer
<1> DEFINE a == answer[c]
<1>1. /\ a \in Answer /\ a.from \in Nat /\ a.to \in 0..DayEnd /\ a.window \in Nat \ {0}
  BY AnswerType
<1>2. \A r \in ActiveRows : r.start \in Int /\ r.stop \in Int
  BY SlotsActiveRows, RowNumbers
<1>3. PendingRows \subseteq ActiveRows
  BY DEF PendingRows
<1>4. /\ CompactSlots(a.from, a.to, a.window, a.today, ActiveRows) \subseteq 0..DayEnd
      /\ FreeSlots(a.from, a.to, a.window, PendingRows) \subseteq 0..DayEnd
      /\ Quarters(a.from, a.to) \subseteq 0..DayEnd
  <2> HIDE DEF a
  <2> QED BY <1>1, <1>2, <1>3, WithinCompact, WithinFree, WithinQuarters
<1>5. UNION {FirstAt(t, Step) : t \in Quarters(a.from, a.to)} \subseteq Booking
  BY DEF FirstAt
<1>6. (a.mode = "compact" /\ Unhindered(a.from, a.today, ActiveRows)) \in BOOLEAN
  OBVIOUS
<1>7. PICK slots \in SUBSET (0..DayEnd), full \in BOOLEAN, seen \in SUBSET Booking :
        Show(c, ActiveRows, PendingRows) = [a EXCEPT !.stage = "shown", !.full = full, !.slots = slots, !.seen = seen]
  BY <1>4, <1>5, <1>6 DEF Show
<1> QED BY <1>1, <1>7 DEF Answer

\* Every step keeps the types.
LEMMA SlotsTypeStep == SlotsTypeOK /\ [SlotsNext]_slotsVars => SlotsTypeOK'
<1> SUFFICES ASSUME SlotsTypeOK, [SlotsNext]_slotsVars PROVE SlotsTypeOK'
  OBVIOUS
<1> USE SlotsAssumption
<1>1. dayRows' \in [Booking -> DayRow \union {NoRow}]
  <2>1. CASE Changes
    BY <2>1 DEF Changes, Becomes, SlotsTypeOK
  <2>2. ASSUME NEW b \in Booking, NEW s \in {"pending", "completed"}, Complete(b, s)
        PROVE  dayRows' \in [Booking -> DayRow \union {NoRow}]
    BY <2>2 DEF Complete, SlotsTypeOK, DayRow
  <2>3. CASE UNCHANGED dayRows
    BY <2>3 DEF SlotsTypeOK
  <2>4. Changes \/ UNCHANGED dayRows \/ \E b \in Booking, s \in {"pending", "completed"} : Complete(b, s)
    BY ReleaseChanges, BookChanges, ElsewhereChanges
      DEF SlotsNext, GetFreeSlots, GetSlots, Ask, SetCompactSlots, ReadSchedule, ReadBookings,
          Later, slotsVars
  <2> QED BY <2>1, <2>2, <2>3, <2>4
<1>2. now' \in Moments /\ compact' \in BOOLEAN /\ loose' \in BOOLEAN
  BY DEF SlotsNext, GetFreeSlots, GetSlots, Ask, SetCompactSlots, ReadSchedule, ReadBookings,
     Book, BookElsewhere,
         Reactivate, Complete, Release, Become, Later, slotsVars, SlotsTypeOK
<1>3. answer' \in [Client -> Answer \union {NoAnswer}]
  <2>1. answer' = [c \in Client |-> answer'[c]]
    <3>1. ASSUME NEW c \in Client, NEW r, answer' = [answer EXCEPT ![c] = r]
          PROVE  answer' = [d \in Client |-> answer'[d]]
      BY <3>1 DEF SlotsTypeOK
    <3>2. CASE UNCHANGED answer
      BY <3>2 DEF SlotsTypeOK
    <3>3. ASSUME NEW c \in Client, NEW mode, NEW w, Ask(c, mode, w)
          PROVE  answer' = [d \in Client |-> answer'[d]]
      BY <3>1, <3>3 DEF Ask
    <3>4. ASSUME NEW c \in Client,
                 ReadBookings(c) \/ \E work \in Schedules \union {NoWork} : ReadSchedule(c, work)
          PROVE  answer' = [d \in Client |-> answer'[d]]
      BY <3>4, <3>1 DEF ReadBookings, ReadSchedule
    <3> QED BY <3>2, <3>3, <3>4
      DEF SlotsNext, GetFreeSlots, GetSlots, SetCompactSlots, Book, BookElsewhere,
          Reactivate, Complete, Release, Later, slotsVars
  <2>2. ASSUME NEW c \in Client PROVE answer'[c] \in Answer \union {NoAnswer}
    <3>1. CASE answer'[c] = answer[c]
      BY <3>1 DEF SlotsTypeOK
    <3>2. CASE Asks(c)
      <4>1. PICK mode \in Modes, w \in Windows \union {Step} :
              mode = answer'[c].mode /\ w = answer'[c].window
        BY <3>2 DEF Asks
      <4>2. answer'[c] = [stage |-> "schedule", mode |-> mode, window |-> w,
                   today |-> FALSE, at |-> -1, begin |-> 0, from |-> 0, to |-> 0, full |-> FALSE,
                   slots |-> {}, seen |-> {}]
        BY <3>2, <4>1 DEF Asks
      <4> QED BY <4>2 DEF Answer
    <3>3. ASSUME NEW work \in Schedules \union {NoWork}, ReadSchedule(c, work)
          PROVE  answer'[c] \in Answer
      <4>1. answer[c] \in Answer
        BY <3>3, ReadSteps
      <4>2. CASE work = NoWork
        <5>1. answer'[c] = [answer[c] EXCEPT !.stage = "shown"]
          BY <3>3, <4>2, ReadSteps
        <5> QED BY <4>1, <5>1 DEF Answer
      <4>3. CASE work \in Schedules /\ work # NoWork
        <5>1. answer'[c] = [answer[c] EXCEPT !.stage = "bookings", !.today = Soon(answer[c].mode), !.at = now,
                          !.begin = work.from, !.to = work.to, !.from = StartOfWork(answer[c].mode, work)]
          BY <3>3, <4>3, ReadSteps
        <5>2. answer[c].mode \in Modes
          BY <4>1 DEF Answer
        <5>3. PICK soon \in BOOLEAN, from \in Nat : soon = Soon(answer[c].mode) /\ from = StartOfWork(answer[c].mode, work)
          BY <4>3, <5>2, HoursType
        <5>4. work.from \in 0..DayEnd /\ work.to \in 0..DayEnd /\ now \in Moments
          BY <4>3 DEF SlotsTypeOK
        <5>5. answer'[c] = [answer[c] EXCEPT !.stage = "bookings", !.today = soon, !.at = now,
                          !.begin = work.from, !.to = work.to, !.from = from]
          BY <5>1, <5>3
        <5> QED BY <4>1, <5>3, <5>4, <5>5 DEF Answer
      <4> QED BY <4>2, <4>3
    <3>4. CASE ReadBookings(c)
      BY <3>4, ReadSteps, ShowType
    <3> QED BY <3>1, <3>2, <3>3, <3>4, SlotsAnswerStep
  <2> QED BY <2>1, <2>2 DEF SlotsTypeOK
<1>4. unseen' \in [Client -> SUBSET Booking]
  <2>1. ASSUME NEW c \in Client, ReadBookings(c) PROVE unseen' \in [Client -> SUBSET Booking]
    BY <2>1 DEF ReadBookings, LookedOver, SlotsTypeOK
  <2>2. ASSUME NEW c \in Client, NEW mode, NEW w, Ask(c, mode, w)
        PROVE  unseen' \in [Client -> SUBSET Booking]
    BY <2>2 DEF Ask, SlotsTypeOK
  <2>3. CASE Changes
    BY <2>3 DEF Changes, Becomes, SlotsTypeOK
  <2>4. CASE UNCHANGED unseen
    BY <2>4 DEF SlotsTypeOK
  <2> QED BY <2>1, <2>2, <2>3, <2>4, ReleaseChanges, BookChanges, ElsewhereChanges
       DEF SlotsNext, GetFreeSlots, GetSlots, SetCompactSlots, ReadSchedule, Complete, Later,
           slotsVars
<1>5. stale' \subseteq Client
  BY DEF SlotsNext, GetFreeSlots, GetSlots, Ask, SetCompactSlots, ReadSchedule, ReadBookings,
     Book, BookElsewhere,
         Reactivate, Complete, Release, Become, Later, slotsVars, SlotsTypeOK
<1> QED BY <1>1, <1>2, <1>3, <1>4, <1>5 DEF SlotsTypeOK

-----------------------------------------------------------------------------
\* Bookings keep some length.
LEMMA RowsInvStep == SlotsTypeOK /\ RowsInv /\ [SlotsNext]_slotsVars => RowsInv'
<1> SUFFICES ASSUME SlotsTypeOK, RowsInv, [SlotsNext]_slotsVars, NEW b \in Booking, dayRows'[b] # NoRow
             PROVE  dayRows'[b].start < dayRows'[b].stop
  BY DEF RowsInv
<1>1. CASE Kept
  BY <1>1 DEF Kept, RowsInv
<1>2. CASE Changes
  BY <1>2 DEF Changes, Becomes, RowsInv, SlotsTypeOK
<1> QED BY <1>1, <1>2, RowsStep

\* What is known before the bookings are read.
LEMMA AskedStep == SlotsTypeOK /\ AskedInv /\ [SlotsNext]_slotsVars => AskedInv'
<1> SUFFICES ASSUME SlotsTypeOK, AskedInv, [SlotsNext]_slotsVars, NEW c \in Client, answer'[c] # NoAnswer
             PROVE  LET a == answer'[c] IN
                      /\ a.stage # "shown" => a.slots = {} /\ a.seen = {}
                      /\ a.stage = "schedule" => a.to = 0 /\ a.begin = 0 /\ a.from = 0 /\ ~a.today
                      /\ a.stage # "schedule" /\ ~a.today => a.from = a.begin
                      /\ a.today => a.mode # "day" /\ a.from >= a.at + Ahead
                      /\ a.mode = "day" => a.window = Step
  BY DEF AskedInv
<1>1. CASE answer'[c] = answer[c]
  BY <1>1 DEF AskedInv
<1>2. CASE Asks(c)
  BY <1>2 DEF Asks
<1>3. ASSUME NEW work \in Schedules \union {NoWork}, ReadSchedule(c, work)
      PROVE  LET a == answer'[c] IN
                      /\ a.stage # "shown" => a.slots = {} /\ a.seen = {}
                      /\ a.stage = "schedule" => a.to = 0 /\ a.begin = 0 /\ a.from = 0 /\ ~a.today
                      /\ a.stage # "schedule" /\ ~a.today => a.from = a.begin
                      /\ a.today => a.mode # "day" /\ a.from >= a.at + Ahead
                      /\ a.mode = "day" => a.window = Step
  <2>1. answer[c] # NoAnswer /\ answer[c] \in Answer /\ answer[c].stage = "schedule"
    BY <1>3, ReadSteps
  <2>2. answer[c].slots = {} /\ answer[c].seen = {} /\ answer[c].from = answer[c].begin /\ ~answer[c].today
        /\ (answer[c].mode = "day" => answer[c].window = Step)
    BY <2>1 DEF AskedInv
  <2>3. CASE work = NoWork
    <3>1. answer'[c] = [answer[c] EXCEPT !.stage = "shown"]
      BY <1>3, <2>3, ReadSteps
    <3> QED BY <2>1, <2>2, <3>1 DEF Answer
  <2>4. CASE work \in Schedules /\ work # NoWork
    <3>1. answer'[c] = [answer[c] EXCEPT !.stage = "bookings", !.today = Soon(answer[c].mode), !.at = now,
                      !.begin = work.from, !.to = work.to, !.from = StartOfWork(answer[c].mode, work)]
      BY <1>3, <2>4, ReadSteps
    <3>2. answer[c].mode \in Modes
      BY <2>1 DEF Answer
    <3>3. /\ answer'[c].stage = "bookings" /\ answer'[c].today = Soon(answer[c].mode) /\ answer'[c].at = now
          /\ answer'[c].begin = work.from /\ answer'[c].from = StartOfWork(answer[c].mode, work)
          /\ answer'[c].mode = answer[c].mode /\ answer'[c].slots = {} /\ answer'[c].seen = {}
          /\ answer'[c].window = answer[c].window
      BY <2>1, <2>2, <3>1 DEF Answer
    <3> QED BY <2>2, <2>4, <3>2, <3>3, HoursType
  <2> QED BY <2>3, <2>4
<1>4. CASE ReadBookings(c)
  <2>1. answer[c] # NoAnswer /\ answer[c] \in Answer /\ answer[c].stage = "bookings"
        /\ answer'[c] = Show(c, ActiveRows, PendingRows)
    BY <1>4, ReadSteps
  <2>2. /\ answer'[c].stage = "shown" /\ answer'[c].today = answer[c].today /\ answer'[c].at = answer[c].at
        /\ answer'[c].begin = answer[c].begin /\ answer'[c].from = answer[c].from
        /\ answer'[c].mode = answer[c].mode /\ answer'[c].window = answer[c].window
    BY <2>1 DEF Show, Answer
  <2> QED BY <2>1, <2>2 DEF AskedInv
<1> QED BY <1>1, <1>2, <1>3, <1>4, SlotsAnswerStep

\* The answer that is shown, field by field.
LEMMA ShowFields ==
  ASSUME SlotsTypeOK, NEW c \in Client, ReadBookings(c)
  PROVE  LET a == answer[c]
             n == answer'[c]
         IN  /\ a # NoAnswer /\ a \in Answer /\ n \in Answer /\ a.stage = "bookings" /\ n.stage = "shown" /\ n.mode = a.mode /\ n.window = a.window /\ n.today = a.today
             /\ n.at = a.at /\ n.begin = a.begin /\ n.from = a.from /\ n.to = a.to
             /\ n.full <=> (a.mode = "compact" /\ Unhindered(a.from, a.today, ActiveRows))
             /\ a.mode = "compact" => n.slots = CompactSlots(a.from, a.to, a.window, a.today, ActiveRows)
             /\ a.mode = "grid" => n.slots = FreeSlots(a.from, a.to, a.window, PendingRows)
             /\ a.mode = "day" => /\ n.slots = {t \in Quarters(a.from, a.to) : ~Clash(t, Step, ActiveRows)}
                                  /\ n.seen = UNION {FirstAt(t, Step) : t \in Quarters(a.from, a.to)}
             /\ a.mode \in Modes /\ unseen'[c] = LookedOver(n) /\ UNCHANGED <<dayRows, stale>>
<1>1. answer[c] # NoAnswer /\ answer[c] \in Answer /\ answer[c].stage = "bookings"
      /\ answer'[c] = Show(c, ActiveRows, PendingRows) /\ unseen'[c] = LookedOver(answer'[c]) /\ UNCHANGED <<dayRows, stale>>
  BY ReadSteps
<1>2. answer'[c] \in Answer
  BY <1>1, ShowType
<1>3. answer[c].mode \in Modes
  BY <1>1 DEF Answer
<1> QED BY <1>1, <1>2, <1>3 DEF Show, Answer, Modes

\* Nothing is shown of a schedule alone, and nothing of a day off.
LEMMA ScheduleFields ==
  ASSUME SlotsTypeOK, AskedInv, NEW c \in Client, NEW work \in Schedules \union {NoWork}, ReadSchedule(c, work)
  PROVE  /\ answer'[c].slots = {} /\ answer'[c].seen = {}
         /\ answer'[c].stage = "shown" => answer'[c].begin = 0 /\ answer'[c].to = 0
<1>1. answer[c] # NoAnswer /\ answer[c] \in Answer /\ answer[c].stage = "schedule"
  BY ReadSteps
<1>2. answer[c].slots = {} /\ answer[c].seen = {} /\ answer[c].begin = 0 /\ answer[c].to = 0
  BY <1>1 DEF AskedInv
<1>3. CASE work = NoWork
  <2>1. answer'[c] = [answer[c] EXCEPT !.stage = "shown"]
    BY <1>3, ReadSteps
  <2> QED BY <1>1, <1>2, <2>1 DEF Answer
<1>4. CASE work # NoWork
  <2>1. answer'[c] = [answer[c] EXCEPT !.stage = "bookings", !.today = Soon(answer[c].mode), !.at = now,
                    !.begin = work.from, !.to = work.to, !.from = StartOfWork(answer[c].mode, work)]
    BY <1>4, ReadSteps
  <2> QED BY <1>1, <1>2, <2>1 DEF Answer
<1> QED BY <1>3, <1>4

\* Compact slots adjoin bookings as long as the bookings stay.
LEMMA CompactStep == SlotsTypeOK /\ AskedInv /\ CompactInv /\ [SlotsNext]_slotsVars => CompactInv'
<1> SUFFICES ASSUME SlotsTypeOK, AskedInv, CompactInv, [SlotsNext]_slotsVars, NEW c \in Client, Shown(c)',
                    answer'[c].mode = "compact", ~answer'[c].full, c \notin stale',
                    NEW t \in answer'[c].slots
             PROVE  t \in Beside(answer'[c].window, ActiveRows')
  BY DEF CompactInv
<1>1. CASE answer'[c] = answer[c] /\ (c \in stale => c \in stale')
  <2>1. Shown(c) /\ c \notin stale
    BY <1>1 DEF Shown
  <2>2. Kept
    BY <1>1, <2>1, RowsStep DEF Changes, Becomes
  <2>3. t \in Beside(answer[c].window, ActiveRows)
    BY <1>1, <2>1 DEF CompactInv
  <2>4. PICK b \in Booking : dayRows[b] # NoRow /\ (t = dayRows[b].start - answer[c].window \/ t = dayRows[b].stop)
    BY <2>3 DEF Beside, ActiveRows
  <2>5. dayRows'[b] \in ActiveRows' /\ dayRows'[b].start = dayRows[b].start /\ dayRows'[b].stop = dayRows[b].stop
    BY <2>2, <2>4 DEF Kept, ActiveRows
  <2> QED BY <1>1, <2>4, <2>5 DEF Beside
<1>2. CASE Asks(c)
  BY <1>2 DEF Asks
<1>3. ASSUME NEW work \in Schedules \union {NoWork}, ReadSchedule(c, work) PROVE FALSE
  BY <1>3, ScheduleFields
<1>4. CASE ReadBookings(c)
  <2>1. ~Unhindered(answer[c].from, answer[c].today, ActiveRows)
        /\ t \in CompactSlots(answer[c].from, answer[c].to, answer[c].window, answer[c].today, ActiveRows)
        /\ answer'[c].window = answer[c].window /\ dayRows' = dayRows
    BY <1>4, ShowFields
  <2>2. t \in Beside(answer[c].window, ActiveRows)
    BY <2>1 DEF CompactSlots
  <2>3. ActiveRows' = ActiveRows
    BY <2>1 DEF ActiveRows
  <2> QED BY <2>1, <2>2, <2>3
<1> QED BY <1>1, <1>2, <1>3, <1>4, SlotsAnswerStep

-----------------------------------------------------------------------------
\* Today, a booking that the full compact grid does not see lies across another one.
LEMMA UnhinderedOffers ==
  ASSUME SlotsTypeOK, RowsInv, NEW from \in Nat, NEW today \in BOOLEAN, Unhindered(from, today, ActiveRows),
         NEW b \in Booking, dayRows[b] # NoRow, dayRows[b].stop > from
  PROVE  \E i \in Booking : Across(i, b)
<1>1. PICK r \in ActiveRows : (\A q \in ActiveRows : q.start <= r.start) /\ r.stop < from
  BY DEF Unhindered, ActiveRows
<1>2. PICK i \in Booking : dayRows[i] = r /\ dayRows[i] # NoRow
  BY <1>1, SlotsActiveRows
<1>3. dayRows[b] \in ActiveRows
  BY DEF ActiveRows
<1>4. dayRows[b].start <= dayRows[i].start /\ dayRows[i].stop < from /\ dayRows[i].start < dayRows[i].stop
      /\ dayRows[b].start < dayRows[b].stop
  BY <1>1, <1>2, <1>3 DEF RowsInv
<1>5. Across(i, b)
  BY <1>2, <1>4, RowNumbers DEF Across
<1> QED BY <1>5

\* No slot clashes with a booking that was seen, whatever the step.
LEMMA OffersStep == SlotsTypeOK /\ RowsInv /\ AskedInv /\ OffersAreBookable /\ [SlotsNext]_slotsVars => OffersAreBookable'
<1> SUFFICES ASSUME SlotsTypeOK, RowsInv, AskedInv, OffersAreBookable, [SlotsNext]_slotsVars, NEW c \in Client, Shown(c)',
                    NEW t \in answer'[c].slots, NEW b \in Booking, dayRows'[b] # NoRow,
                    t < dayRows'[b].stop, t + answer'[c].window > dayRows'[b].start
             PROVE  b \in unseen'[c]
  BY DEF OffersAreBookable, Clash
<1>1. CASE answer'[c] = answer[c] /\ unseen[c] \subseteq unseen'[c]
  <2>1. Shown(c)
    BY <1>1 DEF Shown
  <2>2. ASSUME dayRows[b] # NoRow, dayRows'[b].start = dayRows[b].start, dayRows'[b].stop = dayRows[b].stop
        PROVE  b \in unseen'[c]
    BY <1>1, <2>1, <2>2 DEF OffersAreBookable, Clash
  <2>3. CASE Kept
    BY <2>2, <2>3 DEF Kept
  <2>4. CASE Changes
    <3>1. PICK i \in Booking, r \in DayRow \union {NoRow} : Becomes(i, r)
      BY <2>4 DEF Changes
    <3>2. CASE i = b
      BY <2>1, <3>1, <3>2 DEF Becomes, SlotsTypeOK
    <3>3. CASE i # b
      BY <2>2, <3>1, <3>3 DEF Becomes, SlotsTypeOK
    <3> QED BY <3>2, <3>3
  <2> QED BY <2>3, <2>4, RowsStep
<1>2. CASE Asks(c)
  BY <1>2 DEF Asks
<1>3. ASSUME NEW work \in Schedules \union {NoWork}, ReadSchedule(c, work) PROVE FALSE
  BY <1>3, ScheduleFields
<1>4. CASE ReadBookings(c)
  <2>0. dayRows' = dayRows /\ unseen'[c] = LookedOver(answer'[c])
    BY <1>4, ShowFields
  <2>1. dayRows' = dayRows /\ dayRows[b] \in ActiveRows /\ unseen'[c] = LookedOver(answer'[c])
    BY <2>0 DEF ActiveRows
  <2>2. /\ answer[c].from \in Nat /\ answer[c].to \in 0..DayEnd /\ answer[c].window \in Nat \ {0}
        /\ answer[c].today \in BOOLEAN
    BY <1>4, ShowFields, AnswerType DEF Answer
  <2>3. CASE answer[c].mode = "compact"
    <3>1. t \in CompactSlots(answer[c].from, answer[c].to, answer[c].window, answer[c].today, ActiveRows)
          /\ answer'[c].mode = "compact" /\ answer'[c].window = answer[c].window
          /\ (answer'[c].full <=> Unhindered(answer[c].from, answer[c].today, ActiveRows))
      BY <1>4, <2>3, ShowFields
    <3>2. CASE ~Unhindered(answer[c].from, answer[c].today, ActiveRows)
      <4>1. ~Clash(t, answer[c].window, ActiveRows)
        BY <3>1, <3>2 DEF CompactSlots
      <4> QED BY <2>1, <3>1, <4>1 DEF Clash
    <3>3. CASE Unhindered(answer[c].from, answer[c].today, ActiveRows)
      <4>1. t >= answer[c].from /\ t \in Int
        BY <2>2, <3>1, <3>3 DEF CompactSlots, Grid
      <4>2. \E i \in Booking : Across(i, b)
        BY <2>1, <2>2, <3>3, <4>1, UnhinderedOffers, RowNumbers
      <4> QED BY <2>1, <3>1, <3>3, <4>2 DEF LookedOver, Across
    <3> QED BY <3>2, <3>3
  <2>4. CASE answer[c].mode = "grid"
    <3>1. t \in FreeSlots(answer[c].from, answer[c].to, answer[c].window, PendingRows)
          /\ answer'[c].mode = "grid" /\ answer'[c].window = answer[c].window
      BY <1>4, <2>4, ShowFields
    <3>2. dayRows[b] \notin PendingRows
      BY <2>1, <3>1 DEF FreeSlots, Clash
    <3>3. dayRows[b].status = "completed"
      BY <2>1, <3>2 DEF PendingRows, DayRow, SlotsTypeOK
    <3> QED BY <2>1, <3>1, <3>3 DEF LookedOver
  <2>5. CASE answer[c].mode = "day"
    <3>1. ~Clash(t, Step, ActiveRows) /\ answer'[c].mode = "day" /\ answer'[c].window = answer[c].window
      BY <1>4, <2>5, ShowFields
    <3>2. answer[c].window = Step
      BY <1>4, <2>5, ShowFields DEF AskedInv
    <3> QED BY <2>1, <3>1, <3>2 DEF Clash
  <2> QED BY <1>4, <2>3, <2>4, <2>5, ShowFields DEF Modes
<1> QED BY <1>1, <1>2, <1>3, <1>4, SlotsAnswerStep

\* Slots keep the barber's hours, whatever the step.
LEMMA HoursStep == SlotsTypeOK /\ AskedInv /\ SlotsKeepHours /\ [SlotsNext]_slotsVars => SlotsKeepHours'
<1> SUFFICES ASSUME SlotsTypeOK, AskedInv, SlotsKeepHours, [SlotsNext]_slotsVars, NEW c \in Client, Shown(c)',
                    answer'[c].mode # "day", NEW t \in answer'[c].slots
             PROVE  /\ t + answer'[c].window <= answer'[c].to
                    /\ answer'[c].today \/ answer'[c].begin <= t
                    /\ answer'[c].today => answer'[c].at + Ahead <= t
  BY DEF SlotsKeepHours
<1>1. CASE answer'[c] = answer[c]
  <2>1. Shown(c)
    BY <1>1 DEF Shown
  <2> QED BY <1>1, <2>1 DEF SlotsKeepHours
<1>2. CASE Asks(c)
  BY <1>2 DEF Asks
<1>3. ASSUME NEW work \in Schedules \union {NoWork}, ReadSchedule(c, work) PROVE FALSE
  BY <1>3, ScheduleFields
<1>4. CASE ReadBookings(c)
  <2>1. PICK from \in Nat, to \in 0..DayEnd, w \in Nat \ {0} :
          from = answer[c].from /\ to = answer[c].to /\ w = answer[c].window
    BY <1>4, ShowFields, AnswerType
  <2>2. /\ answer'[c].from = from /\ answer'[c].to = to /\ answer'[c].window = w
        /\ answer'[c].begin = answer[c].begin /\ answer'[c].at = answer[c].at
        /\ answer'[c].today = answer[c].today
        /\ answer'[c].mode = answer[c].mode /\ answer[c].mode \in {"grid", "compact"}
    BY <1>4, <2>1, ShowFields DEF Modes
  <2>3. t \in CompactSlots(from, to, w, answer[c].today, ActiveRows) \union FreeSlots(from, to, w, PendingRows)
    BY <1>4, <2>1, <2>2, ShowFields
  <2>4. /\ \A r \in ActiveRows : r.start \in Int /\ r.stop \in Int
        /\ \A r \in PendingRows : r.start \in Int /\ r.stop \in Int
    BY SlotsActiveRows, RowNumbers DEF PendingRows
  <2>5. t \in Int /\ from <= t /\ t + w <= to
    <3>1. CASE t \in CompactSlots(from, to, w, answer[c].today, ActiveRows)
      <4>1. t \in 0..DayEnd /\ from <= t /\ t + w <= to
        BY <2>4, <3>1, WithinCompact
      <4> QED BY <4>1, SlotsAssumption
    <3>2. CASE t \in FreeSlots(from, to, w, PendingRows)
      BY <3>2, WithinFree
    <3> QED BY <2>3, <3>1, <3>2
  <2>6. answer[c] # NoAnswer /\ answer[c].stage = "bookings"
    BY <1>4, ShowFields
  <2>7. /\ ~answer[c].today => from = answer[c].begin
        /\ answer[c].today => from >= answer[c].at + Ahead
        /\ answer[c].at \in Int /\ answer[c].begin \in Int
    BY <2>1, <2>6, AnswerType, SlotsAssumption DEF AskedInv
  <2> QED BY <2>2, <2>5, <2>7, SlotsAssumption
<1> QED BY <1>1, <1>2, <1>3, <1>4, SlotsAnswerStep

\* The barber sees his bookings, whatever the step.
LEMMA BarberStep == SlotsTypeOK /\ AskedInv /\ BarberSeesBookings /\ [SlotsNext]_slotsVars => BarberSeesBookings'
<1> SUFFICES ASSUME SlotsTypeOK, AskedInv, BarberSeesBookings, [SlotsNext]_slotsVars, NEW c \in Client, Shown(c)',
                    answer'[c].mode = "day", NEW b \in Booking, b \notin unseen'[c], dayRows'[b] # NoRow,
                    NEW t \in Quarters(answer'[c].begin, answer'[c].to),
                    t \in dayRows'[b].start..(dayRows'[b].stop - 1)
             PROVE  b \in answer'[c].seen
  BY DEF BarberSeesBookings
<1>1. CASE answer'[c] = answer[c] /\ unseen[c] \subseteq unseen'[c]
  <2>1. Shown(c) /\ b \notin unseen[c]
    BY <1>1 DEF Shown
  <2>2. ASSUME dayRows[b] # NoRow, dayRows'[b].start = dayRows[b].start, dayRows'[b].stop = dayRows[b].stop
        PROVE  b \in answer'[c].seen
    BY <1>1, <2>1, <2>2 DEF BarberSeesBookings
  <2>3. CASE Kept
    BY <2>2, <2>3 DEF Kept
  <2>4. CASE Changes
    <3>1. PICK i \in Booking, r \in DayRow \union {NoRow} : Becomes(i, r)
      BY <2>4 DEF Changes
    <3>2. i # b
      BY <2>1, <3>1 DEF Becomes, SlotsTypeOK
    <3> QED BY <2>2, <3>1, <3>2 DEF Becomes, SlotsTypeOK
  <2> QED BY <2>3, <2>4, RowsStep
<1>2. CASE Asks(c)
  BY <1>2 DEF Asks, Shown
<1>3. ASSUME NEW work \in Schedules \union {NoWork}, ReadSchedule(c, work) PROVE FALSE
  <2>1. answer'[c].begin = 0 /\ answer'[c].to = 0
    BY <1>3, ScheduleFields DEF Shown
  <2> QED BY <2>1, SlotsAssumption DEF Quarters
<1>4. CASE ReadBookings(c)
  <2>1. /\ answer[c].mode = "day" /\ answer'[c].mode = "day" /\ dayRows' = dayRows
        /\ answer'[c].begin = answer[c].begin /\ answer'[c].to = answer[c].to
        /\ answer'[c].seen = UNION {FirstAt(q, Step) : q \in Quarters(answer[c].from, answer[c].to)}
        /\ unseen'[c] = LookedOver(answer'[c])
    BY <1>4, ShowFields
  <2>2. answer[c].from = answer[c].begin
    BY <1>4, <2>1, ShowFields DEF AskedInv
  <2>3. dayRows[b].start \in Int /\ dayRows[b].stop \in Int /\ t \in Int /\ dayRows[b].start <= t /\ t < dayRows[b].stop
    BY <2>1, RowNumbers
  <2>4. Clash(t, Step, {dayRows[b]})
    BY <2>3, SlotsAssumption DEF Clash
  <2>5. ASSUME NEW r \in ActiveRows, r.start < dayRows[b].start, Clash(t, Step, {r}) PROVE FALSE
    <3>1. PICK i \in Booking : dayRows[i] = r /\ dayRows[i] # NoRow
      BY SlotsActiveRows
    <3>2. Across(i, b)
      BY <2>3, <2>5, <3>1, RowNumbers DEF Across, Clash
    <3> QED BY <2>1, <2>5, <3>1, <3>2 DEF LookedOver
  <2>6. b \in FirstAt(t, Step)
    BY <2>1, <2>4, <2>5 DEF FirstAt
  <2> QED BY <2>1, <2>2, <2>6
<1> QED BY <1>1, <1>2, <1>3, <1>4, SlotsAnswerStep

-----------------------------------------------------------------------------
\* A booking made at a compact slot leaves no gap.
LEMMA TightLeavesNoGap ==
  ASSUME SlotsTypeOK, RowsInv, CompactInv, NoGaps, NEW b \in Booking, NEW n \in DayRow, Tight(b, n), n.start < n.stop,
         dayRows' = [dayRows EXCEPT ![b] = n], NEW r \in ActiveRows'
  PROVE  (\A q \in ActiveRows' : q.start >= r.start) \/ (\E q \in ActiveRows' : q.stop = r.start)
<1>1. ActiveRows' = ActiveRows \union {n}
  <2>1. ActiveRows' \subseteq ActiveRows \union {n}
    BY DEF ActiveRows, SlotsTypeOK
  <2>2. ActiveRows \union {n} \subseteq ActiveRows'
    BY SlotsAssumption DEF ActiveRows, SlotsTypeOK, Tight
  <2> QED BY <2>1, <2>2
<1>2. \A q \in ActiveRows : q.start \in Int /\ q.stop \in Int /\ q.start < q.stop
  BY SlotsActiveRows, RowNumbers DEF RowsInv
<1>3. n.start \in Int /\ n.stop \in Int /\ n.start < n.stop
  BY SlotsAssumption DEF DayRow
<1>4. PICK c \in Client :
       /\ Shown(c) /\ answer[c].mode = "compact" /\ c \notin stale
       /\ answer[c].full => ActiveRows = {}
       /\ n.start \in answer[c].slots /\ n.stop = n.start + answer[c].window
       /\ ~Clash(n.start, answer[c].window, ActiveRows)
  BY DEF Tight
<1>5. PICK w \in Int : w = answer[c].window /\ n.stop = n.start + w
  BY <1>4, AnswerType DEF Shown
<1>6. \A q \in ActiveRows : n.start >= q.stop \/ n.stop <= q.start
  BY <1>2, <1>3, <1>4, <1>5 DEF Clash
<1>7. CASE ActiveRows = {}
  BY <1>1, <1>3, <1>7
<1>8. CASE ActiveRows # {}
  <2>1. PICK x \in ActiveRows : n.stop = x.start \/ n.start = x.stop
    <3>1. n.start \in Beside(answer[c].window, ActiveRows)
      BY <1>4, <1>8 DEF CompactInv
    <3>2. PICK x \in ActiveRows : n.start = x.start - w \/ n.start = x.stop
      BY <1>5, <3>1 DEF Beside
    <3> QED BY <1>2, <1>3, <1>5, <3>2
  <2>2. \A y \in ActiveRows : (\A q \in ActiveRows : q.start >= y.start) \/ (\E q \in ActiveRows : q.stop = y.start)
    BY DEF NoGaps, Tight
  <2>3. CASE n.start = x.stop
    <3>1. CASE r = n
      BY <1>1, <2>3, <3>1
    <3>2. CASE r \in ActiveRows
      BY <1>1, <1>2, <1>3, <2>1, <2>2, <2>3, <3>2
    <3> QED BY <1>1, <3>1, <3>2
  <2>4. CASE n.stop = x.start
    <3>1. \A q \in ActiveRows : q.start >= x.start
      BY <1>2, <1>3, <1>6, <2>2, <2>4
    <3>2. CASE r = n
      BY <1>1, <1>2, <1>3, <2>4, <3>1, <3>2
    <3>3. CASE r \in ActiveRows
      <4>1. CASE r.start = x.start
        BY <1>1, <2>4, <4>1
      <4>2. CASE r.start # x.start
        BY <1>1, <1>2, <2>2, <3>1, <3>3, <4>2
      <4> QED BY <4>1, <4>2
    <3> QED BY <1>1, <3>2, <3>3
  <2> QED BY <2>1, <2>3, <2>4
<1> QED BY <1>7, <1>8

\* A compact day stays without gaps.
LEMMA GapsStep == SlotsTypeOK /\ RowsInv /\ CompactInv /\ NoGaps /\ [SlotsNext]_slotsVars => NoGaps'
<1> SUFFICES ASSUME SlotsTypeOK, RowsInv, CompactInv, NoGaps, [SlotsNext]_slotsVars, ~loose', NEW r \in ActiveRows'
             PROVE  (\A q \in ActiveRows' : q.start >= r.start) \/ (\E q \in ActiveRows' : q.stop = r.start)
  BY DEF NoGaps
<1>1. CASE Kept
  <2>1. PICK b \in Booking : dayRows'[b] = r /\ dayRows[b] # NoRow /\ dayRows[b].start = r.start
    BY <1>1 DEF Kept, ActiveRows
  <2>2. (\A q \in ActiveRows : q.start >= r.start) \/ (\E q \in ActiveRows : q.stop = r.start)
    BY <1>1, <2>1 DEF NoGaps, Kept, ActiveRows
  <2>3. CASE \A q \in ActiveRows : q.start >= r.start
    BY <1>1, <2>3 DEF Kept, ActiveRows
  <2>4. CASE \E q \in ActiveRows : q.stop = r.start
    BY <1>1, <2>4 DEF Kept, ActiveRows
  <2> QED BY <2>2, <2>3, <2>4
<1>2. CASE Changes
  <2>1. PICK b \in Booking, n \in DayRow \union {NoRow} : Becomes(b, n)
    BY <1>2 DEF Changes
  <2>2. CASE \A i \in Booking : dayRows'[i] = NoRow
    BY <2>2 DEF ActiveRows
  <2>3. CASE Tight(b, n) /\ n # NoRow
    <3>1. n \in DayRow /\ n.start < n.stop /\ dayRows' = [dayRows EXCEPT ![b] = n]
      BY <2>1, <2>3 DEF Becomes
    <3> QED BY <2>3, <3>1, TightLeavesNoGap
  <2>4. CASE Tight(b, n) /\ n = NoRow
    <3>1. dayRows' = dayRows /\ ~loose
      BY <2>1, <2>4 DEF Becomes, Tight, SlotsTypeOK
    <3>2. ActiveRows' = ActiveRows
      BY <3>1 DEF ActiveRows
    <3> QED BY <3>1, <3>2 DEF NoGaps
  <2> QED BY <2>1, <2>2, <2>3, <2>4 DEF Becomes
<1> QED BY <1>1, <1>2, RowsStep

-----------------------------------------------------------------------------
\* The invariant holds at the start.
LEMMA SlotsIInvInit == SlotsInit => SlotsIInv
BY DEF SlotsInit, SlotsIInv, RowsInv, AskedInv, CompactInv, OffersAreBookable, NoGaps,
   SlotsKeepHours, BarberSeesBookings,
       Shown, ActiveRows

\* The invariant of the free slots, of which their promises are a part.
THEOREM SlotsCorrect == SlotsSpec => [](SlotsTypeOK /\ SlotsIInv)
<1>1. SlotsInit => SlotsTypeOK /\ SlotsIInv
  BY SlotsTypeInit, SlotsIInvInit
<1>2. (SlotsTypeOK /\ SlotsIInv) /\ [SlotsNext]_slotsVars => (SlotsTypeOK /\ SlotsIInv)'
  BY SlotsTypeStep, RowsInvStep, AskedStep, CompactStep, OffersStep, GapsStep, HoursStep,
     BarberStep DEF SlotsIInv
<1> QED BY <1>1, <1>2, PTL DEF SlotsSpec

\* services.go:392-437 and :498-545.  For any hours, lengths and step, any number of
\* clients and bookings: a slot that is shown clashes only with what came later or was
\* looked over.
THEOREM SlotsAreFree == SlotsSpec => []OffersAreBookable
<1>1. SlotsIInv => OffersAreBookable
  BY DEF SlotsIInv
<1> QED BY <1>1, SlotsCorrect, PTL

\* services.go:456-459 and :516-546.  Compact slots never leave a gap between bookings.
THEOREM DaysStayCompact == SlotsSpec => []NoGaps
<1>1. SlotsIInv => NoGaps
  BY DEF SlotsIInv
<1> QED BY <1>1, SlotsCorrect, PTL

\* services.go:382-414, :488 and :531.  Slots keep the hours of the barber, whatever the
\* notice and wherever the hours begin.
THEOREM HoursAreKept == SlotsSpec => []SlotsKeepHours
<1>1. SlotsIInv => SlotsKeepHours
  BY DEF SlotsIInv
<1> QED BY <1>1, SlotsCorrect, PTL

\* services.go:267 and :412-450.  The barber sees every booking at its quarters, but for
\* one that lies across an earlier one.
THEOREM BookingsAreSeen == SlotsSpec => []BarberSeesBookings
<1>1. SlotsIInv => BarberSeesBookings
  BY DEF SlotsIInv
<1> QED BY <1>1, SlotsCorrect, PTL

=============================================================================
