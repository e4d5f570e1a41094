-------------------------------- MODULE Catalog --------------------------------
(***************************************************************************)
(* The services a barber offers (services/staff) and the bookings made of  *)
(* them (services/booking): a client looks at the list, then at the free   *)
(* slots for a service, and books; booking asks staff again each time and  *)
(* copies what the service is called, costs and takes.  Meanwhile barbers  *)
(* create, change and delete services, and somebody leafs through a list   *)
(* page by page: of services, of barbers, or of the past bookings of a     *)
(* client, whose bookings all of them are.                                 *)
(*                                                                         *)
(* Each request to staff is one SQL statement.  The times and the races of *)
(* the bookings are in BookingRepo: here a booking is what was copied.     *)
(***************************************************************************)
EXTENDS Bookings, Integers, Sequences, FiniteSets, SequencesExt

CONSTANTS
  Barber,      \* the rows of barbers, which no code writes
  Active,      \* those that are active
  BarberRank, NameRank,  \* the order of the names of barbers and of services
  NameLength,  \* how long the name of a service is
  Service,     \* service ids
  Body,        \* what the barbers' pages send: name, price, minutes and active
  StartRank,   \* their order by start.  Bound: a changed booking keeps its start
  Request,
  Limits,      \* page lengths that are asked for
  MaxLimit,    \* the most a page may hold: 1000
  PastDefault, PastMax,  \* the same of past bookings: 20 and 100
  MaxChanges,  \* bound: changes of services
  Idle,        \* a request that is not in progress
  NoWalk       \* nobody leafs through a list

VARIABLES
  services,  \* [Service -> rows \union {NoRow}]
  bookings,  \* [Booking -> copies of terms \union {NoRow}]
  req,       \* [Request -> a client or a barber about to book \union {Idle}]
  walk,      \* a reader of pages
  changes    \* how many changes of services there were

vars == <<services, bookings, req, walk, changes>>

Terms(row) == [name |-> row.name, price |-> row.price, minutes |-> row.minutes]

\* Tables are finite, and the ranks number what they order: of the names and the starts
\* that are ever stored, finitely many, in the order of the database.
ASSUME CatalogAssumption ==
  /\ Active \subseteq Barber
  /\ \A b \in Body : /\ DOMAIN b = {"name", "price", "minutes", "active"}
                     /\ b.name \in DOMAIN NameLength \intersect DOMAIN NameRank
  /\ MaxLimit \in Nat \ {0} /\ PastMax \in Nat /\ PastDefault \in 1..PastMax
  /\ MaxChanges \in Nat /\ Limits \subseteq Nat
  /\ IsFiniteSet(Barber) /\ IsFiniteSet(Service) /\ IsFiniteSet(Booking)
  /\ \A k \in Active : BarberRank[k] \in Int
  /\ \A b \in Body : NameRank[b.name] \in Int
  /\ \A b \in Booking : StartRank[b] \in Int

-----------------------------------------------------------------------------
(* staff: the lists. *)

\* The services of k, all or the active ones.
Listed(k, all) ==
  {s \in Service : services[s] # NoRow /\ services[s].barber = k /\ (all \/ services[s].active)}

\* By name.
NameRanks(S) == [s \in S |-> NameRank[services[s].name]]

\* ORDER BY: equal names in any order, and each time anew.
Ordered(S, rank) ==
  {q \in SetToSeqs(S) : \A i, j \in DOMAIN q : i < j => rank[q[i]] <= rank[q[j]]}

\* LIMIT OFFSET of a list; without a limit the offset counts for nothing.
Page(list, limit, offset) ==
  IF limit = 0 THEN list
  ELSE SubSeq(list, offset + 1, IF offset + limit < Len(list) THEN offset + limit ELSE Len(list))

\* A list whose total comes with the rows: a page past the end says 0.
Counted(list, limit, offset) ==
  LET page == Page(list, limit, offset) IN
    [page |-> page, total |-> IF page = <<>> THEN 0 ELSE Len(list)]

\* Mutant of ListServices: a page begins with the row that ended the one before.
ListServicesTwice(k, all, limit, offset) ==
  {[Counted(list, limit, offset) EXCEPT !.page = Page(list, limit, IF offset > 0 THEN offset - 1 ELSE 0)]
   : list \in Ordered(Listed(k, all), NameRanks(Listed(k, all)))}

ListServices(k, all, limit, offset) ==
  {Counted(list, limit, offset)
   : list \in Ordered(Listed(k, all), NameRanks(Listed(k, all)))}

\* The active barbers, each with the active services of his; the total is asked apart.
ListBarbersPage(limit, offset) ==
  {[page |-> [i \in 1..Len(Page(list, limit, offset)) |->
                LET k == Page(list, limit, offset)[i] IN <<k, Listed(k, FALSE)>>],
    total |-> Cardinality(Active)]
   : list \in Ordered(Active, BarberRank)}

ListAllBarbers ==
  {[page |-> [i \in 1..Len(list) |-> <<list[i], Listed(list[i], FALSE)>>], total |-> Len(list)]
   : list \in Ordered(Active, BarberRank)}

ListBarbers(limit, offset) == IF limit > 0 THEN ListBarbersPage(limit, offset) ELSE ListAllBarbers

\* booking: what became of a client's bookings at k, the latest first.
Past(k) == {b \in Booking : bookings[b] # NoRow /\ bookings[b].barber = k /\ bookings[b].past}

\* The booking service, too, has a default and a most.
Few(limit) == IF limit <= 0 THEN PastDefault ELSE IF limit > PastMax THEN PastMax ELSE limit

GetClientBookings(k, limit, offset) ==
  {Counted(list, Few(limit), offset) : list \in Ordered(Past(k), [b \in Booking |-> -StartRank[b]])}

\* GetService answers an inactive service too.
GetService(s, k) == IF services[s] # NoRow /\ services[s].barber = k THEN services[s] ELSE NoRow

\* GetBarber answers an inactive barber too.
GetBarber(k) == k \in Barber

-----------------------------------------------------------------------------
(* staff: the changes. *)

Init ==
  /\ services = [s \in Service |-> NoRow]
  /\ bookings = [b \in Booking |-> NoRow]
  /\ req = [r \in Request |-> Idle]
  /\ walk = NoWalk
  /\ changes = 0

\* What changes for those who are about to book s, and for the reader of pages.
Write(s, row) ==
  /\ changes < MaxChanges
  /\ changes' = changes + 1
  /\ services' = [services EXCEPT ![s] = row]
  /\ req' = [r \in Request |->
       IF req[r] # Idle /\ req[r].service = s
         THEN [req[r] EXCEPT !.during = @ \union {row}, !.touched = TRUE] ELSE req[r]]
  /\ walk' = IF walk = NoWalk THEN NoWalk ELSE [walk EXCEPT !.clean = FALSE]
  /\ UNCHANGED bookings

\* INSERT: is_active by default.
InsertService(s, k, body) ==
  /\ services[s] = NoRow
  /\ Write(s, [barber |-> k, name |-> body.name, price |-> body.price,
               minutes |-> body.minutes, active |-> TRUE])

\* UPDATE ... WHERE id AND barber_id; no row is NotFound.
UpdateRow(s, k, body) ==
  /\ services[s] # NoRow /\ services[s].barber = k
  /\ Write(s, [barber |-> k, name |-> body.name, price |-> body.price,
               minutes |-> body.minutes, active |-> body.active])

\* UPDATE ... SET is_active = false WHERE id AND barber_id.
Deactivate(s, k) ==
  /\ services[s] # NoRow /\ services[s].barber = k
  /\ Write(s, [services[s] EXCEPT !.active = FALSE])

\* What the staff service asks of a service.
IsValid(body) ==
  /\ NameLength[body.name] >= 2 /\ body.price >= 0
  /\ body.minutes > 0 /\ body.minutes % 15 = 0

CreateService(s, k, body) == IsValid(body) /\ InsertService(s, k, body)
UpdateService(s, k, body) == IsValid(body) /\ UpdateRow(s, k, body)
DeleteService(s, k) == Deactivate(s, k)

\* What the gateway asks of it before.
IsAccepted(body) ==
  /\ NameLength[body.name] > 0 /\ body.price >= 0
  /\ body.minutes > 0 /\ body.minutes % 15 = 0

PostService(s, k, body) == IsAccepted(body) /\ CreateService(s, k, body)
PutService(s, k, body) == IsAccepted(body) /\ UpdateService(s, k, body)

-----------------------------------------------------------------------------
(* The client's way to a booking. *)

In(r, stage) == req[r] # Idle /\ req[r].stage = stage

\* Bound: who books and who leafs through a list, of whom neither looks at what the
\* other does, take turns.
Begins(r) == req[r] = Idle /\ walk = NoWalk

\* The client sees the active services of k and picks s.
ListServicesByBarber(r, k, s) ==
  /\ Begins(r)
  /\ s \in Listed(k, FALSE)
  /\ req' = [req EXCEPT ![r] =
       [stage |-> "listed", barber |-> k, service |-> s, booking |-> NoRow, terms |-> NoRow,
        shown |-> Terms(services[s]), window |-> 0, during |-> {}, touched |-> FALSE]]
  /\ UNCHANGED <<services, bookings, walk, changes>>

\* Mutant of GetSlotsOfService: slots are an hour long, whatever the service.
GetSlotsByHour(r) ==
  /\ In(r, "listed")
  /\ GetService(req[r].service, req[r].barber) # NoRow
  /\ req' = [req EXCEPT ![r].stage = "offered", ![r].window = 60]
  /\ UNCHANGED <<services, bookings, walk, changes>>

\* GetFreeSlots: the free slots are cut to the length of the service: 60 minutes if it says 0.
GetSlotsOfService(r) ==
  /\ In(r, "listed")
  /\ LET svc == GetService(req[r].service, req[r].barber) IN
       /\ svc # NoRow
       /\ req' = [req EXCEPT ![r].stage = "offered",
                             ![r].window = IF svc.minutes = 0 THEN 60 ELSE svc.minutes]
  /\ UNCHANGED <<services, bookings, walk, changes>>

\* CreateBooking: is there such a barber?
PostBooking(r) ==
  /\ In(r, "offered")
  /\ GetBarber(req[r].barber)
  /\ req' = [req EXCEPT ![r].stage = "posted", ![r].during = {services[req[r].service]}]
  /\ UNCHANGED <<services, bookings, walk, changes>>

\* The same from somebody who has seen no list and no slots.
PostBookingUnseen(r, k, s) ==
  /\ Begins(r) /\ GetBarber(k)
  /\ req' = [req EXCEPT ![r] =
       [stage |-> "posted", barber |-> k, service |-> s, booking |-> NoRow, terms |-> NoRow,
        shown |-> NoRow, window |-> 0, during |-> {services[s]}, touched |-> FALSE]]
  /\ UNCHANGED <<services, bookings, walk, changes>>

\* UpdateBookingDetails: the barber finds a booking of his and gives it service s.
PutBooking(r, k, b, s) ==
  /\ Begins(r)
  /\ bookings[b] # NoRow /\ bookings[b].barber = k
  /\ req' = [req EXCEPT ![r] =
       [stage |-> "posted", barber |-> k, service |-> s, booking |-> b, terms |-> NoRow,
        shown |-> NoRow, window |-> 0, during |-> {services[s]}, touched |-> FALSE]]
  /\ UNCHANGED <<services, bookings, walk, changes>>

\* The service is among those that staff lists for the barber.
Offered(r) == req[r].service \in Listed(req[r].barber, FALSE)

\* ListServices, the inactive ones left out.
FindService(r) ==
  /\ In(r, "posted")
  /\ req' = [req EXCEPT ![r] = IF Offered(r)
       THEN [@ EXCEPT !.stage = "priced", !.terms = Terms(services[req[r].service])] ELSE Idle]
  /\ UNCHANGED <<services, bookings, walk, changes>>

\* What is written: the copy, and for the properties, while the request lasts, what it is
\* a copy of.
Copy(r) ==
  [barber |-> req[r].barber, terms |-> req[r].terms,
   past |-> req[r].booking # NoRow /\ bookings[req[r].booking].past,
   made |-> [during |-> req[r].during, shown |-> req[r].shown, window |-> req[r].window,
             touched |-> req[r].touched]]

\* Mutant of SaveBooking: a booking that is changed keeps its old price and length.
SaveBookingInPart(r, b) ==
  /\ In(r, "priced")
  /\ IF req[r].booking = NoRow THEN bookings[b] = NoRow ELSE b = req[r].booking
  /\ bookings' = [bookings EXCEPT ![b] =
       IF @ = NoRow THEN Copy(r) ELSE [Copy(r) EXCEPT !.terms.price = bookings[b].terms.price,
                                                      !.terms.minutes = bookings[b].terms.minutes]]
  /\ req' = [req EXCEPT ![r].stage = "saved", ![r].booking = b]
  /\ UNCHANGED <<services, walk, changes>>

\* The transaction of CreateBooking or UpdateBookingDetails commits.
SaveBooking(r, b) ==
  /\ In(r, "priced")
  /\ IF req[r].booking = NoRow THEN bookings[b] = NoRow ELSE b = req[r].booking
  /\ bookings' = [bookings EXCEPT ![b] = Copy(r)]
  /\ req' = [req EXCEPT ![r].stage = "saved", ![r].booking = b]
  /\ UNCHANGED <<services, walk, changes>>

\* The answer to the request: from now on nobody asks how the booking was made.
AnswerBooking(r) ==
  /\ In(r, "saved")
  /\ bookings' = [bookings EXCEPT ![req[r].booking].made = NoRow]
  /\ req' = [req EXCEPT ![r] = Idle]
  /\ UNCHANGED <<services, walk, changes>>

\* UpdateBookingStatus: the barber says what became of a booking of his; past is
\* completed, cancelled or no_show, and one that is past may come back.
MarkBooking(b, k, past) ==
  /\ bookings[b] # NoRow /\ bookings[b].barber = k /\ bookings[b].past # past
  /\ bookings' = [bookings EXCEPT ![b].past = past]
  /\ walk' = IF walk = NoWalk THEN NoWalk ELSE [walk EXCEPT !.clean = FALSE]
  /\ UNCHANGED <<services, req, changes>>

\* The client leaves, a call fails or the time is taken.
GiveUp(r) ==
  /\ req[r] # Idle /\ ~In(r, "saved")
  /\ req' = [req EXCEPT ![r] = Idle]
  /\ UNCHANGED <<services, bookings, walk, changes>>

-----------------------------------------------------------------------------
(* Somebody leafs through a list. *)

\* parsePagination.  For services and barbers no limit given is limit 0, no limit at all.
Clamp(what, limit) ==
  LET most == IF what = "past" THEN PastMax ELSE MaxLimit
      asked == IF limit > 0 THEN limit ELSE IF what = "past" THEN PastDefault ELSE 0
  IN  IF asked > most THEN most ELSE asked

Walk(what, k, all, limit) ==
  /\ walk = NoWalk /\ \A r \in Request : req[r] = Idle
  /\ walk' = [what |-> what, barber |-> k, all |-> all, limit |-> Clamp(what, limit),
              got |-> <<>>, done |-> FALSE, clean |-> TRUE]
  /\ UNCHANGED <<services, bookings, req, changes>>

\* The page of the list at an offset.
PageAt(offset) ==
  CASE walk.what = "barbers"  -> ListBarbers(walk.limit, offset)
    [] walk.what = "past"     -> GetClientBookings(walk.barber, walk.limit, offset)
    [] walk.what = "services" -> ListServices(walk.barber, walk.all, walk.limit, offset)

\* The next page begins where the last one ended.
Turn ==
  /\ walk # NoWalk /\ ~walk.done
  /\ \E a \in PageAt(Len(walk.got)) :
       walk' = [walk EXCEPT !.got = @ \o a.page,
                            !.done = Len(walk.got) + Len(a.page) >= a.total]
  /\ UNCHANGED <<services, bookings, req, changes>>

Close ==
  /\ walk # NoWalk
  /\ walk' = NoWalk
  /\ UNCHANGED <<services, bookings, req, changes>>

Next ==
  \/ \E s \in Service, k \in Barber :
       \/ \E body \in Body : PostService(s, k, body) \/ PutService(s, k, body)
       \/ DeleteService(s, k)
       \/ \E r \in Request :
            \/ ListServicesByBarber(r, k, s) \/ PostBookingUnseen(r, k, s)
            \/ \E b \in Booking : PutBooking(r, k, b, s)
  \/ \E r \in Request :
       \/ GetSlotsOfService(r) \/ PostBooking(r) \/ FindService(r) \/ AnswerBooking(r) \/ GiveUp(r)
       \/ \E b \in Booking : SaveBooking(r, b)
  \/ \E k \in Barber, all \in BOOLEAN, limit \in Limits : Walk("services", k, all, limit)
  \/ \E what \in {"barbers", "past"}, limit \in Limits, k \in Barber : Walk(what, k, FALSE, limit)
  \/ \E b \in Booking, k \in Barber, past \in BOOLEAN : MarkBooking(b, k, past)
  \/ Turn
  \/ Close

Spec == Init /\ [][Next]_vars

-----------------------------------------------------------------------------
\* services.go:88-117 and :153-187.  What a booking says was on offer by the booking's
\* own barber at some moment between the request and its commit, all of it at once,
\* whatever became of the service before the commit.
BookedAsOffered ==
  \A b \in Booking : bookings[b] # NoRow /\ bookings[b].made # NoRow =>
    \E row \in bookings[b].made.during :
      /\ row # NoRow /\ row.active /\ row.barber = bookings[b].barber
      /\ Terms(row) = bookings[b].terms

\* public.go:49-168, services.go:275-283.  A client who was shown a service and slots for
\* it gets them: unless the service was changed since it was shown, the booking has the
\* price that was shown and is as long as the slot.
BookedAsShown ==
  \A b \in Booking : bookings[b] # NoRow /\ bookings[b].made # NoRow =>
    LET made == bookings[b].made IN
      made.shown # NoRow /\ ~made.touched =>
        bookings[b].terms = made.shown /\ bookings[b].terms.minutes = made.window

Unambiguous(S, rank) == \A x, y \in S : rank[x] = rank[y] => x = y

\* repository.go:62-220 of staff, repo.go:261-295 of booking.  Pages are whole: who leafs
\* through a list that nobody changes meanwhile sees each row once, and all there are, if
\* no two have the same name or, of a client's bookings, the same start.
PagesAreWhole ==
  walk # NoWalk /\ walk.done /\ walk.clean =>
    LET rows == CASE walk.what = "barbers"  -> {<<k, Listed(k, FALSE)>> : k \in Active}
                  [] walk.what = "past"     -> Past(walk.barber)
                  [] walk.what = "services" -> Listed(walk.barber, walk.all)
        clear == CASE walk.what = "barbers"  -> Unambiguous(Active, BarberRank)
                   [] walk.what = "past"     -> Unambiguous(rows, StartRank)
                   [] walk.what = "services" -> Unambiguous(rows, NameRanks(rows))
    IN  clear => ToSet(walk.got) = rows /\ Len(walk.got) = Cardinality(rows)

=============================================================================
