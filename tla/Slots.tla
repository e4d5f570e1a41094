-------------------------------- MODULE Slots --------------------------------
(***************************************************************************)
(* The slots of one barber on one UTC day (GetSlots, GetFreeSlots,         *)
(* buildSlots and buildCompactSlots of booking/internal/services) and what *)
(* clients and the barber do while an answer is out.  The service reads    *)
(* the setting, the schedule and the bookings one after the other; the     *)
(* client books later, and CreateBooking looks at the day again.           *)
(*                                                                         *)
(* Times are in units of which Step make the quarter hour of the grid; the *)
(* day begins at 0.  A create is one step here: BookingRepo has its races. *)
(***************************************************************************)
EXTENDS Bookings, Integers, FiniteSets

CONSTANTS
  Client,     \* those who ask for slots: clients, and the barber for his day
  Windows,    \* lengths of the services
  Schedules,  \* what the barber may work that day: from, to
  Step,       \* barberSlotStep
  Ahead,      \* three hours: the notice a booking of today needs
  Moments,    \* bound: the instants at which something happens; -1 is the day before
  DayEnd,     \* the end of the day
  NoWork,     \* the barber does not work that day
  NoAnswer    \* a client that has asked for nothing

\* An active booking; the others have no row here.
DayRow == [start : 0..DayEnd, stop : 0..DayEnd, status : {"pending", "completed"}]
\* day: GetSlots; grid and compact: GetFreeSlots without and with the compact mode.
Modes == {"day", "grid", "compact"}
Answer == [stage : {"schedule", "bookings", "shown"}, mode : Modes, window : Windows \union {Step},
           today : BOOLEAN, at : Moments, begin : 0..DayEnd, from : Nat, to : 0..DayEnd,
           full : BOOLEAN, slots : SUBSET (0..DayEnd), seen : SUBSET Booking]

ASSUME SlotsAssumption ==
  /\ Windows \subseteq Nat \ {0}
  /\ Schedules \subseteq [from : 0..DayEnd, to : 0..DayEnd]
  /\ \A s \in Schedules : s.from < s.to
  /\ Step \in Nat \ {0} /\ Ahead \in Nat /\ DayEnd \in Nat
  /\ -1 \in Moments /\ Moments \subseteq -1..DayEnd
  /\ NoRow \notin DayRow /\ NoWork \notin Schedules /\ NoAnswer \notin Answer

VARIABLES
  dayRows,  \* the bookings of the day that are neither cancelled nor no_show
  now,      \* the clock: before 0 the day is still to come
  compact,  \* the setting compact_slots_enabled
  answer,   \* [Client -> Answer \union {NoAnswer}]: a request, later its slots
  unseen,   \* history: [Client -> bookings its slots do not account for]: those that were
            \* looked over, and those that became active, or moved, since
  stale,    \* history: the clients whose slots were made from other bookings than these
  loose     \* history: some booking was not made from compact slots of the day as it was

slotsVars == <<dayRows, now, compact, answer, unseen, stale, loose>>

-----------------------------------------------------------------------------
(* The two builders. *)

ActiveRows == {dayRows[b] : b \in {i \in Booking : dayRows[i] # NoRow}}
PendingRows == {r \in ActiveRows : r.status = "pending"}

Clash(t, w, bs) == \E r \in bs : t < r.stop /\ t + w > r.start

RoundUp(t) == IF t % Step = 0 THEN t ELSE (t + Step) - ((t + Step) % Step)

Today == now \in 0..(DayEnd - 1)

\* The loop over t from workStart, two steps at a time, while the window fits.
Grid(from, to, w) == {t \in from..to : (t - from) % (2 * Step) = 0 /\ t + w <= to}

\* The same for the barber, a step at a time.
Quarters(from, to) == {t \in from..to : (t - from) % Step = 0 /\ t + Step <= to}

\* buildSlots with onlyFree.
FreeSlots(from, to, w, bs) == {t \in Grid(from, to, w) : ~Clash(t, w, bs)}

\* Mutant of FirstAt: the search goes on, and the last one stays.
LastAt(t, w) == {b \in Booking : dayRows[b] # NoRow /\ Clash(t, w, {dayRows[b]}) /\
                   ~\E r \in ActiveRows : r.start > dayRows[b].start /\ Clash(t, w, {r})}

\* The booking a slot of the barber holds: the first one in its way.
FirstAt(t, w) == {b \in Booking : dayRows[b] # NoRow /\ Clash(t, w, {dayRows[b]}) /\
                    ~\E r \in ActiveRows : r.start < dayRows[b].start /\ Clash(t, w, {r})}

\* No booking is in the way of the grid.
Unhindered(from, today, bs) ==
  \/ bs = {}
  \/ today /\ \E r \in bs : (\A q \in bs : q.start <= r.start) /\ r.stop < from

\* Mutant of Beside: a step is left free after a booking.
BesideWithPause(w, bs) == {r.start - w : r \in bs} \union {r.stop + Step : r \in bs}

\* The times that adjoin a booking.
Beside(w, bs) == {r.start - w : r \in bs} \union {r.stop : r \in bs}

\* Mutant of CompactSlots: whether the window fits the hours is not looked at.
CompactSlotsAnywhere(from, to, w, today, bs) ==
  IF Unhindered(from, today, bs)
    THEN Grid(from, to, w)
    ELSE {t \in Beside(w, bs) : ~Clash(t, w, bs)}

\* buildCompactSlots.
CompactSlots(from, to, w, today, bs) ==
  IF Unhindered(from, today, bs)
    THEN Grid(from, to, w)
    ELSE {t \in Beside(w, bs) : from <= t /\ t + w <= to /\ ~Clash(t, w, bs)}

-----------------------------------------------------------------------------
SlotsInit ==
  /\ dayRows = [b \in Booking |-> NoRow]
  /\ now = -1
  /\ compact = FALSE
  /\ answer = [c \in Client |-> NoAnswer]
  /\ unseen = [c \in Client |-> {}]
  /\ stale = {}
  /\ loose = FALSE

\* c asks; nothing is out of what it was shown before.
Ask(c, mode, w) ==
  /\ answer' = [answer EXCEPT ![c] =
       [stage |-> "schedule", mode |-> mode, window |-> w, today |-> FALSE,
        at |-> -1, begin |-> 0, from |-> 0, to |-> 0, full |-> FALSE, slots |-> {}, seen |-> {}]]
  /\ unseen' = [unseen EXCEPT ![c] = {}]
  /\ stale' = stale \ {c}
  /\ UNCHANGED <<dayRows, now, compact, loose>>

ModeOfClients == IF compact THEN "compact" ELSE "grid"

\* GetFreeSlots: the service's length, then whether the compact mode is on.
GetFreeSlots(c, w) == Ask(c, ModeOfClients, w)

\* GetSlots: the barber's day, in quarters of an hour.
GetSlots(c) == Ask(c, "day", Step)

\* The setting, for all requests that read it from now on.
SetCompactSlots(enabled) ==
  /\ compact' = enabled
  /\ UNCHANGED <<dayRows, now, answer, unseen, stale, loose>>

\* A client's today.
Soon(mode) == Today /\ mode # "day"

\* The start of work: for a client's today it is three hours from now, whenever the
\* barber begins.
StartOfWork(mode, work) == IF Soon(mode) THEN RoundUp(now + Ahead) ELSE work.from

\* GetSchedule: the hours of the day, if it is a working day.
ReadSchedule(c, work) ==
  /\ answer[c] # NoAnswer /\ answer[c].stage = "schedule"
  /\ LET a == answer[c] IN
       answer' = [answer EXCEPT ![c] =
         IF work = NoWork
           THEN [a EXCEPT !.stage = "shown"]
           ELSE [a EXCEPT !.stage = "bookings", !.today = Soon(a.mode), !.at = now,
                          !.begin = work.from, !.to = work.to,
                          !.from = StartOfWork(a.mode, work)]]
  /\ UNCHANGED <<dayRows, now, compact, unseen, stale, loose>>

\* The answer made from the bookings that count for the client's two modes; the
\* barber is told of each quarter who holds it.
Show(c, forCompact, forGrid) ==
  LET a == answer[c]
      quarters == Quarters(a.from, a.to)
  IN  [a EXCEPT !.stage = "shown",
                !.full = a.mode = "compact" /\ Unhindered(a.from, a.today, forCompact),
                !.slots =
                  CASE a.mode = "compact" -> CompactSlots(a.from, a.to, a.window, a.today, forCompact)
                    [] a.mode = "grid" -> FreeSlots(a.from, a.to, a.window, forGrid)
                    [] OTHER -> {t \in quarters : ~Clash(t, Step, ActiveRows)},
                !.seen = IF a.mode = "day" THEN UNION {FirstAt(t, Step) : t \in quarters} ELSE {}]

\* i lies across b.
Across(i, b) ==
  i # b /\ dayRows[i] # NoRow /\ dayRows[i].start < dayRows[b].stop /\ dayRows[b].start < dayRows[i].stop

\* The bookings that the answer a does not account for: the normal grid looks over
\* the completed ones; before the full compact grid of today only the booking that
\* starts last is looked at, so that one it overlaps may end later; a quarter of the
\* barber's holds only the first booking in its way.
LookedOver(a) ==
  {b \in Booking : dayRows[b] # NoRow /\
     CASE a.mode = "compact" -> a.full /\ \E i \in Booking : Across(i, b)
       [] a.mode = "grid" -> dayRows[b].status = "completed"
       [] OTHER -> \E i \in Booking : Across(i, b) /\ dayRows[i].start < dayRows[b].start}

\* Mutant of ReadBookings: the compact grid is made from the pending bookings too.
ReadBookingsPending(c) ==
  /\ answer[c] # NoAnswer /\ answer[c].stage = "bookings"
  /\ answer' = [answer EXCEPT ![c] = Show(c, PendingRows, PendingRows)]
  /\ unseen' = [unseen EXCEPT ![c] = LookedOver(answer'[c])]
  /\ UNCHANGED <<dayRows, now, compact, stale, loose>>

\* The bookings of the day and the slots: the compact grid is made from all that
\* count, the normal one from the pending bookings.
ReadBookings(c) ==
  /\ answer[c] # NoAnswer /\ answer[c].stage = "bookings"
  /\ answer' = [answer EXCEPT ![c] = Show(c, ActiveRows, PendingRows)]
  /\ unseen' = [unseen EXCEPT ![c] = LookedOver(answer'[c])]
  /\ UNCHANGED <<dayRows, now, compact, stale, loose>>

Shown(c) == answer[c] # NoAnswer /\ answer[c].stage = "shown"

-----------------------------------------------------------------------------
(* The day changes while answers are out. *)

\* b becomes r, which may be NoRow; tight says that the change keeps the day compact.
Become(b, r, tight) ==
  /\ dayRows' = [dayRows EXCEPT ![b] = r]
  /\ unseen' = [c \in Client |-> IF Shown(c) /\ r # NoRow THEN unseen[c] \union {b}
                                                           ELSE unseen[c]]
  /\ stale' = stale \union {c \in Client : Shown(c)}
  /\ loose' = ((loose \/ ~tight) /\ \E i \in Booking : dayRows'[i] # NoRow)
  /\ UNCHANGED <<now, compact>>

\* CreateBooking takes any time to come that clashes with no active booking.
\* Bound: no booking crosses midnight.
Bookable(t, w) == now < t /\ t + w <= DayEnd /\ ~Clash(t, w, ActiveRows)

\* c books one of its slots.
Book(c, b, t) ==
  /\ Shown(c) /\ answer[c].mode # "day" /\ t \in answer[c].slots
  /\ dayRows[b] = NoRow
  /\ Bookable(t, answer[c].window)
  /\ LET a == answer[c] IN
       Become(b, [start |-> t, stop |-> t + a.window, status |-> "pending"],
              a.mode = "compact" /\ c \notin stale /\ (a.full => ActiveRows = {}))
  /\ UNCHANGED answer

\* Somebody books, or moves a booking to, a time of his own choice.
BookElsewhere(b, t, w) ==
  /\ ~Clash(t, w, ActiveRows \ {dayRows[b]})
  /\ t + w <= DayEnd
  /\ dayRows[b] = NoRow => now < t
  /\ Become(b, [start |-> t, stop |-> t + w,
                status |-> IF dayRows[b] = NoRow THEN "pending" ELSE dayRows[b].status], FALSE)
  /\ UNCHANGED answer

\* A cancelled booking is given its status back, whatever is at its place by now,
\* unless another one starts at the same time.
Reactivate(b, t, w) ==
  /\ dayRows[b] = NoRow /\ t + w <= DayEnd
  /\ \A r \in ActiveRows : r.start # t
  /\ Become(b, [start |-> t, stop |-> t + w, status |-> "pending"], FALSE)
  /\ UNCHANGED answer

\* Completed, or pending again.
Complete(b, s) ==
  /\ dayRows[b] # NoRow
  /\ dayRows' = [dayRows EXCEPT ![b].status = s]
  /\ UNCHANGED <<now, compact, answer, unseen, stale, loose>>

\* Cancelled, no_show or deleted: no query of this module reads it any more.
Release(b) ==
  /\ dayRows[b] # NoRow
  /\ Become(b, NoRow, FALSE)
  /\ UNCHANGED answer

Later ==
  /\ \E m \in Moments : m > now /\ now' = m
  /\ UNCHANGED <<dayRows, compact, answer, unseen, stale, loose>>

\* The schedule is whatever the barber has made it by then.
SlotsNext ==
  \/ \E c \in Client, w \in Windows : GetFreeSlots(c, w)
  \/ \E c \in Client : GetSlots(c)
  \/ \E enabled \in BOOLEAN : SetCompactSlots(enabled)
  \/ \E c \in Client, work \in Schedules \union {NoWork} : ReadSchedule(c, work)
  \/ \E c \in Client : ReadBookings(c)
  \/ \E c \in Client, b \in Booking, t \in 0..DayEnd : Book(c, b, t)
  \/ \E b \in Booking, t \in 0..DayEnd, w \in Windows : BookElsewhere(b, t, w) \/ Reactivate(b, t, w)
  \/ \E b \in Booking : Release(b) \/ \E s \in {"pending", "completed"} : Complete(b, s)
  \/ Later

SlotsSpec == SlotsInit /\ [][SlotsNext]_slotsVars

-----------------------------------------------------------------------------
SlotsTypeOK ==
  /\ dayRows \in [Booking -> DayRow \union {NoRow}]
  /\ now \in Moments
  /\ compact \in BOOLEAN
  /\ answer \in [Client -> Answer \union {NoAnswer}]
  /\ unseen \in [Client -> SUBSET Booking]
  /\ stale \subseteq Client
  /\ loose \in BOOLEAN

\* services.go:392-437 and :498-545.  A slot that is shown clashes with an active
\* booking only if that booking came, or moved, after the bookings were read, or if
\* it was looked over then, being completed or overlapped: what CreateBooking refuses
\* of an answer is due to nothing else.
OffersAreBookable ==
  \A c \in Client : Shown(c) =>
    \A t \in answer[c].slots : \A b \in Booking :
      dayRows[b] # NoRow /\ Clash(t, answer[c].window, {dayRows[b]}) => b \in unseen[c]

\* services.go:456-459 and :516-546.  The compact mode does what it is for: as long as
\* every booking is made from compact slots of the day as it was, the bookings follow
\* one another without a gap, whatever the lengths of the services.
NoGaps ==
  ~loose => \A r \in ActiveRows : \/ \A q \in ActiveRows : q.start >= r.start
                                  \/ \E q \in ActiveRows : q.stop = r.start

\* services.go:382-414, :488 and :531.  A slot of a client ends before the barber's
\* work does.  It begins after he does, except for today, when it begins three hours
\* from the answer instead, so that it is still to come as long as the client thinks
\* it over for less than that.
SlotsKeepHours ==
  \A c \in Client : Shown(c) /\ answer[c].mode # "day" =>
    LET a == answer[c] IN \A t \in a.slots :
      /\ t + a.window <= a.to
      /\ a.today \/ a.begin <= t
      /\ a.today => a.at + Ahead <= t

\* services.go:267 and :412-450.  The barber is told of every booking that is on when
\* a quarter of his hours begins, but for one that lies across an earlier booking: a
\* booking that ends, or one that begins, within the quarter does not hide it.
BarberSeesBookings ==
  \A c \in Client : Shown(c) /\ answer[c].mode = "day" =>
    LET a == answer[c] IN \A b \in Booking \ unseen[c] :
      dayRows[b] # NoRow /\ (\E t \in Quarters(a.begin, a.to) : t \in dayRows[b].start..(dayRows[b].stop - 1))
        => b \in a.seen

=============================================================================
