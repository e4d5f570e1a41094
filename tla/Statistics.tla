------------------------------ MODULE Statistics ------------------------------
(***************************************************************************)
(* The statistics of a barber (GetBarberStats of services/analytics) from  *)
(* the tables that AnalyticsConsumer fills, one row for each event.        *)
(*                                                                         *)
(* An answer is made of five statements, one after the other; rows go on   *)
(* arriving, and the server merges stored rows of one month when it likes. *)
(* FINAL leaves of each key the row with the greatest second, but only     *)
(* among the rows that are read, and the parts of the table that hold no   *)
(* row of the asked days need not be read.                                 *)
(***************************************************************************)
EXTENDS Calendar, FiniteSets, Sequences, Functions

CONSTANTS
  BookingFact,     \* what the rows of bookings may say
  HoursFact,       \* what the rows of schedule_hours may say
  Barber,          \* the barbers who ask
  Price, Length,   \* [services -> Nat]: what a service costs and how long it takes
  TopLimit,        \* how many services GetTopServices returns: 10
  Paging,          \* bound: [limit, offset] of the days
  Custom,          \* bound: periods chosen by date
  FirstDays,       \* the days from which the calendar is followed
  Opening, Closing,      \* bound: the first day anything is inserted or asked; the last
  MaxRows, MaxHours,     \* bound: rows inserted into the two tables
  NoAnswer         \* nobody has asked

AllTime == [from |-> 0, to |-> 0]   \* from = "": the queries have no filter by date

ASSUME StatisticsAssumption ==
  /\ \A f \in BookingFact :
       /\ {"key", "barber", "service", "status", "day", "at"} = DOMAIN f
       /\ f.status \in {"pending", "completed", "cancelled", "no_show"}
       /\ f.at \in Nat /\ f.day \in Int /\ Price[f.service] \in Int
  /\ \A f \in HoursFact :
       /\ {"key", "barber", "minutes", "deleted", "day", "at"} = DOMAIN f
       /\ f.at \in Nat /\ f.day \in Int /\ f.minutes \in Int
  \* The id of a working day keeps its date: ON CONFLICT (barber_id, date) of staff.
  /\ \A f, g \in HoursFact : f.key = g.key => f.day = g.day
  /\ TopLimit \in Nat \ {0} /\ MaxRows \in Nat /\ MaxHours \in Nat
  /\ \A paging \in Paging : paging.limit \in Nat /\ paging.offset \in Nat
  /\ FirstDays \subseteq Nat \ {0} /\ Opening \in Nat /\ Closing \in Nat
  /\ AllTime \notin Custom

VARIABLES
  today,     \* the date
  bookings,  \* the stored rows [fact, seq]: seq is the order of the inserts
  hours,     \* the same for schedule_hours
  stored,    \* how many rows were inserted
  answer,    \* the request in progress, later its response
  history    \* of the answer: [sure, doubtful: rows, undisturbed: no insert since]

statsVars == <<today, bookings, hours, stored, answer, history>>

-----------------------------------------------------------------------------
(* ClickHouse. *)

Newer(r, s) == r.fact.at > s.fact.at \/ (r.fact.at = s.fact.at /\ r.seq > s.seq)

Newest(r, t) == \A s \in t : s.fact.key = r.fact.key => s = r \/ Newer(r, s)

\* Mutant of Final: the query does without FINAL.
FinalOfAll(t) == t

\* FINAL.
Final(t) == {r \in t : Newest(r, t)}

\* dateFilter: BETWEEN.
InPeriod(r, p) == p = AllTime \/ (p.from <= r.fact.day /\ r.fact.day <= p.to)

\* What a query of p may find in the table t: parts without a row of p may be skipped.
Found(t, p) ==
  {{r \in Final(t \ skipped) : InPeriod(r, p)} : skipped \in SUBSET {r \in t : ~InPeriod(r, p)}}

Of(rows, k) == {r \in rows : r.fact.barber = k}

-----------------------------------------------------------------------------
(* The queries: what each makes of the rows it found. *)

With(rows, status) == {r \in rows : r.fact.status = status}
Count(rows, status) == Cardinality(With(rows, status))
Revenue(rows) == SumFunction([r \in With(rows, "completed") |-> Price[r.fact.service]])

\* GetBookingStats.
BookingStats(rows) ==
  [clients |-> Count(rows, "completed"), revenue |-> Revenue(rows),
   total |-> Cardinality(rows), cancelled |-> Count(rows, "cancelled"),
   noShow |-> Count(rows, "no_show"),
   minutes |-> SumFunction([r \in With(rows, "completed") |-> Length[r.fact.service]])]

Worked(rows) == {r \in rows : ~r.fact.deleted}

\* GetScheduleMinutes.
ScheduleMinutes(rows) == SumFunction([r \in Worked(rows) |-> r.fact.minutes])

\* GetTopServices, without the limit.
ByService(rows) ==
  {LET its == {r \in rows : r.fact.service = s} IN
     [service |-> s, count |-> Count(its, "completed"), revenue |-> Revenue(its)]
     : s \in {r.fact.service : r \in rows}}

\* ORDER BY count DESC LIMIT: of equal ones any.
Top(rows) ==
  {T \in SUBSET ByService(rows) :
     /\ Cardinality(T) = IF Cardinality(ByService(rows)) < TopLimit
                           THEN Cardinality(ByService(rows)) ELSE TopLimit
     /\ \A x \in T, y \in ByService(rows) \ T : x.count >= y.count}

\* Mutant of DailyBookings: every booking of a day is a client.
DailyBookingsOfAll(rows) ==
  [d \in {r.fact.day : r \in rows} |->
     LET its == {r \in rows : r.fact.day = d} IN
       [clients |-> Cardinality(its), revenue |-> Revenue(its), minutes |-> 0]]

\* GetDailyBreakdown, its first statement: also days on which nothing was completed.
DailyBookings(rows) ==
  [d \in {r.fact.day : r \in rows} |->
     LET its == {r \in rows : r.fact.day = d} IN
       [clients |-> Count(its, "completed"), revenue |-> Revenue(its), minutes |-> 0]]

\* Its second statement: of two rows of a date the one that comes last is kept.
WithHours(days, pick) ==
  [d \in DOMAIN days \union DOMAIN pick |->
     LET day == IF d \in DOMAIN days THEN days[d] ELSE [clients |-> 0, revenue |-> 0, minutes |-> 0]
     IN  IF d \in DOMAIN pick THEN [day EXCEPT !.minutes = pick[d].fact.minutes] ELSE day]
DailyHours(days, rows) ==
  LET dates == {r.fact.day : r \in Worked(rows)} IN
    {WithHours(days, pick) :
       pick \in {f \in [dates -> Worked(rows)] : \A d \in dates : f[d].fact.day = d}}

\* The breakdown by date, each day with its date.
Nth(dates, i) == CHOOSE d \in dates : Cardinality({e \in dates : e <= d}) = i
Sorted(days) ==
  [i \in 1..Cardinality(DOMAIN days) |->
     LET date == Nth(DOMAIN days, i) IN [date |-> date, of |-> days[date]]]

\* The days are paged only when there is a limit.
Page(seq, paging) ==
  IF paging.limit = 0 THEN seq
  ELSE SubSeq(seq, paging.offset + 1,
              IF paging.offset + paging.limit < Len(seq) THEN paging.offset + paging.limit
                                                         ELSE Len(seq))

\* averageCheck and occupancyRate: 0 when there is nothing to divide by.
Ratio(a, b) == IF b > 0 THEN <<a, b>> ELSE <<0, 1>>

-----------------------------------------------------------------------------
StatsInit ==
  /\ today \in FirstDays
  /\ bookings = {} /\ hours = {}
  /\ stored = [bookings |-> 0, hours |-> 0]
  /\ answer = NoAnswer
  /\ history = [sure |-> {}, doubtful |-> {}, undisturbed |-> TRUE]

Open == Opening <= today

\* Rows come from the consumers.
InsertBooking(f) ==
  /\ Open /\ stored.bookings < MaxRows
  /\ stored' = [stored EXCEPT !.bookings = @ + 1]
  /\ bookings' = bookings \union {[fact |-> f, seq |-> stored'.bookings]}
  /\ history' = [history EXCEPT !.undisturbed = FALSE]
  /\ UNCHANGED <<today, hours, answer>>

InsertSchedule(f) ==
  /\ Open /\ stored.hours < MaxHours
  /\ stored' = [stored EXCEPT !.hours = @ + 1]
  /\ hours' = hours \union {[fact |-> f, seq |-> stored'.hours]}
  /\ history' = [history EXCEPT !.undisturbed = FALSE]
  /\ UNCHANGED <<today, bookings, answer>>

\* s may go when it is merged with r, which is of the same partition: toYYYYMM.
Merges(r, s) ==
  /\ r.fact.key = s.fact.key /\ Newer(r, s)
  /\ Civil(r.fact.day) = Civil(s.fact.day)

Merge ==
  /\ \/ \E r, s \in bookings : Merges(r, s) /\ bookings' = bookings \ {s} /\ UNCHANGED hours
     \/ \E r, s \in hours : Merges(r, s) /\ hours' = hours \ {s} /\ UNCHANGED bookings
  /\ UNCHANGED <<today, stored, answer, history>>

-----------------------------------------------------------------------------
(* GetBarberStats. *)

Busy == answer # NoAnswer /\ answer.stage # "done"
At(stage) == answer # NoAnswer /\ answer.stage = stage

\* GetAnalytics of the gateway: two dates, a preset, or neither.
Kinds == {"day", "week", "month", "all"}

\* resolvePeriod, with the clock of the analytics service.
resolvePeriod(kind) ==
  CASE kind = "day"   -> [from |-> today, to |-> today]
    [] kind = "week"  -> ThisWeek(today)
    [] kind = "month" -> ThisMonth(today)
    [] kind = "all"   -> AllTime

GetBarberStats(k, p, paging) ==
  /\ Open /\ ~Busy
  /\ answer' = [stage |-> "stats", barber |-> k, period |-> p, paging |-> paging]
  /\ history' = [sure |-> {}, doubtful |-> {}, undisturbed |-> FALSE]
  /\ UNCHANGED <<today, bookings, hours, stored>>

\* Rows of k that are the newest of their booking, and older ones of bookings that
\* have since left the period.
Sure(p, k) == {r \in Of(bookings, k) : Newest(r, bookings) /\ InPeriod(r, p)}
Doubtful(p, k) ==
  {r \in Of(bookings, k) :
     InPeriod(r, p) /\ \E s \in bookings : /\ s.fact.key = r.fact.key /\ Newest(s, bookings)
                                           /\ ~InPeriod(s, p)}

\* The answer with what one more statement has found.
AnswerWith(more) ==
  [field \in DOMAIN answer \union DOMAIN more |->
     IF field \in DOMAIN more THEN more[field] ELSE answer[field]]

GetBookingStats ==
  /\ At("stats")
  /\ LET k == answer.barber
         p == answer.period
     IN  /\ \E rows \in Found(bookings, p) :
              answer' = AnswerWith([stage |-> "minutes", stats |-> BookingStats(Of(rows, k))])
         /\ history' = [sure |-> Sure(p, k), doubtful |-> Doubtful(p, k), undisturbed |-> TRUE]
  /\ UNCHANGED <<today, bookings, hours, stored>>

GetScheduleMinutes ==
  /\ At("minutes")
  /\ \E rows \in Found(hours, answer.period) :
       answer' = AnswerWith([stage |-> "top", minutes |-> ScheduleMinutes(Of(rows, answer.barber))])
  /\ UNCHANGED <<today, bookings, hours, stored, history>>

GetTopServices ==
  /\ At("top")
  /\ \E rows \in Found(bookings, answer.period) : \E top \in Top(Of(rows, answer.barber)) :
       answer' = AnswerWith([stage |-> "days", top |-> top])
  /\ UNCHANGED <<today, bookings, hours, stored, history>>

GetDailyBookings ==
  /\ At("days")
  /\ \E rows \in Found(bookings, answer.period) :
       answer' = AnswerWith([stage |-> "dayhours", days |-> DailyBookings(Of(rows, answer.barber))])
  /\ UNCHANGED <<today, bookings, hours, stored, history>>

\* The response, and the page the gateway makes of it; days is the whole breakdown.
Response(days) ==
  [stage |-> "done", barber |-> answer.barber, period |-> answer.period,
   paging |-> answer.paging, stats |-> answer.stats,
   minutes |-> answer.minutes, top |-> answer.top,
   averageCheck |-> Ratio(answer.stats.revenue, answer.stats.clients),
   occupancyRate |-> Ratio(answer.stats.minutes, answer.minutes),
   days |-> Page(Sorted(days), answer.paging),
   daysTotal |-> Cardinality(DOMAIN days)]

\* The last statement, and the response.
Respond ==
  /\ At("dayhours")
  /\ \E rows \in Found(hours, answer.period) :
       \E days \in DailyHours(answer.days, Of(rows, answer.barber)) :
         answer' = Response(days)
  /\ UNCHANGED <<today, bookings, hours, stored, history>>

\* A statement fails, or the request is cancelled: no response.
Fail ==
  /\ Busy
  /\ answer' = NoAnswer
  /\ UNCHANGED <<today, bookings, hours, stored, history>>

Midnight ==
  /\ today < Closing
  /\ today' = today + 1
  /\ UNCHANGED <<bookings, hours, stored, answer, history>>

StatsNext ==
  \/ \E f \in BookingFact : InsertBooking(f)
  \/ \E f \in HoursFact : InsertSchedule(f)
  \/ Merge
  \/ \E k \in Barber, paging \in Paging :
       \/ \E kind \in Kinds : GetBarberStats(k, resolvePeriod(kind), paging)
       \/ \E p \in Custom : GetBarberStats(k, p, paging)
  \/ GetBookingStats \/ GetScheduleMinutes \/ GetTopServices \/ GetDailyBookings \/ Respond
  \/ Fail
  \/ Midnight

StatsSpec == StatsInit /\ [][StatsNext]_statsVars

-----------------------------------------------------------------------------
\* repository.go:60-85.  The totals are those of the newest rows of the period, and of
\* old rows of bookings that were moved out of it, at most one of each: no booking is
\* counted twice or for what an earlier event of the same days said.
CountsAreTrue ==
  answer # NoAnswer /\ answer.stage # "stats" =>
    \E old \in SUBSET history.doubtful :
      /\ \A r, s \in old : r.fact.key = s.fact.key => r = s
      /\ answer.stats = BookingStats(history.sure \union old)

\* No barber has two rows for a date that are not deleted.
OneRowADay(k) ==
  \A r, s \in Worked(Final(hours)) :
    r.fact.barber = k /\ s.fact.barber = k /\ r.fact.day = s.fact.day => r = s

DaySum(field, days) == SumFunction([i \in DOMAIN days |-> days[i].of[field]])

\* service.go:36-109.  Where no row arrived between the first statement and the last, and
\* no booking had been moved out of the period, the parts of the response agree: the days
\* and, while there are few, the services add up to the totals, and the hours too.
AnswerAgrees ==
  At("done") /\ history.undisturbed /\ history.doubtful = {} =>
    LET whole == Len(answer.days) = answer.daysTotal
        served == SumFunction([t \in answer.top |-> t.count])
    IN  /\ whole =>
             /\ DaySum("clients", answer.days) = answer.stats.clients
             /\ DaySum("revenue", answer.days) = answer.stats.revenue
             /\ OneRowADay(answer.barber) =>
                  DaySum("minutes", answer.days) = answer.minutes
        /\ served <= answer.stats.clients
        /\ served < answer.stats.clients => Cardinality(answer.top) = TopLimit
        /\ DaySum("clients", answer.days) <= answer.stats.clients
        /\ \A i \in DOMAIN answer.days :
             InPeriod([fact |-> [day |-> answer.days[i].date]], answer.period)

\* staff repository.go:270-292, booking services.go:356-357, analytics service.go:130-143.
\* On every day of the calendar the three services mean the same week, which begins on a
\* Monday and holds the day, and the month of analytics is the whole month of the day.
CalendarsAgree == WeeksAgree(today) /\ MonthHolds(today)

=============================================================================
