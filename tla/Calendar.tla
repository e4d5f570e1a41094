------------------------------- MODULE Calendar -------------------------------
(***************************************************************************)
(* The dates that three services compute with: booking names the ISO week  *)
(* of a date, staff turns the name of a week back into its Monday, and     *)
(* analytics resolves "this week" and "this month" into days.              *)
(*                                                                         *)
(* A date is the number of days since 1 March of the year 0 in the         *)
(* Gregorian calendar, a Wednesday.                                        *)
(***************************************************************************)
EXTENDS Integers

\* time.Date of a year, a month and a day.
Date(y, m, d) ==
  LET year  == IF m <= 2 THEN y - 1 ELSE y
      month == (m + 9) % 12     \* March is 0
  IN  365 * year + year \div 4 - year \div 100 + year \div 400
        + (153 * month + 2) \div 5 + d - 1

\* The first of the month after m.
NextMonth(y, m) == IF m = 12 THEN Date(y + 1, 1, 1) ELSE Date(y, m + 1, 1)

\* time.Weekday: Sunday is 0.
Weekday(n) == (n + 3) % 7

\* time.Time.Date: the year and the month, counted in years that begin in March.
Civil(n) ==
  LET era   == n \div 146097
      rest  == n - era * 146097
      year  == (rest - rest \div 1460 + rest \div 36524 - rest \div 146096) \div 365
      day   == rest - (365 * year + year \div 4 - year \div 100)
      month == (5 * day + 2) \div 153
  IN  IF month < 10 THEN [year |-> year + 400 * era, month |-> month + 3]
                    ELSE [year |-> year + 400 * era + 1, month |-> month - 9]

Year(n) == Civil(n).year

\* time.Time.ISOWeek: the week belongs to the year of its Thursday.
ISOWeek(n) ==
  LET thursday == (n - ((Weekday(n) + 6) % 7)) + 3
  IN  [year |-> Year(thursday),
       week |-> (thursday - Date(Year(thursday), 1, 1)) \div 7 + 1]

-----------------------------------------------------------------------------
(* Weeks. *)

\* Mutant of isoWeekToDate: the first of January is taken to be in week 1.
isoWeekToDateOfNewYear(w) ==
  LET jan1 == Date(w.year, 1, 1)
  IN  (jan1 - ((Weekday(jan1) + 6) % 7)) + (w.week - 1) * 7

\* The Monday of a week.  January 4 is always in week 1; a week 53 that the year does
\* not have is the first of the next year.
isoWeekToDate(w) ==
  LET jan4    == Date(w.year, 1, 4)
      monday1 == jan4 - (((Weekday(jan4) - 1) + 7) % 7)
  IN  monday1 + (w.week - 1) * 7

\* The days that GetSchedule answers for a week.
DaysOfWeek(w) == isoWeekToDate(w)..(isoWeekToDate(w) + 6)

\* PERIOD_WEEK: Monday to Sunday; Sunday counts as 7.
ThisWeek(now) ==
  LET weekday == IF Weekday(now) = 0 THEN 7 ELSE Weekday(now)
      monday  == now - (weekday - 1)
  IN  [from |-> monday, to |-> monday + 6]

\* PERIOD_MONTH: the day before the first of the next month is the last.
ThisMonth(now) ==
  LET c == Civil(now)
  IN  [from |-> Date(c.year, c.month, 1), to |-> NextMonth(c.year, c.month) - 1]

-----------------------------------------------------------------------------
\* staff repository.go:270-292, booking services.go:356-357, analytics service.go:130-138.
\* The three services mean the same week: the days that staff answers for the week that
\* booking names of a date are the days of this week to analytics, the date among them.
WeeksAgree(n) ==
  LET w == ISOWeek(n)
  IN  /\ isoWeekToDate(w) = ThisWeek(n).from
      /\ DaysOfWeek(w) = ThisWeek(n).from..ThisWeek(n).to
      /\ n \in DaysOfWeek(w)
      /\ Weekday(isoWeekToDate(w)) = 1

\* The month that analytics takes is the whole month of the date and no more.
MonthHolds(n) ==
  LET month == ThisMonth(n)
  IN  /\ n \in month.from..month.to
      /\ Civil(month.from) = Civil(n) /\ Civil(month.to) = Civil(n)
      /\ Civil(month.from - 1) # Civil(n) /\ Civil(month.to + 1) # Civil(n)

=============================================================================
