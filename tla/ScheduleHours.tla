---------------------------- MODULE ScheduleHours ----------------------------
(***************************************************************************)
(* What the barber's statistics say of his working hours: the days of      *)
(* StaffSchedule, and the table schedule_hours that the analytics service  *)
(* makes of their events.  AnalyticsConsumer has how an event gets there:  *)
(* any number of times and in any order, which is all that is used here.   *)
(***************************************************************************)
EXTENDS StaffSchedule

CONSTANT NoEvent  \* an id that is not in schedule_hours

ASSUME HoursAssumption == NoEvent \notin ScheduleEvent

VARIABLES
  hours,    \* [Id -> ScheduleEvent \union {NoEvent}]: schedule_hours FINAL
  arrived   \* history: the events that were inserted

hoursVars == <<hours, arrived>>
vars == <<staffVars, hoursVars>>

Init ==
  /\ StaffInit
  /\ hours = [i \in Id |-> NoEvent]
  /\ arrived = {}

\* Mutant of Newer: the row that is inserted last is read.
NewerAlways(e) == TRUE

\* ReplacingMergeTree(occurred_at) ORDER BY schedule_id: of the rows of an id the one
\* with the last second is read, of those the one inserted last.
Newer(e) == hours[e.id] = NoEvent \/ e.at >= hours[e.id].at

InsertSchedule(e) ==
  /\ arrived' = arrived \union {e}
  /\ hours' = IF Newer(e) THEN [hours EXCEPT ![e.id] = e] ELSE hours
  /\ UNCHANGED staffVars

Next ==
  \/ StaffNext /\ UNCHANGED hoursVars
  \/ \E e \in topic : InsertSchedule(e)

Spec == Init /\ [][Next]_vars

-----------------------------------------------------------------------------
TypeOK ==
  /\ StaffTypeOK
  /\ hours \in [Id -> ScheduleEvent \union {NoEvent}]
  /\ arrived \subseteq topic

\* The rows of day d that GetScheduleMinutes adds up (is_deleted = 0).
Counted(d) == {i \in Id : hours[i] # NoEvent /\ hours[i].date = d /\ hours[i].hours # Gone}

Current(d) == {i \in Id : schedule[d] # NoRow /\ schedule[d].id = i}

\* Every event of i was sent, stamped in the order of the changes, and inserted.
Settled(i) ==
  /\ i \notin lost \union mixed
  /\ \A r \in Request : ~InProgress(r, i)
  /\ \A e \in topic : e.id = i => e \in arrived

\* service.go:308-320 and :401-410 of staff, repository.go:89-106 of analytics.  The
\* statistics count for each day the hours the barber has set, once, and none for a day
\* he does not work, as soon as the events of its rows have been inserted; otherwise one of
\* them was lost, or stamped against the order of two changes, or in the same second.
DayHoursMatch ==
  \A d \in Date :
    (\A i \in Counted(d) \union Current(d) : Settled(i)) =>
      /\ Counted(d) = Current(d)
      /\ \A i \in Current(d) : hours[i].hours = schedule[d].hours

\* service.go:401-407 of staff, consumer.go:197-206 of analytics.  A row that is deleted
\* in the statistics is not counted again, though older events of it are inserted late or
\* a second time and others were lost.
DeletedStaysDeleted ==
  [][\A i \in Id : /\ hours[i] # NoEvent /\ hours[i].hours = Gone
                   /\ i \notin mixed'
                   => hours'[i].hours = Gone]_vars

-----------------------------------------------------------------------------
(* Why they hold: the invariant that ScheduleHoursProofs shows to be inductive. *)

\* The events that are stamped and may be in the topic, now or soon.
Events == topic \union
  {req[r].event : r \in {q \in Request : req[q] # Idle /\ req[q].stage = "stamped"}}

\* h is what the table says of row i.
Says(i, h) == IF h = Gone THEN \A d \in Date : i \notin Current(d)
                          ELSE \E d \in Date : schedule[d] = [id |-> i, hours |-> h]

\* A row's id was generated for its day alone.
IdsInv ==
  /\ \A d \in Date : schedule[d] # NoRow =>
       /\ schedule[d].id \in used
       /\ \A c \in Date : schedule[c] # NoRow /\ schedule[c].id = schedule[d].id => c = d
       /\ \A e \in Events : e.id = schedule[d].id => e.date = d
       /\ \A r \in Request : InProgress(r, schedule[d].id) => req[r].event.date = d
  /\ \A e \in Events : e.id \in used
  /\ \A r \in Request : req[r] # Idle => req[r].event.id \in used

\* The stamps of a row's events follow its changes, and a deletion is the last of them.
StampsInv ==
  /\ \A i \in Id : last[i] <= clock
  /\ \A e \in Events : e.at <= last[e.id]
  /\ \A i \in Id \ mixed : \A r \in Request : Unstamped(r, i) =>
       /\ Says(i, req[r].event.hours)
       /\ \A q \in Request : Unstamped(q, i) => q = r
  /\ \A e \in Events : e.id \notin mixed /\ e.hours = Gone =>
       /\ \A r \in Request : ~Unstamped(r, e.id)
       /\ Says(e.id, Gone)
       /\ \A f \in Events : f.id = e.id /\ f.at >= e.at => f.hours = Gone

\* What is stamped last of a row tells what the table says of it.
LastInv ==
  \A i \in used \ (lost \union mixed) : (\A r \in Request : ~Unstamped(r, i)) =>
    /\ \E e \in Events : e.id = i /\ e.at = last[i]
    /\ \A e \in Events : e.id = i /\ e.at = last[i] => Says(i, e.hours)

\* schedule_hours reads, of the events of an id that were inserted, one that is last.
FinalInv ==
  /\ \A e \in arrived : hours[e.id] # NoEvent /\ e.at <= hours[e.id].at
  /\ \A i \in Id : hours[i] # NoEvent => hours[i] \in arrived /\ hours[i].id = i

HoursInv == IdsInv /\ StampsInv /\ LastInv /\ FinalInv

=============================================================================
