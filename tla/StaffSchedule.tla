---------------------------- MODULE StaffSchedule ----------------------------
(***************************************************************************)
(* The working days of one barber: table schedule of the staff service     *)
(* (services/staff/internal/repository/repository.go:321-386) and the      *)
(* events its service publishes of them (service/service.go:283-412).      *)
(*                                                                         *)
(* Each change is one SQL statement, after which the request stamps an     *)
(* event with the time and sends it once; what fails then is only logged.  *)
(* An event names the day by the id of its row, and a day that is deleted  *)
(* and set again gets a row with a new id.                                 *)
(***************************************************************************)
EXTENDS Integers, FiniteSets

CONSTANTS
  Date,       \* the days
  Id,         \* what gen_random_uuid may return; bound: how many rows are inserted
  Hours,      \* start_time, end_time and part_of_day of a working day
  Request,    \* requests in progress at a time
  MaxTime,    \* bound: the last second
  MaxEvents,  \* bound: a request begins while fewer events were sent
  Gone,       \* instead of hours: the event says the day was deleted
  NoRow,      \* a day that is not in the table
  Idle        \* a request that is not in progress

Row == [id : Id, hours : Hours]
ScheduleEvent == [id : Id, date : Date, hours : Hours \union {Gone}, at : 0..MaxTime]
Publication == [stage : {"changed", "stamped"}, event : ScheduleEvent]

ASSUME StaffAssumption ==
  /\ MaxTime \in Nat /\ MaxEvents \in Nat
  /\ Gone \notin Hours /\ NoRow \notin Row /\ Idle \notin Publication

VARIABLES
  schedule,  \* [Date -> Row \union {NoRow}]: unique by barber and date
  used,      \* the ids that were given to rows
  clock,     \* now, in the seconds analytics keeps
  req,       \* [Request -> Publication \union {Idle}]: a change whose event is not sent yet
  topic,     \* the events that are in schedule.events, in no order (LeastBytes)
  lost,      \* history: the ids of which some event was not sent
  mixed,     \* history: the ids of which a change was made before the last one was
             \* stamped, or two changes were stamped in the same second
  last       \* history: [Id -> the last second an event of it was stamped, or -1]

staffVars == <<schedule, used, clock, req, topic, lost, mixed, last>>

-----------------------------------------------------------------------------
StaffInit ==
  /\ schedule = [d \in Date |-> NoRow]
  /\ used = {}
  /\ clock = 0
  /\ req = [r \in Request |-> Idle]
  /\ topic = {}
  /\ lost = {}
  /\ mixed = {}
  /\ last = [i \in Id |-> -1]

InProgress(r, i) == req[r] # Idle /\ req[r].event.id = i
Unstamped(r, i) == InProgress(r, i) /\ req[r].stage = "changed"

Begins(r) == req[r] = Idle /\ Cardinality(topic) < MaxEvents

\* r has changed row i of day d to hours h.
Changed(r, i, d, h) ==
  /\ req' = [req EXCEPT ![r] =
       [stage |-> "changed", event |-> [id |-> i, date |-> d, hours |-> h, at |-> 0]]]
  /\ mixed' = IF \E q \in Request : Unstamped(q, i) THEN mixed \union {i} ELSE mixed
  /\ UNCHANGED <<clock, topic, lost, last>>

\* Mutant of RowOf: the day gets a new row each time.
RowOfAnew(d) == Id \ used

\* INSERT ... ON CONFLICT (barber_id, date) DO UPDATE ... RETURNING id.
RowOf(d) == IF schedule[d] = NoRow THEN Id \ used ELSE {schedule[d].id}

UpsertSchedule(r, d, h) ==
  /\ Begins(r)
  /\ \E i \in RowOf(d) :
       /\ schedule' = [schedule EXCEPT ![d] = [id |-> i, hours |-> h]]
       /\ used' = used \union {i}
       /\ Changed(r, i, d, h)

\* DELETE ... RETURNING id; ErrNotFound when the day is not there.
DeleteSchedule(r, d) ==
  /\ Begins(r)
  /\ schedule[d] # NoRow
  /\ schedule' = [schedule EXCEPT ![d] = NoRow]
  /\ Changed(r, schedule[d].id, d, Gone)
  /\ UNCHANGED used

\* The statement has an ORDER BY after RETURNING, which is not SQL: the database
\* refuses it whatever the days are.
WeekStatement == UNCHANGED <<schedule, used>>

\* Its error is the answer, and no event is sent.
UpsertWeekSchedule == WeekStatement /\ UNCHANGED <<clock, req, topic, lost, mixed, last>>

\* timestamppb.Now(), after the statement.
Stamp(r) ==
  /\ req[r] # Idle /\ req[r].stage = "changed"
  /\ LET i == req[r].event.id IN
       /\ req' = [req EXCEPT ![r] =
            [stage |-> "stamped", event |-> [req[r].event EXCEPT !.at = clock]]]
       /\ mixed' = IF last[i] = clock THEN mixed \union {i} ELSE mixed
       /\ last' = [last EXCEPT ![i] = clock]
  /\ UNCHANGED <<schedule, used, clock, topic, lost>>

\* Publish: the event is in the topic, whatever WriteMessages returns.
Publish(r) ==
  /\ req[r] # Idle /\ req[r].stage = "stamped"
  /\ topic' = topic \union {req[r].event}
  /\ req' = [req EXCEPT ![r] = Idle]
  /\ UNCHANGED <<schedule, used, clock, lost, mixed, last>>

\* The event is not sent: the statement's answer is lost, the service stops, or the
\* one attempt fails, which is logged as a warning and not told to the barber.
Lose(r) ==
  /\ req[r] # Idle
  /\ req' = [req EXCEPT ![r] = Idle]
  /\ lost' = lost \union {req[r].event.id}
  /\ UNCHANGED <<schedule, used, clock, topic, mixed, last>>

Tick ==
  /\ clock < MaxTime
  /\ clock' = clock + 1
  /\ UNCHANGED <<schedule, used, req, topic, lost, mixed, last>>

StaffNext ==
  \/ \E r \in Request, d \in Date : DeleteSchedule(r, d) \/ \E h \in Hours : UpsertSchedule(r, d, h)
  \/ UpsertWeekSchedule
  \/ \E r \in Request : Stamp(r) \/ Publish(r) \/ Lose(r)
  \/ Tick

-----------------------------------------------------------------------------
StaffTypeOK ==
  /\ schedule \in [Date -> Row \union {NoRow}]
  /\ used \subseteq Id
  /\ clock \in 0..MaxTime
  /\ req \in [Request -> Publication \union {Idle}]
  /\ topic \subseteq ScheduleEvent
  /\ lost \subseteq Id /\ mixed \subseteq Id
  /\ last \in [Id -> -1..MaxTime]

=============================================================================
