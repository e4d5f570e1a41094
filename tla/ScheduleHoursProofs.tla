------------------------- MODULE ScheduleHoursProofs -------------------------
(***************************************************************************)
(* The statistics count the hours the barber has set, for all days, ids,   *)
(* hours, numbers of requests and of events.                               *)
(***************************************************************************)
EXTENDS ScheduleHours, TLAPS

\* What a request that has changed row i of day d to h does to the events.
LEMMA ChangeEvents ==
  ASSUME TypeOK, NEW r \in Request, NEW i \in Id, NEW d \in Date,
         NEW h \in Hours \union {Gone}, req[r] = Idle, Changed(r, i, d, h)
  PROVE  /\ req' \in [Request -> Publication \union {Idle}]
         /\ Events' = Events
         /\ req'[r].event.id = i /\ req'[r].event.hours = h /\ req'[r].event.date = d
         /\ req'[r] # Idle
         /\ \A q \in Request : q # r => req'[q] = req[q]
         /\ \A q \in Request, j \in Id :
              /\ InProgress(q, j)' <=> (q = r /\ j = i) \/ InProgress(q, j)
              /\ Unstamped(q, j)' <=> (q = r /\ j = i) \/ Unstamped(q, j)
<1> DEFINE e == [id |-> i, date |-> d, hours |-> h, at |-> 0]
           p == [stage |-> "changed", event |-> e]
<1>1. e \in ScheduleEvent
  BY StaffAssumption DEF ScheduleEvent
<1>2. p \in Publication /\ p # Idle
  BY <1>1, StaffAssumption DEF Publication
<1>3. req \in [Request -> Publication \union {Idle}]
  BY DEF TypeOK, StaffTypeOK
<1>4. req' = [req EXCEPT ![r] = p] /\ topic' = topic
  BY DEF Changed
<1>5. req'[r] = p /\ \A q \in Request : q # r => req'[q] = req[q]
  BY <1>3, <1>4
<1>6. p.stage = "changed" /\ p.event = e
  OBVIOUS
<1>7. Events' = Events
  BY <1>2, <1>4, <1>5, <1>6 DEF Events
<1>8. \A q \in Request, j \in Id :
        /\ InProgress(q, j)' <=> (q = r /\ j = i) \/ InProgress(q, j)
        /\ Unstamped(q, j)' <=> (q = r /\ j = i) \/ Unstamped(q, j)
  BY <1>2, <1>5, <1>6 DEF InProgress, Unstamped
<1>9. req' \in [Request -> Publication \union {Idle}]
  BY <1>2, <1>3, <1>4
<1> QED
  BY <1>2, <1>5, <1>6, <1>7, <1>8, <1>9

\* What stamping does.
LEMMA StampEvents ==
  ASSUME TypeOK, NEW r \in Request, Stamp(r)
  PROVE  /\ req' \in [Request -> Publication \union {Idle}]
         /\ req[r].event \in ScheduleEvent
         /\ \E e \in ScheduleEvent :
              /\ Events' = Events \union {e}
              /\ e.id = req[r].event.id /\ e.date = req[r].event.date
              /\ e.hours = req[r].event.hours /\ e.at = clock
         /\ \A q \in Request, j \in Id :
              /\ InProgress(q, j)' <=> InProgress(q, j)
              /\ Unstamped(q, j)' <=> Unstamped(q, j) /\ q # r
         /\ \A q \in Request : req[q] # Idle =>
              /\ req'[q].event.id = req[q].event.id
              /\ req'[q].event.date = req[q].event.date
              /\ req'[q].event.hours = req[q].event.hours
         /\ \A q \in Request : req'[q] # Idle => req[q] # Idle
<1> DEFINE o == req[r].event
           e == [o EXCEPT !.at = clock]
           p == [stage |-> "stamped", event |-> e]
<1>1. req \in [Request -> Publication \union {Idle}] /\ clock \in 0..MaxTime
  BY DEF TypeOK, StaffTypeOK
<1>2. req[r] \in Publication /\ req[r].stage = "changed" /\ req[r] # Idle
  BY <1>1 DEF Stamp
<1>3. o \in ScheduleEvent
  BY <1>2 DEF Publication
<1>4. e \in ScheduleEvent /\ e.id = o.id /\ e.date = o.date /\ e.hours = o.hours /\ e.at = clock
  BY <1>1, <1>3 DEF ScheduleEvent
<1>5. p \in Publication /\ p # Idle /\ p.stage = "stamped" /\ p.event = e
  BY <1>4, StaffAssumption DEF Publication
<1>6. req' = [req EXCEPT ![r] = p] /\ topic' = topic
  BY DEF Stamp
<1>7. req'[r] = p /\ \A q \in Request : q # r => req'[q] = req[q]
  BY <1>1, <1>6
<1> HIDE DEF e, o, p
<1>8. Events' = Events \union {e}
  BY <1>2, <1>5, <1>6, <1>7 DEF Events
<1>9. \A q \in Request, j \in Id :
        /\ InProgress(q, j)' <=> InProgress(q, j)
        /\ Unstamped(q, j)' <=> Unstamped(q, j) /\ q # r
  BY <1>2, <1>4, <1>5, <1>7 DEF InProgress, Unstamped, o
<1>10. \A q \in Request : req[q] # Idle =>
         /\ req'[q].event.id = req[q].event.id
         /\ req'[q].event.date = req[q].event.date
         /\ req'[q].event.hours = req[q].event.hours
  BY <1>4, <1>5, <1>7 DEF o
<1>11. req' \in [Request -> Publication \union {Idle}]
  BY <1>1, <1>5, <1>6
<1> QED
  BY <1>2, <1>3, <1>4, <1>7, <1>8, <1>9, <1>10, <1>11 DEF o

\* What becomes of the events when r ends, sent or not.
LEMMA EndEvents ==
  ASSUME TypeOK, NEW r \in Request, Publish(r) \/ Lose(r)
  PROVE  /\ req' \in [Request -> Publication \union {Idle}]
         /\ req[r] # Idle /\ req[r].event \in ScheduleEvent
         /\ Events' \subseteq Events
         /\ Publish(r) => Events' = Events
         /\ \A e \in Events : e.id # req[r].event.id => e \in Events'
         /\ \A q \in Request, j \in Id :
              /\ InProgress(q, j)' <=> InProgress(q, j) /\ q # r
              /\ Unstamped(q, j)' <=> Unstamped(q, j) /\ q # r
         /\ Publish(r) => \A j \in Id : ~Unstamped(r, j)
         /\ \A q \in Request : req'[q] # Idle => req'[q] = req[q]
<1>1. req \in [Request -> Publication \union {Idle}]
  BY DEF TypeOK, StaffTypeOK
<1>2. req[r] # Idle /\ req[r] \in Publication /\ req' = [req EXCEPT ![r] = Idle]
  BY <1>1 DEF Publish, Lose
<1>3. req'[r] = Idle /\ \A q \in Request : q # r => req'[q] = req[q]
  BY <1>1, <1>2
<1>4. req[r].event \in ScheduleEvent
  BY <1>2 DEF Publication
<1>5. CASE Publish(r)
  <2>1. topic' = topic \union {req[r].event} /\ req[r].stage = "stamped"
    BY <1>5 DEF Publish
  <2>2. Events' = Events
    BY <1>2, <1>3, <2>1 DEF Events
  <2>3. \A j \in Id : ~Unstamped(r, j)
    BY <2>1 DEF Unstamped
  <2> QED
    BY <1>1, <1>2, <1>3, <1>4, <2>2, <2>3 DEF InProgress, Unstamped
<1>6. CASE Lose(r) /\ ~Publish(r)
  <2>1. topic' = topic
    BY <1>6 DEF Lose
  <2>2. Events' \subseteq Events
    BY <1>2, <1>3, <2>1 DEF Events
  <2>3. \A e \in Events : e.id # req[r].event.id => e \in Events'
    BY <1>2, <1>3, <2>1 DEF Events
  <2> QED
    BY <1>1, <1>2, <1>3, <1>4, <1>6, <2>2, <2>3 DEF InProgress, Unstamped
<1> QED
  BY <1>5, <1>6

\* An event in the topic, or stamped, has its type.
LEMMA EventsTyped == TypeOK => Events \subseteq ScheduleEvent
BY DEF TypeOK, StaffTypeOK, Events, Publication

-----------------------------------------------------------------------------
\* The variables keep their types.
LEMMA TypeStep == TypeOK /\ [Next]_vars => TypeOK'
<1> SUFFICES ASSUME TypeOK, [Next]_vars PROVE TypeOK'
  OBVIOUS
<1>0. /\ schedule \in [Date -> Row \union {NoRow}] /\ used \subseteq Id /\ clock \in 0..MaxTime
      /\ req \in [Request -> Publication \union {Idle}] /\ topic \subseteq ScheduleEvent
      /\ lost \subseteq Id /\ mixed \subseteq Id /\ last \in [Id -> -1..MaxTime]
      /\ hours \in [Id -> ScheduleEvent \union {NoEvent}] /\ arrived \subseteq topic
  BY DEF TypeOK, StaffTypeOK
<1>1. ASSUME NEW r \in Request, NEW d \in Date, NEW h \in Hours, UpsertSchedule(r, d, h),
             UNCHANGED hoursVars
      PROVE  TypeOK'
  <2>1. PICK i \in RowOf(d) : /\ schedule' = [schedule EXCEPT ![d] = [id |-> i, hours |-> h]]
                              /\ used' = used \union {i} /\ Changed(r, i, d, h)
    BY <1>1 DEF UpsertSchedule
  <2>2. i \in Id
    BY <1>0 DEF RowOf, Row
  <2>3. [id |-> i, hours |-> h] \in Row
    BY <2>2 DEF Row
  <2>4. req[r] = Idle
    BY <1>1 DEF UpsertSchedule, Begins
  <2>5. req' \in [Request -> Publication \union {Idle}]
    BY <2>1, <2>2, <2>4, ChangeEvents
  <2>6. mixed' \subseteq Id /\ UNCHANGED <<clock, topic, lost, last>>
    BY <1>0, <2>1, <2>2 DEF Changed
  <2> QED
    BY <1>0, <1>1, <2>1, <2>2, <2>3, <2>5, <2>6 DEF TypeOK, StaffTypeOK, hoursVars
<1>2. ASSUME NEW r \in Request, NEW d \in Date, DeleteSchedule(r, d), UNCHANGED hoursVars
      PROVE  TypeOK'
  <2>1. schedule[d] \in Row /\ req[r] = Idle
    BY <1>0, <1>2 DEF DeleteSchedule, Begins
  <2>2. schedule[d].id \in Id
    BY <2>1 DEF Row
  <2>3. Changed(r, schedule[d].id, d, Gone) /\ schedule' = [schedule EXCEPT ![d] = NoRow]
        /\ used' = used
    BY <1>2 DEF DeleteSchedule
  <2>4. req' \in [Request -> Publication \union {Idle}]
    BY <2>1, <2>2, <2>3, ChangeEvents
  <2>5. mixed' \subseteq Id /\ UNCHANGED <<clock, topic, lost, last>>
    BY <1>0, <2>2, <2>3 DEF Changed
  <2> QED
    BY <1>0, <1>2, <2>3, <2>4, <2>5 DEF TypeOK, StaffTypeOK, hoursVars
<1>3. ASSUME NEW r \in Request, Stamp(r), UNCHANGED hoursVars
      PROVE  TypeOK'
  <2>1. req' \in [Request -> Publication \union {Idle}] /\ req[r].event \in ScheduleEvent
    BY <1>3, StampEvents
  <2>2. req[r].event.id \in Id
    BY <2>1 DEF ScheduleEvent
  <2>3. clock \in -1..MaxTime
    BY <1>0, StaffAssumption
  <2>4. /\ mixed' = IF last[req[r].event.id] = clock THEN mixed \union {req[r].event.id} ELSE mixed
        /\ last' = [last EXCEPT ![req[r].event.id] = clock]
        /\ UNCHANGED <<schedule, used, clock, topic, lost>>
    BY <1>3 DEF Stamp
  <2>5. mixed' \subseteq Id /\ last' \in [Id -> -1..MaxTime]
    BY <1>0, <2>2, <2>3, <2>4
  <2> QED
    BY <1>0, <1>3, <2>1, <2>4, <2>5 DEF TypeOK, StaffTypeOK, hoursVars
<1>4. ASSUME NEW r \in Request, Publish(r) \/ Lose(r), UNCHANGED hoursVars
      PROVE  TypeOK'
  <2>1. req' \in [Request -> Publication \union {Idle}] /\ req[r].event \in ScheduleEvent
    BY <1>4, EndEvents
  <2>2. topic' \subseteq ScheduleEvent /\ topic \subseteq topic' /\ lost' \subseteq Id
    BY <1>0, <1>4, <2>1 DEF Publish, Lose, ScheduleEvent
  <2> QED
    BY <1>0, <1>4, <2>1, <2>2 DEF TypeOK, StaffTypeOK, hoursVars, Publish, Lose
<1>5. ASSUME Tick, UNCHANGED hoursVars PROVE TypeOK'
  BY <1>0, <1>5, StaffAssumption DEF Tick, TypeOK, StaffTypeOK, hoursVars
<1>6. ASSUME NEW e \in topic, InsertSchedule(e) PROVE TypeOK'
  <2>1. e \in ScheduleEvent /\ e.id \in Id
    BY <1>0 DEF ScheduleEvent
  <2> QED
    BY <1>0, <1>6, <2>1 DEF InsertSchedule, TypeOK, StaffTypeOK, staffVars
<1>7. CASE UNCHANGED vars
  BY <1>0, <1>7 DEF vars, staffVars, hoursVars, TypeOK, StaffTypeOK
<1>8. CASE UpsertWeekSchedule /\ UNCHANGED hoursVars
  BY <1>0, <1>8 DEF UpsertWeekSchedule, WeekStatement, staffVars, hoursVars, TypeOK, StaffTypeOK
<1> QED
  BY <1>1, <1>2, <1>3, <1>4, <1>5, <1>6, <1>7, <1>8 DEF Next, StaffNext

-----------------------------------------------------------------------------
(* The steps that matter to the invariant, and what they do to the table. *)

\* An upsert of day d writes row i, which is new or the day's own.
LEMMA UpsertRow ==
  ASSUME TypeOK, IdsInv, NEW r \in Request, NEW d \in Date, NEW h \in Hours,
         UpsertSchedule(r, d, h)
  PROVE  \E i \in Id :
           /\ req[r] = Idle /\ Changed(r, i, d, h) /\ h # Gone
           /\ used' = used \union {i}
           /\ \/ schedule[d] = NoRow /\ i \notin used
              \/ schedule[d] # NoRow /\ schedule[d].id = i /\ i \in used
           /\ schedule'[d] # NoRow /\ schedule'[d] = [id |-> i, hours |-> h]
           /\ \A c \in Date : c # d => schedule'[c] = schedule[c]
           /\ \A j \in Id \ {i}, g \in Hours \union {Gone} : Says(j, g)' <=> Says(j, g)
           /\ Says(i, h)'
<1>0. /\ schedule \in [Date -> Row \union {NoRow}] /\ used \subseteq Id
  BY DEF TypeOK, StaffTypeOK
<1>1. PICK i \in RowOf(d) : /\ schedule' = [schedule EXCEPT ![d] = [id |-> i, hours |-> h]]
                            /\ used' = used \union {i} /\ Changed(r, i, d, h)
  BY DEF UpsertSchedule
<1>2. i \in Id
  BY <1>0, <1>1 DEF RowOf, Row
<1>3. \/ schedule[d] = NoRow /\ i \notin used
      \/ schedule[d] # NoRow /\ schedule[d].id = i /\ i \in used
  BY <1>1 DEF RowOf, IdsInv
<1>4. [id |-> i, hours |-> h] \in Row
  BY <1>2 DEF Row
<1>5. /\ schedule'[d] # NoRow /\ schedule'[d] = [id |-> i, hours |-> h]
      /\ schedule'[d].id = i /\ schedule'[d].hours = h
      /\ \A c \in Date : c # d => schedule'[c] = schedule[c]
  BY <1>0, <1>1, <1>4, StaffAssumption
<1>6. req[r] = Idle /\ h # Gone
  BY StaffAssumption DEF UpsertSchedule, Begins
<1>7. ASSUME NEW j \in Id \ {i}, NEW g \in Hours \union {Gone}
      PROVE  Says(j, g)' <=> Says(j, g)
  <2>1. \A c \in Date : j \in Current(c)' <=> j \in Current(c)
    BY <1>3, <1>5 DEF Current
  <2>2. ASSUME g # Gone, NEW c \in Date
        PROVE  schedule'[c] = [id |-> j, hours |-> g] <=> schedule[c] = [id |-> j, hours |-> g]
    <3>1. [id |-> j, hours |-> g] \in Row /\ [id |-> j, hours |-> g].id = j
      BY <2>2 DEF Row
    <3> QED
      BY <1>3, <1>5, <3>1, StaffAssumption
  <2> QED
    BY <2>1, <2>2 DEF Says
<1>8. Says(i, h)'
  BY <1>5, <1>6 DEF Says
<1> QED
  BY <1>1, <1>2, <1>3, <1>5, <1>6, <1>7, <1>8

\* A delete of day d removes its row i from the table.
LEMMA DeleteRow ==
  ASSUME TypeOK, IdsInv, NEW r \in Request, NEW d \in Date, DeleteSchedule(r, d)
  PROVE  \E i \in Id :
           /\ req[r] = Idle /\ Changed(r, i, d, Gone)
           /\ used' = used /\ i \in used
           /\ schedule[d] # NoRow /\ schedule[d].id = i
           /\ schedule'[d] = NoRow
           /\ \A c \in Date : c # d => schedule'[c] = schedule[c]
           /\ \A j \in Id \ {i}, g \in Hours \union {Gone} : Says(j, g)' <=> Says(j, g)
           /\ Says(i, Gone)'
<1>0. schedule \in [Date -> Row \union {NoRow}]
  BY DEF TypeOK, StaffTypeOK
<1>1. /\ schedule[d] # NoRow /\ schedule[d] \in Row /\ used' = used /\ req[r] = Idle
      /\ schedule' = [schedule EXCEPT ![d] = NoRow] /\ Changed(r, schedule[d].id, d, Gone)
  BY <1>0 DEF DeleteSchedule, Begins
<1>2. PICK i \in Id : i = schedule[d].id
  BY <1>1 DEF Row
<1>3. i \in used /\ \A c \in Date : c # d => i \notin Current(c)
  BY <1>1, <1>2 DEF IdsInv, Current
<1>4. schedule'[d] = NoRow /\ \A c \in Date : c # d => schedule'[c] = schedule[c]
  BY <1>0, <1>1
<1>5. ASSUME NEW j \in Id \ {i}, NEW g \in Hours \union {Gone}
      PROVE  Says(j, g)' <=> Says(j, g)
  <2>1. \A c \in Date : j \in Current(c)' <=> j \in Current(c)
    BY <1>1, <1>2, <1>4 DEF Current
  <2>2. ASSUME g # Gone, NEW c \in Date
        PROVE  schedule'[c] = [id |-> j, hours |-> g] <=> schedule[c] = [id |-> j, hours |-> g]
    <3>1. [id |-> j, hours |-> g] \in Row /\ [id |-> j, hours |-> g].id = j
      BY <2>2 DEF Row
    <3> QED
      BY <1>2, <1>4, <3>1, StaffAssumption
  <2> QED
    BY <2>1, <2>2 DEF Says
<1>6. \A c \in Date : i \notin Current(c)'
  BY <1>3, <1>4 DEF Current
<1>7. Says(i, Gone)'
  BY <1>6 DEF Says
<1> QED
  BY <1>1, <1>2, <1>3, <1>4, <1>5, <1>7

\* Every step is one of these.
LEMMA StepCases ==
  ASSUME TypeOK, [Next]_vars
  PROVE  \/ /\ UNCHANGED hoursVars
            /\ \E r \in Request :
                 \/ \E d \in Date : DeleteSchedule(r, d) \/ \E h \in Hours : UpsertSchedule(r, d, h)
                 \/ Stamp(r)
                 \/ Publish(r) \/ Lose(r)
         \/ /\ UNCHANGED <<schedule, used, req, topic, lost, mixed, last>>
            /\ clock \in Nat /\ clock' \in Nat /\ clock <= clock'
<1>0. clock \in 0..MaxTime
  BY DEF TypeOK, StaffTypeOK
<1>1. CASE UNCHANGED vars
  BY <1>0, <1>1, StaffAssumption DEF vars, staffVars
<1>2. CASE Next
  BY <1>0, <1>2, StaffAssumption
     DEF Next, StaffNext, UpsertWeekSchedule, WeekStatement, Tick, InsertSchedule, staffVars
<1> QED
  BY <1>1, <1>2

\* What the invariant speaks of is all there when nothing but the clock changes.
LEMMA QuietEvents ==
  ASSUME UNCHANGED <<schedule, req, topic>>
  PROVE  /\ Events' = Events
         /\ \A r, i : /\ InProgress(r, i)' <=> InProgress(r, i)
                      /\ Unstamped(r, i)' <=> Unstamped(r, i)
         /\ \A i, h : Says(i, h)' <=> Says(i, h)
BY DEF Events, InProgress, Unstamped, Says, Current

-----------------------------------------------------------------------------
\* Initially nothing is in the tables and nothing was sent.
LEMMA InvInit == Init => TypeOK /\ HoursInv
<1> SUFFICES ASSUME Init PROVE TypeOK /\ HoursInv
  OBVIOUS
<1>1. TypeOK
  <2>1. -1 \in -1..MaxTime /\ 0 \in 0..MaxTime
    BY StaffAssumption
  <2> QED
    BY <2>1 DEF Init, StaffInit, TypeOK, StaffTypeOK
<1>2. Events = {}
  BY DEF Init, StaffInit, Events
<1>3. \A r \in Request : \A i : ~Unstamped(r, i) /\ ~InProgress(r, i)
  BY DEF Init, StaffInit, Unstamped, InProgress
<1>4. IdsInv
  BY <1>2, <1>3 DEF Init, StaffInit, IdsInv
<1>5. StampsInv
  BY <1>2, <1>3 DEF Init, StaffInit, StampsInv
<1>6. LastInv /\ FinalInv
  BY DEF Init, StaffInit, LastInv, FinalInv
<1> QED
  BY <1>1, <1>4, <1>5, <1>6 DEF HoursInv

\* The ids stay apart: a new row's id is in no event, a row that is written again
\* keeps its day.
LEMMA IdsStep == TypeOK /\ IdsInv /\ [Next]_vars => IdsInv'
<1> SUFFICES ASSUME TypeOK, IdsInv, [Next]_vars PROVE IdsInv'
  OBVIOUS
<1>0. /\ schedule \in [Date -> Row \union {NoRow}]
      /\ req \in [Request -> Publication \union {Idle}] /\ Events \subseteq ScheduleEvent
      /\ \A d \in Date : schedule[d] # NoRow => schedule[d].id \in Id
  BY EventsTyped DEF TypeOK, StaffTypeOK, Row
<1>1. ASSUME NEW r \in Request, NEW d \in Date, NEW h \in Hours, UpsertSchedule(r, d, h)
      PROVE  IdsInv'
  <2>1. PICK i \in Id :
           /\ req[r] = Idle /\ Changed(r, i, d, h)
           /\ used' = used \union {i}
           /\ \/ schedule[d] = NoRow /\ i \notin used
              \/ schedule[d] # NoRow /\ schedule[d].id = i /\ i \in used
           /\ schedule'[d] # NoRow /\ schedule'[d] = [id |-> i, hours |-> h]
           /\ \A c \in Date : c # d => schedule'[c] = schedule[c]
    BY <1>1, UpsertRow
  <2>2. schedule'[d].id = i
    BY <2>1
  <2>3. /\ Events' = Events
        /\ req'[r].event.id = i /\ req'[r].event.date = d
        /\ \A q \in Request : q # r => req'[q] = req[q]
        /\ \A q \in Request, j \in Id : InProgress(q, j)' <=> (q = r /\ j = i) \/ InProgress(q, j)
    BY <2>1, ChangeEvents
  <2>4. \A c \in Date : schedule[c] # NoRow /\ schedule[c].id = i => c = d
    BY <2>1 DEF IdsInv
  <2>5. \A e \in Events : e.id = i => e.date = d
    BY <2>1 DEF IdsInv
  <2>6. \A q \in Request : InProgress(q, i) => req[q].event.date = d
    BY <2>1 DEF IdsInv, InProgress
  <2>7. ASSUME NEW c \in Date, schedule'[c] # NoRow
        PROVE  /\ schedule'[c].id \in used'
               /\ \A b \in Date : schedule'[b] # NoRow /\ schedule'[b].id = schedule'[c].id => b = c
               /\ \A e \in Events' : e.id = schedule'[c].id => e.date = c
               /\ \A q \in Request : req'[q] # Idle /\ req'[q].event.id = schedule'[c].id
                                    => req'[q].event.date = c
    <3>1. CASE c = d
      BY <2>1, <2>2, <2>3, <2>4, <2>5, <2>6, <3>1 DEF InProgress
    <3>2. CASE c # d
      <4>1. schedule'[c] = schedule[c] /\ schedule[c].id # i /\ schedule[c].id \in Id
        BY <1>0, <2>1, <2>4, <2>7, <3>2
      <4> QED
        BY <2>1, <2>2, <2>3, <2>7, <3>2, <4>1 DEF IdsInv, InProgress
    <3> QED
      BY <3>1, <3>2
  <2>8. \A q \in Request : req'[q] # Idle => req'[q].event.id \in used'
    BY <2>1, <2>3 DEF IdsInv
  <2>9. \A e \in Events' : e.id \in used'
    BY <2>1, <2>3 DEF IdsInv
  <2> QED
    BY <2>7, <2>8, <2>9 DEF IdsInv, InProgress
<1>2. ASSUME NEW r \in Request, NEW d \in Date, DeleteSchedule(r, d)
      PROVE  IdsInv'
  <2>1. PICK i \in Id :
           /\ req[r] = Idle /\ Changed(r, i, d, Gone)
           /\ used' = used /\ i \in used
           /\ schedule[d] # NoRow /\ schedule[d].id = i
           /\ schedule'[d] = NoRow
           /\ \A c \in Date : c # d => schedule'[c] = schedule[c]
    BY <1>2, DeleteRow
  <2>2. /\ Events' = Events
        /\ req'[r].event.id = i
        /\ \A q \in Request : q # r => req'[q] = req[q]
        /\ \A q \in Request, j \in Id : InProgress(q, j)' <=> (q = r /\ j = i) \/ InProgress(q, j)
    BY <2>1, ChangeEvents
  <2>3. ASSUME NEW c \in Date, schedule'[c] # NoRow
        PROVE  /\ schedule'[c].id \in used'
               /\ \A b \in Date : schedule'[b] # NoRow /\ schedule'[b].id = schedule'[c].id => b = c
               /\ \A e \in Events' : e.id = schedule'[c].id => e.date = c
               /\ \A q \in Request : req'[q] # Idle /\ req'[q].event.id = schedule'[c].id
                                    => req'[q].event.date = c
    <3>1. schedule'[c] = schedule[c] /\ c # d /\ schedule[c].id # i /\ schedule[c].id \in Id
      BY <1>0, <2>1, <2>3 DEF IdsInv
    <3> QED
      BY <2>1, <2>2, <2>3, <3>1 DEF IdsInv, InProgress
  <2>4. \A q \in Request : req'[q] # Idle => req'[q].event.id \in used'
    BY <2>1, <2>2 DEF IdsInv
  <2> QED
    BY <2>1, <2>2, <2>3, <2>4 DEF IdsInv, InProgress
<1>3. ASSUME NEW r \in Request, Stamp(r)
      PROVE  IdsInv'
  <2>1. PICK e \in ScheduleEvent :
          /\ Events' = Events \union {e}
          /\ e.id = req[r].event.id /\ e.date = req[r].event.date
    BY <1>3, StampEvents
  <2>2. /\ \A q \in Request, j \in Id : InProgress(q, j)' <=> InProgress(q, j)
        /\ \A q \in Request : req[q] # Idle =>
             req'[q].event.id = req[q].event.id /\ req'[q].event.date = req[q].event.date
        /\ \A q \in Request : req'[q] # Idle => req[q] # Idle
    BY <1>3, StampEvents
  <2>3. schedule' = schedule /\ used' = used /\ req[r] # Idle
    BY <1>3 DEF Stamp
  <2>4. e.id \in used
    BY <2>1, <2>3 DEF IdsInv
  <2>5. ASSUME NEW c \in Date, schedule[c] # NoRow
        PROVE  /\ \A f \in Events' : f.id = schedule[c].id => f.date = c
               /\ \A q \in Request : InProgress(q, schedule[c].id)' => req'[q].event.date = c
    BY <1>0, <2>1, <2>2, <2>3, <2>5 DEF IdsInv, InProgress
  <2> QED
    BY <2>1, <2>2, <2>3, <2>4, <2>5 DEF IdsInv
<1>4. ASSUME NEW r \in Request, Publish(r) \/ Lose(r)
      PROVE  IdsInv'
  <2>1. /\ Events' \subseteq Events
        /\ \A q \in Request, j \in Id : InProgress(q, j)' <=> InProgress(q, j) /\ q # r
        /\ \A q \in Request : req'[q] # Idle => req'[q] = req[q]
    BY <1>4, EndEvents
  <2>2. schedule' = schedule /\ used' = used
    BY <1>4 DEF Publish, Lose
  <2> QED
    BY <1>0, <2>1, <2>2 DEF IdsInv, InProgress
<1>5. CASE UNCHANGED <<schedule, used, req, topic, lost, mixed, last>>
  <2>1. Events' = Events
    BY <1>5 DEF Events
  <2> QED
    BY <1>5, <2>1 DEF IdsInv, InProgress
<1> QED
  BY <1>1, <1>2, <1>3, <1>4, <1>5, StepCases

-----------------------------------------------------------------------------
\* A change of row i keeps the order of the stamps: a row that can be changed has not
\* been deleted.
LEMMA ChangeStamps ==
  ASSUME TypeOK, IdsInv, StampsInv,
         NEW r \in Request, NEW i \in Id, NEW d \in Date, NEW h \in Hours \union {Gone},
         req[r] = Idle, Changed(r, i, d, h),
         i \notin used \/ (schedule[d] # NoRow /\ schedule[d].id = i),
         \A j \in Id \ {i}, g \in Hours \union {Gone} : Says(j, g)' <=> Says(j, g),
         Says(i, h)'
  PROVE  StampsInv'
<1>0. /\ Events \subseteq ScheduleEvent /\ \A e \in Events : e.id \in Id
      /\ \A e \in Events : e.hours \in Hours \union {Gone}
      /\ \A q \in Request : req[q] # Idle => req[q].event.hours \in Hours \union {Gone}
  <2>1. \A q \in Request : req[q] # Idle => req[q].event \in ScheduleEvent
    BY DEF TypeOK, StaffTypeOK, Publication
  <2> QED
    BY <2>1, EventsTyped DEF ScheduleEvent
<1>1. /\ Events' = Events
      /\ req'[r].event.hours = h
      /\ \A q \in Request : q # r => req'[q] = req[q]
      /\ \A q \in Request, j \in Id : Unstamped(q, j)' <=> (q = r /\ j = i) \/ Unstamped(q, j)
  BY ChangeEvents
<1>2. /\ mixed' = IF \E q \in Request : Unstamped(q, i) THEN mixed \union {i} ELSE mixed
      /\ UNCHANGED <<clock, last>>
  BY DEF Changed
<1>3. mixed \subseteq mixed' /\ (i \notin mixed' => \A q \in Request : ~Unstamped(q, i))
  BY <1>2
<1>4. \A q \in Request : ~Unstamped(q, i) \/ q # r
  BY DEF Unstamped, InProgress
<1>5. \A e \in Events : e.id = i /\ e.hours = Gone => i \in mixed
  <2>1. CASE i \notin used
    BY <2>1 DEF IdsInv
  <2>2. CASE schedule[d] # NoRow /\ schedule[d].id = i
    <3>1. i \in Current(d)
      BY <2>2 DEF Current
    <3> QED
      BY <3>1 DEF StampsInv, Says
  <2> QED
    BY <2>1, <2>2
<1>6. ASSUME NEW j \in Id, j \notin mixed', NEW q \in Request, Unstamped(q, j)'
      PROVE  /\ Says(j, req[q].event.hours)'
             /\ \A p \in Request : Unstamped(p, j)' => p = q
  <2>1. CASE j = i
    <3>1. q = r /\ \A p \in Request : Unstamped(p, j)' => p = q
      BY <1>1, <1>3, <1>6, <2>1
    <3>2. Says(i, req[r].event.hours)'
      BY <1>1
    <3> QED
      BY <2>1, <3>1, <3>2
  <2>2. CASE j # i
    <3>1. Unstamped(q, j) /\ q # r /\ req'[q] = req[q]
      BY <1>1, <1>6, <2>2 DEF Unstamped, InProgress
    <3>2. Says(j, req[q].event.hours) /\ \A p \in Request : Unstamped(p, j) => p = q
      BY <1>3, <1>6, <3>1 DEF StampsInv
    <3>3. PICK g \in Hours \union {Gone} : g = req[q].event.hours
      BY <1>0, <3>1 DEF Unstamped, InProgress
    <3>4. Says(j, g)'
      BY <2>2, <3>2, <3>3
    <3>5. \A p \in Request : Unstamped(p, j)' => p = q
      BY <1>1, <2>2, <3>2
    <3> QED
      BY <3>1, <3>3, <3>4, <3>5
  <2> QED
    BY <2>1, <2>2
<1>7. ASSUME NEW e \in Events, e.id \notin mixed', e.hours = Gone
      PROVE  /\ \A q \in Request : ~Unstamped(q, e.id)'
             /\ Says(e.id, Gone)'
             /\ \A f \in Events : f.id = e.id /\ f.at >= e.at => f.hours = Gone
  <2>1. e.id # i /\ e.id \in Id /\ e.id \notin mixed
    BY <1>0, <1>3, <1>5, <1>7
  <2>2. /\ \A q \in Request : ~Unstamped(q, e.id)
        /\ Says(e.id, Gone)
        /\ \A f \in Events : f.id = e.id /\ f.at >= e.at => f.hours = Gone
    BY <1>7, <2>1 DEF StampsInv
  <2>3. \A q \in Request : ~Unstamped(q, e.id)'
    BY <1>1, <2>1, <2>2
  <2>4. Says(e.id, Gone)'
    BY <2>1, <2>2
  <2> QED
    BY <2>2, <2>3, <2>4
<1>8. (\A j \in Id : last[j] <= clock)' /\ (\A e \in Events : e.at <= last[e.id])'
  BY <1>1, <1>2 DEF StampsInv
<1> QED
  BY <1>1, <1>6, <1>7, <1>8 DEF StampsInv

\* The stamps follow the changes of a row, and its deletion is last.
LEMMA StampsStep == TypeOK /\ IdsInv /\ StampsInv /\ [Next]_vars => StampsInv'
<1> SUFFICES ASSUME TypeOK, IdsInv, StampsInv, [Next]_vars PROVE StampsInv'
  OBVIOUS
<1>0. /\ last \in [Id -> -1..MaxTime] /\ clock \in 0..MaxTime /\ mixed \subseteq Id
      /\ Events \subseteq ScheduleEvent
      /\ \A e \in Events : e.id \in Id /\ e.at \in 0..MaxTime
  BY EventsTyped DEF TypeOK, StaffTypeOK, ScheduleEvent
<1>1. ASSUME NEW r \in Request, NEW d \in Date, NEW h \in Hours, UpsertSchedule(r, d, h)
      PROVE  StampsInv'
  <2>1. PICK i \in Id :
           /\ req[r] = Idle /\ Changed(r, i, d, h)
           /\ \/ schedule[d] = NoRow /\ i \notin used
              \/ schedule[d] # NoRow /\ schedule[d].id = i /\ i \in used
           /\ \A j \in Id \ {i}, g \in Hours \union {Gone} : Says(j, g)' <=> Says(j, g)
           /\ Says(i, h)'
    BY <1>1, UpsertRow
  <2> QED
    BY <2>1, ChangeStamps
<1>2. ASSUME NEW r \in Request, NEW d \in Date, DeleteSchedule(r, d)
      PROVE  StampsInv'
  BY <1>2, DeleteRow, ChangeStamps
<1>3. ASSUME NEW r \in Request, Stamp(r)
      PROVE  StampsInv'
  <2>1. req[r].event \in ScheduleEvent
    BY <1>3, StampEvents
  <2>2. PICK i \in Id : i = req[r].event.id
    BY <2>1 DEF ScheduleEvent
  <2>3. PICK e \in ScheduleEvent :
          /\ Events' = Events \union {e}
          /\ e.id = i /\ e.hours = req[r].event.hours /\ e.at = clock
    BY <1>3, <2>2, StampEvents
  <2>4. /\ \A q \in Request, j \in Id : Unstamped(q, j)' <=> Unstamped(q, j) /\ q # r
        /\ \A q \in Request : req[q] # Idle => req'[q].event.hours = req[q].event.hours
    BY <1>3, StampEvents
  <2>5. /\ mixed' = IF last[i] = clock THEN mixed \union {i} ELSE mixed
        /\ last' = [last EXCEPT ![i] = clock]
        /\ clock' = clock /\ schedule' = schedule /\ req[r] # Idle /\ req[r].stage = "changed"
    BY <1>3, <2>2 DEF Stamp
  <2>6. /\ last'[i] = clock /\ \A j \in Id : j # i => last'[j] = last[j]
        /\ mixed \subseteq mixed' /\ (i \notin mixed' => last[i] < clock)
    BY <1>0, <2>5 DEF StampsInv
  <2>7. \A j, h : Says(j, h)' <=> Says(j, h)
    BY <2>5 DEF Says, Current
  <2>8. Unstamped(r, i)
    BY <2>2, <2>5 DEF Unstamped, InProgress
  <2>9. (\A j \in Id : last[j] <= clock)'
    BY <1>0, <2>5, <2>6 DEF StampsInv
  <2>10. (\A f \in Events : f.at <= last[f.id])'
    BY <1>0, <2>3, <2>6 DEF StampsInv
  <2>11. ASSUME NEW j \in Id, j \notin mixed', NEW q \in Request, Unstamped(q, j)'
         PROVE  /\ Says(j, req[q].event.hours)'
                /\ \A p \in Request : Unstamped(p, j)' => p = q
    <3>1. Unstamped(q, j) /\ req[q] # Idle /\ j \notin mixed
      BY <2>4, <2>6, <2>11 DEF Unstamped, InProgress
    <3>2. Says(j, req[q].event.hours) /\ \A p \in Request : Unstamped(p, j) => p = q
      BY <3>1 DEF StampsInv
    <3>3. req'[q].event.hours = req[q].event.hours
      BY <2>4, <3>1
    <3>4. Says(j, req[q].event.hours)'
      BY <2>5, <3>2, <3>3 DEF Says, Current
    <3> QED
      BY <2>4, <3>2, <3>4
  <2>12. ASSUME NEW f \in Events', f.id \notin mixed', f.hours = Gone
         PROVE  /\ \A q \in Request : ~Unstamped(q, f.id)'
                /\ Says(f.id, Gone)'
                /\ \A g \in Events' : g.id = f.id /\ g.at >= f.at => g.hours = Gone
    <3>1. CASE f \in Events
      <4>1. f.id \in Id /\ f.id \notin mixed
        BY <1>0, <2>6, <2>12, <3>1
      <4>2. /\ \A q \in Request : ~Unstamped(q, f.id)
            /\ Says(f.id, Gone)
            /\ \A g \in Events : g.id = f.id /\ g.at >= f.at => g.hours = Gone
        BY <2>12, <3>1, <4>1 DEF StampsInv
      <4>3. f.id # i
        BY <2>8, <4>2
      <4> QED
        BY <2>3, <2>4, <2>7, <4>1, <4>2, <4>3
    <3>2. CASE f = e
      <4>1. i \notin mixed /\ last[i] < clock /\ req[r].event.hours = Gone
        BY <2>3, <2>6, <2>12, <3>2
      <4>2. Says(i, Gone) /\ \A p \in Request : Unstamped(p, i) => p = r
        BY <2>8, <4>1 DEF StampsInv
      <4>3. \A g \in Events : g.id = i => g.at < clock
        BY <1>0, <4>1 DEF StampsInv
      <4>4. \A g \in Events' : g.id = f.id /\ g.at >= f.at => g.hours = Gone
        BY <1>0, <2>3, <2>12, <3>2, <4>3
      <4> QED
        BY <2>3, <2>4, <2>7, <3>2, <4>2, <4>4
    <3> QED
      BY <2>3, <2>12, <3>1, <3>2
  <2> QED
    BY <2>9, <2>10, <2>11, <2>12 DEF StampsInv
<1>4. ASSUME NEW r \in Request, Publish(r) \/ Lose(r)
      PROVE  StampsInv'
  <2>1. /\ Events' \subseteq Events
        /\ \A q \in Request, j \in Id : Unstamped(q, j)' <=> Unstamped(q, j) /\ q # r
        /\ \A q \in Request : req'[q] # Idle => req'[q] = req[q]
    BY <1>4, EndEvents
  <2>2. UNCHANGED <<schedule, clock, mixed, last>>
    BY <1>4 DEF Publish, Lose
  <2>3. \A j, h : Says(j, h)' <=> Says(j, h)
    BY <2>2 DEF Says, Current
  <2>4. ASSUME NEW j \in Id, j \notin mixed', NEW q \in Request, Unstamped(q, j)'
        PROVE  /\ Says(j, req[q].event.hours)'
               /\ \A p \in Request : Unstamped(p, j)' => p = q
    <3>1. Unstamped(q, j) /\ req'[q] = req[q] /\ j \notin mixed
      BY <2>1, <2>2, <2>4 DEF Unstamped, InProgress
    <3>2. Says(j, req[q].event.hours) /\ \A p \in Request : Unstamped(p, j) => p = q
      BY <3>1 DEF StampsInv
    <3>3. Says(j, req[q].event.hours)'
      BY <2>2, <3>1, <3>2 DEF Says, Current
    <3> QED
      BY <2>1, <3>2, <3>3
  <2>5. ASSUME NEW f \in Events', f.id \notin mixed', f.hours = Gone
        PROVE  /\ \A q \in Request : ~Unstamped(q, f.id)'
               /\ Says(f.id, Gone)'
               /\ \A g \in Events' : g.id = f.id /\ g.at >= f.at => g.hours = Gone
    BY <1>0, <2>1, <2>2, <2>3, <2>5 DEF StampsInv
  <2>6. (\A j \in Id : last[j] <= clock)' /\ (\A e \in Events : e.at <= last[e.id])'
    BY <2>1, <2>2 DEF StampsInv
  <2> QED
    BY <2>4, <2>5, <2>6 DEF StampsInv
<1>5. CASE /\ UNCHANGED <<schedule, used, req, topic, lost, mixed, last>>
           /\ clock \in Nat /\ clock' \in Nat /\ clock <= clock'
  <2>1. Events' = Events
    BY <1>5 DEF Events
  <2>2. (\A j \in Id : last[j] <= clock)'
    BY <1>0, <1>5 DEF StampsInv
  <2> QED
    BY <1>5, <2>1, <2>2 DEF StampsInv, Unstamped, InProgress, Says, Current
<1> QED
  BY <1>1, <1>2, <1>3, <1>4, <1>5, StepCases

-----------------------------------------------------------------------------
\* The event stamped last says what the table says, unless one was lost or mixed up.
LEMMA LastStep ==
  TypeOK /\ IdsInv /\ StampsInv /\ LastInv /\ [Next]_vars => LastInv'
<1> SUFFICES ASSUME TypeOK, IdsInv, StampsInv, LastInv, [Next]_vars PROVE LastInv'
  OBVIOUS
<1>0. /\ last \in [Id -> -1..MaxTime] /\ clock \in 0..MaxTime /\ used \subseteq Id
      /\ Events \subseteq ScheduleEvent
      /\ \A e \in Events : e.id \in Id /\ e.at \in 0..MaxTime /\ e.hours \in Hours \union {Gone}
  BY EventsTyped DEF TypeOK, StaffTypeOK, ScheduleEvent
<1>1. ASSUME NEW r \in Request, NEW i \in Id, NEW d \in Date, NEW h \in Hours \union {Gone},
             req[r] = Idle, Changed(r, i, d, h), used' \subseteq used \union {i},
             \A j \in Id \ {i}, g \in Hours \union {Gone} : Says(j, g)' <=> Says(j, g)
      PROVE  LastInv'
  <2>1. /\ Events' = Events
        /\ \A q \in Request, j \in Id : Unstamped(q, j)' <=> (q = r /\ j = i) \/ Unstamped(q, j)
    BY <1>1, ChangeEvents
  <2>2. mixed \subseteq mixed' /\ UNCHANGED <<lost, last>>
    BY <1>1 DEF Changed
  <2>3. ASSUME NEW j \in used' \ (lost' \union mixed'), \A q \in Request : ~Unstamped(q, j)'
        PROVE  /\ \E e \in Events' : e.id = j /\ e.at = last'[j]
               /\ \A e \in Events' : e.id = j /\ e.at = last'[j] => Says(j, e.hours)'
    <3>1. j # i /\ j \in used /\ j \in Id /\ j \notin lost \union mixed
      BY <1>0, <1>1, <2>1, <2>2, <2>3
    <3>2. \A q \in Request : ~Unstamped(q, j)
      BY <2>1, <2>3, <3>1
    <3>3. /\ \E e \in Events : e.id = j /\ e.at = last[j]
          /\ \A e \in Events : e.id = j /\ e.at = last[j] => Says(j, e.hours)
      BY <3>1, <3>2 DEF LastInv
    <3> QED
      BY <1>0, <1>1, <2>1, <2>2, <3>1, <3>3
  <2> QED
    BY <2>3 DEF LastInv
<1>2. ASSUME NEW r \in Request, NEW d \in Date, NEW h \in Hours, UpsertSchedule(r, d, h)
      PROVE  LastInv'
  <2>1. PICK i \in Id :
           /\ req[r] = Idle /\ Changed(r, i, d, h) /\ used' = used \union {i}
           /\ \A j \in Id \ {i}, g \in Hours \union {Gone} : Says(j, g)' <=> Says(j, g)
    BY <1>2, UpsertRow
  <2> QED
    BY <1>1, <2>1
<1>3. ASSUME NEW r \in Request, NEW d \in Date, DeleteSchedule(r, d)
      PROVE  LastInv'
  <2>1. PICK i \in Id :
           /\ req[r] = Idle /\ Changed(r, i, d, Gone) /\ used' = used
           /\ \A j \in Id \ {i}, g \in Hours \union {Gone} : Says(j, g)' <=> Says(j, g)
    BY <1>3, DeleteRow
  <2> QED
    BY <1>1, <2>1
<1>4. ASSUME NEW r \in Request, Stamp(r)
      PROVE  LastInv'
  <2>1. req[r].event \in ScheduleEvent
    BY <1>4, StampEvents
  <2>2. PICK i \in Id : i = req[r].event.id
    BY <2>1 DEF ScheduleEvent
  <2>3. PICK e \in ScheduleEvent :
          /\ Events' = Events \union {e}
          /\ e.id = i /\ e.hours = req[r].event.hours /\ e.at = clock
    BY <1>4, <2>2, StampEvents
  <2>4. \A q \in Request, j \in Id : Unstamped(q, j)' <=> Unstamped(q, j) /\ q # r
    BY <1>4, StampEvents
  <2>5. /\ mixed' = IF last[i] = clock THEN mixed \union {i} ELSE mixed
        /\ last' = [last EXCEPT ![i] = clock]
        /\ UNCHANGED <<schedule, used, lost>> /\ req[r] # Idle /\ req[r].stage = "changed"
    BY <1>4, <2>2 DEF Stamp
  <2>6. /\ last'[i] = clock /\ \A j \in Id : j # i => last'[j] = last[j]
        /\ mixed \subseteq mixed' /\ (i \notin mixed' => last[i] < clock)
    BY <1>0, <2>5 DEF StampsInv
  <2>7. \A j, h : Says(j, h)' <=> Says(j, h)
    BY <2>5 DEF Says, Current
  <2>8. Unstamped(r, i) /\ \A j \in Id : j # i => ~Unstamped(r, j)
    BY <2>2, <2>5 DEF Unstamped, InProgress
  <2>9. ASSUME NEW j \in used' \ (lost' \union mixed'), \A q \in Request : ~Unstamped(q, j)'
        PROVE  /\ \E f \in Events' : f.id = j /\ f.at = last'[j]
               /\ \A f \in Events' : f.id = j /\ f.at = last'[j] => Says(j, f.hours)'
    <3>1. j \in Id /\ j \in used \ (lost \union mixed)
      BY <1>0, <2>5, <2>6, <2>9
    <3>2. CASE j = i
      <4>1. Says(i, e.hours)
        BY <2>3, <2>8, <3>1, <3>2 DEF StampsInv
      <4>2. \A f \in Events : f.id = i => f.at < clock
        BY <1>0, <2>6, <2>9, <3>2 DEF StampsInv
      <4> QED
        BY <1>0, <2>3, <2>6, <2>7, <3>2, <4>1, <4>2
    <3>3. CASE j # i
      <4>1. \A q \in Request : ~Unstamped(q, j)
        BY <2>4, <2>8, <2>9, <3>1, <3>3
      <4>2. /\ \E f \in Events : f.id = j /\ f.at = last[j]
            /\ \A f \in Events : f.id = j /\ f.at = last[j] => Says(j, f.hours)
        BY <3>1, <4>1 DEF LastInv
      <4> QED
        BY <2>3, <2>6, <2>7, <3>1, <3>3, <4>2
    <3> QED
      BY <3>2, <3>3
  <2> QED
    BY <2>9 DEF LastInv
<1>5. ASSUME NEW r \in Request, Publish(r) \/ Lose(r)
      PROVE  LastInv'
  <2>1. /\ req[r].event \in ScheduleEvent /\ Events' \subseteq Events
        /\ Publish(r) => Events' = Events
        /\ \A e \in Events : e.id # req[r].event.id => e \in Events'
        /\ \A q \in Request, j \in Id : Unstamped(q, j)' <=> Unstamped(q, j) /\ q # r
        /\ Publish(r) => \A j \in Id : ~Unstamped(r, j)
    BY <1>5, EndEvents
  <2>2. UNCHANGED <<schedule, used, mixed, last>> /\ lost \subseteq lost'
        /\ (Publish(r) \/ req[r].event.id \in lost')
    BY <1>5 DEF Publish, Lose
  <2>3. \A j, h : Says(j, h)' <=> Says(j, h)
    BY <2>2 DEF Says, Current
  <2>4. ASSUME NEW j \in used' \ (lost' \union mixed'), \A q \in Request : ~Unstamped(q, j)'
        PROVE  /\ \E f \in Events' : f.id = j /\ f.at = last'[j]
               /\ \A f \in Events' : f.id = j /\ f.at = last'[j] => Says(j, f.hours)'
    <3>1. j \in Id /\ j \in used \ (lost \union mixed)
      BY <1>0, <2>2, <2>4
    <3>2. Publish(r) \/ j # req[r].event.id
      BY <2>2, <2>4
    <3>3. \A q \in Request : ~Unstamped(q, j)
      BY <2>1, <2>4, <3>1, <3>2 DEF Unstamped, InProgress
    <3>4. /\ \E f \in Events : f.id = j /\ f.at = last[j]
          /\ \A f \in Events : f.id = j /\ f.at = last[j] => Says(j, f.hours)
      BY <3>1, <3>3 DEF LastInv
    <3>5. \A f \in Events : f.id = j => f \in Events'
      BY <2>1, <3>2
    <3> QED
      BY <2>1, <2>2, <2>3, <3>4, <3>5
  <2> QED
    BY <2>4 DEF LastInv
<1>6. CASE UNCHANGED <<schedule, used, req, topic, lost, mixed, last>>
  <2>1. Events' = Events
    BY <1>6 DEF Events
  <2> QED
    BY <1>6, <2>1 DEF LastInv, Unstamped, InProgress, Says, Current
<1> QED
  BY <1>2, <1>3, <1>4, <1>5, <1>6, StepCases

\* Of the events of an id that were inserted, one of the last second is read.
LEMMA FinalStep == TypeOK /\ FinalInv /\ [Next]_vars => FinalInv'
<1> SUFFICES ASSUME TypeOK, FinalInv, [Next]_vars PROVE FinalInv'
  OBVIOUS
<1>0. /\ hours \in [Id -> ScheduleEvent \union {NoEvent}] /\ arrived \subseteq ScheduleEvent
      /\ topic \subseteq ScheduleEvent
  BY DEF TypeOK, StaffTypeOK
<1>1. ASSUME NEW e \in topic, InsertSchedule(e)
      PROVE  FinalInv'
  <2>1. e \in ScheduleEvent /\ e.id \in Id /\ e.at \in Int /\ e # NoEvent
    BY <1>0, HoursAssumption DEF ScheduleEvent
  <2>2. \A f \in ScheduleEvent : f.id \in Id /\ f.at \in Int
    BY DEF ScheduleEvent
  <2>3. arrived' = arrived \union {e}
    BY <1>1 DEF InsertSchedule
  <2>4. CASE Newer(e)
    <3>1. hours' = [hours EXCEPT ![e.id] = e]
      BY <1>1, <2>4 DEF InsertSchedule
    <3>2. hours'[e.id] = e /\ \A i \in Id : i # e.id => hours'[i] = hours[i]
      BY <1>0, <2>1, <3>1
    <3>3. ASSUME NEW f \in arrived' PROVE hours'[f.id] # NoEvent /\ f.at <= hours'[f.id].at
      <4>1. CASE f.id = e.id /\ f # e
        <5>1. f \in arrived /\ hours[e.id] # NoEvent /\ f.at <= hours[e.id].at
          BY <2>3, <3>3, <4>1 DEF FinalInv
        <5>2. hours[e.id].at <= e.at /\ hours[e.id] \in ScheduleEvent
          BY <1>0, <2>1, <2>4, <5>1 DEF Newer
        <5> QED
          BY <1>0, <2>1, <2>2, <3>2, <4>1, <5>1, <5>2
      <4>2. CASE f = e
        BY <2>1, <3>2, <4>2
      <4>3. CASE f.id # e.id
        BY <1>0, <2>2, <2>3, <3>2, <3>3, <4>3 DEF FinalInv
      <4> QED
        BY <4>1, <4>2, <4>3
    <3>4. \A i \in Id : hours'[i] # NoEvent => hours'[i] \in arrived' /\ hours'[i].id = i
      BY <2>3, <3>2 DEF FinalInv
    <3> QED
      BY <3>3, <3>4 DEF FinalInv
  <2>5. CASE ~Newer(e)
    <3>1. hours' = hours
      BY <1>1, <2>5 DEF InsertSchedule
    <3>2. hours[e.id] # NoEvent /\ ~(e.at >= hours[e.id].at)
      BY <2>5 DEF Newer
    <3>3. hours[e.id] \in ScheduleEvent
      BY <1>0, <2>1, <3>2
    <3>4. e.at <= hours[e.id].at
      BY <2>1, <2>2, <3>2, <3>3
    <3> QED
      BY <2>3, <3>1, <3>2, <3>4 DEF FinalInv
  <2> QED
    BY <2>4, <2>5
<1>2. CASE UNCHANGED hoursVars
  BY <1>2 DEF hoursVars, FinalInv
<1> QED
  BY <1>1, <1>2 DEF Next, vars

-----------------------------------------------------------------------------
\* Type correctness of the staff service's schedule, its events and the table that
\* analytics makes of them.
THEOREM HoursTypeCorrect == Spec => []TypeOK
<1>1. Init => TypeOK
  BY InvInit
<1> QED
  BY <1>1, TypeStep, PTL DEF Spec

\* The reasons for the two theorems below always hold.
THEOREM HoursInvariant == Spec => [](TypeOK /\ HoursInv)
<1>1. Init => TypeOK /\ HoursInv
  BY InvInit
<1>2. TypeOK /\ HoursInv /\ [Next]_vars => (TypeOK /\ HoursInv)'
  BY TypeStep, IdsStep, StampsStep, LastStep, FinalStep DEF HoursInv
<1> QED
  BY <1>1, <1>2, PTL DEF Spec

\* What the invariant says of a row whose events have all been inserted.
LEMMA SettledRow ==
  ASSUME TypeOK, HoursInv, NEW i \in used, i \in Id, Settled(i)
  PROVE  hours[i] \in ScheduleEvent /\ hours[i] \in Events /\ hours[i].id = i
         /\ Says(i, hours[i].hours)
<1>0. /\ Events \subseteq ScheduleEvent /\ arrived \subseteq topic /\ topic \subseteq Events
      /\ hours \in [Id -> ScheduleEvent \union {NoEvent}] /\ last \in [Id -> -1..MaxTime]
      /\ \A e \in ScheduleEvent : e.at \in Int
  BY EventsTyped DEF TypeOK, StaffTypeOK, ScheduleEvent, Events
<1>1. \A r \in Request : ~InProgress(r, i) /\ ~Unstamped(r, i)
  BY DEF Settled, Unstamped
<1>2. PICK e \in Events : e.id = i /\ e.at = last[i]
  BY <1>1 DEF Settled, HoursInv, LastInv
<1>3. e \in topic
  BY <1>1, <1>2 DEF Events, InProgress
<1>4. e \in arrived /\ hours[i] # NoEvent /\ e.at <= hours[i].at
  BY <1>2, <1>3 DEF Settled, HoursInv, FinalInv
<1>5. hours[i] \in arrived /\ hours[i].id = i
  BY <1>4 DEF HoursInv, FinalInv
<1>6. hours[i] \in Events /\ hours[i].at <= last[i]
  BY <1>0, <1>5 DEF HoursInv, StampsInv
<1>7. hours[i].at = last[i]
  BY <1>0, <1>2, <1>4, <1>6
<1>8. Says(i, hours[i].hours)
  BY <1>1, <1>5, <1>6, <1>7 DEF Settled, HoursInv, LastInv
<1> QED
  BY <1>0, <1>5, <1>6, <1>8

\* The statistics count for every day what the barber has set, once its rows' events have
\* been inserted, unless one of them was lost or mixed up.
THEOREM HoursAreCounted == Spec => []DayHoursMatch
<1>1. ASSUME TypeOK, HoursInv PROVE DayHoursMatch
  <2>0. /\ schedule \in [Date -> Row \union {NoRow}] /\ used \subseteq Id
        /\ arrived \subseteq Events
        /\ \A c \in Date : schedule[c] # NoRow => schedule[c].id \in used \cap Id
    BY <1>1 DEF TypeOK, StaffTypeOK, Events, HoursInv, IdsInv
  <2>1. SUFFICES ASSUME NEW d \in Date, \A i \in Counted(d) \union Current(d) : Settled(i)
                 PROVE  /\ Counted(d) = Current(d)
                        /\ \A i \in Current(d) : hours[i].hours = schedule[d].hours
    BY DEF DayHoursMatch
  <2>2. ASSUME NEW i \in Counted(d) PROVE i \in Current(d)
    <3>1. i \in Id /\ hours[i] # NoEvent /\ hours[i].date = d /\ hours[i].hours # Gone
      BY DEF Counted
    <3>2. hours[i] \in Events /\ hours[i].id = i /\ i \in used
      BY <1>1, <2>0, <3>1 DEF HoursInv, FinalInv, IdsInv
    <3>3. Says(i, hours[i].hours)
      BY <1>1, <2>1, <3>1, <3>2, SettledRow
    <3>4. PICK c \in Date : schedule[c] = [id |-> i, hours |-> hours[i].hours]
      BY <3>1, <3>3 DEF Says
    <3>5. schedule[c].id = i
      BY <3>4
    <3>6. [id |-> i, hours |-> hours[i].hours] \in Row
      <4>1. hours[i].hours \in Hours
        BY <1>1, <3>1, <3>2, EventsTyped DEF ScheduleEvent
      <4> QED
        BY <3>1, <4>1 DEF Row
    <3>7. schedule[c] # NoRow
      BY <3>4, <3>6, StaffAssumption
    <3>8. c = d
      BY <1>1, <3>1, <3>2, <3>5, <3>7 DEF HoursInv, IdsInv
    <3> QED
      BY <3>1, <3>5, <3>7, <3>8 DEF Current
  <2>3. ASSUME NEW i \in Current(d)
        PROVE  i \in Counted(d) /\ hours[i].hours = schedule[d].hours
    <3>1. i \in Id /\ schedule[d] # NoRow /\ schedule[d].id = i /\ i \in used
      BY <2>0 DEF Current
    <3>2. /\ hours[i] \in ScheduleEvent /\ hours[i] \in Events /\ hours[i].id = i
          /\ Says(i, hours[i].hours)
      BY <1>1, <2>1, <3>1, SettledRow
    <3>3. hours[i].hours # Gone
      BY <3>2 DEF Says
    <3>4. PICK c \in Date : schedule[c] = [id |-> i, hours |-> hours[i].hours]
      BY <3>2, <3>3 DEF Says
    <3>5. [id |-> i, hours |-> hours[i].hours] \in Row
      BY <3>1, <3>2, <3>3 DEF Row, ScheduleEvent
    <3>6. schedule[c] # NoRow /\ schedule[c].id = i /\ schedule[c].hours = hours[i].hours
      BY <3>4, <3>5, StaffAssumption
    <3>7. c = d
      BY <1>1, <3>1, <3>6 DEF HoursInv, IdsInv
    <3>8. hours[i].date = d
      BY <1>1, <3>1, <3>2 DEF HoursInv, IdsInv
    <3>9. hours[i] # NoEvent
      BY <3>2, HoursAssumption
    <3> QED
      BY <3>1, <3>3, <3>6, <3>7, <3>8, <3>9 DEF Counted
  <2> QED
    BY <2>2, <2>3
<1> QED
  BY <1>1, HoursInvariant, PTL

\* A day whose deletion has reached the statistics is not counted again, whatever is lost,
\* late or delivered twice.
THEOREM DeletionsStand == Spec => DeletedStaysDeleted
<1>1. ASSUME TypeOK, HoursInv, [Next]_vars,
             NEW i \in Id, hours[i] # NoEvent, hours[i].hours = Gone, i \notin mixed'
      PROVE  hours'[i].hours = Gone
  <2>0. /\ hours \in [Id -> ScheduleEvent \union {NoEvent}] /\ arrived \subseteq topic
        /\ topic \subseteq ScheduleEvent /\ topic \subseteq Events
        /\ \A e \in ScheduleEvent : e.id \in Id /\ e.at \in Int
    BY <1>1 DEF TypeOK, StaffTypeOK, ScheduleEvent, Events
  <2>1. ASSUME NEW e \in topic, InsertSchedule(e)
        PROVE  hours'[i].hours = Gone
    <3>1. mixed' = mixed
      BY <2>1 DEF InsertSchedule, staffVars
    <3>2. hours[i] \in Events /\ hours[i].id = i
      BY <1>1, <2>0 DEF HoursInv, FinalInv
    <3>3. \A f \in Events : f.id = i /\ f.at >= hours[i].at => f.hours = Gone
      BY <1>1, <3>1, <3>2 DEF HoursInv, StampsInv
    <3>4. CASE e.id = i /\ Newer(e)
      <4>1. hours'[i] = e
        BY <1>1, <2>0, <2>1, <3>4 DEF InsertSchedule
      <4>2. e.at >= hours[i].at
        BY <1>1, <3>4 DEF Newer
      <4> QED
        BY <2>0, <3>3, <3>4, <4>1, <4>2
    <3>5. CASE e.id # i \/ ~Newer(e)
      BY <1>1, <2>0, <2>1, <3>5 DEF InsertSchedule
    <3> QED
      BY <3>4, <3>5
  <2>2. CASE UNCHANGED hoursVars
    BY <1>1, <2>2 DEF hoursVars
  <2> QED
    BY <1>1, <2>1, <2>2 DEF Next, vars
<1>2. TypeOK /\ HoursInv /\ [Next]_vars =>
        [\A i \in Id : /\ hours[i] # NoEvent /\ hours[i].hours = Gone
                       /\ i \notin mixed'
                       => hours'[i].hours = Gone]_vars
  BY <1>1
<1> QED
  BY <1>2, HoursInvariant, PTL DEF Spec, DeletedStaysDeleted

=============================================================================
