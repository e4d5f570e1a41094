---------------------------- MODULE BookingEvents ----------------------------
(***************************************************************************)
(* The handlers of the booking service that change a booking               *)
(* (services/booking/internal/services/services.go) and what they tell the *)
(* rest of the system.  A change is committed first, by one atomic step of *)
(* BookingRepo; the row is then read again, the event is stamped with the  *)
(* clock, and only then handed to Kafka.  A publish that fails is retried  *)
(* in the background, a few times, in memory.  Requests on one booking     *)
(* interleave at every one of these steps, and the process may stop        *)
(* between any two of them.                                                *)
(*                                                                         *)
(* The producer picks the partition with the least bytes, whatever the     *)
(* key, a retry may write an event twice, and no acknowledgement is asked  *)
(* for: neither the order of the events of a booking nor their number is   *)
(* kept, and none is sure to be there.  The topic is the set of the events *)
(* that may be in it; what holds of any of them, in any order, holds of    *)
(* what the consumers meet.                                                *)
(***************************************************************************)
EXTENDS Bookings, Integers

CONSTANTS
  Start,        \* the start times a booking may be given
  Status,       \* the statuses of a booking
  Pending,      \* the status of a new one
  Handler,      \* requests served at the same time
  Retries,      \* publishMaxRetries
  MaxClock,     \* bound: the last instant
  MaxCommits,   \* bound: changes of one booking
  NoTask        \* a handler without a request

Row == [start : Start, status : Status]
Change == Booking \X (1..MaxCommits)
Event == [booking : Booking, start : Start, status : Status,
          stamp : 0..MaxClock, change : 1..MaxCommits]
Task == [op : {"create", "details", "status"}, stage : {"act", "reread", "stamp", "send"},
         booking : Booking, start : Start, status : Status,
         change : 0..MaxCommits, stamp : 0..MaxClock]

ASSUME EventsAssumption ==
  /\ Pending \in Status
  /\ Retries \in Nat /\ MaxClock \in Nat /\ MaxCommits \in Nat
  /\ NoRow \notin Row
  /\ NoTask \notin Task

VARIABLES
  rows,     \* the bookings table
  task,     \* what each handler is doing
  retries,  \* the goroutines of retryPublish: an event and the tries it has left
  topic,    \* bookings.events: the events handed to the writer, each of which may be there
  clock,    \* time.Now()
  commits,  \* history: how often each booking has been changed
  raced,    \* history: changes made while an earlier one of the same booking
            \* had not been stamped yet
  dropped,  \* history: changes the service has given up telling
  sent      \* history: changes of which Publish has returned no error

eventsVars == <<rows, task, retries, topic, clock, commits, raced, dropped, sent>>

Exists(b) == rows[b] # NoRow
InStage(p, s) == task[p] # NoTask /\ task[p].stage = s
Free(p) == task[p] = NoTask

\* The change of b that p has committed has no stamp yet.
Unstamped(p, b) == (InStage(p, "reread") \/ InStage(p, "stamp")) /\ task[p].booking = b

EventOf(r) == [booking |-> r.booking, start |-> r.start, status |-> r.status,
               stamp |-> r.stamp, change |-> r.change]
ChangeOf(r) == <<r.booking, r.change>>

EventsInit ==
  /\ rows = [b \in Booking |-> NoRow]
  /\ task = [p \in Handler |-> NoTask]
  /\ retries = {}
  /\ topic = {}
  /\ clock = 0
  /\ commits = [b \in Booking |-> 0]
  /\ raced = {}
  /\ dropped = {}
  /\ sent = {}

-----------------------------------------------------------------------------
TaskOf(op, stage, b, t, s, n) ==
  [op |-> op, stage |-> stage, booking |-> b, start |-> t, status |-> s,
   change |-> n, stamp |-> 0]

\* b gets the row r; if some other request has not stamped its change of b yet,
\* the events of the two may tell them in the wrong order.
Commit(p, b, r) ==
  /\ commits[b] < MaxCommits
  /\ rows' = [rows EXCEPT ![b] = r]
  /\ commits' = [commits EXCEPT ![b] = @ + 1]
  /\ raced' = IF \E q \in Handler \ {p} : Unstamped(q, b)
                THEN raced \union {<<b, commits[b] + 1>>} ELSE raced

\* p ends without having told the change <<b, n>>.
LeaveUntold(p, b, n) ==
  /\ task' = [task EXCEPT ![p] = NoTask]
  /\ dropped' = dropped \union {<<b, n>>}

\* CreateBooking publishes the booking it has inserted, without reading it again.
\* If the answer to the COMMIT is lost, the booking exists and nothing is told.
CreateBooking(p, b, t) ==
  /\ Free(p)
  /\ commits[b] = 0
  /\ Commit(p, b, [start |-> t, status |-> Pending])
  /\ \/ /\ task' = [task EXCEPT ![p] = TaskOf("create", "stamp", b, t, Pending, 1)]
        /\ UNCHANGED dropped
     \/ LeaveUntold(p, b, 1)
  /\ UNCHANGED <<retries, topic, clock, sent>>

\* The handlers that change a booking look it up first.
UpdateBookingDetails(p, b, t) ==
  /\ Free(p)
  /\ Exists(b)
  /\ task' = [task EXCEPT ![p] = TaskOf("details", "act", b, t, rows[b].status, 0)]
  /\ UNCHANGED <<rows, retries, topic, clock, commits, raced, dropped, sent>>

\* A booking that has the status already is returned as it is.
UpdateBookingStatus(p, b, s) ==
  /\ Free(p)
  /\ Exists(b)
  /\ rows[b].status # s
  /\ task' = [task EXCEPT ![p] = TaskOf("status", "act", b, rows[b].start, s, 0)]
  /\ UNCHANGED <<rows, retries, topic, clock, commits, raced, dropped, sent>>

\* What the repository's UPDATE makes of the row.
Updated(r) == IF r.op = "details" THEN [rows[r.booking] EXCEPT !.start = r.start]
                                  ELSE [rows[r.booking] EXCEPT !.status = r.status]

\* The change itself: refused, committed, or committed with the answer lost.
Act(p) ==
  /\ InStage(p, "act")
  /\ LET b == task[p].booking IN
       \/ /\ task' = [task EXCEPT ![p] = NoTask]
          /\ UNCHANGED <<rows, commits, raced, dropped>>
       \/ /\ Exists(b)
          /\ Commit(p, b, Updated(task[p]))
          /\ \/ /\ task' = [task EXCEPT ![p].stage = "reread", ![p].change = commits[b] + 1]
                /\ UNCHANGED dropped
             \/ LeaveUntold(p, b, commits[b] + 1)
  /\ UNCHANGED <<retries, topic, clock, sent>>

\* Mutant of Reread: the event is built from the row the handler looked up first.
RereadExisting(p) ==
  /\ InStage(p, "reread")
  /\ \/ /\ Exists(task[p].booking)
        /\ task' = [task EXCEPT ![p].stage = "stamp"]
        /\ UNCHANGED dropped
     \/ LeaveUntold(p, task[p].booking, task[p].change)
  /\ UNCHANGED <<rows, retries, topic, clock, commits, raced, sent>>

\* The row is read again for the answer and for the event.  UpdateBookingStatus
\* publishes the status it was asked for, UpdateBookingDetails the one it reads.
\* If the read fails, or the booking is gone, the request fails and tells nothing.
Reread(p) ==
  /\ InStage(p, "reread")
  /\ LET r == task[p] IN
       \/ /\ Exists(r.booking)
          /\ task' = [task EXCEPT
                       ![p].stage = "stamp",
                       ![p].start = rows[r.booking].start,
                       ![p].status = IF r.op = "status" THEN @ ELSE rows[r.booking].status]
          /\ UNCHANGED dropped
       \/ LeaveUntold(p, r.booking, r.change)
  /\ UNCHANGED <<rows, retries, topic, clock, commits, raced, sent>>

\* publishEvent takes OccurredAt from the clock when it builds the event.
Stamp(p) ==
  /\ InStage(p, "stamp")
  /\ task' = [task EXCEPT ![p].stage = "send", ![p].stamp = clock]
  /\ UNCHANGED <<rows, retries, topic, clock, commits, raced, dropped, sent>>

-----------------------------------------------------------------------------
\* The writer asks for no acknowledgement: whether Publish returns an error or
\* not, the event may be in the topic, or not.
Tried(e) == topic' = topic \union {e}

Succeeds(e) == Tried(e) /\ sent' = sent \union {ChangeOf(e)}
Fails(e) == Tried(e) /\ UNCHANGED sent

\* Mutant of Send: a publish that fails is only logged.
SendOnce(p) ==
  /\ InStage(p, "send")
  /\ task' = [task EXCEPT ![p] = NoTask]
  /\ Succeeds(EventOf(task[p])) \/ Fails(EventOf(task[p]))
  /\ UNCHANGED <<rows, retries, clock, commits, raced, dropped>>

\* The first try, in the request.
Send(p) ==
  /\ InStage(p, "send")
  /\ task' = [task EXCEPT ![p] = NoTask]
  /\ LET e == EventOf(task[p]) IN
       \/ Succeeds(e) /\ UNCHANGED retries
       \/ Fails(e) /\ retries' = retries \union {[event |-> e, left |-> Retries]}
  /\ UNCHANGED <<rows, clock, commits, raced, dropped>>

\* Mutant of Retry: the event is stamped again for each try.
RetryRestamped(r) ==
  /\ r \in retries
  /\ LET e == [r.event EXCEPT !.stamp = clock] IN
       \/ /\ r.left > 0
          /\ UNCHANGED dropped
          /\ \/ /\ Succeeds(e)
                /\ retries' = retries \ {r}
             \/ /\ Fails(e)
                /\ retries' = (retries \ {r}) \union {[r EXCEPT !.left = @ - 1]}
       \/ /\ r.left = 0
          /\ retries' = retries \ {r}
          /\ dropped' = dropped \union {ChangeOf(e)}
          /\ UNCHANGED <<topic, sent>>
  /\ UNCHANGED <<rows, task, clock, commits, raced>>

\* One more try in the background, or the end of them.
Retry(r) ==
  /\ r \in retries
  /\ \/ /\ r.left > 0
        /\ UNCHANGED dropped
        /\ \/ /\ Succeeds(r.event)
              /\ retries' = retries \ {r}
           \/ /\ Fails(r.event)
              /\ retries' = (retries \ {r}) \union {[r EXCEPT !.left = @ - 1]}
     \/ /\ r.left = 0
        /\ retries' = retries \ {r}
        /\ dropped' = dropped \union {ChangeOf(r.event)}
        /\ UNCHANGED <<topic, sent>>
  /\ UNCHANGED <<rows, task, clock, commits, raced>>

-----------------------------------------------------------------------------
\* DeleteBooking tells nobody.
DeleteBooking(b) ==
  /\ Exists(b)
  /\ rows' = [rows EXCEPT ![b] = NoRow]
  /\ UNCHANGED <<task, retries, topic, clock, commits, raced, dropped, sent>>

\* The process stops: a crash, or a shutdown, which waits for the requests but
\* not for the goroutines of retryPublish.
Stop ==
  /\ task' = [p \in Handler |-> NoTask]
  /\ retries' = {}
  /\ dropped' = dropped
       \union {ChangeOf(task[p]) : p \in {h \in Handler : ~Free(h) /\ ~InStage(h, "act")}}
       \union {ChangeOf(r.event) : r \in retries}
  /\ UNCHANGED <<rows, topic, clock, commits, raced, sent>>

Tick ==
  /\ clock < MaxClock
  /\ clock' = clock + 1
  /\ UNCHANGED <<rows, task, retries, topic, commits, raced, dropped, sent>>

EventsNext ==
  \/ \E p \in Handler, b \in Booking :
       \/ \E t \in Start : CreateBooking(p, b, t) \/ UpdateBookingDetails(p, b, t)
       \/ \E s \in Status : UpdateBookingStatus(p, b, s)
  \/ \E p \in Handler : Act(p) \/ Reread(p) \/ Stamp(p) \/ Send(p)
  \/ \E r \in retries : Retry(r)
  \/ \E b \in Booking : DeleteBooking(b)
  \/ Stop
  \/ Tick

EventsSpec == EventsInit /\ [][EventsNext]_eventsVars

-----------------------------------------------------------------------------
EventsTypeOK ==
  /\ rows \in [Booking -> Row \union {NoRow}]
  /\ task \in [Handler -> Task \union {NoTask}]
  /\ retries \subseteq [event : Event, left : 0..Retries]
  /\ topic \subseteq Event
  /\ clock \in 0..MaxClock
  /\ commits \in [Booking -> 0..MaxCommits]
  /\ raced \subseteq Change
  /\ dropped \subseteq Change
  /\ sent \subseteq Change

\* The events that may exist: in the topic, being sent, or waiting for a retry.
Stamped ==
  topic \union {EventOf(task[p]) : p \in {h \in Handler : InStage(h, "send")}}
         \union {r.event : r \in retries}

\* The changes a request has committed and not told yet.
Carried ==
  {ChangeOf(task[p]) : p \in {h \in Handler : ~Free(h) /\ ~InStage(h, "act")}}
    \union {ChangeOf(r.event) : r \in retries}

\* services.go:117-132, :187-206, :227-238 and :583-608.  Every committed change
\* has been published, is still on its way, or is one of those the service gave
\* up: a lost answer of the database, a failed second read, all retries used, or
\* a stop.  There is no other path on which it is forgotten.
NoSilentLoss ==
  \A b \in Booking : \A n \in 1..commits[b] :
    <<b, n>> \in sent \union Carried \union dropped

\* services.go:581.  The stamps of the events of a booking follow the order of its
\* changes, unless the later change was made before the earlier one was stamped.
StampsFollowChanges ==
  \A e, f \in Stamped :
    (e.booking = f.booking /\ e.change < f.change /\ e.stamp > f.stamp)
      => \E n \in (e.change + 1)..f.change : <<e.booking, n>> \in raced

\* services.go:202-206 and :234-238.  The event of the last change of a booking
\* tells the row as it is, although it was read after the change was committed.
LastChangeIsTold ==
  \A e \in Stamped :
    (Exists(e.booking) /\ e.change = commits[e.booking])
      => rows[e.booking] = [start |-> e.start, status |-> e.status]

=============================================================================
