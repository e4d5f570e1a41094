---------------------------- MODULE ClientConsumer ----------------------------
(***************************************************************************)
(* The client service: the consumer of bookings.events                     *)
(* (services/client/internal/consumer), the two tables it writes           *)
(* (internal/repository) and the requests of the barber that delete a      *)
(* client meanwhile.  Every event makes sure that the client exists; a     *)
(* completed booking counts a visit, once per booking, in one transaction  *)
(* with the row of client_processed_events that remembers it.              *)
(*                                                                         *)
(* Events are delivered at least once: an offset is committed after its    *)
(* message is handled, and the process may stop in between.  An operation  *)
(* that returns an error may have been done all the same.                  *)
(***************************************************************************)
EXTENDS ConsumerGroup, FiniteSets

CONSTANTS
  Booking,    \* booking ids
  Client,     \* clients: a barber and a phone
  ClientOf,   \* [Booking -> Client]
  MaxStamp,   \* bound: occurred_at, from 1
  MaxTries,   \* maxRetries
  MaxStops,   \* bound: stops and rebalances of the consumer
  Garbage,    \* a message that is not an event
  NoClient,   \* a client without a row
  Nothing     \* the consumer waits in FetchMessage

Event == [booking : Booking, completed : BOOLEAN, stamp : 1..MaxStamp]
ClientRow == [visits : Nat, last : 0..MaxStamp]
Handling == [at : Place, stage : {"ensure", "visit", "commit"}, tries : 0..(MaxTries - 1)]

ASSUME ClientAssumption ==
  /\ IsFiniteSet(Booking)
  /\ ClientOf \in [Booking -> Client]
  /\ MaxStamp \in Nat /\ MaxTries \in Nat \ {0} /\ MaxStops \in Nat
  /\ Message \subseteq Event \union {Garbage} /\ Garbage \notin Event
  /\ NoClient \notin ClientRow
  /\ Nothing \notin Handling

VARIABLES
  clients,    \* [Client -> ClientRow \union {NoClient}]
  processed,  \* client_processed_events
  held,       \* the message the consumer goroutine is handling, and how far
  context,    \* of the consumer: live, cancelled in the middle of a try, or before it
  stops,      \* stops and rebalances so far
  skipped,    \* history: the places given up
  countedAt,  \* history: the stamp of the event that counted a booking's visit
  forgotten,  \* history: the bookings whose visits went with a deleted client
  deleted     \* history: the clients ever deleted

vars == <<log, committed, position, clients, processed, held, context, stops,
          skipped, countedAt, forgotten, deleted>>

InStage(s) == held # Nothing /\ held.stage = s
Working == InStage("ensure") \/ InStage("visit")
GoOn(s, n) == [at |-> held.at, stage |-> s, tries |-> n]
EventAt(at) == log[at[1]][at[2]]
ClientAt(at) == ClientOf[EventAt(at).booking]
Exists(c) == clients[c] # NoClient
Greatest(m, n) == IF m >= n THEN m ELSE n

Init ==
  /\ GroupInit
  /\ clients = [c \in Client |-> NoClient]
  /\ processed = {}
  /\ held = Nothing
  /\ context = "live"
  /\ stops = 0
  /\ skipped = {}
  /\ countedAt = [b \in Booking |-> 0]
  /\ forgotten = {}
  /\ deleted = {}

Publish(q, m) ==
  /\ Produce(q, m)
  /\ UNCHANGED <<clients, processed, held, context, stops, skipped, countedAt, forgotten, deleted>>

\* Mutant of FetchMessage: ReadMessage, which commits what it returns.
ReadMessage(at) ==
  /\ held = Nothing
  /\ position[at[1]] < Len(log[at[1]])
  /\ at[2] = position[at[1]] + 1
  /\ position' = [position EXCEPT ![at[1]] = at[2]]
  /\ committed' = [committed EXCEPT ![at[1]] = at[2]]
  /\ held' = [at |-> at, tries |-> 0,
              stage |-> IF EventAt(at) = Garbage THEN "commit" ELSE "ensure"]
  /\ UNCHANGED <<log, clients, processed, context, stops, skipped, countedAt, forgotten, deleted>>

\* A message that cannot be decoded is committed at once.  FetchMessage may return
\* one that is there although the context is cancelled: its select takes either.
FetchMessage(at) ==
  /\ held = Nothing
  /\ Fetch(at)
  /\ held' = [at |-> at, tries |-> 0,
              stage |-> IF EventAt(at) = Garbage THEN "commit" ELSE "ensure"]
  /\ UNCHANGED <<clients, processed, context, stops, skipped, countedAt, forgotten, deleted>>

-----------------------------------------------------------------------------
\* What the two operations do to the tables.
EnsureClient(c) ==
  /\ clients' = [clients EXCEPT ![c] = IF Exists(c) THEN @ ELSE [visits |-> 0, last |-> 0]]
  /\ UNCHANGED <<processed, countedAt>>

\* Mutant of UpsertByBooking: the booking is remembered, and nothing looks.
UpsertAgain(b, stamp) ==
  /\ processed' = processed \union {b}
  /\ countedAt' = [countedAt EXCEPT ![b] = stamp]
  /\ clients' = [clients EXCEPT ![ClientOf[b]] =
       IF Exists(ClientOf[b])
         THEN [visits |-> @.visits + 1, last |-> Greatest(@.last, stamp)]
         ELSE [visits |-> 1, last |-> stamp]]

\* Mutant of UpsertByBooking: the last visit is the one of the last event.
UpsertLatest(b, stamp) ==
  \/ /\ b \in processed
     /\ UNCHANGED <<clients, processed, countedAt>>
  \/ /\ b \notin processed
     /\ processed' = processed \union {b}
     /\ countedAt' = [countedAt EXCEPT ![b] = stamp]
     /\ clients' = [clients EXCEPT ![ClientOf[b]] =
          [visits |-> IF Exists(ClientOf[b]) THEN @.visits + 1 ELSE 1, last |-> stamp]]

UpsertByBooking(b, stamp) ==
  \/ /\ b \in processed
     /\ UNCHANGED <<clients, processed, countedAt>>
  \/ /\ b \notin processed
     /\ processed' = processed \union {b}
     /\ countedAt' = [countedAt EXCEPT ![b] = stamp]
     /\ clients' = [clients EXCEPT ![ClientOf[b]] =
          IF Exists(ClientOf[b])
            THEN [visits |-> @.visits + 1, last |-> Greatest(@.last, stamp)]
            ELSE [visits |-> 1, last |-> stamp]]

\* The operation of the stage the consumer is in.
Operation ==
  LET e == EventAt(held.at) IN
    IF held.stage = "ensure" THEN EnsureClient(ClientAt(held.at))
                             ELSE UpsertByBooking(e.booking, e.stamp)

-----------------------------------------------------------------------------
\* A try ends.  One begun with a cancelled context does nothing but fail.
TryEnds(effect) ==
  /\ Working
  /\ effect
  /\ context' = IF context = "live" THEN "live" ELSE "cancelled"
  /\ UNCHANGED <<groupVars, stops, forgotten, deleted>>

Done == context # "cancelled" /\ Operation
NotDone == UNCHANGED <<clients, processed, countedAt>>

\* Mutant of TrySucceeds: a client is made sure of and no visit counted.
TryEnsures ==
  /\ TryEnds(Done)
  /\ held' = GoOn("commit", 0)
  /\ UNCHANGED skipped

\* A try that succeeds: after the client the visit, if there is one.
TrySucceeds ==
  /\ TryEnds(Done)
  /\ \/ /\ InStage("ensure") /\ EventAt(held.at).completed
        /\ held' = GoOn("visit", 0)
     \/ /\ InStage("visit") \/ ~EventAt(held.at).completed
        /\ held' = GoOn("commit", 0)
  /\ UNCHANGED skipped

\* A try that returns an error, done or not.  The last one, and any one when the
\* context is cancelled, gives the message up.
TryFails ==
  /\ TryEnds(Done \/ NotDone)
  /\ IF held.tries + 1 = MaxTries \/ context # "live"
       THEN /\ held' = GoOn("commit", 0)
            /\ skipped' = skipped \union {held.at}
       ELSE /\ held' = GoOn(held.stage, held.tries + 1)
            /\ UNCHANGED skipped

\* The message is committed whatever became of it.
Commit ==
  /\ InStage("commit")
  /\ CommitMessage(held.at)
  /\ held' = Nothing
  /\ UNCHANGED <<clients, processed, context, stops, skipped, countedAt, forgotten, deleted>>

-----------------------------------------------------------------------------
\* SIGTERM cancels the context of the consumer.
Shutdown ==
  /\ context = "live"
  /\ stops < MaxStops
  /\ context' = IF Working THEN "cancelling" ELSE "cancelled"
  /\ stops' = stops + 1
  /\ UNCHANGED <<groupVars, clients, processed, held, skipped, countedAt, forgotten, deleted>>

\* Once the goroutine has returned, the process ends and is started again.
Restart ==
  /\ context = "cancelled"
  /\ held = Nothing
  /\ Rejoin
  /\ context' = "live"
  /\ UNCHANGED <<clients, processed, held, stops, skipped, countedAt, forgotten, deleted>>

\* The process dies and is started again.
Crash ==
  /\ stops < MaxStops
  /\ Rejoin
  /\ held' = Nothing
  /\ context' = "live"
  /\ stops' = stops + 1
  /\ UNCHANGED <<clients, processed, skipped, countedAt, forgotten, deleted>>

\* The reader loses its place in the group and joins again, while the goroutine
\* goes on with the message it has.
Rebalance ==
  /\ stops < MaxStops
  /\ Rejoin
  /\ stops' = stops + 1
  /\ UNCHANGED <<clients, processed, held, context, skipped, countedAt, forgotten, deleted>>

\* The barber deletes a client: the visits go, client_processed_events stays.
DeleteClient(c) ==
  /\ Exists(c)
  /\ clients' = [clients EXCEPT ![c] = NoClient]
  /\ forgotten' = forgotten \union {b \in processed : ClientOf[b] = c}
  /\ deleted' = deleted \union {c}
  /\ UNCHANGED <<groupVars, processed, held, context, stops, skipped, countedAt>>

Next ==
  \/ \E q \in Partition, m \in Message : Publish(q, m)
  \/ \E at \in Place : FetchMessage(at)
  \/ TrySucceeds \/ TryFails \/ Commit
  \/ Shutdown \/ Restart \/ Crash \/ Rebalance
  \/ \E c \in Client : DeleteClient(c)

Spec == Init /\ [][Next]_vars

\* The consumer goroutine keeps running, and a process that ends is started again.
Fairness ==
  /\ WF_vars(\E at \in Place : FetchMessage(at))
  /\ WF_vars(TrySucceeds \/ TryFails)
  /\ WF_vars(Commit)
  /\ WF_vars(Restart)

FairSpec == Spec /\ Fairness

-----------------------------------------------------------------------------
TypeOK ==
  /\ GroupTypeOK
  /\ clients \in [Client -> ClientRow \union {NoClient}]
  /\ processed \subseteq Booking
  /\ held \in Handling \union {Nothing}
  /\ context \in {"live", "cancelling", "cancelled"}
  /\ stops \in 0..MaxStops
  /\ skipped \subseteq Place
  /\ countedAt \in [Booking -> 0..MaxStamp]
  /\ forgotten \subseteq Booking
  /\ deleted \subseteq Client

\* The bookings a client's row stands for.
Kept(c) == {b \in processed \ forgotten : ClientOf[b] = c}

\* repository.go:41-42.  A client's counter is the number of its bookings in
\* client_processed_events, less those that went with a deleted row: no event
\* counts twice however often, and in whatever order, it is delivered.
VisitsMatch ==
  \A c \in Client : Exists(c) => clients[c].visits = Cardinality(Kept(c))

\* repository.go:70.  The last visit is the latest of the visits counted, though
\* they are counted in any order.
LastVisitIsLatest ==
  \A c \in Client : Exists(c) =>
    /\ \A b \in Kept(c) : countedAt[b] <= clients[c].last
    /\ clients[c].last = 0 \/ \E b \in Kept(c) : countedAt[b] = clients[c].last

\* What the consumer owes to the message at place at.
Handled(at) ==
  \/ EventAt(at) = Garbage
  \/ at \in skipped
  \/ /\ Exists(ClientAt(at)) \/ ClientAt(at) \in deleted
     /\ EventAt(at).completed => EventAt(at).booking \in processed

\* consumer.go:93-120.  An offset is never committed over a message that has not
\* been handled or given up: a stop, a rebalance or a failed commit between the
\* tables and the offset may repeat work but loses none.
CommittedIsHandled ==
  \A q \in Partition : \A o \in 1..committed[q] : Handled(<<q, o>>)

\* A completed booking is told at place at.
VisitAt(at) ==
  at[2] <= Len(log[at[1]]) /\ EventAt(at) # Garbage /\ EventAt(at).completed

\* consumer.go:102-113 and :124-143.  Every completed booking in the topic is in the
\* end counted, or given up after its last try or by a shutdown.
VisitsAreCounted ==
  \A at \in Place : VisitAt(at) ~>
    (VisitAt(at) /\ (EventAt(at).booking \in processed \/ at \in skipped))

=============================================================================
