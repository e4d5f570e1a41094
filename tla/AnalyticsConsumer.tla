--------------------------- MODULE AnalyticsConsumer ---------------------------
(***************************************************************************)
(* One consumer of the analytics service                                   *)
(* (services/analytics/internal/consumer): consumeBookings and             *)
(* consumeSchedule are the same program over different topics and tables.  *)
(* A message becomes a row of a ReplacingMergeTree table keyed by booking  *)
(* or schedule and versioned by occurred_at, which the table stores in     *)
(* whole seconds; the queries read FINAL, that is of each key the row with *)
(* the greatest version and, among equals, the one inserted last.          *)
(*                                                                         *)
(* A message whose tries are exhausted is left without a commit: a later   *)
(* commit passes over it, a restart before that delivers it again.         *)
(***************************************************************************)
EXTENDS ConsumerGroup

CONSTANTS
  Key,        \* bookings, or schedule days
  Value,      \* the other columns
  MaxStamp,   \* bound: occurred_at
  Ticks,      \* instants of occurred_at in a second
  MaxTries,   \* maxRetries
  MaxStops,   \* bound: stops and rebalances of the consumer
  Garbage,    \* a message that is not an event
  NoRow,      \* a key without a row
  Nothing     \* the consumer waits in FetchMessage

Fact == [key : Key, value : Value, stamp : 0..MaxStamp]
Handling == [at : Place, stage : {"insert", "commit"}, tries : 0..(MaxTries - 1)]

ASSUME AnalyticsAssumption ==
  /\ MaxStamp \in Nat /\ Ticks \in Nat \ {0}
  /\ MaxTries \in Nat \ {0} /\ MaxStops \in Nat
  /\ Message \subseteq Fact \union {Garbage} /\ Garbage \notin Fact
  /\ NoRow \notin Fact
  /\ Nothing \notin Handling

VARIABLES
  table,      \* what FINAL reads: [Key -> Fact \union {NoRow}]
  held,       \* the message the goroutine is handling, and how far
  context,    \* of the consumer: live, cancelled in the middle of a try, or before it
  stops,      \* stops and rebalances so far
  inserted,   \* history: the places whose row has been written
  poisoned,   \* history: the places given up after the last try
  cut         \* history: the places given up by a shutdown

vars == <<log, committed, position, table, held, context, stops, inserted, poisoned, cut>>

FactAt(at) == log[at[1]][at[2]]
Second(stamp) == stamp \div Ticks
InStage(s) == held # Nothing /\ held.stage = s

Init ==
  /\ GroupInit
  /\ table = [k \in Key |-> NoRow]
  /\ held = Nothing
  /\ context = "live"
  /\ stops = 0
  /\ inserted = {}
  /\ poisoned = {}
  /\ cut = {}

Publish(q, m) ==
  /\ Produce(q, m)
  /\ UNCHANGED <<table, held, context, stops, inserted, poisoned, cut>>

\* Mutant of FetchMessage: ReadMessage, which commits what it returns.
ReadMessage(at) ==
  /\ held = Nothing
  /\ position[at[1]] < Len(log[at[1]])
  /\ at[2] = position[at[1]] + 1
  /\ position' = [position EXCEPT ![at[1]] = at[2]]
  /\ committed' = [committed EXCEPT ![at[1]] = at[2]]
  /\ held' = [at |-> at, tries |-> 0,
              stage |-> IF FactAt(at) = Garbage THEN "commit" ELSE "insert"]
  /\ UNCHANGED <<log, table, context, stops, inserted, poisoned, cut>>

\* A message that cannot be decoded is committed at once.  FetchMessage may return
\* one that is there although the context is cancelled: its select takes either.
FetchMessage(at) ==
  /\ held = Nothing
  /\ Fetch(at)
  /\ held' = [at |-> at, tries |-> 0,
              stage |-> IF FactAt(at) = Garbage THEN "commit" ELSE "insert"]
  /\ UNCHANGED <<table, context, stops, inserted, poisoned, cut>>

-----------------------------------------------------------------------------
\* Mutant of Replaces: the table has no version column and keeps the last insert.
ReplacesAny(f) == f.stamp = f.stamp

\* The row f is newer than what FINAL reads of its key, or as new and inserted later.
Replaces(f) ==
  table[f.key] = NoRow \/ Second(f.stamp) >= Second(table[f.key].stamp)

\* InsertBooking, InsertSchedule: one more row of the key.
Insert(at) ==
  /\ table' = IF Replaces(FactAt(at)) THEN [table EXCEPT ![FactAt(at).key] = FactAt(at)]
                                      ELSE table
  /\ inserted' = inserted \union {at}

\* A try ends.  One begun with a cancelled context does nothing but fail.
TryEnds(effect) ==
  /\ InStage("insert")
  /\ effect
  /\ context' = IF context = "live" THEN "live" ELSE "cancelled"
  /\ UNCHANGED <<groupVars, stops>>

Done == context # "cancelled" /\ Insert(held.at)
NotDone == UNCHANGED <<table, inserted>>

GoOn(s, n) == [at |-> held.at, stage |-> s, tries |-> n]

TrySucceeds ==
  /\ TryEnds(Done)
  /\ held' = GoOn("commit", 0)
  /\ UNCHANGED <<poisoned, cut>>

\* Mutant of TryFails: the message is committed whatever made the tries end.
TryFailsAndCommits ==
  /\ TryEnds(Done \/ NotDone)
  /\ \/ /\ held.tries + 1 < MaxTries /\ context = "live"
        /\ held' = GoOn("insert", held.tries + 1)
        /\ UNCHANGED <<poisoned, cut>>
     \/ /\ held.tries + 1 = MaxTries
        /\ held' = GoOn("commit", 0)
        /\ poisoned' = poisoned \union {held.at}
        /\ UNCHANGED cut
     \/ /\ context # "live"
        /\ held' = GoOn("commit", 0)
        /\ cut' = cut \union {held.at}
        /\ UNCHANGED poisoned

\* A try that returns an error, inserted or not.  The last one, and any one when
\* the context is cancelled, ends with the message and without a commit.
TryFails ==
  /\ TryEnds(Done \/ NotDone)
  /\ \/ /\ held.tries + 1 < MaxTries /\ context = "live"
        /\ held' = GoOn("insert", held.tries + 1)
        /\ UNCHANGED <<poisoned, cut>>
     \/ /\ held.tries + 1 = MaxTries
        /\ held' = Nothing
        /\ poisoned' = poisoned \union {held.at}
        /\ UNCHANGED cut
     \/ /\ context # "live"
        /\ held' = Nothing
        /\ cut' = cut \union {held.at}
        /\ UNCHANGED poisoned

Commit ==
  /\ InStage("commit")
  /\ CommitMessage(held.at)
  /\ held' = Nothing
  /\ UNCHANGED <<table, context, stops, inserted, poisoned, cut>>

-----------------------------------------------------------------------------
\* SIGTERM cancels the context of the consumer.
Shutdown ==
  /\ context = "live"
  /\ stops < MaxStops
  /\ context' = IF InStage("insert") THEN "cancelling" ELSE "cancelled"
  /\ stops' = stops + 1
  /\ UNCHANGED <<groupVars, table, held, inserted, poisoned, cut>>

\* Once the goroutine has returned, the process ends and is started again.
Restart ==
  /\ context = "cancelled"
  /\ held = Nothing
  /\ Rejoin
  /\ context' = "live"
  /\ UNCHANGED <<table, held, stops, inserted, poisoned, cut>>

\* The process dies and is started again.
Crash ==
  /\ stops < MaxStops
  /\ Rejoin
  /\ held' = Nothing
  /\ context' = "live"
  /\ stops' = stops + 1
  /\ UNCHANGED <<table, inserted, poisoned, cut>>

\* The reader joins its group again, while the goroutine goes on with its message.
Rebalance ==
  /\ stops < MaxStops
  /\ Rejoin
  /\ stops' = stops + 1
  /\ UNCHANGED <<table, held, context, inserted, poisoned, cut>>

Next ==
  \/ \E q \in Partition, m \in Message : Publish(q, m)
  \/ \E at \in Place : FetchMessage(at)
  \/ TrySucceeds \/ TryFails \/ Commit
  \/ Shutdown \/ Restart \/ Crash \/ Rebalance

Spec == Init /\ [][Next]_vars

\* The consumer goroutine keeps running, and a process that ends is started again.
Fairness ==
  /\ WF_vars(\E at \in Place : FetchMessage(at))
  /\ WF_vars(TrySucceeds \/ TryFails)
  /\ WF_vars(Commit)
  /\ WF_vars(Restart)

FairSpec == Spec /\ Fairness

-----------------------------------------------------------------------------
TypeOK ==
  /\ GroupTypeOK
  /\ table \in [Key -> Fact \union {NoRow}]
  /\ held \in Handling \union {Nothing}
  /\ context \in {"live", "cancelling", "cancelled"}
  /\ stops \in 0..MaxStops
  /\ inserted \subseteq Place /\ poisoned \subseteq Place /\ cut \subseteq Place

\* The rows written for the key k.
RowsOf(k) == {FactAt(at) : at \in {p \in inserted : FactAt(p).key = k}}

\* repository.go:25-51 with migrations 001 and 002.  Whatever is delivered again and
\* in whatever order, what is read of a key is one of its rows and of the last second
\* of them: a late or repeated event can take the place of a newer one only when both
\* happened in the same second.
ReadsLastSecond ==
  \A k \in Key :
    /\ (table[k] = NoRow) <=> (RowsOf(k) = {})
    /\ table[k] # NoRow =>
         /\ table[k] \in RowsOf(k)
         /\ \A f \in RowsOf(k) : Second(f.stamp) <= Second(table[k].stamp)

\* The message at place at was cut short by a shutdown, and before the process ended
\* an undecodable one behind it was fetched and committed.
Overtaken(at) ==
  at \in cut /\ \E o \in (at[2] + 1)..committed[at[1]] : FactAt(<<at[1], o>>) = Garbage

\* consumer.go:79-149.  An offset is committed only over messages that are inserted,
\* given up after the last try or undecodable.  One that a shutdown interrupts is
\* delivered again: nothing behind it is committed but an undecodable message.
CommittedIsInserted ==
  \A q \in Partition : \A o \in 1..committed[q] :
    \/ FactAt(<<q, o>>) = Garbage
    \/ <<q, o>> \in inserted \union poisoned
    \/ Overtaken(<<q, o>>)

\* A message that can be decoded is in the topic at place at.
FactThere(at) == at[2] <= Len(log[at[1]]) /\ FactAt(at) # Garbage

\* consumer.go:79-149.  Every event is in the end inserted or given up after its last
\* try, also one whose handling a stop interrupted.
EventsArrive ==
  \A at \in Place : FactThere(at) ~> (at \in inserted \union poisoned \/ Overtaken(at))

=============================================================================
