---------------------------- MODULE ConsumerGroup ----------------------------
(***************************************************************************)
(* A Kafka topic and the reader of one consumer group, as the consumers of *)
(* the client and analytics services use them: FetchMessage hands out the  *)
(* next message of some partition and moves the reader on; CommitMessages  *)
(* stores the offset after the message it is given, and with it gives up   *)
(* every earlier message of the partition; a reader that starts, or joins  *)
(* again after a rebalance, goes on from the stored offsets.               *)
(*                                                                         *)
(* Each service runs one reader, whose goroutine handles one message at a  *)
(* time.  A place is a partition and the offset of a message in it, from 1.*)
(***************************************************************************)
EXTENDS Naturals, Sequences

CONSTANTS
  Partition,
  Message,   \* what a message may carry
  MaxLog     \* bound: messages of a partition

ASSUME GroupAssumption == MaxLog \in Nat

VARIABLES
  log,        \* the topic: [Partition -> Seq(Message)]
  committed,  \* the stored offsets: messages up to here are not delivered again
  position    \* the reader: messages up to here have been handed out

groupVars == <<log, committed, position>>

Place == Partition \X (1..MaxLog)

GroupInit ==
  /\ log = [q \in Partition |-> <<>>]
  /\ committed = [q \in Partition |-> 0]
  /\ position = [q \in Partition |-> 0]

\* Somebody publishes m; the balancer picks the partition.
Produce(q, m) ==
  /\ Len(log[q]) < MaxLog
  /\ log' = [log EXCEPT ![q] = Append(@, m)]
  /\ UNCHANGED <<committed, position>>

\* FetchMessage returns the message at place at.
Fetch(at) ==
  /\ position[at[1]] < Len(log[at[1]])
  /\ at[2] = position[at[1]] + 1
  /\ position' = [position EXCEPT ![at[1]] = at[2]]
  /\ UNCHANGED <<log, committed>>

\* CommitMessages of the message at place at: stored, or an error that the
\* callers log and go on from.
CommitMessage(at) ==
  /\ \/ committed' = [committed EXCEPT ![at[1]] = at[2]]
     \/ UNCHANGED committed
  /\ UNCHANGED <<log, position>>

\* The reader starts again from the stored offsets.
Rejoin ==
  /\ position' = committed
  /\ UNCHANGED <<log, committed>>

GroupTypeOK ==
  /\ log \in [Partition -> Seq(Message)]
  /\ committed \in [Partition -> 0..MaxLog]
  /\ position \in [Partition -> 0..MaxLog]
  /\ \A q \in Partition : committed[q] <= Len(log[q]) /\ position[q] <= Len(log[q])

=============================================================================
