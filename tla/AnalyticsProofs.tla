---------------------------- MODULE AnalyticsProofs ----------------------------
(***************************************************************************)
(* What the analytics service stores and answers, proved for any number of *)
(* events, bookings and statements: the consumer that fills the tables     *)
(* (AnalyticsConsumer), a barber's statistics (Statistics) and the         *)
(* calendar they use.                                                      *)
(***************************************************************************)
EXTENDS AnalyticsConsumer, Statistics, Integers, FiniteSetTheorems, WellFoundedInduction, TLAPS

-----------------------------------------------------------------------------
(* The consumer. *)

\* The place o of q needs no second delivery.
Settled(at) == FactAt(at) = Garbage \/ at \in inserted \union poisoned

\* It was cut short, and an undecodable message stands behind it, at n at the latest.
Behind(q, o, n) == <<q, o>> \in cut /\ \E g \in (o + 1)..n : FactAt(<<q, g>>) = Garbage

\* It was cut short by the shutdown that is under way.
CutNow(at) == at \in cut /\ context = "cancelled"

\* The message at <<q, n>> is still to be inserted ...
InsertInv(q, n) ==
  /\ FactAt(<<q, n>>) # Garbage
  /\ \A o \in 1..(n - 1) : Settled(<<q, o>>) \/ Behind(q, o, n - 1) \/ CutNow(<<q, o>>)

\* ... or its offset may be committed.
CommitInv(q, n) ==
  /\ Settled(<<q, n>>)
  /\ \A o \in 1..(n - 1) : Settled(<<q, o>>) \/ Behind(q, o, n)

\* The message in hand is at one of these two stages.
HeldInv ==
  held # Nothing =>
    /\ held.at[2] <= Len(log[held.at[1]])
    /\ held.stage = "insert" => InsertInv(held.at[1], held.at[2])
    /\ held.stage = "commit" => CommitInv(held.at[1], held.at[2])

\* A place that was handed out is settled, cut short, or in hand.
PositionInv ==
  \A q \in Partition : \A o \in 1..position[q] :
    \/ Settled(<<q, o>>)
    \/ Behind(q, o, position[q])
    \/ CutNow(<<q, o>>)
    \/ held # Nothing /\ held.at = <<q, o>>

\* What was inserted is in the topic.
InsertedInv ==
  \A at \in inserted : at[2] <= Len(log[at[1]]) /\ FactAt(at) # Garbage

\* The invariant.
IInv == HeldInv /\ PositionInv /\ InsertedInv /\ CommittedIsInserted /\ ReadsLastSecond

-----------------------------------------------------------------------------
\* A place is a partition and an offset in it.
LEMMA PlaceType == \A at \in Place : at[1] \in Partition /\ at[2] \in 1..MaxLog
BY DEF Place

\* What the topic holds is a fact or garbage.
LEMMA FactType ==
  ASSUME TypeOK, NEW q \in Partition, NEW o \in 1..Len(log[q])
  PROVE  FactAt(<<q, o>>) \in Fact \union {Garbage}
<1>1. log[q] \in Seq(Message)
  BY DEF TypeOK, GroupTypeOK
<1>2. FactAt(<<q, o>>) \in Message
  BY <1>1 DEF FactAt
<1> QED BY <1>2, AnalyticsAssumption

\* The types hold at the start.
LEMMA TypeInit == Init => TypeOK
<1> SUFFICES ASSUME Init PROVE TypeOK
  OBVIOUS
<1>1. GroupTypeOK
  BY GroupAssumption DEF Init, GroupInit, GroupTypeOK
<1> QED BY <1>1, AnalyticsAssumption DEF Init, TypeOK

\* The message in hand is one of the topic.
LEMMA HeldPlace ==
  ASSUME TypeOK, HeldInv, held # Nothing
  PROVE  /\ held \in Handling /\ held.at \in Place
         /\ held.at = <<held.at[1], held.at[2]>>
         /\ held.at[1] \in Partition
         /\ held.at[2] \in 1..Len(log[held.at[1]]) /\ held.at[2] \in 1..MaxLog
<1>1. held \in Handling /\ held.at \in Place /\ held.at = <<held.at[1], held.at[2]>>
  BY DEF TypeOK, Handling, Place
<1> QED BY <1>1, PlaceType DEF HeldInv, TypeOK, GroupTypeOK

\* A message that waits to be inserted is a fact.
LEMMA HeldFact ==
  ASSUME TypeOK, HeldInv, InStage("insert")
  PROVE  /\ held \in Handling /\ held.at \in Place
         /\ held.at[1] \in Partition /\ held.at[2] \in 1..Len(log[held.at[1]])
         /\ FactAt(held.at) \in Fact
BY HeldPlace, FactType DEF HeldInv, InsertInv, InStage

\* Every step keeps the types.
LEMMA TypeStep == TypeOK /\ HeldInv /\ [Next]_vars => TypeOK'
<1> SUFFICES ASSUME TypeOK, HeldInv, [Next]_vars PROVE TypeOK'
  OBVIOUS
<1> USE AnalyticsAssumption, GroupAssumption
<1>1. ASSUME NEW q \in Partition, NEW m \in Message, Publish(q, m) PROVE TypeOK'
  <2>1. log[q] \in Seq(Message)
    BY DEF TypeOK, GroupTypeOK
  <2>2. /\ log' \in [Partition -> Seq(Message)]
        /\ \A i \in Partition : Len(log'[i]) >= Len(log[i])
    BY <1>1, <2>1 DEF Publish, Produce, TypeOK, GroupTypeOK
  <2>3. GroupTypeOK'
    BY <1>1, <2>2 DEF Publish, Produce, TypeOK, GroupTypeOK
  <2> QED BY <1>1, <2>3 DEF Publish, TypeOK
<1>2. ASSUME NEW at \in Place, FetchMessage(at) PROVE TypeOK'
  <2>1. at[1] \in Partition /\ at[2] \in 1..MaxLog
    BY PlaceType
  <2>2. GroupTypeOK'
    BY <1>2, <2>1 DEF FetchMessage, Fetch, TypeOK, GroupTypeOK
  <2>3. held' \in Handling
    BY <1>2 DEF FetchMessage, Handling
  <2> QED BY <1>2, <2>2, <2>3 DEF FetchMessage, TypeOK
<1>3. ASSUME TrySucceeds \/ TryFails PROVE TypeOK'
  <2>1. held \in Handling /\ held.at \in Place
    BY <1>3 DEF TrySucceeds, TryFails, TryEnds, InStage, TypeOK, Handling
  <2>2. GroupTypeOK' /\ stops' \in 0..MaxStops /\ context' \in {"live", "cancelled"}
    BY <1>3 DEF TrySucceeds, TryFails, TryEnds, groupVars, TypeOK, GroupTypeOK
  <2>3. \A n \in 0..(MaxTries - 1), s \in {"insert", "commit"} : GoOn(s, n) \in Handling
    BY <2>1 DEF GoOn, Handling
  <2>4. held' \in Handling \union {Nothing}
    BY <1>3, <2>1, <2>3 DEF TrySucceeds, TryFails, Handling
  <2>5. inserted' \subseteq Place /\ poisoned' \subseteq Place /\ cut' \subseteq Place
    BY <1>3, <2>1 DEF TrySucceeds, TryFails, TryEnds, Done, NotDone, Insert, TypeOK
  <2>6. table' \in [Key -> Fact \union {NoRow}]
    <3>1. CASE UNCHANGED table
      BY <3>1 DEF TypeOK
    <3>2. CASE Insert(held.at)
      BY <1>3, <3>2, HeldFact DEF Insert, TypeOK, Fact, TrySucceeds, TryFails, TryEnds
    <3> QED BY <1>3, <3>1, <3>2 DEF TrySucceeds, TryFails, TryEnds, Done, NotDone
  <2> QED BY <2>2, <2>4, <2>5, <2>6 DEF TypeOK
<1>4. CASE Commit
  <2>1. /\ held.at[1] \in Partition /\ held.at[2] \in 0..MaxLog
        /\ held.at[2] <= Len(log[held.at[1]])
    BY <1>4, HeldPlace DEF Commit, InStage
  <2> QED BY <1>4, <2>1 DEF Commit, CommitMessage, TypeOK, GroupTypeOK
<1>5. CASE Shutdown
  BY <1>5 DEF Shutdown, groupVars, TypeOK, GroupTypeOK
<1>6. CASE Restart \/ Crash \/ Rebalance
  BY <1>6 DEF Restart, Crash, Rebalance, Rejoin, TypeOK, GroupTypeOK
<1>7. CASE UNCHANGED vars
  BY <1>7 DEF vars, TypeOK, GroupTypeOK
<1> QED BY <1>1, <1>2, <1>3, <1>4, <1>5, <1>6, <1>7 DEF Next

-----------------------------------------------------------------------------
\* The topic only grows: what stands in it stays.
LEMMA LogFrame ==
  ASSUME TypeOK, [Next]_vars, NEW q \in Partition, NEW o \in 1..Len(log[q])
  PROVE  Len(log'[q]) \in Nat /\ o <= Len(log'[q]) /\ FactAt(<<q, o>>)' = FactAt(<<q, o>>)
<1>1. ASSUME NEW p \in Partition, NEW m \in Message, Publish(p, m)
      PROVE  Len(log'[q]) \in Nat /\ o <= Len(log'[q]) /\ log'[q][o] = log[q][o]
  <2>1. log[q] \in Seq(Message) /\ log[p] \in Seq(Message)
    BY DEF TypeOK, GroupTypeOK
  <2> QED BY <1>1, <2>1 DEF Publish, Produce, TypeOK, GroupTypeOK
<1>2. (\E p \in Partition, m \in Message : Publish(p, m)) \/ log' = log
  BY DEF Next, vars, FetchMessage, Fetch, TrySucceeds, TryFails, TryEnds, groupVars, Commit,
         CommitMessage, Shutdown, Restart, Crash, Rebalance, Rejoin
<1>3. Len(log[q]) \in Nat
  BY DEF TypeOK, GroupTypeOK
<1> QED BY <1>1, <1>2, <1>3 DEF FactAt

\* What was inserted, or given up, stays so.
LEMMA HistoryGrows ==
  [Next]_vars => inserted \subseteq inserted' /\ poisoned \subseteq poisoned' /\ cut \subseteq cut'
BY DEF Next, vars, Publish, FetchMessage, TrySucceeds, TryFails, TryEnds, Done, NotDone, Insert,
       Commit, Shutdown, Restart, Crash, Rebalance

\* A settled place stays settled ...
LEMMA SettledStays ==
  ASSUME TypeOK, [Next]_vars, NEW q \in Partition, NEW o \in 1..Len(log[q]), Settled(<<q, o>>)
  PROVE  Settled(<<q, o>>)'
BY LogFrame, HistoryGrows DEF Settled

\* ... and garbage stays behind a place that was cut short ...
LEMMA BehindStays ==
  ASSUME TypeOK, [Next]_vars, NEW q \in Partition, NEW n \in 0..Len(log[q]),
         NEW o \in Nat \ {0}, Behind(q, o, n)
  PROVE  Behind(q, o, n)'
<1>1. PICK g \in (o + 1)..n : FactAt(<<q, g>>) = Garbage
  BY DEF Behind
<1>2. g \in 1..Len(log[q])
  BY <1>1 DEF TypeOK, GroupTypeOK
<1>3. FactAt(<<q, g>>)' = Garbage
  BY <1>1, <1>2, LogFrame
<1> QED BY <1>3, <1>1, HistoryGrows DEF Behind

\* ... however far one looks.
LEMMA BehindFurther ==
  ASSUME NEW q, NEW o \in Nat, NEW n \in Int, NEW m \in Int, n <= m, Behind(q, o, n)
  PROVE  Behind(q, o, m)
BY DEF Behind

\* A message may still be inserted after any step but a shutdown.
LEMMA InsertStays ==
  ASSUME TypeOK, [Next]_vars, context' = context \/ context # "cancelled",
         NEW q \in Partition, NEW n \in 1..Len(log[q]), InsertInv(q, n)
  PROVE  InsertInv(q, n)'
<1>1. FactAt(<<q, n>>)' # Garbage
  BY LogFrame DEF InsertInv
<1>2. ASSUME NEW o \in 1..(n - 1)
      PROVE  (Settled(<<q, o>>) \/ Behind(q, o, n - 1) \/ CutNow(<<q, o>>))'
  <2>1. Len(log[q]) \in Nat
    BY DEF TypeOK, GroupTypeOK
  <2>2. o \in Nat \ {0} /\ o \in 1..Len(log[q]) /\ n - 1 \in 0..Len(log[q])
    BY <2>1
  <2>3. CASE Settled(<<q, o>>)
    BY <2>2, <2>3, SettledStays
  <2>4. CASE Behind(q, o, n - 1)
    BY <2>2, <2>4, BehindStays
  <2>5. CASE CutNow(<<q, o>>)
    BY <2>5, HistoryGrows DEF CutNow
  <2> QED BY <1>2, <2>3, <2>4, <2>5 DEF InsertInv
<1> QED BY <1>1, <1>2 DEF InsertInv

\* An offset may still be committed after any step.
LEMMA CommitStays ==
  ASSUME TypeOK, [Next]_vars, NEW q \in Partition, NEW n \in 1..Len(log[q]), CommitInv(q, n)
  PROVE  CommitInv(q, n)'
<1>1. Settled(<<q, n>>)'
  BY SettledStays DEF CommitInv
<1>2. ASSUME NEW o \in 1..(n - 1)
      PROVE  (Settled(<<q, o>>) \/ Behind(q, o, n))'
  <2>1. Len(log[q]) \in Nat
    BY DEF TypeOK, GroupTypeOK
  <2>2. o \in Nat \ {0} /\ o \in 1..Len(log[q]) /\ n \in 0..Len(log[q])
    BY <2>1
  <2> QED BY <1>2, <2>2, SettledStays, BehindStays DEF CommitInv
<1> QED BY <1>1, <1>2 DEF CommitInv

\* Whatever the consumer goes on to do, the places before the message in hand are settled.
LEMMA HeldStep ==
  TypeOK /\ HeldInv /\ PositionInv /\ [Next]_vars => HeldInv'
<1> SUFFICES ASSUME TypeOK, HeldInv, PositionInv, [Next]_vars, held' # Nothing PROVE HeldInv'
  BY DEF HeldInv
<1>1. CASE held # Nothing /\ held'.at = held.at /\ held'.stage = held.stage
            /\ (context' = context \/ context # "cancelled")
  <2> DEFINE q == held.at[1]
             n == held.at[2]
  <2>1. q \in Partition /\ n \in 1..Len(log[q])
    BY <1>1, HeldPlace
  <2>2. n <= Len(log'[q])
    BY <2>1, LogFrame
  <2>3. InsertInv(q, n) => InsertInv(q, n)'
    BY <1>1, <2>1, InsertStays
  <2>4. CommitInv(q, n) => CommitInv(q, n)'
    BY <1>1, <2>1, CommitStays
  <2> QED BY <1>1, <2>2, <2>3, <2>4 DEF HeldInv
<1>2. ASSUME NEW at \in Place, FetchMessage(at) PROVE HeldInv'
  <2> DEFINE q == at[1]
             n == at[2]
  <2>1. /\ at = <<q, n>> /\ q \in Partition /\ n \in Nat \ {0} /\ n - 1 = position[q]
        /\ Len(log[q]) \in Nat /\ n <= Len(log[q]) /\ held = Nothing
        /\ log' = log /\ context' = context
    BY <1>2 DEF Place, FetchMessage, Fetch, TypeOK, GroupTypeOK
  <2>2. held'.at = at /\ held'.stage = IF FactAt(at) = Garbage THEN "commit" ELSE "insert"
    BY <1>2 DEF FetchMessage
  <2> HIDE DEF q, n
  <2>3. \A o \in 1..(n - 1) : Settled(<<q, o>>) \/ Behind(q, o, n - 1) \/ CutNow(<<q, o>>)
    BY <2>1 DEF PositionInv
  <2>4. CASE FactAt(at) = Garbage
    <3>1. \A o \in 1..(n - 1) : Settled(<<q, o>>) \/ Behind(q, o, n)
      BY <2>1, <2>3, <2>4 DEF Behind, CutNow
    <3>2. CommitInv(q, n)'
      BY <2>1, <2>4, <3>1, CommitStays DEF CommitInv, Settled
    <3> QED BY <2>1, <2>2, <2>4, <3>2 DEF HeldInv
  <2>5. CASE FactAt(at) # Garbage
    <3>1. InsertInv(q, n)'
      BY <2>1, <2>3, <2>5, InsertStays DEF InsertInv
    <3> QED BY <2>1, <2>2, <2>5, <3>1 DEF HeldInv
  <2> QED BY <2>4, <2>5
<1>3. CASE TrySucceeds
  <2>0. held.at = <<held.at[1], held.at[2]>> /\ held.at[1] \in Partition
        /\ held.at[2] \in 1..Len(log[held.at[1]])
    BY <1>3, HeldPlace DEF TrySucceeds, TryEnds, InStage
  <2>1. PICK q \in Partition, n \in Nat : held.at = <<q, n>> /\ n \in 1..Len(log[q])
    BY <2>0
  <2>1a. /\ InsertInv(q, n) /\ context # "cancelled" /\ log' = log
         /\ held'.at = <<q, n>> /\ held'.stage = "commit" /\ <<q, n>> \in inserted'
    BY <1>3, <2>1 DEF TrySucceeds, TryEnds, InStage, GoOn, Done, Insert, groupVars, HeldInv
  <2>2. ASSUME NEW o \in 1..(n - 1)
        PROVE  (Settled(<<q, o>>) \/ Behind(q, o, n))'
    <3>1. Len(log[q]) \in Nat
      BY <2>1 DEF TypeOK, GroupTypeOK
    <3>2. o \in Nat \ {0} /\ o \in 1..Len(log[q]) /\ n \in 0..Len(log[q]) /\ n \in Nat
      BY <2>1, <3>1
    <3>3. Settled(<<q, o>>) \/ Behind(q, o, n)
      BY <2>1a, <2>2, <3>2, BehindFurther DEF InsertInv, CutNow
    <3> QED BY <3>2, <3>3, SettledStays, BehindStays
  <2>3. Settled(<<q, n>>)'
    BY <2>1a DEF Settled
  <2>4. CommitInv(q, n)'
    BY <2>2, <2>3 DEF CommitInv
  <2> QED BY <2>1, <2>1a, <2>4 DEF HeldInv
<1>4. CASE TryFails
  BY <1>1, <1>4 DEF TryFails, TryEnds, InStage, GoOn
<1>5. CASE \E q \in Partition, m \in Message : Publish(q, m)
  BY <1>1, <1>5 DEF Publish
<1>6. CASE Commit \/ Restart \/ Crash
  BY <1>6 DEF Commit, Restart, Crash
<1>7. CASE Shutdown \/ Rebalance \/ UNCHANGED vars
  BY <1>1, <1>7 DEF Shutdown, Rebalance, vars
<1> QED BY <1>2, <1>3, <1>4, <1>5, <1>6, <1>7 DEF Next

\* Every place that was handed out is settled, cut short, or in hand.
LEMMA PositionStep ==
  TypeOK /\ HeldInv /\ PositionInv /\ CommittedIsInserted /\ [Next]_vars => PositionInv'
<1> SUFFICES ASSUME TypeOK, HeldInv, PositionInv, CommittedIsInserted, [Next]_vars,
                    NEW q \in Partition, NEW o \in 1..position'[q]
             PROVE  (\/ Settled(<<q, o>>)
                     \/ Behind(q, o, position[q])
                     \/ CutNow(<<q, o>>)
                     \/ held # Nothing /\ held.at = <<q, o>>)'
  BY DEF PositionInv
<1> DEFINE Accounted == \/ Settled(<<q, o>>)
                        \/ Behind(q, o, position[q])
                        \/ CutNow(<<q, o>>)
                        \/ held # Nothing /\ held.at = <<q, o>>
<1>0. /\ Len(log[q]) \in Nat /\ position[q] \in 0..Len(log[q]) /\ committed[q] \in 0..Len(log[q])
      /\ o \in Nat \ {0}
  BY TypeStep DEF TypeOK, GroupTypeOK
<1>1. ASSUME o <= position[q], position[q] <= position'[q], position'[q] \in Nat,
             context' = context \/ context # "cancelled",
             (held # Nothing /\ held.at = <<q, o>>) => Accounted'
      PROVE  Accounted'
  <2>1. o \in 1..position[q] /\ o \in 1..Len(log[q])
    BY <1>0, <1>1
  <2>2. CASE Settled(<<q, o>>)
    BY <2>1, <2>2, SettledStays
  <2>3. CASE Behind(q, o, position[q])
    <3>1. Behind(q, o, position[q])'
      <4>1. PICK n \in 0..Len(log[q]) : n = position[q]
        BY <1>0
      <4>2. Behind(q, o, n)'
        BY <1>0, <2>3, <4>1, BehindStays
      <4> QED BY <1>0, <1>1, <4>1, <4>2 DEF Behind
    <3> QED BY <3>1
  <2>4. CASE CutNow(<<q, o>>)
    BY <1>1, <2>4, HistoryGrows DEF CutNow
  <2> QED BY <1>1, <2>1, <2>2, <2>3, <2>4 DEF PositionInv
<1>2. ASSUME NEW at \in Place, FetchMessage(at) PROVE Accounted'
  <2>1. /\ held = Nothing /\ held' # Nothing /\ held'.at = at /\ context' = context
        /\ position[at[1]] = at[2] - 1 /\ at[2] \in Nat
        /\ position' = [position EXCEPT ![at[1]] = at[2]] /\ position \in [Partition -> 0..MaxLog]
        /\ at = <<at[1], at[2]>>
    BY <1>2, AnalyticsAssumption DEF FetchMessage, Fetch, Place, TypeOK, GroupTypeOK, Handling
  <2>2. CASE o <= position[q]
    BY <1>0, <1>1, <2>1, <2>2
  <2>3. CASE ~(o <= position[q])
    <3>1. q = at[1] /\ o = at[2]
      BY <1>0, <2>1, <2>3
    <3> QED BY <2>1, <3>1
  <2> QED BY <2>2, <2>3
<1>3. CASE TrySucceeds \/ TryFails
  <2>1. position' = position /\ held # Nothing
    BY <1>3 DEF TrySucceeds, TryFails, TryEnds, groupVars, InStage
  <2>2. ASSUME held.at = <<q, o>> PROVE Accounted'
    <3>1. CASE TrySucceeds
      BY <2>2, <3>1 DEF TrySucceeds, TryEnds, Done, Insert, Settled
    <3>2. CASE TryFails
      <4>1. CASE held.tries + 1 < MaxTries /\ held' = GoOn("insert", held.tries + 1)
        <5>1. held'.at = held.at /\ held' \in Handling
          BY <2>1, <4>1, HeldPlace, AnalyticsAssumption DEF GoOn, Handling
        <5> QED BY <2>2, <5>1, AnalyticsAssumption
      <4>2. CASE poisoned' = poisoned \union {held.at}
        BY <2>2, <4>2 DEF Settled
      <4>3. CASE context # "live" /\ cut' = cut \union {held.at}
        BY <2>2, <3>2, <4>3 DEF CutNow, TryFails, TryEnds
      <4> QED BY <3>2, <4>1, <4>2, <4>3 DEF TryFails
    <3> QED BY <1>3, <3>1, <3>2
  <2>3. context' = context \/ context # "cancelled"
    BY <1>3 DEF TrySucceeds, TryFails, TryEnds
  <2> QED BY <1>0, <1>1, <2>1, <2>2, <2>3
<1>4. CASE Commit
  <2>1. position' = position /\ context' = context
    BY <1>4 DEF Commit, CommitMessage
  <2>2. ASSUME held # Nothing, held.at = <<q, o>> PROVE Accounted'
    <3>1. Settled(<<q, o>>)
      BY <1>4, <2>2 DEF Commit, InStage, HeldInv, CommitInv
    <3> QED BY <1>0, <1>4, <2>1, <2>2, <3>1, HeldPlace, SettledStays
  <2> QED BY <1>0, <1>1, <2>1, <2>2
<1>5. CASE Restart \/ Crash \/ Rebalance
  <2>1. position' = committed /\ committed' = committed
    BY <1>5 DEF Restart, Crash, Rebalance, Rejoin
  <2>2. o \in 1..committed[q] /\ o \in 1..Len(log[q])
    BY <1>0, <2>1
  <2>3. PICK n \in 0..Len(log[q]) : n = committed[q]
    BY <1>0
  <2>4. Settled(<<q, o>>) \/ Behind(q, o, n)
    BY <2>2, <2>3 DEF CommittedIsInserted, Overtaken, Settled, Behind
  <2>5. Settled(<<q, o>>)' \/ Behind(q, o, n)'
    BY <1>0, <2>2, <2>4, SettledStays, BehindStays
  <2>6. position'[q] = n
    BY <2>1, <2>3
  <2> QED BY <2>5, <2>6
<1>6. CASE Shutdown \/ UNCHANGED vars \/ (\E p \in Partition, m \in Message : Publish(p, m))
  <2>1. /\ position' = position /\ held' = held
        /\ context' = context \/ context # "cancelled"
    BY <1>6 DEF Shutdown, vars, groupVars, Publish, Produce
  <2> QED BY <1>0, <1>1, <2>1
<1> QED BY <1>2, <1>3, <1>4, <1>5, <1>6 DEF Next

\* Only Commit moves the stored offset, and CommitInv is what it may rely on.
LEMMA CommittedStep ==
  TypeOK /\ HeldInv /\ CommittedIsInserted /\ [Next]_vars => CommittedIsInserted'
<1> SUFFICES ASSUME TypeOK, HeldInv, CommittedIsInserted, [Next]_vars,
                    NEW q \in Partition, NEW o \in 1..committed'[q]
             PROVE  (Settled(<<q, o>>) \/ Behind(q, o, committed[q]))'
  BY DEF CommittedIsInserted, Settled, Behind, Overtaken
<1>1. /\ Len(log[q]) \in Nat /\ committed[q] \in 0..Len(log[q]) /\ o \in Nat \ {0}
  BY DEF TypeOK, GroupTypeOK
<1>2. CASE committed'[q] = committed[q]
  <2>1. PICK n \in 0..Len(log[q]) : n = committed[q]
    BY <1>1
  <2>2. o \in 1..Len(log[q]) /\ (Settled(<<q, o>>) \/ Behind(q, o, n))
    BY <1>1, <1>2, <2>1 DEF CommittedIsInserted, Overtaken, Settled, Behind
  <2>3. Settled(<<q, o>>)' \/ Behind(q, o, n)'
    BY <1>1, <2>2, SettledStays, BehindStays
  <2> QED BY <1>2, <2>1, <2>3
<1>3. CASE committed'[q] # committed[q]
  <2>1. CASE Commit
    <3>1. PICK n \in Nat : held.at = <<q, n>> /\ n \in 1..Len(log[q]) /\ committed'[q] = n
      BY <1>3, <2>1, HeldPlace DEF Commit, InStage, CommitMessage, TypeOK, GroupTypeOK
    <3>2. CommitInv(q, n)
      BY <2>1, <3>1 DEF Commit, InStage, HeldInv
    <3>3. o \in 1..Len(log[q]) /\ (Settled(<<q, o>>) \/ Behind(q, o, n))
      BY <1>1, <3>1, <3>2 DEF CommitInv
    <3>4. Settled(<<q, o>>)' \/ Behind(q, o, n)'
      BY <1>1, <3>1, <3>3, SettledStays, BehindStays
    <3> QED BY <3>1, <3>4
  <2>2. CASE UNCHANGED committed
    BY <1>3, <2>2
  <2> QED
    BY <2>1, <2>2 DEF Next, vars, Publish, Produce, FetchMessage, Fetch, TrySucceeds, TryFails,
       TryEnds, groupVars, Shutdown, Restart, Crash, Rebalance, Rejoin
<1> QED BY <1>2, <1>3

-----------------------------------------------------------------------------
\* The table changes by an insert alone.
LEMMA TableFrame ==
  [Next]_vars => \/ UNCHANGED <<table, inserted>>
                 \/ InStage("insert") /\ Insert(held.at) /\ log' = log
BY DEF Next, vars, groupVars, Publish, FetchMessage, TrySucceeds, TryFails, TryEnds, Done,
   NotDone,
       Commit, Shutdown, Restart, Crash, Rebalance

\* What is inserted is a fact of the topic.
LEMMA InsertedStep ==
  TypeOK /\ HeldInv /\ InsertedInv /\ [Next]_vars => InsertedInv'
<1> SUFFICES ASSUME TypeOK, HeldInv, InsertedInv, [Next]_vars, NEW at \in inserted'
             PROVE  at[2] <= Len(log'[at[1]]) /\ FactAt(at)' # Garbage
  BY DEF InsertedInv
<1>1. at[1] \in Partition /\ at[2] \in 1..Len(log[at[1]]) /\ at = <<at[1], at[2]>> /\ FactAt(at) # Garbage
  <2>1. CASE at \in inserted
    BY <2>1, PlaceType DEF InsertedInv, TypeOK, GroupTypeOK, Place
  <2>2. CASE at \notin inserted
    <3>1. InStage("insert") /\ at = held.at
      BY <2>2, TableFrame DEF Insert
    <3> QED BY <3>1, HeldFact, HeldPlace, AnalyticsAssumption DEF InStage
  <2> QED BY <2>1, <2>2
<1> QED BY <1>1, LogFrame

\* Stamps are kept in seconds.
LEMMA SecondType == \A s \in 0..MaxStamp : Second(s) \in Int
BY AnalyticsAssumption DEF Second

\* Without an insert a key has the rows it had ...
LEMMA RowsOfFrame ==
  ASSUME TypeOK, InsertedInv, [Next]_vars, NEW k \in Key, inserted' = inserted
  PROVE  RowsOf(k)' = RowsOf(k)
<1>1. ASSUME NEW at \in inserted PROVE FactAt(at)' = FactAt(at)
  <2>1. at[1] \in Partition /\ at[2] \in 1..Len(log[at[1]]) /\ at = <<at[1], at[2]>>
    BY <1>1, PlaceType DEF InsertedInv, TypeOK, GroupTypeOK, Place
  <2> QED BY <2>1, LogFrame
<1> QED BY <1>1 DEF RowsOf

\* ... and an insert adds the one row.
LEMMA RowsOfInsert ==
  ASSUME Insert(held.at), log' = log, NEW k
  PROVE  RowsOf(k)' = RowsOf(k) \union {f \in {FactAt(held.at)} : f.key = k}
BY DEF Insert, RowsOf, FactAt

\* ReplacingMergeTree keeps the last second of each key.
LEMMA ReadsStep ==
  TypeOK /\ HeldInv /\ InsertedInv /\ ReadsLastSecond /\ [Next]_vars => ReadsLastSecond'
<1> SUFFICES ASSUME TypeOK, HeldInv, InsertedInv, ReadsLastSecond, [Next]_vars, NEW k \in Key
             PROVE  (/\ (table[k] = NoRow) <=> (RowsOf(k) = {})
                     /\ table[k] # NoRow =>
                          /\ table[k] \in RowsOf(k)
                          /\ \A f \in RowsOf(k) : Second(f.stamp) <= Second(table[k].stamp))'
  BY DEF ReadsLastSecond
<1>1. CASE UNCHANGED <<table, inserted>>
  <2>1. RowsOf(k)' = RowsOf(k)
    BY <1>1, RowsOfFrame
  <2> QED BY <1>1, <2>1 DEF ReadsLastSecond, Second
<1>2. CASE InStage("insert") /\ Insert(held.at) /\ log' = log
  <2>1. PICK f \in Fact : f = FactAt(held.at)
    BY <1>2, HeldFact
  <2>2. RowsOf(k)' = RowsOf(k) \union {g \in {f} : g.key = k}
    BY <1>2, <2>1, RowsOfInsert
  <2>3. table' = IF Replaces(f) THEN [table EXCEPT ![f.key] = f] ELSE table
    BY <1>2, <2>1 DEF Insert
  <2>4. \A g \in RowsOf(k) : g \in Fact /\ Second(g.stamp) \in Int
    <3>1. \A at \in inserted : FactAt(at) \in Fact
      BY FactType, PlaceType DEF InsertedInv, TypeOK, GroupTypeOK, Place
    <3> QED BY <3>1, SecondType DEF RowsOf, Fact
  <2>5. f.key \in Key /\ Second(f.stamp) \in Int /\ f # NoRow
    BY <2>1, SecondType, AnalyticsAssumption DEF Fact
  <2>6. CASE f.key # k
    BY <2>2, <2>3, <2>6 DEF ReadsLastSecond, Second, TypeOK
  <2>7. CASE f.key = k
    <3>1. RowsOf(k)' = RowsOf(k) \union {f}
      BY <2>2, <2>7
    <3>2. CASE Replaces(f)
      <4>1. table'[k] = f
        BY <2>3, <2>7, <3>2, <2>5 DEF TypeOK
      <4>2. \A g \in RowsOf(k) : Second(g.stamp) <= Second(f.stamp)
        BY <2>4, <2>5, <2>7, <3>2 DEF Replaces, ReadsLastSecond
      <4>3. \A s : Second(s)' = Second(s)
        BY DEF Second
      <4> QED BY <3>1, <4>1, <4>2, <2>5
    <3>3. CASE ~Replaces(f)
      <4>1. table' = table /\ table[k] # NoRow /\ table[k] \in RowsOf(k)
        BY <2>3, <2>7, <3>3 DEF Replaces, ReadsLastSecond
      <4>2. Second(f.stamp) <= Second(table[k].stamp)
        BY <2>4, <2>5, <2>7, <3>3, <4>1 DEF Replaces
      <4> QED BY <3>1, <4>1, <4>2 DEF ReadsLastSecond
    <3> QED BY <3>2, <3>3
  <2> QED BY <2>6, <2>7
<1> QED BY <1>1, <1>2, TableFrame

-----------------------------------------------------------------------------
\* The invariant holds at the start.
LEMMA IInvInit == Init => IInv
BY DEF Init, GroupInit, IInv, HeldInv, PositionInv, InsertedInv, CommittedIsInserted,
       ReadsLastSecond, RowsOf

\* The invariant of both consumers of analytics, of which what they promise is a part.
THEOREM AnalyticsCorrect == Spec => [](TypeOK /\ IInv)
<1>1. Init => TypeOK /\ IInv
  BY TypeInit, IInvInit
<1>2. (TypeOK /\ IInv) /\ [Next]_vars => (TypeOK /\ IInv)'
  BY TypeStep, HeldStep, PositionStep, InsertedStep, CommittedStep, ReadsStep DEF IInv
<1> QED BY <1>1, <1>2, PTL DEF Spec

\* consumer.go:81-105, 001_init.sql.  For any number of partitions, keys and messages, in
\* any order and however often delivered: FINAL answers a row of the last second that was
\* inserted for the key.
THEOREM LastSecondIsRead == Spec => []ReadsLastSecond
<1>1. IInv => ReadsLastSecond
  BY DEF IInv
<1> QED BY <1>1, AnalyticsCorrect, PTL

\* consumer.go:48-79.  However often the consumer is stopped: behind a stored offset each
\* message was inserted or given up, or was cut short by a shutdown with garbage behind it.
THEOREM CommitsFollowInserts == Spec => []CommittedIsInserted
<1>1. IInv => CommittedIsInserted
  BY DEF IInv
<1> QED BY <1>1, AnalyticsCorrect, PTL

-----------------------------------------------------------------------------
(* The calendar. *)

\* Weekdays repeat every seven days.
LEMMA WeekdayRange == \A n \in Int : Weekday(n) \in 0..6
BY DEF Weekday

\* analytics service.go:130-138.  This week begins on a Monday at most six days ago.
LEMMA MondayBefore ==
  \A n \in Int : /\ ThisWeek(n).from \in (n - 6)..n
                 /\ ThisWeek(n).to = ThisWeek(n).from + 6
                 /\ Weekday(ThisWeek(n).from) = 1
                 /\ ThisWeek(n).from = n - ((Weekday(n) + 6) % 7)
<1> TAKE n \in Int
<1>1. Weekday(n) \in 0..6
  BY WeekdayRange
<1>2. ThisWeek(n).from = n - ((Weekday(n) + 6) % 7)
  BY <1>1 DEF ThisWeek
<1>3. Weekday(ThisWeek(n).from) = 1
  BY <1>2 DEF Weekday
<1> QED BY <1>1, <1>2, <1>3 DEF ThisWeek

\* staff repository.go:284-287.  Seen from January 1, whatever weekday that is, the
\* Monday of week 1 is three days before the first Thursday.
LEMMA FirstMonday ==
  ASSUME NEW jan1 \in Int, NEW thursday \in Int, Weekday(thursday) = 4
  PROVE  (jan1 + 3) - (((Weekday(jan1 + 3) - 1) + 7) % 7) + 7 * ((thursday - jan1) \div 7)
           = thursday - 3
<1> DEFINE q == (thursday - jan1) \div 7
           r == (thursday - jan1) % 7
<1>1. q \in Int /\ r \in 0..6 /\ thursday = jan1 + 7 * q + r
  OBVIOUS
<1> HIDE DEF q, r
<1>2. (jan1 + r + 3) % 7 = 4
  BY <1>1 DEF Weekday
<1>3. ((Weekday(jan1 + 3) - 1) + 7) % 7 = 6 - r
  BY <1>1, <1>2 DEF Weekday
<1> QED BY <1>1, <1>3 DEF q

\* The first and the fourth of January are three days apart.
LEMMA Januaries ==
  ASSUME NEW y \in Int
  PROVE  Date(y, 1, 1) \in Int /\ Date(y, 1, 4) = Date(y, 1, 1) + 3
BY DEF Date

\* Year is an integer.
LEMMA YearIsInt == \A n \in Int : Year(n) \in Int
BY DEF Year, Civil

\* WeeksAgree on every date: booking, staff and analytics mean the same seven days.
THEOREM WeeksAlwaysAgree == \A n \in Int : WeeksAgree(n)
<1> TAKE n \in Int
<1> DEFINE monday   == ThisWeek(n).from
           thursday == monday + 3
<1>1. monday \in Int /\ Weekday(monday) = 1 /\ n \in monday..(monday + 6)
      /\ ThisWeek(n).to = monday + 6 /\ monday = n - ((Weekday(n) + 6) % 7)
  BY MondayBefore
<1> HIDE DEF monday
<1>2. Weekday(thursday) = 4
  BY <1>1 DEF Weekday
<1>3. PICK jan1 \in Int : jan1 = Date(Year(thursday), 1, 1) /\ Date(Year(thursday), 1, 4) = jan1 + 3
  BY <1>1, YearIsInt, Januaries
<1>4. ISOWeek(n) = [year |-> Year(thursday), week |-> (thursday - jan1) \div 7 + 1]
  BY <1>1, <1>3 DEF ISOWeek
<1>5. isoWeekToDate(ISOWeek(n)) =
        (jan1 + 3) - (((Weekday(jan1 + 3) - 1) + 7) % 7) + 7 * ((thursday - jan1) \div 7)
  BY <1>1, <1>3, <1>4 DEF isoWeekToDate
<1>6. (jan1 + 3) - (((Weekday(jan1 + 3) - 1) + 7) % 7) + 7 * ((thursday - jan1) \div 7)
        = thursday - 3
  <2> thursday \in Int
    BY <1>1
  <2> HIDE DEF thursday
  <2> QED BY <1>2, FirstMonday
<1>7. isoWeekToDate(ISOWeek(n)) = monday
  BY <1>1, <1>5, <1>6
<1> QED BY <1>1, <1>7 DEF WeeksAgree, DaysOfWeek, monday

YearAt(rest) == (rest - rest \div 1460 + rest \div 36524 - rest \div 146096) \div 365
Days(y) == 365 * y + y \div 4 - y \div 100 + y \div 400
MonthAt(day) == (5 * day + 2) \div 153
FirstOf(m) == (153 * m + 2) \div 5

\* Civil, first half: of the days 0..146096 of an era, r is in the year YearAt(r).
LEMMA YearHolds ==
  ASSUME NEW r \in Int, 0 <= r, r <= 146096
  PROVE  /\ YearAt(r) >= 0 /\ YearAt(r) <= 399
         /\ Days(YearAt(r)) <= r /\ r < Days(YearAt(r) + 1)
BY SMTT(60) DEF YearAt, Days

\* Days is an integer.
LEMMA DaysInt == \A y \in Int : Days(y) \in Int
BY DEF Days

\* A later year begins after an earlier one has ended.
LEMMA DaysGrow == ASSUME NEW y \in Int, NEW z \in Int, y < z
  PROVE  Days(y + 1) <= Days(z)
BY DEF Days

\* A day is in one year only.
LEMMA OneYear ==
  ASSUME NEW r \in Int, NEW x \in Int, NEW y \in Int,
         Days(x) <= r, r < Days(x + 1), Days(y) <= r, r < Days(y + 1)
  PROVE  x = y
<1>1. Days(x) \in Int /\ Days(y) \in Int /\ Days(x + 1) \in Int /\ Days(y + 1) \in Int
  BY DaysInt
<1>2. ~(x < y)
  BY <1>1, DaysGrow
<1>3. ~(y < x)
  BY <1>1, DaysGrow
<1> QED BY <1>2, <1>3

\* YearAt is an integer.
LEMMA YearInt == \A r \in Int : YearAt(r) \in Int
BY DEF YearAt

\* So YearAt finds the year of a day.
LEMMA YearIsThat ==
  ASSUME NEW r \in Int, 0 <= r, r <= 146096, NEW y \in Int, Days(y) <= r, r < Days(y + 1)
  PROVE  YearAt(r) = y
<1>1. YearAt(r) \in Int /\ Days(YearAt(r)) <= r /\ r < Days(YearAt(r) + 1)
  BY YearHolds, YearInt
<1> QED BY <1>1, OneYear

\* Civil, second half: MonthAt finds the month of a day of the year ...
LEMMA MonthHas == ASSUME NEW d \in 0..365
  PROVE MonthAt(d) \in 0..11 /\ FirstOf(MonthAt(d)) <= d /\ d < FirstOf(MonthAt(d) + 1)
BY DEF MonthAt, FirstOf

\* ... and no other month has that day.
LEMMA MonthIsThat == ASSUME NEW d \in Nat, NEW m \in 0..11, FirstOf(m) <= d, d < FirstOf(m + 1)
  PROVE MonthAt(d) = m
BY DEF MonthAt, FirstOf

\* The month m of the year y, both counted from March, of era e: its name, its first day
\* and the day after its last.
Named(e, y, m) == IF m < 10 THEN [year |-> y + 400 * e, month |-> m + 3]
                            ELSE [year |-> y + 400 * e + 1, month |-> m - 9]
Begin(e, y, m) == 146097 * e + Days(y) + FirstOf(m)
End(e, y, m)   == 146097 * e + (IF m < 11 THEN Days(y) + FirstOf(m + 1) ELSE Days(y + 1))

\* The calendar repeats itself after 400 years.
LEMMA Eras == ASSUME NEW e \in Int, NEW y \in Int PROVE Days(y + 400 * e) = 146097 * e + Days(y)
BY DEF Days

\* No month begins later than the end of the year.
LEMMA Firsts == \A m \in 0..12 : FirstOf(m) \in 0..367
BY DEF FirstOf

\* FirstOf is an integer.
LEMMA FirstInt == \A m \in Int : FirstOf(m) \in Int
BY SMT DEF FirstOf

\* Civil leaves out the term y \div 400, which is 0 within an era.
LEMMA Short == ASSUME NEW y \in 0..399
  PROVE Days(y) = 365 * y + y \div 4 - y \div 100 /\ Days(y) >= 0 /\ Days(y + 1) <= 146097
BY DEF Days

\* Date, applied to the name of a month and to that of the next, gives its first day and
\* the day after its last.
LEMMA NamedDates ==
  ASSUME NEW e \in Int, NEW y \in Int, NEW m \in 0..11
  PROVE  \A c : c = Named(e, y, m) =>
           Date(c.year, c.month, 1) = Begin(e, y, m) /\ NextMonth(c.year, c.month) = End(e, y, m)
<1>0. SUFFICES ASSUME NEW c, c = Named(e, y, m)
      PROVE  Date(c.year, c.month, 1) = Begin(e, y, m) /\ NextMonth(c.year, c.month) = End(e, y, m)
  OBVIOUS
<1>1. Days(y + 400 * e) = 146097 * e + Days(y) /\ Days((y + 1) + 400 * e) = 146097 * e + Days(y + 1)
  BY Eras
<1>2. \A k \in 0..12 : FirstOf(k) \in 0..367
  BY Firsts
<1>3. Days(y) \in Int /\ Days(y + 1) \in Int
  BY DaysInt
<1>4. \A z \in Int, k \in 1..12 :
        Date(z, k, 1) = Days(IF k <= 2 THEN z - 1 ELSE z) + FirstOf((k + 9) % 12)
  BY DEF Date, Days, FirstOf
<1>5. CASE m < 9
  <2>1. c = [year |-> y + 400 * e, month |-> m + 3] /\ m + 3 \in 1..12 /\ m + 4 \in 1..12
        /\ ~(m + 3 <= 2) /\ ~(m + 4 <= 2) /\ (m + 3 + 9) % 12 = m /\ (m + 4 + 9) % 12 = m + 1
        /\ m + 3 # 12
    BY <1>0, <1>5 DEF Named
  <2>2. Date(y + 400 * e, m + 3, 1) = Begin(e, y, m)
    BY <1>1, <1>2, <1>3, <1>4, <2>1 DEF Begin
  <2>3. NextMonth(c.year, c.month) = Date(y + 400 * e, m + 4, 1)
    BY <2>1 DEF NextMonth
  <2>4. Date(y + 400 * e, m + 4, 1) = Days(y + 400 * e) + FirstOf(m + 1)
    BY <1>4, <2>1
  <2>6. End(e, y, m) = 146097 * e + (Days(y) + FirstOf(m + 1))
    BY <1>5 DEF End
  <2>7. FirstOf(m + 1) \in Int
    BY <1>2
  <2>5. Date(y + 400 * e, m + 4, 1) = End(e, y, m)
    BY <1>1, <1>3, <2>4, <2>6, <2>7
  <2> QED BY <2>1, <2>2, <2>3, <2>5
<1>6. CASE m = 9
  <2>1. c = [year |-> y + 400 * e, month |-> 12] /\ (12 + 9) % 12 = 9 /\ (1 + 9) % 12 = 10
    BY <1>0, <1>6 DEF Named
  <2>2. NextMonth(c.year, c.month) = Date(y + 400 * e + 1, 1, 1)
    BY <2>1 DEF NextMonth
  <2>3. Date(y + 400 * e + 1, 1, 1) = Days(y + 400 * e) + FirstOf(10)
    BY <1>4, <2>1
  <2>4. Date(y + 400 * e, 12, 1) = Days(y + 400 * e) + FirstOf(9)
    BY <1>4, <2>1
  <2>5. y + 400 * e + 1 - 1 = y + 400 * e
    OBVIOUS
  <2>6. Begin(e, y, m) = 146097 * e + Days(y) + FirstOf(9) /\ End(e, y, m) = 146097 * e + (Days(y) + FirstOf(10))
    BY <1>6 DEF Begin, End
  <2>7. FirstOf(9) \in Int /\ FirstOf(10) \in Int
    BY <1>2
  <2>8. Date(c.year, c.month, 1) = Begin(e, y, m)
    BY <1>1, <1>3, <2>1, <2>4, <2>6, <2>7
  <2>9. NextMonth(c.year, c.month) = End(e, y, m)
    BY <1>1, <1>3, <2>2, <2>3, <2>6, <2>7
  <2> QED BY <2>8, <2>9
<1>7. CASE m = 10
  <2>1. c = [year |-> y + 400 * e + 1, month |-> 1] /\ (1 + 9) % 12 = 10 /\ (2 + 9) % 12 = 11
    BY <1>0, <1>7 DEF Named
  <2>2. NextMonth(c.year, c.month) = Date(y + 400 * e + 1, 2, 1)
    BY <2>1 DEF NextMonth
  <2>3. Date(y + 400 * e + 1, 1, 1) = Days(y + 400 * e) + FirstOf(10)
    BY <1>4, <2>1
  <2>4. Date(y + 400 * e + 1, 2, 1) = Days(y + 400 * e) + FirstOf(11)
    BY <1>4, <2>1
  <2>6. Begin(e, y, m) = 146097 * e + Days(y) + FirstOf(10) /\ End(e, y, m) = 146097 * e + (Days(y) + FirstOf(11))
    BY <1>7 DEF Begin, End
  <2>7. FirstOf(10) \in Int /\ FirstOf(11) \in Int
    BY <1>2
  <2>8. Date(c.year, c.month, 1) = Begin(e, y, m)
    BY <1>1, <1>3, <2>1, <2>3, <2>6, <2>7
  <2>9. NextMonth(c.year, c.month) = End(e, y, m)
    BY <1>1, <1>3, <2>2, <2>4, <2>6, <2>7
  <2> QED BY <2>8, <2>9
<1>8. CASE m = 11
  <2>1. c = [year |-> y + 400 * e + 1, month |-> 2] /\ (2 + 9) % 12 = 11 /\ (3 + 9) % 12 = 0
        /\ FirstOf(0) = 0
    BY <1>0, <1>8 DEF Named, FirstOf
  <2>2. NextMonth(c.year, c.month) = Date(y + 400 * e + 1, 3, 1)
    BY <2>1 DEF NextMonth
  <2>3. Date(y + 400 * e + 1, 2, 1) = Days(y + 400 * e) + FirstOf(11)
    BY <1>4, <2>1
  <2>4. Date(y + 400 * e + 1, 3, 1) = Days(y + 400 * e + 1)
    BY <1>4, <2>1, DaysInt
  <2>5. y + 400 * e + 1 = (y + 1) + 400 * e
    OBVIOUS
  <2> QED BY <1>1, <1>8, <2>1, <2>2, <2>3, <2>4, <2>5 DEF Begin, End
<1> QED BY <1>5, <1>6, <1>7, <1>8

\* A month has days.
LEMMA BeginEnd ==
  ASSUME NEW e \in Int, NEW y \in Int, NEW m \in 0..11
  PROVE  Begin(e, y, m) \in Int /\ End(e, y, m) \in Int /\ Begin(e, y, m) < End(e, y, m)
BY SMT DEF Begin, End, Days, FirstOf

\* n is the day r of the era e, in the month m of the year y.
Falls(n, e, r, y, m) ==
  /\ n \in Int /\ e \in Int /\ r \in Int /\ y \in 0..399 /\ m \in 0..11
  /\ n = 146097 * e + r /\ 0 <= r /\ r <= 146096
  /\ YearAt(r) = y /\ MonthAt(r - Days(y)) = m

\* n is a day of the month m of the year y.
InMonth(n, e, y, m) ==
  /\ n \in Int /\ e \in Int /\ y \in 0..399 /\ m \in 0..11
  /\ Begin(e, y, m) <= n /\ n < End(e, y, m)

\* What Civil computes.
LEMMA CivilForm ==
  ASSUME NEW n, NEW e, NEW r, NEW y, NEW m, Falls(n, e, r, y, m)
  PROVE  Civil(n) = Named(e, y, m)
<1>1. n \div 146097 = e /\ n - e * 146097 = r
  BY SMT DEF Falls
<1>2. (r - r \div 1460 + r \div 36524 - r \div 146096) \div 365 = y
  BY SMT DEF Falls, YearAt
<1>3. y \in 0..399 /\ Days(y) = 365 * y + y \div 4 - y \div 100
  BY Short, SMT DEF Falls
<1>4. r - (365 * y + y \div 4 - y \div 100) = r - Days(y)
  BY <1>3, SMT
<1>5. (5 * (r - Days(y)) + 2) \div 153 = m
  BY SMT DEF Falls, MonthAt
<1> QED BY <1>1, <1>2, <1>4, <1>5, SMT DEF Civil, Named

\* A day of a month has the name of that month.
LEMMA CivilOf ==
  ASSUME NEW n, NEW e, NEW y, NEW m, InMonth(n, e, y, m)
  PROVE  Civil(n) = Named(e, y, m)
<1> DEFINE r == n - 146097 * e
<1>0. n \in Int /\ e \in Int /\ y \in 0..399 /\ m \in 0..11
  BY SMT DEF InMonth
<1>1. r \in Int /\ Days(y) + FirstOf(m) <= r /\ r < Days(y + 1) /\ 0 <= r /\ r <= 146096
  BY SMT DEF InMonth, Begin, End, Days, FirstOf
<1>2. /\ Days(y) \in Int /\ Days(y) <= r /\ FirstOf(m) <= r - Days(y) /\ r - Days(y) < FirstOf(m + 1)
  BY SMT DEF InMonth, Begin, End, Days, FirstOf
<1>6. n = 146097 * e + r
  BY <1>0, SMT
<1> HIDE DEF r
<1>3. YearAt(r) = y
  BY <1>0, <1>1, <1>2, YearIsThat, SMT
<1>4. r - Days(y) \in Nat
  BY <1>1, <1>2, SMT
<1>5. MonthAt(r - Days(y)) = m
  BY <1>0, <1>2, <1>4, MonthIsThat, SMT
<1>7. Falls(n, e, r, y, m)
  BY <1>0, <1>1, <1>3, <1>5, <1>6, SMT DEF Falls
<1> QED BY <1>7, CivilForm

\* Every day is in a month.
LEMMA EveryDayFalls ==
  ASSUME NEW n \in Int
  PROVE  \E e, y, m : InMonth(n, e, y, m)
<1> DEFINE e == n \div 146097
           r == n - 146097 * e
<1>1. e \in Int /\ r \in Int /\ n = 146097 * e + r /\ 0 <= r /\ r <= 146096
  BY SMT
<1> HIDE DEF e, r
<1> DEFINE y == YearAt(r)
<1>2. y \in Int /\ 0 <= y /\ y <= 399 /\ Days(y) <= r /\ r < Days(y + 1)
  BY <1>1, YearHolds, YearInt, SMT
<1> HIDE DEF y
<1> DEFINE d == r - Days(y)
           m == MonthAt(d)
<1>3. Days(y) \in Int /\ Days(y + 1) \in Int /\ Days(y + 1) <= Days(y) + 366
  BY <1>2, SMT DEF Days
<1>4. d \in 0..365 /\ r = Days(y) + d
  BY <1>1, <1>2, <1>3, SMT
<1> HIDE DEF d
<1>5. m \in 0..11 /\ FirstOf(m) <= d /\ d < FirstOf(m + 1)
  BY <1>4, MonthHas, SMT
<1> HIDE DEF m
<1>6. FirstOf(m) \in Int /\ FirstOf(m + 1) \in Int
  <2>1. m \in Int /\ m + 1 \in Int
    BY <1>5, SMT
  <2> QED BY <2>1, FirstInt, SMT
<1>7. Begin(e, y, m) <= n
  BY <1>1, <1>3, <1>4, <1>5, <1>6, SMT DEF Begin
<1>8. n < End(e, y, m)
  BY <1>1, <1>2, <1>3, <1>4, <1>5, <1>6, SMT DEF End
<1>9. InMonth(n, e, y, m)
  BY <1>1, <1>2, <1>5, <1>7, <1>8, SMT DEF InMonth
<1> QED BY <1>9

\* analytics service.go:140-143.  ThisMonth is that month.
LEMMA MonthOf ==
  ASSUME NEW n, NEW e, NEW y, NEW m, InMonth(n, e, y, m)
  PROVE  ThisMonth(n).from = Begin(e, y, m) /\ ThisMonth(n).to = End(e, y, m) - 1
<1>1. Civil(n) = Named(e, y, m)
  BY CivilOf
<1>2. e \in Int /\ y \in Int /\ m \in 0..11
  BY SMT DEF InMonth
<1>3. Date(Civil(n).year, Civil(n).month, 1) = Begin(e, y, m)
      /\ NextMonth(Civil(n).year, Civil(n).month) = End(e, y, m)
  BY <1>1, <1>2, NamedDates
<1> QED BY <1>3 DEF ThisMonth

\* Its first and its last day are in it.
LEMMA MonthEnds ==
  ASSUME NEW n, NEW e, NEW y, NEW m, InMonth(n, e, y, m)
  PROVE  InMonth(Begin(e, y, m), e, y, m) /\ InMonth(End(e, y, m) - 1, e, y, m)
<1>1. e \in Int /\ y \in Int /\ y \in 0..399 /\ m \in 0..11
  BY SMT DEF InMonth
<1>2. Begin(e, y, m) \in Int /\ End(e, y, m) \in Int /\ Begin(e, y, m) < End(e, y, m)
  BY <1>1, BeginEnd
<1> QED BY <1>1, <1>2, SMT DEF InMonth

\* A name is the name of one month only.
LEMMA SameMonth ==
  ASSUME NEW n, NEW e, NEW y, NEW m, InMonth(n, e, y, m), NEW k \in Int, Civil(k) = Civil(n)
  PROVE  InMonth(k, e, y, m)
<1>1. PICK f, z, l : InMonth(k, f, z, l)
  BY EveryDayFalls
<1>2. Named(f, z, l) = Named(e, y, m)
  BY <1>1, CivilOf
<1>3. /\ e \in Int /\ y \in 0..399 /\ m \in 0..11
      /\ f \in Int /\ z \in 0..399 /\ l \in 0..11
  BY <1>1, SMT DEF InMonth
<1>4. l = m /\ z + 400 * f = y + 400 * e
  BY <1>2, <1>3, SMT DEF Named
<1>5. f = e /\ z = y
  BY <1>3, <1>4, SMT
<1> QED BY <1>1, <1>4, <1>5

\* MonthHolds on every date: the month that analytics asks for is the whole month of the day.
THEOREM MonthAlwaysHolds == \A n \in Int : MonthHolds(n)
<1> TAKE n \in Int
<1>1. PICK e, y, m : InMonth(n, e, y, m)
  BY EveryDayFalls
<1> DEFINE from == Begin(e, y, m)
           end  == End(e, y, m)
<1>2. ThisMonth(n).from = from /\ ThisMonth(n).to = end - 1
  BY <1>1, MonthOf
<1>3. InMonth(from, e, y, m) /\ InMonth(end - 1, e, y, m)
  BY <1>1, MonthEnds
<1>4. Civil(from) = Civil(n) /\ Civil(end - 1) = Civil(n)
  BY <1>1, <1>3, CivilOf
<1>5. from \in Int /\ end \in Int /\ from <= n /\ n < end
  <2>1. e \in Int /\ y \in Int /\ m \in 0..11 /\ from <= n /\ n < end
    BY <1>1, SMT DEF InMonth
  <2> QED BY <2>1, BeginEnd
<1>6. Civil(from - 1) # Civil(n)
  <2> SUFFICES ASSUME Civil(from - 1) = Civil(n) PROVE FALSE
    OBVIOUS
  <2>1. InMonth(from - 1, e, y, m)
    BY <1>1, <1>5, SameMonth
  <2>2. from <= from - 1
    BY <2>1, SMT DEF InMonth
  <2> QED BY <1>5, <2>2
<1>7. Civil((end - 1) + 1) # Civil(n)
  <2> SUFFICES ASSUME Civil((end - 1) + 1) = Civil(n) PROVE FALSE
    OBVIOUS
  <2>0. (end - 1) + 1 = end
    BY <1>5
  <2>1. InMonth(end, e, y, m)
    BY <1>1, <1>5, <2>0, SameMonth
  <2>2. end < end
    BY <2>1, SMT DEF InMonth
  <2> QED BY <1>5, <2>2
<1> HIDE DEF from, end
<1> QED BY <1>2, <1>4, <1>5, <1>6, <1>7 DEF MonthHolds

-----------------------------------------------------------------------------
(* Sums over finite sets. *)

\* What is said of some number is said of a least one.
LEMMA LeastNumber ==
  ASSUME NEW T \in SUBSET Nat, NEW n \in T
  PROVE  \E m \in T : \A k \in T : m <= k
<1>1. PICK m \in T : \A k \in T : ~(<<k, m>> \in OpToRel(<, Nat))
  BY NatLessThanWellFounded, WFMin
<1>2. \A k \in T : ~(k < m)
  BY <1>1 DEF OpToRel
<1> QED BY <1>2

\* There are no numbers of which each has the one before it among them.
LEMMA NoDescent ==
  ASSUME NEW Bad \in SUBSET Nat, \A n \in Bad : n - 1 \in Bad
  PROVE  Bad = {}
<1> SUFFICES ASSUME NEW m \in Bad PROVE FALSE
  OBVIOUS
<1>1. PICK n \in Bad : \A k \in Bad : n <= k
  BY LeastNumber
<1> QED BY <1>1

\* The sum of the terms f[x] of the elements x of S.
Sum(f, S) == SumFunctionOnSet(f, S)

\* The element of S that is added last.
First(S) == CHOOSE x \in S : TRUE

\* g sums f over the sets of D.
Sums(g, f, D) == g = [s \in D |-> IF s = {} THEN 0 ELSE f[First(s)] + g[s \ {First(s)}]]

\* If some function sums f over the subsets of S, the sum over S is its value.
LEMMA SumIs == \A f, S : (\E g : Sums(g, f, SUBSET S)) => \E g : Sums(g, f, SUBSET S) /\ Sum(f, S) = g[S]
BY DEF Sum, Sums, First, SumFunctionOnSet, FoldFunctionOnSet, MapThenFoldSet

\* The sets of which sums are taken, by their size.
UpTo(S, n) == {s \in SUBSET S : Cardinality(s) <= n}

\* There is one: by the size of the sets.
LEMMA SumsExist ==
  ASSUME NEW f, NEW S, IsFiniteSet(S)
  PROVE  \E g : Sums(g, f, SUBSET S)
<1> DEFINE Bad == {n \in Nat : ~ \E g : Sums(g, f, UpTo(S, n))}
<1>1. \A s \in SUBSET S : IsFiniteSet(s) /\ Cardinality(s) \in Nat /\ Cardinality(s) <= Cardinality(S)
  BY FS_Subset, FS_CardinalityType
<1>2. \A s \in SUBSET S : s # {} => /\ First(s) \in s /\ s \ {First(s)} \in SUBSET S
                                    /\ Cardinality(s \ {First(s)}) = Cardinality(s) - 1
  <2> SUFFICES ASSUME NEW s \in SUBSET S, s # {}
               PROVE  First(s) \in s /\ Cardinality(s \ {First(s)}) = Cardinality(s) - 1
    OBVIOUS
  <2>1. First(s) \in s
    BY DEF First
  <2> QED BY <1>1, <2>1, FS_RemoveElement
<1>3. 0 \notin Bad
  <2>1. \A s \in UpTo(S, 0) : s = {}
    BY <1>1, FS_EmptySet DEF UpTo
  <2> DEFINE g == [s \in UpTo(S, 0) |-> 0]
  <2>2. Sums(g, f, UpTo(S, 0))
    BY <2>1 DEF Sums
  <2> QED BY <2>2
<1>4. ASSUME NEW n \in Nat \ {0}, n - 1 \notin Bad PROVE n \notin Bad
  <2>1. PICK g : Sums(g, f, UpTo(S, n - 1))
    BY <1>4
  <2> DEFINE h == [s \in UpTo(S, n) |-> IF s = {} THEN 0 ELSE f[First(s)] + g[s \ {First(s)}]]
  <2>2. \A s \in UpTo(S, n) : s # {} => s \ {First(s)} \in UpTo(S, n - 1)
    BY <1>1, <1>2 DEF UpTo
  <2>3. \A s \in UpTo(S, n - 1) : s \in UpTo(S, n) /\ h[s] = g[s]
    <3>1. \A s \in UpTo(S, n - 1) : s \in UpTo(S, n)
      BY <1>1 DEF UpTo
    <3>2. \A s \in UpTo(S, n - 1) : g[s] = IF s = {} THEN 0 ELSE f[First(s)] + g[s \ {First(s)}]
      BY <2>1 DEF Sums
    <3> QED BY <3>1, <3>2
  <2>4. \A s \in UpTo(S, n) : s # {} => h[s \ {First(s)}] = g[s \ {First(s)}]
    BY <2>2, <2>3
  <2>5. h = [s \in UpTo(S, n) |-> IF s = {} THEN 0 ELSE f[First(s)] + h[s \ {First(s)}]]
    BY <2>4
  <2>6. Sums(h, f, UpTo(S, n))
    BY <2>5 DEF Sums
  <2> QED BY <2>6
<1> HIDE DEF Bad
<1>5. Bad = {}
  <2> SUFFICES ASSUME NEW m \in Bad PROVE FALSE
    OBVIOUS
  <2>1. Bad \in SUBSET Nat
    BY DEF Bad
  <2>2. PICK n \in Bad : \A k \in Bad : n <= k
    BY <2>1, LeastNumber
  <2>3. n \in Nat \ {0}
    BY <1>3, <2>1
  <2>4. n - 1 \notin Bad
    BY <2>1, <2>2, <2>3
  <2> QED BY <1>4, <2>3, <2>4
<1>6. UpTo(S, Cardinality(S)) = SUBSET S
  BY <1>1 DEF UpTo
<1>7. Cardinality(S) \in Nat
  BY FS_CardinalityType
<1>8. \E g : Sums(g, f, UpTo(S, Cardinality(S)))
  BY <1>5, <1>7 DEF Bad
<1> QED BY <1>6, <1>8

\* Two functions with the same values on the subsets of T.
Agree(g, h, T) == \A t \in SUBSET T : g[t] = h[t]

\* Sums over a set and over one that contains it agree on what is in both.
LEMMA SumsAgree ==
  ASSUME NEW f, NEW S, IsFiniteSet(S), NEW T \in SUBSET S, NEW g, NEW h, Sums(g, f, SUBSET S),
         Sums(h, f, SUBSET T)
  PROVE  Agree(g, h, T)
<1> DEFINE Bad == {n \in Nat : \E t \in SUBSET T : Cardinality(t) = n /\ g[t] # h[t]}
<1>1. \A t \in SUBSET T : IsFiniteSet(t) /\ Cardinality(t) \in Nat
  BY FS_Subset, FS_CardinalityType
<1>2. ASSUME NEW n \in Bad PROVE n - 1 \in Bad
  <2>1. PICK t \in SUBSET T : Cardinality(t) = n /\ g[t] # h[t]
    OBVIOUS
  <2>2. g[t] = IF t = {} THEN 0 ELSE f[First(t)] + g[t \ {First(t)}]
    BY DEF Sums
  <2>3. h[t] = IF t = {} THEN 0 ELSE f[First(t)] + h[t \ {First(t)}]
    BY DEF Sums
  <2>4. t # {} /\ g[t \ {First(t)}] # h[t \ {First(t)}]
    BY <2>1, <2>2, <2>3
  <2>5. First(t) \in t
    BY <2>4 DEF First
  <2>6. Cardinality(t \ {First(t)}) = n - 1
    BY <1>1, <2>1, <2>5, FS_RemoveElement
  <2> QED BY <1>1, <2>4, <2>6
<1> HIDE DEF Bad
<1>3. Bad = {}
  <2>1. Bad \in SUBSET Nat
    BY DEF Bad
  <2> QED BY <1>2, <2>1, NoDescent
<1> QED BY <1>1, <1>3 DEF Bad, Agree

\* The sum over no elements is nought.
LEMMA SumEmpty == ASSUME NEW f PROVE Sum(f, {}) = 0
<1>1. PICK g : Sums(g, f, SUBSET {}) /\ Sum(f, {}) = g[{}]
  BY SumsExist, SumIs, FS_EmptySet
<1> QED BY <1>1 DEF Sums

\* The element that is added last.
LEMMA SumFirst ==
  ASSUME NEW f, NEW S, IsFiniteSet(S), S # {}
  PROVE  First(S) \in S /\ Sum(f, S) = f[First(S)] + Sum(f, S \ {First(S)})
<1>1. PICK T \in SUBSET S : T = S \ {First(S)}
  OBVIOUS
<1>2. PICK g : Sums(g, f, SUBSET S) /\ Sum(f, S) = g[S]
  BY SumsExist, SumIs
<1>3. PICK h : Sums(h, f, SUBSET T) /\ Sum(f, T) = h[T]
  BY <1>1, FS_Subset, SumsExist, SumIs
<1>4. g[T] = h[T]
  <2>1. Agree(g, h, T)
    BY <1>2, <1>3, SumsAgree
  <2> QED BY <2>1 DEF Agree
<1>5. g[S] = f[First(S)] + g[S \ {First(S)}]
  BY <1>2 DEF Sums
<1> QED BY <1>1, <1>2, <1>3, <1>4, <1>5 DEF First

\* Integers add up to an integer.
LEMMA SumType ==
  ASSUME NEW f, NEW S, IsFiniteSet(S), \A x \in S : f[x] \in Int
  PROVE  Sum(f, S) \in Int
<1> DEFINE Bad == {n \in Nat : \E T \in SUBSET S : Cardinality(T) = n /\ Sum(f, T) \notin Int}
<1>1. \A T \in SUBSET S : IsFiniteSet(T) /\ Cardinality(T) \in Nat
  BY FS_Subset, FS_CardinalityType
<1>2. ASSUME NEW n \in Bad PROVE n - 1 \in Bad
  <2>1. PICK T \in SUBSET S : Cardinality(T) = n /\ Sum(f, T) \notin Int
    OBVIOUS
  <2>2. T # {}
    BY <2>1, SumEmpty
  <2>3. First(T) \in T /\ Sum(f, T) = f[First(T)] + Sum(f, T \ {First(T)})
    BY <1>1, <2>2, SumFirst
  <2>4. Sum(f, T \ {First(T)}) \notin Int
    BY <2>1, <2>3
  <2>5. Cardinality(T \ {First(T)}) = n - 1
    BY <1>1, <2>1, <2>3, FS_RemoveElement
  <2> QED BY <1>1, <2>4, <2>5
<1> HIDE DEF Bad
<1>3. Bad = {}
  <2>1. Bad \in SUBSET Nat
    BY DEF Bad
  <2> QED BY <1>2, <2>1, NoDescent
<1> QED BY <1>1, <1>3 DEF Bad

\* Any element may be added last.
LEMMA SumAny ==
  ASSUME NEW f, NEW S, IsFiniteSet(S), \A x \in S : f[x] \in Int, NEW x \in S
  PROVE  Sum(f, S) = f[x] + Sum(f, S \ {x})
<1> DEFINE Bad == {n \in Nat : \E T \in SUBSET S : \E y \in T :
                     Cardinality(T) = n /\ Sum(f, T) # f[y] + Sum(f, T \ {y})}
<1>1. \A T \in SUBSET S : IsFiniteSet(T) /\ Cardinality(T) \in Nat
  BY FS_Subset, FS_CardinalityType
<1>2. \A T \in SUBSET S : Sum(f, T) \in Int
  BY <1>1, SumType
<1>3. ASSUME NEW n \in Bad PROVE n - 1 \in Bad
  <2>0. PICK T \in SUBSET S : \E y \in T : Cardinality(T) = n /\ Sum(f, T) # f[y] + Sum(f, T \ {y})
    OBVIOUS
  <2>1. PICK y \in T : Cardinality(T) = n /\ Sum(f, T) # f[y] + Sum(f, T \ {y})
    BY <2>0
  <2>2. PICK z : z = First(T)
    OBVIOUS
  <2>3. z \in T /\ Sum(f, T) = f[z] + Sum(f, T \ {z})
    BY <1>1, <2>1, <2>2, SumFirst
  <2>4. z # y
    BY <2>1, <2>3
  <2>5. PICK U \in SUBSET S : U = T \ {z}
    OBVIOUS
  <2>6. Cardinality(U) = n - 1 /\ y \in U
    BY <1>1, <2>1, <2>3, <2>4, <2>5, FS_RemoveElement
  <2>7. CASE Sum(f, U) = f[y] + Sum(f, U \ {y})
    <3>1. PICK V \in SUBSET S : V = T \ {y}
      OBVIOUS
    <3>2. Cardinality(V) = n - 1 /\ z \in V /\ U \ {y} = V \ {z}
      BY <1>1, <2>1, <2>3, <2>4, <2>5, <3>1, FS_RemoveElement
    <3>3. CASE Sum(f, V) = f[z] + Sum(f, V \ {z})
      <4>1. /\ Sum(f, T) = f[z] + Sum(f, U) /\ Sum(f, U) = f[y] + Sum(f, V \ {z})
            /\ Sum(f, V) = f[z] + Sum(f, V \ {z}) /\ Sum(f, T) # f[y] + Sum(f, V)
        BY <2>1, <2>3, <2>5, <2>7, <3>1, <3>2, <3>3
      <4>2. Sum(f, V \ {z}) \in Int /\ f[z] \in Int /\ f[y] \in Int
        BY <1>2, <2>3
      <4> QED BY <4>1, <4>2
    <3>4. CASE Sum(f, V) # f[z] + Sum(f, V \ {z})
      BY <1>1, <3>2, <3>4
    <3> QED BY <3>3, <3>4
  <2>8. CASE Sum(f, U) # f[y] + Sum(f, U \ {y})
    BY <1>1, <2>6, <2>8
  <2> QED BY <2>7, <2>8
<1> HIDE DEF Bad
<1>4. Bad = {}
  <2>1. Bad \in SUBSET Nat
    BY DEF Bad
  <2> QED BY <1>3, <2>1, NoDescent
<1> QED BY <1>1, <1>4 DEF Bad

\* Sums of equal terms are equal.
LEMMA SumSame ==
  ASSUME NEW f, NEW g, NEW S, IsFiniteSet(S), \A x \in S : f[x] = g[x]
  PROVE  Sum(f, S) = Sum(g, S)
<1> DEFINE Bad == {n \in Nat : \E T \in SUBSET S : Cardinality(T) = n /\ Sum(f, T) # Sum(g, T)}
<1>1. \A T \in SUBSET S : IsFiniteSet(T) /\ Cardinality(T) \in Nat
  BY FS_Subset, FS_CardinalityType
<1>2. ASSUME NEW n \in Bad PROVE n - 1 \in Bad
  <2>1. PICK T \in SUBSET S : Cardinality(T) = n /\ Sum(f, T) # Sum(g, T)
    OBVIOUS
  <2>2. T # {}
    BY <2>1, SumEmpty
  <2>3. PICK U \in SUBSET S : U = T \ {First(T)}
    OBVIOUS
  <2>4. First(T) \in T /\ Sum(f, T) = f[First(T)] + Sum(f, U)
    BY <1>1, <2>2, <2>3, SumFirst
  <2>5. Sum(g, T) = g[First(T)] + Sum(g, U)
    BY <1>1, <2>2, <2>3, SumFirst
  <2>6. Sum(f, U) # Sum(g, U)
    BY <2>1, <2>4, <2>5
  <2>7. Cardinality(U) = n - 1
    BY <1>1, <2>1, <2>3, <2>4, FS_RemoveElement
  <2> QED BY <1>1, <2>6, <2>7
<1> HIDE DEF Bad
<1>3. Bad = {}
  <2>1. Bad \in SUBSET Nat
    BY DEF Bad
  <2> QED BY <1>2, <2>1, NoDescent
<1> QED BY <1>1, <1>3 DEF Bad

\* Noughts add up to nought.
LEMMA SumNoughts ==
  ASSUME NEW f, NEW S, IsFiniteSet(S), \A x \in S : f[x] = 0
  PROVE  Sum(f, S) = 0
<1> DEFINE Bad == {n \in Nat : \E T \in SUBSET S : Cardinality(T) = n /\ Sum(f, T) # 0}
<1>1. \A T \in SUBSET S : IsFiniteSet(T) /\ Cardinality(T) \in Nat
  BY FS_Subset, FS_CardinalityType
<1>2. ASSUME NEW n \in Bad PROVE n - 1 \in Bad
  <2>1. PICK T \in SUBSET S : Cardinality(T) = n /\ Sum(f, T) # 0
    OBVIOUS
  <2>2. T # {}
    BY <2>1, SumEmpty
  <2>3. PICK U \in SUBSET S : U = T \ {First(T)}
    OBVIOUS
  <2>4. First(T) \in T /\ Sum(f, T) = f[First(T)] + Sum(f, U)
    BY <1>1, <2>2, <2>3, SumFirst
  <2>5. Cardinality(U) = n - 1
    BY <1>1, <2>1, <2>3, <2>4, FS_RemoveElement
  <2>6. Sum(f, U) # 0
    BY <2>1, <2>4
  <2> QED BY <1>1, <2>5, <2>6
<1> HIDE DEF Bad
<1>3. Bad = {}
  <2>1. Bad \in SUBSET Nat
    BY DEF Bad
  <2> QED BY <1>2, <2>1, NoDescent
<1> QED BY <1>1, <1>3 DEF Bad

\* The sum of ones is their number.
LEMMA SumOnes ==
  ASSUME NEW f, NEW S, IsFiniteSet(S), \A x \in S : f[x] = 1
  PROVE  Sum(f, S) = Cardinality(S)
<1> DEFINE Bad == {n \in Nat : \E T \in SUBSET S : Cardinality(T) = n /\ Sum(f, T) # n}
<1>1. \A T \in SUBSET S : IsFiniteSet(T) /\ Cardinality(T) \in Nat
  BY FS_Subset, FS_CardinalityType
<1>2. ASSUME NEW n \in Bad PROVE n - 1 \in Bad
  <2>1. PICK T \in SUBSET S : Cardinality(T) = n /\ Sum(f, T) # n
    OBVIOUS
  <2>2. T # {}
    BY <2>1, SumEmpty, FS_EmptySet
  <2>3. PICK U \in SUBSET S : U = T \ {First(T)}
    OBVIOUS
  <2>4. First(T) \in T /\ Sum(f, T) = f[First(T)] + Sum(f, U)
    BY <1>1, <2>2, <2>3, SumFirst
  <2>5. Cardinality(U) = n - 1
    BY <1>1, <2>1, <2>3, <2>4, FS_RemoveElement
  <2>6. f[First(T)] = 1
    BY <2>4
  <2>7. Sum(f, U) # n - 1
    BY <2>1, <2>4, <2>6
  <2> QED BY <1>1, <2>5, <2>7
<1> HIDE DEF Bad
<1>3. Bad = {}
  <2>1. Bad \in SUBSET Nat
    BY DEF Bad
  <2> QED BY <1>2, <2>1, NoDescent
<1> QED BY <1>1, <1>3 DEF Bad

\* A set and what is left of a larger one.
LEMMA SumOfTwo ==
  ASSUME NEW f, NEW S, IsFiniteSet(S), \A x \in S : f[x] \in Int, NEW T \in SUBSET S
  PROVE  Sum(f, S) = Sum(f, T) + Sum(f, S \ T)
<1> DEFINE Bad == {n \in Nat : \E U \in SUBSET (S \ T) :
                     Cardinality(U) = n /\ Sum(f, T \union U) # Sum(f, T) + Sum(f, U)}
<1>1. \A U \in SUBSET S : IsFiniteSet(U) /\ Cardinality(U) \in Nat
  BY FS_Subset, FS_CardinalityType
<1>2. \A U \in SUBSET S : Sum(f, U) \in Int
  BY <1>1, SumType
<1>3. ASSUME NEW n \in Bad PROVE n - 1 \in Bad
  <2>1. PICK U \in SUBSET (S \ T) : Cardinality(U) = n /\ Sum(f, T \union U) # Sum(f, T) + Sum(f, U)
    OBVIOUS
  <2>2. U # {}
    BY <1>2, <2>1, SumEmpty
  <2>3. PICK x \in U : TRUE
    BY <2>2
  <2>4. PICK V \in SUBSET (S \ T) : V = U \ {x}
    OBVIOUS
  <2>5. PICK W \in SUBSET S : W = T \union U
    OBVIOUS
  <2>6. x \in W /\ W \ {x} = T \union V /\ x \in S
    BY <2>3, <2>4, <2>5
  <2>7. Sum(f, W) = f[x] + Sum(f, T \union V)
    BY <1>1, <2>6, SumAny
  <2>8. Sum(f, U) = f[x] + Sum(f, V)
    BY <1>1, <2>3, <2>4, SumAny
  <2>9. Sum(f, T) \in Int /\ Sum(f, V) \in Int /\ Sum(f, T \union V) \in Int /\ f[x] \in Int
    BY <1>2, <2>4, <2>6
  <2>10. Sum(f, T \union V) # Sum(f, T) + Sum(f, V)
    BY <2>1, <2>5, <2>7, <2>8, <2>9
  <2>11. Cardinality(V) = n - 1
    BY <1>1, <2>1, <2>3, <2>4, FS_RemoveElement
  <2> QED BY <1>1, <2>10, <2>11
<1> HIDE DEF Bad
<1>4. Bad = {}
  <2>1. Bad \in SUBSET Nat
    BY DEF Bad
  <2> QED BY <1>3, <2>1, NoDescent
<1>5. PICK U \in SUBSET S : U = S \ T
  OBVIOUS
<1>6. Sum(f, T \union U) = Sum(f, T) + Sum(f, U)
  BY <1>1, <1>4, <1>5 DEF Bad
<1>7. T \union U = S
  BY <1>5
<1> QED BY <1>5, <1>6, <1>7

\* Sums of terms that are no less are no less.
LEMMA SumLess ==
  ASSUME NEW f, NEW g, NEW S, IsFiniteSet(S), \A x \in S : f[x] \in Int /\ g[x] \in Int /\ f[x] <= g[x]
  PROVE  Sum(f, S) <= Sum(g, S)
<1> DEFINE Bad == {n \in Nat : \E T \in SUBSET S : Cardinality(T) = n /\ ~(Sum(f, T) <= Sum(g, T))}
<1>1. \A T \in SUBSET S : IsFiniteSet(T) /\ Cardinality(T) \in Nat
  BY FS_Subset, FS_CardinalityType
<1>2. \A T \in SUBSET S : Sum(f, T) \in Int /\ Sum(g, T) \in Int
  BY <1>1, SumType
<1>3. ASSUME NEW n \in Bad PROVE n - 1 \in Bad
  <2>1. PICK T \in SUBSET S : Cardinality(T) = n /\ ~(Sum(f, T) <= Sum(g, T))
    OBVIOUS
  <2>2. T # {}
    BY <2>1, SumEmpty
  <2>3. PICK U \in SUBSET S : U = T \ {First(T)}
    OBVIOUS
  <2>4. First(T) \in T /\ Sum(f, T) = f[First(T)] + Sum(f, U)
    BY <1>1, <2>2, <2>3, SumFirst
  <2>5. Sum(g, T) = g[First(T)] + Sum(g, U)
    BY <1>1, <2>2, <2>3, SumFirst
  <2>6. First(T) \in S
    BY <2>4
  <2>7. ~(Sum(f, U) <= Sum(g, U))
    BY <1>2, <2>1, <2>4, <2>5, <2>6
  <2>8. Cardinality(U) = n - 1
    BY <1>1, <2>1, <2>3, <2>4, FS_RemoveElement
  <2> QED BY <1>1, <2>7, <2>8
<1> HIDE DEF Bad
<1>4. Bad = {}
  <2>1. Bad \in SUBSET Nat
    BY DEF Bad
  <2> QED BY <1>3, <2>1, NoDescent
<1> QED BY <1>1, <1>4 DEF Bad

\* The parts of a set, by the value of h, have sums that add up to that of the set.
Part(h, S, d) == {x \in S : h[x] = d}
SumsOfParts(f, h, S, D) == [d \in D |-> Sum(f, Part(h, S, d))]

LEMMA SumOfParts ==
  ASSUME NEW f, NEW h, NEW S, IsFiniteSet(S), \A x \in S : f[x] \in Int,
         NEW D, IsFiniteSet(D), \A x \in S : h[x] \in D
  PROVE  Sum(SumsOfParts(f, h, S, D), D) = Sum(f, S)
<1> DEFINE Bad == {n \in Nat : \E T \in SUBSET S :
                     Cardinality(T) = n /\ Sum(SumsOfParts(f, h, T, D), D) # Sum(f, T)}
<1>1. \A T \in SUBSET S : IsFiniteSet(T) /\ Cardinality(T) \in Nat
  BY FS_Subset, FS_CardinalityType
<1>2. \A T \in SUBSET S : Sum(f, T) \in Int
  BY <1>1, SumType
<1>3. \A T \in SUBSET S, d \in D : Part(h, T, d) \in SUBSET S
  BY DEF Part
<1>4. \A T \in SUBSET S : \A d \in D : /\ SumsOfParts(f, h, T, D)[d] = Sum(f, Part(h, T, d))
                                       /\ SumsOfParts(f, h, T, D)[d] \in Int
  BY <1>2, <1>3 DEF SumsOfParts
<1>5. Sum(SumsOfParts(f, h, {}, D), D) = Sum(f, {})
  <2>1. \A d \in D : Part(h, {}, d) = {}
    BY DEF Part
  <2>2. \A d \in D : SumsOfParts(f, h, {}, D)[d] = 0
    BY <1>4, <2>1, SumEmpty
  <2> QED BY <2>2, SumNoughts, SumEmpty
<1>6. ASSUME NEW n \in Bad PROVE n - 1 \in Bad
  <2>1. PICK T \in SUBSET S : Cardinality(T) = n /\ Sum(SumsOfParts(f, h, T, D), D) # Sum(f, T)
    OBVIOUS
  <2>2. T # {}
    BY <1>5, <2>1
  <2>3. PICK x \in T : TRUE
    BY <2>2
  <2>4. PICK U \in SUBSET S : U = T \ {x}
    OBVIOUS
  <2>5. PICK d \in D : d = h[x]
    BY <2>3
  <2>6. PICK a, b : a = SumsOfParts(f, h, T, D) /\ b = SumsOfParts(f, h, U, D)
    OBVIOUS
  <2>7. Sum(f, T) = f[x] + Sum(f, U) /\ Sum(f, U) \in Int /\ f[x] \in Int
    BY <1>1, <1>2, <2>3, <2>4, SumAny
  <2>8. (\A e \in D : a[e] \in Int /\ b[e] \in Int) /\ a[d] = f[x] + b[d]
    <3>1. PICK P \in SUBSET S : P = Part(h, T, d)
      BY <1>3
    <3>2. x \in P /\ P \ {x} = Part(h, U, d)
      BY <2>3, <2>4, <2>5, <3>1 DEF Part
    <3>3. Sum(f, P) = f[x] + Sum(f, Part(h, U, d))
      BY <1>1, <3>2, SumAny
    <3> QED BY <1>4, <2>6, <3>1, <3>3
  <2>9. \A e \in D \ {d} : a[e] = b[e]
    <3>1. \A e \in D \ {d} : Part(h, T, e) = Part(h, U, e)
      BY <2>3, <2>4, <2>5 DEF Part
    <3> QED BY <1>4, <2>6, <3>1
  <2>10. Sum(a, D) = a[d] + Sum(a, D \ {d}) /\ Sum(b, D) = b[d] + Sum(b, D \ {d})
    BY <2>8, SumAny
  <2>11. IsFiniteSet(D \ {d})
    BY FS_Subset
  <2>12. Sum(a, D \ {d}) = Sum(b, D \ {d}) /\ Sum(b, D \ {d}) \in Int
    BY <2>8, <2>9, <2>11, SumSame, SumType
  <2>13. Sum(b, D) # Sum(f, U)
    BY <2>1, <2>6, <2>7, <2>8, <2>10, <2>12
  <2>14. Cardinality(U) = n - 1
    BY <1>1, <2>1, <2>3, <2>4, FS_RemoveElement
  <2> QED BY <1>1, <2>6, <2>13, <2>14
<1> HIDE DEF Bad
<1>7. Bad = {}
  <2>1. Bad \in SUBSET Nat
    BY DEF Bad
  <2> QED BY <1>6, <2>1, NoDescent
<1> QED BY <1>1, <1>7 DEF Bad

\* f takes the values of g under h, which takes no value twice.
Renames(f, h, S, g, D) ==
  /\ \A x \in S : h[x] \in D /\ f[x] = g[h[x]]
  /\ \A x, y \in S : h[x] = h[y] => x = y
Onto(h, S, D) == \A d \in D : \E x \in S : h[x] = d

\* The terms of a sum may be renamed.
LEMMA SumRenamed ==
  ASSUME NEW f, NEW h, NEW S, IsFiniteSet(S), NEW g, NEW D, IsFiniteSet(D),
         Renames(f, h, S, g, D), \A d \in D : g[d] \in Int
  PROVE  /\ Onto(h, S, D) => Sum(f, S) = Sum(g, D)
         /\ (\A d \in D : g[d] \in Nat) => Sum(f, S) <= Sum(g, D)
<1>1. PICK p : p = SumsOfParts(f, h, S, D)
  OBVIOUS
<1>2. \A x \in S : h[x] \in D /\ f[x] = g[h[x]] /\ f[x] \in Int
  BY DEF Renames
<1>3. Sum(p, D) = Sum(f, S)
  BY <1>1, <1>2, SumOfParts
<1>4. ASSUME NEW x \in S PROVE p[h[x]] = g[h[x]]
  <2>1. Part(h, S, h[x]) = {x}
    BY DEF Renames, Part
  <2>2. IsFiniteSet({x}) /\ {x} \ {x} = {}
    BY FS_Singleton
  <2>3. Sum(f, {x}) = f[x] + Sum(f, {})
    BY <1>2, <2>2, SumAny
  <2>4. Sum(f, {x}) = f[x]
    BY <1>2, <2>3, SumEmpty
  <2>5. p[h[x]] = Sum(f, Part(h, S, h[x]))
    BY <1>1, <1>2 DEF SumsOfParts
  <2> QED BY <1>2, <2>1, <2>4, <2>5
<1>5. ASSUME NEW d \in D, ~\E x \in S : h[x] = d PROVE p[d] = 0
  <2>1. Part(h, S, d) = {}
    BY <1>5 DEF Part
  <2> QED BY <1>1, <2>1, SumEmpty DEF SumsOfParts
<1>6. ASSUME Onto(h, S, D) PROVE Sum(f, S) = Sum(g, D)
  <2>1. \A d \in D : p[d] = g[d]
    BY <1>4, <1>6 DEF Onto
  <2>2. Sum(p, D) = Sum(g, D)
    BY <2>1, SumSame
  <2> QED BY <1>3, <2>2
<1>7. ASSUME \A d \in D : g[d] \in Nat PROVE Sum(f, S) <= Sum(g, D)
  <2>1. \A d \in D : p[d] \in Int /\ g[d] \in Int /\ p[d] <= g[d]
    BY <1>4, <1>5, <1>7
  <2>2. Sum(p, D) <= Sum(g, D)
    BY <2>1, SumLess
  <2> QED BY <1>3, <2>2
<1> QED BY <1>6, <1>7

\* A list of as many different elements as there are holds all.
LEMMA OntoIfAsMany ==
  ASSUME NEW h, NEW n \in Nat, NEW D, IsFiniteSet(D), n = Cardinality(D),
         \A i \in 1..n : h[i] \in D, \A i, j \in 1..n : h[i] = h[j] => i = j
  PROVE  Onto(h, 1..n, D)
<1>1. PICK f : f = [i \in 1..n |-> h[i]]
  OBVIOUS
<1>2. f \in Injection(1..n, D)
  BY <1>1 DEF Injection, IsInjective
<1>3. Cardinality(1..n) = n
  BY FS_Interval
<1>4. f \in Surjection(1..n, D)
  BY <1>2, <1>3, FS_Injection
<1> QED BY <1>1, <1>4 DEF Surjection, Onto

-----------------------------------------------------------------------------
(* The statistics. *)

\* The stored rows.
Rows == [fact : BookingFact \union HoursFact, seq : Nat]

\* Of each booking, or working day, one stored row is the newest.
HasNewest(t) == \A r \in t : \E s \in t : s.fact.key = r.fact.key /\ Newest(s, t)

\* A table in which n rows were inserted: they are in the order of their inserts.
TableInv(t, facts, n) ==
  /\ t \subseteq Rows /\ IsFiniteSet(t)
  /\ \A r \in t : r.fact \in facts /\ r.seq <= n
  /\ HasNewest(t)

StoredInv ==
  /\ stored \in [bookings : Nat, hours : Nat]
  /\ TableInv(bookings, BookingFact, stored.bookings)
  /\ TableInv(hours, HoursFact, stored.hours)

\* Newer is an order of the rows.
LEMMA NewerOrder ==
  ASSUME NEW r \in Rows, NEW s \in Rows, NEW q \in Rows
  PROVE  /\ ~(Newer(r, s) /\ Newer(s, r))
         /\ ~Newer(r, r)
         /\ Newer(r, s) /\ Newer(s, q) => Newer(r, q)
         /\ r.seq > s.seq => Newer(r, s) \/ Newer(s, r)
<1>1. r.fact.at \in Nat /\ s.fact.at \in Nat /\ q.fact.at \in Nat
  BY StatisticsAssumption DEF Rows
<1>2. r.seq \in Nat /\ s.seq \in Nat /\ q.seq \in Nat
  BY DEF Rows
<1> QED BY <1>1, <1>2 DEF Newer

Inserted(t, f, n) == t \union {[fact |-> f, seq |-> n + 1]}

\* An inserted row is later than all, and the newest of its key or older than the newest.
LEMMA InsertRow ==
  ASSUME NEW facts \in {BookingFact, HoursFact}, NEW f \in facts, NEW n \in Nat, NEW t, TableInv(t, facts, n)
  PROVE  TableInv(Inserted(t, f, n), facts, n + 1)
<1>1. PICK u : u = [fact |-> f, seq |-> n + 1]
  OBVIOUS
<1>2. PICK T : T = Inserted(t, f, n)
  OBVIOUS
<1>3. u \in Rows /\ u.fact = f /\ u.seq = n + 1
  BY <1>1 DEF Rows
<1>4. T = t \union {u}
  BY <1>1, <1>2 DEF Inserted
<1>5. T \subseteq Rows /\ IsFiniteSet(T)
  BY <1>3, <1>4, FS_AddElement DEF TableInv
<1>6. \A r \in t : r.seq \in Nat /\ r.seq <= n /\ r \in Rows
  BY DEF TableInv, Rows
<1>7. \A r \in T : r.fact \in facts /\ r.seq <= n + 1
  BY <1>3, <1>4, <1>6 DEF TableInv
<1>8. \A r \in t : u.seq > r.seq
  BY <1>3, <1>6
<1>9. HasNewest(T)
  <2> SUFFICES ASSUME NEW r \in T PROVE \E s \in T : s.fact.key = r.fact.key /\ Newest(s, T)
    BY DEF HasNewest
  <2>1. CASE \E q \in t : q.fact.key = r.fact.key
    <3>1. PICK s \in t : s.fact.key = r.fact.key /\ Newest(s, t)
      BY <2>1 DEF TableInv, HasNewest
    <3>2. CASE u.fact.key # r.fact.key
      BY <1>4, <3>1, <3>2 DEF Newest
    <3>3. CASE u.fact.key = r.fact.key /\ Newer(s, u)
      BY <1>4, <3>1, <3>3 DEF Newest
    <3>4. CASE u.fact.key = r.fact.key /\ Newer(u, s)
      <4>1. ASSUME NEW q \in t, q.fact.key = u.fact.key PROVE Newer(u, q)
        <5>1. q = s \/ Newer(s, q)
          BY <3>1, <3>4, <4>1 DEF Newest
        <5> QED BY <1>3, <1>6, <3>4, <5>1, NewerOrder
      <4>2. Newest(u, T)
        BY <1>4, <4>1 DEF Newest
      <4> QED BY <1>4, <3>4, <4>2
    <3>5. Newer(u, s) \/ Newer(s, u)
      BY <1>3, <1>6, <1>8, NewerOrder
    <3> QED BY <3>2, <3>3, <3>4, <3>5
  <2>2. CASE ~\E q \in t : q.fact.key = r.fact.key
    <3>1. r = u
      BY <1>4, <2>2
    <3>2. Newest(u, T)
      BY <1>4, <2>2, <3>1 DEF Newest
    <3> QED BY <1>4, <3>1, <3>2
  <2> QED BY <2>1, <2>2
<1> QED BY <1>2, <1>5, <1>7, <1>9 DEF TableInv

\* The newest rows of t are those of T.
SameNewest(t, T) == \A r \in t : Newest(r, t) <=> (r \in T /\ Newest(r, T))
\* A merge leaves out a row that is not the newest, and the newest stay what they were.
LEMMA MergeRow ==
  ASSUME NEW facts, NEW n, NEW t, TableInv(t, facts, n), NEW r \in t, NEW s \in t, Merges(r, s)
  PROVE  TableInv(t \ {s}, facts, n) /\ SameNewest(t, t \ {s})
<1>1. PICK T \in SUBSET t : T = t \ {s}
  OBVIOUS
<1>2. t \subseteq Rows
  BY DEF TableInv
<1>3. r.fact.key = s.fact.key /\ Newer(r, s) /\ r # s /\ ~Newer(s, r)
  BY <1>2, NewerOrder DEF Merges
<1>4. ASSUME NEW u \in t, Newest(u, t) PROVE u \in T /\ Newest(u, T)
  <2>1. u # s
    BY <1>3, <1>4 DEF Newest
  <2> QED BY <1>1, <1>4, <2>1 DEF Newest
<1>5. ASSUME NEW u \in T, Newest(u, T) PROVE Newest(u, t)
  <2>1. PICK w \in t : w.fact.key = u.fact.key /\ Newest(w, t)
    BY DEF TableInv, HasNewest
  <2>2. w \in T
    BY <1>4, <2>1
  <2>3. w = u \/ (Newer(u, w) /\ Newer(w, u))
    BY <1>5, <2>1, <2>2 DEF Newest
  <2> QED BY <1>2, <2>1, <2>3, NewerOrder
<1>6. HasNewest(T)
  BY <1>4 DEF HasNewest, TableInv
<1>7. TableInv(T, facts, n)
  BY <1>6, FS_Subset DEF TableInv
<1>8. SameNewest(t, T)
  BY <1>4, <1>5 DEF SameNewest
<1> QED BY <1>1, <1>7, <1>8

\* The rows of hours that an answer is made of.
Due(p, k) == {r \in Of(hours, k) : Newest(r, hours) /\ InPeriod(r, p)}

\* The first statement of an answer: what it finds besides the sure rows is doubtful.
LEMMA FoundRows ==
  ASSUME StoredInv, NEW p, NEW k, NEW rows \in Found(bookings, p)
  PROVE  \E old \in SUBSET Doubtful(p, k) :
           /\ \A r, s \in old : r.fact.key = s.fact.key => r = s
           /\ Of(rows, k) = Sure(p, k) \union old
<1>1. PICK skipped \in SUBSET {r \in bookings : ~InPeriod(r, p)} :
        rows = {r \in Final(bookings \ skipped) : InPeriod(r, p)}
  BY DEF Found
<1> DEFINE t == bookings \ skipped
           old == Of(rows, k) \ Sure(p, k)
<1>2. \A r \in Of(rows, k) : r \in t /\ r \in bookings /\ Newest(r, t) /\ InPeriod(r, p) /\ r.fact.barber = k
  BY <1>1 DEF Of, Final
<1>3. bookings \subseteq Rows
  BY DEF StoredInv, TableInv
<1>4. Sure(p, k) \subseteq Of(rows, k)
  <2> SUFFICES ASSUME NEW r \in Sure(p, k) PROVE r \in Of(rows, k)
    OBVIOUS
  <2>1. r \in bookings /\ r.fact.barber = k /\ Newest(r, bookings) /\ InPeriod(r, p)
    BY DEF Sure, Of
  <2>2. r \in t /\ Newest(r, t)
    BY <1>1, <2>1 DEF Newest
  <2> QED BY <1>1, <2>1, <2>2 DEF Of, Final
<1>5. old \subseteq Doubtful(p, k)
  <2> SUFFICES ASSUME NEW r \in old PROVE r \in Doubtful(p, k)
    OBVIOUS
  <2>1. r \in t /\ r \in bookings /\ Newest(r, t) /\ InPeriod(r, p) /\ r.fact.barber = k
    BY <1>2
  <2>2. ~Newest(r, bookings)
    BY <2>1 DEF Sure, Of
  <2>3. PICK s \in bookings : s.fact.key = r.fact.key /\ Newest(s, bookings)
    BY <2>1 DEF StoredInv, TableInv, HasNewest
  <2>4. s # r /\ Newer(s, r)
    BY <2>1, <2>2, <2>3 DEF Newest
  <2>5. ~InPeriod(s, p)
    <3> SUFFICES ASSUME InPeriod(s, p) PROVE FALSE
      OBVIOUS
    <3>1. s \in t
      BY <1>1
    <3>2. Newer(r, s)
      BY <2>1, <2>3, <2>4, <3>1 DEF Newest
    <3> QED BY <1>3, <2>1, <2>4, <3>2, NewerOrder
  <2> QED BY <2>1, <2>3, <2>5 DEF Doubtful, Of
<1>6. ASSUME NEW r \in old, NEW s \in old, r.fact.key = s.fact.key PROVE r = s
  <2>1. r \in t /\ s \in t /\ Newest(r, t) /\ Newest(s, t) /\ r \in Rows /\ s \in Rows
    BY <1>2, <1>3
  <2> QED BY <1>6, <2>1, NewerOrder DEF Newest
<1>7. Of(rows, k) = Sure(p, k) \union old
  BY <1>4
<1> HIDE DEF old
<1> QED BY <1>5, <1>6, <1>7

\* A working day keeps its date: whatever is skipped, the hours found are the same.
LEMMA FoundHours ==
  ASSUME StoredInv, NEW p, NEW k, NEW rows \in Found(hours, p)
  PROVE  Of(rows, k) = Due(p, k)
<1>1. PICK skipped \in SUBSET {r \in hours : ~InPeriod(r, p)} :
        rows = {r \in Final(hours \ skipped) : InPeriod(r, p)}
  BY DEF Found
<1>2. PICK t : t = hours \ skipped
  OBVIOUS
<1>3. \A r, s \in hours : r.fact.key = s.fact.key => r.fact.day = s.fact.day
  BY StatisticsAssumption DEF StoredInv, TableInv
<1>4. ASSUME NEW r \in hours, InPeriod(r, p)
      PROVE  r \in t /\ (Newest(r, t) <=> Newest(r, hours))
  <2>1. \A s \in hours : s.fact.key = r.fact.key => InPeriod(s, p)
    BY <1>3, <1>4 DEF InPeriod
  <2>2. \A s \in hours : s.fact.key = r.fact.key => s \in t
    BY <1>1, <1>2, <2>1
  <2> QED BY <1>2, <2>2 DEF Newest
<1>5. \A r : r \in Of(rows, k) <=> r \in Due(p, k)
  BY <1>1, <1>2, <1>4 DEF Of, Due, Final
<1> QED BY <1>5

\* An inserted booking keeps both tables in order.
LEMMA InsertBookingStored == \A f \in BookingFact : StoredInv /\ InsertBooking(f) => StoredInv'
<1> SUFFICES ASSUME NEW f \in BookingFact, StoredInv, InsertBooking(f) PROVE StoredInv'
  OBVIOUS
<1>1. PICK n \in Nat : n = stored.bookings
  BY DEF StoredInv
<1>2. stored' \in [bookings : Nat, hours : Nat] /\ stored'.bookings = n + 1 /\ stored'.hours = stored.hours
  BY <1>1 DEF StoredInv, InsertBooking
<1>3. bookings' = Inserted(bookings, f, n) /\ hours' = hours
  BY <1>2 DEF InsertBooking, Inserted
<1>4. TableInv(Inserted(bookings, f, n), BookingFact, n + 1)
  BY <1>1, InsertRow DEF StoredInv
<1> QED BY <1>2, <1>3, <1>4 DEF StoredInv

\* The same for schedule_hours.
LEMMA InsertScheduleStored == \A f \in HoursFact : StoredInv /\ InsertSchedule(f) => StoredInv'
<1> SUFFICES ASSUME NEW f \in HoursFact, StoredInv, InsertSchedule(f) PROVE StoredInv'
  OBVIOUS
<1>1. PICK n \in Nat : n = stored.hours
  BY DEF StoredInv
<1>2. stored' \in [bookings : Nat, hours : Nat] /\ stored'.hours = n + 1 /\ stored'.bookings = stored.bookings
  BY <1>1 DEF StoredInv, InsertSchedule
<1>3. hours' = Inserted(hours, f, n) /\ bookings' = bookings
  BY <1>2 DEF InsertSchedule, Inserted
<1>4. TableInv(Inserted(hours, f, n), HoursFact, n + 1)
  BY <1>1, InsertRow DEF StoredInv
<1> QED BY <1>2, <1>3, <1>4 DEF StoredInv

\* A merge keeps the order of the rows, and in both tables the newest.
MergeKept ==
  /\ bookings' \subseteq bookings /\ SameNewest(bookings, bookings')
  /\ hours' \subseteq hours /\ SameNewest(hours, hours')
LEMMA MergeStored == StoredInv /\ Merge => StoredInv' /\ MergeKept
<1> SUFFICES ASSUME StoredInv, Merge PROVE StoredInv' /\ MergeKept
  OBVIOUS
<1>1. stored' = stored
  BY DEF Merge
<1>2. SameNewest(bookings, bookings) /\ SameNewest(hours, hours)
  BY DEF SameNewest
<1>3. ASSUME NEW r \in bookings, NEW s \in bookings, Merges(r, s), bookings' = bookings \ {s}, hours' = hours
      PROVE  StoredInv' /\ MergeKept
  <2>1. TableInv(bookings', BookingFact, stored.bookings) /\ SameNewest(bookings, bookings')
    BY <1>3, MergeRow DEF StoredInv
  <2> QED BY <1>1, <1>2, <1>3, <2>1 DEF StoredInv, MergeKept
<1>4. ASSUME NEW r \in hours, NEW s \in hours, Merges(r, s), hours' = hours \ {s}, bookings' = bookings
      PROVE  StoredInv' /\ MergeKept
  <2>1. TableInv(hours', HoursFact, stored.hours) /\ SameNewest(hours, hours')
    BY <1>4, MergeRow DEF StoredInv
  <2> QED BY <1>1, <1>2, <1>4, <2>1 DEF StoredInv, MergeKept
<1> QED BY <1>3, <1>4 DEF Merge

\* Every step keeps the order of the rows.
LEMMA StoredStep == StoredInv /\ [StatsNext]_statsVars => StoredInv'
<1> SUFFICES ASSUME StoredInv, [StatsNext]_statsVars PROVE StoredInv'
  OBVIOUS
<1>1. CASE UNCHANGED <<bookings, hours, stored>>
  BY <1>1 DEF StoredInv
<1> QED BY <1>1, InsertBookingStored, InsertScheduleStored, MergeStored
    DEF StatsNext, statsVars, GetBarberStats, GetBookingStats, GetScheduleMinutes,
        GetTopServices,
        GetDailyBookings, Respond, Fail, Midnight

\* What an answer was made of is still there after a merge.
LEMMA MergeKeepsSure ==
  ASSUME StoredInv, MergeKept, NEW p, NEW k
  PROVE  Sure(p, k)' = Sure(p, k) /\ Due(p, k)' = Due(p, k) /\ Doubtful(p, k)' \subseteq Doubtful(p, k)
<1>1. Sure(p, k)' = Sure(p, k)
  BY DEF MergeKept, SameNewest, Sure, Of
<1>2. Due(p, k)' = Due(p, k)
  BY DEF MergeKept, SameNewest, Due, Of
<1>3. Doubtful(p, k)' \subseteq Doubtful(p, k)
  BY DEF MergeKept, SameNewest, Doubtful, Of
<1> QED BY <1>1, <1>2, <1>3

\* The answer has what the statements before its stage have found.
AnswerInv ==
  /\ {"sure", "doubtful", "undisturbed"} \subseteq DOMAIN history
  /\ answer # NoAnswer =>
       /\ {"stage", "barber", "period", "paging"} \subseteq DOMAIN answer /\ answer.paging \in Paging
       /\ answer.stage # "stats" => "stats" \in DOMAIN answer
       /\ answer.stage \notin {"stats", "minutes"} => "minutes" \in DOMAIN answer
       /\ answer.stage \notin {"stats", "minutes", "top"} => "top" \in DOMAIN answer
       /\ answer.stage = "dayhours" => "days" \in DOMAIN answer

\* What the parts of an answer are that nothing disturbed.
MadeOf(ans, sure, due) ==
  /\ ans.stats = BookingStats(sure)
  /\ ans.stage # "minutes" => ans.minutes = ScheduleMinutes(due)
  /\ ans.stage \notin {"minutes", "top"} => ans.top \in Top(sure)
  /\ ans.stage = "dayhours" => ans.days = DailyBookings(sure)
  /\ ans.stage = "done" =>
       \E days \in DailyHours(DailyBookings(sure), due) :
         ans.days = Page(Sorted(days), ans.paging) /\ ans.daysTotal = Cardinality(DOMAIN days)

\* No row arrived since the first statement, and no booking had left the period.
Quiet == answer # NoAnswer /\ answer.stage # "stats" /\ history.undisturbed /\ history.doubtful = {}
\* What an answer was made of is still there.
Still(ans) ==
  /\ history.sure = Sure(ans.period, ans.barber) /\ Doubtful(ans.period, ans.barber) = {}
  /\ MadeOf(ans, Sure(ans.period, ans.barber), Due(ans.period, ans.barber))
QuietInv == Quiet => Still(answer)

AnswersInv == AnswerInv /\ CountsAreTrue /\ QuietInv

\* A later statement adds to the answer, and replaces what it names.
LEMMA MoreKeeps ==
  ASSUME NEW more, answer' = AnswerWith(more)
  PROVE  /\ DOMAIN answer' = DOMAIN answer \union DOMAIN more
         /\ \A field \in DOMAIN more : answer'[field] = more[field]
         /\ \A field \in DOMAIN answer \ DOMAIN more : answer'[field] = answer[field]
<1>1. DOMAIN answer' = DOMAIN answer \union DOMAIN more
  BY DEF AnswerWith
<1>2. \A field \in DOMAIN answer' :
        answer'[field] = IF field \in DOMAIN more THEN more[field] ELSE answer[field]
  BY <1>1 DEF AnswerWith
<1> QED BY <1>1, <1>2

\* The answer goes on to a stage with one more field.
OneMore(field, value, stage) ==
  /\ DOMAIN answer' = DOMAIN answer \union {"stage", field}
  /\ answer'.stage = stage /\ answer'[field] = value
  /\ \A other \in DOMAIN answer \ {"stage", field} : answer'[other] = answer[other]
\* A statement that names the stage and a field does that.
LEMMA OneMoreField ==
  ASSUME NEW more, answer' = AnswerWith(more), NEW field, NEW stage,
         DOMAIN more = {"stage", field}, more.stage = stage
  PROVE  OneMore(field, more[field], stage)
<1>1. answer'["stage"] = more["stage"]
  BY MoreKeeps
<1> QED BY <1>1, MoreKeeps DEF OneMore

\* The first statement makes the totals true, and they are those of the sure rows if no
\* others were in doubt.
LEMMA FirstStatement == StoredInv /\ AnswerInv /\ GetBookingStats => AnswersInv'
<1> SUFFICES ASSUME StoredInv, AnswerInv, GetBookingStats PROVE AnswersInv'
  OBVIOUS
<1>1. PICK k, p : k = answer.barber /\ p = answer.period
  OBVIOUS
<1>2. PICK rows \in Found(bookings, p) :
        answer' = AnswerWith([stage |-> "minutes", stats |-> BookingStats(Of(rows, k))])
  BY <1>1 DEF GetBookingStats
<1>3. history' = [sure |-> Sure(p, k), doubtful |-> Doubtful(p, k), undisturbed |-> TRUE]
  BY <1>1 DEF GetBookingStats
<1>4. answer # NoAnswer /\ answer.stage = "stats" /\ bookings' = bookings /\ hours' = hours
  BY DEF GetBookingStats, At
<1>5. PICK stats : stats = BookingStats(Of(rows, k))
  OBVIOUS
<1>6. /\ {"stage", "barber", "period", "paging", "stats"} \subseteq DOMAIN answer'
      /\ answer'.stage = "minutes" /\ answer'.stats = stats
      /\ answer'.barber = k /\ answer'.period = p /\ answer'.paging = answer.paging
  <2>1. PICK more : more = [stage |-> "minutes", stats |-> stats]
    OBVIOUS
  <2>2. DOMAIN more = {"stage", "stats"} /\ more.stage = "minutes" /\ more["stats"] = stats
    BY <2>1
  <2>3. OneMore("stats", stats, "minutes")
    BY <1>2, <1>5, <2>1, <2>2, OneMoreField
  <2>4. {"stage", "barber", "period", "paging"} \subseteq DOMAIN answer
    BY <1>4 DEF AnswerInv
  <2>5. answer'["barber"] = answer["barber"] /\ answer'["period"] = answer["period"]
        /\ answer'["paging"] = answer["paging"]
    BY <2>3, <2>4 DEF OneMore
  <2>6. {"stage", "barber", "period", "paging", "stats"} \subseteq DOMAIN answer'
    BY <2>3, <2>4 DEF OneMore
  <2>7. answer'.stage = "minutes" /\ answer'["stats"] = stats
    BY <2>3 DEF OneMore
  <2> QED BY <1>1, <2>5, <2>6, <2>7
<1>7. PICK old \in SUBSET Doubtful(p, k) :
        /\ \A r, s \in old : r.fact.key = s.fact.key => r = s
        /\ Of(rows, k) = Sure(p, k) \union old
  BY FoundRows
<1>8. AnswerInv'
  BY <1>3, <1>4, <1>6 DEF AnswerInv
<1>9. CountsAreTrue'
  <2>1. history'.sure = Sure(p, k) /\ history'.doubtful = Doubtful(p, k)
    BY <1>3
  <2>2. answer'.stats = BookingStats(history'.sure \union old) /\ old \in SUBSET history'.doubtful
    BY <1>5, <1>6, <1>7, <2>1
  <2> QED BY <1>7, <2>2 DEF CountsAreTrue
<1>10. QuietInv'
  <2> SUFFICES ASSUME Quiet' PROVE Still(answer)'
    BY DEF QuietInv
  <2>1. Sure(p, k)' = Sure(p, k) /\ Doubtful(p, k)' = Doubtful(p, k)
    BY <1>4 DEF Sure, Doubtful, Of
  <2>2. Doubtful(p, k) = {} /\ history'.sure = Sure(p, k)
    BY <1>3 DEF Quiet
  <2>3. Of(rows, k) = Sure(p, k)
    BY <1>7, <2>2
  <2>4. MadeOf(answer', Sure(p, k), Due(p, k)')
    BY <1>5, <1>6, <2>3 DEF MadeOf
  <2> QED BY <1>6, <2>1, <2>2, <2>4 DEF Still
<1> QED BY <1>8, <1>9, <1>10 DEF AnswersInv

\* What every later statement has in common.
Later ==
  /\ answer # NoAnswer /\ answer.stage # "stats"
  /\ history' = history /\ bookings' = bookings /\ hours' = hours
  /\ answer'.stage # "stats" /\ answer'.stats = answer.stats
  /\ answer'.barber = answer.barber /\ answer'.period = answer.period
\* A later statement keeps the totals, and adds a part of the same rows.
LEMMA LaterStatement ==
  ASSUME AnswersInv, Later, AnswerInv',
         Quiet => MadeOf(answer', Sure(answer.period, answer.barber), Due(answer.period, answer.barber))
  PROVE  AnswersInv'
<1>1. CountsAreTrue'
  BY DEF AnswersInv, CountsAreTrue, Later
<1>2. QuietInv'
  <2> SUFFICES ASSUME Quiet' PROVE Still(answer)'
    BY DEF QuietInv
  <2>1. PICK k, p : k = answer.barber /\ p = answer.period
    OBVIOUS
  <2>2. Sure(p, k)' = Sure(p, k) /\ Doubtful(p, k)' = Doubtful(p, k) /\ Due(p, k)' = Due(p, k)
    BY DEF Later, Sure, Doubtful, Due, Of
  <2>3. Quiet
    BY DEF Later, Quiet
  <2>4. Still(answer)
    BY <2>3 DEF AnswersInv, QuietInv
  <2>5. history.sure = Sure(p, k) /\ Doubtful(p, k) = {}
    BY <2>1, <2>4 DEF Still
  <2>6. MadeOf(answer', Sure(p, k), Due(p, k))
    BY <2>1, <2>3
  <2>7. history' = history /\ answer'.barber = k /\ answer'.period = p
    BY <2>1 DEF Later
  <2> QED BY <2>2, <2>5, <2>6, <2>7 DEF Still
<1> QED BY <1>1, <1>2 DEF AnswersInv

\* A statement only reads.
SameTables == history' = history /\ bookings' = bookings /\ hours' = hours

\* A statement that adds its field goes on to the next.
LEMMA GoesOn ==
  ASSUME AnswerInv, answer # NoAnswer, SameTables, NEW value, NEW field, NEW stage,
         OneMore(field, value, stage),
         \/ answer.stage = "minutes" /\ field = "minutes" /\ stage = "top"
         \/ answer.stage = "top" /\ field = "top" /\ stage = "days"
         \/ answer.stage = "days" /\ field = "days" /\ stage = "dayhours"
  PROVE  AnswerInv' /\ Later
<1>1. {"stage", "barber", "period", "paging", "stats"} \subseteq DOMAIN answer
  BY DEF AnswerInv
<1>2. /\ answer'["barber"] = answer["barber"] /\ answer'["period"] = answer["period"]
      /\ answer'["paging"] = answer["paging"] /\ answer'["stats"] = answer["stats"]
  BY <1>1 DEF OneMore
<1>3. {"stage", "barber", "period", "paging", "stats"} \subseteq DOMAIN answer' /\ answer'.stage = stage
  BY <1>1 DEF OneMore
<1>4. answer.stage # "stats" /\ answer'.stage # "stats"
  BY <1>3
<1>5. Later
  BY <1>2, <1>4 DEF Later, SameTables
<1>6. /\ stage \notin {"stats", "minutes"} => "minutes" \in DOMAIN answer'
      /\ stage \notin {"stats", "minutes", "top"} => "top" \in DOMAIN answer'
      /\ stage = "dayhours" => "days" \in DOMAIN answer'
  BY DEF AnswerInv, OneMore
<1>7. {"sure", "doubtful", "undisturbed"} \subseteq DOMAIN history' /\ answer'.paging \in Paging
  BY <1>2 DEF AnswerInv, SameTables
<1> QED BY <1>3, <1>5, <1>6, <1>7 DEF AnswerInv

\* The working hours are those of the days that are due.
LEMMA MinutesStatement == StoredInv /\ AnswersInv /\ GetScheduleMinutes => AnswersInv'
<1> SUFFICES ASSUME StoredInv, AnswersInv, GetScheduleMinutes PROVE AnswersInv'
  OBVIOUS
<1>1. PICK k, p : k = answer.barber /\ p = answer.period
  OBVIOUS
<1>2. PICK rows \in Found(hours, p) :
        answer' = AnswerWith([stage |-> "top", minutes |-> ScheduleMinutes(Of(rows, k))])
  BY <1>1 DEF GetScheduleMinutes
<1>3. answer # NoAnswer /\ answer.stage = "minutes" /\ SameTables
  BY DEF GetScheduleMinutes, At, SameTables
<1>4. Of(rows, k) = Due(p, k)
  BY FoundHours
<1>5. PICK minutes : minutes = ScheduleMinutes(Due(p, k))
  OBVIOUS
<1>6. OneMore("minutes", minutes, "top")
  <2>1. PICK more : more = [stage |-> "top", minutes |-> minutes]
    OBVIOUS
  <2>2. DOMAIN more = {"stage", "minutes"} /\ more.stage = "top" /\ more["minutes"] = minutes
    BY <2>1
  <2> QED BY <1>2, <1>4, <1>5, <2>1, <2>2, OneMoreField
<1>7. AnswerInv' /\ Later
  BY <1>3, <1>6, GoesOn DEF AnswersInv
<1>8. answer'.stage = "top" /\ answer'.minutes = minutes /\ answer'.stats = answer.stats
  BY <1>6, <1>7 DEF OneMore, Later
<1>9. ASSUME Quiet PROVE MadeOf(answer', Sure(p, k), Due(p, k))
  BY <1>1, <1>5, <1>8, <1>9 DEF AnswersInv, QuietInv, Still, MadeOf
<1> QED BY <1>1, <1>7, <1>9, LaterStatement

\* While nothing disturbs an answer, every statement on bookings finds the sure rows.
LEMMA FoundSure ==
  ASSUME StoredInv, AnswersInv, Quiet, NEW k, NEW p, k = answer.barber, p = answer.period,
         NEW rows \in Found(bookings, p)
  PROVE  Of(rows, k) = Sure(p, k)
<1>1. Doubtful(p, k) = {}
  BY DEF AnswersInv, QuietInv, Still
<1>2. PICK old \in SUBSET Doubtful(p, k) : Of(rows, k) = Sure(p, k) \union old
  BY FoundRows
<1> QED BY <1>1, <1>2

\* The services are those of the sure rows.
LEMMA TopStatement == StoredInv /\ AnswersInv /\ GetTopServices => AnswersInv'
<1> SUFFICES ASSUME StoredInv, AnswersInv, GetTopServices PROVE AnswersInv'
  OBVIOUS
<1>1. PICK k, p : k = answer.barber /\ p = answer.period
  OBVIOUS
<1>2. PICK rows \in Found(bookings, p) : \E top \in Top(Of(rows, k)) :
        answer' = AnswerWith([stage |-> "days", top |-> top])
  BY <1>1 DEF GetTopServices
<1>3. PICK top \in Top(Of(rows, k)) : answer' = AnswerWith([stage |-> "days", top |-> top])
  BY <1>2
<1>4. answer # NoAnswer /\ answer.stage = "top" /\ SameTables
  BY DEF GetTopServices, At, SameTables
<1>5. OneMore("top", top, "days")
  <2>1. PICK more : more = [stage |-> "days", top |-> top]
    OBVIOUS
  <2>2. DOMAIN more = {"stage", "top"} /\ more.stage = "days" /\ more["top"] = top
    BY <2>1
  <2> QED BY <1>3, <2>1, <2>2, OneMoreField
<1>6. AnswerInv' /\ Later
  BY <1>4, <1>5, GoesOn DEF AnswersInv
<1>7. answer'["minutes"] = answer["minutes"]
  BY <1>4, <1>5 DEF OneMore, AnswersInv, AnswerInv
<1>8. answer'.stage = "days" /\ answer'.top = top /\ answer'.stats = answer.stats
  BY <1>5, <1>6 DEF OneMore, Later
<1>9. ASSUME Quiet PROVE MadeOf(answer', Sure(p, k), Due(p, k))
  <2>1. top \in Top(Sure(p, k))
    BY <1>1, <1>9, FoundSure
  <2> QED BY <1>1, <1>4, <1>7, <1>8, <1>9, <2>1 DEF AnswersInv, QuietInv, Still, MadeOf
<1> QED BY <1>1, <1>6, <1>9, LaterStatement

\* The days are those of the sure rows.
LEMMA DaysStatement == StoredInv /\ AnswersInv /\ GetDailyBookings => AnswersInv'
<1> SUFFICES ASSUME StoredInv, AnswersInv, GetDailyBookings PROVE AnswersInv'
  OBVIOUS
<1>1. PICK k, p : k = answer.barber /\ p = answer.period
  OBVIOUS
<1>2. PICK rows \in Found(bookings, p) :
        answer' = AnswerWith([stage |-> "dayhours", days |-> DailyBookings(Of(rows, k))])
  BY <1>1 DEF GetDailyBookings
<1>3. answer # NoAnswer /\ answer.stage = "days" /\ SameTables
  BY DEF GetDailyBookings, At, SameTables
<1>4. PICK days : days = DailyBookings(Of(rows, k))
  OBVIOUS
<1>5. OneMore("days", days, "dayhours")
  <2>1. PICK more : more = [stage |-> "dayhours", days |-> days]
    OBVIOUS
  <2>2. DOMAIN more = {"stage", "days"} /\ more.stage = "dayhours" /\ more["days"] = days
    BY <2>1
  <2> QED BY <1>2, <1>4, <2>1, <2>2, OneMoreField
<1>6. AnswerInv' /\ Later
  BY <1>3, <1>5, GoesOn DEF AnswersInv
<1>7. answer'["minutes"] = answer["minutes"] /\ answer'["top"] = answer["top"]
  BY <1>3, <1>5 DEF OneMore, AnswersInv, AnswerInv
<1>8. answer'.stage = "dayhours" /\ answer'.days = days /\ answer'.stats = answer.stats
  BY <1>5, <1>6 DEF OneMore, Later
<1>9. ASSUME Quiet PROVE MadeOf(answer', Sure(p, k), Due(p, k))
  <2>1. days = DailyBookings(Sure(p, k))
    BY <1>1, <1>4, <1>9, FoundSure
  <2> QED BY <1>1, <1>3, <1>7, <1>8, <1>9, <2>1 DEF AnswersInv, QuietInv, Still, MadeOf
<1> QED BY <1>1, <1>6, <1>9, LaterStatement

\* The hours read again are the same, and the response keeps what was found.
LEMMA LastStatement == StoredInv /\ AnswersInv /\ Respond => AnswersInv'
<1> SUFFICES ASSUME StoredInv, AnswersInv, Respond PROVE AnswersInv'
  OBVIOUS
<1>1. PICK k, p : k = answer.barber /\ p = answer.period
  OBVIOUS
<1>2. PICK rows \in Found(hours, p) : \E days \in DailyHours(answer.days, Of(rows, k)) : answer' = Response(days)
  BY <1>1 DEF Respond
<1>3. PICK days \in DailyHours(answer.days, Of(rows, k)) : answer' = Response(days)
  BY <1>2
<1>4. answer # NoAnswer /\ answer.stage = "dayhours" /\ SameTables
  BY DEF Respond, At, SameTables
<1>5. Of(rows, k) = Due(p, k)
  BY FoundHours
<1>6. /\ {"stage", "barber", "period", "paging", "stats", "minutes", "top"} \subseteq DOMAIN answer'
      /\ answer'.stage = "done" /\ answer'.barber = answer.barber /\ answer'.period = answer.period
      /\ answer'.paging = answer.paging
      /\ answer'.stats = answer.stats /\ answer'.minutes = answer.minutes /\ answer'.top = answer.top
      /\ answer'.days = Page(Sorted(days), answer.paging) /\ answer'.daysTotal = Cardinality(DOMAIN days)
  BY <1>3 DEF Response
<1>7. answer.paging \in Paging /\ {"sure", "doubtful", "undisturbed"} \subseteq DOMAIN history
  BY <1>4 DEF AnswersInv, AnswerInv
<1>8. AnswerInv'
  BY <1>4, <1>6, <1>7 DEF AnswerInv, SameTables
<1>9. Later
  BY <1>4, <1>6 DEF Later, SameTables
<1>10. ASSUME Quiet PROVE MadeOf(answer', Sure(p, k), Due(p, k))
  <2>1. MadeOf(answer, Sure(p, k), Due(p, k))
    BY <1>1, <1>10 DEF AnswersInv, QuietInv, Still
  <2>2. answer.days = DailyBookings(Sure(p, k))
    BY <1>4, <2>1 DEF MadeOf
  <2>3. days \in DailyHours(DailyBookings(Sure(p, k)), Due(p, k))
    BY <1>3, <1>5, <2>2
  <2> QED BY <1>4, <1>6, <2>1, <2>3 DEF MadeOf
<1> QED BY <1>1, <1>8, <1>9, <1>10, LaterStatement

\* The other steps: the answer is given up or begun, or a row arrives or is merged.
LEMMA OtherSteps ==
  ASSUME StoredInv, AnswersInv, [StatsNext]_statsVars, ~GetBookingStats, ~GetScheduleMinutes,
         ~GetTopServices, ~GetDailyBookings, ~Respond
  PROVE  AnswersInv'
<1>1. ASSUME NEW f \in BookingFact, InsertBooking(f) PROVE AnswersInv'
  <2>1. answer' = answer /\ history' = [history EXCEPT !.undisturbed = FALSE]
    BY <1>1 DEF InsertBooking
  <2>2. /\ {"sure", "doubtful", "undisturbed"} \subseteq DOMAIN history' /\ ~history'.undisturbed
        /\ history'.sure = history.sure /\ history'.doubtful = history.doubtful
    BY <2>1 DEF AnswersInv, AnswerInv
  <2> QED BY <2>1, <2>2 DEF AnswersInv, AnswerInv, CountsAreTrue, QuietInv, Quiet
<1>2. ASSUME NEW f \in HoursFact, InsertSchedule(f) PROVE AnswersInv'
  <2>1. answer' = answer /\ history' = [history EXCEPT !.undisturbed = FALSE]
    BY <1>2 DEF InsertSchedule
  <2>2. /\ {"sure", "doubtful", "undisturbed"} \subseteq DOMAIN history' /\ ~history'.undisturbed
        /\ history'.sure = history.sure /\ history'.doubtful = history.doubtful
    BY <2>1 DEF AnswersInv, AnswerInv
  <2> QED BY <2>1, <2>2 DEF AnswersInv, AnswerInv, CountsAreTrue, QuietInv, Quiet
<1>3. ASSUME answer' = answer, history' = history,
             MergeKept \/ (bookings' = bookings /\ hours' = hours)
      PROVE  AnswersInv'
  <2>1. AnswerInv' /\ CountsAreTrue'
    BY <1>3 DEF AnswersInv, AnswerInv, CountsAreTrue
  <2>2. QuietInv'
    <3> SUFFICES ASSUME Quiet' PROVE Still(answer)'
      BY DEF QuietInv
    <3>1. PICK k, p : k = answer.barber /\ p = answer.period
      OBVIOUS
    <3>2. Still(answer)
      BY <1>3 DEF AnswersInv, QuietInv, Quiet
    <3>3. Sure(p, k)' = Sure(p, k) /\ Due(p, k)' = Due(p, k) /\ Doubtful(p, k)' \subseteq Doubtful(p, k)
      <4>1. CASE MergeKept
        BY <4>1, MergeKeepsSure
      <4>2. CASE bookings' = bookings /\ hours' = hours
        BY <4>2 DEF Sure, Due, Doubtful, Of
      <4> QED BY <1>3, <4>1, <4>2
    <3>4. history.sure = Sure(p, k) /\ Doubtful(p, k) = {} /\ MadeOf(answer, Sure(p, k), Due(p, k))
      BY <3>1, <3>2 DEF Still
    <3>5. Doubtful(p, k)' = {}
      BY <3>3, <3>4
    <3> QED BY <1>3, <3>1, <3>3, <3>4, <3>5 DEF Still
  <2> QED BY <2>1, <2>2 DEF AnswersInv
<1>4. ASSUME Merge PROVE AnswersInv'
  <2>1. answer' = answer /\ history' = history
    BY <1>4 DEF Merge
  <2> QED BY <1>3, <1>4, <2>1, MergeStored
<1>5. ASSUME Midnight \/ UNCHANGED statsVars PROVE AnswersInv'
  <2>1. answer' = answer /\ history' = history /\ bookings' = bookings /\ hours' = hours
    BY <1>5 DEF Midnight, statsVars
  <2> QED BY <1>3, <2>1
<1>6. ASSUME NEW k, NEW p, NEW paging \in Paging, GetBarberStats(k, p, paging) PROVE AnswersInv'
  <2>1. answer' = [stage |-> "stats", barber |-> k, period |-> p, paging |-> paging]
    BY <1>6 DEF GetBarberStats
  <2>2. DOMAIN answer' = {"stage", "barber", "period", "paging"} /\ answer'.stage = "stats" /\ answer'.paging = paging
    BY <2>1
  <2>3. {"sure", "doubtful", "undisturbed"} \subseteq DOMAIN history'
    BY <1>6 DEF GetBarberStats
  <2> QED BY <2>2, <2>3 DEF AnswersInv, AnswerInv, CountsAreTrue, QuietInv, Quiet
<1>7. ASSUME Fail PROVE AnswersInv'
  BY <1>7 DEF Fail, AnswersInv, AnswerInv, CountsAreTrue, QuietInv, Quiet
<1> QED BY <1>1, <1>2, <1>4, <1>5, <1>6, <1>7 DEF StatsNext

\* Every step keeps what is said of the answer.
LEMMA AnswersStep == StoredInv /\ AnswersInv /\ [StatsNext]_statsVars => AnswersInv'
BY FirstStatement, MinutesStatement, TopStatement, DaysStatement, LastStatement, OtherSteps
   DEF AnswersInv

\* The place of a number among those of D.
Rank(D, d) == Cardinality({e \in D : e <= d})

\* Of finitely many numbers each has a rank of its own, and each rank a number.
LEMMA Ranks ==
  ASSUME NEW D \in SUBSET Int, IsFiniteSet(D), NEW i \in 1..Cardinality(D)
  PROVE  Nth(D, i) \in D /\ Rank(D, Nth(D, i)) = i
<1>1. PICK rank : rank = [d \in D |-> Rank(D, d)]
  OBVIOUS
<1>2. Cardinality(D) \in Nat
  BY FS_CardinalityType
<1>3. ASSUME NEW d \in D PROVE rank[d] \in 1..Cardinality(D)
  <2>1. PICK T \in SUBSET D : T = {e \in D : e <= d}
    OBVIOUS
  <2>2. IsFiniteSet(T) /\ Cardinality(T) \in Nat /\ Cardinality(T) <= Cardinality(D)
    BY FS_Subset, FS_CardinalityType
  <2>3. d \in T
    BY <2>1
  <2>4. Cardinality(T) # 0
    BY <2>2, <2>3, FS_EmptySet
  <2> QED BY <1>1, <1>2, <2>1, <2>2, <2>4 DEF Rank
<1>4. ASSUME NEW d \in D, NEW e \in D, d < e PROVE rank[d] # rank[e]
  <2>1. PICK T \in SUBSET D : T = {x \in D : x <= d}
    OBVIOUS
  <2>2. PICK U \in SUBSET D : U = {x \in D : x <= e}
    OBVIOUS
  <2>3. T \in SUBSET U /\ e \in U /\ e \notin T
    <3>1. d \in Int /\ e \in Int /\ \A x \in D : x \in Int
      OBVIOUS
    <3>2. \A x \in D : x <= d => x <= e
      BY <1>4, <3>1
    <3>3. e <= e /\ ~(e <= d)
      BY <1>4, <3>1
    <3> QED BY <2>1, <2>2, <3>2, <3>3
  <2>4. IsFiniteSet(U)
    BY FS_Subset
  <2>5. Cardinality(T) # Cardinality(U)
    BY <2>3, <2>4, FS_Subset
  <2> QED BY <1>1, <2>1, <2>2, <2>5 DEF Rank
<1>5. rank \in Injection(D, 1..Cardinality(D))
  <2>1. \A d, e \in D : rank[d] = rank[e] => d = e
    BY <1>4
  <2>2. rank \in [D -> 1..Cardinality(D)]
    BY <1>1, <1>3
  <2> QED BY <1>1, <2>1, <2>2 DEF Injection, IsInjective
<1>6. IsFiniteSet(1..Cardinality(D)) /\ Cardinality(1..Cardinality(D)) = Cardinality(D)
  BY <1>2, FS_Interval
<1>7. rank \in Surjection(D, 1..Cardinality(D))
  BY <1>5, <1>6, FS_Injection
<1>8. \E d \in D : rank[d] = i
  BY <1>7 DEF Surjection
<1> QED BY <1>1, <1>8 DEF Nth, Rank

\* A page of m days: some of them, none twice.
PageOf(page, days, h, m) ==
  /\ DOMAIN page = 1..m /\ Len(page) = m
  /\ \A i \in 1..m : h[i] \in DOMAIN days /\ page[i].date = h[i] /\ page[i].of = days[h[i]]
  /\ \A i, j \in 1..m : h[i] = h[j] => i = j
\* Whatever the limit and the offset are, what Page returns is such a page.
LEMMA PageIsOf ==
  ASSUME NEW days, DOMAIN days \in SUBSET Int, IsFiniteSet(DOMAIN days),
         NEW paging, paging.limit \in Nat, paging.offset \in Nat,
         NEW page, page = Page(Sorted(days), paging)
  PROVE  \E m \in Nat : \E h : PageOf(page, days, h, m)
<1>1. PICK D \in SUBSET Int : D = DOMAIN days /\ IsFiniteSet(D)
  OBVIOUS
<1>2. PICK n \in Nat : n = Cardinality(D)
  BY <1>1, FS_CardinalityType
<1>3. PICK g : g = [i \in 1..n |-> Nth(D, i)]
  OBVIOUS
<1>4. \A i \in 1..n : g[i] \in D
  BY <1>1, <1>2, <1>3, Ranks
<1>5. \A i, j \in 1..n : g[i] = g[j] => i = j
  <2>1. \A i \in 1..n : Rank(D, g[i]) = i
    BY <1>1, <1>2, <1>3, Ranks
  <2> QED BY <2>1
<1>6. PICK s : s = Sorted(days)
  OBVIOUS
<1>7. s = [i \in 1..n |-> [date |-> g[i], of |-> days[g[i]]]]
  BY <1>1, <1>2, <1>3, <1>6 DEF Sorted
<1>8. PICK R : R = {s[i] : i \in 1..n}
  OBVIOUS
<1>9. s \in Seq(R) /\ Len(s) = n
  BY <1>7, <1>8
<1>10. \A i \in 1..n : s[i].date = g[i] /\ s[i].of = days[g[i]]
  BY <1>7
<1>11. CASE paging.limit = 0
  <2>1. page = s
    BY <1>6, <1>11 DEF Page
  <2>2. PageOf(page, days, g, n)
    BY <1>1, <1>4, <1>5, <1>7, <1>9, <1>10, <2>1 DEF PageOf
  <2> QED BY <2>2
<1>12. CASE paging.limit # 0 /\ paging.offset < n
  <2>1. PICK o \in Nat, l \in Nat : o = paging.offset /\ l = paging.limit
    OBVIOUS
  <2>2. PICK last : last = IF o + l < n THEN o + l ELSE n
    OBVIOUS
  <2>3. last \in Nat /\ o <= last /\ last <= n
    BY <1>12, <2>1, <2>2
  <2>4. page = SubSeq(s, o + 1, last)
    BY <1>6, <1>9, <1>12, <2>1, <2>2 DEF Page
  <2>5. PICK m \in Nat : m = last - o
    BY <2>1, <2>3
  <2>6. Len(page) = m /\ DOMAIN page = 1..m
    BY <1>9, <2>1, <2>3, <2>4, <2>5
  <2>7. ASSUME NEW i \in 1..m PROVE page[i] = s[o + i] /\ o + i \in 1..n
    <3>1. i \in Int /\ 1 <= i /\ i <= last - o /\ o + i \in 1..n
      BY <2>3, <2>5
    <3>2. page[i] = s[(o + 1) + i - 1]
      BY <1>9, <2>3, <2>4, <3>1
    <3>3. (o + 1) + i - 1 = o + i
      BY <3>1
    <3> QED BY <3>1, <3>2, <3>3
  <2>8. PICK h : h = [i \in 1..m |-> g[o + i]]
    OBVIOUS
  <2>9. \A i \in 1..m : h[i] \in D /\ page[i].date = h[i] /\ page[i].of = days[h[i]]
    BY <1>4, <1>10, <2>7, <2>8
  <2>10. ASSUME NEW i \in 1..m, NEW j \in 1..m, h[i] = h[j] PROVE i = j
    <3>1. o + i = o + j
      BY <1>5, <2>7, <2>8, <2>10
    <3> QED BY <3>1
  <2>11. PageOf(page, days, h, m)
    BY <1>1, <2>6, <2>9, <2>10 DEF PageOf
  <2> QED BY <2>11
<1>13. CASE paging.limit # 0 /\ ~(paging.offset < n)
  <2>1. PICK o \in Nat, l \in Nat : o = paging.offset /\ l = paging.limit
    OBVIOUS
  <2>2. ~(o + l < n) /\ n < o + 1
    BY <1>13, <2>1
  <2>3. page = SubSeq(s, o + 1, n)
    BY <1>6, <1>9, <1>13, <2>1, <2>2 DEF Page
  <2>4. Len(page) = 0 /\ DOMAIN page = 1..0
    BY <1>9, <2>2, <2>3
  <2>5. PageOf(page, days, g, 0)
    BY <2>4 DEF PageOf
  <2> QED BY <2>5
<1> QED BY <1>11, <1>12, <1>13

\* What a finite set is mapped to is finite.
LEMMA ImageFinite ==
  ASSUME NEW S, IsFiniteSet(S), NEW f
  PROVE  IsFiniteSet({f[x] : x \in S})
<1>1. PICK T : T = {f[x] : x \in S}
  OBVIOUS
<1>2. PICK g : g = [x \in S |-> f[x]]
  OBVIOUS
<1>3. g \in Surjection(S, T)
  BY <1>1, <1>2 DEF Surjection
<1> QED BY <1>1, <1>3, FS_Surjection

\* The day of each row; finitely many rows of the one table, and of the other.
DayOf(S) == [r \in S |-> r.fact.day]
BookingRows(S) == IsFiniteSet(S) /\ S \subseteq Rows /\ \A r \in S : r.fact \in BookingFact
HourRows(H) == IsFiniteSet(H) /\ H \subseteq Rows /\ \A r \in H : r.fact \in HoursFact

\* Of a day that has no bookings the breakdown says nothing but the hours.
ClientsOn(S, d) == Cardinality({r \in With(S, "completed") : r.fact.day = d})
RevenueOn(S, d) == Revenue({r \in S : r.fact.day = d})
HoursOn(H, days, d) ==
  \/ days[d].minutes = 0 /\ \A r \in Worked(H) : r.fact.day # d
  \/ \E r \in Worked(H) : r.fact.day = d /\ days[d].minutes = r.fact.minutes

\* The sums of the queries are sums over the rows.
LEMMA SumFunctionIs == ASSUME NEW f PROVE SumFunction(f) = Sum(f, DOMAIN f)
BY DEF SumFunction, Sum

\* The revenue is a sum over the completed rows.
LEMMA RevenueIs ==
  ASSUME NEW S, NEW f, \A r \in With(S, "completed") : f[r] = Price[r.fact.service], IsFiniteSet(S)
  PROVE  Revenue(S) = Sum(f, With(S, "completed"))
<1>1. PICK g : g = [r \in With(S, "completed") |-> Price[r.fact.service]]
  OBVIOUS
<1>2. DOMAIN g = With(S, "completed") /\ IsFiniteSet(With(S, "completed"))
  BY <1>1, FS_Subset DEF With
<1>3. Revenue(S) = Sum(g, DOMAIN g)
  BY <1>1, SumFunctionIs DEF Revenue
<1>4. Sum(g, DOMAIN g) = Sum(f, DOMAIN g)
  BY <1>1, <1>2, SumSame
<1> QED BY <1>2, <1>3, <1>4

\* What DailyHours makes of a breakdown by bookings.
LEMMA DaysAre ==
  ASSUME NEW S, BookingRows(S), NEW H, HourRows(H), NEW days \in DailyHours(DailyBookings(S), H)
  PROVE  /\ DOMAIN days \in SUBSET Int /\ IsFiniteSet(DOMAIN days)
         /\ \A r \in S : r.fact.day \in DOMAIN days
         /\ \A r \in Worked(H) : r.fact.day \in DOMAIN days
         /\ \A d \in DOMAIN days : \E r \in S \union H : r.fact.day = d
         /\ \A d \in DOMAIN days : /\ days[d].clients = ClientsOn(S, d)
                                   /\ days[d].revenue = RevenueOn(S, d)
                                   /\ HoursOn(H, days, d)
<1>1. PICK db : db = DailyBookings(S)
  OBVIOUS
<1>2. PICK D : D = {r.fact.day : r \in S}
  OBVIOUS
<1>3. PICK E : E = {r.fact.day : r \in Worked(H)}
  OBVIOUS
<1>4. PICK pick \in [E -> Worked(H)] :
        (\A d \in E : pick[d].fact.day = d) /\ days = WithHours(db, pick)
  <2>1. \E pick \in {f \in [E -> Worked(H)] : \A d \in E : f[d].fact.day = d} : days = WithHours(db, pick)
    BY <1>1, <1>3 DEF DailyHours
  <2> QED BY <2>1
<1>5. DOMAIN db = D /\ DOMAIN days = D \union E
  BY <1>1, <1>2, <1>4 DEF DailyBookings, WithHours
<1>6. IsFiniteSet(D)
  <2>1. PICK f : f = DayOf(S)
    OBVIOUS
  <2>2. D = {f[x] : x \in S}
    BY <1>2, <2>1 DEF DayOf
  <2> QED BY <2>2, ImageFinite DEF BookingRows
<1>7. IsFiniteSet(E)
  <2>1. PICK f : f = DayOf(H)
    OBVIOUS
  <2>2. E = {f[x] : x \in Worked(H)}
    BY <1>3, <2>1 DEF DayOf, Worked
  <2>3. IsFiniteSet(Worked(H))
    BY FS_Subset DEF HourRows, Worked
  <2> QED BY <2>2, <2>3, ImageFinite
<1>8. IsFiniteSet(D \union E)
  BY <1>6, <1>7, FS_Union
<1>9. D \subseteq Int /\ E \subseteq Int
  BY <1>2, <1>3, StatisticsAssumption DEF BookingRows, HourRows, Worked
<1>10. \A d \in D \union E : \E r \in S \union H : r.fact.day = d
  BY <1>2, <1>3 DEF Worked
<1>11. ASSUME NEW d \in D
       PROVE  db[d] = [clients |-> ClientsOn(S, d), revenue |-> RevenueOn(S, d), minutes |-> 0]
  <2>1. With({r \in S : r.fact.day = d}, "completed") = {r \in With(S, "completed") : r.fact.day = d}
    BY DEF With
  <2> QED BY <1>1, <1>2, <2>1 DEF DailyBookings, ClientsOn, RevenueOn, Count
<1>12. ASSUME NEW d, d \notin D PROVE ClientsOn(S, d) = 0 /\ RevenueOn(S, d) = 0
  <2>1. {r \in With(S, "completed") : r.fact.day = d} = {} /\ {r \in S : r.fact.day = d} = {}
    BY <1>2, <1>12 DEF With
  <2>2. ClientsOn(S, d) = 0
    BY <2>1, FS_EmptySet DEF ClientsOn
  <2>3. Revenue({}) = 0
    <3>1. PICK f : f = [r \in With({}, "completed") |-> Price[r.fact.service]]
      OBVIOUS
    <3>2. DOMAIN f = {}
      BY <3>1 DEF With
    <3> QED BY <3>1, <3>2, SumFunctionIs, SumEmpty DEF Revenue
  <2> QED BY <2>1, <2>2, <2>3 DEF RevenueOn
<1>13. ASSUME NEW d \in D \union E
       PROVE  /\ days[d].clients = ClientsOn(S, d) /\ days[d].revenue = RevenueOn(S, d)
              /\ days[d].minutes = IF d \in E THEN pick[d].fact.minutes ELSE 0
  <2>1. PICK day : day = IF d \in DOMAIN db THEN db[d] ELSE [clients |-> 0, revenue |-> 0, minutes |-> 0]
    OBVIOUS
  <2>2. day = [clients |-> ClientsOn(S, d), revenue |-> RevenueOn(S, d), minutes |-> 0]
    BY <1>5, <1>11, <1>12, <2>1
  <2>3. days[d] = IF d \in E THEN [day EXCEPT !.minutes = pick[d].fact.minutes] ELSE day
    BY <1>4, <1>5, <2>1 DEF WithHours
  <2> QED BY <2>2, <2>3
<1>14. ASSUME NEW d \in D \union E PROVE HoursOn(H, days, d)
  <2>1. CASE d \in E
    <3>1. pick[d] \in Worked(H) /\ pick[d].fact.day = d
      BY <1>4, <2>1
    <3> QED BY <1>13, <2>1, <3>1 DEF HoursOn
  <2>2. CASE d \notin E
    BY <1>3, <1>13, <2>2 DEF HoursOn
  <2> QED BY <2>1, <2>2
<1>15. \A d \in D \union E : days[d].clients = ClientsOn(S, d) /\ days[d].revenue = RevenueOn(S, d)
 BY <1>13
<1>16. \A r \in S : r.fact.day \in D
  BY <1>2
<1>17. \A r \in Worked(H) : r.fact.day \in E
  BY <1>3
<1> QED BY <1>5, <1>8, <1>9, <1>10, <1>14, <1>15, <1>16, <1>17

\* g has for each part of the rows C, by the value of h, the sum of its terms.
SumsParts(g, D, f, h, C) == \A d \in D : g[d] = Sum(f, {r \in C : h[r] = d})
\* What the parts have adds up to what all rows have.
LEMMA PartsAddUp ==
  ASSUME NEW C, IsFiniteSet(C), NEW f, \A r \in C : f[r] \in Int, NEW h, NEW D, IsFiniteSet(D),
         \A r \in C : h[r] \in D, NEW g, SumsParts(g, D, f, h, C)
  PROVE  Sum(g, D) = Sum(f, C)
<1>1. PICK p : p = SumsOfParts(f, h, C, D)
  OBVIOUS
<1>2. \A d \in D : p[d] = g[d]
  BY <1>1 DEF SumsOfParts, Part, SumsParts
<1>3. Sum(p, D) = Sum(g, D)
  BY <1>2, SumSame
<1> QED BY <1>1, <1>3, SumOfParts

\* The completed rows are some of the rows, and each has a price.
LEMMA CompletedRows ==
  ASSUME NEW S, BookingRows(S)
  PROVE  /\ IsFiniteSet(With(S, "completed")) /\ With(S, "completed") \subseteq S
         /\ \A r \in S : Price[r.fact.service] \in Int
BY FS_Subset, StatisticsAssumption DEF With, BookingRows

\* g counts the clients of each part of the rows S.
CountsParts(g, D, h, S) == \A d \in D : g[d] = Cardinality({r \in With(S, "completed") : h[r] = d})
\* The clients of the parts are all clients.
LEMMA CountsAddUp ==
  ASSUME NEW S, BookingRows(S), NEW h, NEW D, IsFiniteSet(D), \A r \in S : h[r] \in D,
         NEW g, CountsParts(g, D, h, S)
  PROVE  Sum(g, D) = Count(S, "completed") /\ \A d \in D : g[d] \in Nat
<1>1. PICK C : C = With(S, "completed")
  OBVIOUS
<1>2. IsFiniteSet(C) /\ C \subseteq S
  BY <1>1, CompletedRows
<1>3. PICK one : one = [r \in C |-> 1]
  OBVIOUS
<1>4. ASSUME NEW d \in D PROVE g[d] = Sum(one, {r \in C : h[r] = d}) /\ g[d] \in Nat
  <2>1. PICK P \in SUBSET C : P = {r \in C : h[r] = d}
    OBVIOUS
  <2>2. IsFiniteSet(P) /\ Cardinality(P) \in Nat
    BY <1>2, FS_Subset, FS_CardinalityType
  <2>3. Sum(one, P) = Cardinality(P)
    BY <1>3, <2>2, SumOnes
  <2> QED BY <1>1, <2>1, <2>2, <2>3 DEF CountsParts
<1>5. Sum(g, D) = Sum(one, C)
  <2>1. SumsParts(g, D, one, h, C)
    BY <1>4 DEF SumsParts
  <2>2. \A r \in C : one[r] \in Int /\ h[r] \in D
    BY <1>2, <1>3
  <2> QED BY <1>2, <2>1, <2>2, PartsAddUp
<1>6. Sum(one, C) = Cardinality(C)
  BY <1>2, <1>3, SumOnes
<1> QED BY <1>1, <1>4, <1>5, <1>6 DEF Count

\* What the days say, field by field.
ClientsOf(days) == [d \in DOMAIN days |-> days[d].clients]
RevenueOf(days) == [d \in DOMAIN days |-> days[d].revenue]
MinutesOf(days) == [d \in DOMAIN days |-> days[d].minutes]

\* No date has two rows of hours that are not deleted.
OneADay(H) == \A r, s \in Worked(H) : r.fact.day = s.fact.day => r = s

\* The clients, the revenue and, where no date has two rows, the hours of the days are
\* those of the period.
LEMMA DaysAddUp ==
  ASSUME NEW S, BookingRows(S), NEW H, HourRows(H), NEW days \in DailyHours(DailyBookings(S), H)
  PROVE  /\ Sum(ClientsOf(days), DOMAIN days) = Count(S, "completed")
         /\ \A d \in DOMAIN days : ClientsOf(days)[d] \in Nat
         /\ Sum(RevenueOf(days), DOMAIN days) = Revenue(S)
         /\ \A d \in DOMAIN days : RevenueOf(days)[d] \in Int
         /\ OneADay(H) => Sum(MinutesOf(days), DOMAIN days) = ScheduleMinutes(H)
         /\ \A d \in DOMAIN days : MinutesOf(days)[d] \in Int
<1>1. PICK D \in SUBSET Int : D = DOMAIN days /\ IsFiniteSet(D)
  BY DaysAre
<1>2. \A r \in S : r.fact.day \in D
  BY <1>1, DaysAre
<1>3. \A r \in Worked(H) : r.fact.day \in D
  BY <1>1, DaysAre
<1>4. \A d \in D : days[d].clients = ClientsOn(S, d) /\ days[d].revenue = RevenueOn(S, d)
                   /\ HoursOn(H, days, d)
  BY <1>1, DaysAre
<1>5. PICK C : C = With(S, "completed")
  OBVIOUS
<1>6. IsFiniteSet(C) /\ C \subseteq S /\ \A r \in S : Price[r.fact.service] \in Int
  BY <1>5, CompletedRows
<1>7. Sum(ClientsOf(days), D) = Count(S, "completed") /\ \A d \in D : ClientsOf(days)[d] \in Nat
  <2>1. PICK h : h = DayOf(S)
    OBVIOUS
  <2>2. PICK g : g = ClientsOf(days)
    OBVIOUS
  <2>3. \A r \in S : h[r] \in D /\ h[r] = r.fact.day
    BY <1>2, <2>1 DEF DayOf
  <2>4. ASSUME NEW d \in D PROVE g[d] = Cardinality({r \in With(S, "completed") : h[r] = d})
    <3>1. {r \in C : h[r] = d} = {r \in C : r.fact.day = d}
      BY <1>6, <2>3
    <3> QED BY <1>1, <1>4, <1>5, <2>2, <3>1 DEF ClientsOn, ClientsOf
  <2>5. CountsParts(g, D, h, S)
    BY <2>4 DEF CountsParts
  <2> QED BY <1>1, <2>2, <2>3, <2>5, CountsAddUp
<1>8. Sum(RevenueOf(days), D) = Revenue(S) /\ \A d \in D : RevenueOf(days)[d] \in Int
  <2>1. PICK h : h = DayOf(S)
    OBVIOUS
  <2>2. PICK g : g = RevenueOf(days)
    OBVIOUS
  <2>3. \A r \in S : h[r] \in D /\ h[r] = r.fact.day
    BY <1>2, <2>1 DEF DayOf
  <2>4. PICK f : f = [r \in C |-> Price[r.fact.service]]
    OBVIOUS
  <2>5. \A r \in C : f[r] = Price[r.fact.service] /\ f[r] \in Int
    BY <1>6, <2>4
  <2>6. ASSUME NEW d \in D PROVE g[d] = Sum(f, {r \in C : h[r] = d}) /\ g[d] \in Int
    <3>1. PICK Q \in SUBSET S : Q = {r \in S : r.fact.day = d}
      OBVIOUS
    <3>2. IsFiniteSet(Q)
      BY FS_Subset DEF BookingRows
    <3>3. With(Q, "completed") = {r \in C : h[r] = d}
      BY <1>5, <1>6, <2>3, <3>1 DEF With
    <3>4. PICK P \in SUBSET C : P = {r \in C : h[r] = d}
      OBVIOUS
    <3>5. Revenue(Q) = Sum(f, P)
      BY <2>5, <3>2, <3>3, <3>4, RevenueIs
    <3>6. Sum(f, P) \in Int
      <4>1. IsFiniteSet(P)
        BY <1>6, FS_Subset
      <4> QED BY <2>5, <4>1, SumType
    <3>7. g[d] = Revenue(Q)
      BY <1>1, <1>4, <2>2, <3>1 DEF RevenueOn, RevenueOf
    <3> QED BY <3>4, <3>5, <3>6, <3>7
  <2>7. Sum(g, D) = Sum(f, C)
    <3>1. \A r \in C : f[r] \in Int
      BY <2>5
    <3>2. \A r \in C : h[r] \in D
      BY <1>6, <2>3
    <3>3. SumsParts(g, D, f, h, C)
      BY <2>6 DEF SumsParts
    <3>4. IsFiniteSet(D) /\ IsFiniteSet(C)
      BY <1>1, <1>6
    <3> QED BY <3>1, <3>2, <3>3, <3>4, PartsAddUp
  <2>8. Revenue(S) = Sum(f, C)
    BY <1>5, <2>5, RevenueIs DEF BookingRows
  <2> QED BY <2>2, <2>6, <2>7, <2>8
<1>9. \A r \in Worked(H) : r.fact.minutes \in Int
  BY StatisticsAssumption DEF HourRows, Worked
<1>10. \A d \in D : MinutesOf(days)[d] \in Int /\ MinutesOf(days)[d] = days[d].minutes
  BY <1>1, <1>4, <1>9 DEF HoursOn, MinutesOf
<1>11. ASSUME OneADay(H) PROVE Sum(MinutesOf(days), D) = ScheduleMinutes(H)
  <2>1. PICK h : h = DayOf(H)
    OBVIOUS
  <2>2. PICK W : W = Worked(H)
    OBVIOUS
  <2>3. IsFiniteSet(W) /\ W \subseteq H
    BY <2>2, FS_Subset DEF HourRows, Worked
  <2>4. \A r \in W : h[r] \in D /\ h[r] = r.fact.day
    BY <1>3, <2>1, <2>2, <2>3 DEF DayOf
  <2>5. PICK f : f = [r \in W |-> r.fact.minutes]
    OBVIOUS
  <2>6. \A r \in W : f[r] \in Int /\ f[r] = r.fact.minutes
    BY <1>9, <2>2, <2>5
  <2>7. PICK g : g = MinutesOf(days)
    OBVIOUS
  <2>8. ASSUME NEW d \in D PROVE g[d] = Sum(f, {r \in W : h[r] = d})
    <3>1. PICK P : P = {r \in W : h[r] = d}
      OBVIOUS
    <3>2. CASE days[d].minutes = 0 /\ \A r \in Worked(H) : r.fact.day # d
      <4>1. P = {}
        BY <2>2, <2>4, <3>1, <3>2
      <4> QED BY <1>10, <2>7, <3>1, <3>2, <4>1, SumEmpty
    <3>3. ASSUME NEW r \in Worked(H), r.fact.day = d, days[d].minutes = r.fact.minutes
          PROVE  g[d] = Sum(f, P)
      <4>1. P = {r}
        BY <1>11, <2>2, <2>4, <3>1, <3>3 DEF OneADay
      <4>2. IsFiniteSet({r}) /\ {r} \ {r} = {}
        BY FS_Singleton
      <4>3. f[r] \in Int
        BY <2>2, <2>6
      <4>4. Sum(f, {r}) = f[r] + Sum(f, {})
        BY <4>2, <4>3, SumAny
      <4>5. Sum(f, {r}) = f[r]
        BY <4>3, <4>4, SumEmpty
      <4> QED BY <1>10, <2>2, <2>6, <2>7, <3>3, <4>1, <4>5
    <3> QED BY <1>4, <3>1, <3>2, <3>3 DEF HoursOn
  <2>9. Sum(g, D) = Sum(f, W)
    <3>1. \A r \in W : f[r] \in Int
      BY <2>6
    <3>2. \A r \in W : h[r] \in D
      BY <2>4
    <3>3. SumsParts(g, D, f, h, W)
      BY <2>8 DEF SumsParts
    <3> QED BY <1>1, <2>3, <3>1, <3>2, <3>3, PartsAddUp
  <2>10. ScheduleMinutes(H) = Sum(f, W)
    BY <2>2, <2>5, SumFunctionIs DEF ScheduleMinutes
  <2> QED BY <2>7, <2>9, <2>10
<1> QED BY <1>1, <1>7, <1>8, <1>10, <1>11

\* The services of some rows, of which those on top are some, or all.
LEMMA TopAddsUp ==
  ASSUME NEW S, BookingRows(S), NEW T \in Top(S)
  PROVE  LET served == SumFunction([t \in T |-> t.count])
         IN  /\ served <= Count(S, "completed")
             /\ served < Count(S, "completed") => Cardinality(T) = TopLimit
<1>1. PICK B : B = ByService(S)
  OBVIOUS
<1>2. PICK D : D = {r.fact.service : r \in S}
  OBVIOUS
<1>3. PICK s : s = [r \in S |-> r.fact.service]
  OBVIOUS
<1>4. D = {s[r] : r \in S} /\ \A r \in S : s[r] \in D /\ s[r] = r.fact.service
  BY <1>2, <1>3
<1>5. IsFiniteSet(D)
  BY <1>4, ImageFinite DEF BookingRows
<1>6. PICK g : g = [d \in D |-> Cardinality({r \in With(S, "completed") : s[r] = d})]
  OBVIOUS
<1>7. Sum(g, D) = Count(S, "completed") /\ \A d \in D : g[d] \in Nat
  <2>1. CountsParts(g, D, s, S)
    BY <1>6 DEF CountsParts
  <2> QED BY <1>4, <1>5, <2>1, CountsAddUp
<1>8. PICK entry : entry = [d \in D |->
        LET its == {r \in S : r.fact.service = d} IN
          [service |-> d, count |-> Count(its, "completed"), revenue |-> Revenue(its)]]
  OBVIOUS
<1>9. B = {entry[d] : d \in D}
  BY <1>1, <1>2, <1>8 DEF ByService
<1>10. IsFiniteSet(B)
  BY <1>5, <1>9, ImageFinite
<1>11. ASSUME NEW d \in D PROVE entry[d].service = d /\ entry[d].count = g[d]
  <2>1. With({r \in S : r.fact.service = d}, "completed") = {r \in With(S, "completed") : s[r] = d}
    BY <1>4 DEF With
  <2>2. entry[d].service = d /\ entry[d].count = Count({r \in S : r.fact.service = d}, "completed")
    BY <1>8
  <2> QED BY <1>6, <2>1, <2>2 DEF Count
<1>12. T \subseteq B /\ Cardinality(T) = IF Cardinality(B) < TopLimit THEN Cardinality(B) ELSE TopLimit
  BY <1>1 DEF Top
<1>13. PICK f : f = [t \in T |-> t.count]
  OBVIOUS
<1>14. PICK h : h = [t \in T |-> t.service]
  OBVIOUS
<1>15. \A t \in T : \E d \in D : t = entry[d] /\ t.service = d /\ t.count = g[d]
  BY <1>9, <1>11, <1>12
<1>16. Renames(f, h, T, g, D)
  <2>1. \A t \in T : h[t] \in D /\ f[t] = g[h[t]] /\ t = entry[h[t]]
    BY <1>13, <1>14, <1>15
  <2> QED BY <2>1 DEF Renames
<1>17. IsFiniteSet(T) /\ (Cardinality(B) = Cardinality(T) => B = T)
  BY <1>10, <1>12, FS_Subset
<1>18. SumFunction(f) = Sum(f, T)
  BY <1>13, SumFunctionIs
<1>19. Sum(f, T) <= Sum(g, D)
  BY <1>5, <1>7, <1>16, <1>17, SumRenamed
<1>20. ASSUME Cardinality(T) # TopLimit PROVE Sum(f, T) = Sum(g, D)
  <2>1. T = B
    BY <1>12, <1>17, <1>20
  <2>2. \A d \in D : entry[d] \in T /\ h[entry[d]] = d
    BY <1>9, <1>11, <1>14, <2>1
  <2>3. Onto(h, T, D)
    BY <2>2 DEF Onto
  <2> QED BY <1>5, <1>7, <1>16, <1>17, <2>3, SumRenamed
<1>21. Sum(f, T) \in Int
  <2>1. \A t \in T : f[t] \in Int
    BY <1>7, <1>13, <1>15
  <2> QED BY <1>17, <2>1, SumType
<1>22. Sum(g, D) \in Int
  BY <1>5, <1>7, SumType
<1> QED BY <1>7, <1>13, <1>18, <1>19, <1>20, <1>21, <1>22

\* g is a field of the days, a number.
FieldOf(g, days, field) == \A d \in DOMAIN days : g[d] = days[d][field] /\ g[d] \in Int
\* What a page says of a field is no more than all days say; if it holds as many as there
\* are it is the same.
LEMMA PageAddsUp ==
  ASSUME NEW days, IsFiniteSet(DOMAIN days), NEW page, NEW m \in Nat, NEW h, PageOf(page, days, h, m),
         NEW field, NEW g, FieldOf(g, days, field)
  PROVE  /\ m = Cardinality(DOMAIN days) => DaySum(field, page) = Sum(g, DOMAIN days)
         /\ (\A d \in DOMAIN days : g[d] \in Nat) => DaySum(field, page) <= Sum(g, DOMAIN days)
<1>1. PICK f : f = [i \in DOMAIN page |-> page[i].of[field]]
  OBVIOUS
<1>2. DOMAIN f = 1..m /\ IsFiniteSet(1..m)
  BY <1>1, FS_Interval DEF PageOf
<1>3. DaySum(field, page) = Sum(f, 1..m)
  BY <1>1, <1>2, SumFunctionIs DEF DaySum
<1>4. Renames(f, h, 1..m, g, DOMAIN days)
  BY <1>1 DEF PageOf, Renames, FieldOf
<1>5. ASSUME m = Cardinality(DOMAIN days) PROVE DaySum(field, page) = Sum(g, DOMAIN days)
  <2>1. Onto(h, 1..m, DOMAIN days)
    BY <1>5, OntoIfAsMany DEF PageOf
  <2> QED BY <1>2, <1>3, <1>4, <2>1, SumRenamed DEF FieldOf
<1>6. (\A d \in DOMAIN days : g[d] \in Nat) => DaySum(field, page) <= Sum(g, DOMAIN days)
  BY <1>2, <1>3, <1>4, SumRenamed DEF FieldOf
<1> QED BY <1>5, <1>6

\* The parts of an answer that nothing disturbed agree.
LEMMA StillAgrees == StoredInv /\ AnswerInv /\ QuietInv => AnswerAgrees
<1> SUFFICES ASSUME StoredInv, AnswerInv, QuietInv, At("done"), history.undisturbed, history.doubtful = {}
             PROVE  LET whole == Len(answer.days) = answer.daysTotal
                        served == SumFunction([t \in answer.top |-> t.count])
                    IN  /\ whole =>
                             /\ DaySum("clients", answer.days) = answer.stats.clients
                             /\ DaySum("revenue", answer.days) = answer.stats.revenue
                             /\ OneRowADay(answer.barber) =>
                                  DaySum("minutes", answer.days) = answer.minutes
                        /\ served <= answer.stats.clients
                        /\ served < answer.stats.clients => Cardinality(answer.top) = TopLimit
                        /\ DaySum("clients", answer.days) <= answer.stats.clients
                        /\ \A i \in DOMAIN answer.days :
                             InPeriod([fact |-> [day |-> answer.days[i].date]], answer.period)
  BY DEF AnswerAgrees
<1>1. PICK k, p : k = answer.barber /\ p = answer.period
  OBVIOUS
<1>2. answer # NoAnswer /\ answer.stage = "done" /\ answer.paging \in Paging
  BY DEF At, AnswerInv
<1>3. Still(answer)
  BY <1>2 DEF QuietInv, Quiet
<1>4. PICK S : S = Sure(p, k)
  OBVIOUS
<1>5. PICK H : H = Due(p, k)
  OBVIOUS
<1>6. BookingRows(S) /\ \A r \in S : InPeriod(r, p)
  <2>1. S \subseteq bookings
    BY <1>4 DEF Sure, Of
  <2>2. IsFiniteSet(S)
    BY <2>1, FS_Subset DEF StoredInv, TableInv
  <2> QED BY <1>4, <2>1, <2>2 DEF StoredInv, TableInv, BookingRows, Sure
<1>7. HourRows(H) /\ \A r \in H : InPeriod(r, p)
  <2>1. H \subseteq hours
    BY <1>5 DEF Due, Of
  <2>2. IsFiniteSet(H)
    BY <2>1, FS_Subset DEF StoredInv, TableInv
  <2> QED BY <1>5, <2>1, <2>2 DEF StoredInv, TableInv, HourRows, Due
<1>8. /\ answer.stats = BookingStats(S) /\ answer.minutes = ScheduleMinutes(H) /\ answer.top \in Top(S)
      /\ \E days \in DailyHours(DailyBookings(S), H) :
           answer.days = Page(Sorted(days), answer.paging) /\ answer.daysTotal = Cardinality(DOMAIN days)
  BY <1>1, <1>2, <1>3, <1>4, <1>5 DEF Still, MadeOf
<1>9. PICK days \in DailyHours(DailyBookings(S), H) :
        answer.days = Page(Sorted(days), answer.paging) /\ answer.daysTotal = Cardinality(DOMAIN days)
  BY <1>8
<1>10. answer.stats.clients = Count(S, "completed") /\ answer.stats.revenue = Revenue(S)
  BY <1>8 DEF BookingStats
<1>11. DOMAIN days \in SUBSET Int /\ IsFiniteSet(DOMAIN days)
  BY <1>6, <1>7, DaysAre
<1>12. PICK page : page = answer.days
  OBVIOUS
<1>13. PICK m \in Nat : \E h : PageOf(page, days, h, m)
  <2>1. answer.paging.limit \in Nat /\ answer.paging.offset \in Nat
    BY <1>2, StatisticsAssumption
  <2> QED BY <1>9, <1>11, <1>12, <2>1, PageIsOf
<1>14. PICK h : PageOf(page, days, h, m)
  BY <1>13
<1>15. Len(page) = m
  BY <1>14 DEF PageOf
<1>16. /\ Len(page) = answer.daysTotal => DaySum("clients", page) = answer.stats.clients
       /\ DaySum("clients", page) <= answer.stats.clients
  <2>1. PICK g : g = ClientsOf(days)
    OBVIOUS
  <2>2. Sum(g, DOMAIN days) = Count(S, "completed") /\ \A d \in DOMAIN days : g[d] \in Nat
    BY <1>6, <1>7, <2>1, DaysAddUp
  <2>3. FieldOf(g, days, "clients")
    BY <2>1, <2>2 DEF FieldOf, ClientsOf
  <2>4. /\ m = Cardinality(DOMAIN days) => DaySum("clients", page) = Sum(g, DOMAIN days)
        /\ DaySum("clients", page) <= Sum(g, DOMAIN days)
    BY <1>11, <1>14, <2>2, <2>3, PageAddsUp
  <2> QED BY <1>9, <1>10, <1>15, <2>2, <2>4
<1>17. Len(page) = answer.daysTotal => DaySum("revenue", page) = answer.stats.revenue
  <2>1. PICK g : g = RevenueOf(days)
    OBVIOUS
  <2>2. Sum(g, DOMAIN days) = Revenue(S) /\ \A d \in DOMAIN days : g[d] \in Int
    BY <1>6, <1>7, <2>1, DaysAddUp
  <2>3. FieldOf(g, days, "revenue")
    BY <2>1, <2>2 DEF FieldOf, RevenueOf
  <2>4. m = Cardinality(DOMAIN days) => DaySum("revenue", page) = Sum(g, DOMAIN days)
    BY <1>11, <1>14, <2>3, PageAddsUp
  <2> QED BY <1>9, <1>10, <1>15, <2>2, <2>4
<1>18. ASSUME OneRowADay(k), Len(page) = answer.daysTotal PROVE DaySum("minutes", page) = answer.minutes
  <2>1. PICK g : g = MinutesOf(days)
    OBVIOUS
  <2>2. OneADay(H)
    BY <1>5, <1>18 DEF OneADay, OneRowADay, Worked, Final, Due, Of
  <2>3. Sum(g, DOMAIN days) = ScheduleMinutes(H) /\ \A d \in DOMAIN days : g[d] \in Int
    BY <1>6, <1>7, <2>1, <2>2, DaysAddUp
  <2>4. FieldOf(g, days, "minutes")
    BY <2>1, <2>3 DEF FieldOf, MinutesOf
  <2>5. m = Cardinality(DOMAIN days) => DaySum("minutes", page) = Sum(g, DOMAIN days)
    BY <1>11, <1>14, <2>4, PageAddsUp
  <2> QED BY <1>8, <1>9, <1>15, <1>18, <2>3, <2>5
<1>19. LET served == SumFunction([t \in answer.top |-> t.count])
       IN  /\ served <= answer.stats.clients
           /\ served < answer.stats.clients => Cardinality(answer.top) = TopLimit
  BY <1>6, <1>8, <1>10, TopAddsUp
<1>20. ASSUME NEW i \in DOMAIN page PROVE InPeriod([fact |-> [day |-> page[i].date]], p)
  <2>1. page[i].date \in DOMAIN days
    BY <1>14 DEF PageOf
  <2>2. PICK r \in S \union H : r.fact.day = page[i].date
    BY <1>6, <1>7, <2>1, DaysAre
  <2>3. InPeriod(r, p)
    BY <1>6, <1>7
  <2> QED BY <2>2, <2>3 DEF InPeriod
<1> QED BY <1>1, <1>12, <1>16, <1>17, <1>18, <1>19, <1>20

\* The invariant.
StatInv == StoredInv /\ AnswersInv

\* The invariant at the start, and the date.
LEMMA StatInitially == StatsInit => StatInv /\ today \in Int
<1> SUFFICES ASSUME StatsInit PROVE StatInv /\ today \in Int
  OBVIOUS
<1>1. TableInv({}, BookingFact, 0) /\ TableInv({}, HoursFact, 0)
  BY FS_EmptySet DEF TableInv, HasNewest
<1>2. StoredInv
  BY <1>1 DEF StatsInit, StoredInv
<1>3. AnswersInv
  BY DEF StatsInit, AnswersInv, AnswerInv, CountsAreTrue, QuietInv, Quiet
<1> QED BY <1>2, <1>3, StatisticsAssumption DEF StatsInit, StatInv

\* The date stays an integer.
LEMMA TodayStep == today \in Int /\ [StatsNext]_statsVars => today' \in Int
BY DEF StatsNext, statsVars, InsertBooking, InsertSchedule, Merge, GetBarberStats,
   GetBookingStats,
       GetScheduleMinutes, GetTopServices, GetDailyBookings, Respond, Fail, Midnight

\* repository.go:60-85 and service.go:36-58.  The invariant holds in every state.
THEOREM StatisticsCorrect == StatsSpec => [](StatInv /\ today \in Int)
<1>1. StatInv /\ today \in Int /\ [StatsNext]_statsVars => (StatInv /\ today \in Int)'
  BY StoredStep, AnswersStep, TodayStep DEF StatInv
<1> QED BY <1>1, StatInitially, PTL DEF StatsSpec

\* CountsAreTrue: whatever arrives and is merged, the totals are those of the newest rows
\* of the period, and of old rows of bookings that were moved out of it, one of each.
THEOREM CountsTrue == StatsSpec => []CountsAreTrue
BY StatisticsCorrect, PTL DEF StatInv, AnswersInv

\* AnswerAgrees: where no row arrived between the first statement and the last, and no
\* booking had been moved out of the period, the days and the services of any number of
\* bookings add up to the totals, a page of them to no more, and the hours add up too.
THEOREM AnswersAgree == StatsSpec => []AnswerAgrees
<1>1. StatInv => AnswerAgrees
  BY StillAgrees DEF StatInv, AnswersInv
<1> QED BY <1>1, StatisticsCorrect, PTL

\* CalendarsAgree: on every day the three services mean the same week, and analytics the
\* whole month.
THEOREM CalendarsAlwaysAgree == StatsSpec => []CalendarsAgree
<1>1. today \in Int => CalendarsAgree
  BY WeeksAlwaysAgree, MonthAlwaysHolds DEF CalendarsAgree
<1> QED BY <1>1, StatisticsCorrect, PTL

=============================================================================
