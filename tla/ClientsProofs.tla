----------------------------- MODULE ClientsProofs -----------------------------
(***************************************************************************)
(* What the client service promises, proved for any topic, any bookings    *)
(* and clients and any number of stops and edits: each booking counts      *)
(* once, the last visit is the latest, no offset passes a message not      *)
(* handled, and a card shows what was said of its own row.                 *)
(***************************************************************************)
EXTENDS Clients, FiniteSetTheorems, TLAPS

-----------------------------------------------------------------------------
\* The inductive invariant.

\* A client without a row keeps no booking, so a new row may start from nothing.
CountInv ==
  /\ forgotten \subseteq processed
  /\ \A c \in Client : ~Exists(c) => Kept(c) = {}
  /\ VisitsMatch

\* The message being handled: what is already behind the consumer, and what the
\* stage says about the message itself.
HeldInv ==
  held # Nothing =>
    /\ held.at[2] <= Len(log[held.at[1]])
    /\ \A o \in 1..(held.at[2] - 1) : Handled(<<held.at[1], o>>)
    /\ held.stage = "commit" => Handled(held.at)
    /\ held.stage # "commit" => EventAt(held.at) \in Event
    /\ held.stage = "visit" =>
         Exists(ClientAt(held.at)) \/ ClientAt(held.at) \in deleted

\* Behind the reader's position everything is handled but the message at hand.
PositionInv ==
  \A q \in Partition : \A o \in 1..position[q] :
    Handled(<<q, o>>) \/ (held # Nothing /\ held.at = <<q, o>>)

PlaceInv == HeldInv /\ PositionInv /\ CommittedIsHandled

-----------------------------------------------------------------------------
\* Type correctness.

LEMMA MessageType ==
  ASSUME TypeOK, NEW at, at[1] \in Partition, at[2] \in 1..Len(log[at[1]])
  PROVE  /\ EventAt(at) \in Event \union {Garbage}
         /\ EventAt(at) # Garbage => ClientAt(at) \in Client
<1>1. log[at[1]] \in Seq(Message)
  BY DEF TypeOK, GroupTypeOK
<1>2. EventAt(at) \in Message
  BY <1>1 DEF EventAt
<1> QED
  BY <1>2, ClientAssumption DEF ClientAt, Event

\* What a try of the consumer may do to the tables, done or not.
LEMMA OperationType ==
  ASSUME TypeOK, HeldInv, Working,
         Operation \/ UNCHANGED <<clients, processed, countedAt>>
  PROVE  /\ clients' \in [Client -> ClientRow \union {NoClient}]
         /\ processed' \subseteq Booking
         /\ countedAt' \in [Booking -> 0..MaxStamp]
         /\ processed \subseteq processed'
         /\ \A c \in Client : Exists(c) => Exists(c)'
<1> DEFINE e == EventAt(held.at)
<1>1. /\ held \in Handling
      /\ held.at \in Place
      /\ held.at[2] <= Len(log[held.at[1]])
      /\ e \in Event
  BY DEF TypeOK, Working, InStage, HeldInv, Handling
<1>2. /\ e.booking \in Booking
      /\ e.stamp \in 1..MaxStamp
      /\ ClientAt(held.at) = ClientOf[e.booking]
      /\ ClientOf[e.booking] \in Client
  BY <1>1, ClientAssumption DEF Event, ClientAt
<1> HIDE DEF e
<1>3. CASE UNCHANGED <<clients, processed, countedAt>>
  BY <1>3 DEF TypeOK, Exists
<1>4. CASE EnsureClient(ClientOf[e.booking])
  <2>1. [visits |-> 0, last |-> 0] \in ClientRow
    BY ClientAssumption DEF ClientRow
  <2> QED
    BY <2>1, <1>4, <1>2, ClientAssumption DEF EnsureClient, TypeOK, Exists
<1>5. CASE UpsertByBooking(e.booking, e.stamp)
  <2>1. CASE UNCHANGED <<clients, processed, countedAt>>
    BY <2>1 DEF TypeOK, Exists
  <2>2. CASE /\ processed' = processed \union {e.booking}
             /\ countedAt' = [countedAt EXCEPT ![e.booking] = e.stamp]
             /\ clients' = [clients EXCEPT ![ClientOf[e.booking]] =
                  IF Exists(ClientOf[e.booking])
                    THEN [visits |-> @.visits + 1, last |-> Greatest(@.last, e.stamp)]
                    ELSE [visits |-> 1, last |-> e.stamp]]
    <3> DEFINE c == ClientOf[e.booking]
               r == IF Exists(c)
                      THEN [visits |-> clients[c].visits + 1,
                            last |-> Greatest(clients[c].last, e.stamp)]
                      ELSE [visits |-> 1, last |-> e.stamp]
    <3>1. Exists(c) => clients[c].visits \in Nat /\ clients[c].last \in 0..MaxStamp
      BY <1>2 DEF TypeOK, Exists, ClientRow
    <3>2. r \in ClientRow
      BY <3>1, <1>2, ClientAssumption DEF ClientRow, Greatest
    <3>3. clients' = [clients EXCEPT ![c] = r]
      BY <2>2
    <3>4. r # NoClient
      BY <3>2, ClientAssumption
    <3> HIDE DEF r
    <3>5. /\ clients' \in [Client -> ClientRow \union {NoClient}]
          /\ \A d \in Client : Exists(d) => Exists(d)'
      BY <3>2, <3>3, <3>4, <1>2 DEF TypeOK, Exists
    <3> QED
      BY <3>5, <2>2, <1>2, ClientAssumption DEF TypeOK
  <2> QED
    BY <1>5, <2>1, <2>2 DEF UpsertByBooking
<1> QED
  BY <1>2, <1>3, <1>4, <1>5 DEF Operation, e

LEMMA InitType == Init => TypeOK
<1> SUFFICES ASSUME Init PROVE TypeOK
  OBVIOUS
<1>1. <<>> \in Seq(Message) /\ Len(<<>>) = 0
  OBVIOUS
<1>2. GroupTypeOK
  BY <1>1, GroupAssumption DEF Init, GroupInit, GroupTypeOK
<1>3. MaxStamp \in Nat /\ MaxStops \in Nat
  BY ClientAssumption
<1>4. /\ clients \in [Client -> ClientRow \union {NoClient}]
      /\ countedAt \in [Booking -> 0..MaxStamp]
  BY <1>3 DEF Init
<1>5. context \in {"live", "cancelling", "cancelled"}
  BY DEF Init
<1>6. /\ processed \subseteq Booking /\ held = Nothing /\ stops \in 0..MaxStops
      /\ skipped \subseteq Place /\ forgotten \subseteq Booking /\ deleted \subseteq Client
  BY <1>3 DEF Init
<1> QED
  BY <1>2, <1>4, <1>5, <1>6 DEF TypeOK

\* A message, once in the topic, stays where it is.
KeptMessages ==
  \A q \in Partition : \A o \in 1..Len(log[q]) :
    o <= Len(log'[q]) /\ log'[q][o] = log[q][o]

LEMMA GroupStep ==
  ASSUME GroupAssumption, GroupTypeOK, held \in Handling \union {Nothing}, HeldInv, [Next]_vars
  PROVE  GroupTypeOK' /\ KeptMessages
<1> USE GroupAssumption
<1>0. /\ log \in [Partition -> Seq(Message)]
      /\ committed \in [Partition -> 0..MaxLog]
      /\ position \in [Partition -> 0..MaxLog]
      /\ \A q \in Partition :
           /\ log[q] \in Seq(Message) /\ Len(log[q]) \in Nat
           /\ committed[q] \in Nat /\ committed[q] <= Len(log[q])
           /\ position[q] \in Nat /\ position[q] <= Len(log[q])
  BY DEF GroupTypeOK
<1>1. CASE UNCHANGED groupVars
  <2>1. UNCHANGED <<log, committed, position>>
    BY <1>1 DEF groupVars
  <2> QED
    BY <1>0, <2>1 DEF GroupTypeOK, KeptMessages
<1>2. ASSUME NEW q \in Partition, NEW m \in Message, Produce(q, m)
      PROVE  GroupTypeOK' /\ KeptMessages
  <2> DEFINE s == Append(log[q], m)
  <2>1. log' = [log EXCEPT ![q] = s]
    BY <1>2 DEF Produce
  <2>2. /\ s \in Seq(Message)
        /\ Len(s) = Len(log[q]) + 1
        /\ \A o \in 1..Len(log[q]) : s[o] = log[q][o]
    BY <1>0, <1>2
  <2> HIDE DEF s
  <2>3. log' \in [Partition -> Seq(Message)]
    BY <1>0, <2>1, <2>2
  <2>4. \A r \in Partition : log'[r] = IF r = q THEN s ELSE log[r]
    BY <1>0, <2>1
  <2>5. ASSUME NEW r \in Partition
        PROVE  /\ Len(log'[r]) \in Nat /\ Len(log'[r]) >= Len(log[r])
               /\ \A o \in 1..Len(log[r]) : log'[r][o] = log[r][o]
    <3>1. CASE r = q
      BY <1>0, <2>2, <2>4, <3>1
    <3>2. CASE r # q
      BY <1>0, <2>4, <3>2
    <3> QED
      BY <3>1, <3>2
  <2>6. UNCHANGED <<committed, position>>
    BY <1>2 DEF Produce
  <2>7. GroupTypeOK'
    BY <1>0, <2>3, <2>5, <2>6 DEF GroupTypeOK
  <2>8. KeptMessages
    BY <1>0, <2>5 DEF KeptMessages
  <2> QED
    BY <2>7, <2>8
<1>3. ASSUME NEW at \in Place, Fetch(at)
      PROVE  GroupTypeOK' /\ KeptMessages
  <2>1. at[1] \in Partition /\ at[2] \in 1..MaxLog
    BY DEF Place
  <2>2. UNCHANGED <<log, committed>> /\ position' = [position EXCEPT ![at[1]] = at[2]]
        /\ at[2] <= Len(log[at[1]])
    BY <1>0, <1>3, <2>1 DEF Fetch
  <2>3. /\ position' \in [Partition -> 0..MaxLog]
        /\ \A q \in Partition : position'[q] <= Len(log[q])
    BY <1>0, <2>1, <2>2
  <2> QED
    BY <1>0, <2>2, <2>3 DEF GroupTypeOK, KeptMessages
<1>4. ASSUME held # Nothing, CommitMessage(held.at)
      PROVE  GroupTypeOK' /\ KeptMessages
  <2>1. held.at \in Place /\ held.at[2] <= Len(log[held.at[1]])
    BY <1>4 DEF Handling, HeldInv
  <2>2. held.at[1] \in Partition /\ held.at[2] \in 1..MaxLog
    BY <2>1 DEF Place
  <2>3. CASE committed' = [committed EXCEPT ![held.at[1]] = held.at[2]] /\ UNCHANGED <<log, position>>
    <3>1. /\ committed' \in [Partition -> 0..MaxLog]
          /\ \A q \in Partition : committed'[q] <= Len(log[q])
      BY <1>0, <2>1, <2>2, <2>3
    <3> QED
      BY <1>0, <2>3, <3>1 DEF GroupTypeOK, KeptMessages
  <2>4. CASE UNCHANGED <<committed, log, position>>
    BY <1>0, <2>4 DEF GroupTypeOK, KeptMessages
  <2> QED
    BY <1>4, <2>3, <2>4 DEF CommitMessage
<1>5. CASE Rejoin
  BY <1>0, <1>5 DEF Rejoin, GroupTypeOK, KeptMessages
<1>6. CASE UNCHANGED vars
  BY <1>1, <1>6 DEF vars, groupVars
<1>7. CASE Next
  BY <1>1, <1>2, <1>3, <1>4, <1>5, <1>7
     DEF Next, Publish, FetchMessage, TrySucceeds, TryFails, TryEnds, Done, NotDone, Commit, InStage,
         Shutdown, Restart, Crash, Rebalance, DeleteClient
<1> QED
  BY <1>6, <1>7

\* The history variables only grow, and a client is there until it is deleted.
KeptHistory ==
  /\ processed \subseteq processed'
  /\ skipped \subseteq skipped'
  /\ deleted \subseteq deleted'
  /\ \A c \in Client : Exists(c) => Exists(c)' \/ c \in deleted'

LEMMA TypeStep ==
  ASSUME TypeOK, HeldInv, [Next]_vars
  PROVE  TypeOK' /\ KeptHistory
<1>1. GroupTypeOK'
  BY GroupStep, GroupAssumption DEF TypeOK
<1>2. /\ MaxStops \in Nat /\ MaxTries \in Nat \ {0} /\ stops \in 0..MaxStops
      /\ skipped \subseteq Place /\ deleted \subseteq Client /\ processed \subseteq Booking
      /\ held # Nothing => held \in Handling
  BY ClientAssumption DEF TypeOK
<1> DEFINE TablesOK ==
      /\ clients \in [Client -> ClientRow \union {NoClient}]
      /\ processed \subseteq Booking
      /\ countedAt \in [Booking -> 0..MaxStamp]
      /\ forgotten \subseteq Booking
      /\ deleted \subseteq Client
    ProcessOK ==
      /\ held \in Handling \union {Nothing}
      /\ context \in {"live", "cancelling", "cancelled"}
      /\ stops \in 0..MaxStops
      /\ skipped \subseteq Place
<1>3. TablesOK /\ ProcessOK
  BY DEF TypeOK
<1>4. \A at \in Place, s \in {"ensure", "visit", "commit"}, n \in 0..(MaxTries - 1) :
        [at |-> at, stage |-> s, tries |-> n] \in Handling
  BY DEF Handling
<1>5. TablesOK' /\ KeptHistory
  <2>1. CASE UNCHANGED <<clients, processed, countedAt, forgotten, deleted, skipped>>
    BY <1>3, <2>1 DEF KeptHistory, Exists
  <2>2. CASE TrySucceeds
    <3>1. /\ Working
          /\ Operation \/ UNCHANGED <<clients, processed, countedAt>>
          /\ UNCHANGED <<skipped, forgotten, deleted>>
      BY <2>2 DEF TrySucceeds, TryEnds, Done, NotDone
    <3> QED
      BY <1>3, <3>1, OperationType DEF KeptHistory
  <2>3. CASE TryFails
    <3>1. /\ Working
          /\ Operation \/ UNCHANGED <<clients, processed, countedAt>>
          /\ UNCHANGED <<forgotten, deleted>>
          /\ skipped \subseteq skipped'
      BY <2>3 DEF TryFails, TryEnds, Done, NotDone
    <3> QED
      BY <1>3, <3>1, OperationType DEF KeptHistory
  <2>4. ASSUME NEW c \in Client, DeleteClient(c)
        PROVE  TablesOK' /\ KeptHistory
    <3>1. /\ clients' = [clients EXCEPT ![c] = NoClient]
          /\ forgotten' = forgotten \union {b \in processed : ClientOf[b] = c}
          /\ deleted' = deleted \union {c}
          /\ UNCHANGED <<processed, countedAt, skipped>>
      BY <2>4 DEF DeleteClient
    <3> QED
      BY <1>3, <3>1 DEF KeptHistory, Exists
  <2> QED
    BY <2>1, <2>2, <2>3, <2>4
       DEF Next, vars, Publish, FetchMessage, Commit, Shutdown, Restart, Crash, Rebalance
<1>6. ProcessOK'
  <2>1. CASE UNCHANGED <<held, context, stops, skipped>>
    BY <1>3, <2>1
  <2>2. ASSUME NEW at \in Place, FetchMessage(at)
        PROVE  ProcessOK'
    BY <1>2, <1>3, <1>4, <2>2 DEF FetchMessage
  <2>3. CASE TrySucceeds
    BY <1>2, <1>3, <1>4, <2>3 DEF TrySucceeds, TryEnds, Done, NotDone, GoOn, Working, InStage, Handling
  <2>4. CASE TryFails
    <3>1. held \in Handling /\ held # Nothing
      BY <1>2, <2>4 DEF TryFails, TryEnds, Done, NotDone, Working, InStage
    <3>2. held.at \in Place /\ held.stage \in {"ensure", "visit", "commit"}
          /\ held.tries \in 0..(MaxTries - 1)
      BY <3>1 DEF Handling
    <3>3. CASE held' = GoOn("commit", 0) /\ skipped' = skipped \union {held.at}
      <4>1. held' \in Handling
        BY <3>2, <3>3, <1>2, <1>4 DEF GoOn
      <4> QED
        BY <1>3, <2>4, <3>2, <3>3, <4>1 DEF TryFails, TryEnds, Done, NotDone
    <3>4. CASE held' = GoOn(held.stage, held.tries + 1) /\ UNCHANGED skipped
               /\ held.tries + 1 # MaxTries
      <4>1. held' \in Handling
        BY <3>2, <3>4, <1>2, <1>4 DEF GoOn
      <4> QED
        BY <1>3, <2>4, <3>4, <4>1 DEF TryFails, TryEnds, Done, NotDone
    <3> QED
      BY <2>4, <3>3, <3>4 DEF TryFails, TryEnds, Done, NotDone
  <2>5. CASE Commit
    BY <1>3, <2>5 DEF Commit
  <2>6. CASE Shutdown \/ Restart \/ Crash \/ Rebalance
    <3>1. context' \in {context, "live", "cancelling", "cancelled"}
      BY <2>6 DEF Shutdown, Restart, Crash, Rebalance
    <3>2. context' \in {"live", "cancelling", "cancelled"}
      BY <1>3, <3>1
    <3>3. /\ held' \in {held, Nothing} /\ UNCHANGED skipped
          /\ stops' = stops \/ (stops < MaxStops /\ stops' = stops + 1)
      BY <2>6 DEF Shutdown, Restart, Crash, Rebalance
    <3>4. stops' \in 0..MaxStops
      BY <1>2, <3>3
    <3> QED
      BY <1>3, <3>2, <3>3, <3>4
  <2> QED
    BY <2>1, <2>2, <2>3, <2>4, <2>5, <2>6 DEF Next, vars, Publish, DeleteClient
<1> QED
  BY <1>1, <1>5, <1>6 DEF TypeOK

-----------------------------------------------------------------------------
\* Counting.

\* The step that changes the tables, whichever it is.
EnsureStep == \E c \in Client : EnsureClient(c) /\ UNCHANGED forgotten

CountStep == \E b \in Booking, s \in 1..MaxStamp :
  /\ b \notin processed
  /\ processed' = processed \union {b}
  /\ countedAt' = [countedAt EXCEPT ![b] = s]
  /\ clients' = [clients EXCEPT ![ClientOf[b]] =
       IF Exists(ClientOf[b])
         THEN [visits |-> @.visits + 1, last |-> Greatest(@.last, s)]
         ELSE [visits |-> 1, last |-> s]]
  /\ UNCHANGED forgotten

ForgetStep == \E c \in Client :
  /\ clients' = [clients EXCEPT ![c] = NoClient]
  /\ forgotten' = forgotten \union {b \in processed : ClientOf[b] = c}
  /\ UNCHANGED <<processed, countedAt>>

TableSame == UNCHANGED <<clients, processed, countedAt, forgotten>>

LEMMA TableSteps ==
  ASSUME TypeOK, HeldInv, [Next]_vars
  PROVE  TableSame \/ EnsureStep \/ CountStep \/ ForgetStep
<1>1. ASSUME Working, Operation, UNCHANGED forgotten
      PROVE  TableSame \/ EnsureStep \/ CountStep
  <2> DEFINE e == EventAt(held.at)
  <2>1. e \in Event
    BY <1>1 DEF Working, InStage, HeldInv
  <2>2. e.booking \in Booking /\ e.stamp \in 1..MaxStamp
        /\ ClientAt(held.at) = ClientOf[e.booking] /\ ClientOf[e.booking] \in Client
    BY <2>1, ClientAssumption DEF Event, ClientAt
  <2> HIDE DEF e
  <2>3. CASE EnsureClient(ClientOf[e.booking])
    BY <1>1, <2>2, <2>3 DEF EnsureStep
  <2>4. CASE UpsertByBooking(e.booking, e.stamp)
    BY <1>1, <2>2, <2>4 DEF UpsertByBooking, CountStep, TableSame
  <2> QED
    BY <1>1, <2>2, <2>3, <2>4 DEF Operation, e
<1>2. CASE TrySucceeds
  BY <1>1, <1>2 DEF TrySucceeds, TryEnds, Done, NotDone
<1>3. CASE TryFails
  BY <1>1, <1>3 DEF TryFails, TryEnds, Done, NotDone, TableSame
<1>4. ASSUME NEW c \in Client, DeleteClient(c)
      PROVE  ForgetStep
  BY <1>4 DEF DeleteClient, ForgetStep
<1>5. CASE UNCHANGED vars
  BY <1>5 DEF vars, TableSame
<1> QED
  BY <1>2, <1>3, <1>4, <1>5
     DEF Next, Publish, FetchMessage, Commit, Shutdown, Restart, Crash, Rebalance, TableSame

LEMMA KeptFinite ==
  ASSUME NEW S \in SUBSET Booking
  PROVE  IsFiniteSet(S) /\ Cardinality(S) \in Nat
BY ClientAssumption, FS_Subset, FS_CardinalityType

LEMMA CountStepInv ==
  ASSUME TypeOK, CountInv, LastVisitIsLatest,
         TableSame \/ EnsureStep \/ CountStep \/ ForgetStep
  PROVE  CountInv' /\ LastVisitIsLatest'
<1>1. CASE TableSame
  BY <1>1 DEF TableSame, CountInv, VisitsMatch, LastVisitIsLatest, Kept, Exists
<1>2. CASE EnsureStep
  <2>1. PICK c \in Client : EnsureClient(c) /\ UNCHANGED forgotten
    BY <1>2 DEF EnsureStep
  <2>2. UNCHANGED <<processed, countedAt, forgotten>>
    BY <2>1 DEF EnsureClient
  <2>3. \A d \in Client : Kept(d)' = Kept(d)
    BY <2>2 DEF Kept
  <2>4. \A d \in Client \ {c} : clients'[d] = clients[d]
    BY <2>1 DEF EnsureClient, TypeOK
  <2>5. clients'[c] = IF Exists(c) THEN clients[c] ELSE [visits |-> 0, last |-> 0]
    BY <2>1 DEF EnsureClient, TypeOK
  <2>6. [visits |-> 0, last |-> 0] # NoClient
    BY ClientAssumption DEF ClientRow
  <2>7. Exists(c)'
    BY <2>5, <2>6 DEF Exists
  <2>8. CASE Exists(c)
    BY <2>2, <2>3, <2>4, <2>5, <2>8 DEF CountInv, VisitsMatch, LastVisitIsLatest, Exists
  <2>9. CASE ~Exists(c)
    <3>1. Kept(c) = {} /\ clients'[c].visits = 0 /\ clients'[c].last = 0
      BY <2>5, <2>9 DEF CountInv
    <3>2. Cardinality(Kept(c)') = 0
      BY <2>3, <3>1, FS_EmptySet
    <3>3. CountInv'
      BY <2>2, <2>3, <2>4, <2>7, <3>1, <3>2 DEF CountInv, VisitsMatch, Exists
    <3>4. LastVisitIsLatest'
      BY <2>2, <2>3, <2>4, <2>7, <3>1 DEF LastVisitIsLatest, Exists
    <3> QED
      BY <3>3, <3>4
  <2> QED
    BY <2>8, <2>9
<1>3. CASE CountStep
  <2>1. PICK b \in Booking, s \in 1..MaxStamp :
          /\ b \notin processed
          /\ processed' = processed \union {b}
          /\ countedAt' = [countedAt EXCEPT ![b] = s]
          /\ clients' = [clients EXCEPT ![ClientOf[b]] =
               IF Exists(ClientOf[b])
                 THEN [visits |-> @.visits + 1, last |-> Greatest(@.last, s)]
                 ELSE [visits |-> 1, last |-> s]]
          /\ UNCHANGED forgotten
    BY <1>3 DEF CountStep
  <2> DEFINE c == ClientOf[b]
  <2>2. c \in Client
    BY ClientAssumption
  <2>3. b \notin forgotten
    BY <2>1 DEF CountInv
  <2>4. Kept(c)' = Kept(c) \union {b} /\ b \notin Kept(c)
    BY <2>1, <2>3 DEF Kept
  <2>5. \A d \in Client \ {c} : Kept(d)' = Kept(d) /\ clients'[d] = clients[d]
    BY <2>1, <2>2 DEF Kept, TypeOK
  <2>6. clients'[c] = IF Exists(c)
                        THEN [visits |-> clients[c].visits + 1, last |-> Greatest(clients[c].last, s)]
                        ELSE [visits |-> 1, last |-> s]
    BY <2>1, <2>2 DEF TypeOK
  <2>7. Exists(c) => clients[c].visits \in Nat /\ clients[c].last \in 0..MaxStamp
    BY <2>2 DEF TypeOK, Exists, ClientRow
  <2>8. clients'[c] # NoClient
    BY <2>6, <2>7, ClientAssumption DEF ClientRow, Greatest
  <2>9. IsFiniteSet(Kept(c)) /\ Cardinality(Kept(c)) \in Nat /\ Kept(c) \subseteq Booking
    BY KeptFinite DEF Kept, TypeOK
  <2>10. Cardinality(Kept(c)') = Cardinality(Kept(c)) + 1
    BY <2>4, <2>9, FS_AddElement
  <2>11. ~Exists(c) => Kept(c) = {} /\ Cardinality(Kept(c)) = 0
    BY <2>2, FS_EmptySet DEF CountInv
  <2>12. clients'[c].visits = Cardinality(Kept(c)')
    BY <2>2, <2>6, <2>10, <2>11 DEF CountInv, VisitsMatch
  <2>13. \A d \in Client \ {c} : \A x \in Kept(d) : countedAt'[x] = countedAt[x]
    BY <2>1 DEF Kept, TypeOK
  <2>14. CountInv'
    BY <2>1, <2>2, <2>5, <2>8, <2>12 DEF CountInv, VisitsMatch, Exists
  <2>15. /\ \A x \in Kept(c)' : countedAt'[x] <= clients'[c].last
         /\ \E x \in Kept(c)' : countedAt'[x] = clients'[c].last
    <3>1. countedAt'[b] = s /\ (\A x \in Kept(c) : countedAt'[x] = countedAt[x])
          /\ (\A x \in Kept(c) : countedAt[x] \in Nat) /\ s \in Nat /\ s > 0
      BY <2>1, <2>4 DEF Kept, TypeOK
    <3>2. CASE Exists(c)
      <4>1. /\ \A x \in Kept(c) : countedAt[x] <= clients[c].last
            /\ clients[c].last = 0 \/ \E x \in Kept(c) : countedAt[x] = clients[c].last
        BY <2>2, <3>2 DEF LastVisitIsLatest
      <4>2. clients'[c].last = Greatest(clients[c].last, s) /\ clients[c].last \in Nat
        BY <2>6, <2>7, <3>2
      <4> QED
        BY <2>4, <3>1, <4>1, <4>2 DEF Greatest
    <3>3. CASE ~Exists(c)
      BY <2>4, <2>6, <2>11, <3>1, <3>3
    <3> QED
      BY <3>2, <3>3
  <2>16. LastVisitIsLatest'
    BY <2>2, <2>5, <2>13, <2>15 DEF LastVisitIsLatest, Exists
  <2> QED
    BY <2>14, <2>16
<1>4. CASE ForgetStep
  <2>1. PICK c \in Client :
          /\ clients' = [clients EXCEPT ![c] = NoClient]
          /\ forgotten' = forgotten \union {b \in processed : ClientOf[b] = c}
          /\ UNCHANGED <<processed, countedAt>>
    BY <1>4 DEF ForgetStep
  <2>2. Kept(c)' = {} /\ clients'[c] = NoClient
    BY <2>1 DEF Kept, TypeOK
  <2>3. \A d \in Client \ {c} : Kept(d)' = Kept(d) /\ clients'[d] = clients[d]
    BY <2>1 DEF Kept, TypeOK
  <2>4. CountInv'
    BY <2>1, <2>2, <2>3 DEF CountInv, VisitsMatch, Exists
  <2>5. LastVisitIsLatest'
    BY <2>1, <2>2, <2>3 DEF LastVisitIsLatest, Exists
  <2> QED
    BY <2>4, <2>5
<1> QED
  BY <1>1, <1>2, <1>3, <1>4

-----------------------------------------------------------------------------
\* Offsets.

\* What has been handled stays handled.
LEMMA HandledStays ==
  ASSUME TypeOK, HeldInv, [Next]_vars,
         NEW at, at[1] \in Partition, at[2] \in 1..Len(log[at[1]])
  PROVE  /\ EventAt(at)' = EventAt(at)
         /\ at[2] <= Len(log'[at[1]])
         /\ Handled(at) => Handled(at)'
<1>1. KeptMessages /\ KeptHistory
  BY GroupStep, TypeStep, GroupAssumption DEF TypeOK
<1>2. EventAt(at)' = EventAt(at) /\ at[2] <= Len(log'[at[1]])
  BY <1>1 DEF KeptMessages, EventAt
<1>3. EventAt(at) # Garbage => ClientAt(at) \in Client
  BY MessageType
<1>4. ClientAt(at)' = ClientAt(at)
  BY <1>2 DEF ClientAt
<1>5. ASSUME Handled(at) PROVE Handled(at)'
  <2>1. CASE EventAt(at) = Garbage
    BY <1>2, <2>1 DEF Handled
  <2>2. CASE at \in skipped
    BY <1>1, <2>2 DEF Handled, KeptHistory
  <2>3. CASE /\ EventAt(at) # Garbage
             /\ Exists(ClientAt(at)) \/ ClientAt(at) \in deleted
             /\ EventAt(at).completed => EventAt(at).booking \in processed
    <3>1. Exists(ClientAt(at))' \/ ClientAt(at)' \in deleted'
      BY <1>1, <1>3, <1>4, <2>3 DEF KeptHistory, Exists
    <3>2. EventAt(at)'.completed => EventAt(at)'.booking \in processed'
      BY <1>1, <1>2, <2>3 DEF KeptHistory
    <3> QED
      BY <3>1, <3>2 DEF Handled
  <2> QED
    BY <1>5, <2>1, <2>2, <2>3 DEF Handled
<1> QED
  BY <1>2, <1>5

\* A try goes on with the same message.
LEMMA SameMessage ==
  ASSUME TypeOK, TrySucceeds \/ TryFails, NEW p, p = held.at
  PROVE  /\ held # Nothing /\ held' # Nothing /\ held'.at = p
         /\ held.stage \in {"ensure", "visit"}
         /\ \/ held'.stage = "visit" /\ held.stage = "ensure"
               /\ EventAt(p).completed /\ TrySucceeds
            \/ held'.stage = "commit" /\ TrySucceeds
               /\ (held.stage = "visit" \/ ~EventAt(p).completed)
            \/ held'.stage = "commit" /\ p \in skipped'
            \/ held'.stage = held.stage
<1>1. /\ Working /\ held # Nothing /\ held \in Handling
      /\ held.stage \in {"ensure", "visit"}
      /\ p \in Place /\ held.tries \in 0..(MaxTries - 1) /\ 0 \in 0..(MaxTries - 1)
  BY ClientAssumption DEF TrySucceeds, TryFails, TryEnds, Done, NotDone, Working, InStage, TypeOK, Handling
<1>2. \A s \in {"ensure", "visit", "commit"}, n \in 0..(MaxTries - 1) :
        GoOn(s, n) \in Handling /\ GoOn(s, n).at = p /\ GoOn(s, n).stage = s
  BY <1>1 DEF GoOn, Handling
<1>3. CASE TrySucceeds
  BY <1>1, <1>2, <1>3, ClientAssumption DEF TrySucceeds, TryEnds, Done, NotDone, InStage
<1>4. CASE TryFails
  <2>1. held.tries + 1 # MaxTries => held.tries + 1 \in 0..(MaxTries - 1)
    BY <1>1, ClientAssumption
  <2> QED
    BY <1>1, <1>2, <1>4, <2>1, ClientAssumption DEF TryFails, TryEnds, Done, NotDone
<1> QED
  BY <1>3, <1>4

\* A try that succeeds in a stage has had its effect.
LEMMA StageDone ==
  ASSUME TypeOK, HeldInv, TrySucceeds, NEW p, p = held.at
  PROVE  /\ held.stage = "ensure" => Exists(ClientAt(p))'
         /\ held.stage = "visit" => EventAt(p).booking \in processed'
<1>1. /\ Operation /\ EventAt(p) \in Event /\ UNCHANGED log
      /\ held.stage \in {"ensure", "visit"}
  BY DEF TrySucceeds, TryEnds, Done, NotDone, Working, InStage, HeldInv, groupVars
<1>2. ClientAt(p)' = ClientAt(p) /\ ClientAt(p) \in Client
  BY <1>1, ClientAssumption DEF ClientAt, EventAt, Event
<1>3. ASSUME held.stage = "ensure" PROVE Exists(ClientAt(p))'
  <2>1. EnsureClient(ClientAt(p))
    BY <1>1, <1>3 DEF Operation
  <2>2. [visits |-> 0, last |-> 0] # NoClient
    BY ClientAssumption DEF ClientRow
  <2>3. clients'[ClientAt(p)] # NoClient
    BY <1>2, <2>1, <2>2 DEF EnsureClient, TypeOK, Exists
  <2> QED
    BY <1>2, <2>3 DEF Exists
<1>4. ASSUME held.stage = "visit" PROVE EventAt(p).booking \in processed'
  BY <1>1, <1>4 DEF Operation, UpsertByBooking
<1> QED
  BY <1>3, <1>4

\* What a try leaves of the message at hand.
LEMMA TryHandles ==
  ASSUME TypeOK, HeldInv, [Next]_vars, TrySucceeds \/ TryFails
  PROVE  held' # Nothing /\ held'.at = held.at /\ HeldInv'
<1>1. PICK p : p = held.at
  OBVIOUS
<1>2. /\ held # Nothing /\ held \in Handling /\ p \in Place
      /\ p[1] \in Partition /\ p[2] \in 1..Len(log[p[1]]) /\ p = <<p[1], p[2]>>
      /\ EventAt(p) \in Event
      /\ \A o \in 1..(p[2] - 1) : Handled(<<p[1], o>>)
      /\ held.stage = "visit" => Exists(ClientAt(p)) \/ ClientAt(p) \in deleted
      /\ log[p[1]] \in Seq(Message)
  BY <1>1 DEF TrySucceeds, TryFails, TryEnds, Done, NotDone, Working, InStage, TypeOK, GroupTypeOK, Handling, Place, HeldInv
<1>3. /\ EventAt(p)' = EventAt(p) /\ p[2] <= Len(log'[p[1]])
      /\ ClientAt(p)' = ClientAt(p) /\ ClientAt(p) \in Client
  BY <1>2, HandledStays, MessageType, ClientAssumption DEF ClientAt, Event
<1>4. KeptHistory
  BY TypeStep
<1>5. \A o \in 1..(p[2] - 1) : Handled(<<p[1], o>>)'
  BY <1>2, HandledStays
<1>6. held'.stage = "visit" => Exists(ClientAt(p))' \/ ClientAt(p)' \in deleted'
  BY <1>1, <1>2, <1>3, <1>4, SameMessage, StageDone DEF KeptHistory, Exists
<1>7. held'.stage = "commit" => Handled(p)'
  <2>1. CASE p \in skipped'
    BY <2>1 DEF Handled
  <2>2. CASE /\ TrySucceeds
             /\ held.stage = "visit" \/ (held.stage = "ensure" /\ ~EventAt(p).completed)
    <3>1. Exists(ClientAt(p))' \/ ClientAt(p)' \in deleted'
      BY <1>1, <1>2, <1>3, <1>4, <2>2, StageDone DEF KeptHistory, Exists
    <3>2. EventAt(p)'.completed => EventAt(p)'.booking \in processed'
      BY <1>1, <1>3, <2>2, StageDone
    <3> QED
      BY <3>1, <3>2 DEF Handled
  <2> QED
    BY <1>1, <2>1, <2>2, SameMessage
<1>8. held' # Nothing /\ held'.at = p
  BY <1>1, SameMessage
<1> QED
  BY <1>1, <1>2, <1>3, <1>5, <1>6, <1>7, <1>8 DEF HeldInv

LEMMA PlaceStep ==
  ASSUME TypeOK, PlaceInv, [Next]_vars
  PROVE  PlaceInv'
<1>1. HeldInv /\ PositionInv /\ CommittedIsHandled
  BY DEF PlaceInv
<1>2. TypeOK' /\ KeptHistory /\ KeptMessages /\ GroupTypeOK'
  BY <1>1, TypeStep, GroupStep, GroupAssumption DEF TypeOK
<1>3. \A q \in Partition : /\ Len(log[q]) \in Nat /\ committed[q] \in Nat /\ position[q] \in Nat
                           /\ committed[q] <= Len(log[q]) /\ position[q] <= Len(log[q])
  BY DEF TypeOK, GroupTypeOK
<1>4. \A q \in Partition : \A o \in 1..Len(log[q]) : Handled(<<q, o>>) => Handled(<<q, o>>)'
  BY <1>1, HandledStays
<1>5. \A q \in Partition : \A o \in 1..committed[q] : Handled(<<q, o>>)'
  <2> SUFFICES ASSUME NEW q \in Partition, NEW o \in 1..committed[q]
               PROVE  Handled(<<q, o>>)'
    OBVIOUS
  <2>1. o \in 1..Len(log[q])
    BY <1>3
  <2>2. Handled(<<q, o>>)
    BY <1>1 DEF CommittedIsHandled
  <2> QED
    BY <1>4, <2>1, <2>2
<1>6. ASSUME UNCHANGED <<committed, position>>, held' # Nothing => (held # Nothing /\ held'.at = held.at),
             held # Nothing => (held' # Nothing \/ Handled(held.at)), HeldInv'
      PROVE  PlaceInv'
  <2>1. CommittedIsHandled'
    BY <1>5, <1>6 DEF CommittedIsHandled
  <2>2. ASSUME NEW q \in Partition, NEW o \in 1..position[q]
        PROVE  Handled(<<q, o>>)' \/ (held' # Nothing /\ held'.at = <<q, o>>)
    <3>1. o \in 1..Len(log[q])
      BY <1>3
    <3>2. Handled(<<q, o>>) \/ (held # Nothing /\ held.at = <<q, o>>)
      BY <1>1 DEF PositionInv
    <3>3. CASE Handled(<<q, o>>)
      BY <1>4, <3>1, <3>3
    <3>4. CASE held # Nothing /\ held.at = <<q, o>>
      <4>1. CASE held' # Nothing
        BY <1>6, <3>4, <4>1
      <4>2. CASE Handled(held.at)
        BY <3>3, <3>4, <4>2
      <4> QED
        BY <1>6, <3>4, <4>1, <4>2
    <3> QED
      BY <3>2, <3>3, <3>4
  <2>3. PositionInv'
    BY <1>6, <2>2 DEF PositionInv
  <2> QED
    BY <1>6, <2>1, <2>3 DEF PlaceInv
<1>7. ASSUME UNCHANGED held PROVE HeldInv'
  <2> SUFFICES ASSUME held # Nothing PROVE HeldInv'
    BY <1>7 DEF HeldInv
  <2>1. PICK p : p = held.at
    OBVIOUS
  <2>2. /\ p \in Place /\ p[1] \in Partition /\ p[2] \in 1..Len(log[p[1]]) /\ p = <<p[1], p[2]>>
    BY <1>1, <2>1 DEF TypeOK, Handling, Place, HeldInv
  <2>3. /\ EventAt(p)' = EventAt(p) /\ p[2] <= Len(log'[p[1]])
        /\ Handled(p) => Handled(p)'
    BY <1>1, <2>2, HandledStays
  <2>4. \A o \in 1..(p[2] - 1) : Handled(<<p[1], o>>)'
    BY <1>1, <1>3, <1>4, <2>1, <2>2 DEF HeldInv
  <2>5. held.stage = "visit" => Exists(ClientAt(p))' \/ ClientAt(p)' \in deleted'
    <3>1. held.stage = "visit" => EventAt(p) \in Event
      BY <1>1, <2>1 DEF HeldInv
    <3>2. held.stage = "visit" => ClientAt(p) \in Client /\ ClientAt(p)' = ClientAt(p)
      BY <2>3, <3>1, ClientAssumption DEF ClientAt, Event
    <3>3. held.stage = "visit" => Exists(ClientAt(p)) \/ ClientAt(p) \in deleted
      BY <1>1, <2>1 DEF HeldInv
    <3> QED
      BY <1>2, <3>2, <3>3 DEF KeptHistory, Exists
  <2> QED
    BY <1>1, <1>7, <2>1, <2>3, <2>4, <2>5 DEF HeldInv
<1>8. CASE TrySucceeds \/ TryFails
  <2>1. UNCHANGED <<committed, position>>
    BY <1>8 DEF TrySucceeds, TryFails, TryEnds, Done, NotDone, groupVars
  <2> QED
    BY <1>1, <1>6, <1>8, <2>1, TryHandles, SameMessage
<1>9. ASSUME NEW at \in Place, FetchMessage(at)
      PROVE  PlaceInv'
  <2>1. /\ at[1] \in Partition /\ at[2] \in 1..MaxLog /\ at = <<at[1], at[2]>>
        /\ held = Nothing /\ at[2] = position[at[1]] + 1 /\ at[2] <= Len(log[at[1]])
        /\ UNCHANGED <<log, committed>> /\ position' = [position EXCEPT ![at[1]] = at[2]]
    BY <1>3, <1>9 DEF FetchMessage, Fetch, Place
  <2>2. /\ held' # Nothing /\ held'.at = at
        /\ held'.stage = IF EventAt(at) = Garbage THEN "commit" ELSE "ensure"
    <3>1. [at |-> at, tries |-> 0, stage |-> IF EventAt(at) = Garbage THEN "commit" ELSE "ensure"]
            \in Handling
      BY ClientAssumption DEF Handling
    <3> QED
      BY <1>9, <3>1, ClientAssumption DEF FetchMessage
  <2>3. EventAt(at)' = EventAt(at) /\ EventAt(at) \in Event \union {Garbage}
    BY <2>1, MessageType DEF EventAt
  <2>4. EventAt(at) = Garbage => Handled(at)'
    BY <2>3 DEF Handled
  <2>5. \A o \in 1..position[at[1]] : Handled(<<at[1], o>>)'
    BY <1>1, <1>3, <1>4, <2>1 DEF PositionInv
  <2>6. HeldInv'
    <3>1. \A o \in 1..(at[2] - 1) : Handled(<<at[1], o>>)'
      BY <1>3, <2>1, <2>5
    <3> QED
      BY <2>1, <2>2, <2>3, <2>4, <3>1 DEF HeldInv
  <2>7. CommittedIsHandled'
    BY <1>5, <2>1 DEF CommittedIsHandled
  <2>8. \A q \in Partition : \A o \in 1..position'[q] : Handled(<<q, o>>)' \/ <<q, o>> = at
    <3> SUFFICES ASSUME NEW q \in Partition, NEW o \in 1..position'[q]
                 PROVE  Handled(<<q, o>>)' \/ <<q, o>> = at
      OBVIOUS
    <3>1. position \in [Partition -> 0..MaxLog]
      BY DEF TypeOK, GroupTypeOK
    <3>2. CASE q = at[1]
      BY <1>3, <2>1, <2>5, <3>1, <3>2
    <3>3. CASE q # at[1]
      <4>1. position'[q] = position[q]
        BY <2>1, <3>1, <3>3
      <4> QED
        BY <1>1, <1>3, <1>4, <2>1, <4>1 DEF PositionInv
    <3> QED
      BY <3>2, <3>3
  <2>9. PositionInv'
    BY <2>2, <2>8 DEF PositionInv
  <2> QED
    BY <2>6, <2>7, <2>9 DEF PlaceInv
<1>10. CASE Commit
  <2>1. PICK p : p = held.at
    OBVIOUS
  <2>2. /\ held # Nothing /\ held' = Nothing /\ UNCHANGED <<log, position>>
        /\ p[1] \in Partition /\ p[2] \in 1..Len(log[p[1]]) /\ p = <<p[1], p[2]>>
        /\ Handled(p) /\ \A o \in 1..(p[2] - 1) : Handled(<<p[1], o>>)
        /\ committed' = [committed EXCEPT ![p[1]] = p[2]] \/ UNCHANGED committed
    BY <1>1, <1>10, <2>1 DEF Commit, InStage, CommitMessage, TypeOK, Handling, Place, HeldInv
  <2>3. \A o \in 1..p[2] : Handled(<<p[1], o>>)
    BY <2>2
  <2>4. \A o \in 1..p[2] : Handled(<<p[1], o>>)'
    BY <1>3, <1>4, <2>2, <2>3
  <2>5. CommittedIsHandled'
    <3> SUFFICES ASSUME NEW q \in Partition, NEW o \in 1..committed'[q]
                 PROVE  Handled(<<q, o>>)'
      BY DEF CommittedIsHandled
    <3>1. committed \in [Partition -> 0..MaxLog]
      BY DEF TypeOK, GroupTypeOK
    <3>2. CASE committed'[q] = committed[q]
      BY <1>5, <3>2
    <3>3. CASE committed'[q] # committed[q]
      <4>1. q = p[1] /\ committed'[q] = p[2]
        BY <2>2, <3>1, <3>3
      <4> QED
        BY <2>4, <4>1
    <3> QED
      BY <3>2, <3>3
  <2>6. PositionInv'
    <3>1. ASSUME NEW q \in Partition, NEW o \in 1..position[q]
          PROVE  Handled(<<q, o>>)'
      <4>1. o \in 1..Len(log[q])
        BY <1>3
      <4>2. Handled(<<q, o>>)
        BY <1>1, <2>1, <2>2 DEF PositionInv
      <4> QED
        BY <1>4, <4>1, <4>2
    <3> QED
      BY <2>2, <3>1 DEF PositionInv
  <2>7. HeldInv'
    BY <2>2 DEF HeldInv
  <2> QED
    BY <2>5, <2>6, <2>7 DEF PlaceInv
<1>11. ASSUME Rejoin, held' = held \/ held' = Nothing
       PROVE  PlaceInv'
  <2>1. UNCHANGED <<log, committed>> /\ position' = committed
    BY <1>11 DEF Rejoin
  <2>2. HeldInv'
    BY <1>7, <1>11 DEF HeldInv
  <2>3. CommittedIsHandled'
    BY <1>5, <2>1 DEF CommittedIsHandled
  <2>4. PositionInv'
    BY <1>5, <2>1 DEF PositionInv
  <2> QED
    BY <2>2, <2>3, <2>4 DEF PlaceInv
<1>12. CASE UNCHANGED <<committed, position, held>>
  BY <1>6, <1>7, <1>12
<1> QED
  BY <1>8, <1>9, <1>10, <1>11, <1>12
     DEF Next, vars, groupVars, Publish, Produce, Shutdown, Restart, Crash, Rebalance, DeleteClient

-----------------------------------------------------------------------------
\* The consumer by itself.

ClientInv == TypeOK /\ CountInv /\ LastVisitIsLatest /\ PlaceInv

\* Everything this module proves about a state.
LEMMA ClientInvariant == Spec => []ClientInv
<1>1. Init => ClientInv
  <2> SUFFICES ASSUME Init PROVE ClientInv
    OBVIOUS
  <2>1. \A c \in Client : Kept(c) = {} /\ ~Exists(c)
    BY DEF Init, Kept, Exists
  <2>2. CountInv /\ LastVisitIsLatest
    BY <2>1 DEF Init, CountInv, VisitsMatch, LastVisitIsLatest
  <2>3. PlaceInv
    BY DEF Init, GroupInit, PlaceInv, HeldInv, PositionInv, CommittedIsHandled
  <2> QED
    BY <2>2, <2>3, InitType DEF ClientInv
<1>2. ClientInv /\ [Next]_vars => ClientInv'
  BY TypeStep, TableSteps, CountStepInv, PlaceStep DEF ClientInv, PlaceInv
<1> QED
  BY <1>1, <1>2, PTL DEF Spec

-----------------------------------------------------------------------------
\* The cards.

CardType ==
  /\ card \in [Client -> Card \union {NoClient}]
  /\ issued \in Nat
  /\ edit \in [Request -> Edit \union {Idle}]
  /\ \A r \in Request : edit[r] # Idle => edit[r].id <= issued
  /\ said \in [RowId -> [name : {"told", "edited"}, notes : Notes \union {Blank}]]

HasCard(c) == card[c] # NoClient
Free == {c \in Client : card[c] = NoClient}

\* A row has a card; its id was given to it alone, and what was said of it stands in it.
\* An edit is of a row that was there once.
CardInv ==
  /\ CardType
  /\ \A c \in Client : HasCard(c) <=> Exists(c)
  /\ \A c \in Client : HasCard(c) =>
       /\ card[c].id <= issued
       /\ card[c].notes = said[card[c].id].notes
       /\ card[c].name = said[card[c].id].name
  /\ \A c, d \in Client : HasCard(c) /\ HasCard(d) /\ card[c].id = card[d].id => c = d
  /\ \A i \in RowId : i > issued => said[i] = [name |-> "told", notes |-> Blank]
  /\ issued + Cardinality(Free) <= MaxIds

\* The cards change nothing for the consumer: its invariant goes on to hold.
LEMMA ConsumerGoesOn == SpecC => []ClientInv
<1>1. InitC => Init
  BY DEF InitC
<1>2. [NextC]_allVars => [Next]_vars
  <2>1. ConsumerStep => Next
    BY DEF ConsumerStep, Next
  <2>2. ASSUME NEW k \in Caller, NEW i \in RowId, RemoveClient(k, i)
        PROVE  Next
    BY <2>2 DEF RemoveClient, GetClient, GetByID, Next
  <2> QED
    BY <2>1, <2>2 DEF NextC, AskEdit, FindClient, WriteClient, allVars, cardVars
<1>3. SpecC => Spec
  BY <1>1, <1>2, PTL DEF SpecC, Spec
<1> QED
  BY <1>3, ClientInvariant, PTL

\* Writing the row of c keeps the invariant, if c is what has a row afterwards.
LEMMA TellCardInv ==
  ASSUME CardInv, NEW c \in Client, TellCard(c), UNCHANGED edit,
         \A d \in Client : Exists(d)' <=> Exists(d) \/ d = c
  PROVE  CardInv'
<1> USE DEF HasCard
<1>1. CASE Exists(c)
  <2>1. card[c] \in Card /\ card[c].id \in RowId /\ HasCard(c)
    BY <1>1 DEF CardInv, CardType, Card
  <2> DEFINE i == card[c].id
  <2>2. /\ card' = [card EXCEPT ![c].name = "told"]
        /\ said' = [said EXCEPT ![i].name = "told"]
        /\ issued' = issued
    BY <1>1 DEF TellCard
  <2> HIDE DEF i
  <2>3. /\ card'[c] = [card[c] EXCEPT !.name = "told"]
        /\ \A d \in Client \ {c} : card'[d] = card[d]
        /\ card'[c] \in Card
    BY <2>1, <2>2 DEF CardInv, CardType, Card
  <2>4. /\ said'[i].name = "told" /\ said'[i].notes = said[i].notes
        /\ \A j \in RowId \ {i} : said'[j] = said[j]
        /\ said' \in [RowId -> [name : {"told", "edited"}, notes : Notes \union {Blank}]]
    BY <2>1, <2>2 DEF CardInv, CardType, i
  <2>5. CardType'
    BY <2>2, <2>3, <2>4 DEF CardInv, CardType
  <2>6. \A d \in Client : (HasCard(d)' <=> HasCard(d)) /\ (HasCard(d) => card'[d].id = card[d].id)
    BY <2>1, <2>3, CardAssumption DEF Card
  <2>7. Free' = Free
    BY <2>6 DEF Free
  <2>8. \A d \in Client : HasCard(d)' =>
          card'[d].notes = said'[card'[d].id].notes /\ card'[d].name = said'[card'[d].id].name
    <3> SUFFICES ASSUME NEW d \in Client, HasCard(d)
                 PROVE  /\ card'[d].notes = said'[card'[d].id].notes
                        /\ card'[d].name = said'[card'[d].id].name
      BY <2>6
    <3>1. card[d] \in Card /\ card[d].id \in RowId
      BY DEF CardInv, CardType, Card
    <3>2. CASE d = c
      BY <3>2, <2>1, <2>3, <2>4 DEF CardInv, Card, i
    <3>3. CASE d # c
      <4>1. card[d].id # i
        BY <3>3, <2>1 DEF CardInv, i
      <4> QED
        BY <4>1, <3>1, <3>3, <2>3, <2>4 DEF CardInv
    <3> QED
      BY <3>2, <3>3
  <2>9. \A j \in RowId : j > issued => said'[j] = [name |-> "told", notes |-> Blank]
    <3>1. i <= issued /\ i \in RowId
      BY <2>1 DEF CardInv, i
    <3> QED
      BY <3>1, <2>4 DEF CardInv, CardType, RowId
  <2> QED
    BY <1>1, <2>2, <2>5, <2>6, <2>7, <2>8, <2>9 DEF CardInv
<1>2. CASE ~Exists(c)
  <2>1. /\ issued' = issued + 1
        /\ card' = [card EXCEPT ![c] = [id |-> issued', name |-> "told", notes |-> Blank]]
        /\ said' = said
    BY <1>2 DEF TellCard
  <2>2. card[c] = NoClient /\ c \in Free
    BY <1>2 DEF CardInv, Free
  <2>3. /\ IsFiniteSet(Free) /\ Cardinality(Free) \in Nat
        /\ Cardinality(Free \ {c}) = Cardinality(Free) - 1
        /\ Cardinality(Free \ {c}) \in Nat
    <3>1. IsFiniteSet(Free)
      BY CardAssumption, FS_Subset DEF Free
    <3> QED
      BY <3>1, <2>2, FS_RemoveElement, FS_CardinalityType, FS_Subset
  <2>4. issued' \in RowId
    BY <2>1, <2>3, CardAssumption DEF CardInv, CardType, RowId
  <2>5. /\ card'[c] = [id |-> issued', name |-> "told", notes |-> Blank]
        /\ card'[c] \in Card /\ card'[c] # NoClient
        /\ \A d \in Client \ {c} : card'[d] = card[d]
    BY <2>1, <2>4, CardAssumption DEF CardInv, CardType, Card
  <2>6. CardType'
    <3>1. \A r \in Request : edit[r] # Idle => edit[r].id \in Nat /\ edit[r].id <= issued
      BY DEF CardInv, CardType, Edit, RowId
    <3>2. \A r \in Request : edit'[r] # Idle => edit'[r].id <= issued'
      BY <2>1, <3>1 DEF CardInv, CardType
    <3>3. card' \in [Client -> Card \union {NoClient}]
      BY <2>1, <2>5 DEF CardInv, CardType
    <3> QED
      BY <2>1, <2>4, <3>2, <3>3 DEF CardInv, CardType, RowId
  <2>7. Free' = Free \ {c}
    BY <2>5 DEF Free
  <2>8. \A d \in Client : HasCard(d) => card[d].id <= issued /\ card[d].id \in RowId /\ d # c
    BY <2>2 DEF CardInv, CardType, Card
  <2>9. said[issued'] = [name |-> "told", notes |-> Blank]
    BY <2>1, <2>4 DEF CardInv, CardType
  <2>10. \A d \in Client : HasCard(d)' <=> Exists(d)'
    BY <2>5 DEF CardInv
  <2>11. \A d \in Client : HasCard(d)' =>
           /\ card'[d].id <= issued'
           /\ card'[d].notes = said'[card'[d].id].notes
           /\ card'[d].name = said'[card'[d].id].name
    <3> SUFFICES ASSUME NEW d \in Client, HasCard(d)'
                 PROVE  /\ card'[d].id <= issued'
                        /\ card'[d].notes = said'[card'[d].id].notes
                        /\ card'[d].name = said'[card'[d].id].name
      OBVIOUS
    <3>1. CASE d = c
      BY <3>1, <2>1, <2>4, <2>5, <2>9 DEF RowId
    <3>2. CASE d # c
      <4>1. card'[d] = card[d] /\ HasCard(d)
        BY <3>2, <2>5
      <4> QED
        BY <4>1, <2>1, <2>8 DEF CardInv, CardType, RowId
    <3> QED
      BY <3>1, <3>2
  <2>12. \A d, f \in Client : HasCard(d)' /\ HasCard(f)' /\ card'[d].id = card'[f].id => d = f
    <3>1. \A d \in Client \ {c} : HasCard(d)' => HasCard(d) /\ card'[d].id = card[d].id
                                                 /\ card'[d].id # issued'
      BY <2>1, <2>5, <2>8 DEF CardInv, CardType, RowId
    <3> QED
      BY <3>1, <2>5 DEF CardInv
  <2>13. \A j \in RowId : j > issued' => said'[j] = [name |-> "told", notes |-> Blank]
    BY <2>1 DEF CardInv, CardType, RowId
  <2>14. issued' + Cardinality(Free') <= MaxIds
    BY <2>1, <2>3, <2>7 DEF CardInv, CardType
  <2> QED
    BY <2>6, <2>10, <2>11, <2>12, <2>13, <2>14 DEF CardInv
<1> QED
  BY <1>1, <1>2

\* An operation that was done makes a row of the client it is about, or changes none.
LEMMA OperationRows ==
  ASSUME TypeOK, HeldInv, CardInv, Working, Operation, OperationOnCard, UNCHANGED edit
  PROVE  CardInv'
<1> DEFINE e == EventAt(held.at)
           c == ClientAt(held.at)
<1>1. e \in Event
  BY DEF Working, InStage, HeldInv
<1>2. /\ e.booking \in Booking /\ e.stamp \in 1..MaxStamp
      /\ c = ClientOf[e.booking] /\ c \in Client
  BY <1>1, ClientAssumption DEF Event, ClientAt
<1> HIDE DEF e, c
<1>3. \A d \in Client : Exists(d) => Exists(d)'
  BY OperationType
<1>4. clients' \in [Client -> ClientRow \union {NoClient}]
  BY OperationType
<1>5. CASE TellCard(c) /\ EnsureClient(c)
  <2>1. [visits |-> 0, last |-> 0] # NoClient
    BY ClientAssumption DEF ClientRow
  <2>2. \A d \in Client : Exists(d)' <=> Exists(d) \/ d = c
    BY <1>5, <2>1, <1>2 DEF EnsureClient, Exists, TypeOK
  <2> QED
    BY <1>5, <2>2, <1>2, TellCardInv
<1>6. CASE /\ TellCard(c) /\ e.booking \notin processed
           /\ UpsertByBooking(e.booking, e.stamp)
  <2> DEFINE r == IF Exists(c)
                    THEN [visits |-> clients[c].visits + 1,
                          last |-> Greatest(clients[c].last, e.stamp)]
                    ELSE [visits |-> 1, last |-> e.stamp]
  <2>1. clients' = [clients EXCEPT ![c] = r]
    BY <1>6, <1>2 DEF UpsertByBooking
  <2>2. Exists(c) => clients[c].visits \in Nat /\ clients[c].last \in 0..MaxStamp
    BY <1>2 DEF TypeOK, Exists, ClientRow
  <2>3. r \in ClientRow
    BY <2>2, <1>2, ClientAssumption DEF ClientRow, Greatest
  <2>4. r # NoClient
    BY <2>3, ClientAssumption
  <2> HIDE DEF r
  <2>5. \A d \in Client : Exists(d)' <=> Exists(d) \/ d = c
    BY <2>1, <2>4, <1>2 DEF Exists, TypeOK
  <2> QED
    BY <1>6, <2>5, <1>2, TellCardInv
<1>7. CASE /\ UNCHANGED <<card, issued, said>> /\ e.booking \in processed
           /\ UpsertByBooking(e.booking, e.stamp)
  BY <1>7 DEF UpsertByBooking, CardInv, CardType, HasCard, Free, Exists
<1> QED
  BY <1>5, <1>6, <1>7 DEF Operation, OperationOnCard, Working, InStage, e, c

\* Steps that leave the rows where they are.
LEMMA SameRows ==
  ASSUME CardInv, UNCHANGED <<card, issued, said>>, UNCHANGED clients,
         edit' \in [Request -> Edit \union {Idle}],
         \A r \in Request : edit'[r] # Idle => edit'[r].id <= issued
  PROVE  CardInv'
BY DEF CardInv, CardType, HasCard, Free, Exists

\* The consumer keeps the cards.
LEMMA ConsumerCards ==
  ASSUME TypeOK, HeldInv, CardInv, ConsumerStep
  PROVE  CardInv'
<1>1. /\ UNCHANGED edit /\ edit' \in [Request -> Edit \union {Idle}]
      /\ \A r \in Request : edit'[r] # Idle => edit'[r].id <= issued
  BY DEF ConsumerStep, CardInv, CardType
<1>2. CASE TrySucceeds /\ OperationOnCard
  BY <1>1, <1>2, OperationRows DEF TrySucceeds, TryEnds, Done
<1>3. CASE TryFails /\ Done /\ OperationOnCard
  BY <1>1, <1>3, OperationRows DEF TryFails, TryEnds, Done
<1>4. CASE NotDone /\ UNCHANGED <<card, issued, said>>
  BY <1>1, <1>4, SameRows DEF NotDone
<1>5. CASE /\ \/ \E q \in Partition, m \in Message : Publish(q, m)
              \/ \E at \in Place : FetchMessage(at)
              \/ Commit \/ Shutdown \/ Restart \/ Crash \/ Rebalance
           /\ UNCHANGED <<card, issued, said>>
  <2>1. UNCHANGED clients
    BY <1>5 DEF Publish, FetchMessage, Commit, Shutdown, Restart, Crash, Rebalance
  <2> QED
    BY <2>1, <1>1, <1>5, SameRows
<1> QED
  BY <1>2, <1>3, <1>4, <1>5 DEF ConsumerStep

\* An edit reaches the row that has its id, or none.
LEMMA EditCards ==
  ASSUME CardInv, NEW r \in Request, WriteClient(r)
  PROVE  CardInv'
<1> USE DEF HasCard
<1>1. /\ edit[r] \in Edit /\ edit[r].id <= issued
      /\ UNCHANGED <<clients, issued>>
  BY DEF CardInv, CardType, WriteClient, vars
<1> DEFINE i == edit[r].id
           n == edit[r].notes
<1>2. /\ i \in RowId /\ n \in Notes
      /\ card' = [c \in Client |-> IF c \in GetByID(i)
                    THEN [card[c] EXCEPT !.name = "edited", !.notes = n] ELSE card[c]]
      /\ said' = [said EXCEPT ![i] = [name |-> "edited", notes |-> n]]
      /\ edit' = [edit EXCEPT ![r] = Idle]
  BY <1>1 DEF WriteClient, Edit
<1>11. i <= issued
  BY <1>1
<1> HIDE DEF i, n
<1>3. \A c \in Client : HasCard(c) => card[c] \in Card
  BY DEF CardInv, CardType
<1>4. ASSUME NEW c \in Client
      PROVE  /\ card'[c] \in Card \union {NoClient}
             /\ HasCard(c)' <=> HasCard(c)
             /\ HasCard(c) => /\ card'[c].id = card[c].id
                              /\ card'[c].id = i => card'[c].name = "edited" /\ card'[c].notes = n
                              /\ card'[c].id # i => card'[c] = card[c]
  <2>1. CASE c \in GetByID(i)
    <3>1. HasCard(c) /\ card[c].id = i /\ card[c] \in Card
      BY <2>1, <1>3 DEF GetByID
    <3>2. card'[c] = [card[c] EXCEPT !.name = "edited", !.notes = n]
      BY <1>2, <2>1
    <3>3. card'[c] \in Card /\ card'[c] # NoClient
      BY <3>1, <3>2, <1>2, CardAssumption DEF Card
    <3> QED
      BY <3>1, <3>2, <3>3 DEF Card
  <2>2. CASE c \notin GetByID(i)
    BY <1>2, <2>2 DEF GetByID, CardInv, CardType
  <2> QED
    BY <2>1, <2>2
<1>5. /\ said'[i] = [name |-> "edited", notes |-> n]
      /\ \A j \in RowId \ {i} : said'[j] = said[j]
      /\ said' \in [RowId -> [name : {"told", "edited"}, notes : Notes \union {Blank}]]
  BY <1>2 DEF CardInv, CardType
<1>6. CardType'
  <2>1. card' \in [Client -> Card \union {NoClient}]
    BY <1>2, <1>4
  <2> QED
    BY <2>1, <1>1, <1>2, <1>5 DEF CardInv, CardType
<1>7. Free' = Free
  BY <1>4 DEF Free
<1>8. \A c \in Client : HasCard(c)' <=> Exists(c)'
  BY <1>1, <1>4 DEF CardInv, Exists
<1>9. \A c \in Client : HasCard(c)' =>
        /\ card'[c].id <= issued'
        /\ card'[c].notes = said'[card'[c].id].notes
        /\ card'[c].name = said'[card'[c].id].name
  <2> SUFFICES ASSUME NEW c \in Client, HasCard(c)
               PROVE  /\ card'[c].id <= issued'
                      /\ card'[c].notes = said'[card'[c].id].notes
                      /\ card'[c].name = said'[card'[c].id].name
    BY <1>4
  <2>1. card[c].id \in RowId
    BY <1>3 DEF Card
  <2>2. CASE card[c].id = i
    BY <2>2, <1>1, <1>4, <1>5 DEF CardInv
  <2>3. CASE card[c].id # i
    BY <2>3, <2>1, <1>1, <1>4, <1>5 DEF CardInv
  <2> QED
    BY <2>2, <2>3
<1>10. \A j \in RowId : j > issued' => said'[j] = [name |-> "told", notes |-> Blank]
  <2>1. \A j \in RowId : j > issued => said[j] = [name |-> "told", notes |-> Blank]
    BY DEF CardInv
  <2>2. issued \in Nat /\ i \in Nat /\ RowId \subseteq Nat
    <3>1. issued \in Nat
      BY DEF CardInv, CardType
    <3>2. RowId \subseteq Nat
      BY CardAssumption DEF RowId
    <3> QED
      BY <3>1, <3>2, <1>2
  <2>3. \A j \in RowId : j > issued => j # i
    BY <2>2, <1>11
  <2> QED
    BY <1>1, <1>5, <2>1, <2>3
<1> QED
  BY <1>1, <1>4, <1>6, <1>7, <1>8, <1>9, <1>10 DEF CardInv

\* A row that is deleted takes its card with it.
LEMMA RemoveCards ==
  ASSUME TypeOK, CardInv, NEW k \in Caller, NEW i \in RowId, RemoveClient(k, i)
  PROVE  CardInv'
<1> USE DEF HasCard
<1>1. PICK c \in Client :
        /\ card[c] # NoClient
        /\ issued + Cardinality({d \in Client : card[d] = NoClient}) < MaxIds
        /\ DeleteClient(c)
        /\ card' = [card EXCEPT ![c] = NoClient]
        /\ UNCHANGED <<issued, edit, said>>
  BY DEF RemoveClient, GetClient, GetByID
<1>2. Free' = Free \union {c} /\ c \notin Free
  BY <1>1 DEF Free, CardInv, CardType
<1>3. IsFiniteSet(Free)
  BY CardAssumption, FS_Subset DEF Free
<1>4. Cardinality(Free') = Cardinality(Free) + 1 /\ Cardinality(Free) \in Nat
  BY <1>2, <1>3, FS_AddElement, FS_CardinalityType
<1>5. issued + Cardinality(Free) < MaxIds
  BY <1>1 DEF Free
<1>6. issued' + Cardinality(Free') <= MaxIds
  BY <1>1, <1>4, <1>5, CardAssumption DEF CardInv, CardType
<1>7. CardType'
  BY <1>1 DEF CardInv, CardType
<1>8. \A d \in Client : HasCard(d)' <=> HasCard(d) /\ d # c
  BY <1>1 DEF CardInv, CardType
<1>9. \A d \in Client : d # c => card'[d] = card[d]
  BY <1>1 DEF CardInv, CardType
<1>10. \A d \in Client : Exists(d)' <=> Exists(d) /\ d # c
  BY <1>1 DEF DeleteClient, Exists, TypeOK
<1>11. \A d \in Client : HasCard(d)' <=> Exists(d)'
  BY <1>8, <1>10 DEF CardInv
<1> QED
  BY <1>1, <1>6, <1>7, <1>8, <1>9, <1>11 DEF CardInv

\* What barbers and consumer do together keeps the cards.
LEMMA CardInvariant == SpecC => []CardInv
<1>1. InitC => CardInv
  <2> SUFFICES ASSUME InitC PROVE CardInv
    OBVIOUS
  <2>1. Free = Client
    BY DEF InitC, Free
  <2>2. CardType
    BY DEF InitC, CardType
  <2> QED
    BY <2>1, <2>2, CardAssumption, FS_CardinalityType
       DEF InitC, Init, CardInv, HasCard, Exists
<1>2. ClientInv /\ CardInv /\ [NextC]_allVars => CardInv'
  <2> SUFFICES ASSUME ClientInv, CardInv, [NextC]_allVars PROVE CardInv'
    OBVIOUS
  <2>1. CASE ConsumerStep
    BY <2>1, ConsumerCards DEF ClientInv, PlaceInv
  <2>2. ASSUME NEW r \in Request, NEW k \in Caller, NEW i \in RowId, NEW n \in Notes,
               AskEdit(r, k, i, n)
        PROVE  CardInv'
    <3>1. [stage |-> "asked", barber |-> k, id |-> i, notes |-> n] \in Edit
      BY CardAssumption DEF Edit
    <3>2. /\ edit' \in [Request -> Edit \union {Idle}]
          /\ \A q \in Request : edit'[q] # Idle => edit'[q].id <= issued
      BY <3>1, <2>2 DEF AskEdit, CardInv, CardType
    <3> QED
      BY <3>2, <2>2, SameRows DEF AskEdit, vars
  <2>3. ASSUME NEW r \in Request, FindClient(r)
        PROVE  CardInv'
    <3>1. edit[r] \in Edit
      BY <2>3 DEF FindClient, CardInv, CardType
    <3>2. [edit[r] EXCEPT !.stage = "found"] \in Edit
      BY <3>1 DEF Edit
    <3>3. /\ edit' \in [Request -> Edit \union {Idle}]
          /\ \A q \in Request : edit'[q] # Idle => edit'[q].id <= issued
      BY <3>1, <3>2, <2>3 DEF FindClient, CardInv, CardType, Edit
    <3> QED
      BY <3>3, <2>3, SameRows DEF FindClient, vars
  <2>4. CASE UNCHANGED allVars
    BY <2>4, SameRows DEF allVars, cardVars, vars, CardInv, CardType
  <2> QED
    BY <2>1, <2>2, <2>3, <2>4, EditCards, RemoveCards DEF NextC, ClientInv
<1> QED
  BY <1>1, <1>2, ConsumerGoesOn, PTL DEF SpecC

-----------------------------------------------------------------------------
\* The theorems.

\* The topic, the offsets, the tables and the consumer's own state have their types
\* in every reachable state, for any number of partitions, bookings, stops and edits.
THEOREM ClientTypeCorrect == SpecC => []TypeOK
BY ConsumerGoesOn, PTL DEF ClientInv

\* Every booking counts at most once for its client, whatever is delivered again.
THEOREM VisitsCountOnce == SpecC => []VisitsMatch
<1>1. ClientInv => VisitsMatch
  BY DEF ClientInv, CountInv
<1> QED
  BY <1>1, ConsumerGoesOn, PTL

\* The last visit of a client is the latest of the visits its counter stands for.
THEOREM LastVisitCorrect == SpecC => []LastVisitIsLatest
BY ConsumerGoesOn, PTL DEF ClientInv

\* No committed offset passes a message that was neither handled nor given up.
THEOREM NothingPassedOver == SpecC => []CommittedIsHandled
<1>1. ClientInv => CommittedIsHandled
  BY DEF ClientInv, PlaceInv
<1> QED
  BY <1>1, ConsumerGoesOn, PTL

\* A barber's card is the row he picked, with the name and the notes given to that
\* row last, for any number of rows, barbers and edits under way.
THEOREM CardsStayTheirOwn == SpecC => []CardsAreTheirOwn
<1>1. CardInv => CardsAreTheirOwn
  BY CardAssumption DEF CardInv, HasCard, CardsAreTheirOwn, ListClients, GetClient, GetByID
<1> QED
  BY <1>1, CardInvariant, PTL

=============================================================================
