---------------------------- MODULE MigratorProofs ----------------------------
(***************************************************************************)
(* What Migrator promises, for any services, numbers of migrations and     *)
(* whatever these need, undo or refuse.                                    *)
(***************************************************************************)
EXTENDS Migrator, TLAPS

\* A statement that waits for its record is the one whose turn it is.
RecordInv ==
  run # Idle /\ run.stage = "record" =>
    /\ service \notin Atomic
    /\ Turn(run.at)
    /\ run.dir = "up" => run.at \in schema
    /\ run.dir = "down" => run.at \notin schema

\* An Up leaves behind only what is recorded.
UpInv == run # Idle /\ run.dir = "up" => Version(service) \ run.todo \subseteq recorded

\* Above what a Down has left to do nothing is both there and recorded.
DownInv ==
  run # Idle /\ run.dir = "down" =>
    \A v \in run.todo : \A u \in Version(service) \ run.todo :
      u > v => u \notin schema \/ u \notin recorded

MigratorInv ==
  /\ RecordInv /\ UpInv /\ DownInv /\ RecordsMatch /\ NoHoles
  /\ complete => run = Idle

-----------------------------------------------------------------------------
\* A migrator in progress has the fields of one.
LEMMA Fields ==
  ASSUME TypeOK, run # Idle
  PROVE  /\ run \in Running
         /\ run.dir \in {"up", "down"} /\ run.stage \in {"statement", "record"}
         /\ run.at \in Nat /\ run.todo \subseteq Version(service)
         /\ Version(service) \subseteq Nat
<1>1. run \in Running
  BY DEF TypeOK
<1>2. Version(service) \subseteq Nat
  BY MigratorAssumption DEF TypeOK, Version
<1> QED
  BY <1>1, <1>2 DEF Running, TypeOK

\* The records a migrator goes through.
LEMMA Records ==
  ASSUME NEW r \in Running, NEW t, NEW s, NEW v
  PROVE  /\ [r EXCEPT !.todo = t] = [dir |-> r.dir, todo |-> t, stage |-> r.stage, at |-> r.at]
         /\ [r EXCEPT !.stage = s, !.at = v] = [dir |-> r.dir, todo |-> r.todo, stage |-> s, at |-> v]
<1> DEFINE p == [dir |-> r.dir, todo |-> r.todo, stage |-> s, at |-> r.at]
<1>1. [r EXCEPT !.stage = s] = p
  BY DEF Running
<1>2. [p EXCEPT !.at = v] = [dir |-> r.dir, todo |-> r.todo, stage |-> s, at |-> v]
  OBVIOUS
<1>3. [r EXCEPT !.todo = t] = [dir |-> r.dir, todo |-> t, stage |-> r.stage, at |-> r.at]
  BY DEF Running
<1> HIDE DEF p
<1>4. [[r EXCEPT !.stage = s] EXCEPT !.at = v] = [dir |-> r.dir, todo |-> r.todo, stage |-> s, at |-> v]
  BY <1>1, <1>2
<1> QED
  BY <1>3, <1>4

\* The one that changes all but the direction.
LEMMA RecordsOfThree ==
  ASSUME NEW r \in Running, NEW t, NEW s, NEW v
  PROVE  [r EXCEPT !.todo = t, !.stage = s, !.at = v]
           = [dir |-> r.dir, todo |-> t, stage |-> s, at |-> v]
<1> DEFINE q == [dir |-> r.dir, todo |-> t, stage |-> r.stage, at |-> r.at]
           o == [dir |-> r.dir, todo |-> t, stage |-> s, at |-> r.at]
<1>1. [r EXCEPT !.todo = t] = q
  BY DEF Running
<1>2. [q EXCEPT !.stage = s] = o
  OBVIOUS
<1>3. [o EXCEPT !.at = v] = [dir |-> r.dir, todo |-> t, stage |-> s, at |-> v]
  OBVIOUS
<1> HIDE DEF q, o
<1> QED
  BY <1>1, <1>2, <1>3

\* The migrator after a step that goes on.
LEMMA GoesOn ==
  ASSUME TypeOK, run # Idle, NEW t \in SUBSET Version(service), NEW s \in {"statement", "record"},
         NEW v \in Nat,
         run' = [dir |-> run.dir, todo |-> t, stage |-> s, at |-> v]
  PROVE  /\ run' \in Running /\ run' # Idle
         /\ run'.dir = run.dir /\ run'.todo = t /\ run'.stage = s /\ run'.at = v
<1>1. run.dir \in {"up", "down"} /\ t \in SUBSET Nat
  BY Fields
<1>2. run' \in Running
  BY <1>1 DEF Running
<1>3. run' # Idle
  BY <1>2, MigratorAssumption
<1> QED
  BY <1>2, <1>3

\* A migrator begins.
LEMMA Begun ==
  ASSUME TypeOK, NEW d \in {"up", "down"}, NEW t \in SUBSET Version(service), Begin(d, t)
  PROVE  /\ run' \in Running /\ run' # Idle
         /\ run'.dir = d /\ run'.todo = t /\ run'.stage = "statement" /\ run'.at = 0
<1>1. Version(service) \subseteq Nat
  BY MigratorAssumption DEF TypeOK, Version
<1> DEFINE r == [dir |-> d, todo |-> t, stage |-> "statement", at |-> 0]
<1>2. r \in Running
  BY <1>1 DEF Running
<1>3. r # Idle
  BY <1>2, MigratorAssumption
<1>4. run' = r
  BY DEF Begin
<1>5. r.dir = d /\ r.todo = t /\ r.stage = "statement" /\ r.at = 0
  OBVIOUS
<1> HIDE DEF r
<1> QED
  BY <1>2, <1>3, <1>4, <1>5

\* A version's turn is over.
LEMMA Passed ==
  ASSUME TypeOK, run # Idle, NEW v, run' = [run EXCEPT !.todo = @ \ {v}]
  PROVE  /\ run' \in Running /\ run' # Idle
         /\ run'.dir = run.dir /\ run'.todo = run.todo \ {v}
         /\ run'.stage = run.stage /\ run'.at = run.at
<1>1. run \in Running /\ run.stage \in {"statement", "record"} /\ run.at \in Nat
      /\ run.todo \ {v} \in SUBSET Version(service)
  BY Fields
<1>2. run' = [dir |-> run.dir, todo |-> run.todo \ {v}, stage |-> run.stage, at |-> run.at]
  BY <1>1, Records
<1> QED
  BY <1>1, <1>2, GoesOn

\* A version's statement is done and its record is not.
LEMMA Halfway ==
  ASSUME TypeOK, run # Idle, NEW v \in Nat, run' = [run EXCEPT !.stage = "record", !.at = v]
  PROVE  /\ run' \in Running /\ run' # Idle
         /\ run'.dir = run.dir /\ run'.todo = run.todo
         /\ run'.stage = "record" /\ run'.at = v
<1>1. run \in Running /\ run.todo \in SUBSET Version(service)
  BY Fields
<1>2. run' = [dir |-> run.dir, todo |-> run.todo, stage |-> "record", at |-> v]
  BY <1>1, Records
<1> QED
  BY <1>1, <1>2, GoesOn

\* It is recorded.
LEMMA WrittenDown ==
  ASSUME TypeOK, Record
  PROVE  /\ run' \in Running /\ run' # Idle
         /\ run'.dir = run.dir /\ run'.todo = run.todo \ {run.at}
         /\ run'.stage = "statement" /\ run'.at = 0
<1>0. run # Idle
  BY DEF Record
<1>1. run \in Running /\ run.todo \ {run.at} \in SUBSET Version(service)
  BY <1>0, Fields
<1> DEFINE t == run.todo \ {run.at}
<1>3. run' = [run EXCEPT !.todo = t, !.stage = "statement", !.at = 0]
  BY DEF Record
<1> HIDE DEF t
<1>4. run' = [dir |-> run.dir, todo |-> t, stage |-> "statement", at |-> 0]
  BY <1>1, <1>3, RecordsOfThree
<1>2. run' = [dir |-> run.dir, todo |-> run.todo \ {run.at}, stage |-> "statement", at |-> 0]
  BY <1>4 DEF t
<1> QED
  BY <1>0, <1>1, <1>2, GoesOn

-----------------------------------------------------------------------------
\* The state stands between two statements: what mismatches is torn.
LEMMA Matched ==
  ASSUME RecordsMatch, run # Idle, run.stage = "statement",
         NEW w \in Version(service), (w \in schema) # (w \in recorded)
  PROVE  w \in torn
  BY DEF RecordsMatch, BetweenTheTwo

\* Below the version whose turn it is to go up everything is there or torn; above the one
\* whose turn it is to go down what is there is torn.
LEMMA TurnCuts ==
  ASSUME TypeOK, MigratorInv, run # Idle, NEW v \in Version(service), Turn(v)
  PROVE  /\ run.dir = "up" => \A w \in 1..(v - 1) : w \in schema \union torn
         /\ run.dir = "down" => \A u \in Version(service) : u > v /\ u \in schema => u \in torn
<1>0. /\ run.todo \subseteq Version(service) /\ Version(service) \subseteq Nat
      /\ run.stage \in {"statement", "record"} /\ run.at \in Nat
  BY Fields
<1>1. ASSUME NEW w \in Version(service), (w \in schema) # (w \in recorded),
             w # v
      PROVE  w \in torn
  <2>1. CASE run.stage = "statement"
    BY <1>1, <2>1, Matched DEF MigratorInv
  <2>2. CASE run.stage = "record"
    <3>1. Turn(run.at)
      BY <2>2 DEF MigratorInv, RecordInv
    <3>2. run.at = v
      BY <1>0, <3>1 DEF Turn
    <3> QED
      BY <1>1, <3>2 DEF MigratorInv, RecordsMatch, BetweenTheTwo
  <2> QED
    BY <1>0, <2>1, <2>2
<1>2. ASSUME run.dir = "up", NEW w \in 1..(v - 1) PROVE w \in schema \union torn
  <2>1. w \in Version(service) /\ w < v
    BY <1>0, MigratorAssumption DEF Version, TypeOK
  <2>2. w \notin run.todo
    BY <1>0, <1>2, <2>1 DEF Turn
  <2>3. w \in recorded
    BY <1>2, <2>1, <2>2 DEF MigratorInv, UpInv
  <2> QED
    BY <1>0, <1>1, <2>1, <2>3
<1>3. ASSUME run.dir = "down", NEW u \in Version(service), u > v, u \in schema PROVE u \in torn
  <2>1. u \notin run.todo
    BY <1>0, <1>3 DEF Turn
  <2>2. u \notin recorded
    BY <1>3, <2>1 DEF MigratorInv, DownInv, Turn
  <2> QED
    BY <1>0, <1>1, <1>3, <2>2
<1> QED
  BY <1>2, <1>3

\* A migrator that begins.
LEMMA BeginStep ==
  ASSUME TypeOK, MigratorInv, Up \/ Down
  PROVE  TypeOK' /\ MigratorInv'
<1>0. run = Idle /\ complete' = FALSE /\ UNCHANGED <<service, schema, recorded, torn>>
  BY DEF Up, Down, Begin
<1>1. Latest \subseteq Version(service)
  BY DEF Latest, TypeOK
<1>2. /\ run' \in Running /\ run' # Idle /\ run'.stage = "statement"
      /\ run'.todo \subseteq Version(service)
      /\ run'.dir = "up" => Version(service) \ run'.todo \subseteq recorded
      /\ run'.dir = "down" =>
           run'.todo = Version(service) \/ run'.todo = Latest
  BY <1>1, Begun DEF Up, Down
<1>3. TypeOK'
  BY <1>0, <1>2 DEF TypeOK, Version
<1>4. RecordInv' /\ UpInv'
  BY <1>0, <1>2 DEF RecordInv, UpInv, Version
<1>5. DownInv'
  <2>1. ASSUME NEW v \in Latest, NEW u \in Version(service), u > v, u \in recorded PROVE FALSE
    <3>1. u <= v /\ u \in Int /\ v \in Int
      BY <1>1, <2>1, MigratorAssumption DEF Latest, Version, TypeOK
    <3> QED
      BY <2>1, <3>1
  <2> QED
    BY <1>0, <1>2, <2>1 DEF DownInv, Version
<1>6. RecordsMatch' /\ NoHoles'
  BY <1>0, <1>2 DEF MigratorInv, RecordsMatch, NoHoles, BetweenTheTwo, Version
<1> QED
  BY <1>0, <1>3, <1>4, <1>5, <1>6 DEF MigratorInv

\* A version that is there already is passed over.
LEMMA SkipStep ==
  ASSUME TypeOK, MigratorInv, NEW v \in Version(service), Skip(v)
  PROVE  TypeOK' /\ MigratorInv'
<1>0. /\ run # Idle /\ run.dir = "up" /\ run.stage = "statement" /\ v \in recorded
      /\ UNCHANGED <<service, schema, recorded, torn, complete>>
  BY DEF Skip, AtStatement
<1>1. /\ run' \in Running /\ run' # Idle /\ run'.dir = "up" /\ run'.stage = "statement"
      /\ run'.todo = run.todo \ {v} /\ run.todo \subseteq Version(service)
  BY <1>0, Passed, Fields DEF Skip
<1>2. TypeOK'
  BY <1>0, <1>1 DEF TypeOK, Version
<1>3. RecordInv' /\ DownInv' /\ UpInv'
  BY <1>0, <1>1 DEF MigratorInv, RecordInv, DownInv, UpInv, Version
<1>4. RecordsMatch' /\ NoHoles'
  BY <1>0, <1>1 DEF MigratorInv, RecordsMatch, NoHoles, BetweenTheTwo, Version
<1> QED
  BY <1>0, <1>2, <1>3, <1>4 DEF MigratorInv

\* A version goes up or down, in a transaction or by its statement alone.
LEMMA ChangeStep ==
  ASSUME TypeOK, MigratorInv, NEW v \in Version(service), NEW d \in {"up", "down"},
         AtStatement(d), Turn(v), d = "up" => v \notin recorded, Change(d, v)
  PROVE  TypeOK' /\ MigratorInv'
<1>0. /\ run # Idle /\ run.dir = d /\ run.stage = "statement"
      /\ schema' = AppliedBy(d, v) /\ UNCHANGED <<service, complete, torn>>
  BY DEF AtStatement, Change, InTransaction, ByItself
<1>1. /\ run.todo \subseteq Version(service) /\ Version(service) \subseteq Nat
      /\ Version(service)' = Version(service)
  BY <1>0, Fields DEF Version
<1>2. /\ run' \in Running /\ run' # Idle /\ run'.dir = d
      /\ \/ /\ service \in Atomic /\ run'.todo = run.todo \ {v} /\ run'.stage = "statement"
            /\ recorded' = RecordedBy(d, v)
         \/ /\ service \notin Atomic /\ run'.todo = run.todo /\ run'.stage = "record"
            /\ run'.at = v /\ recorded' = recorded
  <2>1. CASE service \in Atomic
    BY <1>0, <2>1, Passed DEF Change, InTransaction
  <2>2. CASE service \notin Atomic
    BY <1>0, <1>1, <2>2, Halfway DEF Change, ByItself
  <2> QED
    BY <2>1, <2>2
<1>3. TypeOK'
  BY <1>0, <1>1, <1>2 DEF TypeOK, AppliedBy, RecordedBy
<1>4. RecordInv'
  BY <1>0, <1>2 DEF RecordInv, Turn, AppliedBy
<1>5. UpInv'
  BY <1>0, <1>1, <1>2 DEF MigratorInv, UpInv, RecordedBy
<1>6. DownInv'
  BY <1>0, <1>1, <1>2 DEF MigratorInv, DownInv, AppliedBy, RecordedBy
<1>7. RecordsMatch'
  <2> SUFFICES ASSUME NEW w \in Version(service), (w \in schema') # (w \in recorded')
               PROVE  service \notin Atomic /\ (w \in torn \/ BetweenTheTwo(w)')
    BY <1>0, <1>1 DEF RecordsMatch
  <2>1. CASE w = v
    BY <1>0, <1>2, <2>1 DEF AppliedBy, RecordedBy, BetweenTheTwo
  <2>2. CASE w # v
    <3>1. (w \in schema) # (w \in recorded)
      BY <1>0, <1>2, <2>2 DEF AppliedBy, RecordedBy
    <3> QED
      BY <1>0, <3>1, Matched DEF MigratorInv, RecordsMatch
  <2> QED
    BY <2>1, <2>2
<1>8. NoHoles'
  <2> SUFFICES ASSUME NEW u \in schema' \ torn, NEW w \in 1..(u - 1)
               PROVE  w \in schema' \union torn
    BY <1>0 DEF NoHoles
  <2>1. CASE d = "up"
    BY <1>0, <2>1, TurnCuts DEF AppliedBy, MigratorInv, NoHoles
  <2>2. CASE d = "down"
    <3>1. u \in schema \ torn /\ u \in Version(service) /\ u \in Nat
      BY <1>0, <1>1, <2>2 DEF AppliedBy, TypeOK
    <3>2. w # v
      BY <1>0, <1>1, <2>2, <3>1, TurnCuts
    <3>3. w \in schema \union torn
      BY <3>1 DEF MigratorInv, NoHoles
    <3> QED
      BY <1>0, <2>2, <3>2, <3>3 DEF AppliedBy
  <2> QED
    BY <2>1, <2>2
<1>9. complete' => run' = Idle
  BY <1>0 DEF MigratorInv
<1> QED
  BY <1>3, <1>4, <1>5, <1>6, <1>7, <1>8, <1>9 DEF MigratorInv

\* A version is recorded, or its record removed.
LEMMA RecordStep ==
  ASSUME TypeOK, MigratorInv, Record
  PROVE  TypeOK' /\ MigratorInv'
<1> DEFINE v == run.at
<1>0. /\ run # Idle /\ run.stage = "record" /\ torn' = torn \ {v}
      /\ recorded' = RecordedBy(run.dir, v) /\ UNCHANGED <<service, schema, complete>>
  BY DEF Record
<1>1. /\ run.todo \subseteq Version(service) /\ Version(service) \subseteq Nat
      /\ run.dir \in {"up", "down"} /\ Version(service)' = Version(service)
  BY <1>0, Fields DEF Version
<1>2. /\ run' \in Running /\ run' # Idle /\ run'.dir = run.dir
      /\ run'.todo = run.todo \ {v} /\ run'.stage = "statement"
  BY WrittenDown
<1>3. /\ service \notin Atomic /\ Turn(v) /\ v \in Version(service)
      /\ run.dir = "up" => v \in schema
      /\ run.dir = "down" => v \notin schema
  BY <1>0, <1>1 DEF MigratorInv, RecordInv, Turn
<1>4. TypeOK'
  BY <1>0, <1>1, <1>2, <1>3 DEF TypeOK, RecordedBy
<1>5. RecordInv' /\ UpInv' /\ DownInv'
  BY <1>0, <1>1, <1>2, <1>3 DEF MigratorInv, RecordInv, UpInv, DownInv, RecordedBy
<1>6. RecordsMatch'
  <2> SUFFICES ASSUME NEW w \in Version(service), (w \in schema) # (w \in recorded')
               PROVE  w \in torn'
    BY <1>0, <1>1, <1>3 DEF RecordsMatch
  <2>1. w # v
    BY <1>0, <1>1, <1>3 DEF RecordedBy
  <2>2. (w \in schema) # (w \in recorded)
    BY <1>0, <2>1 DEF RecordedBy
  <2> QED
    BY <1>0, <2>1, <2>2 DEF MigratorInv, RecordsMatch, BetweenTheTwo
<1>7. NoHoles'
  <2> SUFFICES ASSUME NEW u \in schema \ torn', NEW w \in 1..(u - 1)
               PROVE  w \in schema \union torn'
    BY <1>0 DEF NoHoles
  <2>0. u \in Version(service) /\ u \in Nat /\ v \in Nat
    BY <1>1, <1>3 DEF TypeOK
  <2>1. CASE run.dir = "up"
    <3>1. w \in schema \union torn
      BY <1>0, <1>3, <2>1, TurnCuts DEF MigratorInv, NoHoles
    <3> QED
      BY <1>0, <1>3, <2>1, <3>1
  <2>2. CASE run.dir = "down"
    <3>1. u # v
      BY <1>3, <2>2
    <3>2. u \notin torn
      BY <1>0, <3>1
    <3>3. w # v
      BY <1>0, <1>3, <2>0, <2>2, <3>2, TurnCuts
    <3> QED
      BY <1>0, <3>2, <3>3 DEF MigratorInv, NoHoles
  <2> QED
    BY <1>1, <2>1, <2>2
<1> QED
  BY <1>0, <1>4, <1>5, <1>6, <1>7 DEF MigratorInv

\* The migrator ends, by itself or not.
LEMMA EndStep ==
  ASSUME TypeOK, MigratorInv, Finish \/ Stop
  PROVE  TypeOK' /\ MigratorInv'
<1>0. /\ run # Idle /\ run' = Idle /\ UNCHANGED <<service, schema, recorded>>
      /\ torn \subseteq torn'
      /\ Version(service)' = Version(service)
  BY DEF Finish, Stop, Version
<1>1. torn' \subseteq Version(service)
  BY <1>0 DEF Finish, Stop, MigratorInv, RecordInv, Turn, TypeOK
<1>2. TypeOK'
  <2>1. complete' \in BOOLEAN
    BY Zenon DEF Finish, Stop, TypeOK
  <2> QED
    BY <1>0, <1>1, <2>1 DEF TypeOK
<1>3. RecordInv' /\ UpInv' /\ DownInv' /\ (complete' => run' = Idle)
  BY <1>0 DEF RecordInv, UpInv, DownInv
<1>4. RecordsMatch'
  <2> SUFFICES ASSUME NEW w \in Version(service), (w \in schema) # (w \in recorded)
               PROVE  service \notin Atomic /\ w \in torn'
    BY <1>0 DEF RecordsMatch
  <2>1. service \notin Atomic /\ (w \in torn \/ BetweenTheTwo(w))
    BY DEF MigratorInv, RecordsMatch
  <2>2. ASSUME BetweenTheTwo(w) PROVE w \in torn'
    <3>1. ~Finish
      BY <2>2 DEF Finish, BetweenTheTwo, MigratorInv, RecordInv, Turn
    <3> QED
      BY <2>2, <3>1 DEF Stop, BetweenTheTwo
  <2> QED
    BY <1>0, <2>1, <2>2
<1>5. NoHoles'
  BY <1>0 DEF MigratorInv, NoHoles
<1> QED
  BY <1>2, <1>3, <1>4, <1>5 DEF MigratorInv

-----------------------------------------------------------------------------
\* The first state.
LEMMA InitHolds == Init => TypeOK /\ MigratorInv
<1> SUFFICES ASSUME Init PROVE TypeOK /\ MigratorInv
  OBVIOUS
<1>1. TypeOK
  <2>1. complete \in BOOLEAN
    BY DEF Init
  <2> QED
    BY <2>1 DEF Init, TypeOK
<1>2. MigratorInv
  BY DEF Init, MigratorInv, RecordInv, UpInv, DownInv, RecordsMatch, NoHoles
<1> QED
  BY <1>1, <1>2

\* The inductive invariant: what the migrator that runs has left to do, and what the
\* schema and its records say meanwhile.
THEOREM MigratorCorrect == Spec => [](TypeOK /\ MigratorInv)
<1>1. TypeOK /\ MigratorInv /\ [Next]_vars => (TypeOK /\ MigratorInv)'
  <2> SUFFICES ASSUME TypeOK, MigratorInv, [Next]_vars PROVE TypeOK' /\ MigratorInv'
    OBVIOUS
  <2>1. ASSUME NEW v \in Version(service), Apply(v) PROVE TypeOK' /\ MigratorInv'
    BY <2>1, ChangeStep DEF Apply
  <2>2. ASSUME NEW v \in Version(service), Undo(v) PROVE TypeOK' /\ MigratorInv'
    BY <2>2, ChangeStep DEF Undo
  <2>3. CASE UNCHANGED vars
    BY <2>3 DEF vars, TypeOK, MigratorInv, RecordInv, UpInv, DownInv, RecordsMatch, NoHoles,
                Version, Turn, BetweenTheTwo
  <2> QED
    BY <2>1, <2>2, <2>3, BeginStep, SkipStep, RecordStep, EndStep DEF Next
<1> QED
  BY <1>1, InitHolds, PTL DEF Spec

\* schema_migrations tells the schema as it is, but for what a stop tore.
THEOREM RecordsAreTrue == Spec => []RecordsMatch
<1>1. TypeOK /\ MigratorInv => RecordsMatch
  BY DEF MigratorInv
<1> QED
  BY <1>1, MigratorCorrect, PTL

\* No version is there without the ones before it, unless a stop tore it or one of them.
THEOREM VersionsAreAPrefix == Spec => []NoHoles
<1>1. TypeOK /\ MigratorInv => NoHoles
  BY DEF MigratorInv
<1> QED
  BY <1>1, MigratorCorrect, PTL

\* An Up can be run again after any stop, unless that tore a version.
THEOREM UpGoesThrough == Spec => []UpIsRefusedTornOnly
<1>1. TypeOK /\ MigratorInv => UpIsRefusedTornOnly
  <2> SUFFICES ASSUME TypeOK, MigratorInv, NEW v \in Version(service),
                      AtStatement("up"), Turn(v), v \notin recorded, ~CanApply(v)
               PROVE  ({v} \union Needs[service][v]) \cap torn # {}
    BY DEF UpIsRefusedTornOnly
  <2>0. /\ run # Idle /\ run.dir = "up" /\ run.stage = "statement"
        /\ run.todo \subseteq Version(service) /\ Version(service) \subseteq Nat
    BY Fields DEF AtStatement
  <2>1. CASE v \in schema
    BY <2>0, <2>1, Matched DEF MigratorInv, CanApply
  <2>2. ASSUME NEW n \in Needs[service][v], n \notin schema PROVE n \in torn
    <3>1. n \in Version(service) /\ n < v
      BY MigratorAssumption DEF TypeOK
    <3>2. n \in Int /\ v \in Int /\ n >= 1
      BY <2>0, <3>1 DEF Version
    <3>3. n \in 1..(v - 1)
      BY <3>1, <3>2
    <3> QED
      BY <2>0, <2>2, <3>3, TurnCuts
  <2> QED
    BY <2>0, <2>1, <2>2, Matched DEF MigratorInv, CanApply
<1> QED
  BY <1>1, MigratorCorrect, PTL

\* An Up that ends without an error leaves every version there, unless a Down was torn.
THEOREM UpIsComplete == Spec => []UpMeansComplete
<1>1. Init => UpMeansComplete
  BY DEF Init, UpMeansComplete
<1>2. TypeOK /\ MigratorInv /\ UpMeansComplete /\ [Next]_vars => UpMeansComplete'
  <2> SUFFICES ASSUME TypeOK, MigratorInv, UpMeansComplete, [Next]_vars, complete'
               PROVE  Version(service)' \ schema' \subseteq torn'
    BY DEF UpMeansComplete
  <2>1. CASE Finish
    <3>0. /\ run # Idle /\ run.todo = {} /\ run.dir = "up"
          /\ UNCHANGED <<service, schema, recorded, torn>>
      BY <2>1 DEF Finish
    <3>1. run.stage = "statement"
      BY <3>0, Fields DEF MigratorInv, RecordInv, Turn
    <3>2. Version(service) \subseteq recorded
      BY <3>0 DEF MigratorInv, UpInv
    <3>3. Version(service)' = Version(service)
      BY <3>0 DEF Version
    <3> QED
      BY <3>0, <3>1, <3>2, <3>3, Matched DEF MigratorInv
  <2>2. CASE UNCHANGED vars
    BY <2>2 DEF vars, UpMeansComplete, Version
  <2>3. CASE Stop \/ Record \/ \E v \in Version(service) : Skip(v) \/ Apply(v) \/ Undo(v)
    <3>1. run # Idle
      BY <2>3 DEF Stop, Record, Skip, Apply, Undo, AtStatement
    <3>2. complete' = complete
      <4>1. Stop \/ Record => complete' = complete
        BY DEF Stop, Record
      <4>2. \A v \in Version(service) : Skip(v) => complete' = complete
        BY DEF Skip
      <4>3. \A v \in Version(service) : Apply(v) \/ Undo(v) => complete' = complete
        BY Zenon DEF Apply, Undo, Change
      <4> QED
        BY <2>3, <4>1, <4>2, <4>3
    <3> QED
      BY <3>1, <3>2 DEF MigratorInv
  <2>4. ~Up /\ ~Down
    BY DEF Up, Down, Begin
  <2> QED
    BY <2>1, <2>2, <2>3, <2>4 DEF Next
<1> QED
  BY <1>1, <1>2, MigratorCorrect, PTL DEF Spec

=============================================================================
