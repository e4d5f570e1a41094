------------------------------- MODULE Migrator -------------------------------
(***************************************************************************)
(* The migrators of the four services (services/*/internal/migrator) and   *)
(* their migrations.  Up applies what schema_migrations does not have, in  *)
(* order; Down of booking and client takes back all, of staff and          *)
(* analytics what was recorded last.  Staff changes the schema and its     *)
(* record in one transaction, the others in two statements, and the        *)
(* process may stop between any two.  One migrator of a service runs at a  *)
(* time, and the operator runs it again as often as he likes.              *)
(*                                                                         *)
(* A migration is its version; the schema is the set of those whose        *)
(* objects are there.                                                      *)
(***************************************************************************)
EXTENDS Integers

CONSTANTS
  Service,
  Top,      \* [Service -> Nat]: the last version
  Atomic,   \* services whose migrator works in transactions
  Whole,    \* services whose Down takes back everything
  Once,     \* [Service -> versions whose up fails on a schema that has them]
  Needs,    \* [Service -> [version -> versions whose objects its up refers to]]
  Undoes,   \* [Service -> [version -> versions whose objects its down refers to]]
  Idle      \* no migrator runs

Version(s) == 1..Top[s]
Running == [dir : {"up", "down"}, todo : SUBSET Nat, stage : {"statement", "record"}, at : Nat]

ASSUME MigratorAssumption ==
  /\ Top \in [Service -> Nat]
  /\ Atomic \subseteq Service /\ Whole \subseteq Service
  /\ \A s \in Service :
       /\ Once[s] \subseteq Version(s)
       /\ Needs[s] \in [Version(s) -> SUBSET Version(s)]
       /\ Undoes[s] \in [Version(s) -> SUBSET Version(s)]
       /\ \A v \in Version(s) : \A n \in Needs[s][v] : n < v
       /\ \A v \in Version(s) : \A n \in Undoes[s][v] : n <= v
  /\ Idle \notin Running

VARIABLES
  service,   \* whose migrator this is
  schema,    \* the versions that are in the database
  recorded,  \* the versions in schema_migrations (analytics: the last direction is up)
  run,       \* the migrator that runs: Running, or Idle
  torn,      \* history: versions of which a stop came between statement and record, and
             \* that were not recorded, or taken back, since
  complete   \* history: the last run was an Up that ended without an error

vars == <<service, schema, recorded, run, torn, complete>>

-----------------------------------------------------------------------------
Init ==
  /\ service \in Service
  /\ schema = {} /\ recorded = {}
  /\ run = Idle
  /\ torn = {} /\ complete = FALSE

\* Mutant of Turn: down goes upwards too.
TurnUpwards(v) == v \in run.todo /\ \A w \in run.todo : v <= w

\* v is the version that comes next of those that are left.
Turn(v) ==
  /\ v \in run.todo
  /\ IF run.dir = "up" THEN \A w \in run.todo : v <= w ELSE \A w \in run.todo : w <= v

AtStatement(d) == run # Idle /\ run.dir = d /\ run.stage = "statement"

Begin(d, versions) ==
  /\ run = Idle
  /\ run' = [dir |-> d, todo |-> versions, stage |-> "statement", at |-> 0]
  /\ complete' = FALSE
  /\ UNCHANGED <<service, schema, recorded, torn>>

\* Booking and client look each version up when its turn comes, the others read the
\* table once.
Up == Begin("up", IF service \in Whole THEN Version(service) ELSE Version(service) \ recorded)

Latest == {v \in recorded : \A w \in recorded : w <= v}
Down == Begin("down", IF service \in Whole THEN Version(service) ELSE Latest)

\* Mutant of Skip: a version that is there ends the loop.
SkipAll(v) ==
  /\ AtStatement("up") /\ Turn(v) /\ v \in recorded
  /\ run' = [run EXCEPT !.todo = {}]
  /\ UNCHANGED <<service, schema, recorded, torn, complete>>

Skip(v) ==
  /\ AtStatement("up") /\ Turn(v) /\ v \in recorded
  /\ run' = [run EXCEPT !.todo = @ \ {v}]
  /\ UNCHANGED <<service, schema, recorded, torn, complete>>

CanApply(v) == (v \in schema => v \notin Once[service]) /\ Needs[service][v] \subseteq schema
CanUndo(v) == Undoes[service][v] \subseteq schema

\* The schema and its records after v's statement.  Whatever the down of v would take
\* with it has been taken back before (NoHoles).
AppliedBy(d, v) == IF d = "up" THEN schema \union {v} ELSE schema \ {v}

\* Mutant of RecordedBy: a version that is taken back stays recorded.
RecordedByKept(d, v) == recorded \union {v}

RecordedBy(d, v) == IF d = "up" THEN recorded \union {v} ELSE recorded \ {v}

\* applyInTx, rollbackInTx.
InTransaction(d, v) ==
  /\ schema' = AppliedBy(d, v)
  /\ recorded' = RecordedBy(d, v)
  /\ run' = [run EXCEPT !.todo = @ \ {v}]
  /\ UNCHANGED torn

\* The statement alone; its record is next.
ByItself(d, v) ==
  /\ schema' = AppliedBy(d, v)
  /\ run' = [run EXCEPT !.stage = "record", !.at = v]
  /\ UNCHANGED <<recorded, torn>>

Change(d, v) ==
  /\ IF service \in Atomic THEN InTransaction(d, v) ELSE ByItself(d, v)
  /\ UNCHANGED <<service, complete>>

Apply(v) == AtStatement("up") /\ Turn(v) /\ v \notin recorded /\ CanApply(v) /\ Change("up", v)
Undo(v) == AtStatement("down") /\ Turn(v) /\ CanUndo(v) /\ Change("down", v)

\* Mutant of Record: its error is ignored.
RecordNothing ==
  /\ run # Idle /\ run.stage = "record"
  /\ run' = [run EXCEPT !.todo = @ \ {run.at}, !.stage = "statement", !.at = 0]
  /\ UNCHANGED <<service, schema, recorded, torn, complete>>

Record ==
  /\ run # Idle /\ run.stage = "record"
  /\ recorded' = RecordedBy(run.dir, run.at)
  /\ torn' = torn \ {run.at}
  /\ run' = [run EXCEPT !.todo = @ \ {run.at}, !.stage = "statement", !.at = 0]
  /\ UNCHANGED <<service, schema, complete>>

Finish ==
  /\ run # Idle /\ run.todo = {}
  /\ run' = Idle
  /\ complete' = (run.dir = "up")
  /\ UNCHANGED <<service, schema, recorded, torn>>

\* The process is killed, or the database refuses or loses a statement, for whatever
\* reason: the error ends the migrator.
Stop ==
  /\ run # Idle
  /\ run' = Idle
  /\ torn' = IF run.stage = "record" THEN torn \union {run.at} ELSE torn
  /\ UNCHANGED <<service, schema, recorded, complete>>

Next ==
  \/ Up \/ Down
  \/ \E v \in Version(service) : Skip(v) \/ Apply(v) \/ Undo(v)
  \/ Record \/ Finish \/ Stop

Spec == Init /\ [][Next]_vars

-----------------------------------------------------------------------------
TypeOK ==
  /\ service \in Service
  /\ schema \subseteq Version(service)
  /\ recorded \subseteq Version(service)
  /\ run \in Running \union {Idle}
  /\ run # Idle => run.todo \subseteq Version(service)
  /\ torn \subseteq Version(service)
  /\ complete \in BOOLEAN

\* v's statement is done and its record is next.
BetweenTheTwo(v) == run # Idle /\ run.stage = "record" /\ run.at = v

\* booking/internal/migrator/migrator.go:63-71 and :96-104, staff/.../migrator.go:177-215,
\* analytics/.../migrator.go:75-80 and :112-117.  schema_migrations tells the schema as it
\* is, but for the versions of which a stop came between the two statements; of staff it
\* always does.
RecordsMatch ==
  \A v \in Version(service) : (v \in schema) # (v \in recorded) =>
    service \notin Atomic /\ (v \in torn \/ BetweenTheTwo(v))

\* :34 and :89 of booking, :170 of staff, :200 of analytics.  Runs that stop anywhere, in
\* both directions, leave no version in the schema without the ones before it, unless it or one of
\* those was torn.
NoHoles ==
  \A v \in schema \ torn : \A w \in 1..(v - 1) : w \in schema \union torn

\* :44-72 of booking.  An Up that is run again after a stop goes through: the database
\* has a reason to refuse a version only if it, or one it builds on, was torn.
UpIsRefusedTornOnly ==
  \A v \in Version(service) :
    AtStatement("up") /\ Turn(v) /\ v \notin recorded /\ ~CanApply(v)
      => ({v} \union Needs[service][v]) \cap torn # {}

\* :74 of booking.  When Up ends without an error every version is there, unless a Down was
\* torn between taking it back and its record.
UpMeansComplete ==
  complete => Version(service) \ schema \subseteq torn

=============================================================================
