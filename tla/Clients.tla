------------------------------- MODULE Clients -------------------------------
(***************************************************************************)
(* The client cards of a barber: what ClientConsumer leaves out of a row   *)
(* of the table clients, its id, name and notes, and the requests of the   *)
(* barber that edit or delete it (services/client/internal/service, grpc)  *)
(* while the consumer goes on.                                             *)
(*                                                                         *)
(* A row that is deleted and made again by a later event has a new id.     *)
(* The consumer writes the name of the event's client into the row each    *)
(* time, and never the notes.                                              *)
(***************************************************************************)
EXTENDS ClientConsumer

CONSTANTS
  Barber,     \* barber ids
  Caller,     \* the barbers who send requests
  BarberOf,   \* [Client -> Barber]
  Request,    \* requests to edit that may run at a time
  Notes,      \* what a barber may write down
  Blank,      \* the notes of a new row
  MaxIds,     \* bound: rows ever inserted
  Idle        \* a request that is not in progress

RowId == 1..MaxIds
Card == [id : RowId, name : {"told", "edited"}, notes : Notes \union {Blank}]
Edit == [stage : {"asked", "found"}, barber : Barber, id : RowId, notes : Notes]

ASSUME CardAssumption ==
  /\ BarberOf \in [Client -> Barber] /\ Caller \subseteq Barber
  /\ IsFiniteSet(Client)
  /\ MaxIds \in Nat /\ Cardinality(Client) <= MaxIds
  /\ Idle \notin Edit /\ NoClient \notin Card /\ Blank \notin Notes

VARIABLES
  card,    \* [Client -> Card \union {NoClient}]: the rest of the row
  issued,  \* the ids given to rows so far
  edit,    \* [Request -> Edit \union {Idle}]
  said     \* history: [RowId -> the name and the notes its row was given last]

cardVars == <<card, issued, edit, said>>
allVars == <<vars, cardVars>>

-----------------------------------------------------------------------------
InitC ==
  /\ Init
  /\ card = [c \in Client |-> NoClient]
  /\ issued = 0
  /\ edit = [r \in Request |-> Idle]
  /\ said = [i \in RowId |-> [name |-> "told", notes |-> Blank]]

\* Mutant of TellCard: the insert's notes are taken over on conflict too.
TellCardBlank(c) ==
  IF Exists(c)
    THEN /\ card' = [card EXCEPT ![c].name = "told", ![c].notes = Blank]
         /\ said' = [said EXCEPT ![card[c].id].name = "told"]
         /\ UNCHANGED issued
    ELSE /\ issued' = issued + 1
         /\ card' = [card EXCEPT ![c] = [id |-> issued', name |-> "told", notes |-> Blank]]
         /\ UNCHANGED said

\* INSERT ... ON CONFLICT (barber_id, phone) DO UPDATE SET name: both operations of
\* the consumer write the row of c like this.
TellCard(c) ==
  IF Exists(c)
    THEN /\ card' = [card EXCEPT ![c].name = "told"]
         /\ said' = [said EXCEPT ![card[c].id].name = "told"]
         /\ UNCHANGED issued
    ELSE /\ issued' = issued + 1
         /\ card' = [card EXCEPT ![c] = [id |-> issued', name |-> "told", notes |-> Blank]]
         /\ UNCHANGED said

\* The card when a try of the consumer is done: a booking that was processed
\* before returns without a look at the client.
OperationOnCard ==
  LET e == EventAt(held.at) IN
    IF held.stage = "visit" /\ e.booking \in processed
      THEN UNCHANGED <<card, issued, said>>
      ELSE TellCard(ClientAt(held.at))

ConsumerStep ==
  /\ \/ TrySucceeds /\ OperationOnCard
     \/ TryFails /\ \/ Done /\ OperationOnCard
                    \/ NotDone /\ UNCHANGED <<card, issued, said>>
     \/ /\ \/ \E q \in Partition, m \in Message : Publish(q, m)
           \/ \E at \in Place : FetchMessage(at)
           \/ Commit \/ Shutdown \/ Restart \/ Crash \/ Rebalance
        /\ UNCHANGED <<card, issued, said>>
  /\ UNCHANGED edit

-----------------------------------------------------------------------------
(* Requests of the barber. *)

\* The rows of k; a search leaves some of them.
ListClients(k) == {c \in Client : card[c] # NoClient /\ BarberOf[c] = k}

GetByID(i) == {c \in Client : card[c] # NoClient /\ card[c].id = i}

\* A row of another barber is NotFound.
GetClient(i, k) == {c \in GetByID(i) : BarberOf[c] = k}

\* PUT /clients/{id}: gateway and server only check that there is an id and a name.
AskEdit(r, k, i, n) ==
  /\ edit[r] = Idle
  /\ i <= issued
  /\ edit' = [edit EXCEPT ![r] = [stage |-> "asked", barber |-> k, id |-> i, notes |-> n]]
  /\ UNCHANGED <<vars, card, issued, said>>

\* UpdateClient reads the row to see whether it is there and the barber's.
FindClient(r) ==
  /\ edit[r] # Idle /\ edit[r].stage = "asked"
  /\ edit' = [edit EXCEPT ![r] =
       IF GetClient(edit[r].id, edit[r].barber) # {}
         THEN [edit[r] EXCEPT !.stage = "found"]
         ELSE Idle]
  /\ UNCHANGED <<vars, card, issued, said>>

\* UPDATE clients SET name, notes WHERE id; a row that has gone is NotFound.  The
\* row is read once more for the answer.
WriteClient(r) ==
  /\ edit[r] # Idle /\ edit[r].stage = "found"
  /\ LET i == edit[r].id IN
       /\ card' = [c \in Client |-> IF c \in GetByID(i)
                     THEN [card[c] EXCEPT !.name = "edited", !.notes = edit[r].notes]
                     ELSE card[c]]
       /\ said' = [said EXCEPT ![i] = [name |-> "edited", notes |-> edit[r].notes]]
  /\ edit' = [edit EXCEPT ![r] = Idle]
  /\ UNCHANGED <<vars, issued>>

\* DELETE ... WHERE id AND barber_id; what finds no row is an error.  Bound: there
\* remain ids for the clients without a row.
RemoveClient(k, i) ==
  \E c \in GetClient(i, k) :
    /\ issued + Cardinality({d \in Client : card[d] = NoClient}) < MaxIds
    /\ DeleteClient(c)
    /\ card' = [card EXCEPT ![c] = NoClient]
    /\ UNCHANGED <<issued, edit, said>>

NextC ==
  \/ ConsumerStep
  \/ \E r \in Request, k \in Caller, i \in RowId, n \in Notes : AskEdit(r, k, i, n)
  \/ \E r \in Request : FindClient(r) \/ WriteClient(r)
  \/ \E k \in Caller, i \in RowId : RemoveClient(k, i)

SpecC == InitC /\ [][NextC]_allVars

\* The fairness of ClientConsumer: nothing here stands in the consumer's way.
FairSpecC == SpecC /\ Fairness

-----------------------------------------------------------------------------
\* repository.go:29-35, :62-74 and :149-163, service.go:41-58 and :101-118.  The card a
\* barber opens from his list is the one he picked, and shows the last name and notes
\* given to this very row: events lose no notes, and an edit that was checked before
\* the client was deleted does not reach the row a later event makes.
CardsAreTheirOwn ==
  \A k \in Barber : \A c \in ListClients(k) :
    /\ GetClient(card[c].id, k) = {c}
    /\ card[c].notes = said[card[c].id].notes
    /\ card[c].name = said[card[c].id].name

=============================================================================
