--------------------------- MODULE BookingProgress ---------------------------
(***************************************************************************)
(* Every booking request ends.  A transaction waits for row locks, and two *)
(* of them may wait for each other: a reschedule holds its own booking     *)
(* while it scans a day, and a create may hold a row of the pending check. *)
(* PostgreSQL breaks such a cycle by failing one of the statements, which  *)
(* repo.go returns as an error through the deferred Rollback.              *)
(***************************************************************************)
EXTENDS BookingRepo, Relation

\* p needs the lock of a row that q holds.
WaitsFor ==
  [e \in Handler \X Handler |->
     LET p == e[1]
         q == e[2]
     IN  /\ p # q /\ tx[p] # NoTx /\ tx[q] # NoTx
         /\ \E b \in tx[p].todo \union
                     (IF tx[p].stage = "target" THEN {tx[p].target} ELSE {}) :
              owner[b] = q]

Deadlocked(p) == TransitiveClosure(WaitsFor, Handler)[p, p]

\* PostgreSQL's deadlock detector picks p as the victim.
DeadlockVictim(p) == Deadlocked(p) /\ Abort(p)

\* The handler goroutine and the server keep running, and row locks are granted
\* in the order they are asked for: a step that keeps becoming possible is taken.
Fairness == \A p \in Handler : SF_vars(TxStep(p)) /\ WF_vars(DeadlockVictim(p))

FairSpec == Spec /\ Fairness

\* The deferred tx.Rollback (repo.go:35, :118) leaves no path on which a request
\* gives up with its locks held: every transaction that began also ends.
EveryTxEnds == \A p \in Handler : tx[p] # NoTx ~> tx[p] = NoTx

=============================================================================
