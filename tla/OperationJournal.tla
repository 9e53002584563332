--------------------------- MODULE OperationJournal ---------------------------
(***************************************************************************)
(* The other half of the worker's journal: the operations table of         *)
(* internal/journal/operations.go, for every write that is not a capture,  *)
(* beside the deliveries table of module Journal.  Two triggers keep an    *)
(* identifier out of one table while the other has it.  Every operator is  *)
(* one SQL statement, atomic across the processes that share the file.     *)
(*                                                                         *)
(* Of a saved plan only the item it is about matters here, of a saved      *)
(* result the identifier and whether its warning says that requested       *)
(* fields differ and were not applied.                                     *)
(***************************************************************************)
CONSTANTS Ids, Payloads, Results, None

VARIABLES
  deliveries,
  operations   \* one row per job, "none" when there is none

INSTANCE Journal

OperationStates == {"none", "received", "prepared", "dispatched", "applied", "reported"}

Settled == {"applied", "reported"}
Planned == {"prepared", "dispatched"} \cup Settled

\* A row has its payload from the start, a plan (if its kind has one) once prepared, its
\* result once applied.
Operations ==
  {row \in [state : OperationStates, payload : Payloads \cup {None},
            plan : Results \cup {None}, result : Results \cup {None}, differs : BOOLEAN,
            aged : BOOLEAN] :
     /\ row.state = "none" <=> row.payload = None
     /\ row.plan # None => row.state \in Planned
     /\ row.state \in Settled <=> row.result # None
     /\ row.differs => row.state \in Settled}

NoOperation ==
  [state |-> "none", payload |-> None, plan |-> None, result |-> None, differs |-> FALSE,
   aged |-> FALSE]

OperationsTypeOK == JournalTypeOK /\ operations \in [Ids -> Operations]
OperationsInit == JournalInit /\ operations = [id \in Ids |-> NoOperation]

HasOperation(id) == operations[id].state # "none"

\* Mutant: the deliveries_unique_job trigger is missing.
OverlooksOperation(id) == FALSE

\* The trigger on deliveries: RAISE(ABORT, 'journal job kind conflict').
KeptFromDeliveries(id) == HasOperation(id)

\* The trigger on operations.
KeptFromOperations(id) == Recorded(id)

Received(payload) == [NoOperation EXCEPT !.state = "received", !.payload = payload]

\* EnsureOperation's INSERT ... ON CONFLICT DO NOTHING.
EnsureOperation(id, payload) ==
  /\ ~KeptFromOperations(id)
  /\ operations' = IF HasOperation(id) THEN operations
                   ELSE [operations EXCEPT ![id] = Received(payload)]

\* operationTransition: an UPDATE guarded by the one state it may leave.
OperationIn(id, from) == operations[id].state = from

Move(id, from, row) ==
  /\ OperationIn(id, from)
  /\ operations' = [operations EXCEPT ![id] = [row EXCEPT !.aged = FALSE]]

\* Mutant: a plan may be saved over an earlier one.
PrepareOperationAgain(id, plan) ==
  /\ operations[id].state \in {"received", "prepared", "dispatched"}
  /\ operations' = [operations EXCEPT ![id].state = "prepared", ![id].plan = plan]

\* Mutant: the UPDATE changes the state and leaves the plan column.
PrepareOperationPlanless(id, plan) ==
  Move(id, "received", [operations[id] EXCEPT !.state = "prepared"])

PrepareOperation(id, plan) ==
  Move(id, "received", [operations[id] EXCEPT !.state = "prepared", !.plan = plan])

\* Mutant: the UPDATE does not name the state it leaves.
MarkDispatchedAnyhow(id) ==
  /\ HasOperation(id)
  /\ operations' = [operations EXCEPT ![id].state = "dispatched"]

MarkOperationDispatched(id) ==
  Move(id, "prepared", [operations[id] EXCEPT !.state = "dispatched"])

\* Mutant: the warnings are not saved with the result.
CompleteSilently(id, result, differs) ==
  Move(id, "dispatched", [operations[id] EXCEPT !.state = "applied", !.result = result])

CompleteOperation(id, result, differs) ==
  Move(id, "dispatched",
       [operations[id] EXCEPT !.state = "applied", !.result = result, !.differs = differs])

MarkOperationReported(id) ==
  \/ OperationIn(id, "reported") /\ UNCHANGED operations
  \/ Move(id, "applied", [operations[id] EXCEPT !.state = "reported"])

\* Mutant: retention takes rows that are applied and not yet acknowledged.
SettledAndOld(id) == operations[id].state \in Settled /\ operations[id].aged

\* The second statement of Store.PruneReported.
AcknowledgedAndOld(id) == OperationIn(id, "reported") /\ operations[id].aged

PruneOperations ==
  operations' = [id \in Ids |-> IF AcknowledgedAndOld(id) THEN NoOperation
                                                          ELSE operations[id]]

\* updated_at falls behind the retention cutoff.
OperationAges(id) ==
  /\ HasOperation(id) /\ ~operations[id].aged
  /\ operations' = [operations EXCEPT ![id].aged = TRUE]

=============================================================================
