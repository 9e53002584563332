------------------------------- MODULE Journal --------------------------------
(***************************************************************************)
(* The worker's durable journal of captures: the deliveries table of       *)
(* internal/journal/store.go.  Every operator is one SQL statement, atomic *)
(* across the processes that share the file.                               *)
(***************************************************************************)
CONSTANTS
  Ids,       \* job identifiers
  Payloads,  \* requests, as far as their hashes tell them apart
  Results,   \* Things identifiers
  None

VARIABLE deliveries   \* one entry per job, "none" when there is no row

DeliveryStates == {"none", "received", "creating", "created", "finalised", "reported"}

Entries ==
  [state : DeliveryStates, payload : Payloads \cup {None},
   task : Results \cup {None}, aged : BOOLEAN]

Entry(state, payload, task) ==
  [state |-> state, payload |-> payload, task |-> task, aged |-> FALSE]
NoEntry == Entry("none", None, None)

JournalTypeOK == deliveries \in [Ids -> Entries]
JournalInit == deliveries = [id \in Ids |-> NoEntry]

Recorded(id) == deliveries[id].state # "none"

\* Store.Ensure's INSERT ... ON CONFLICT DO NOTHING.
EnsureDelivery(id, payload) ==
  deliveries' = IF Recorded(id) THEN deliveries
                ELSE [deliveries EXCEPT ![id] = Entry("received", payload, None)]

\* Store.transition: an UPDATE guarded by the states it may leave.
In(id, from) == deliveries[id].state \in from

Advance(id, from, to) ==
  /\ In(id, from)
  /\ deliveries' = [deliveries EXCEPT ![id].state = to, ![id].aged = FALSE]

\* Mutant: an interrupted creation may be started over.
MarkCreatingAgain(id) == Advance(id, {"received", "creating"}, "creating")

MarkCreating(id) == Advance(id, {"received"}, "creating")

MarkCreated(id, task) ==
  /\ In(id, {"creating"})
  /\ deliveries' = [deliveries EXCEPT ![id] = Entry("created", @.payload, task)]

MarkFinalised(id) == Advance(id, {"created"}, "finalised")

MarkReported(id) == Advance(id, {"finalised", "reported"}, "reported")

\* Mutant: retention takes rows whose completion was never acknowledged.
FinalisedAndOld(entry) == entry.state \in {"finalised", "reported"} /\ entry.aged

\* What Store.PruneReported may delete.
ReportedAndOld(entry) == entry.state = "reported" /\ entry.aged

PruneReported ==
  deliveries' = [id \in Ids |-> IF ReportedAndOld(deliveries[id]) THEN NoEntry
                                                                  ELSE deliveries[id]]

\* updated_at falls behind the retention cutoff.
EntryAges(id) ==
  /\ Recorded(id) /\ ~deliveries[id].aged
  /\ deliveries' = [deliveries EXCEPT ![id].aged = TRUE]

=============================================================================
