------------------------------ MODULE QueueStore ------------------------------
(***************************************************************************)
(* The server's durable queue: the jobs table of internal/queue/store.go.  *)
(* Every operator below is one SQL statement (or one transaction) of the   *)
(* store, atomic because the store keeps a single SQLite connection.       *)
(* Warnings and error texts travel with a row and decide nothing, so they  *)
(* are left out.                                                           *)
(*                                                                         *)
(* Time is abstracted to the three comparisons the statements make: a      *)
(* lease has lapsed (lease_until <= now), a finished row is older than its *)
(* retention cutoff (aged), and created_at, which only orders rows, is the *)
(* value of a slow clock, so that rows of one millisecond tie.             *)
(***************************************************************************)
EXTENDS Integers

CONSTANTS
  Ids,          \* job identifiers (primary keys)
  Payloads,     \* encoded requests
  Tokens,       \* lease tokens the store may draw
  Results,      \* the Things identifiers a completion reports
  None,         \* the empty value of every column
  MaxAttempts,  \* Config.MaxAttempts, five in both binaries
  MaxClock      \* bound: distinct created_at values

ASSUME StoreAssumption ==
  /\ MaxAttempts \in Nat \ {0}
  /\ MaxClock \in Nat
  /\ None \notin Ids \cup Payloads \cup Tokens \cup Results

VARIABLES
  jobs,         \* the table: one row per identifier, "absent" when there is none
  clock         \* the wall clock, as far as created_at tells rows apart

storeVars == <<jobs, clock>>

States == {"absent", "queued", "leased", "succeeded", "failed"}
Terminal == {"succeeded", "failed"}

\* The code only compares attempts with MaxAttempts, so one value above the
\* maximum stands for all of them.
AttemptCounts == 0 .. MaxAttempts + 1

Rows ==
  [state : States, payload : Payloads \cup {None}, token : Tokens \cup {None},
   lapsed : BOOLEAN, attempts : AttemptCounts, result : Results \cup {None},
   created : 0 .. MaxClock, aged : BOOLEAN]

NoRow ==
  [state |-> "absent", payload |-> None, token |-> None, lapsed |-> FALSE,
   attempts |-> 0, result |-> None, created |-> 0, aged |-> FALSE]

StoreTypeOK == jobs \in [Ids -> Rows] /\ clock \in 0 .. MaxClock

StoreInit == jobs = [id \in Ids |-> NoRow] /\ clock = 0

Present(id) == jobs[id].state # "absent"
Finished(id) == jobs[id].state \in Terminal

\* What a client can tell of a row's state.
StatusOf(row) == IF row.state \in {"queued", "leased"} THEN "pending" ELSE row.state

-----------------------------------------------------------------------------
(* Store.Enqueue's INSERT, for an identifier that is not in the table.     *)

QueuedRow(payload) ==
  [NoRow EXCEPT !.state = "queued", !.payload = payload, !.created = clock]

\* Mutant: INSERT OR REPLACE.
Upsert(id, payload) ==
  /\ jobs' = [jobs EXCEPT ![id] = QueuedRow(payload)]
  /\ UNCHANGED clock

Insert(id, payload) ==
  /\ ~Present(id)
  /\ jobs' = [jobs EXCEPT ![id] = QueuedRow(payload)]
  /\ UNCHANGED clock

-----------------------------------------------------------------------------
(* Store.ExpireLeases and Store.Lease                                      *)

FailedRow(row) ==
  [row EXCEPT !.state = "failed", !.token = None, !.lapsed = FALSE]

Exhausted(row) ==
  row.state = "leased" /\ row.lapsed /\ row.attempts >= MaxAttempts

ExpireLeases ==
  /\ jobs' = [id \in Ids |-> IF Exhausted(jobs[id]) THEN FailedRow(jobs[id])
                                                    ELSE jobs[id]]
  /\ UNCHANGED clock

\* Mutant: the state test forgotten; lease_until is zero in finished rows too.
LeasableByTime(row) == row.state # "absent" /\ (row.state = "leased" => row.lapsed)

Leasable(row) == row.state = "queued" \/ (row.state = "leased" /\ row.lapsed)

\* Oldest created_at first; the statement leaves ties to SQLite.
NextToLease(id) ==
  /\ Leasable(jobs[id])
  /\ \A other \in Ids :
       Leasable(jobs[other]) => jobs[id].created <= jobs[other].created

CountAttempt(n) == IF n > MaxAttempts THEN n ELSE n + 1

LeasedRow(row, token) ==
  [row EXCEPT !.state = "leased", !.token = token, !.lapsed = FALSE,
              !.attempts = CountAttempt(row.attempts)]

Lease(id, token) ==
  /\ NextToLease(id)
  /\ jobs' = [jobs EXCEPT ![id] = LeasedRow(jobs[id], token)]
  /\ UNCHANGED clock

-----------------------------------------------------------------------------
(* Store.Complete and Store.Fail: the guarded UPDATEs                      *)

\* Mutant: the UPDATE does not compare lease_token.
HoldsLeaseOfAnyone(id, token) == jobs[id].state = "leased"

\* Mutant: the UPDATE finds the row by its identifier alone.
HoldsLeaseOnceGranted(id, token) == Present(id)

\* A lease stays good after it lapses, until somebody else takes the row.
HoldsLease(id, token) ==
  jobs[id].state = "leased" /\ jobs[id].token = token

SucceededRow(row, result) ==
  [row EXCEPT !.state = "succeeded", !.result = result, !.token = None,
              !.lapsed = FALSE]

Complete(id, token, result) ==
  /\ HoldsLease(id, token)
  /\ jobs' = [jobs EXCEPT ![id] = SucceededRow(jobs[id], result)]
  /\ UNCHANGED clock

\* Mutant: any completion of a succeeded job passes for a repetition.
AlreadySucceeded(id, result) == jobs[id].state = "succeeded"

\* What Complete falls back on when its UPDATE touched no row.
AlreadyCompleted(id, result) ==
  jobs[id].state = "succeeded" /\ jobs[id].result = result

RequeuedRow(row) ==
  [row EXCEPT !.state = "queued", !.token = None, !.lapsed = FALSE]

Fail(id, token, retryable) ==
  /\ HoldsLease(id, token)
  /\ jobs' = [jobs EXCEPT ![id] = IF retryable THEN RequeuedRow(jobs[id])
                                               ELSE FailedRow(jobs[id])]
  /\ UNCHANGED clock

-----------------------------------------------------------------------------
(* Store.PruneTerminal, one transaction over both retention periods        *)

Prunable(row) == row.state \in Terminal /\ row.aged

PruneTerminal ==
  /\ jobs' = [id \in Ids |-> IF Prunable(jobs[id]) THEN NoRow ELSE jobs[id]]
  /\ UNCHANGED clock

-----------------------------------------------------------------------------
(* The passage of time                                                     *)

LeaseLapses(id) ==
  /\ jobs[id].state = "leased" /\ ~jobs[id].lapsed
  /\ jobs' = [jobs EXCEPT ![id].lapsed = TRUE]
  /\ UNCHANGED clock

RetentionPasses(id) ==
  /\ Finished(id) /\ ~jobs[id].aged
  /\ jobs' = [jobs EXCEPT ![id].aged = TRUE]
  /\ UNCHANGED clock

Tick == clock < MaxClock /\ clock' = clock + 1 /\ UNCHANGED jobs

=============================================================================
