--------------------------- MODULE QueueStoreProofs ---------------------------
(***************************************************************************)
(* What the statements of the queue's store do to a row, for every number  *)
(* of jobs and every MaxAttempts: the lemmas that the theorems about the   *)
(* modules above the store rest on.                                        *)
(***************************************************************************)
EXTENDS QueueStore, TLAPS

\* Every row the store writes is a row.
LEMMA RowTypes ==
  ASSUME NEW row \in Rows, clock \in 0 .. MaxClock
  PROVE  /\ NoRow \in Rows
         /\ \A p \in Payloads : QueuedRow(p) \in Rows
         /\ FailedRow(row) \in Rows
         /\ RequeuedRow(row) \in Rows
         /\ \A t \in Tokens : LeasedRow(row, t) \in Rows
         /\ \A result \in Results : SucceededRow(row, result) \in Rows
         /\ [row EXCEPT !.lapsed = TRUE] \in Rows
         /\ [row EXCEPT !.aged = TRUE] \in Rows
<1>1. MaxAttempts \in Nat /\ MaxClock \in Nat
  BY StoreAssumption
<1>2. NoRow \in Rows /\ \A p \in Payloads : QueuedRow(p) \in Rows
  <2>1. NoRow \in Rows
    BY <1>1 DEF NoRow, Rows, States, AttemptCounts
  <2>2. ASSUME NEW p \in Payloads PROVE QueuedRow(p) \in Rows
    BY <2>1 DEF QueuedRow, Rows, States
  <2> QED BY <2>1, <2>2
<1>3. FailedRow(row) \in Rows /\ RequeuedRow(row) \in Rows
  BY DEF FailedRow, RequeuedRow, Rows, States
<1>4. \A t \in Tokens : LeasedRow(row, t) \in Rows
  <2>1. CountAttempt(row.attempts) \in AttemptCounts
    BY <1>1 DEF CountAttempt, Rows, AttemptCounts
  <2> QED BY <2>1 DEF LeasedRow, Rows, States
<1>5. \A result \in Results : SucceededRow(row, result) \in Rows
  BY DEF SucceededRow, Rows, States
<1>6. [row EXCEPT !.lapsed = TRUE] \in Rows /\ [row EXCEPT !.aged = TRUE] \in Rows
  BY DEF Rows
<1> QED BY <1>2, <1>3, <1>4, <1>5, <1>6

\* The columns that matter below, of every row the store writes.
LEMMA RowFields ==
  ASSUME NEW row \in Rows
  PROVE  /\ NoRow.state = "absent" /\ NoRow.result = None
         /\ \A p \in Payloads :
              /\ QueuedRow(p).state = "queued" /\ QueuedRow(p).payload = p
              /\ QueuedRow(p).attempts = 0 /\ QueuedRow(p).result = None
         /\ \A t \in Tokens :
              /\ LeasedRow(row, t).state = "leased" /\ LeasedRow(row, t).token = t
              /\ LeasedRow(row, t).payload = row.payload
              /\ LeasedRow(row, t).result = row.result
         /\ FailedRow(row).state = "failed" /\ FailedRow(row).payload = row.payload
         /\ FailedRow(row).result = row.result
         /\ RequeuedRow(row).state = "queued" /\ RequeuedRow(row).payload = row.payload
         /\ RequeuedRow(row).attempts = row.attempts /\ RequeuedRow(row).result = row.result
         /\ \A result \in Results :
              /\ SucceededRow(row, result).state = "succeeded"
              /\ SucceededRow(row, result).result = result
              /\ SucceededRow(row, result).payload = row.payload
         /\ \A new \in {[row EXCEPT !.lapsed = TRUE], [row EXCEPT !.aged = TRUE]} :
              /\ new.state = row.state /\ new.token = row.token
              /\ new.attempts = row.attempts /\ new.payload = row.payload
              /\ new.result = row.result
BY DEF NoRow, QueuedRow, LeasedRow, FailedRow, RequeuedRow, SucceededRow, Rows

\* Every statement of the store keeps the table well-typed.
LEMMA StoreTypes ==
  ASSUME StoreTypeOK,
         \/ \E id \in Ids, p \in Payloads : Insert(id, p)
         \/ ExpireLeases
         \/ \E id \in Ids, t \in Tokens : Lease(id, t)
         \/ \E id \in Ids, t \in Tokens, result \in Results : Complete(id, t, result)
         \/ \E id \in Ids, t \in Tokens, retryable \in BOOLEAN : Fail(id, t, retryable)
         \/ PruneTerminal
         \/ \E id \in Ids : LeaseLapses(id) \/ RetentionPasses(id)
         \/ Tick
         \/ UNCHANGED storeVars
  PROVE  StoreTypeOK'
<1> USE DEF StoreTypeOK
<1>1. \A id \in Ids : jobs[id] \in Rows
  OBVIOUS
<1>2. CASE \E id \in Ids, p \in Payloads : Insert(id, p)
  BY <1>2, RowTypes DEF Insert
<1>3. CASE ExpireLeases
  BY <1>1, <1>3, RowTypes DEF ExpireLeases
<1>4. CASE \E id \in Ids, t \in Tokens : Lease(id, t)
  BY <1>4, RowTypes DEF Lease
<1>5. CASE \E id \in Ids, t \in Tokens, result \in Results : Complete(id, t, result)
  BY <1>5, RowTypes DEF Complete
<1>6. CASE \E id \in Ids, t \in Tokens, retryable \in BOOLEAN : Fail(id, t, retryable)
  BY <1>6, RowTypes DEF Fail
<1>7. CASE PruneTerminal
  BY <1>1, <1>7, RowTypes DEF PruneTerminal
<1>8. CASE \E id \in Ids : LeaseLapses(id) \/ RetentionPasses(id)
  <2>1. PICK id \in Ids : LeaseLapses(id) \/ RetentionPasses(id)
    BY <1>8
  <2>2. /\ [jobs[id] EXCEPT !.lapsed = TRUE] \in Rows
        /\ [jobs[id] EXCEPT !.aged = TRUE] \in Rows
    BY <1>1, RowTypes
  <2> QED BY <2>1, <2>2 DEF LeaseLapses, RetentionPasses
<1>9. CASE Tick
  <2>1. MaxClock \in Nat
    BY StoreAssumption
  <2>2. clock + 1 \in 0 .. MaxClock
    BY <1>9, <2>1 DEF Tick
  <2> QED BY <1>9, <2>2 DEF Tick
<1>10. CASE UNCHANGED storeVars
  BY <1>10 DEF storeVars
<1> QED BY <1>2, <1>3, <1>4, <1>5, <1>6, <1>7, <1>8, <1>9, <1>10

-----------------------------------------------------------------------------
(* What a client can tell of the statements                                *)

TheStatus == [id \in Ids |-> StatusOf(jobs[id])]
ThePayload == [id \in Ids |-> jobs[id].payload]
TheResult == [id \in Ids |-> jobs[id].result]

NothingSeen == UNCHANGED <<TheStatus, ThePayload, TheResult>>

JobSubmitted(id, p) ==
  /\ TheStatus[id] = "absent"
  /\ TheStatus' = [TheStatus EXCEPT ![id] = "pending"]
  /\ ThePayload' = [ThePayload EXCEPT ![id] = p]
  /\ TheResult' = [TheResult EXCEPT ![id] = None]

JobSucceeds(id, result) ==
  /\ TheStatus[id] = "pending"
  /\ TheStatus' = [TheStatus EXCEPT ![id] = "succeeded"]
  /\ TheResult' = [TheResult EXCEPT ![id] = result]
  /\ UNCHANGED ThePayload

JobsFail(failing) ==
  /\ \A id \in failing : TheStatus[id] = "pending"
  /\ TheStatus' = [id \in Ids |-> IF id \in failing THEN "failed" ELSE TheStatus[id]]
  /\ UNCHANGED <<ThePayload, TheResult>>

JobsForgotten(gone) ==
  /\ \A id \in gone : TheStatus[id] \in {"succeeded", "failed"}
  /\ TheStatus' = [id \in Ids |-> IF id \in gone THEN "absent" ELSE TheStatus[id]]
  /\ ThePayload' = [id \in Ids |-> IF id \in gone THEN None ELSE ThePayload[id]]
  /\ TheResult' = [id \in Ids |-> IF id \in gone THEN None ELSE TheResult[id]]

LEMMA RowsUnseen ==
  ASSUME \A id \in Ids : /\ StatusOf(jobs'[id]) = StatusOf(jobs[id])
                         /\ jobs'[id].payload = jobs[id].payload
                         /\ jobs'[id].result = jobs[id].result
  PROVE  NothingSeen
BY DEF NothingSeen, TheStatus, ThePayload, TheResult

\* A statement that rewrites one row within its status.
LEMMA RowUnseen ==
  ASSUME StoreTypeOK, NEW id \in Ids, NEW new, jobs' = [jobs EXCEPT ![id] = new],
         StatusOf(new) = StatusOf(jobs[id]), new.payload = jobs[id].payload,
         new.result = jobs[id].result
  PROVE  NothingSeen
BY RowsUnseen DEF StoreTypeOK

LEMMA FailuresSeen ==
  ASSUME StoreTypeOK, NEW failing \in SUBSET Ids,
         \A id \in failing : jobs[id].state = "leased",
         jobs' = [id \in Ids |-> IF id \in failing THEN FailedRow(jobs[id]) ELSE jobs[id]]
  PROVE  JobsFail(failing)
<1>1. ASSUME NEW id \in Ids
      PROVE  /\ jobs'[id].payload = jobs[id].payload /\ jobs'[id].result = jobs[id].result
             /\ jobs'[id].state = IF id \in failing THEN "failed" ELSE jobs[id].state
  BY RowFields DEF StoreTypeOK
<1> QED BY <1>1 DEF JobsFail, TheStatus, ThePayload, TheResult, StatusOf

LEMMA ExpirySeen ==
  ASSUME StoreTypeOK, ExpireLeases
  PROVE  \E failing \in SUBSET Ids : JobsFail(failing)
<1> DEFINE failing == {id \in Ids : Exhausted(jobs[id])}
<1>1. jobs' = [id \in Ids |-> IF id \in failing THEN FailedRow(jobs[id]) ELSE jobs[id]]
  BY DEF ExpireLeases
<1>2. failing \in SUBSET Ids /\ \A id \in failing : jobs[id].state = "leased"
  BY DEF Exhausted
<1> HIDE DEF failing
<1> QED BY <1>1, <1>2, FailuresSeen

LEMMA LeaseSeen ==
  ASSUME StoreTypeOK, NEW id \in Ids, NEW t \in Tokens, Lease(id, t)
  PROVE  NothingSeen
<1>1. jobs[id].state \in {"queued", "leased"}
  BY DEF Lease, NextToLease, Leasable
<1>2. /\ LeasedRow(jobs[id], t).state = "leased"
      /\ LeasedRow(jobs[id], t).payload = jobs[id].payload
      /\ LeasedRow(jobs[id], t).result = jobs[id].result
  BY RowFields DEF StoreTypeOK
<1> QED BY <1>1, <1>2, RowUnseen DEF Lease, StatusOf

LEMMA CompletionSeen ==
  ASSUME StoreTypeOK, NEW id \in Ids, NEW t, NEW result \in Results, Complete(id, t, result)
  PROVE  JobSucceeds(id, result)
<1>1. /\ jobs' = [jobs EXCEPT ![id] = SucceededRow(jobs[id], result)]
      /\ jobs[id].state = "leased"
  BY DEF Complete, HoldsLease
<1>2. /\ SucceededRow(jobs[id], result).state = "succeeded"
      /\ SucceededRow(jobs[id], result).payload = jobs[id].payload
      /\ SucceededRow(jobs[id], result).result = result
  BY RowFields DEF StoreTypeOK
<1> QED BY <1>1, <1>2 DEF JobSucceeds, TheStatus, ThePayload, TheResult, StatusOf, StoreTypeOK

LEMMA FailureSeen ==
  ASSUME StoreTypeOK, NEW id \in Ids, NEW t, NEW retryable, Fail(id, t, retryable)
  PROVE  NothingSeen \/ \E failing \in SUBSET Ids : JobsFail(failing)
<1>1. jobs[id].state = "leased"
  BY DEF Fail, HoldsLease
<1>2. CASE jobs' = [jobs EXCEPT ![id] = RequeuedRow(jobs[id])]
  <2>1. /\ RequeuedRow(jobs[id]).state = "queued"
        /\ RequeuedRow(jobs[id]).payload = jobs[id].payload
        /\ RequeuedRow(jobs[id]).result = jobs[id].result
    BY RowFields DEF StoreTypeOK
  <2> QED BY <1>1, <1>2, <2>1, RowUnseen DEF StatusOf
<1>3. CASE jobs' = [jobs EXCEPT ![id] = FailedRow(jobs[id])]
  <2>1. jobs' = [j \in Ids |-> IF j \in {id} THEN FailedRow(jobs[j]) ELSE jobs[j]]
    BY <1>3 DEF StoreTypeOK
  <2>2. {id} \in SUBSET Ids /\ \A j \in {id} : jobs[j].state = "leased"
    BY <1>1
  <2> QED BY <2>1, <2>2, FailuresSeen
<1> QED BY <1>2, <1>3 DEF Fail

LEMMA InsertSeen ==
  ASSUME StoreTypeOK, NEW id \in Ids, NEW p \in Payloads, Insert(id, p)
  PROVE  JobSubmitted(id, p)
<1>1. jobs' = [jobs EXCEPT ![id] = QueuedRow(p)] /\ jobs[id].state = "absent"
  BY DEF Insert, Present
<1>2. /\ QueuedRow(p).state = "queued" /\ QueuedRow(p).payload = p
      /\ QueuedRow(p).result = None
  BY RowFields DEF StoreTypeOK
<1> QED BY <1>1, <1>2 DEF JobSubmitted, TheStatus, ThePayload, TheResult, StatusOf, StoreTypeOK

LEMMA PruneSeen ==
  ASSUME StoreTypeOK, PruneTerminal
  PROVE  \E gone \in SUBSET Ids : JobsForgotten(gone)
<1> DEFINE gone == {id \in Ids : Prunable(jobs[id])}
<1>1. /\ jobs' = [id \in Ids |-> IF id \in gone THEN NoRow ELSE jobs[id]]
      /\ gone \in SUBSET Ids /\ \A id \in gone : jobs[id].state \in {"succeeded", "failed"}
  BY DEF PruneTerminal, Prunable, Terminal
<1>2. NoRow.state = "absent" /\ NoRow.payload = None /\ NoRow.result = None
  BY DEF NoRow
<1> HIDE DEF gone
<1>3. JobsForgotten(gone)
  BY <1>1, <1>2 DEF JobsForgotten, TheStatus, ThePayload, TheResult, StatusOf
<1> QED BY <1>1, <1>3

LEMMA AgeingUnseen ==
  ASSUME StoreTypeOK, NEW id \in Ids, LeaseLapses(id) \/ RetentionPasses(id)
  PROVE  NothingSeen
<1>1. PICK new \in {[jobs[id] EXCEPT !.lapsed = TRUE], [jobs[id] EXCEPT !.aged = TRUE]} :
        jobs' = [jobs EXCEPT ![id] = new]
  BY DEF LeaseLapses, RetentionPasses
<1>2. jobs[id] \in Rows
  BY DEF StoreTypeOK
<1>3. /\ new.state = jobs[id].state /\ new.payload = jobs[id].payload
      /\ new.result = jobs[id].result
  BY <1>2, RowFields
<1> QED BY <1>1, <1>3, RowUnseen DEF StatusOf

=============================================================================
