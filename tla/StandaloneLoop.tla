---------------------------- MODULE StandaloneLoop ----------------------------
(***************************************************************************)
(* The all-in-one binary of cmd/things-index/main.go: the same tool        *)
(* handlers in front of the same queue, and in place of the worker API one *)
(* goroutine that leases from the store, processes the job and reports to  *)
(* the store directly.  It runs no retention sweep.                        *)
(***************************************************************************)
EXTENDS QueueServer

VARIABLE loop   \* the goroutine: where it is, the lease it holds, its outcome

LoopState(pc, id, token, result, retryable) ==
  [pc |-> pc, id |-> id, token |-> token, result |-> result, retryable |-> retryable]
IdleLoop == LoopState("expire", None, None, None, FALSE)
LoopStates ==
  [pc : {"expire", "lease", "process", "complete", "fail"}, id : Ids \cup {None},
   token : Tokens \cup {None}, result : Results \cup {None}, retryable : BOOLEAN]

loopVars == <<jobs, clock, callers, pollers, reporters, grants, acked, attached, loop>>

StandaloneInit == Init /\ loop = IdleLoop

StandaloneTypeOK == TypeOK /\ loop \in LoopStates

\* leaseNextJob: expire, then lease, with no wait in between.
LoopExpire ==
  /\ loop.pc = "expire"
  /\ ExpireLeases
  /\ loop' = [loop EXCEPT !.pc = "lease"]
  /\ UNCHANGED <<serverVars, grants, history>>

LoopLease ==
  /\ loop.pc = "lease"
  /\ \/ \E id \in Ids, t \in Tokens :
          /\ FreshToken(t)
          /\ Lease(id, t)
          /\ grants' = [grants EXCEPT ![t] = id]
          /\ loop' = LoopState("process", id, t, None, FALSE)
     \/ /\ \A id \in Ids : ~Leasable(jobs[id])
        /\ loop' = IdleLoop
        /\ UNCHANGED <<storeVars, grants>>
  /\ UNCHANGED <<serverVars, history>>

\* The processor comes back with a Things identifier or with an error.
LoopProcess ==
  /\ loop.pc = "process"
  /\ \/ \E result \in Results : loop' = [loop EXCEPT !.pc = "complete", !.result = result]
     \/ \E retryable \in BOOLEAN :
          loop' = [loop EXCEPT !.pc = "fail", !.retryable = retryable]
  /\ UNCHANGED <<storeVars, serverVars, grants, history>>

\* Store.Complete: its UPDATE, and the re-read when that touched no row.  No other
\* statement comes between the two that could change the answer: only this loop
\* writes finished rows.
LoopComplete ==
  /\ loop.pc = "complete"
  /\ \/ /\ Complete(loop.id, loop.token, loop.result)
        /\ Acknowledge(loop.id, loop.result)
     \/ /\ ~HoldsLease(loop.id, loop.token)
        /\ IF AlreadyCompleted(loop.id, loop.result)
             THEN Acknowledge(loop.id, loop.result)
             ELSE UNCHANGED acked
        /\ UNCHANGED storeVars
  /\ loop' = IdleLoop
  /\ UNCHANGED <<serverVars, grants, attached>>

\* Store.Fail, with the retryability the processor chose.
LoopFail ==
  /\ loop.pc = "fail"
  /\ \/ Fail(loop.id, loop.token, loop.retryable)
     \/ ~HoldsLease(loop.id, loop.token) /\ UNCHANGED storeVars
  /\ loop' = IdleLoop
  /\ UNCHANGED <<serverVars, grants, history>>

\* The process stops, at any point, and is started again.
StandaloneRestart ==
  /\ callers' = [c \in Callers |->
       IF Waiting(c)
         THEN [callers[c] EXCEPT !.pc = "done", !.reply = Answer("error", None)]
         ELSE callers[c]]
  /\ loop' = IdleLoop
  /\ UNCHANGED <<storeVars, pollers, reporters, grants, history>>

LoopStep == LoopExpire \/ LoopLease \/ LoopProcess \/ LoopComplete \/ LoopFail

StandaloneNext ==
  \/ CallerStep /\ UNCHANGED loop
  \/ LoopStep
  \/ StandaloneRestart
  \/ TimePasses /\ UNCHANGED loop

StandaloneSpec == StandaloneInit /\ [][StandaloneNext]_loopVars

\* What `const maxAttempts = 5` (cmd/things-index/main.go:190) says: a job that is
\* put back in the queue has deliveries left.
RetriesWithinMax ==
  \A id \in Ids : jobs[id].state = "queued" => jobs[id].attempts < MaxAttempts

=============================================================================
