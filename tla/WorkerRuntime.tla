---------------------------- MODULE WorkerRuntime -----------------------------
(***************************************************************************)
(* The worker's side of the queue, whatever the job is about: the loop of  *)
(* internal/workerapp with the HTTP client of internal/worker/client.go,   *)
(* the answers of the worker API in internal/server/handler.go, and what   *)
(* goes wrong between them.  What a worker does with a job it has leased   *)
(* is left to the modules that extend this one; the definitions here say   *)
(* nothing of their variables.                                             *)
(*                                                                         *)
(* Workers are processes (a second one may be started by hand beside the   *)
(* installed one) that may die between any two steps.  Reports to the      *)
(* server travel as messages: they may arrive after their sender gave up,  *)
(* or be lost.  The server's two-statement handlers are one step each      *)
(* here: QueueServer interleaves their statements.                         *)
(***************************************************************************)
EXTENDS QueueStore, FiniteSets

CONSTANTS
  Workers,
  MaxAsks,    \* bound: how often clients ask for a job
  MaxFaults   \* bound: crashes, lost reports, slow reports and failures whose look-up
              \* fails, between them

ASSUME DeliveryAssumption == MaxAsks \in Nat /\ MaxFaults \in Nat

VARIABLES
  workers,     \* each process: where it is and the lease it works on
  mail,        \* reports on their way to the server
  asks, faults

counters == <<asks, faults>>
runtimeVars == <<jobs, clock, workers, mail, asks, faults>>

Worker(pc, id, token, payload, task) ==
  [pc |-> pc, id |-> id, token |-> token, payload |-> payload, task |-> task]
IdleWorker == Worker("idle", None, None, None, None)

\* Where a worker is while the job is not being processed.
Between == {"idle", "polling", "reporting", "reported"}

WorkerStates(places) ==
  [pc : places \cup Between, id : Ids \cup {None}, token : Tokens \cup {None},
   payload : Payloads \cup {None}, task : Results \cup {None}]

Messages ==
  [worker : Workers, id : Ids, token : Tokens, task : Results \cup {None},
   retryable : BOOLEAN]

RuntimeTypeOK(places) ==
  /\ StoreTypeOK
  /\ workers \in [Workers -> WorkerStates(places)]
  /\ mail \in SUBSET Messages
  /\ asks \in 0 .. MaxAsks /\ faults \in 0 .. MaxFaults

RuntimeInit ==
  /\ StoreInit
  /\ workers = [w \in Workers |-> IdleWorker]
  /\ mail = {}
  /\ asks = 0 /\ faults = 0

At(w, pc) == workers[w].pc = pc
Step(w, pc) == workers' = [workers EXCEPT ![w].pc = pc]
Become(w, state) == workers' = [workers EXCEPT ![w] = state]

\* A report of worker w leaves: a completion names a task, a failure does not.
Report(w, task, retryable) ==
  /\ mail' = mail \cup
       {[worker |-> w, id |-> workers[w].id, token |-> workers[w].token,
         task |-> task, retryable |-> retryable]}
  /\ workers' = [workers EXCEPT ![w].pc = "reporting", ![w].task = task]

ReportOutcome(w, task) == Report(w, task, FALSE)
ReportFailure(w, retryable) == Report(w, None, retryable)

Fault == faults < MaxFaults /\ faults' = faults + 1 /\ UNCHANGED asks

-----------------------------------------------------------------------------
(* The server                                                              *)

\* A client enqueues a job; asking for a row that is there changes nothing.
Enqueue(id, payload) ==
  /\ asks < MaxAsks
  /\ Insert(id, payload)
  /\ asks' = asks + 1
  /\ UNCHANGED <<workers, mail, faults>>

Poll(w) ==
  /\ At(w, "idle")
  /\ ExpireLeases
  /\ Step(w, "polling")
  /\ UNCHANGED <<mail, counters>>

\* The store draws tokens at random: never one that is still about.
Unused(t) ==
  /\ \A id \in Ids : jobs[id].token # t
  /\ \A w \in Workers : workers[w].token # t
  /\ \A m \in mail : m.token # t

Grant(w, id, t) ==
  /\ At(w, "polling")
  /\ Unused(t)
  /\ Lease(id, t)
  /\ Become(w, Worker("ensure", id, t, jobs[id].payload, None))
  /\ UNCHANGED <<mail, counters>>

\* The long poll ends with nothing to lease.
EndPoll(w) ==
  /\ At(w, "polling")
  /\ \A id \in Ids : ~Leasable(jobs[id])
  /\ Step(w, "idle")
  /\ UNCHANGED <<storeVars, mail, counters>>

\* Mutant: the client does not look at the status of the answer.
AnsweredAnyhow(m, pc) ==
  workers' = IF At(m.worker, "reporting") /\ workers[m.worker].token = m.token
               THEN [workers EXCEPT ![m.worker] =
                       IF m.task = None THEN IdleWorker ELSE [@ EXCEPT !.pc = "reported"]]
               ELSE workers

\* The answer to m, for a sender that still waits.
Answered(m, pc) ==
  workers' = IF At(m.worker, "reporting") /\ workers[m.worker].token = m.token
               THEN [workers EXCEPT ![m.worker] =
                       IF pc = "idle" THEN IdleWorker ELSE [@ EXCEPT !.pc = pc]]
               ELSE workers

ServeComplete(m) ==
  /\ m.task # None
  /\ \/ Complete(m.id, m.token, m.task) /\ Answered(m, "reported")
     \/ /\ ~HoldsLease(m.id, m.token)
        /\ Answered(m, IF AlreadyCompleted(m.id, m.task) THEN "reported" ELSE "idle")
        /\ UNCHANGED storeVars
  /\ mail' = mail \ {m}
  /\ UNCHANGED counters

\* Mutant: the fail handler forgets the attempt limit.
MayRetryForever(m) == m.retryable

MayRetry(m) == m.retryable /\ (Present(m.id) => jobs[m.id].attempts < MaxAttempts)

\* When the look-up fails (a fault) nothing limits the retry.
ServeFail(m) ==
  /\ m.task = None
  /\ \/ Fail(m.id, m.token, MayRetry(m)) /\ UNCHANGED counters
     \/ Fail(m.id, m.token, m.retryable) /\ Fault
     \/ ~HoldsLease(m.id, m.token) /\ UNCHANGED <<storeVars, counters>>
  /\ Answered(m, "idle")
  /\ mail' = mail \ {m}

-----------------------------------------------------------------------------
(* The worker                                                              *)

\* Mutant: a report that was sent is taken for one that was acknowledged.
GiveUpContent(w) ==
  /\ At(w, "reporting")
  /\ IF workers[w].task # None THEN Step(w, "reported") ELSE Become(w, IdleWorker)
  /\ UNCHANGED <<storeVars, mail, counters>>

\* The report is not answered in time: it was lost, or it is slow (a fault) and
\* still arrives.
GiveUp(w) ==
  /\ At(w, "reporting")
  /\ \/ (\A m \in mail : m.token # workers[w].token) /\ UNCHANGED counters
     \/ (\E m \in mail : m.token = workers[w].token) /\ Fault
  /\ Become(w, IdleWorker)
  /\ UNCHANGED <<storeVars, mail>>

Crash(w) ==
  /\ Fault
  /\ ~At(w, "idle")
  /\ Become(w, IdleWorker)
  /\ UNCHANGED <<storeVars, mail>>

LoseReport(m) ==
  /\ Fault
  /\ mail' = mail \ {m}
  /\ UNCHANGED <<storeVars, workers>>

-----------------------------------------------------------------------------
(* Steps of each actor that do not concern the job itself                  *)

WorkerLoop(w) ==
  \/ Poll(w)
  \/ \E id \in Ids, t \in Tokens : Grant(w, id, t)
  \/ EndPoll(w)
  \/ GiveUp(w)

Serve == \E m \in mail : ServeComplete(m) \/ ServeFail(m)

Failure == (\E w \in Workers : Crash(w)) \/ (\E m \in mail : LoseReport(m))

Lapse == (\E id \in Ids : LeaseLapses(id)) /\ UNCHANGED <<workers, mail, counters>>

=============================================================================
