------------------------- MODULE WorkerRuntimeProofs --------------------------
(***************************************************************************)
(* What the worker's loop, the server's answers and the faults between     *)
(* them keep, whatever is done with a job in between: lemmas for every     *)
(* number of workers, jobs and messages.                                   *)
(***************************************************************************)
EXTENDS WorkerRuntime, QueueStoreProofs, TLAPS

\* A worker past its poll holds a lease, and a row that is there holds a request.
LeaseShape ==
  \A w \in Workers : workers[w].pc \notin {"idle", "polling"} =>
    workers[w].id \in Ids /\ workers[w].token \in Tokens /\ workers[w].payload \in Payloads

RowShape == \A id \in Ids : Present(id) => jobs[id].payload \in Payloads

RuntimeInv(places) == RuntimeTypeOK(places) /\ LeaseShape /\ RowShape

\* The places a worker that is not processing a job may come from or go to.
RuntimeStep ==
  \/ \E id \in Ids, p \in Payloads : Enqueue(id, p)
  \/ \E w \in Workers : WorkerLoop(w)
  \/ Serve
  \/ Failure
  \/ Lapse

LEMMA InitRuntimeInv ==
  ASSUME NEW CONSTANT places, RuntimeInit
  PROVE  RuntimeInv(places)
BY StoreAssumption, DeliveryAssumption
   DEF RuntimeInit, RuntimeInv, RuntimeTypeOK, StoreInit, StoreTypeOK, Rows, NoRow, States,
       AttemptCounts, IdleWorker, Worker, WorkerStates, Between, LeaseShape, RowShape, Present

\* A worker's new state is well-typed when its parts are.
LEMMA BecomeTypes ==
  ASSUME NEW CONSTANT places, RuntimeTypeOK(places), LeaseShape,
         NEW w \in Workers, NEW state \in WorkerStates(places),
         state.pc \notin {"idle", "polling"} =>
           state.id \in Ids /\ state.token \in Tokens /\ state.payload \in Payloads,
         Become(w, state)
  PROVE  workers' \in [Workers -> WorkerStates(places)] /\ LeaseShape'
BY DEF RuntimeTypeOK, Become, LeaseShape

\* The rows keep their requests.
\* What the fail handler does to the table, whether or not its look-up was answered.
LEMMA ServedFailure ==
  ASSUME NEW m, m.retryable \in BOOLEAN, ServeFail(m)
  PROVE  \/ \E retryable \in BOOLEAN : Fail(m.id, m.token, retryable)
         \/ UNCHANGED storeVars
BY DEF ServeFail, MayRetry

LEMMA RowShapeKept ==
  ASSUME StoreTypeOK, RowShape,
         \/ \E id \in Ids, p \in Payloads : Insert(id, p)
         \/ ExpireLeases
         \/ \E id \in Ids, t \in Tokens : Lease(id, t)
         \/ \E id \in Ids, t \in Tokens, result \in Results : Complete(id, t, result)
         \/ \E id \in Ids, t \in Tokens, retryable \in BOOLEAN : Fail(id, t, retryable)
         \/ PruneTerminal
         \/ \E id \in Ids : LeaseLapses(id) \/ RetentionPasses(id)
         \/ UNCHANGED storeVars
  PROVE  RowShape'
<1>1. \A id \in Ids : jobs[id] \in Rows
  BY DEF StoreTypeOK
<1>2. CASE \E id \in Ids, p \in Payloads : Insert(id, p)
  BY <1>1, <1>2, RowFields DEF Insert, RowShape, Present, StoreTypeOK
<1>3. CASE ExpireLeases
  BY <1>1, <1>3, RowFields DEF ExpireLeases, RowShape, Present, StoreTypeOK, Exhausted
<1>4. CASE \E id \in Ids, t \in Tokens : Lease(id, t)
  <2>1. PICK id \in Ids, t \in Tokens : Lease(id, t)
    BY <1>4
  <2>2. Present(id)
    BY <2>1 DEF Lease, NextToLease, Leasable, Present
  <2>3. LeasedRow(jobs[id], t).payload = jobs[id].payload
    BY <1>1, RowFields
  <2> QED BY <2>1, <2>2, <2>3 DEF Lease, RowShape, Present, StoreTypeOK
<1>5. CASE \E id \in Ids, t \in Tokens, result \in Results : Complete(id, t, result)
  <2>1. PICK id \in Ids, t \in Tokens, result \in Results : Complete(id, t, result)
    BY <1>5
  <2>2. SucceededRow(jobs[id], result).payload = jobs[id].payload /\ Present(id)
    BY <1>1, <2>1, RowFields DEF Complete, HoldsLease, Present
  <2> QED BY <2>1, <2>2 DEF Complete, RowShape, Present, StoreTypeOK
<1>6. CASE \E id \in Ids, t \in Tokens, retryable \in BOOLEAN : Fail(id, t, retryable)
  <2>1. PICK id \in Ids, t \in Tokens, retryable \in BOOLEAN : Fail(id, t, retryable)
    BY <1>6
  <2>2. /\ RequeuedRow(jobs[id]).payload = jobs[id].payload
        /\ FailedRow(jobs[id]).payload = jobs[id].payload
        /\ Present(id)
    BY <1>1, <2>1, RowFields DEF Fail, HoldsLease, Present
  <2> QED BY <2>1, <2>2 DEF Fail, RowShape, Present, StoreTypeOK
<1>7. CASE PruneTerminal
  BY <1>1, <1>7, RowFields DEF PruneTerminal, RowShape, Present, StoreTypeOK
<1>8. CASE \E id \in Ids : LeaseLapses(id) \/ RetentionPasses(id)
  <2>1. PICK id \in Ids : LeaseLapses(id) \/ RetentionPasses(id)
    BY <1>8
  <2>2. \A new \in {[jobs[id] EXCEPT !.lapsed = TRUE], [jobs[id] EXCEPT !.aged = TRUE]} :
          new.payload = jobs[id].payload /\ new.state = jobs[id].state
    BY <1>1, RowFields
  <2> QED BY <2>1, <2>2 DEF LeaseLapses, RetentionPasses, RowShape, Present, StoreTypeOK
<1>9. CASE UNCHANGED storeVars
  BY <1>9 DEF storeVars, RowShape, Present
<1> QED BY <1>2, <1>3, <1>4, <1>5, <1>6, <1>7, <1>8, <1>9

\* A report that leaves a worker with a lease.
LEMMA ReportTypes ==
  ASSUME NEW CONSTANT places, RuntimeInv(places),
         NEW w \in Workers, workers[w].pc \notin {"idle", "polling"},
         NEW task \in Results \cup {None}, NEW retryable \in BOOLEAN,
         Report(w, task, retryable), UNCHANGED <<storeVars, counters>>
  PROVE  RuntimeInv(places)'
<1> DEFINE state == [workers[w] EXCEPT !.pc = "reporting", !.task = task]
           message == [worker |-> w, id |-> workers[w].id, token |-> workers[w].token,
                       task |-> task, retryable |-> retryable]
<1>1. workers[w] \in WorkerStates(places) /\ workers \in [Workers -> WorkerStates(places)]
  BY DEF RuntimeInv, RuntimeTypeOK
<1>2. /\ state \in WorkerStates(places)
      /\ state.id \in Ids /\ state.token \in Tokens /\ state.payload \in Payloads
  BY <1>1 DEF WorkerStates, Between, RuntimeInv, LeaseShape
<1>3. Become(w, state)
  BY <1>1 DEF Report, Become, WorkerStates
<1>4. workers' \in [Workers -> WorkerStates(places)] /\ LeaseShape'
  BY <1>2, <1>3, BecomeTypes DEF RuntimeInv
<1>5. message \in Messages
  BY DEF Messages, RuntimeInv, LeaseShape
<1>6. mail' \in SUBSET Messages
  BY <1>5 DEF Report, RuntimeInv, RuntimeTypeOK
<1>7. RowShape' /\ StoreTypeOK' /\ asks' \in 0 .. MaxAsks /\ faults' \in 0 .. MaxFaults
  BY DEF RuntimeInv, RuntimeTypeOK, RowShape, Present, StoreTypeOK, storeVars, counters
<1> QED BY <1>4, <1>6, <1>7 DEF RuntimeInv, RuntimeTypeOK

\* A worker that goes from one place of its job to another.
LEMMA StepTypes ==
  ASSUME NEW CONSTANT places, RuntimeInv(places),
         NEW w \in Workers, workers[w].pc \notin {"idle", "polling"},
         NEW pc \in places, NEW task \in Results \cup {None},
         Become(w, [workers[w] EXCEPT !.pc = pc, !.task = task]),
         UNCHANGED <<storeVars, mail, counters>>
  PROVE  RuntimeInv(places)'
<1> DEFINE state == [workers[w] EXCEPT !.pc = pc, !.task = task]
<1>1. workers[w] \in WorkerStates(places)
  BY DEF RuntimeInv, RuntimeTypeOK
<1>2. /\ state \in WorkerStates(places)
      /\ state.id \in Ids /\ state.token \in Tokens /\ state.payload \in Payloads
  BY <1>1 DEF WorkerStates, Between, RuntimeInv, LeaseShape
<1>3. workers' \in [Workers -> WorkerStates(places)] /\ LeaseShape'
  BY <1>2, BecomeTypes DEF RuntimeInv
<1>4. mail' \in SUBSET Messages
  BY DEF RuntimeInv, RuntimeTypeOK
<1>5. RowShape' /\ StoreTypeOK' /\ asks' \in 0 .. MaxAsks /\ faults' \in 0 .. MaxFaults
  BY DEF RuntimeInv, RuntimeTypeOK, RowShape, Present, StoreTypeOK, storeVars, counters
<1> QED BY <1>3, <1>4, <1>5 DEF RuntimeInv, RuntimeTypeOK

\* A worker that lets go of its job, or never had one.
LEMMA IdleTypes ==
  ASSUME NEW CONSTANT places, RuntimeTypeOK(places), LeaseShape,
         NEW w \in Workers, Become(w, IdleWorker) \/ Step(w, "idle")
  PROVE  workers' \in [Workers -> WorkerStates(places)] /\ LeaseShape'
<1>1. workers[w] \in WorkerStates(places)
  BY DEF RuntimeTypeOK
<1>2. IdleWorker \in WorkerStates(places) /\ IdleWorker.pc = "idle"
  BY DEF IdleWorker, Worker, WorkerStates, Between
<1>3. [workers[w] EXCEPT !.pc = "idle"] \in WorkerStates(places)
  BY <1>1 DEF WorkerStates, Between
<1>4. Step(w, "idle") => Become(w, [workers[w] EXCEPT !.pc = "idle"])
  BY <1>1 DEF Step, Become, RuntimeTypeOK, WorkerStates
<1>5. [workers[w] EXCEPT !.pc = "idle"].pc = "idle"
  BY <1>1 DEF WorkerStates
<1>6. CASE Become(w, IdleWorker)
  BY <1>2, <1>6, BecomeTypes
<1>7. CASE Step(w, "idle")
  BY <1>3, <1>4, <1>5, <1>7, BecomeTypes
<1> QED BY <1>6, <1>7

\* The answer to a message leaves a sender that waits idle or done.
LEMMA AnsweredTypes ==
  ASSUME NEW CONSTANT places, RuntimeTypeOK(places), LeaseShape,
         NEW m \in mail, NEW pc \in {"idle", "reported"}, Answered(m, pc)
  PROVE  workers' \in [Workers -> WorkerStates(places)] /\ LeaseShape'
<1> DEFINE w == m.worker
           state == IF pc = "idle" THEN IdleWorker ELSE [workers[w] EXCEPT !.pc = pc]
<1>1. w \in Workers /\ workers[w] \in WorkerStates(places)
  BY DEF RuntimeTypeOK, Messages
<1>2. CASE At(w, "reporting") /\ workers[w].token = m.token
  <2>1. Become(w, state)
    BY <1>1, <1>2 DEF Answered, Become
  <2>2. /\ state \in WorkerStates(places)
        /\ state.pc \notin {"idle", "polling"} =>
             state.id \in Ids /\ state.token \in Tokens /\ state.payload \in Payloads
    BY <1>1, <1>2 DEF IdleWorker, Worker, WorkerStates, Between, LeaseShape, At
  <2> QED BY <1>1, <2>1, <2>2, BecomeTypes
<1>3. CASE ~(At(w, "reporting") /\ workers[w].token = m.token)
  BY <1>3 DEF Answered, RuntimeTypeOK, LeaseShape
<1> QED BY <1>2, <1>3

\* Between jobs a step takes a worker's job away, or gives it one to start on.
Framed ==
  \A v \in Workers :
    \/ workers'[v] = workers[v]
    \/ workers'[v].pc \in Between
    \/ workers'[v].pc = "ensure" /\ workers'[v].task = None

LEMMA BecomeFramed ==
  ASSUME NEW CONSTANT places, RuntimeTypeOK(places), NEW w \in Workers, NEW state,
         state.pc \in Between \/ (state.pc = "ensure" /\ state.task = None),
         Become(w, state)
  PROVE  Framed
BY DEF RuntimeTypeOK, Become, Framed

LEMMA StepFramed ==
  ASSUME NEW CONSTANT places, RuntimeTypeOK(places), NEW w \in Workers,
         NEW pc \in Between, Step(w, pc)
  PROVE  Framed
BY DEF RuntimeTypeOK, WorkerStates, Step, Framed

LEMMA IdleFramed ==
  ASSUME NEW CONSTANT places, RuntimeTypeOK(places), NEW w \in Workers,
         Become(w, IdleWorker)
  PROVE  Framed
BY BecomeFramed DEF IdleWorker, Worker, Between

LEMMA AnsweredFramed ==
  ASSUME NEW CONSTANT places, RuntimeTypeOK(places),
         NEW m \in mail, NEW pc \in {"idle", "reported"}, Answered(m, pc)
  PROVE  Framed
<1>1. m.worker \in Workers /\ workers[m.worker] \in WorkerStates(places)
  BY DEF RuntimeTypeOK, Messages
<1>2. IdleWorker.pc \in Between /\ [workers[m.worker] EXCEPT !.pc = pc].pc \in Between
  BY <1>1 DEF IdleWorker, Worker, Between, WorkerStates
<1> QED BY <1>1, <1>2 DEF Answered, RuntimeTypeOK, Framed

\* Nothing that happens between jobs disturbs the invariant of the runtime.
LEMMA RuntimeStepKeeps ==
  ASSUME NEW CONSTANT places, "ensure" \in places, RuntimeInv(places), RuntimeStep
  PROVE  RuntimeInv(places)' /\ Framed
<1> USE DEF RuntimeInv
<1>0. /\ RuntimeTypeOK(places) /\ StoreTypeOK /\ RowShape /\ LeaseShape
      /\ workers \in [Workers -> WorkerStates(places)]
      /\ mail \in SUBSET Messages /\ MaxAsks \in Nat /\ MaxFaults \in Nat
      /\ asks \in 0 .. MaxAsks /\ faults \in 0 .. MaxFaults
  BY DeliveryAssumption DEF RuntimeTypeOK
<1>1. UNCHANGED workers =>
        Framed /\ workers' \in [Workers -> WorkerStates(places)] /\ LeaseShape'
  BY <1>0 DEF Framed, LeaseShape
<1>2. UNCHANGED storeVars => StoreTypeOK' /\ RowShape'
  BY <1>0, StoreTypes, RowShapeKept
<1>3. Fault => asks' \in 0 .. MaxAsks /\ faults' \in 0 .. MaxFaults
  BY <1>0 DEF Fault
<1>4. UNCHANGED counters => asks' \in 0 .. MaxAsks /\ faults' \in 0 .. MaxFaults
  BY <1>0 DEF counters
<1>5. CASE \E id \in Ids, p \in Payloads : Enqueue(id, p)
  <2>1. StoreTypeOK' /\ RowShape'
    BY <1>0, <1>5, StoreTypes, RowShapeKept DEF Enqueue
  <2>2. asks' \in 0 .. MaxAsks /\ UNCHANGED <<workers, mail, faults>>
    BY <1>0, <1>5 DEF Enqueue
  <2> QED BY <1>0, <1>1, <2>1, <2>2 DEF RuntimeTypeOK
<1>6. CASE \E w \in Workers : WorkerLoop(w)
  <2>1. PICK w \in Workers : WorkerLoop(w)
    BY <1>6
  <2>2. workers[w] \in WorkerStates(places)
    BY <1>0
  <2>3. CASE Poll(w)
    <3>1. StoreTypeOK' /\ RowShape'
      BY <1>0, <2>3, StoreTypes, RowShapeKept DEF Poll
    <3>2. [workers[w] EXCEPT !.pc = "polling"] \in WorkerStates(places)
      BY <2>2 DEF WorkerStates, Between
    <3>3. Become(w, [workers[w] EXCEPT !.pc = "polling"])
      BY <1>0, <2>2, <2>3 DEF Poll, Step, Become, WorkerStates
    <3>4. [workers[w] EXCEPT !.pc = "polling"].pc = "polling"
      BY <2>2 DEF WorkerStates
    <3>5. workers' \in [Workers -> WorkerStates(places)] /\ LeaseShape'
      BY <1>0, <3>2, <3>3, <3>4, BecomeTypes
    <3>6. Framed
      BY <1>0, <2>3, StepFramed DEF Poll, Between
    <3> QED BY <1>0, <1>4, <2>3, <3>1, <3>5, <3>6 DEF Poll, RuntimeTypeOK
  <2>4. CASE \E id \in Ids, t \in Tokens : Grant(w, id, t)
    <3>1. PICK id \in Ids, t \in Tokens : Grant(w, id, t)
      BY <2>4
    <3>2. StoreTypeOK' /\ RowShape'
      BY <1>0, <3>1, StoreTypes, RowShapeKept DEF Grant
    <3>3. jobs[id].payload \in Payloads
      BY <1>0, <3>1 DEF Grant, Lease, NextToLease, Leasable, Present, RowShape
    <3> DEFINE state == Worker("ensure", id, t, jobs[id].payload, None)
    <3>4. /\ state \in WorkerStates(places)
          /\ state.id \in Ids /\ state.token \in Tokens /\ state.payload \in Payloads
          /\ state.pc = "ensure" /\ state.task = None
      BY <3>3 DEF Worker, WorkerStates
    <3>5. Become(w, state)
      BY <3>1 DEF Grant
    <3> HIDE DEF state
    <3>6. workers' \in [Workers -> WorkerStates(places)] /\ LeaseShape'
      BY <1>0, <3>4, <3>5, BecomeTypes
    <3>7. Framed
      BY <1>0, <3>4, <3>5, BecomeFramed
    <3> QED BY <1>0, <1>4, <3>1, <3>2, <3>6, <3>7 DEF Grant, RuntimeTypeOK
  <2>5. CASE EndPoll(w)
    <3>1. workers' \in [Workers -> WorkerStates(places)] /\ LeaseShape'
      BY <1>0, <2>5, IdleTypes DEF EndPoll
    <3>2. Framed
      BY <1>0, <2>5, StepFramed DEF EndPoll, Between
    <3> QED BY <1>0, <1>2, <1>4, <2>5, <3>1, <3>2 DEF EndPoll, RuntimeTypeOK
  <2>6. CASE GiveUp(w)
    <3>1. workers' \in [Workers -> WorkerStates(places)] /\ LeaseShape' /\ Framed
      BY <1>0, <2>6, IdleTypes, IdleFramed DEF GiveUp
    <3> QED BY <1>0, <1>2, <1>3, <1>4, <2>6, <3>1 DEF GiveUp, RuntimeTypeOK
  <2> QED BY <2>1, <2>3, <2>4, <2>5, <2>6 DEF WorkerLoop
<1>7. CASE Serve
  <2>1. PICK m \in mail : ServeComplete(m) \/ ServeFail(m)
    BY <1>7 DEF Serve
  <2>2. m \in Messages /\ m.id \in Ids /\ m.token \in Tokens
        /\ m.task \in Results \cup {None} /\ m.retryable \in BOOLEAN
    BY <1>0 DEF Messages
  <2>3. /\ mail' \in SUBSET Messages
        /\ asks' \in 0 .. MaxAsks /\ faults' \in 0 .. MaxFaults
    <3>1. UNCHANGED counters \/ Fault
      BY <2>1 DEF ServeComplete, ServeFail
    <3> QED BY <1>0, <1>3, <1>4, <2>1, <3>1 DEF ServeComplete, ServeFail
  <2>4. PICK pc \in {"idle", "reported"} : Answered(m, pc)
    BY <2>1 DEF ServeComplete, ServeFail
  <2>5. workers' \in [Workers -> WorkerStates(places)] /\ LeaseShape' /\ Framed
    BY <1>0, <2>4, AnsweredTypes, AnsweredFramed
  <2>6. StoreTypeOK' /\ RowShape'
    <3>1. CASE UNCHANGED storeVars
      BY <1>2, <3>1
    <3>2. CASE ServeComplete(m) /\ Complete(m.id, m.token, m.task)
      <4>1. m.task \in Results
        BY <2>2, <3>2 DEF ServeComplete
      <4> QED BY <1>0, <2>2, <3>2, <4>1, StoreTypes, RowShapeKept
    <3>3. CASE \E retryable \in BOOLEAN : Fail(m.id, m.token, retryable)
      BY <1>0, <2>2, <3>3, StoreTypes, RowShapeKept
    <3> QED BY <2>1, <2>2, <3>1, <3>2, <3>3, ServedFailure DEF ServeComplete
  <2> QED BY <2>3, <2>5, <2>6 DEF RuntimeTypeOK
<1>8. CASE Failure
  <2>1. CASE \E w \in Workers : Crash(w)
    <3>1. PICK w \in Workers : Crash(w)
      BY <2>1
    <3>2. workers' \in [Workers -> WorkerStates(places)] /\ LeaseShape' /\ Framed
      BY <1>0, <3>1, IdleTypes, IdleFramed DEF Crash
    <3> QED BY <1>0, <1>2, <1>3, <3>1, <3>2 DEF Crash, RuntimeTypeOK
  <2>2. CASE \E m \in mail : LoseReport(m)
    BY <1>0, <1>1, <1>2, <1>3, <2>2 DEF LoseReport, RuntimeTypeOK
  <2> QED BY <1>8, <2>1, <2>2 DEF Failure
<1>9. CASE Lapse
  <2>1. StoreTypeOK' /\ RowShape'
    BY <1>0, <1>9, StoreTypes, RowShapeKept DEF Lapse
  <2> QED BY <1>0, <1>1, <1>4, <1>9, <2>1 DEF Lapse, RuntimeTypeOK
<1> QED BY <1>5, <1>6, <1>7, <1>8, <1>9 DEF RuntimeStep

LEMMA RuntimeUnchanged ==
  ASSUME NEW CONSTANT places, RuntimeInv(places), UNCHANGED runtimeVars
  PROVE  RuntimeInv(places)'
BY DEF RuntimeInv, RuntimeTypeOK, StoreTypeOK, LeaseShape, RowShape, Present, runtimeVars

\* The store's own clockwork.
LEMMA StoreTicks ==
  ASSUME NEW CONSTANT places, RuntimeInv(places), UNCHANGED <<workers, mail, counters>>,
         (\E id \in Ids : RetentionPasses(id)) \/ PruneTerminal \/ UNCHANGED storeVars
  PROVE  RuntimeInv(places)'
<1>1. StoreTypeOK' /\ RowShape'
  BY StoreTypes, RowShapeKept DEF RuntimeInv, RuntimeTypeOK
<1> QED BY <1>1 DEF RuntimeInv, RuntimeTypeOK, LeaseShape, counters

-----------------------------------------------------------------------------
(* Who holds a job, and what he was told                                   *)

Holding(w) == workers[w].pc \notin {"idle", "polling"}

\* Neither a worker nor a report has anything to do with the job any more.
NobodyHas(id) == (\A w \in Workers : workers[w].id # id) /\ (\A m \in mail : m.id # id)

SucceededIfThere(id) == Present(id) => jobs[id].state = "succeeded"

LedgerInv ==
  /\ \A w \in Workers : Holding(w) \/ (workers[w].id = None /\ workers[w].token = None)
  /\ \A id \in Ids : jobs[id].aged => Finished(id)
  /\ \A id \in Ids : ~Present(id) \/ jobs[id].aged => NobodyHas(id)
  /\ \A w, v \in Workers :
       Holding(w) /\ Holding(v) /\ workers[w].token = workers[v].token => w = v
  /\ \A w \in Workers : \A m \in mail :
       Holding(w) /\ m.token = workers[w].token =>
         /\ workers[w].pc \in {"reporting", "reported"}
         /\ m.id = workers[w].id /\ m.task = workers[w].task
  /\ \A w \in Workers : At(w, "reported") =>
       workers[w].task # None /\ jobs[workers[w].id].state = "succeeded"

LEMMA InitLedger ==
  ASSUME RuntimeInit
  PROVE  LedgerInv
<1>1. \A w \in Workers : /\ workers[w].pc = "idle" /\ workers[w].id = None
                         /\ workers[w].token = None
  BY DEF RuntimeInit, IdleWorker, Worker
<1>2. \A id \in Ids : jobs[id].aged = FALSE /\ NobodyHas(id)
  BY <1>1, StoreAssumption DEF RuntimeInit, StoreInit, NoRow, NobodyHas
<1>3. \A w \in Workers : ~Holding(w) /\ ~At(w, "reported")
  BY <1>1 DEF Holding, At
<1> QED BY <1>1, <1>2, <1>3 DEF LedgerInv

\* A statement of the store touches only rows that are not settled, and leaves them there
\* with their requests.
RowsMove ==
  \A id \in Ids :
    \/ jobs'[id] = jobs[id]
    \/ /\ jobs[id].state \in {"queued", "leased"} /\ ~jobs[id].aged
       /\ jobs'[id].state # "absent" /\ ~jobs'[id].aged
       /\ jobs'[id].payload = jobs[id].payload

LEMMA RowsMoveWhen ==
  ASSUME StoreTypeOK, LedgerInv,
         \/ ExpireLeases
         \/ \E id \in Ids, t \in Tokens : Lease(id, t)
         \/ \E id \in Ids, t \in Tokens, result \in Results : Complete(id, t, result)
         \/ \E id \in Ids, t \in Tokens, retryable \in BOOLEAN : Fail(id, t, retryable)
         \/ \E id \in Ids : LeaseLapses(id)
         \/ UNCHANGED storeVars
  PROVE  RowsMove
<1>1. \A id \in Ids : jobs[id] \in Rows
  BY DEF StoreTypeOK
<1>2. \A id \in Ids : jobs[id].state \in {"queued", "leased"} => ~jobs[id].aged
  BY DEF LedgerInv, Finished, Terminal
<1>3. CASE ExpireLeases
  <2>1. \A id \in Ids : /\ FailedRow(jobs[id]).state = "failed"
                        /\ FailedRow(jobs[id]).aged = jobs[id].aged
                        /\ FailedRow(jobs[id]).payload = jobs[id].payload
    BY <1>1 DEF FailedRow, Rows
  <2> QED BY <1>2, <1>3, <2>1 DEF ExpireLeases, Exhausted, RowsMove
<1>4. CASE \E id \in Ids, t \in Tokens : Lease(id, t)
  <2>1. PICK id \in Ids, t \in Tokens : Lease(id, t)
    BY <1>4
  <2>2. /\ LeasedRow(jobs[id], t).state = "leased"
        /\ LeasedRow(jobs[id], t).aged = jobs[id].aged
        /\ LeasedRow(jobs[id], t).payload = jobs[id].payload
    BY <1>1 DEF LeasedRow, Rows
  <2>3. jobs[id].state \in {"queued", "leased"}
    BY <2>1 DEF Lease, NextToLease, Leasable
  <2> QED BY <1>2, <2>1, <2>2, <2>3 DEF Lease, RowsMove, StoreTypeOK
<1>5. CASE \E id \in Ids, t \in Tokens, result \in Results : Complete(id, t, result)
  <2>1. PICK id \in Ids, t \in Tokens, result \in Results : Complete(id, t, result)
    BY <1>5
  <2>2. /\ SucceededRow(jobs[id], result).state = "succeeded"
        /\ SucceededRow(jobs[id], result).aged = jobs[id].aged
        /\ SucceededRow(jobs[id], result).payload = jobs[id].payload
    BY <1>1 DEF SucceededRow, Rows
  <2> QED BY <1>2, <2>1, <2>2 DEF Complete, HoldsLease, RowsMove, StoreTypeOK
<1>6. CASE \E id \in Ids, t \in Tokens, retryable \in BOOLEAN : Fail(id, t, retryable)
  <2>1. PICK id \in Ids, t \in Tokens, retryable \in BOOLEAN : Fail(id, t, retryable)
    BY <1>6
  <2>2. /\ FailedRow(jobs[id]).state = "failed" /\ FailedRow(jobs[id]).aged = jobs[id].aged
        /\ RequeuedRow(jobs[id]).state = "queued"
        /\ RequeuedRow(jobs[id]).aged = jobs[id].aged
        /\ FailedRow(jobs[id]).payload = jobs[id].payload
        /\ RequeuedRow(jobs[id]).payload = jobs[id].payload
    BY <1>1 DEF FailedRow, RequeuedRow, Rows
  <2> QED BY <1>2, <2>1, <2>2 DEF Fail, HoldsLease, RowsMove, StoreTypeOK
<1>7. CASE \E id \in Ids : LeaseLapses(id)
  <2>1. PICK id \in Ids : LeaseLapses(id)
    BY <1>7
  <2>2. [jobs[id] EXCEPT !.lapsed = TRUE].state = "leased"
        /\ [jobs[id] EXCEPT !.lapsed = TRUE].aged = jobs[id].aged
        /\ [jobs[id] EXCEPT !.lapsed = TRUE].payload = jobs[id].payload
    BY <1>1, <2>1 DEF LeaseLapses, Rows
  <2> QED BY <1>2, <2>1, <2>2 DEF LeaseLapses, RowsMove, StoreTypeOK
<1>8. CASE UNCHANGED storeVars
  BY <1>8 DEF storeVars, RowsMove
<1> QED BY <1>3, <1>4, <1>5, <1>6, <1>7, <1>8

\* What RowsMove means for a row that succeeded, is old or is not there.
LEMMA RowsMoveKeeps ==
  ASSUME RowsMove, NEW id \in Ids
  PROVE  /\ jobs[id].state \in {"succeeded", "failed", "absent"} => jobs'[id] = jobs[id]
         /\ Present(id)' <=> Present(id)
         /\ jobs'[id].aged <=> jobs[id].aged
         /\ jobs'[id].aged => jobs'[id] = jobs[id]
         /\ jobs'[id].payload = jobs[id].payload
BY DEF RowsMove, Present

\* A worker lets go, or goes to poll; reports may get lost.
LEMMA LetGoLedger ==
  ASSUME LedgerInv, RowsMove, LeaseShape,
         \A w \in Workers : \/ workers'[w] = workers[w]
                            \/ /\ workers'[w].pc \in {"idle", "polling"}
                               /\ workers'[w].id = None /\ workers'[w].token = None,
         mail' \subseteq mail
  PROVE  LedgerInv'
<1>1. \A w \in Workers : Holding(w)' => Holding(w) /\ workers'[w] = workers[w]
  BY DEF Holding
<1>2. \A w \in Workers : Holding(w)' \/ (workers'[w].id = None /\ workers'[w].token = None)
  BY DEF LedgerInv, Holding
<1>3. \A id \in Ids : jobs'[id].aged => Finished(id)'
  BY RowsMoveKeeps DEF LedgerInv, Finished
<1>4. \A id \in Ids : ~Present(id)' \/ jobs'[id].aged => NobodyHas(id)'
  <2> SUFFICES ASSUME NEW id \in Ids, ~Present(id)' \/ jobs'[id].aged
               PROVE  NobodyHas(id)'
    OBVIOUS
  <2>1. NobodyHas(id)
    BY RowsMoveKeeps DEF LedgerInv
  <2> QED BY <2>1, StoreAssumption DEF NobodyHas
<1>5. \A w, v \in Workers :
        Holding(w)' /\ Holding(v)' /\ workers'[w].token = workers'[v].token => w = v
  BY <1>1 DEF LedgerInv
<1>6. \A w \in Workers : \A m \in mail' :
        Holding(w)' /\ m.token = workers'[w].token =>
          /\ workers'[w].pc \in {"reporting", "reported"}
          /\ m.id = workers'[w].id /\ m.task = workers'[w].task
  BY <1>1 DEF LedgerInv
<1>7. \A w \in Workers : At(w, "reported")' =>
        workers'[w].task # None /\ jobs'[workers'[w].id].state = "succeeded"
  <2> SUFFICES ASSUME NEW w \in Workers, At(w, "reported")'
               PROVE  workers'[w].task # None /\ jobs'[workers'[w].id].state = "succeeded"
    OBVIOUS
  <2>1. Holding(w)' /\ workers'[w] = workers[w] /\ At(w, "reported")
    BY <1>1 DEF At, Holding
  <2>2. workers[w].id \in Ids /\ jobs[workers[w].id].state = "succeeded"
    BY <2>1 DEF LeaseShape, LedgerInv, At
  <2> QED BY <2>1, <2>2, RowsMoveKeeps DEF LedgerInv
<1> QED BY <1>2, <1>3, <1>4, <1>5, <1>6, <1>7 DEF LedgerInv

\* A worker goes on with its job, or reports on it.
LEMMA GoOnLedger ==
  ASSUME LedgerInv, LeaseShape, UNCHANGED storeVars,
         NEW w \in Workers, Holding(w),
         workers[w].pc \notin {"reporting", "reported"},
         \A v \in Workers \ {w} : workers'[v] = workers[v],
         workers'[w].pc \notin {"idle", "polling", "reported"},
         workers'[w].id = workers[w].id, workers'[w].token = workers[w].token,
         \A m \in mail' : \/ m \in mail
                          \/ /\ m.id = workers[w].id /\ m.token = workers[w].token
                             /\ workers'[w].pc = "reporting"
                             /\ m.task = workers'[w].task
  PROVE  LedgerInv'
<1>1. \A v \in Workers :
        /\ workers'[v].id = workers[v].id /\ workers'[v].token = workers[v].token
        /\ Holding(v)' = Holding(v)
        /\ At(v, "reported")' => v # w /\ At(v, "reported")
  BY DEF Holding, At
<1>2. \A id \in Ids : NobodyHas(id) => NobodyHas(id)'
  BY <1>1 DEF NobodyHas
<1>3. \A v \in Workers : \A m \in mail' :
        Holding(v)' /\ m.token = workers'[v].token =>
          /\ workers'[v].pc \in {"reporting", "reported"}
          /\ m.id = workers'[v].id /\ m.task = workers'[v].task
  <2> SUFFICES ASSUME NEW v \in Workers, NEW m \in mail', Holding(v)',
                      m.token = workers'[v].token
               PROVE  /\ workers'[v].pc \in {"reporting", "reported"}
                      /\ m.id = workers'[v].id /\ m.task = workers'[v].task
    OBVIOUS
  <2>1. CASE m \in mail
    <3>1. /\ workers[v].pc \in {"reporting", "reported"}
          /\ m.id = workers[v].id /\ m.task = workers[v].task
      BY <1>1, <2>1 DEF LedgerInv
    <3> QED BY <3>1
  <2>2. CASE m \notin mail
    <3>1. v = w
      BY <1>1, <2>2 DEF LedgerInv
    <3> QED BY <2>2, <3>1
  <2> QED BY <2>1, <2>2
<1>4. \A v \in Workers : Holding(v)' \/ (workers'[v].id = None /\ workers'[v].token = None)
  BY <1>1 DEF LedgerInv
<1>5. \A u, v \in Workers :
        Holding(u)' /\ Holding(v)' /\ workers'[u].token = workers'[v].token => u = v
  BY <1>1 DEF LedgerInv
<1>6. \A v \in Workers : At(v, "reported")' =>
        workers'[v].task # None /\ jobs'[workers'[v].id].state = "succeeded"
  BY <1>1 DEF LedgerInv, storeVars
<1> QED BY <1>2, <1>3, <1>4, <1>5, <1>6 DEF LedgerInv, storeVars, Finished, Present

\* A worker gets a job with a token nobody has.
LEMMA GrantLedger ==
  ASSUME NEW CONSTANT places, RuntimeInv(places), LedgerInv, NEW w \in Workers,
         NEW id \in Ids, NEW t \in Tokens, Grant(w, id, t)
  PROVE  LedgerInv' /\ RowsMove
<1>1. RowsMove
  BY RowsMoveWhen DEF Grant, RuntimeInv, RuntimeTypeOK
<1>2. /\ workers'[w] = Worker("ensure", id, t, jobs[id].payload, None)
      /\ \A v \in Workers \ {w} : workers'[v] = workers[v]
      /\ UNCHANGED mail /\ Unused(t) /\ t # None /\ id # None
  BY StoreAssumption DEF Grant, Become, RuntimeInv, RuntimeTypeOK
<1>3. /\ workers'[w].pc = "ensure" /\ workers'[w].id = id /\ workers'[w].token = t
  BY <1>2 DEF Worker
<1>4. Present(id) /\ ~jobs[id].aged
  BY DEF Grant, Lease, NextToLease, Leasable, Present, LedgerInv, Finished, Terminal
<1>5. \A i \in Ids : jobs'[i].aged => Finished(i)'
  BY <1>1, RowsMoveKeeps DEF LedgerInv, Finished
<1>6. \A i \in Ids : ~Present(i)' \/ jobs'[i].aged => NobodyHas(i)'
  <2> SUFFICES ASSUME NEW i \in Ids, ~Present(i)' \/ jobs'[i].aged
               PROVE  NobodyHas(i)'
    OBVIOUS
  <2>1. NobodyHas(i) /\ i # id
    BY <1>1, <1>4, RowsMoveKeeps DEF LedgerInv
  <2> QED BY <1>2, <1>3, <2>1 DEF NobodyHas
<1>7. \A v \in Workers : Holding(v)' \/ (workers'[v].id = None /\ workers'[v].token = None)
  BY <1>2, <1>3 DEF LedgerInv, Holding
<1>8. \A u, v \in Workers :
        Holding(u)' /\ Holding(v)' /\ workers'[u].token = workers'[v].token => u = v
  BY <1>2, <1>3 DEF LedgerInv, Holding, Unused
<1>9. \A v \in Workers : \A m \in mail' :
        Holding(v)' /\ m.token = workers'[v].token =>
          /\ workers'[v].pc \in {"reporting", "reported"}
          /\ m.id = workers'[v].id /\ m.task = workers'[v].task
  BY <1>2, <1>3 DEF LedgerInv, Holding, Unused
<1>10. \A v \in Workers : At(v, "reported")' =>
        workers'[v].task # None /\ jobs'[workers'[v].id].state = "succeeded"
  <2> SUFFICES ASSUME NEW v \in Workers, At(v, "reported")'
               PROVE  workers'[v].task # None /\ jobs'[workers'[v].id].state = "succeeded"
    OBVIOUS
  <2>1. workers'[v] = workers[v] /\ At(v, "reported")
    BY <1>2, <1>3 DEF At
  <2>2. workers[v].id \in Ids /\ jobs[workers[v].id].state = "succeeded"
    BY <2>1 DEF RuntimeInv, LeaseShape, LedgerInv, At
  <2> QED BY <1>1, <2>1, <2>2, RowsMoveKeeps DEF LedgerInv
<1> QED BY <1>1, <1>5, <1>6, <1>7, <1>8, <1>9, <1>10 DEF LedgerInv

\* A report is answered: who is told that it was accepted has a job that succeeded.
LEMMA ServeLedger ==
  ASSUME NEW CONSTANT places, RuntimeInv(places), LedgerInv, Serve
  PROVE  LedgerInv' /\ RowsMove
<1>1. PICK m \in mail : ServeComplete(m) \/ ServeFail(m)
  BY DEF Serve
<1> DEFINE w == m.worker
<1>2. /\ m \in Messages /\ w \in Workers /\ m.id \in Ids /\ m.token \in Tokens
      /\ m.task \in Results \cup {None}
      /\ workers \in [Workers -> WorkerStates(places)] /\ StoreTypeOK
  BY DEF RuntimeInv, RuntimeTypeOK, Messages
<1>3. mail' \subseteq mail
  BY <1>1 DEF ServeComplete, ServeFail
<1>4. RowsMove
  <2>1. CASE UNCHANGED storeVars
    BY <1>2, <2>1, RowsMoveWhen
  <2>2. CASE ServeComplete(m) /\ Complete(m.id, m.token, m.task)
    <3>1. m.task \in Results
      BY <1>2, <2>2 DEF ServeComplete
    <3> QED BY <1>2, <2>2, <3>1, RowsMoveWhen
  <2>3. CASE \E retryable \in BOOLEAN : Fail(m.id, m.token, retryable)
    BY <1>2, <2>3, RowsMoveWhen
  <2>4. m.retryable \in BOOLEAN
    BY <1>2 DEF Messages
  <2> QED BY <1>1, <2>1, <2>2, <2>3, <2>4, ServedFailure DEF ServeComplete
<1>5. CASE Answered(m, "idle")
  <2>1. IdleWorker.pc = "idle" /\ IdleWorker.id = None /\ IdleWorker.token = None
    BY DEF IdleWorker, Worker
  <2>2. \A v \in Workers : \/ workers'[v] = workers[v]
                           \/ /\ workers'[v].pc \in {"idle", "polling"}
                              /\ workers'[v].id = None /\ workers'[v].token = None
    BY <1>2, <1>5, <2>1 DEF Answered
  <2> QED BY <1>3, <1>4, <2>2, LetGoLedger DEF RuntimeInv
<1>6. CASE Answered(m, "reported") /\ ~Answered(m, "idle")
  <2>1. /\ At(w, "reporting") /\ workers[w].token = m.token
        /\ workers' = [workers EXCEPT ![w] = [@ EXCEPT !.pc = "reported"]]
    BY <1>6 DEF Answered
  <2>2. /\ workers'[w].pc = "reported" /\ workers'[w].id = workers[w].id
        /\ workers'[w].token = workers[w].token /\ workers'[w].task = workers[w].task
        /\ \A v \in Workers \ {w} : workers'[v] = workers[v]
    BY <1>2, <2>1 DEF WorkerStates
  <2>3. m.id = workers[w].id /\ m.task = workers[w].task /\ Holding(w)
    BY <1>2, <2>1 DEF LedgerInv, At, Holding
  <2>4. m.task # None /\ jobs'[m.id].state = "succeeded"
    <3>1. ServeComplete(m) /\ m.task # None
      BY <1>1, <1>6 DEF ServeComplete, ServeFail
    <3>2. CASE Complete(m.id, m.token, m.task)
      <4>1. SucceededRow(jobs[m.id], m.task).state = "succeeded"
        BY <1>2 DEF SucceededRow, StoreTypeOK, Rows
      <4> QED BY <1>2, <3>1, <3>2, <4>1 DEF Complete, StoreTypeOK
    <3>3. CASE UNCHANGED storeVars /\ AlreadyCompleted(m.id, m.task)
      BY <3>1, <3>3 DEF AlreadyCompleted, storeVars
    <3> QED BY <1>6, <3>1, <3>2, <3>3 DEF ServeComplete
  <2>5. \A v \in Workers :
          /\ workers'[v].id = workers[v].id /\ workers'[v].token = workers[v].token
          /\ workers'[v].task = workers[v].task /\ Holding(v)' = Holding(v)
          /\ v # w => workers'[v] = workers[v]
    BY <2>2, <2>3 DEF Holding
  <2>6. \A i \in Ids : NobodyHas(i) => NobodyHas(i)'
    BY <1>3, <2>5 DEF NobodyHas
  <2>7. \A i \in Ids : /\ jobs'[i].aged => Finished(i)'
                       /\ ~Present(i)' \/ jobs'[i].aged => NobodyHas(i)'
    BY <1>4, <2>6, RowsMoveKeeps DEF LedgerInv, Finished
  <2>8. \A v \in Workers : Holding(v)' \/ (workers'[v].id = None /\ workers'[v].token = None)
    BY <2>5 DEF LedgerInv
  <2>9. \A u, v \in Workers :
          Holding(u)' /\ Holding(v)' /\ workers'[u].token = workers'[v].token => u = v
    BY <2>5 DEF LedgerInv
  <2>10. \A v \in Workers : \A n \in mail' :
          Holding(v)' /\ n.token = workers'[v].token =>
            /\ workers'[v].pc \in {"reporting", "reported"}
            /\ n.id = workers'[v].id /\ n.task = workers'[v].task
    <3> SUFFICES ASSUME NEW v \in Workers, NEW n \in mail', Holding(v)',
                        n.token = workers'[v].token
                 PROVE  /\ workers'[v].pc \in {"reporting", "reported"}
                        /\ n.id = workers'[v].id /\ n.task = workers'[v].task
      OBVIOUS
    <3>1. /\ workers[v].pc \in {"reporting", "reported"}
          /\ n.id = workers[v].id /\ n.task = workers[v].task
      BY <1>3, <2>5 DEF LedgerInv
    <3> QED BY <2>2, <2>5, <3>1
  <2>11. \A v \in Workers : At(v, "reported")' =>
          workers'[v].task # None /\ jobs'[workers'[v].id].state = "succeeded"
    <3> SUFFICES ASSUME NEW v \in Workers, At(v, "reported")'
                 PROVE  workers'[v].task # None /\ jobs'[workers'[v].id].state = "succeeded"
      OBVIOUS
    <3>1. CASE v = w
      BY <2>2, <2>3, <2>4, <3>1
    <3>2. CASE v # w
      <4>1. workers'[v] = workers[v] /\ At(v, "reported")
        BY <2>5, <3>2 DEF At
      <4>2. workers[v].id \in Ids /\ jobs[workers[v].id].state = "succeeded"
        BY <4>1 DEF RuntimeInv, LeaseShape, LedgerInv, At
      <4> QED BY <1>4, <4>1, <4>2, RowsMoveKeeps DEF LedgerInv
    <3> QED BY <3>1, <3>2
  <2> QED BY <1>4, <2>7, <2>8, <2>9, <2>10, <2>11 DEF LedgerInv
<1> QED BY <1>1, <1>4, <1>5, <1>6 DEF ServeComplete, ServeFail

\* A job is queued, grows old when nobody has it, or is forgotten when it is old.
LEMMA TableLedger ==
  ASSUME NEW CONSTANT places, RuntimeInv(places), LedgerInv, UNCHANGED <<workers, mail>>,
         \/ \E id \in Ids, p \in Payloads : Insert(id, p)
         \/ \E id \in Ids : NobodyHas(id) /\ RetentionPasses(id)
         \/ PruneTerminal
  PROVE  LedgerInv'
<1>1. \A id \in Ids : jobs[id] \in Rows /\ (NobodyHas(id) <=> NobodyHas(id)')
  BY DEF RuntimeInv, RuntimeTypeOK, StoreTypeOK, NobodyHas
<1>2. \A id \in Ids : /\ jobs'[id].aged => Finished(id)'
                      /\ ~Present(id)' \/ jobs'[id].aged => NobodyHas(id)'
                      /\ ~NobodyHas(id) => jobs'[id] = jobs[id]
  <2>1. CASE \E id \in Ids, p \in Payloads : Insert(id, p)
    <3>1. PICK id \in Ids, p \in Payloads : Insert(id, p)
      BY <2>1
    <3>2. QueuedRow(p).state = "queued" /\ QueuedRow(p).aged = FALSE
      BY DEF QueuedRow, NoRow
    <3> QED
      BY <1>1, <3>1, <3>2 DEF Insert, LedgerInv, Finished, Present, RuntimeInv,
         RuntimeTypeOK, StoreTypeOK
  <2>2. CASE \E id \in Ids : NobodyHas(id) /\ RetentionPasses(id)
    <3>1. PICK id \in Ids : NobodyHas(id) /\ RetentionPasses(id)
      BY <2>2
    <3>2. [jobs[id] EXCEPT !.aged = TRUE].state = jobs[id].state
      BY <1>1 DEF Rows
    <3> QED
      BY <1>1, <3>1, <3>2 DEF RetentionPasses, LedgerInv, Finished, Present, RuntimeInv,
         RuntimeTypeOK, StoreTypeOK
  <2>3. CASE PruneTerminal
    <3>1. NoRow.state = "absent" /\ NoRow.aged = FALSE
      BY DEF NoRow
    <3> QED BY <1>1, <2>3, <3>1 DEF PruneTerminal, Prunable, LedgerInv, Finished, Present
  <2> QED BY <2>1, <2>2, <2>3
<1>3. \A w \in Workers : At(w, "reported") =>
        jobs'[workers[w].id].state = "succeeded"
  <2> SUFFICES ASSUME NEW w \in Workers, At(w, "reported")
               PROVE  jobs'[workers[w].id].state = "succeeded"
    OBVIOUS
  <2>1. workers[w].id \in Ids /\ ~NobodyHas(workers[w].id)
    BY DEF RuntimeInv, LeaseShape, At, NobodyHas
  <2> QED BY <1>2, <2>1 DEF LedgerInv
<1> QED BY <1>2, <1>3 DEF LedgerInv, Holding, At

\* The steps of the runtime keep the ledger.
LEMMA RuntimeStepLedger ==
  ASSUME NEW CONSTANT places, RuntimeInv(places), LedgerInv, RuntimeStep
  PROVE  LedgerInv'
<1>1. /\ workers \in [Workers -> WorkerStates(places)] /\ LeaseShape /\ StoreTypeOK
      /\ IdleWorker.pc = "idle" /\ IdleWorker.id = None /\ IdleWorker.token = None
  BY DEF RuntimeInv, RuntimeTypeOK, IdleWorker, Worker
<1>2. CASE \E id \in Ids, p \in Payloads : Enqueue(id, p)
  BY <1>2, TableLedger DEF Enqueue
<1>3. CASE \E w \in Workers : WorkerLoop(w)
  <2>1. PICK w \in Workers : WorkerLoop(w)
    BY <1>3
  <2>2. CASE \E id \in Ids, t \in Tokens : Grant(w, id, t)
    BY <2>2, GrantLedger
  <2>3. CASE Poll(w) \/ EndPoll(w) \/ GiveUp(w)
    <3>1. RowsMove /\ mail' \subseteq mail
      BY <1>1, <2>3, RowsMoveWhen DEF Poll, EndPoll, GiveUp
    <3>2. \A v \in Workers : \/ workers'[v] = workers[v]
                             \/ /\ workers'[v].pc \in {"idle", "polling"}
                                /\ workers'[v].id = None /\ workers'[v].token = None
      <4>1. CASE GiveUp(w)
        BY <1>1, <4>1 DEF GiveUp, Become
      <4>2. CASE Poll(w) \/ EndPoll(w)
        <5>1. workers[w].id = None /\ workers[w].token = None
          BY <4>2 DEF Poll, EndPoll, At, LedgerInv, Holding
        <5>2. PICK pc \in {"idle", "polling"} : workers' = [workers EXCEPT ![w].pc = pc]
          BY <4>2 DEF Poll, EndPoll, Step
        <5>3. /\ workers'[w].pc = pc /\ workers'[w].id = None /\ workers'[w].token = None
          BY <1>1, <5>1, <5>2 DEF WorkerStates
        <5> QED BY <1>1, <5>2, <5>3
      <4> QED BY <2>3, <4>1, <4>2
    <3> QED BY <1>1, <3>1, <3>2, LetGoLedger
  <2> QED BY <2>1, <2>2, <2>3 DEF WorkerLoop
<1>4. CASE Serve
  BY <1>4, ServeLedger
<1>5. CASE Failure
  <2>1. /\ RowsMove /\ mail' \subseteq mail
        /\ \A v \in Workers : workers'[v] = workers[v] \/ workers'[v] = IdleWorker
    BY <1>1, <1>5, RowsMoveWhen DEF Failure, Crash, LoseReport, Become
  <2> QED BY <1>1, <2>1, LetGoLedger
<1>6. CASE Lapse
  <2>1. RowsMove /\ UNCHANGED <<workers, mail>>
    BY <1>1, <1>6, RowsMoveWhen DEF Lapse
  <2> QED BY <1>1, <2>1, LetGoLedger
<1> QED BY <1>2, <1>3, <1>4, <1>5, <1>6 DEF RuntimeStep

\* What a step of the runtime, a request apart, means for a job that is over, and where
\* a success comes from.
LEMMA RuntimeStepQuiet ==
  ASSUME NEW CONSTANT places, RuntimeInv(places), LedgerInv,
         (\E w \in Workers : WorkerLoop(w)) \/ Serve \/ Failure \/ Lapse
  PROVE  /\ RowsMove /\ mail' \subseteq mail
         /\ \A id \in Ids : NobodyHas(id) /\ SucceededIfThere(id) => NobodyHas(id)'
         /\ \A id \in Ids : jobs'[id].state = "succeeded" =>
              \/ jobs'[id] = jobs[id]
              \/ \E m \in mail : /\ m.id = id /\ HoldsLease(id, m.token)
                                 /\ m.task \in Results /\ jobs'[id].result = m.task
<1> DEFINE Reported(id) ==
             \E m \in mail : /\ m.id = id /\ HoldsLease(id, m.token)
                             /\ m.task \in Results /\ jobs'[id].result = m.task
<1> HIDE DEF Reported
<1>1. /\ workers \in [Workers -> WorkerStates(places)] /\ StoreTypeOK
      /\ \A id \in Ids : jobs[id] \in Rows
      /\ IdleWorker.id = None /\ None \notin Ids
  BY StoreAssumption DEF RuntimeInv, RuntimeTypeOK, StoreTypeOK, IdleWorker, Worker
\* Nothing but a completion makes a row a success.
<1>2. CASE \E w \in Workers : Poll(w) \/ EndPoll(w) \/ GiveUp(w) \/ Crash(w)
  <2>1. PICK w \in Workers : Poll(w) \/ EndPoll(w) \/ GiveUp(w) \/ Crash(w)
    BY <1>2
  <2>2. RowsMove /\ mail' \subseteq mail
    BY <1>1, <2>1, RowsMoveWhen DEF Poll, EndPoll, GiveUp, Crash
  <2>3. \A v \in Workers : workers'[v].id = workers[v].id \/ workers'[v].id = None
    <3>1. CASE GiveUp(w) \/ Crash(w)
      BY <1>1, <3>1 DEF GiveUp, Crash, Become
    <3>2. CASE Poll(w) \/ EndPoll(w)
      BY <1>1, <3>2 DEF Poll, EndPoll, Step, WorkerStates
    <3> QED BY <2>1, <3>1, <3>2
  <2>4. \A id \in Ids : jobs'[id].state = "succeeded" => jobs'[id] = jobs[id]
    <3>1. \A id \in Ids : FailedRow(jobs[id]).state = "failed"
      BY <1>1 DEF FailedRow, Rows
    <3> QED BY <2>1, <3>1 DEF Poll, EndPoll, GiveUp, Crash, ExpireLeases, storeVars
  <2> QED BY <1>1, <2>2, <2>3, <2>4 DEF NobodyHas
<1>3. CASE \E w \in Workers, id \in Ids, t \in Tokens : Grant(w, id, t)
  <2>1. PICK w \in Workers, id \in Ids, t \in Tokens : Grant(w, id, t)
    BY <1>3
  <2>2. RowsMove /\ UNCHANGED mail
    BY <2>1, GrantLedger DEF Grant
  <2>3. LeasedRow(jobs[id], t).state = "leased"
    BY <1>1 DEF LeasedRow, Rows
  <2>4. \A i \in Ids : jobs'[i].state = "succeeded" => jobs'[i] = jobs[i]
    BY <1>1, <2>1, <2>3 DEF Grant, Lease, StoreTypeOK
  <2>5. ~SucceededIfThere(id)
    BY <2>1 DEF Grant, Lease, NextToLease, Leasable, SucceededIfThere, Present
  <2>6. \A v \in Workers : v # w => workers'[v] = workers[v]
    BY <1>1, <2>1 DEF Grant, Become
  <2>7. workers'[w].id = id
    BY <1>1, <2>1 DEF Grant, Become, Worker
  <2> QED BY <2>2, <2>4, <2>5, <2>6, <2>7 DEF NobodyHas
<1>4. CASE Serve
  <2>1. PICK m \in mail : ServeComplete(m) \/ ServeFail(m)
    BY <1>4 DEF Serve
  <2>2. RowsMove /\ mail' \subseteq mail
    BY <1>4, <2>1, ServeLedger DEF ServeComplete, ServeFail
  <2>3. \A v \in Workers : workers'[v].id = workers[v].id \/ workers'[v].id = None
    <3>1. PICK pc \in {"idle", "reported"} : Answered(m, pc)
      BY <2>1 DEF ServeComplete, ServeFail
    <3> QED BY <1>1, <3>1 DEF Answered, WorkerStates
  <2>4. \A id \in Ids : jobs'[id].state = "succeeded" => jobs'[id] = jobs[id] \/ Reported(id)
    <3>0. m.id \in Ids /\ m.task \in Results \cup {None} /\ m.retryable \in BOOLEAN
      BY DEF RuntimeInv, RuntimeTypeOK, Messages
    <3>1. CASE ServeComplete(m) /\ Complete(m.id, m.token, m.task)
      <4>1. SucceededRow(jobs[m.id], m.task).result = m.task
        BY <1>1, <3>0 DEF SucceededRow, Rows
      <4> QED BY <1>1, <3>0, <3>1, <4>1 DEF ServeComplete, Complete, StoreTypeOK, Reported
    <3>2. CASE \E retryable \in BOOLEAN : Fail(m.id, m.token, retryable)
      <4>1. /\ FailedRow(jobs[m.id]).state = "failed"
            /\ RequeuedRow(jobs[m.id]).state = "queued"
        BY <1>1, <3>0 DEF FailedRow, RequeuedRow, Rows
      <4> QED BY <1>1, <3>0, <3>2, <4>1 DEF Fail, StoreTypeOK
    <3>3. CASE UNCHANGED storeVars
      BY <3>3 DEF storeVars
    <3> QED BY <2>1, <3>0, <3>1, <3>2, <3>3, ServedFailure DEF ServeComplete
  <2> QED BY <1>1, <2>2, <2>3, <2>4 DEF NobodyHas, Reported
<1>5. CASE (\E m \in mail : LoseReport(m)) \/ Lapse
  <2>1. UNCHANGED workers /\ mail' \subseteq mail /\ RowsMove
    BY <1>1, <1>5, RowsMoveWhen DEF LoseReport, Lapse
  <2>2. \A id \in Ids : jobs'[id].state = "succeeded" => jobs'[id] = jobs[id]
    <3>1. CASE Lapse
      <4>1. PICK id \in Ids : LeaseLapses(id)
        BY <3>1 DEF Lapse
      <4>2. [jobs[id] EXCEPT !.lapsed = TRUE].state = "leased"
        BY <1>1, <4>1 DEF LeaseLapses, Rows
      <4> QED BY <1>1, <4>1, <4>2 DEF LeaseLapses, StoreTypeOK
    <3>2. CASE \E m \in mail : LoseReport(m)
      BY <3>2 DEF LoseReport, storeVars
    <3> QED BY <1>5, <3>1, <3>2
  <2> QED BY <2>1, <2>2 DEF NobodyHas
<1> QED BY <1>2, <1>3, <1>4, <1>5 DEF WorkerLoop, Failure
-----------------------------------------------------------------------------
(* What a worker has in hand                                               *)

\* The request a worker works on is the one its job has.
RequestsKnown ==
  \A w \in Workers : Holding(w) => workers[w].payload = jobs[workers[w].id].payload

\* The lease of a worker is the current one of its job.
HasLease(w) == HoldsLease(workers[w].id, workers[w].token)

\* Whoever has a job after a step of the runtime had it before, or was just granted it.
LEMMA RuntimeStepHands ==
  ASSUME NEW CONSTANT places, RuntimeInv(places), LedgerInv,
         (\E w \in Workers : WorkerLoop(w)) \/ Serve \/ Failure \/ Lapse
  PROVE  \A v \in Workers : Holding(v)' =>
           \/ workers'[v] = workers[v]
           \/ /\ At(v, "reporting") /\ workers'[v].pc = "reported"
              /\ workers'[v].id = workers[v].id /\ workers'[v].payload = workers[v].payload
              /\ workers'[v].task = workers[v].task
           \/ /\ workers'[v].pc = "ensure" /\ workers'[v].id \in Ids
              /\ workers'[v].payload = jobs[workers'[v].id].payload
              /\ HasLease(v)'
<1> DEFINE Kept(v) ==
             \/ workers'[v] = workers[v]
             \/ /\ At(v, "reporting") /\ workers'[v].pc = "reported"
                /\ workers'[v].id = workers[v].id /\ workers'[v].payload = workers[v].payload
                /\ workers'[v].task = workers[v].task
           Granted(v) ==
             /\ workers'[v].pc = "ensure" /\ workers'[v].id \in Ids
             /\ workers'[v].payload = jobs[workers'[v].id].payload
             /\ HasLease(v)'
<1> SUFFICES ASSUME NEW v \in Workers, Holding(v)'
             PROVE  Kept(v) \/ Granted(v)
  OBVIOUS
<1>1. /\ workers \in [Workers -> WorkerStates(places)] /\ StoreTypeOK
      /\ IdleWorker.pc = "idle"
  BY DEF RuntimeInv, RuntimeTypeOK, IdleWorker, Worker
<1>2. CASE \E w \in Workers : Poll(w) \/ EndPoll(w) \/ GiveUp(w) \/ Crash(w)
  <2>1. PICK w \in Workers : Poll(w) \/ EndPoll(w) \/ GiveUp(w) \/ Crash(w)
    BY <1>2
  <2>2. CASE GiveUp(w) \/ Crash(w)
    BY <1>1, <2>2 DEF GiveUp, Crash, Become, Holding
  <2>3. CASE Poll(w) \/ EndPoll(w)
    BY <1>1, <2>3 DEF Poll, EndPoll, Step, WorkerStates, Holding
  <2> QED BY <2>1, <2>2, <2>3
<1>3. CASE \E w \in Workers, id \in Ids, t \in Tokens : Grant(w, id, t)
  <2>1. PICK w \in Workers, id \in Ids, t \in Tokens : Grant(w, id, t)
    BY <1>3
  <2>2. CASE v # w
    BY <1>1, <2>1, <2>2 DEF Grant, Become
  <2>3. CASE v = w
    <3>1. /\ workers'[v].pc = "ensure" /\ workers'[v].id = id /\ workers'[v].token = t
          /\ workers'[v].payload = jobs[id].payload
      BY <1>1, <2>1, <2>3 DEF Grant, Become, Worker
    <3>2. LeasedRow(jobs[id], t).state = "leased" /\ LeasedRow(jobs[id], t).token = t
      BY <1>1 DEF LeasedRow, StoreTypeOK, Rows
    <3>3. jobs'[id] = LeasedRow(jobs[id], t)
      BY <1>1, <2>1 DEF Grant, Lease, StoreTypeOK
    <3> QED BY <3>1, <3>2, <3>3 DEF HasLease, HoldsLease
  <2> QED BY <2>2, <2>3
<1>4. CASE Serve
  <2>1. PICK m \in mail : ServeComplete(m) \/ ServeFail(m)
    BY <1>4 DEF Serve
  <2>2. PICK pc \in {"idle", "reported"} : Answered(m, pc)
    BY <2>1 DEF ServeComplete, ServeFail
  <2> QED BY <1>1, <2>2 DEF Answered, WorkerStates, Holding, At
<1>5. CASE (\E m \in mail : LoseReport(m)) \/ Lapse
  BY <1>5 DEF LoseReport, Lapse
<1> QED BY <1>2, <1>3, <1>4, <1>5 DEF WorkerLoop, Failure

LEMMA RuntimeStepRequests ==
  ASSUME NEW CONSTANT places, RuntimeInv(places), LedgerInv, RequestsKnown,
         (\E w \in Workers : WorkerLoop(w)) \/ Serve \/ Failure \/ Lapse
  PROVE  RequestsKnown'
<1> SUFFICES ASSUME NEW v \in Workers, Holding(v)'
             PROVE  workers'[v].payload = jobs'[workers'[v].id].payload
  BY DEF RequestsKnown
<1>1. /\ Holding(v) => workers[v].id \in Ids
      /\ \A id \in Ids : jobs'[id].payload = jobs[id].payload
  BY RuntimeStepQuiet, RowsMoveKeeps DEF RuntimeInv, LeaseShape, Holding
<1>2. CASE workers'[v] = workers[v]
  BY <1>1, <1>2 DEF RequestsKnown, Holding
<1>3. CASE /\ At(v, "reporting") /\ workers'[v].id = workers[v].id
           /\ workers'[v].payload = workers[v].payload
  BY <1>1, <1>3 DEF RequestsKnown, Holding, At
<1>4. CASE workers'[v].id \in Ids /\ workers'[v].payload = jobs[workers'[v].id].payload
  BY <1>1, <1>4
<1> QED BY <1>2, <1>3, <1>4, RuntimeStepHands

\* A lease that somebody still speaks of is not granted anew.
LEMMA RuntimeStepTokens ==
  ASSUME NEW CONSTANT places, RuntimeInv(places), LedgerInv,
         (\E w \in Workers : WorkerLoop(w)) \/ Serve \/ Failure \/ Lapse
  PROVE  \A m \in mail : HoldsLease(m.id, m.token)' => HoldsLease(m.id, m.token)
<1> SUFFICES ASSUME NEW m \in mail, HoldsLease(m.id, m.token)'
             PROVE  HoldsLease(m.id, m.token)
  OBVIOUS
<1>1. m.id \in Ids /\ jobs \in [Ids -> Rows]
  BY DEF RuntimeInv, RuntimeTypeOK, StoreTypeOK, Messages
<1>2. CASE \E id \in Ids, t \in Tokens, w \in Workers : Grant(w, id, t)
  <2>1. PICK id \in Ids, t \in Tokens, w \in Workers : Grant(w, id, t)
    BY <1>2
  <2>2. LeasedRow(jobs[id], t).token = t /\ m.token # t
    BY <1>1, <2>1 DEF LeasedRow, Rows, Grant, Unused
  <2> QED BY <1>1, <2>1, <2>2 DEF Grant, Lease, HoldsLease
<1>3. CASE ExpireLeases
  <2>1. FailedRow(jobs[m.id]).state = "failed"
    BY <1>1 DEF FailedRow, Rows
  <2> QED BY <1>1, <1>3, <2>1 DEF ExpireLeases, HoldsLease
<1>4. CASE \E n \in mail : ServeComplete(n) \/ ServeFail(n)
  <2>1. PICK n \in mail : ServeComplete(n) \/ ServeFail(n)
    BY <1>4
  <2>2. n.id \in Ids /\ n.task \in Results \cup {None} /\ n.retryable \in BOOLEAN
    BY DEF RuntimeInv, RuntimeTypeOK, Messages
  <2>3. /\ FailedRow(jobs[n.id]).state = "failed" /\ RequeuedRow(jobs[n.id]).state = "queued"
        /\ SucceededRow(jobs[n.id], n.task).state = "succeeded"
    BY <1>1, <2>2 DEF FailedRow, RequeuedRow, SucceededRow, Rows
  <2>4. CASE UNCHANGED storeVars
    BY <2>4 DEF storeVars, HoldsLease
  <2>5. CASE \/ Complete(n.id, n.token, n.task)
             \/ \E retryable \in BOOLEAN : Fail(n.id, n.token, retryable)
    BY <1>1, <2>2, <2>3, <2>5 DEF Complete, Fail, HoldsLease
  <2> QED BY <2>1, <2>2, <2>4, <2>5, ServedFailure DEF ServeComplete
<1>5. CASE \E id \in Ids : LeaseLapses(id)
  <2>1. PICK id \in Ids : LeaseLapses(id)
    BY <1>5
  <2>2. /\ [jobs[id] EXCEPT !.lapsed = TRUE].state = jobs[id].state
        /\ [jobs[id] EXCEPT !.lapsed = TRUE].token = jobs[id].token
    BY <1>1, <2>1 DEF Rows
  <2> QED BY <1>1, <2>1, <2>2 DEF LeaseLapses, HoldsLease
<1>6. CASE UNCHANGED storeVars
  BY <1>6 DEF storeVars, HoldsLease
<1> QED
  BY <1>2, <1>3, <1>4, <1>5, <1>6
     DEF WorkerLoop, Serve, Failure, Lapse, Poll, EndPoll, GiveUp, Crash, LoseReport

\* A lease is worked on only as long as it is the current one.
Leases(places) == \A w \in Workers : workers[w].pc \in places => HasLease(w)

\* With one process nobody else takes the lease of a worker in the middle of its job.
LEMMA RuntimeStepLeases ==
  ASSUME NEW CONSTANT places, RuntimeInv(places), LedgerInv, Leases(places),
         places \cap Between = {}, \A v, w \in Workers : v = w,
         (\E w \in Workers : WorkerLoop(w)) \/ Serve \/ Failure \/ Lapse
  PROVE  Leases(places)'
<1> SUFFICES ASSUME NEW v \in Workers, workers'[v].pc \in places
             PROVE  HasLease(v)'
  BY DEF Leases
<1>1. Holding(v)' /\ "reported" \notin places
  BY DEF Holding, Between
<1>2. CASE workers'[v].pc = "ensure" /\ HasLease(v)'
  BY <1>2
<1>3. CASE workers'[v] = workers[v]
  <2> DEFINE id == workers[v].id
             t == workers[v].token
  <2>1. /\ workers[v].pc \notin Between /\ Holding(v) /\ id \in Ids /\ HoldsLease(id, t)
        /\ jobs \in [Ids -> Rows]
    BY <1>1, <1>3 DEF Leases, HasLease, Between, Holding, RuntimeInv, LeaseShape, RuntimeTypeOK,
       StoreTypeOK
  <2>2. ~At(v, "idle") /\ ~At(v, "polling") /\ ~At(v, "reporting") /\ ~At(v, "reported")
    BY <2>1 DEF At, Between
  <2>3. \A m \in mail : ~HoldsLease(m.id, m.token) \/ m.id # id
    BY <2>1, <2>2 DEF LedgerInv, HoldsLease, At
  <2>4. CASE UNCHANGED storeVars
    BY <1>3, <2>1, <2>4 DEF storeVars, HasLease, HoldsLease
  <2>5. CASE \E m \in mail : ServeComplete(m) \/ ServeFail(m)
    <3>1. PICK m \in mail : ServeComplete(m) \/ ServeFail(m)
      BY <2>5
    <3>2. jobs'[id] = jobs[id]
      BY <2>1, <2>3, <3>1 DEF ServeComplete, ServeFail, Complete, Fail, storeVars
    <3> QED BY <1>3, <2>1, <3>2 DEF HasLease, HoldsLease
  <2>6. CASE \E i \in Ids : LeaseLapses(i)
    <3>1. PICK i \in Ids : LeaseLapses(i)
      BY <2>6
    <3>2. /\ [jobs[i] EXCEPT !.lapsed = TRUE].state = jobs[i].state
          /\ [jobs[i] EXCEPT !.lapsed = TRUE].token = jobs[i].token
      BY <2>1, <3>1 DEF Rows
    <3> QED BY <1>3, <2>1, <3>1, <3>2 DEF LeaseLapses, HasLease, HoldsLease
  <2> QED
    BY <2>2, <2>4, <2>5, <2>6
       DEF WorkerLoop, Poll, Grant, EndPoll, GiveUp, Serve, Failure, Crash, LoseReport, Lapse
<1> QED BY <1>1, <1>2, <1>3, RuntimeStepHands

-----------------------------------------------------------------------------
(* What a client can tell of the runtime                                   *)

\* Jobs fail, or one succeeds by the report of whoever has its lease, or nothing is seen.
LEMMA RuntimeStepSeen ==
  ASSUME NEW CONSTANT places, RuntimeInv(places),
         (\E w \in Workers : WorkerLoop(w)) \/ Serve \/ Failure \/ Lapse
  PROVE  \/ NothingSeen
         \/ \E failing \in SUBSET Ids : JobsFail(failing)
         \/ \E m \in mail : /\ m.id \in Ids /\ m.task \in Results
                            /\ HoldsLease(m.id, m.token) /\ JobSucceeds(m.id, m.task)
<1>1. StoreTypeOK
  BY DEF RuntimeInv, RuntimeTypeOK
<1>2. UNCHANGED storeVars => NothingSeen
  BY RowsUnseen DEF storeVars
<1>3. CASE \E w \in Workers : WorkerLoop(w)
  <2>1. PICK w \in Workers : WorkerLoop(w)
    BY <1>3
  <2>2. CASE Poll(w)
    BY <1>1, <2>2, ExpirySeen DEF Poll
  <2>3. CASE \E id \in Ids, t \in Tokens : Grant(w, id, t)
    BY <1>1, <2>3, LeaseSeen DEF Grant
  <2>4. CASE EndPoll(w) \/ GiveUp(w)
    BY <1>2, <2>4 DEF EndPoll, GiveUp
  <2> QED BY <2>1, <2>2, <2>3, <2>4 DEF WorkerLoop
<1>4. CASE Serve
  <2>1. PICK m \in mail : ServeComplete(m) \/ ServeFail(m)
    BY <1>4 DEF Serve
  <2>2. m.id \in Ids /\ m.task \in Results \cup {None} /\ m.retryable \in BOOLEAN
    BY DEF RuntimeInv, RuntimeTypeOK, Messages
  <2>3. CASE ServeComplete(m) /\ Complete(m.id, m.token, m.task)
    <3>1. m.task \in Results /\ HoldsLease(m.id, m.token)
      BY <2>2, <2>3 DEF ServeComplete, Complete
    <3> QED BY <1>1, <2>2, <2>3, <3>1, CompletionSeen
  <2>4. CASE \E retryable \in BOOLEAN : Fail(m.id, m.token, retryable)
    BY <1>1, <2>2, <2>4, FailureSeen
  <2> QED BY <1>2, <2>1, <2>2, <2>3, <2>4, ServedFailure DEF ServeComplete
<1>5. CASE Failure
  BY <1>2, <1>5 DEF Failure, Crash, LoseReport
<1>6. CASE Lapse
  BY <1>1, <1>6, AgeingUnseen DEF Lapse
<1> QED BY <1>3, <1>4, <1>5, <1>6

=============================================================================
