----------------------------- MODULE QueueServer ------------------------------
(***************************************************************************)
(* The server around the queue: the MCP tool handlers (Enqueue, then       *)
(* waitForResult) and the worker API (lease, complete, fail) of            *)
(* internal/server/handler.go, the retention sweep and the restart of      *)
(* internal/serverapp.  Handlers run concurrently and touch the database   *)
(* one statement at a time; a step below is one statement, with the local  *)
(* code that runs up to the next one.                                      *)
(*                                                                         *)
(* Workers are not described here.  Any token that was ever granted may    *)
(* come back in any number of reports, late, duplicated, in any order and  *)
(* with any outcome: the server has to be right whatever they do.          *)
(***************************************************************************)
EXTENDS QueueStore

CONSTANTS
  Keys,      \* idempotency keys; a job with a key has it (hashed) as identifier
  Callers,   \* MCP calls; a request without a key gets a random identifier,
             \* named here by the call that drew it
  Pollers,   \* concurrent requests to /worker/v1/lease
  Reporters  \* concurrent requests to /worker/v1/jobs/{id}/complete and /fail

ASSUME ServerAssumption ==
  /\ Ids = Keys \cup Callers
  /\ Keys \cap Callers = {}

VARIABLES
  callers,   \* each MCP call: where it is, its request, its answer
  pollers,   \* the lease requests that are in their long-poll loop
  reporters, \* each report request: where it is and what it reports
  grants,    \* the job each token was granted for
  acked,     \* history: the results whose completion was acknowledged, per job
  attached   \* history: the calls whose job is still the row they were bound to

serverVars == <<callers, pollers, reporters>>
history == <<acked, attached>>
vars == <<jobs, clock, callers, pollers, reporters, grants, acked, attached>>

Answer(status, result) == [status |-> status, result |-> result]
Unanswered == Answer("none", None)
Replies ==
  [status : {"none", "queued", "conflict", "error", "succeeded", "failed"},
   result : Results \cup {None}]

Caller(pc, id, payload, reply) ==
  [pc |-> pc, id |-> id, payload |-> payload, reply |-> reply]
IdleCaller == Caller("idle", None, None, Unanswered)
CallerStates ==
  [pc : {"idle", "insert", "reread", "wait", "sleep", "done"},
   id : Ids \cup {None}, payload : Payloads \cup {None}, reply : Replies]

\* A failure is judged when its look-up of the job was answered.
Reporter(pc, token, result, retryable, judged) ==
  [pc |-> pc, token |-> token, result |-> result, retryable |-> retryable,
   judged |-> judged]
IdleReporter == Reporter("idle", None, None, FALSE, FALSE)
ReporterStates ==
  [pc : {"idle", "recheck", "fail"}, token : Tokens \cup {None},
   result : Results \cup {None}, retryable : BOOLEAN, judged : BOOLEAN]

TypeOK ==
  /\ StoreTypeOK
  /\ callers \in [Callers -> CallerStates]
  /\ pollers \in SUBSET Pollers
  /\ reporters \in [Reporters -> ReporterStates]
  /\ grants \in [Tokens -> Ids \cup {None}]
  /\ acked \in [Ids -> SUBSET Results]
  /\ attached \in SUBSET Callers

Init ==
  /\ StoreInit
  /\ callers = [c \in Callers |-> IdleCaller]
  /\ pollers = {}
  /\ reporters = [r \in Reporters |-> IdleReporter]
  /\ grants = [t \in Tokens |-> None]
  /\ acked = [id \in Ids |-> {}]
  /\ attached = {}

-----------------------------------------------------------------------------
(* MCP calls                                                               *)

Goto(c, pc) == callers' = [callers EXCEPT ![c].pc = pc]

\* The call is answered with s; a succeeded job carries its result.
Reply(c, s) ==
  callers' = [callers EXCEPT
    ![c].pc = "done",
    ![c].reply = Answer(s, IF s = "succeeded" THEN jobs[callers[c].id].result
                                              ELSE None)]

Attach(c) == attached' = attached \cup {c}

SamePayload(id, p) == jobs[id].payload = p

\* A tool handler validates its input and enters Enqueue, which looks up a keyed
\* job first and compares its payload.
Submit(c, key, p) ==
  LET id == IF key = None THEN c ELSE key
      Enter(pc, reply) == callers' = [callers EXCEPT ![c] = Caller(pc, id, p, reply)]
  IN
  /\ callers[c].pc = "idle"
  /\ \/ /\ key = None \/ ~Present(id)
        /\ Enter("insert", Unanswered)
        /\ UNCHANGED attached
     \/ /\ key # None /\ Present(id) /\ SamePayload(id, p)
        /\ Enter("wait", Unanswered)
        /\ Attach(c)
     \/ /\ key # None /\ Present(id) /\ ~SamePayload(id, p)
        /\ Enter("done", Answer("conflict", None))
        /\ UNCHANGED attached
  /\ UNCHANGED <<storeVars, pollers, reporters, grants, acked>>

\* The INSERT of Enqueue; a primary-key conflict sends a keyed call back to look
\* at the row that was there first.
InsertJob(c) ==
  /\ callers[c].pc = "insert"
  /\ \/ Insert(callers[c].id, callers[c].payload) /\ Goto(c, "wait") /\ Attach(c)
     \/ /\ Present(callers[c].id)
        /\ Goto(c, "reread")
        /\ UNCHANGED <<storeVars, attached>>
  /\ UNCHANGED <<pollers, reporters, grants, acked>>

\* Mutant: the row that won the race is returned without comparing payloads.
RereadJobUnchecked(c) ==
  /\ callers[c].pc = "reread"
  /\ \/ ~Present(callers[c].id) /\ Reply(c, "error") /\ UNCHANGED attached
     \/ Present(callers[c].id) /\ Goto(c, "wait") /\ Attach(c)
  /\ UNCHANGED <<storeVars, pollers, reporters, grants, acked>>

RereadJob(c) ==
  LET id == callers[c].id IN
  /\ callers[c].pc = "reread"
  /\ \/ ~Present(id) /\ Reply(c, "error") /\ UNCHANGED attached
     \/ /\ Present(id) /\ SamePayload(id, callers[c].payload)
        /\ Goto(c, "wait") /\ Attach(c)
     \/ /\ Present(id) /\ ~SamePayload(id, callers[c].payload)
        /\ Reply(c, "conflict") /\ UNCHANGED attached
  /\ UNCHANGED <<storeVars, pollers, reporters, grants, acked>>

\* Mutant: the first row read is the answer, whatever its state.
PollJobOnce(c) ==
  /\ callers[c].pc \in {"wait", "sleep"}
  /\ Present(callers[c].id)
  /\ Reply(c, jobs[callers[c].id].state)
  /\ UNCHANGED <<storeVars, pollers, reporters, grants, history>>

\* One turn of waitForResult: at once the first time, then at each tick.
PollJob(c) ==
  LET id == callers[c].id IN
  /\ callers[c].pc \in {"wait", "sleep"}
  /\ \/ ~Present(id) /\ Reply(c, "error")
     \/ Finished(id) /\ Reply(c, jobs[id].state)
     \/ Present(id) /\ ~Finished(id) /\ Goto(c, "sleep")
  /\ UNCHANGED <<storeVars, pollers, reporters, grants, history>>

\* The deadline answers with the last row read, which was not finished.
StopWaiting(c) ==
  /\ callers[c].pc = "sleep"
  /\ Reply(c, "queued")
  /\ UNCHANGED <<storeVars, pollers, reporters, grants, history>>

\* The client hangs up: the next statement of its handler fails.
Waiting(c) == callers[c].pc \in {"insert", "reread", "wait", "sleep"}

HangUp(c) ==
  /\ Waiting(c)
  /\ Reply(c, "error")
  /\ UNCHANGED <<storeVars, pollers, reporters, grants, history>>

\* things_capture_status, asked by a caller that was left with "queued".
CheckStatus(c) ==
  LET id == callers[c].id IN
  /\ callers[c].pc = "done" /\ callers[c].reply.status = "queued"
  /\ \/ ~Present(id) /\ Reply(c, "error")
     \/ Finished(id) /\ Reply(c, jobs[id].state)
  /\ UNCHANGED <<storeVars, pollers, reporters, grants, history>>

-----------------------------------------------------------------------------
(* Worker API: leasing                                                     *)

\* A lease request expires exhausted leases once, then polls.
StartPoll(h) ==
  /\ h \notin pollers
  /\ ExpireLeases
  /\ pollers' = pollers \cup {h}
  /\ UNCHANGED <<callers, reporters, grants, history>>

FreshToken(t) == grants[t] = None

GrantLease(h, id, t) ==
  /\ h \in pollers
  /\ FreshToken(t)
  /\ Lease(id, t)
  /\ grants' = [grants EXCEPT ![t] = id]
  /\ pollers' = pollers \ {h}
  /\ UNCHANGED <<callers, reporters, history>>

\* The long poll runs out, or its client goes away.
EndPoll(h) ==
  /\ h \in pollers
  /\ pollers' = pollers \ {h}
  /\ UNCHANGED <<storeVars, callers, reporters, grants, history>>

-----------------------------------------------------------------------------
(* Worker API: reports                                                     *)

Granted(t) == grants[t] # None
JobOf(r) == grants[reporters[r].token]

FinishReport(r) == reporters' = [reporters EXCEPT ![r] = IdleReporter]

Acknowledge(id, result) == acked' = [acked EXCEPT ![id] = @ \cup {result}]

\* A completion arrives and its UPDATE runs.
ReportComplete(r, t, result) ==
  /\ reporters[r].pc = "idle"
  /\ Granted(t)
  /\ \/ /\ Complete(grants[t], t, result)
        /\ Acknowledge(grants[t], result)
        /\ UNCHANGED reporters
     \/ /\ ~HoldsLease(grants[t], t)
        /\ reporters' = [reporters EXCEPT ![r] = Reporter("recheck", t, result, FALSE, FALSE)]
        /\ UNCHANGED <<storeVars, acked>>
  /\ UNCHANGED <<callers, pollers, grants, attached>>

\* Its UPDATE found no row: a repeated completion is still acknowledged.
RecheckComplete(r) ==
  /\ reporters[r].pc = "recheck"
  /\ IF AlreadyCompleted(JobOf(r), reporters[r].result)
       THEN Acknowledge(JobOf(r), reporters[r].result)
       ELSE UNCHANGED acked
  /\ FinishReport(r)
  /\ UNCHANGED <<storeVars, callers, pollers, grants, attached>>

\* Whether a failure stays retryable, judged on the row as it is now.
MayRetry(id, retryable) ==
  retryable /\ (Present(id) => jobs[id].attempts < MaxAttempts)

\* A failure arrives; the handler reads the job before it fails it.  When that fails
\* the handler goes on with what the worker said.
ReportFail(r, t, retryable) ==
  /\ reporters[r].pc = "idle"
  /\ Granted(t)
  /\ \E judged \in BOOLEAN :
       reporters' = [reporters EXCEPT ![r] =
         Reporter("fail", t, None,
                  IF judged THEN MayRetry(grants[t], retryable) ELSE retryable, judged)]
  /\ UNCHANGED <<storeVars, callers, pollers, grants, history>>

FailJob(r) ==
  /\ reporters[r].pc = "fail"
  /\ \/ Fail(JobOf(r), reporters[r].token, reporters[r].retryable)
     \/ ~HoldsLease(JobOf(r), reporters[r].token) /\ UNCHANGED storeVars
  /\ FinishReport(r)
  /\ UNCHANGED <<callers, pollers, grants, history>>

-----------------------------------------------------------------------------
(* Retention, restart and time                                             *)

\* History: what was said about a row ends with the row.
ForgetPruned ==
  LET gone == {id \in Ids : Prunable(jobs[id])} IN
  /\ acked' = [id \in Ids |-> IF id \in gone THEN {} ELSE acked[id]]
  /\ attached' = {c \in attached : callers[c].id \notin gone}

\* The periodic sweep.
Prune ==
  /\ \E id \in Ids : Prunable(jobs[id])
  /\ PruneTerminal
  /\ ForgetPruned
  /\ UNCHANGED <<serverVars, grants>>

\* The server stops at any point and comes back: handlers vanish with their
\* connections, the database stays, and start-up sweeps before it serves.
Restart ==
  /\ PruneTerminal
  /\ ForgetPruned
  /\ callers' = [c \in Callers |->
       IF Waiting(c)
         THEN [callers[c] EXCEPT !.pc = "done", !.reply = Answer("error", None)]
         ELSE callers[c]]
  /\ pollers' = {}
  /\ reporters' = [r \in Reporters |-> IdleReporter]
  /\ UNCHANGED grants

TimePasses ==
  /\ \/ \E id \in Ids : LeaseLapses(id) \/ RetentionPasses(id)
     \/ Tick
  /\ UNCHANGED <<serverVars, grants, history>>

-----------------------------------------------------------------------------

CallerStep ==
  \E c \in Callers :
    \/ \E key \in Keys \cup {None}, p \in Payloads : Submit(c, key, p)
    \/ InsertJob(c)
    \/ RereadJob(c)
    \/ PollJob(c)
    \/ StopWaiting(c)
    \/ HangUp(c)
    \/ CheckStatus(c)

LeaseStep ==
  \E h \in Pollers :
    \/ StartPoll(h)
    \/ \E id \in Ids, t \in Tokens : GrantLease(h, id, t)
    \/ EndPoll(h)

ReportStep ==
  \E r \in Reporters :
    \/ \E t \in Tokens, result \in Results : ReportComplete(r, t, result)
    \/ RecheckComplete(r)
    \/ \E t \in Tokens, retryable \in BOOLEAN : ReportFail(r, t, retryable)
    \/ FailJob(r)

Next ==
  \/ CallerStep
  \/ LeaseStep
  \/ ReportStep
  \/ Prune
  \/ Restart
  \/ TimePasses

Spec == Init /\ [][Next]_vars

-----------------------------------------------------------------------------
(* Properties                                                              *)

\* A report whose look-up failed and that still holds the lease of a job.
PutsBackUnjudged(r, id) ==
  /\ reporters[r].pc = "fail" /\ ~reporters[r].judged
  /\ HoldsLease(id, reporters[r].token)

\* A job goes back into the queue only with deliveries left, unless the very report
\* that puts it back could not look it up.  The fail handler reads the attempt count and
\* updates the row in two statements, and a lease may lapse and be granted again in
\* between, but the token fences the second statement off.
RequeuedBelowMax ==
  [][\A id \in Ids : jobs[id].state = "leased" /\ jobs'[id].state = "queued" =>
       \/ jobs[id].attempts < MaxAttempts
       \/ \E r \in Reporters : PutsBackUnjudged(r, id)]_vars

\* Once the server has acknowledged a completion to a worker, the job is and
\* stays succeeded with that very result for as long as retention keeps it: no
\* late failure, no expiry sweep and no completion by a superseded worker undoes
\* or rewrites it (the worker marks its journal entry reported on the strength of
\* the acknowledgement).
AckedCompletionSticks ==
  \A id \in Ids : \A result \in acked[id] :
    jobs[id].state = "succeeded" /\ jobs[id].result = result

\* Two calls that reuse one idempotency key never end up attached to a job with
\* the other call's payload, however their look-ups and inserts interleave.
KeysNeverMixPayloads ==
  \A c \in attached :
    Present(callers[c].id) /\ SamePayload(callers[c].id, callers[c].payload)

\* What a call was told of a finished job is still what the row says, until
\* retention removes the row.
AnswersStayTrue ==
  \A c \in attached :
    LET row == jobs[callers[c].id]
        reply == callers[c].reply
    IN /\ reply.status = "succeeded" =>
            row.state = "succeeded" /\ row.result = reply.result
       /\ reply.status = "failed" => row.state = "failed"

\* A finished row changes only by ageing until retention deletes it: a step never
\* takes it back to the queue, leases it again or gives it another outcome.
OutcomesAreFinal ==
  [][\A id \in Ids : Finished(id) =>
       \/ jobs[id].aged /\ ~Present(id)'
       \/ jobs'[id] \in {jobs[id], [jobs[id] EXCEPT !.aged = TRUE]}]_vars

\* The queue seen by its callers alone.
Lifecycle == INSTANCE JobLifecycle WITH
  status <- [id \in Ids |-> StatusOf(jobs[id])],
  payload <- [id \in Ids |-> jobs[id].payload],
  result <- [id \in Ids |-> jobs[id].result],
  asked <- [c \in Callers |-> <<callers[c].id, callers[c].payload>>],
  told <- [c \in Callers |-> <<callers[c].reply.status, callers[c].reply.result>>]

\* The server with all its handlers, leases and tokens keeps the promises of
\* JobLifecycle: jobs come from callers only, are settled once, and callers are
\* told nothing but the truth of the moment.
RefinesLifecycle == Lifecycle!Spec

\* What "maximum delivery attempts" (internal/queue/store.go:155) says: no job is
\* delivered more often than MaxAttempts.
AttemptsWithinMax == \A id \in Ids : jobs[id].attempts <= MaxAttempts

=============================================================================
