-------------------------- MODULE QueueServerProofs ---------------------------
(***************************************************************************)
(* Theorems about QueueServer for every number of jobs, callers, tokens,   *)
(* concurrent requests and every MaxAttempts.                              *)
(***************************************************************************)
EXTENDS QueueServer, QueueStoreProofs, TLAPS

\* The shapes that the type invariant rests on: a report being handled names a
\* token that was granted, and a call past its first step knows its job.
ReporterShape ==
  \A r \in Reporters : reporters[r].pc # "idle" =>
    /\ reporters[r].token \in Tokens
    /\ grants[reporters[r].token] \in Ids
    /\ reporters[r].pc = "recheck" => reporters[r].result \in Results

CallerShape ==
  \A c \in Callers :
    /\ callers[c].pc = "idle" => callers[c] = IdleCaller
    /\ callers[c].pc # "idle" =>
         callers[c].id \in Ids /\ callers[c].payload \in Payloads
    /\ callers[c].pc # "done" => callers[c].reply = Unanswered

TypeInv == TypeOK /\ ReporterShape /\ CallerShape

LEMMA InitTypeInv == Init => TypeInv
BY StoreAssumption, ServerAssumption
   DEF Init, StoreInit, TypeInv, TypeOK, StoreTypeOK, Rows, NoRow, States, AttemptCounts,
       IdleCaller, Caller, CallerStates, Unanswered, Answer, Replies, IdleReporter,
       Reporter, ReporterStates,
       ReporterShape, CallerShape

\* The caller's records stay callers' records.
LEMMA CallerTypes ==
  ASSUME TypeInv, NEW c \in Callers
  PROVE  /\ \A pc \in {"insert", "reread", "wait", "sleep", "done"} :
              Goto(c, pc) => callers' \in [Callers -> CallerStates]
         /\ \A s \in {"queued", "conflict", "error", "succeeded", "failed"} :
              Reply(c, s) /\ callers[c].id \in Ids
                => callers' \in [Callers -> CallerStates]
<1>0. callers \in [Callers -> CallerStates] /\ StoreTypeOK
  BY DEF TypeInv, TypeOK
<1>1. ASSUME NEW pc \in {"insert", "reread", "wait", "sleep", "done"}, Goto(c, pc)
      PROVE  callers' \in [Callers -> CallerStates]
  <2>1. [callers[c] EXCEPT !.pc = pc] \in CallerStates
    BY <1>0 DEF CallerStates
  <2> QED BY <1>0, <1>1, <2>1 DEF Goto
<1>2. ASSUME NEW s \in {"queued", "conflict", "error", "succeeded", "failed"},
             Reply(c, s), callers[c].id \in Ids
      PROVE  callers' \in [Callers -> CallerStates]
  <2>1. jobs[callers[c].id].result \in Results \cup {None}
    BY <1>0, <1>2 DEF StoreTypeOK, Rows
  <2> DEFINE reply == Answer(s, IF s = "succeeded" THEN jobs[callers[c].id].result
                                                  ELSE None)
  <2>2. reply \in Replies
    BY <2>1 DEF Replies, Answer
  <2> HIDE DEF reply
  <2>3. [callers[c] EXCEPT !.pc = "done", !.reply = reply] \in CallerStates
    BY <1>0, <2>2 DEF CallerStates
  <2>4. callers' = [callers EXCEPT ![c] =
                      [callers[c] EXCEPT !.pc = "done", !.reply = reply]]
    BY <1>0, <1>2 DEF Reply, reply
  <2> QED BY <1>0, <2>3, <2>4
<1> QED BY <1>1, <1>2

\* Calls keep the invariant of their own state and write well-typed rows.
LEMMA CallerStepTypes == TypeInv /\ CallerStep => TypeInv'
<1> SUFFICES ASSUME TypeInv, NEW c \in Callers,
                    \/ \E key \in Keys \cup {None}, p \in Payloads : Submit(c, key, p)
                    \/ InsertJob(c) \/ RereadJob(c) \/ PollJob(c)
                    \/ StopWaiting(c) \/ HangUp(c) \/ CheckStatus(c)
             PROVE  TypeInv'
  BY DEF CallerStep
<1>1. /\ callers \in [Callers -> CallerStates] /\ callers[c] \in CallerStates
      /\ StoreTypeOK /\ attached \in SUBSET Callers
  BY DEF TypeInv, TypeOK
<1>2. /\ UNCHANGED <<pollers, reporters, grants, acked>>
      /\ attached' \in SUBSET Callers
  BY <1>1 DEF Submit, InsertJob, RereadJob, PollJob, StopWaiting, HangUp, CheckStatus, Attach, history
<1>3. ASSUME StoreTypeOK', callers' \in [Callers -> CallerStates],
             \A d \in Callers : d # c => callers'[d] = callers[d],
             callers'[c].pc # "idle", callers'[c].id \in Ids,
             callers'[c].payload \in Payloads,
             callers'[c].pc # "done" => callers'[c].reply = Unanswered
      PROVE  TypeInv'
  BY <1>2, <1>3 DEF TypeInv, TypeOK, ReporterShape, CallerShape
<1>4. CASE \E key \in Keys \cup {None}, p \in Payloads : Submit(c, key, p)
  <2>1. PICK key \in Keys \cup {None}, p \in Payloads : Submit(c, key, p)
    BY <1>4
  <2> DEFINE id == IF key = None THEN c ELSE key
  <2>2. id \in Ids
    BY ServerAssumption
  <2> HIDE DEF id
  <2>3. PICK pc \in {"insert", "wait", "done"}, status \in {"none", "conflict"} :
          /\ pc # "done" => status = "none"
          /\ callers' = [callers EXCEPT ![c] = Caller(pc, id, p, Answer(status, None))]
    BY <2>1 DEF Submit, Unanswered, id
  <2>4. Answer(status, None) \in Replies
    BY DEF Replies, Answer
  <2>5. Caller(pc, id, p, Answer(status, None)) \in CallerStates
    BY <2>2, <2>4 DEF CallerStates, Caller
  <2>6. StoreTypeOK'
    BY <1>1, <2>1, StoreTypes DEF Submit
  <2> QED BY <1>1, <1>3, <2>2, <2>3, <2>5, <2>6 DEF Unanswered, Caller
<1>5. ASSUME callers[c].pc \notin {"idle", "done"} PROVE
      callers[c].id \in Ids /\ callers[c].payload \in Payloads
        /\ callers[c].reply = Unanswered
  BY <1>5 DEF TypeInv, CallerShape
<1>6. ASSUME NEW pc \in {"insert", "reread", "wait", "sleep"}, Goto(c, pc),
             callers[c].pc \notin {"idle", "done"}, StoreTypeOK'
      PROVE  TypeInv'
  BY <1>1, <1>3, <1>5, <1>6, CallerTypes DEF Goto, CallerStates
<1>7. ASSUME NEW s \in {"queued", "conflict", "error", "succeeded", "failed"},
             Reply(c, s), callers[c].id \in Ids, callers[c].payload \in Payloads,
             StoreTypeOK'
      PROVE  TypeInv'
  <2>1. callers' \in [Callers -> CallerStates]
    BY <1>7, CallerTypes
  <2>2. /\ callers'[c].pc = "done" /\ callers'[c].id = callers[c].id
        /\ callers'[c].payload = callers[c].payload
        /\ \A d \in Callers : d # c => callers'[d] = callers[d]
    BY <1>1, <1>7 DEF Reply, CallerStates
  <2> QED BY <1>3, <1>7, <2>1, <2>2
<1>8. ASSUME Finished(callers[c].id)
      PROVE  jobs[callers[c].id].state \in {"succeeded", "failed"}
  BY <1>8 DEF Finished, Terminal
<1>9. CASE InsertJob(c)
  <2>1. callers[c].pc = "insert" /\ callers[c].id \in Ids /\ callers[c].payload \in Payloads
    BY <1>5, <1>9 DEF InsertJob
  <2>2. StoreTypeOK'
    BY <1>1, <1>9, <2>1, StoreTypes DEF InsertJob
  <2> QED BY <1>6, <1>9, <2>1, <2>2 DEF InsertJob
<1>10. CASE RereadJob(c)
  <2>1. callers[c].pc = "reread" /\ StoreTypeOK'
    BY <1>1, <1>10, StoreTypes DEF RereadJob
  <2> QED BY <1>5, <1>6, <1>7, <1>10, <2>1 DEF RereadJob
<1>11. CASE PollJob(c)
  <2>1. callers[c].pc \in {"wait", "sleep"} /\ StoreTypeOK'
    BY <1>1, <1>11, StoreTypes DEF PollJob
  <2> QED BY <1>5, <1>6, <1>7, <1>8, <1>11, <2>1 DEF PollJob
<1>12. CASE StopWaiting(c) \/ HangUp(c)
  <2>1. callers[c].pc \in {"insert", "reread", "wait", "sleep"} /\ StoreTypeOK'
    BY <1>1, <1>12, StoreTypes DEF StopWaiting, HangUp, Waiting
  <2> QED BY <1>5, <1>7, <1>12, <2>1 DEF StopWaiting, HangUp
<1>13. CASE CheckStatus(c)
  <2>1. callers[c].pc = "done" /\ StoreTypeOK'
    BY <1>1, <1>13, StoreTypes DEF CheckStatus
  <2>2. callers[c].id \in Ids /\ callers[c].payload \in Payloads
    BY <2>1 DEF TypeInv, CallerShape
  <2> QED BY <1>7, <1>8, <1>13, <2>1, <2>2 DEF CheckStatus
<1> QED BY <1>4, <1>9, <1>10, <1>11, <1>12, <1>13

\* Lease requests touch the table, the tokens and nothing of the calls.
LEMMA LeaseStepTypes == TypeInv /\ LeaseStep => TypeInv'
<1> SUFFICES ASSUME TypeInv, NEW h \in Pollers,
                    \/ StartPoll(h)
                    \/ \E id \in Ids, t \in Tokens : GrantLease(h, id, t)
                    \/ EndPoll(h)
             PROVE  TypeInv'
  BY DEF LeaseStep
<1>1. StoreTypeOK /\ pollers \in SUBSET Pollers /\ grants \in [Tokens -> Ids \cup {None}]
  BY DEF TypeInv, TypeOK
<1>2. /\ UNCHANGED <<callers, reporters, acked, attached>>
      /\ pollers' \in SUBSET Pollers
      /\ grants' \in [Tokens -> Ids \cup {None}]
      /\ \A t \in Tokens : grants[t] \in Ids => grants'[t] = grants[t]
  BY <1>1, StoreAssumption DEF StartPoll, GrantLease, EndPoll, FreshToken, history
<1>3. StoreTypeOK'
  BY <1>1, StoreTypes DEF StartPoll, GrantLease, EndPoll
<1> QED BY <1>2, <1>3 DEF TypeInv, TypeOK, ReporterShape, CallerShape

LEMMA ReportStepTypes == TypeInv /\ ReportStep => TypeInv'
<1> SUFFICES ASSUME TypeInv, NEW r \in Reporters,
                    \/ \E t \in Tokens, result \in Results : ReportComplete(r, t, result)
                    \/ RecheckComplete(r)
                    \/ \E t \in Tokens, retryable \in BOOLEAN : ReportFail(r, t, retryable)
                    \/ FailJob(r)
             PROVE  TypeInv'
  BY DEF ReportStep
<1>1. /\ StoreTypeOK /\ acked \in [Ids -> SUBSET Results]
      /\ reporters \in [Reporters -> ReporterStates]
      /\ grants \in [Tokens -> Ids \cup {None}]
  BY DEF TypeInv, TypeOK
<1>2. UNCHANGED <<callers, pollers, grants, attached>>
  BY DEF ReportComplete, RecheckComplete, ReportFail, FailJob, history
<1>3. ASSUME StoreTypeOK', acked' \in [Ids -> SUBSET Results],
             NEW new \in ReporterStates,
             reporters' = reporters \/ reporters' = [reporters EXCEPT ![r] = new],
             new.pc # "idle" => /\ new.token \in Tokens /\ grants[new.token] \in Ids
                                /\ new.pc = "recheck" => new.result \in Results
      PROVE  TypeInv'
  <2>1. reporters' \in [Reporters -> ReporterStates]
    BY <1>1, <1>3
  <2>2. ReporterShape'
    BY <1>1, <1>2, <1>3 DEF TypeInv, ReporterShape
  <2> QED BY <1>2, <1>3, <2>1, <2>2 DEF TypeInv, TypeOK, CallerShape
<1>4. IdleReporter \in ReporterStates /\ IdleReporter.pc = "idle"
  BY DEF IdleReporter, Reporter, ReporterStates
<1>5. ASSUME NEW t \in Tokens, Granted(t)
      PROVE  grants[t] \in Ids
  BY <1>1, <1>5 DEF Granted
<1>6. CASE \E t \in Tokens, result \in Results : ReportComplete(r, t, result)
  <2>1. PICK t \in Tokens, result \in Results : ReportComplete(r, t, result)
    BY <1>6
  <2>2. grants[t] \in Ids
    BY <1>5, <2>1 DEF ReportComplete
  <2>3. StoreTypeOK'
    BY <1>1, <2>1, <2>2, StoreTypes DEF ReportComplete
  <2>4. acked' \in [Ids -> SUBSET Results]
    <3>1. acked' = acked \/ acked' = [acked EXCEPT ![grants[t]] = @ \cup {result}]
      BY <2>1 DEF ReportComplete, Acknowledge
    <3> QED BY <1>1, <2>2, <3>1
  <2>5. Reporter("recheck", t, result, FALSE, FALSE) \in ReporterStates
    BY DEF Reporter, ReporterStates
  <2> QED BY <1>3, <2>1, <2>2, <2>3, <2>4, <2>5 DEF ReportComplete, Reporter
<1>7. CASE RecheckComplete(r)
  <2>1. StoreTypeOK'
    BY <1>1, <1>7, StoreTypes DEF RecheckComplete
  <2>2. JobOf(r) \in Ids /\ reporters[r].result \in Results
    BY <1>7 DEF RecheckComplete, JobOf, TypeInv, ReporterShape
  <2>3. acked' \in [Ids -> SUBSET Results]
    <3>1. acked' = acked \/ acked' = [acked EXCEPT ![JobOf(r)] = @ \cup {reporters[r].result}]
      BY <1>7 DEF RecheckComplete, Acknowledge
    <3> QED BY <1>1, <2>2, <3>1
  <2> QED BY <1>3, <1>4, <1>7, <2>1, <2>3 DEF RecheckComplete, FinishReport
<1>8. CASE \E t \in Tokens, retryable \in BOOLEAN : ReportFail(r, t, retryable)
  <2>1. PICK t \in Tokens, retryable \in BOOLEAN : ReportFail(r, t, retryable)
    BY <1>8
  <2>2. grants[t] \in Ids
    BY <1>5, <2>1 DEF ReportFail
  <2>3. StoreTypeOK' /\ acked' = acked
    BY <1>1, <2>1, StoreTypes DEF ReportFail, history
  <2>4. PICK may \in BOOLEAN, judged \in BOOLEAN :
          reporters' = [reporters EXCEPT ![r] = Reporter("fail", t, None, may, judged)]
    <3>1. MayRetry(grants[t], retryable) \in BOOLEAN
      BY DEF MayRetry
    <3> QED BY <2>1, <3>1 DEF ReportFail
  <2> DEFINE new == Reporter("fail", t, None, may, judged)
  <2>5. reporters' = [reporters EXCEPT ![r] = new]
    BY <2>4
  <2>6. /\ new \in ReporterStates /\ new.token = t /\ new.pc = "fail"
    BY DEF Reporter, ReporterStates
  <2> HIDE DEF new
  <2> QED BY <1>1, <1>3, <2>2, <2>3, <2>5, <2>6
<1>9. CASE FailJob(r)
  <2>1. JobOf(r) \in Ids /\ reporters[r].token \in Tokens
    BY <1>9 DEF FailJob, JobOf, TypeInv, ReporterShape
  <2>2. reporters[r].retryable \in BOOLEAN
    BY <1>1 DEF ReporterStates
  <2>3. StoreTypeOK' /\ acked' = acked
    BY <1>1, <1>9, <2>1, <2>2, StoreTypes DEF FailJob, history
  <2> QED BY <1>1, <1>3, <1>4, <1>9, <2>3 DEF FailJob, FinishReport
<1> QED BY <1>6, <1>7, <1>8, <1>9

LEMMA PruneTypes == TypeInv /\ Prune => TypeInv'
<1> SUFFICES ASSUME TypeInv, Prune PROVE TypeInv'
  OBVIOUS
<1>1. StoreTypeOK'
  BY StoreTypes DEF Prune, TypeInv, TypeOK
<1>2. acked' \in [Ids -> SUBSET Results] /\ attached' \in SUBSET Callers
  BY DEF Prune, ForgetPruned, TypeInv, TypeOK
<1> QED BY <1>1, <1>2 DEF Prune, serverVars, TypeInv, TypeOK, ReporterShape, CallerShape

LEMMA RestartTypes == TypeInv /\ Restart => TypeInv'
<1> SUFFICES ASSUME TypeInv, Restart PROVE TypeInv'
  OBVIOUS
<1>1. StoreTypeOK'
  BY StoreTypes DEF Restart, TypeInv, TypeOK
<1>2. acked' \in [Ids -> SUBSET Results] /\ attached' \in SUBSET Callers
  BY DEF Restart, ForgetPruned, TypeInv, TypeOK
<1>3. /\ reporters' \in [Reporters -> ReporterStates]
      /\ \A r \in Reporters : reporters'[r].pc = "idle"
  BY DEF Restart, IdleReporter, Reporter, ReporterStates
<1>4. ASSUME NEW c \in Callers
      PROVE  /\ callers'[c] \in CallerStates
             /\ callers'[c].pc = "idle" => callers'[c] = IdleCaller
             /\ callers'[c].pc # "idle" =>
                  callers'[c].id \in Ids /\ callers'[c].payload \in Payloads
             /\ callers'[c].pc # "done" => callers'[c].reply = Unanswered
  <2>1. callers[c] \in CallerStates
    BY DEF TypeInv, TypeOK
  <2>2. Answer("error", None) \in Replies
    BY DEF Answer, Replies
  <2>3. CASE Waiting(c)
    <3>1. callers'[c] = [callers[c] EXCEPT !.pc = "done", !.reply = Answer("error", None)]
      BY <2>3 DEF Restart
    <3>2. callers[c].id \in Ids /\ callers[c].payload \in Payloads
      BY <2>3 DEF Waiting, TypeInv, CallerShape
    <3> QED BY <2>1, <2>2, <3>1, <3>2 DEF CallerStates
  <2>4. CASE ~Waiting(c)
    <3>1. callers'[c] = callers[c]
      BY <2>4 DEF Restart
    <3> QED BY <2>1, <3>1 DEF TypeInv, CallerShape
  <2> QED BY <2>3, <2>4
<1>5. callers' \in [Callers -> CallerStates]
  BY <1>4 DEF Restart
<1> QED BY <1>1, <1>2, <1>3, <1>4, <1>5 DEF Restart, TypeInv, TypeOK, ReporterShape, CallerShape

LEMMA TimePassesTypes == TypeInv /\ TimePasses => TypeInv'
<1> SUFFICES ASSUME TypeInv, TimePasses PROVE TypeInv'
  OBVIOUS
<1>1. StoreTypeOK'
  BY StoreTypes DEF TimePasses, TypeInv, TypeOK
<1> QED BY <1>1 DEF TimePasses, serverVars, history, TypeInv, TypeOK, ReporterShape, CallerShape

LEMMA NextTypeInv == TypeInv /\ [Next]_vars => TypeInv'
<1>1. ASSUME TypeInv, UNCHANGED vars PROVE TypeInv'
  BY <1>1 DEF vars, TypeInv, TypeOK, StoreTypeOK, ReporterShape, CallerShape
<1> QED BY <1>1, CallerStepTypes, LeaseStepTypes, ReportStepTypes, PruneTypes, RestartTypes,
           TimePassesTypes DEF Next

\* Every reachable state of the server is well-typed.
THEOREM TypeCorrect == Spec => []TypeOK
<1>1. TypeInv => TypeOK
  BY DEF TypeInv
<1> QED BY <1>1, InitTypeInv, NextTypeInv, PTL DEF Spec

-----------------------------------------------------------------------------
(* What a step can do to one row, whoever takes it.                        *)

\* A retryable failure is applied for report r.
RetriedBy(r, id) ==
  /\ reporters[r].pc = "fail" /\ reporters[r].retryable
  /\ JobOf(r) = id /\ HoldsLease(id, reporters[r].token)

RowStep(id) ==
  LET row == jobs[id] IN
  \/ jobs'[id] = row
  \/ ~Present(id) /\ \E p \in Payloads : jobs'[id] = QueuedRow(p)
  \/ Exhausted(row) /\ jobs'[id] = FailedRow(row)
  \/ Leasable(row) /\ \E t \in Tokens : FreshToken(t) /\ jobs'[id] = LeasedRow(row, t)
  \/ row.state = "leased" /\ \E result \in Results : jobs'[id] = SucceededRow(row, result)
  \/ row.state = "leased" /\ jobs'[id] = FailedRow(row)
  \/ (\E r \in Reporters : RetriedBy(r, id)) /\ jobs'[id] = RequeuedRow(row)
  \/ Prunable(row) /\ jobs'[id] = NoRow /\ ForgetPruned
  \/ row.state = "leased" /\ jobs'[id] = [row EXCEPT !.lapsed = TRUE]
  \/ Finished(id) /\ jobs'[id] = [row EXCEPT !.aged = TRUE]

LEMMA RowSteps ==
  ASSUME TypeInv, [Next]_vars, NEW id \in Ids
  PROVE  RowStep(id)
<1>1. jobs \in [Ids -> Rows]
  BY DEF TypeInv, TypeOK, StoreTypeOK
<1>2. CASE jobs' = jobs
  BY <1>2 DEF RowStep
<1>3. CASE \E c \in Callers : InsertJob(c) /\ Insert(callers[c].id, callers[c].payload)
  <2>1. PICK c \in Callers : InsertJob(c) /\ Insert(callers[c].id, callers[c].payload)
    BY <1>3
  <2>2. callers[c].id \in Ids /\ callers[c].payload \in Payloads
    BY <2>1 DEF InsertJob, TypeInv, CallerShape
  <2> QED BY <1>1, <2>1, <2>2 DEF Insert, RowStep
<1>4. CASE ExpireLeases
  BY <1>1, <1>4 DEF ExpireLeases, RowStep
<1>5. CASE \E h \in Pollers, j \in Ids, t \in Tokens : GrantLease(h, j, t)
  BY <1>1, <1>5 DEF GrantLease, Lease, NextToLease, RowStep
<1>6. CASE \E t \in Tokens, result \in Results :
             Granted(t) /\ Complete(grants[t], t, result)
  <2>1. PICK t \in Tokens, result \in Results : Granted(t) /\ Complete(grants[t], t, result)
    BY <1>6
  <2>2. grants[t] \in Ids
    BY <2>1 DEF Granted, TypeInv, TypeOK
  <2> QED BY <1>1, <2>1, <2>2 DEF Complete, HoldsLease, RowStep
<1>7. CASE \E r \in Reporters :
             reporters[r].pc = "fail"
               /\ Fail(JobOf(r), reporters[r].token, reporters[r].retryable)
  <2>1. PICK r \in Reporters :
          reporters[r].pc = "fail"
            /\ Fail(JobOf(r), reporters[r].token, reporters[r].retryable)
    BY <1>7
  <2>2. CASE JobOf(r) = id
    BY <1>1, <2>1, <2>2 DEF Fail, HoldsLease, RetriedBy, RowStep
  <2>3. CASE JobOf(r) # id
    BY <1>1, <2>1, <2>3 DEF Fail, RowStep
  <2> QED BY <2>2, <2>3
<1>8. CASE PruneTerminal /\ ForgetPruned
  BY <1>1, <1>8 DEF PruneTerminal, RowStep
<1>9. CASE \E j \in Ids : LeaseLapses(j) \/ RetentionPasses(j)
  <2>1. PICK j \in Ids : LeaseLapses(j) \/ RetentionPasses(j)
    BY <1>9
  <2> QED BY <1>1, <2>1 DEF LeaseLapses, RetentionPasses, RowStep
<1>10. CASE CallerStep
  BY <1>2, <1>3, <1>10 DEF CallerStep, Submit, InsertJob, RereadJob, PollJob, StopWaiting,
     HangUp, CheckStatus, storeVars
<1>11. CASE LeaseStep
  BY <1>2, <1>4, <1>5, <1>11 DEF LeaseStep, StartPoll, EndPoll, storeVars
<1>12. CASE ReportStep
  BY <1>2, <1>6, <1>7, <1>12 DEF ReportStep, ReportComplete, RecheckComplete, ReportFail,
     FailJob, storeVars
<1>13. CASE Prune \/ Restart
  BY <1>8, <1>13 DEF Prune, Restart
<1>14. CASE TimePasses
  BY <1>2, <1>9, <1>14 DEF TimePasses, Tick
<1>15. CASE UNCHANGED vars
  BY <1>2, <1>15 DEF vars
<1> QED BY <1>10, <1>11, <1>12, <1>13, <1>14, <1>15 DEF Next

\* How a row comes to be leased, or queued.
LEMMA ActiveRows ==
  ASSUME NEW id \in Ids, jobs[id] \in Rows, RowStep(id)
  PROVE  /\ jobs'[id].state = "leased" =>
              \/ /\ jobs[id].state = "leased" /\ jobs'[id].token = jobs[id].token
                 /\ jobs'[id].attempts = jobs[id].attempts
              \/ FreshToken(jobs'[id].token)
         /\ jobs'[id].state = "queued" =>
              \/ jobs'[id] = jobs[id]
              \/ jobs'[id].attempts = 0
              \/ /\ \E r \in Reporters : RetriedBy(r, id)
                 /\ jobs'[id].attempts = jobs[id].attempts
<1> DEFINE row == jobs[id]
           next == jobs'[id]
           Claim == /\ next.state = "leased" =>
                         \/ /\ row.state = "leased" /\ next.token = row.token
                            /\ next.attempts = row.attempts
                         \/ FreshToken(next.token)
                    /\ next.state = "queued" =>
                         \/ next = row
                         \/ next.attempts = 0
                         \/ /\ \E r \in Reporters : RetriedBy(r, id)
                            /\ next.attempts = row.attempts
<1>1. CASE next = row
  BY <1>1
<1>2. CASE \E p \in Payloads : next = QueuedRow(p)
  BY <1>2, RowFields
<1>3. CASE next = FailedRow(row)
  BY <1>3, RowFields
<1>4. CASE \E t \in Tokens : FreshToken(t) /\ next = LeasedRow(row, t)
  BY <1>4, RowFields
<1>5. CASE \E result \in Results : next = SucceededRow(row, result)
  BY <1>5, RowFields
<1>6. CASE (\E r \in Reporters : RetriedBy(r, id)) /\ next = RequeuedRow(row)
  BY <1>6, RowFields
<1>7. CASE next = NoRow
  BY <1>7, RowFields
<1>8. CASE row.state = "leased" /\ next = [row EXCEPT !.lapsed = TRUE]
  BY <1>8 DEF Rows
<1>9. CASE Finished(id) /\ next = [row EXCEPT !.aged = TRUE]
  <2>1. row.state \in {"succeeded", "failed"}
    BY <1>9 DEF Finished, Terminal
  <2> QED BY <1>9, <2>1 DEF Rows
<1> QED BY <1>1, <1>2, <1>3, <1>4, <1>5, <1>6, <1>7, <1>8, <1>9 DEF RowStep

\* The outcome of a job is final: the queue store and the two-statement handlers
\* around it never reopen or rewrite a finished row.
LEMMA FinalStep ==
  ASSUME TypeInv, [Next]_vars, NEW id \in Ids, Finished(id)
  PROVE  \/ jobs[id].aged /\ ~Present(id)' /\ Prunable(jobs[id]) /\ ForgetPruned
         \/ jobs'[id] \in {jobs[id], [jobs[id] EXCEPT !.aged = TRUE]}
<1>1. RowStep(id)
  BY RowSteps
<1>2. jobs[id].state \in {"succeeded", "failed"}
  BY DEF Finished, Terminal
<1> QED BY <1>1, <1>2 DEF RowStep, Present, Exhausted, Leasable, RetriedBy, HoldsLease,
        Prunable, NoRow

THEOREM OutcomesFinal == Spec => OutcomesAreFinal
<1>1. TypeInv /\ [Next]_vars =>
        [\A id \in Ids : Finished(id) =>
           \/ jobs[id].aged /\ ~Present(id)'
           \/ jobs'[id] \in {jobs[id], [jobs[id] EXCEPT !.aged = TRUE]}]_vars
  BY FinalStep
<1> QED BY <1>1, InitTypeInv, NextTypeInv, PTL DEF Spec, OutcomesAreFinal

-----------------------------------------------------------------------------
(* The delivery limit                                                      *)

\* The fail handler's second statement can requeue the row only if the attempt
\* count read by the first one, when that was answered, still counts: the token is
\* the fence.
FailFence ==
  \A r \in Reporters :
    reporters[r].judged /\ (\E id \in Ids : RetriedBy(r, id))
      => jobs[JobOf(r)].attempts < MaxAttempts

QueueInv == TypeInv /\ FailFence

LEMMA InitQueueInv == Init => QueueInv
BY InitTypeInv DEF QueueInv, Init, FailFence, IdleReporter, Reporter

LEMMA NextFailFence == QueueInv /\ [Next]_vars => FailFence'
<1> SUFFICES ASSUME QueueInv, [Next]_vars, NEW r \in Reporters, NEW id \in Ids,
                    reporters'[r].judged, RetriedBy(r, id)'
             PROVE  jobs'[id].attempts < MaxAttempts
  BY DEF FailFence, RetriedBy
<1>1. TypeInv
  BY DEF QueueInv
<1>2. RowStep(id) /\ jobs[id] \in Rows
  BY <1>1, RowSteps DEF TypeInv, TypeOK, StoreTypeOK
<1>3. CASE \E t \in Tokens, retryable \in BOOLEAN : ReportFail(r, t, retryable)
  <2>1. PICK t \in Tokens, retryable \in BOOLEAN : ReportFail(r, t, retryable)
    BY <1>3
  <2>2. reporters'[r] = Reporter("fail", t, None, MayRetry(grants[t], retryable), TRUE)
    <3>1. PICK judged \in BOOLEAN :
            reporters'[r] = Reporter("fail", t, None,
              IF judged THEN MayRetry(grants[t], retryable) ELSE retryable, judged)
      BY <1>1, <2>1 DEF ReportFail, TypeInv, TypeOK
    <3> QED BY <3>1 DEF Reporter
  <2>3. grants' = grants /\ jobs' = jobs
    BY <2>1 DEF ReportFail, storeVars
  <2>4. grants[t] = id /\ MayRetry(id, retryable) /\ jobs[id].state = "leased"
    BY <2>2, <2>3 DEF RetriedBy, JobOf, HoldsLease, Reporter
  <2> QED BY <2>3, <2>4 DEF MayRetry, Present
<1>4. CASE reporters'[r] = reporters[r]
  <2>1. /\ reporters[r].pc = "fail" /\ reporters[r].retryable
        /\ reporters[r].token \in Tokens /\ JobOf(r) \in Ids
    BY <1>1, <1>4 DEF RetriedBy, TypeInv, ReporterShape, JobOf
  <2>2. JobOf(r) = id /\ ~FreshToken(reporters[r].token)
    <3>1. grants'[reporters[r].token] = grants[reporters[r].token]
      BY <1>1, <2>1, StoreAssumption DEF Next, vars, CallerStep, Submit, InsertJob, RereadJob,
         PollJob, StopWaiting, HangUp, CheckStatus, LeaseStep, StartPoll, GrantLease, EndPoll,
         FreshToken, ReportStep, ReportComplete, RecheckComplete, ReportFail, FailJob, Prune,
         Restart, TimePasses, JobOf, TypeInv, TypeOK
    <3> QED BY <1>4, <2>1, <3>1, StoreAssumption DEF RetriedBy, JobOf, FreshToken
  <2>3. jobs'[id].state = "leased" /\ jobs'[id].token = reporters[r].token
    BY <1>4 DEF RetriedBy, HoldsLease
  <2>4. jobs[id].attempts = jobs'[id].attempts /\ HoldsLease(id, reporters[r].token)
    BY <1>2, <2>2, <2>3, ActiveRows DEF HoldsLease
  <2> QED BY <1>4, <2>1, <2>2, <2>4 DEF QueueInv, FailFence, RetriedBy
<1>5. CASE reporters'[r] # reporters[r] /\
           ~ \E t \in Tokens, retryable \in BOOLEAN : ReportFail(r, t, retryable)
  <2>1. reporters \in [Reporters -> ReporterStates]
    BY <1>1 DEF TypeInv, TypeOK
  <2>2. PICK q \in Reporters :
          \/ \E t \in Tokens, result \in Results : ReportComplete(q, t, result)
          \/ RecheckComplete(q)
          \/ \E t \in Tokens, retryable \in BOOLEAN : ReportFail(q, t, retryable)
          \/ FailJob(q)
          \/ Restart
    BY <1>5 DEF Next, vars, CallerStep, Submit, InsertJob, RereadJob, PollJob, StopWaiting, HangUp,
       CheckStatus, LeaseStep, StartPoll, GrantLease, EndPoll, ReportStep, Prune,
       TimePasses, serverVars
  <2>3. CASE Restart
    BY <2>3 DEF Restart, IdleReporter, Reporter, RetriedBy
  <2>4. CASE ~Restart
    <3>1. q = r
      BY <1>5, <2>1, <2>2, <2>4 DEF ReportComplete, RecheckComplete, ReportFail, FailJob,
         FinishReport
    <3>2. \/ \E t \in Tokens, result \in Results :
                reporters' = [reporters EXCEPT ![r] = Reporter("recheck", t, result, FALSE, FALSE)]
          \/ reporters' = [reporters EXCEPT ![r] = IdleReporter]
      BY <1>5, <2>2, <2>4, <3>1 DEF ReportComplete, RecheckComplete, FailJob, FinishReport
    <3>3. reporters'[r].pc # "fail"
      BY <2>1, <3>2 DEF IdleReporter, Reporter
    <3> QED BY <3>3 DEF RetriedBy
  <2> QED BY <2>3, <2>4
<1> QED BY <1>3, <1>4, <1>5

\* The step that puts a job back belongs to a retryable failure, which was judged by
\* FailFence or not at all.
LEMMA RequeueStep ==
  ASSUME QueueInv, [Next]_vars, NEW id \in Ids,
         jobs[id].state = "leased", jobs'[id].state = "queued"
  PROVE  \/ jobs[id].attempts < MaxAttempts
         \/ \E r \in Reporters : PutsBackUnjudged(r, id)
<1>1. RowStep(id) /\ jobs[id] \in Rows
  BY RowSteps DEF QueueInv, TypeInv, TypeOK, StoreTypeOK
<1>2. PICK r \in Reporters : RetriedBy(r, id)
  BY <1>1, RowFields DEF RowStep, Present, Finished, Terminal, Rows
<1>3. CASE reporters[r].judged
  BY <1>2, <1>3 DEF QueueInv, FailFence, RetriedBy
<1>4. CASE ~reporters[r].judged
  BY <1>2, <1>4 DEF RetriedBy, PutsBackUnjudged
<1> QED BY <1>3, <1>4

\* A job goes back into the queue only with deliveries left, whatever races the fail
\* handler loses, unless the very report that puts it back could not look it up.
THEOREM RetriesAreLimited == Spec => RequeuedBelowMax
<1>1. QueueInv /\ [Next]_vars => QueueInv'
  BY NextTypeInv, NextFailFence DEF QueueInv
<1>2. QueueInv /\ [Next]_vars =>
        [\A id \in Ids : jobs[id].state = "leased" /\ jobs'[id].state = "queued" =>
           \/ jobs[id].attempts < MaxAttempts
           \/ \E r \in Reporters : PutsBackUnjudged(r, id)]_vars
  BY RequeueStep
<1> QED BY <1>1, <1>2, InitQueueInv, PTL DEF Spec, RequeuedBelowMax

-----------------------------------------------------------------------------
(* Acknowledged completions                                                *)

\* The server acknowledges what the row says at that moment.
LEMMA AckedSteps ==
  ASSUME TypeInv, [Next]_vars, NEW id \in Ids
  PROVE  \/ acked'[id] = acked[id]
         \/ ForgetPruned
         \/ \E result \in Results :
              /\ acked'[id] = acked[id] \cup {result}
              /\ jobs'[id].state = "succeeded" /\ jobs'[id].result = result
<1>1. /\ jobs \in [Ids -> Rows] /\ acked \in [Ids -> SUBSET Results]
      /\ grants \in [Tokens -> Ids \cup {None}]
  BY DEF TypeInv, TypeOK, StoreTypeOK
<1>2. CASE acked' = acked
  BY <1>2
<1>3. CASE \E r \in Reporters, t \in Tokens, result \in Results : ReportComplete(r, t, result)
  <2>1. PICK r \in Reporters, t \in Tokens, result \in Results : ReportComplete(r, t, result)
    BY <1>3
  <2>2. CASE Complete(grants[t], t, result) /\ Acknowledge(grants[t], result)
    <3>1. grants[t] \in Ids
      BY <1>1, <2>1 DEF ReportComplete, Granted
    <3>2. CASE grants[t] = id
      <4>1. jobs'[id] = SucceededRow(jobs[id], result) /\ jobs[id] \in Rows
        BY <1>1, <2>2, <3>2 DEF Complete
      <4>2. acked'[id] = acked[id] \cup {result}
        BY <1>1, <2>2, <3>2 DEF Acknowledge
      <4> QED BY <4>1, <4>2, RowFields
    <3>3. CASE grants[t] # id
      BY <1>1, <2>2, <3>1, <3>3 DEF Acknowledge
    <3> QED BY <3>2, <3>3
  <2> QED BY <1>2, <2>1, <2>2 DEF ReportComplete
<1>4. CASE \E r \in Reporters : RecheckComplete(r)
  <2>1. PICK r \in Reporters : RecheckComplete(r)
    BY <1>4
  <2>2. jobs' = jobs /\ JobOf(r) \in Ids /\ reporters[r].result \in Results
    BY <2>1 DEF RecheckComplete, storeVars, JobOf, TypeInv, ReporterShape
  <2>3. CASE AlreadyCompleted(JobOf(r), reporters[r].result) /\ JobOf(r) = id
    BY <1>1, <2>1, <2>2, <2>3 DEF RecheckComplete, Acknowledge, AlreadyCompleted
  <2>4. CASE AlreadyCompleted(JobOf(r), reporters[r].result) /\ JobOf(r) # id
    BY <1>1, <2>1, <2>2, <2>4 DEF RecheckComplete, Acknowledge
  <2> QED BY <1>2, <2>1, <2>3, <2>4 DEF RecheckComplete
<1> QED BY <1>2, <1>3, <1>4 DEF Next, vars, CallerStep, Submit, InsertJob, RereadJob, PollJob,
        StopWaiting, HangUp, CheckStatus, LeaseStep, StartPoll, GrantLease, EndPoll,
        ReportStep, ReportFail, FailJob, Prune, Restart, TimePasses, history

\* What was acknowledged stays, until retention deletes the row and what was said
\* about it.
LEMMA NextAcked ==
  ASSUME TypeInv, AckedCompletionSticks, [Next]_vars
  PROVE  AckedCompletionSticks'
<1> SUFFICES ASSUME NEW id \in Ids, NEW result \in acked'[id]
             PROVE  jobs'[id].state = "succeeded" /\ jobs'[id].result = result
  BY DEF AckedCompletionSticks
<1>1. CASE result \in acked[id]
  <2>1. jobs[id].state = "succeeded" /\ jobs[id].result = result /\ jobs[id] \in Rows
    BY <1>1 DEF AckedCompletionSticks, TypeInv, TypeOK, StoreTypeOK
  <2>2. Finished(id)
    BY <2>1 DEF Finished, Terminal
  <2>3. CASE jobs'[id] \in {jobs[id], [jobs[id] EXCEPT !.aged = TRUE]}
    BY <2>1, <2>3 DEF Rows
  <2>4. CASE Prunable(jobs[id]) /\ ForgetPruned
    BY <2>4 DEF ForgetPruned
  <2> QED BY <2>2, <2>3, <2>4, FinalStep
<1>2. CASE result \notin acked[id]
  <2>1. ~ForgetPruned
    BY <1>2 DEF ForgetPruned
  <2> QED BY <1>2, <2>1, AckedSteps
<1> QED BY <1>1, <1>2

\* An acknowledged completion is never undone or rewritten while retention keeps
\* the job.
THEOREM AcknowledgementsHold == Spec => []AckedCompletionSticks
<1>1. TypeInv /\ AckedCompletionSticks /\ [Next]_vars
        => (TypeInv /\ AckedCompletionSticks)'
  BY NextTypeInv, NextAcked
<1>2. Init => TypeInv /\ AckedCompletionSticks
  BY InitTypeInv DEF Init, AckedCompletionSticks
<1> QED BY <1>1, <1>2, PTL DEF Spec

-----------------------------------------------------------------------------
(* Keys, payloads and answers                                              *)

\* A call is attached from the moment it has a job until retention takes the job.
AttachedShape ==
  \A c \in attached :
    callers[c].pc \in {"wait", "sleep", "done"} /\ Present(callers[c].id)

CallInv == TypeInv /\ AttachedShape /\ KeysNeverMixPayloads /\ AnswersStayTrue

\* How a step binds call c to a row: not at all, or just now and rightly.
Bound(c) ==
  \/ /\ c \in attached' => c \in attached
     /\ callers[c].pc # "idle" =>
          callers'[c].id = callers[c].id /\ callers'[c].payload = callers[c].payload
     /\ callers[c].pc \in {"wait", "sleep", "done"} =>
          callers'[c].pc \in {"wait", "sleep", "done"}
  \/ /\ callers'[c].pc = "wait" /\ callers'[c].reply = Unanswered
     /\ jobs'[callers'[c].id].state # "absent"
     /\ jobs'[callers'[c].id].payload = callers'[c].payload

\* How a step answers call c: not at all, without an outcome, or with the one
\* that the row has.
Answered(c) ==
  \/ callers'[c].reply = callers[c].reply
  \/ callers'[c].reply.status \notin {"succeeded", "failed"}
  \/ /\ jobs' = jobs /\ callers'[c].id = callers[c].id
     /\ callers'[c].reply.status = jobs[callers[c].id].state
     /\ callers'[c].reply.status = "succeeded" =>
          callers'[c].reply.result = jobs[callers[c].id].result

LEMMA CallerSteps ==
  ASSUME TypeInv, [Next]_vars, NEW c \in Callers
  PROVE  Bound(c) /\ Answered(c)
<1>1. /\ callers \in [Callers -> CallerStates] /\ callers[c] \in CallerStates
      /\ jobs \in [Ids -> Rows]
  BY DEF TypeInv, TypeOK, StoreTypeOK
<1>2. ASSUME callers'[c] = callers[c], attached' \subseteq attached \cup (Callers \ {c})
      PROVE  Bound(c) /\ Answered(c)
  BY <1>2 DEF Bound, Answered
<1>3. ASSUME NEW pc \in {"reread", "sleep"}, Goto(c, pc), callers[c].pc # "done",
             pc = "reread" => callers[c].pc = "insert", attached' = attached
      PROVE  Bound(c) /\ Answered(c)
  BY <1>1, <1>3 DEF Goto, Bound, Answered, CallerStates
<1>4. ASSUME NEW s \in {"queued", "conflict", "error", "succeeded", "failed"}, Reply(c, s),
             jobs' = jobs, attached' = attached,
             s \in {"succeeded", "failed"} => s = jobs[callers[c].id].state
      PROVE  Bound(c) /\ Answered(c)
  <2> DEFINE reply == Answer(s, IF s = "succeeded" THEN jobs[callers[c].id].result
                                                  ELSE None)
  <2>1. /\ reply.status = s
        /\ s = "succeeded" => reply.result = jobs[callers[c].id].result
    BY DEF Answer
  <2>2. callers' = [callers EXCEPT ![c].pc = "done", ![c].reply = reply]
    BY <1>4 DEF Reply
  <2> HIDE DEF reply
  <2>3. /\ callers'[c].pc = "done" /\ callers'[c].reply = reply
        /\ callers'[c].id = callers[c].id /\ callers'[c].payload = callers[c].payload
    BY <1>1, <2>2 DEF CallerStates
  <2> QED BY <1>4, <2>1, <2>3 DEF Bound, Answered
<1>5. ASSUME Goto(c, "wait"), callers[c].pc \in {"insert", "reread"}, callers[c].id \in Ids,
             jobs'[callers[c].id].state # "absent",
             jobs'[callers[c].id].payload = callers[c].payload
      PROVE  Bound(c) /\ Answered(c)
  <2>1. /\ callers'[c].pc = "wait" /\ callers'[c].reply = callers[c].reply
        /\ callers'[c].id = callers[c].id /\ callers'[c].payload = callers[c].payload
    BY <1>1, <1>5 DEF Goto, CallerStates
  <2>2. callers[c].reply = Unanswered
    BY <1>5 DEF TypeInv, CallerShape
  <2> QED BY <1>5, <2>1, <2>2 DEF Bound, Answered
<1>6. ASSUME Finished(callers[c].id)
      PROVE  jobs[callers[c].id].state \in {"succeeded", "failed"}
  BY <1>6 DEF Finished, Terminal
<1>7. CASE \E key \in Keys \cup {None}, p \in Payloads : Submit(c, key, p)
  <2>1. PICK key \in Keys \cup {None}, p \in Payloads : Submit(c, key, p)
    BY <1>7
  <2> DEFINE id == IF key = None THEN c ELSE key
  <2>2. callers[c].pc = "idle" /\ jobs' = jobs
    BY <2>1 DEF Submit, storeVars
  <2>3. \/ \E pc \in {"insert", "done"}, status \in {"none", "conflict"} :
             /\ callers' = [callers EXCEPT ![c] = Caller(pc, id, p, Answer(status, None))]
             /\ attached' = attached
        \/ /\ callers' = [callers EXCEPT ![c] = Caller("wait", id, p, Unanswered)]
           /\ Present(id) /\ SamePayload(id, p)
    BY <2>1 DEF Submit, Unanswered
  <2> HIDE DEF id
  <2>4. CASE \E pc \in {"insert", "done"}, status \in {"none", "conflict"} :
               /\ callers' = [callers EXCEPT ![c] = Caller(pc, id, p, Answer(status, None))]
               /\ attached' = attached
    <3>1. callers'[c].reply.status \in {"none", "conflict"}
      BY <1>1, <2>4 DEF Caller, Answer
    <3> QED BY <2>2, <2>4, <3>1 DEF Bound, Answered
  <2>5. CASE /\ callers' = [callers EXCEPT ![c] = Caller("wait", id, p, Unanswered)]
             /\ Present(id) /\ SamePayload(id, p)
    <3>1. /\ callers'[c].pc = "wait" /\ callers'[c].reply = Unanswered
          /\ callers'[c].id = id /\ callers'[c].payload = p
      BY <1>1, <2>5 DEF Caller
    <3>2. callers'[c].reply.status \notin {"succeeded", "failed"}
      BY <3>1 DEF Unanswered, Answer
    <3> QED BY <2>2, <2>5, <3>1, <3>2 DEF Bound, Answered, Present, SamePayload
  <2> QED BY <2>3, <2>4, <2>5
<1>8. CASE InsertJob(c)
  <2>1. callers[c].pc = "insert" /\ callers[c].id \in Ids /\ callers[c].payload \in Payloads
    BY <1>8 DEF InsertJob, TypeInv, CallerShape
  <2>2. CASE Insert(callers[c].id, callers[c].payload) /\ Goto(c, "wait")
    <3>1. jobs'[callers[c].id] = QueuedRow(callers[c].payload)
      BY <1>1, <2>1, <2>2 DEF Insert
    <3>2. /\ jobs'[callers[c].id].state = "queued"
          /\ jobs'[callers[c].id].payload = callers[c].payload
      BY <1>1, <2>1, <3>1, RowFields
    <3> QED BY <1>5, <2>1, <2>2, <3>2
  <2>3. CASE Goto(c, "reread") /\ attached' = attached
    BY <1>3, <2>1, <2>3
  <2> QED BY <1>8, <2>2, <2>3 DEF InsertJob
<1>9. CASE RereadJob(c)
  <2>1. callers[c].pc = "reread" /\ callers[c].id \in Ids /\ jobs' = jobs
    BY <1>9 DEF RereadJob, TypeInv, CallerShape, storeVars
  <2>2. CASE /\ Present(callers[c].id) /\ SamePayload(callers[c].id, callers[c].payload)
             /\ Goto(c, "wait")
    BY <1>5, <2>1, <2>2 DEF Present, SamePayload
  <2> QED BY <1>4, <1>9, <2>1, <2>2 DEF RereadJob
<1>10. CASE PollJob(c)
  BY <1>3, <1>4, <1>6, <1>10 DEF PollJob, history, storeVars
<1>11. CASE StopWaiting(c) \/ HangUp(c) \/ CheckStatus(c)
  BY <1>4, <1>6, <1>11 DEF StopWaiting, HangUp, CheckStatus, history, storeVars
<1>12. CASE \E d \in Callers \ {c} :
              \/ \E key \in Keys \cup {None}, p \in Payloads : Submit(d, key, p)
              \/ InsertJob(d) \/ RereadJob(d) \/ PollJob(d)
              \/ StopWaiting(d) \/ HangUp(d) \/ CheckStatus(d)
  BY <1>1, <1>2, <1>12 DEF Submit, InsertJob, RereadJob, PollJob, StopWaiting, HangUp,
     CheckStatus, Goto, Reply, Attach, history
<1>13. CASE Restart
  <2>1. attached' \subseteq attached
    BY <1>13 DEF Restart, ForgetPruned
  <2>2. CASE Waiting(c)
    <3>1. callers'[c] = [callers[c] EXCEPT !.pc = "done", !.reply = Answer("error", None)]
      BY <1>13, <2>2 DEF Restart
    <3>2. /\ callers'[c].pc = "done" /\ callers'[c].reply.status = "error"
          /\ callers'[c].id = callers[c].id /\ callers'[c].payload = callers[c].payload
      BY <1>1, <3>1 DEF CallerStates, Answer
    <3> QED BY <2>1, <3>2 DEF Bound, Answered
  <2>3. CASE ~Waiting(c)
    BY <1>2, <1>13, <2>1, <2>3 DEF Restart
  <2> QED BY <2>2, <2>3
<1>14. CASE LeaseStep \/ ReportStep \/ Prune \/ TimePasses \/ UNCHANGED vars
  <2>1. callers' = callers /\ attached' \subseteq attached
    BY <1>14, TypeInv DEF LeaseStep, StartPoll, GrantLease, EndPoll, ReportStep, ReportComplete,
       RecheckComplete, ReportFail, FailJob, Prune, TimePasses, ForgetPruned, serverVars,
       history, vars
  <2> QED BY <1>2, <2>1
<1>15. CASE CallerStep
  BY <1>7, <1>8, <1>9, <1>10, <1>11, <1>12, <1>15 DEF CallerStep
<1> QED BY <1>13, <1>14, <1>15 DEF Next

\* A row keeps its payload while it is there; when it goes, nobody stays attached.
LEMMA RowPayload ==
  ASSUME TypeInv, [Next]_vars, NEW id \in Ids, Present(id)
  PROVE  \/ jobs'[id].state # "absent" /\ jobs'[id].payload = jobs[id].payload
         \/ Prunable(jobs[id]) /\ ForgetPruned
<1>1. RowStep(id) /\ jobs[id] \in Rows
  BY RowSteps DEF TypeInv, TypeOK, StoreTypeOK
<1>2. CASE jobs'[id] = [jobs[id] EXCEPT !.lapsed = TRUE]
  BY <1>1, <1>2 DEF Rows, Present
<1>3. CASE jobs'[id] = [jobs[id] EXCEPT !.aged = TRUE]
  BY <1>1, <1>3 DEF Rows, Present
<1> QED BY <1>1, <1>2, <1>3, RowFields DEF RowStep, Present

LEMMA NextCallInv == CallInv /\ [Next]_vars => CallInv'
<1> SUFFICES ASSUME CallInv, [Next]_vars PROVE CallInv'
  OBVIOUS
<1>1. TypeInv /\ TypeInv'
  BY NextTypeInv DEF CallInv
<1>2. ASSUME NEW c \in attached'
      PROVE  /\ callers'[c].pc \in {"wait", "sleep", "done"}
             /\ jobs'[callers'[c].id].state # "absent"
             /\ jobs'[callers'[c].id].payload = callers'[c].payload
             /\ callers'[c].reply.status = "succeeded" =>
                  /\ jobs'[callers'[c].id].state = "succeeded"
                  /\ jobs'[callers'[c].id].result = callers'[c].reply.result
             /\ callers'[c].reply.status = "failed" =>
                  jobs'[callers'[c].id].state = "failed"
  <2>1. c \in Callers /\ Bound(c) /\ Answered(c)
    BY <1>1, <1>2, CallerSteps DEF TypeInv, TypeOK
  <2>2. CASE callers'[c].pc = "wait" /\ callers'[c].reply = Unanswered
             /\ jobs'[callers'[c].id].state # "absent"
             /\ jobs'[callers'[c].id].payload = callers'[c].payload
    BY <2>2 DEF Unanswered, Answer
  <2>3. CASE c \in attached /\ callers'[c].id = callers[c].id
             /\ callers'[c].payload = callers[c].payload
             /\ callers'[c].pc \in {"wait", "sleep", "done"}
    <3> DEFINE id == callers[c].id
    <3>1. /\ id \in Ids /\ Present(id) /\ jobs[id].payload = callers[c].payload
          /\ jobs[id] \in Rows
      BY <1>1, <2>1, <2>3 DEF CallInv, AttachedShape, KeysNeverMixPayloads, SamePayload,
         TypeInv, TypeOK, StoreTypeOK, CallerShape
    <3>2. ~(Prunable(jobs[id]) /\ ForgetPruned)
      BY <1>2, <3>1 DEF ForgetPruned
    <3>3. jobs'[id].state # "absent" /\ jobs'[id].payload = jobs[id].payload
      BY <1>1, <3>1, <3>2, RowPayload
    <3>4. Finished(id) => jobs'[id].state = jobs[id].state /\ jobs'[id].result = jobs[id].result
      <4> SUFFICES ASSUME Finished(id)
                   PROVE  jobs'[id].state = jobs[id].state /\ jobs'[id].result = jobs[id].result
        OBVIOUS
      <4>1. jobs'[id] \in {jobs[id], [jobs[id] EXCEPT !.aged = TRUE]}
        BY <1>1, <3>1, <3>2, FinalStep
      <4> QED BY <3>1, <4>1 DEF Rows
    <3>5. /\ callers[c].reply.status = "succeeded" =>
               jobs[id].state = "succeeded" /\ jobs[id].result = callers[c].reply.result
          /\ callers[c].reply.status = "failed" => jobs[id].state = "failed"
      BY <2>3 DEF CallInv, AnswersStayTrue
    <3>6. jobs[id].state \in {"succeeded", "failed"} => Finished(id)
      BY DEF Finished, Terminal
    <3> HIDE DEF id
    <3> QED BY <2>1, <2>3, <3>1, <3>3, <3>4, <3>5, <3>6 DEF Answered, id
  <2>4. c \in attached =>
          callers[c].pc \in {"wait", "sleep", "done"} /\ callers[c].pc # "idle"
    BY DEF CallInv, AttachedShape
  <2> QED BY <1>2, <2>1, <2>2, <2>3, <2>4 DEF Bound
<1> QED BY <1>1, <1>2 DEF CallInv, AttachedShape, KeysNeverMixPayloads, AnswersStayTrue, Present,
        SamePayload

LEMMA InitCallInv == Init => CallInv
BY InitTypeInv DEF Init, CallInv, AttachedShape, KeysNeverMixPayloads, AnswersStayTrue

\* Calls that share a key never share a job of another payload, however their
\* look-ups and inserts interleave.
THEOREM KeysKeepPayloadsApart == Spec => []KeysNeverMixPayloads
<1>1. CallInv => KeysNeverMixPayloads
  BY DEF CallInv
<1> QED BY <1>1, InitCallInv, NextCallInv, PTL DEF Spec

\* What a call was told of an outcome stays true while retention keeps the job.
THEOREM AnswersAreTrue == Spec => []AnswersStayTrue
<1>1. CallInv => AnswersStayTrue
  BY DEF CallInv
<1> QED BY <1>1, InitCallInv, NextCallInv, PTL DEF Spec

=============================================================================
