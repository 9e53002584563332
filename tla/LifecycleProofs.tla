--------------------------- MODULE LifecycleProofs ----------------------------
(***************************************************************************)
(* The server implements JobLifecycle: every step of its handlers, seen    *)
(* through the mapping of QueueServer, is a step of the abstract queue or  *)
(* changes nothing that the abstract queue shows.                          *)
(***************************************************************************)
EXTENDS QueueServerProofs

\* The rest of the abstract state, as Lifecycle is given it.
WasAsked == [c \in Callers |-> <<callers[c].id, callers[c].payload>>]
WasTold == [c \in Callers |-> <<callers[c].reply.status, callers[c].reply.result>>]

\* What the mapping needs beyond the types: only a success carries a result, and
\* a row that is not there has none.
AnswerShape ==
  \A c \in Callers :
    callers[c].reply.status # "succeeded" => callers[c].reply.result = None

NoRowShape == \A id \in Ids : ~Present(id) => jobs[id].result = None

LifeInv == TypeInv /\ AnswerShape /\ NoRowShape

LEMMA InitLifeInv == Init => LifeInv
<1> SUFFICES ASSUME Init PROVE LifeInv
  OBVIOUS
<1>1. TypeInv
  BY InitTypeInv
<1>2. AnswerShape
  BY DEF Init, AnswerShape, IdleCaller, Caller, Unanswered, Answer
<1>3. NoRowShape
  BY DEF Init, StoreInit, NoRowShape, NoRow
<1> QED BY <1>1, <1>2, <1>3 DEF LifeInv

\* What Submit does to its caller, in any of its three cases.
LEMMA SubmitSteps ==
  ASSUME TypeInv, NEW c \in Callers, NEW key \in Keys \cup {None}, NEW p \in Payloads,
         Submit(c, key, p)
  PROVE  /\ jobs' = jobs /\ callers[c].pc = "idle"
         /\ \A d \in Callers \ {c} : callers'[d] = callers[d]
         /\ callers'[c].id \in Ids /\ callers'[c].payload = p
         /\ callers'[c].reply.result = None
         /\ \/ callers'[c].reply.status = "none"
            \/ /\ callers'[c].reply.status = "conflict"
               /\ Present(callers'[c].id) /\ ~SamePayload(callers'[c].id, p)
<1> DEFINE id == IF key = None THEN c ELSE key
<1>1. callers \in [Callers -> CallerStates] /\ id \in Ids
  BY ServerAssumption DEF TypeInv, TypeOK
<1>2. jobs' = jobs /\ callers[c].pc = "idle"
  BY DEF Submit, storeVars
<1>3. ASSUME NEW pc, NEW status,
             callers' = [callers EXCEPT ![c] = Caller(pc, id, p, Answer(status, None))]
      PROVE  /\ \A d \in Callers \ {c} : callers'[d] = callers[d]
             /\ callers'[c].id \in Ids /\ callers'[c].payload = p /\ callers'[c].id = id
             /\ callers'[c].reply.status = status /\ callers'[c].reply.result = None
  <2>1. /\ \A d \in Callers \ {c} : callers'[d] = callers[d]
        /\ callers'[c] = Caller(pc, id, p, Answer(status, None))
    BY <1>1, <1>3
  <2> QED BY <1>1, <2>1 DEF Caller, Answer
<1>5. \/ callers' = [callers EXCEPT ![c] = Caller("insert", id, p, Answer("none", None))]
      \/ callers' = [callers EXCEPT ![c] = Caller("wait", id, p, Answer("none", None))]
      \/ /\ callers' = [callers EXCEPT ![c] = Caller("done", id, p, Answer("conflict", None))]
         /\ Present(id) /\ ~SamePayload(id, p)
  BY DEF Submit, Unanswered
<1> HIDE DEF id
<1>6. CASE callers' = [callers EXCEPT ![c] = Caller("insert", id, p, Answer("none", None))]
  BY <1>2, <1>3, <1>6
<1>7. CASE callers' = [callers EXCEPT ![c] = Caller("wait", id, p, Answer("none", None))]
  BY <1>2, <1>3, <1>7
<1>8. CASE /\ callers' = [callers EXCEPT ![c] = Caller("done", id, p, Answer("conflict", None))]
           /\ Present(id) /\ ~SamePayload(id, p)
  BY <1>2, <1>3, <1>8
<1> QED BY <1>5, <1>6, <1>7, <1>8

\* Every answer a step gives has the shape.
LEMMA NextAnswerShape ==
  ASSUME TypeInv, AnswerShape, [Next]_vars
  PROVE  AnswerShape'
<1> SUFFICES ASSUME NEW c \in Callers
             PROVE  callers'[c].reply.status # "succeeded" => callers'[c].reply.result = None
  BY DEF AnswerShape
<1>0. callers \in [Callers -> CallerStates] /\ callers[c] \in CallerStates
  BY DEF TypeInv, TypeOK
<1>1. CASE callers'[c].reply = callers[c].reply
  BY <1>1 DEF AnswerShape
<1>2. CASE \E s : callers'[c].reply =
             Answer(s, IF s = "succeeded" THEN jobs[callers[c].id].result ELSE None)
  BY <1>2 DEF Answer
<1>3. ASSUME NEW pc, NEW d \in Callers, Goto(d, pc)
      PROVE  callers'[c].reply = callers[c].reply
  BY <1>0, <1>3 DEF Goto, CallerStates
<1>4. ASSUME NEW s, NEW d \in Callers, Reply(d, s)
      PROVE  \/ callers'[c].reply = callers[c].reply
             \/ callers'[c].reply =
                  Answer(s, IF s = "succeeded" THEN jobs[callers[c].id].result ELSE None)
  <2> DEFINE reply == Answer(s, IF s = "succeeded" THEN jobs[callers[d].id].result
                                                  ELSE None)
  <2>1. callers' = [callers EXCEPT ![d].pc = "done", ![d].reply = reply]
    BY <1>4 DEF Reply
  <2> HIDE DEF reply
  <2>2. CASE d # c
    BY <1>0, <2>1, <2>2
  <2>3. CASE d = c
    <3>1. callers'[c].reply = reply
      BY <1>0, <2>1, <2>3 DEF CallerStates
    <3> QED BY <2>3, <3>1 DEF reply
  <2> QED BY <2>2, <2>3
<1>5. CASE CallerStep
  <2>1. PICK d \in Callers :
          \/ \E key \in Keys \cup {None}, p \in Payloads : Submit(d, key, p)
          \/ InsertJob(d) \/ RereadJob(d) \/ PollJob(d)
          \/ StopWaiting(d) \/ HangUp(d) \/ CheckStatus(d)
    BY <1>5 DEF CallerStep
  <2>2. CASE \E key \in Keys \cup {None}, p \in Payloads : Submit(d, key, p)
    <3>1. PICK key \in Keys \cup {None}, p \in Payloads : Submit(d, key, p)
      BY <2>2
    <3>2. CASE d = c
      <4>1. callers'[c].reply.result = None
        BY <1>0, <3>1, <3>2, SubmitSteps
      <4> QED BY <4>1
    <3>3. CASE d # c
      <4>1. callers'[c] = callers[c]
        BY <1>0, <3>1, <3>3, SubmitSteps
      <4> QED BY <1>1, <4>1
    <3> QED BY <3>2, <3>3
  <2>3. CASE InsertJob(d) \/ RereadJob(d) \/ PollJob(d)
    BY <1>1, <1>2, <1>3, <1>4, <2>3 DEF InsertJob, RereadJob, PollJob
  <2>4. CASE StopWaiting(d) \/ HangUp(d) \/ CheckStatus(d)
    BY <1>1, <1>2, <1>4, <2>4 DEF StopWaiting, HangUp, CheckStatus
  <2> QED BY <2>1, <2>2, <2>3, <2>4
<1>6. CASE Restart
  <2>1. \/ callers'[c] = callers[c]
        \/ callers'[c] = [callers[c] EXCEPT !.pc = "done", !.reply = Answer("error", None)]
    BY <1>6 DEF Restart
  <2>2. CASE callers'[c] = [callers[c] EXCEPT !.pc = "done", !.reply = Answer("error", None)]
    <3>1. callers'[c].reply = Answer("error", None)
      BY <1>0, <2>2 DEF CallerStates
    <3> QED BY <3>1 DEF Answer
  <2> QED BY <1>1, <2>1, <2>2
<1>7. CASE LeaseStep \/ ReportStep \/ Prune \/ TimePasses \/ UNCHANGED vars
  BY <1>1, <1>7 DEF LeaseStep, StartPoll, GrantLease, EndPoll, ReportStep, ReportComplete,
     RecheckComplete, ReportFail, FailJob, Prune, TimePasses, serverVars, vars
<1> QED BY <1>5, <1>6, <1>7 DEF Next

LEMMA NextNoRowShape ==
  ASSUME TypeInv, NoRowShape, [Next]_vars
  PROVE  NoRowShape'
<1> SUFFICES ASSUME NEW id \in Ids, jobs'[id].state = "absent"
             PROVE  jobs'[id].result = None
  BY DEF NoRowShape, Present
<1>1. RowStep(id) /\ jobs[id] \in Rows
  BY RowSteps DEF TypeInv, TypeOK, StoreTypeOK
<1>2. CASE \/ jobs'[id] = [jobs[id] EXCEPT !.lapsed = TRUE]
           \/ jobs'[id] = [jobs[id] EXCEPT !.aged = TRUE]
  <2>1. jobs'[id].state = jobs[id].state /\ jobs'[id].result = jobs[id].result
    BY <1>1, <1>2 DEF Rows
  <2> QED BY <2>1 DEF NoRowShape, Present
<1> QED BY <1>1, <1>2, RowFields DEF RowStep, NoRowShape, Present

LEMMA NextLifeInv == LifeInv /\ [Next]_vars => LifeInv'
BY NextTypeInv, NextAnswerShape, NextNoRowShape DEF LifeInv

-----------------------------------------------------------------------------
(* The mapping, one kind of change at a time                               *)

\* The initial states agree.
LEMMA LifecycleInit == Init => Lifecycle!Init
BY DEF Init, StoreInit, NoRow, StatusOf, IdleCaller, Caller, Unanswered, Answer, Lifecycle!Init,
       Lifecycle!Nothing, Lifecycle!Silence

\* A step that keeps every row's status, payload and result keeps the three
\* abstract variables.
LEMMA RowsStutter ==
  ASSUME \A id \in Ids : /\ StatusOf(jobs'[id]) = StatusOf(jobs[id])
                         /\ jobs'[id].payload = jobs[id].payload
                         /\ jobs'[id].result = jobs[id].result
  PROVE  UNCHANGED <<TheStatus, ThePayload, TheResult>>
BY DEF TheStatus, ThePayload, TheResult

LEMMA CallersStutter ==
  ASSUME \A c \in Callers : /\ callers'[c].id = callers[c].id
                            /\ callers'[c].payload = callers[c].payload
                            /\ callers'[c].reply = callers[c].reply
  PROVE  UNCHANGED <<WasAsked, WasTold>>
BY DEF WasAsked, WasTold

LEMMA GotoStutters ==
  ASSUME TypeInv, NEW c \in Callers, NEW pc, Goto(c, pc)
  PROVE  UNCHANGED <<WasAsked, WasTold>>
<1>1. callers \in [Callers -> CallerStates]
  BY DEF TypeInv, TypeOK
<1>2. ASSUME NEW d \in Callers
      PROVE  /\ callers'[d].id = callers[d].id
             /\ callers'[d].payload = callers[d].payload
             /\ callers'[d].reply = callers[d].reply
  BY <1>1 DEF Goto, CallerStates
<1> QED BY <1>2, CallersStutter

\* The abstract next-state relation and its stutter, over the names above.
LEMMA LifecycleStep ==
  ASSUME UNCHANGED <<TheStatus, ThePayload, TheResult>>, UNCHANGED <<WasAsked, WasTold>>
  PROVE  UNCHANGED Lifecycle!vars
BY DEF TheStatus, ThePayload, TheResult, StatusOf, WasAsked, WasTold, Lifecycle!vars

\* A reply is an abstract answer when it says what the row says.
LEMMA ReplyAnswers ==
  ASSUME LifeInv, NEW c \in Callers, jobs' = jobs,
         NEW s \in {"queued", "conflict", "error", "succeeded", "failed"}, Reply(c, s),
         callers[c].id \in Ids,
         callers[c].reply.status \in {"none", "queued"},
         s \in {"succeeded", "failed"} => jobs[callers[c].id].state = s,
         s = "conflict" => /\ Present(callers[c].id)
                           /\ ~SamePayload(callers[c].id, callers[c].payload)
  PROVE  Lifecycle!Answer(c)
<1>1. /\ callers \in [Callers -> CallerStates] /\ callers[c] \in CallerStates
      /\ callers[c].id # None
  BY StoreAssumption DEF LifeInv, TypeInv, TypeOK
<1>2. callers[c].reply.result = None
  BY DEF LifeInv, AnswerShape
<1> DEFINE reply == Answer(s, IF s = "succeeded" THEN jobs[callers[c].id].result ELSE None)
<1>3. callers' = [callers EXCEPT ![c].pc = "done", ![c].reply = reply]
  BY DEF Reply
<1>4. /\ reply.status = s
      /\ reply.result = IF s = "succeeded" THEN jobs[callers[c].id].result ELSE None
  BY DEF Answer
<1> HIDE DEF reply
<1>5. ASSUME NEW d \in Callers
      PROVE  /\ callers'[d].id = callers[d].id /\ callers'[d].payload = callers[d].payload
             /\ callers'[d].reply = IF d = c THEN reply ELSE callers[d].reply
  BY <1>1, <1>3 DEF CallerStates
<1>6. UNCHANGED WasAsked
  BY <1>5 DEF WasAsked
<1>7. WasTold' = [WasTold EXCEPT ![c] = <<s, IF s = "succeeded" THEN TheResult[WasAsked[c][1]]
                                                               ELSE None>>]
  <2>1. TheResult[WasAsked[c][1]] = jobs[callers[c].id].result
    BY DEF TheResult, WasAsked
  <2> QED BY <1>4, <1>5, <2>1 DEF WasTold
<1>8. WasAsked[c] # <<None, None>> /\ WasAsked[c][1] = callers[c].id
      /\ WasAsked[c][2] = callers[c].payload
  BY <1>1 DEF WasAsked
<1>9. WasTold[c] \in {<<"none", None>>, <<"queued", None>>}
  BY <1>2 DEF WasTold
<1>10. /\ s \in {"succeeded", "failed"} => TheStatus[WasAsked[c][1]] = s
       /\ s = "conflict" => /\ TheStatus[WasAsked[c][1]] # "absent"
                            /\ ThePayload[WasAsked[c][1]] # WasAsked[c][2]
  BY <1>8 DEF TheStatus, ThePayload, StatusOf, Present, SamePayload
<1>11. UNCHANGED <<TheStatus, ThePayload, TheResult>>
  BY DEF TheStatus, ThePayload, TheResult
<1> QED BY <1>6, <1>7, <1>8, <1>9, <1>10, <1>11
        DEF Lifecycle!Answer, Lifecycle!Nothing, Lifecycle!Silence, TheStatus, ThePayload, TheResult,
            StatusOf, WasAsked, WasTold

-----------------------------------------------------------------------------
(* Each kind of step                                                       *)

LEMMA SubmitRefines ==
  ASSUME LifeInv, NEW c \in Callers, NEW key \in Keys \cup {None}, NEW p \in Payloads,
         Submit(c, key, p)
  PROVE  Lifecycle!Next
<1>1. TypeInv
  BY DEF LifeInv
<1> DEFINE id == callers'[c].id
<1>2. /\ jobs' = jobs /\ callers[c].pc = "idle"
      /\ \A d \in Callers \ {c} : callers'[d] = callers[d]
      /\ id \in Ids /\ callers'[c].payload = p /\ callers'[c].reply.result = None
      /\ \/ callers'[c].reply.status = "none"
         \/ /\ callers'[c].reply.status = "conflict"
            /\ jobs[id].state # "absent" /\ jobs[id].payload # p
  BY <1>1, SubmitSteps DEF Present, SamePayload
<1> HIDE DEF id
<1>3. callers[c].id = None /\ callers[c].payload = None
      /\ callers[c].reply.status = "none" /\ callers[c].reply.result = None
  <2>1. callers[c] = IdleCaller
    BY <1>1, <1>2 DEF TypeInv, CallerShape
  <2> QED BY <2>1 DEF IdleCaller, Caller, Unanswered, Answer
<1>4. WasAsked' = [WasAsked EXCEPT ![c] = <<id, p>>] /\ WasAsked[c] = <<None, None>>
  BY <1>2, <1>3 DEF WasAsked, id
<1>5. \/ WasTold' = WasTold
      \/ /\ TheStatus[id] # "absent" /\ ThePayload[id] # p
         /\ WasTold' = [WasTold EXCEPT ![c] = <<"conflict", None>>]
  <2>1. CASE callers'[c].reply.status = "none"
    BY <1>2, <1>3, <2>1 DEF WasTold
  <2>2. CASE /\ callers'[c].reply.status = "conflict"
             /\ jobs[id].state # "absent" /\ jobs[id].payload # p
    BY <1>2, <1>3, <2>2 DEF WasTold, TheStatus, ThePayload, StatusOf
  <2> QED BY <1>2, <2>1, <2>2
<1>6. UNCHANGED <<TheStatus, ThePayload, TheResult>>
  BY <1>2 DEF TheStatus, ThePayload, TheResult
<1>7. Lifecycle!Ask(c, id, p)
  BY <1>4, <1>5, <1>6 DEF Lifecycle!Ask, Lifecycle!Nothing, TheStatus, ThePayload, TheResult,
     StatusOf, WasAsked, WasTold
<1> QED BY <1>2, <1>7 DEF Lifecycle!Next

LEMMA InsertRefines ==
  ASSUME LifeInv, NEW c \in Callers, InsertJob(c)
  PROVE  Lifecycle!Next \/ UNCHANGED Lifecycle!vars
<1>1. /\ TypeInv /\ jobs \in [Ids -> Rows] /\ callers[c].pc = "insert"
      /\ callers[c].id \in Ids /\ callers[c].payload \in Payloads
      /\ callers[c].reply = Unanswered /\ callers[c].id # None
  BY StoreAssumption DEF LifeInv, TypeInv, TypeOK, StoreTypeOK, CallerShape, InsertJob
<1>2. CASE Insert(callers[c].id, callers[c].payload) /\ Goto(c, "wait")
  <2>1. UNCHANGED <<WasAsked, WasTold>>
    BY <1>1, <1>2, GotoStutters
  <2>2. WasAsked[c] = <<callers[c].id, callers[c].payload>> /\ WasTold[c] = <<"none", None>>
    BY <1>1 DEF WasAsked, WasTold, Unanswered, Answer
  <2>3. PICK id \in Ids : id = callers[c].id
    BY <1>1
  <2>4. PICK p \in Payloads : p = callers[c].payload
    BY <1>1
  <2>5. /\ jobs' = [jobs EXCEPT ![id] = QueuedRow(p)] /\ jobs[id].state = "absent"
        /\ jobs[id].result = None
    BY <1>2, <2>3, <2>4 DEF Insert, Present, LifeInv, NoRowShape
  <2>6. /\ QueuedRow(p).state = "queued" /\ QueuedRow(p).payload = p
        /\ QueuedRow(p).result = None
    BY <1>1, <2>3, RowFields
  <2>7. /\ TheStatus' = [TheStatus EXCEPT ![id] = "pending"] /\ TheStatus[id] = "absent"
        /\ ThePayload' = [ThePayload EXCEPT ![id] = p]
        /\ UNCHANGED TheResult
    BY <1>1, <2>5, <2>6 DEF TheStatus, ThePayload, TheResult, StatusOf
  <2>8. WasAsked[c][1] = id /\ WasAsked[c][2] = p /\ WasAsked[c] # <<None, None>>
    BY <1>1, <2>2, <2>3, <2>4
  <2>9. Lifecycle!Admit(c)
    BY <2>1, <2>2, <2>7, <2>8 DEF Lifecycle!Admit, Lifecycle!Nothing, Lifecycle!Silence,
       TheStatus, ThePayload, TheResult, StatusOf, WasAsked, WasTold
  <2> QED BY <2>9 DEF Lifecycle!Next
<1>3. CASE Goto(c, "reread") /\ UNCHANGED storeVars
  <2>1. UNCHANGED <<WasAsked, WasTold>>
    BY <1>1, <1>3, GotoStutters
  <2>2. UNCHANGED <<TheStatus, ThePayload, TheResult>>
    BY <1>3, RowsStutter DEF storeVars
  <2> QED BY <2>1, <2>2, LifecycleStep
<1> QED BY <1>2, <1>3 DEF InsertJob

LEMMA OtherCallsRefine ==
  ASSUME LifeInv, NEW c \in Callers,
         RereadJob(c) \/ PollJob(c) \/ StopWaiting(c) \/ HangUp(c) \/ CheckStatus(c)
  PROVE  Lifecycle!Next \/ UNCHANGED Lifecycle!vars
<1>1. TypeInv /\ callers[c].id \in Ids /\ jobs' = jobs
      /\ callers[c].reply.status \in {"none", "queued"}
  <2>1. \/ callers[c].pc \in {"insert", "reread", "wait", "sleep"}
        \/ callers[c].pc = "done" /\ callers[c].reply.status = "queued"
    BY DEF RereadJob, PollJob, StopWaiting, HangUp, CheckStatus, Waiting
  <2>2. jobs' = jobs
    BY DEF RereadJob, PollJob, StopWaiting, HangUp, CheckStatus, storeVars
  <2>3. TypeInv /\ CallerShape
    BY DEF LifeInv, TypeInv
  <2>4. callers[c].id \in Ids
    BY <2>1, <2>3 DEF CallerShape
  <2>5. callers[c].pc # "done" => callers[c].reply.status = "none"
    BY <2>3 DEF CallerShape, Unanswered, Answer
  <2> QED BY <2>1, <2>2, <2>3, <2>4, <2>5
<1>2. ASSUME NEW pc, Goto(c, pc)
      PROVE  UNCHANGED Lifecycle!vars
  <2>1. UNCHANGED <<WasAsked, WasTold>>
    BY <1>1, <1>2, GotoStutters
  <2>2. UNCHANGED <<TheStatus, ThePayload, TheResult>>
    BY <1>1, RowsStutter
  <2> QED BY <2>1, <2>2, LifecycleStep
<1>3. ASSUME NEW s \in {"queued", "conflict", "error", "succeeded", "failed"}, Reply(c, s),
             s \in {"succeeded", "failed"} => jobs[callers[c].id].state = s,
             s = "conflict" => /\ Present(callers[c].id)
                               /\ ~SamePayload(callers[c].id, callers[c].payload)
      PROVE  Lifecycle!Next
  <2>1. Lifecycle!Answer(c)
    BY <1>1, <1>3, ReplyAnswers
  <2> QED BY <2>1 DEF Lifecycle!Next
<1>4. Finished(callers[c].id) => jobs[callers[c].id].state \in {"succeeded", "failed"}
  BY DEF Finished, Terminal
<1>5. CASE RereadJob(c)
  BY <1>2, <1>3, <1>5 DEF RereadJob
<1>6. CASE PollJob(c)
  BY <1>2, <1>3, <1>4, <1>6 DEF PollJob
<1>7. CASE StopWaiting(c) \/ HangUp(c) \/ CheckStatus(c)
  BY <1>3, <1>4, <1>7 DEF StopWaiting, HangUp, CheckStatus
<1> QED BY <1>5, <1>6, <1>7

\* A step that leaves the callers alone and moves rows within one status.
LEMMA QuietRows ==
  ASSUME callers' = callers,
         \A id \in Ids : /\ StatusOf(jobs'[id]) = StatusOf(jobs[id])
                         /\ jobs'[id].payload = jobs[id].payload
                         /\ jobs'[id].result = jobs[id].result
  PROVE  UNCHANGED Lifecycle!vars
<1>1. UNCHANGED <<WasAsked, WasTold>>
  BY CallersStutter
<1> QED BY <1>1, RowsStutter, LifecycleStep

\* Rows that fail do so out of a pending state.
LEMMA FailuresRefine ==
  ASSUME TypeInv, callers' = callers, NEW failing \in SUBSET Ids,
         \A id \in failing : jobs[id].state = "leased",
         jobs' = [id \in Ids |-> IF id \in failing THEN FailedRow(jobs[id]) ELSE jobs[id]]
  PROVE  Lifecycle!Next
<1>1. jobs \in [Ids -> Rows]
  BY DEF TypeInv, TypeOK, StoreTypeOK
<1>2. ASSUME NEW id \in Ids
      PROVE  /\ jobs'[id].payload = jobs[id].payload /\ jobs'[id].result = jobs[id].result
             /\ jobs'[id].state = IF id \in failing THEN "failed" ELSE jobs[id].state
  BY <1>1, RowFields
<1>3. /\ \A id \in failing : TheStatus[id] = "pending"
      /\ TheStatus' = [id \in Ids |-> IF id \in failing THEN "failed" ELSE TheStatus[id]]
      /\ UNCHANGED <<ThePayload, TheResult>>
  BY <1>2 DEF TheStatus, ThePayload, TheResult, StatusOf
<1>4. UNCHANGED <<WasAsked, WasTold>>
  BY CallersStutter
<1>5. Lifecycle!GiveUp(failing)
  BY <1>3, <1>4 DEF Lifecycle!GiveUp, TheStatus, ThePayload, TheResult, StatusOf, WasAsked,
     WasTold
<1> QED BY <1>5 DEF Lifecycle!Next

LEMMA LeaseRefines ==
  ASSUME LifeInv, LeaseStep
  PROVE  Lifecycle!Next \/ UNCHANGED Lifecycle!vars
<1>1. TypeInv /\ callers' = callers /\ jobs \in [Ids -> Rows]
  BY DEF LifeInv, TypeInv, TypeOK, StoreTypeOK, LeaseStep, StartPoll, GrantLease, EndPoll
<1>2. CASE ExpireLeases
  <2> DEFINE failing == {id \in Ids : Exhausted(jobs[id])}
  <2>1. jobs' = [id \in Ids |-> IF id \in failing THEN FailedRow(jobs[id]) ELSE jobs[id]]
    BY <1>2 DEF ExpireLeases
  <2>2. \A id \in failing : jobs[id].state = "leased"
    BY DEF Exhausted
  <2> HIDE DEF failing
  <2>3. failing \in SUBSET Ids
    BY DEF failing
  <2> QED BY <1>1, <2>1, <2>2, <2>3, FailuresRefine
<1>3. ASSUME NEW id \in Ids, NEW t \in Tokens, Lease(id, t)
      PROVE  UNCHANGED Lifecycle!vars
  <2>1. /\ jobs' = [jobs EXCEPT ![id] = LeasedRow(jobs[id], t)]
        /\ jobs[id].state \in {"queued", "leased"}
    BY <1>3 DEF Lease, NextToLease, Leasable
  <2>2. /\ LeasedRow(jobs[id], t).state = "leased"
        /\ LeasedRow(jobs[id], t).payload = jobs[id].payload
        /\ LeasedRow(jobs[id], t).result = jobs[id].result
    BY <1>1, RowFields
  <2> QED BY <1>1, <2>1, <2>2, QuietRows DEF StatusOf
<1>4. CASE UNCHANGED storeVars
  BY <1>1, <1>4, QuietRows DEF storeVars
<1> QED BY <1>2, <1>3, <1>4 DEF LeaseStep, StartPoll, GrantLease, EndPoll

LEMMA ReportRefines ==
  ASSUME LifeInv, ReportStep
  PROVE  Lifecycle!Next \/ UNCHANGED Lifecycle!vars
<1>1. TypeInv /\ callers' = callers /\ jobs \in [Ids -> Rows] /\ ReporterShape
  BY DEF LifeInv, TypeInv, TypeOK, StoreTypeOK, ReportStep, ReportComplete, RecheckComplete,
     ReportFail, FailJob
<1>2. ASSUME NEW id \in Ids, NEW t, NEW result \in Results, Complete(id, t, result)
      PROVE  Lifecycle!Next
  <2>1. /\ jobs' = [jobs EXCEPT ![id] = SucceededRow(jobs[id], result)]
        /\ jobs[id].state = "leased"
    BY <1>2 DEF Complete, HoldsLease
  <2>2. /\ SucceededRow(jobs[id], result).state = "succeeded"
        /\ SucceededRow(jobs[id], result).payload = jobs[id].payload
        /\ SucceededRow(jobs[id], result).result = result
    BY <1>1, RowFields
  <2>3. /\ TheStatus[id] = "pending" /\ TheStatus' = [TheStatus EXCEPT ![id] = "succeeded"]
        /\ TheResult' = [TheResult EXCEPT ![id] = result] /\ UNCHANGED ThePayload
    BY <1>1, <2>1, <2>2 DEF TheStatus, ThePayload, TheResult, StatusOf
  <2>4. UNCHANGED <<WasAsked, WasTold>>
    BY <1>1, CallersStutter
  <2>5. Lifecycle!Succeed(id, result)
    BY <2>3, <2>4 DEF Lifecycle!Succeed, TheStatus, ThePayload, TheResult, StatusOf, WasAsked,
       WasTold
  <2> QED BY <2>5 DEF Lifecycle!Next
<1>3. ASSUME NEW id \in Ids, NEW t, NEW retryable, Fail(id, t, retryable)
      PROVE  Lifecycle!Next \/ UNCHANGED Lifecycle!vars
  <2>1. jobs[id].state = "leased"
    BY <1>3 DEF Fail, HoldsLease
  <2>2. CASE jobs' = [jobs EXCEPT ![id] = RequeuedRow(jobs[id])]
    <3>1. /\ RequeuedRow(jobs[id]).state = "queued"
          /\ RequeuedRow(jobs[id]).payload = jobs[id].payload
          /\ RequeuedRow(jobs[id]).result = jobs[id].result
      BY <1>1, RowFields
    <3> QED BY <1>1, <2>1, <2>2, <3>1, QuietRows DEF StatusOf
  <2>3. CASE jobs' = [jobs EXCEPT ![id] = FailedRow(jobs[id])]
    <3>1. jobs' = [j \in Ids |-> IF j \in {id} THEN FailedRow(jobs[j]) ELSE jobs[j]]
      BY <1>1, <2>3
    <3>2. {id} \in SUBSET Ids /\ \A j \in {id} : jobs[j].state = "leased"
      BY <2>1
    <3> QED BY <1>1, <3>1, <3>2, FailuresRefine
  <2> QED BY <1>3, <2>2, <2>3 DEF Fail
<1>4. CASE UNCHANGED storeVars
  BY <1>1, <1>4, QuietRows DEF storeVars
<1>5. PICK r \in Reporters :
        \/ \E t \in Tokens, result \in Results : ReportComplete(r, t, result)
        \/ RecheckComplete(r)
        \/ \E t \in Tokens, retryable \in BOOLEAN : ReportFail(r, t, retryable)
        \/ FailJob(r)
  BY DEF ReportStep
<1>6. ASSUME NEW t \in Tokens, NEW result \in Results, ReportComplete(r, t, result)
      PROVE  Lifecycle!Next \/ UNCHANGED Lifecycle!vars
  <2>1. grants[t] \in Ids
    BY <1>1, <1>6 DEF ReportComplete, Granted, TypeInv, TypeOK
  <2> QED BY <1>2, <1>4, <1>6, <2>1 DEF ReportComplete
<1>7. CASE FailJob(r)
  <2>1. JobOf(r) \in Ids
    BY <1>1, <1>7 DEF FailJob, JobOf, ReporterShape
  <2> QED BY <1>3, <1>4, <1>7, <2>1 DEF FailJob
<1>8. CASE RecheckComplete(r) \/ \E t \in Tokens, retryable \in BOOLEAN : ReportFail(r, t, retryable)
  BY <1>4, <1>8 DEF RecheckComplete, ReportFail
<1> QED BY <1>5, <1>6, <1>7, <1>8

\* Retention forgets finished rows, and the calls a restart cuts off hear an error.
LEMMA SweepRefines ==
  ASSUME LifeInv, Prune \/ Restart
  PROVE  Lifecycle!Next
<1>1. /\ TypeInv /\ jobs \in [Ids -> Rows] /\ callers \in [Callers -> CallerStates]
      /\ CallerShape
  BY DEF LifeInv, TypeInv, TypeOK, StoreTypeOK
<1> DEFINE gone == {id \in Ids : Prunable(jobs[id])}
           dropped == IF Restart THEN {c \in Callers : Waiting(c)} ELSE {}
<1>2. /\ \A id \in gone : jobs[id].state \in {"succeeded", "failed"}
      /\ jobs' = [id \in Ids |-> IF id \in gone THEN NoRow ELSE jobs[id]]
  BY DEF Prune, Restart, PruneTerminal, Prunable, Terminal
<1>3. ASSUME NEW c \in Callers
      PROVE  /\ callers'[c].id = callers[c].id /\ callers'[c].payload = callers[c].payload
             /\ c \in dropped => /\ callers'[c].reply.status = "error"
                                 /\ callers'[c].reply.result = None
             /\ c \notin dropped => callers'[c].reply = callers[c].reply
  <2>1. CASE c \in dropped
    <3>1. callers'[c] = [callers[c] EXCEPT !.pc = "done", !.reply = Answer("error", None)]
      BY <2>1 DEF Restart
    <3>2. callers[c] \in CallerStates
      BY <1>1
    <3>3. /\ callers'[c].id = callers[c].id /\ callers'[c].payload = callers[c].payload
          /\ callers'[c].reply = Answer("error", None)
      BY <3>1, <3>2 DEF CallerStates
    <3> QED BY <2>1, <3>3 DEF Answer
  <2>2. CASE c \notin dropped
    <3>1. callers'[c] = callers[c]
      BY <2>2 DEF Prune, Restart, serverVars
    <3> QED BY <2>2, <3>1
  <2> QED BY <2>1, <2>2
<1>4. \A c \in dropped :
        /\ callers[c].id \in Ids /\ callers[c].id # None
        /\ callers[c].reply.status = "none" /\ callers[c].reply.result = None
  <2> SUFFICES ASSUME NEW c \in Callers, Waiting(c)
               PROVE  /\ callers[c].id \in Ids /\ callers[c].id # None
                      /\ callers[c].reply.status = "none" /\ callers[c].reply.result = None
    OBVIOUS
  <2>1. callers[c].pc \notin {"idle", "done"}
    BY DEF Waiting
  <2>2. callers[c].id \in Ids /\ callers[c].reply = Unanswered
    BY <1>1, <2>1 DEF CallerShape
  <2> QED BY <2>2, StoreAssumption DEF Unanswered, Answer
<1>5. gone \in SUBSET Ids /\ dropped \in SUBSET Callers
  OBVIOUS
<1> HIDE DEF gone, dropped
<1>6. /\ \A id \in gone : TheStatus[id] \in {"succeeded", "failed"}
      /\ TheStatus' = [id \in Ids |-> IF id \in gone THEN "absent" ELSE TheStatus[id]]
      /\ ThePayload' = [id \in Ids |-> IF id \in gone THEN None ELSE ThePayload[id]]
      /\ TheResult' = [id \in Ids |-> IF id \in gone THEN None ELSE TheResult[id]]
  <2>1. NoRow.state = "absent" /\ NoRow.payload = None /\ NoRow.result = None
    BY DEF NoRow
  <2> QED BY <1>2, <1>5, <2>1 DEF TheStatus, ThePayload, TheResult, StatusOf
<1>7. /\ UNCHANGED WasAsked
      /\ WasTold' = [c \in Callers |-> IF c \in dropped THEN <<"error", None>>
                                                         ELSE WasTold[c]]
  BY <1>3, <1>5 DEF WasAsked, WasTold
<1>8. \A c \in dropped : WasAsked[c] # <<None, None>> /\ WasTold[c] = <<"none", None>>
  BY <1>4, <1>5 DEF WasAsked, WasTold
<1>9. PICK g \in SUBSET Ids : g = gone
  BY <1>5
<1>10. PICK d \in SUBSET Callers : d = dropped
  BY <1>5
<1>11. Lifecycle!Forget(g, d)
  BY <1>6, <1>7, <1>8, <1>9, <1>10
     DEF Lifecycle!Forget, Lifecycle!Nothing, Lifecycle!Silence,
         TheStatus, ThePayload, TheResult, StatusOf, WasAsked, WasTold
<1> QED BY <1>9, <1>10, <1>11 DEF Lifecycle!Next

LEMMA TimeRefines ==
  ASSUME LifeInv, TimePasses \/ UNCHANGED vars
  PROVE  UNCHANGED Lifecycle!vars
<1>1. callers' = callers /\ jobs \in [Ids -> Rows]
  BY DEF LifeInv, TypeInv, TypeOK, StoreTypeOK, TimePasses, serverVars, vars
<1>2. ASSUME NEW j \in Ids, NEW new,
             new = [jobs[j] EXCEPT !.lapsed = TRUE] \/ new = [jobs[j] EXCEPT !.aged = TRUE],
             jobs' = [jobs EXCEPT ![j] = new]
      PROVE  UNCHANGED Lifecycle!vars
  <2>1. jobs[j] \in Rows
    BY <1>1
  <2>2. new.state = jobs[j].state /\ new.payload = jobs[j].payload /\ new.result = jobs[j].result
    BY <1>2, <2>1 DEF Rows
  <2>3. ASSUME NEW id \in Ids
        PROVE  /\ jobs'[id].state = jobs[id].state /\ jobs'[id].payload = jobs[id].payload
               /\ jobs'[id].result = jobs[id].result
    BY <1>1, <1>2, <2>2
  <2> QED BY <1>1, <2>3, QuietRows DEF StatusOf
<1>3. ASSUME NEW j \in Ids, LeaseLapses(j) \/ RetentionPasses(j)
      PROVE  \/ jobs' = [jobs EXCEPT ![j] = [jobs[j] EXCEPT !.lapsed = TRUE]]
             \/ jobs' = [jobs EXCEPT ![j] = [jobs[j] EXCEPT !.aged = TRUE]]
  BY <1>1, <1>3 DEF LeaseLapses, RetentionPasses
<1>4. CASE jobs' = jobs
  BY <1>1, <1>4, QuietRows
<1> QED BY <1>2, <1>3, <1>4 DEF TimePasses, Tick, vars

-----------------------------------------------------------------------------

LEMMA NextRefines ==
  ASSUME LifeInv, [Next]_vars
  PROVE  [Lifecycle!Next]_(Lifecycle!vars)
<1>1. CASE CallerStep
  BY <1>1, SubmitRefines, InsertRefines, OtherCallsRefine DEF CallerStep
<1>2. CASE LeaseStep \/ ReportStep
  BY <1>2, LeaseRefines, ReportRefines
<1>3. CASE Prune \/ Restart
  BY <1>3, SweepRefines
<1>4. CASE TimePasses \/ UNCHANGED vars
  BY <1>4, TimeRefines
<1> QED BY <1>1, <1>2, <1>3, <1>4 DEF Next

\* The handlers, leases and tokens of the server keep the promises of JobLifecycle:
\* jobs come from callers only, each is settled once, and callers are told nothing
\* but the truth of the moment.
THEOREM LifecycleIsKept == Spec => RefinesLifecycle
<1> QED BY InitLifeInv, NextLifeInv, LifecycleInit, NextRefines, PTL
        DEF Spec, RefinesLifecycle, Lifecycle!Spec

=============================================================================
