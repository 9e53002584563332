--------------------------- MODULE TaskUpdateProofs ---------------------------
(***************************************************************************)
(* Theorems about TaskUpdate, for every request, to-do, edit and schedule, *)
(* and any number of sessions, calls, edits and days.                      *)
(*                                                                         *)
(* The argument: all who write go by the one plan the journal keeps, so    *)
(* what they write to a field is what it should be after the change; and a *)
(* field nobody else has touched since somebody looked is as he saw it or  *)
(* as another of them has left it.  What is appended has one writer.       *)
(***************************************************************************)
EXTENDS TaskUpdate, TLAPS

Asked == DOMAIN request.set
Places == Reading \cup {"idle", "record", "dispatch", "send", "finish"}
Planning == {"dispatch", "check", "apply", "send", "verify", "finish"}
Planned == {"prepared", "dispatched", "applied", "reported"}
Sent == {"dispatched", "applied", "reported"}
Settled == {"applied", "reported"}

-----------------------------------------------------------------------------
(* Shapes                                                                  *)

IsRow(row) ==
  /\ row = [state |-> row.state, payload |-> row.payload, plan |-> row.plan,
            result |-> row.result, differs |-> row.differs, aged |-> row.aged]
  /\ row.state \in Journal!OperationStates

IsAttempt(a) ==
  /\ a = [pc |-> a.pc, half |-> a.half, call |-> a.call, plan |-> a.plan, rows |-> a.rows,
          touched |-> a.touched, landed |-> a.landed]
  /\ a.pc \in Places /\ a.half \in {"rows", "dates"}
  /\ a.half = "dates" => a.pc \in Reading

RowInv == operations = [id \in {"update"} |-> op] /\ IsRow(op)
AttemptsInv ==
  attempts = [s \in Sessions |-> attempts[s]] /\ \A s \in Sessions : IsAttempt(attempts[s])

IsRows(rows) == rows.fields = [f \in Fields |-> rows.fields[f]]
IsWrite(w) ==
  /\ w = [fields |-> w.fields, when |-> w.when, day |-> w.day, call |-> w.call,
          touched |-> w.touched]
  /\ w.when \in Moves

ShapeInv ==
  /\ request \in Requests
  /\ today \in 1 .. LastDay
  /\ IsTask(task)
  /\ RowInv
  /\ AttemptsInv
  /\ \A w \in flying : IsWrite(w)

-----------------------------------------------------------------------------
(* What the proofs go by                                                   *)

\* One plan is saved, and everybody goes by it.
GoodPlan(plan) ==
  /\ DOMAIN plan.before = Asked /\ DOMAIN plan.after = Asked
  /\ \A f \in Asked : plan.after[f] = Wanted(f, plan.before[f])
  /\ plan.safe = ReplaySafe
  /\ plan.when = request.when
  /\ request.when \in {"today", "evening"} /\ "schedule" \notin edited => plan.day = today

GoodWrite(w) ==
  /\ DOMAIN w.fields \subseteq Asked
  /\ \A f \in DOMAIN w.fields :
       w.fields[f] = IF f = "checklist" THEN request.set[f] ELSE op.plan.after[f]
  /\ w.touched \subseteq edited
  /\ w.day = op.plan.day
  /\ \/ w.when = "keep"
     \/ request.when = "anytime" /\ w.when = "clear"
     \/ request.when \in {"someday", "evening"} /\ w.when = request.when
     \/ request.when \in {"today", "date"} /\ w.when = "day"

Allowed == NeedsToken => request.token

PlanAt(s) ==
  /\ attempts[s].half = "dates" \/ At(s, "send") => IsRows(attempts[s].rows)
  /\ attempts[s].pc \in Planning => op.state \in Planned /\ attempts[s].plan = op.plan
  /\ attempts[s].pc \in Planning \ {"dispatch"} => op.state \in Sent
  /\ At(s, "record") => Allowed /\ GoodPlan(attempts[s].plan)
  /\ At(s, "prepare") /\ attempts[s].half = "dates" => Allowed
  /\ attempts[s].touched \subseteq edited

PlanInv ==
  /\ op.state \in Planned => Allowed /\ GoodPlan(op.plan)
  /\ \A s \in Sessions : PlanAt(s)
  /\ \A w \in flying : op.state \in Sent /\ GoodWrite(w)

\* A checklist is appended to by one writer.
Writing(s) == attempts[s].pc \in {"apply", "send"}
Appends(w) == "checklist" \in DOMAIN w.fields

WriterInv ==
  "checklist" \in Asked =>
    /\ \A s, r \in Sessions : Writing(s) /\ Writing(r) => s = r
    /\ \A s \in Sessions, w \in flying : ~(Writing(s) /\ Appends(w))
    /\ \A v, w \in flying : Appends(v) /\ Appends(w) => v = w

\* What a field may be that nobody else has touched since a writer looked at it.
Expected(f) ==
  IF f = "checklist" THEN {op.plan.before[f]} ELSE {op.plan.before[f], op.plan.after[f]}

ValueInv ==
  /\ \A w \in flying : \A f \in DOMAIN w.fields \ w.touched : task.fields[f] \in Expected(f)
  /\ \A s \in Sessions :
       /\ At(s, "send") =>
            \A f \in Unmet(attempts[s].plan, attempts[s].rows) \ attempts[s].touched :
              task.fields[f] \in Expected(f)
       /\ At(s, "apply") /\ attempts[s].half = "dates" =>
            \A f \in Asked \ (attempts[s].touched \cup {"deadline"}) :
              attempts[s].rows.fields[f] = op.plan.before[f] => task.fields[f] \in Expected(f)

\* What a field is that nobody else has ever touched.
OwnInv ==
  /\ clashed \subseteq edited \cap Asked
  /\ \A f \in Asked \ edited :
       /\ op.state \in Planned => task.fields[f] \in {op.plan.before[f], op.plan.after[f]}
       /\ \A s \in Sessions :
            /\ f # "deadline" /\ attempts[s].half = "dates"
                 /\ attempts[s].pc \in {"check", "apply"} =>
                 attempts[s].rows.fields[f] \in {op.plan.before[f], op.plan.after[f]}
            /\ op.state \notin Planned /\ At(s, "record") =>
                 attempts[s].plan.before[f] = task.fields[f]
            /\ op.state \notin Planned /\ At(s, "prepare")
                 /\ attempts[s].half = "dates" /\ f # "deadline" =>
                 attempts[s].rows.fields[f] = task.fields[f]

\* What somebody has seen has been so.
AllMet == Asked \cup ({"schedule"} \ edited) \subseteq met

MetInv ==
  /\ met \subseteq Asked \cup {"schedule"}
  /\ MetNow \subseteq met
  /\ op.state \in Settled => AllMet
  /\ \A s \in Sessions :
       /\ At(s, "finish") => AllMet
       /\ attempts[s].pc \in {"check", "apply", "verify"} /\ attempts[s].half = "dates" =>
            /\ \A f \in Asked \ {"deadline"} :
                 attempts[s].rows.fields[f] = op.plan.after[f] => f \in met
            /\ \/ "schedule" \in edited \cup met
               \/ attempts[s].rows.start = task.start /\ attempts[s].rows.bucket = task.bucket

\* What is appended is there once, if it was not there before.
Text(v) == v \in Seq({v[i] : i \in DOMAIN v})
Lacks(v, line) == Text(v) /\ \A i \in DOMAIN v : v[i] # line

HasOnce(v, line) == Text(v) /\ \A i, j \in DOMAIN v : v[i] = line /\ v[j] = line => i = j

AppendsFresh(r) ==
  \A f \in {"notes", "checklist"} \cap DOMAIN r.set :
    /\ HasOnce(r.set[f], r.set[f][1])
    /\ \A t \in Tasks : Lacks(t.fields[f], r.set[f][1])
    /\ \A v \in Edits[f] : Lacks(v, r.set[f][1])

FreshLines == \A r \in Requests : AppendsFresh(r)

Clean(f, v) == Lacks(v, request.set[f][1])
Once(f, v) == HasOnce(v, request.set[f][1])

LineInv ==
  \A f \in {"notes", "checklist"} \cap Asked :
    /\ Once(f, task.fields[f])
    /\ op.state \in Planned => Clean(f, op.plan.before[f])
    /\ op.state \notin Sent => Clean(f, task.fields[f])
    /\ f = "checklist" =>
         \/ Clean(f, task.fields[f])
         \/ /\ \A s \in Sessions : ~Writing(s)
            /\ \A w \in flying : ~Appends(w)
    /\ \A s \in Sessions :
         op.state \notin Planned =>
           /\ At(s, "record") => Clean(f, attempts[s].plan.before[f])
           /\ At(s, "prepare") /\ attempts[s].half = "dates" => Clean(f, attempts[s].rows.fields[f])

-----------------------------------------------------------------------------
(* Steps of the parts                                                      *)

\* What each statement does to the row.
LEMMA EnsureRow ==
  ASSUME RowInv, Journal!EnsureOperation("update", "request")
  PROVE  /\ RowInv'
         /\ op'.state = IF op.state = "none" THEN "received" ELSE op.state
         /\ op.state # "none" => op' = op
BY DEF RowInv, IsRow, op, Journal!EnsureOperation, Journal!HasOperation, Journal!Received,
  Journal!NoOperation, Journal!OperationStates

LEMMA PrepareRow ==
  ASSUME RowInv, NEW plan, Journal!PrepareOperation("update", plan)
  PROVE  RowInv' /\ op.state = "received" /\ op'.state = "prepared" /\ op'.plan = plan
BY DEF RowInv, IsRow, op, Journal!PrepareOperation, Journal!Move, Journal!OperationIn,
  Journal!OperationStates

LEMMA DispatchRow ==
  ASSUME RowInv, Journal!MarkOperationDispatched("update")
  PROVE  RowInv' /\ op.state = "prepared" /\ op'.state = "dispatched" /\ op'.plan = op.plan
BY DEF RowInv, IsRow, op, Journal!MarkOperationDispatched, Journal!Move, Journal!OperationIn,
  Journal!OperationStates

LEMMA CompleteRow ==
  ASSUME RowInv, NEW plan, Journal!CompleteOperation("update", plan, FALSE)
  PROVE  RowInv' /\ op.state = "dispatched" /\ op'.state = "applied" /\ op'.plan = op.plan
BY DEF RowInv, IsRow, op, Journal!CompleteOperation, Journal!Move, Journal!OperationIn,
  Journal!OperationStates

\* What each way of going on does to the attempts.
Others(s) == \A r \in Sessions \ {s} : attempts'[r] = attempts[r]

LEMMA GotoAttempt ==
  ASSUME AttemptsInv, NEW s \in Sessions, NEW pc \in Places, Goto(s, pc)
  PROVE  /\ AttemptsInv' /\ Others(s)
         /\ attempts'[s].pc = pc /\ attempts'[s].half = "rows"
         /\ attempts'[s].call = attempts[s].call /\ attempts'[s].plan = attempts[s].plan
         /\ attempts'[s].landed = attempts[s].landed
         /\ attempts'[s].touched = IF pc = "verify" THEN attempts[s].touched ELSE {}
<1>1. attempts'[s] = [attempts[s] EXCEPT !.pc = pc, !.half = "rows", !.rows = NoPlan,
                                         !.touched = IF pc = "verify" THEN @ ELSE {}]
  BY DEF Goto, AttemptsInv
<1>2. attempts' = [r \in Sessions |-> attempts'[r]] /\ Others(s)
  BY DEF Goto, AttemptsInv, Others
<1>3. attempts'[s] = [pc |-> pc, half |-> "rows", call |-> attempts[s].call,
                      plan |-> attempts[s].plan, rows |-> NoPlan,
                      touched |-> IF pc = "verify" THEN attempts[s].touched ELSE {},
                      landed |-> attempts[s].landed]
  BY <1>1 DEF AttemptsInv, IsAttempt
<1> QED
  BY <1>2, <1>3 DEF AttemptsInv, IsAttempt, Others

Opens(s, pc, number, plan) == attempts' = [attempts EXCEPT ![s] = Call(pc, number, plan)]
Reads(s, rows, touched) ==
  attempts' = [attempts EXCEPT ![s].half = "dates", ![s].rows = rows, ![s].touched = touched]
Sends(s, rows) ==
  attempts' = [attempts EXCEPT ![s].pc = "send", ![s].half = "rows", ![s].rows = rows]

LEMMA NewAttempt ==
  ASSUME AttemptsInv, NEW s \in Sessions, NEW pc \in Places, NEW number, NEW plan,
         Opens(s, pc, number, plan)
  PROVE  /\ AttemptsInv' /\ Others(s)
         /\ attempts'[s] = Call(pc, number, plan)
         /\ attempts'[s].pc = pc /\ attempts'[s].half = "rows" /\ attempts'[s].call = number
         /\ attempts'[s].plan = plan /\ attempts'[s].touched = {} /\ ~attempts'[s].landed
BY DEF AttemptsInv, IsAttempt, Others, Call, Opens

LEMMA ReturnAttempt ==
  ASSUME AttemptsInv, NEW s \in Sessions, Return(s)
  PROVE  AttemptsInv' /\ Others(s) /\ attempts'[s].pc = "idle" /\ attempts'[s].half = "rows"
         /\ attempts'[s].call = 0 /\ attempts'[s].touched = {} /\ ~attempts'[s].landed
<1>1. Opens(s, "idle", 0, NoPlan)
  BY DEF Return, NoCall, Opens
<1>2. "idle" \in Places
  BY DEF Places
<1> QED
  BY <1>1, <1>2, NewAttempt

LEMMA ReadAttempt ==
  ASSUME AttemptsInv, NEW s \in Sessions, attempts[s].pc \in Reading, NEW rows, NEW touched,
         Reads(s, rows, touched)
  PROVE  /\ AttemptsInv' /\ Others(s)
         /\ attempts'[s].pc = attempts[s].pc /\ attempts'[s].half = "dates"
         /\ attempts'[s].call = attempts[s].call /\ attempts'[s].plan = attempts[s].plan
         /\ attempts'[s].landed = attempts[s].landed
         /\ attempts'[s].rows = rows /\ attempts'[s].touched = touched
<1>1. attempts'[s] = [pc |-> attempts[s].pc, half |-> "dates", call |-> attempts[s].call,
                      plan |-> attempts[s].plan, rows |-> rows, touched |-> touched,
                      landed |-> attempts[s].landed]
  <2>1. attempts'[s] = [attempts[s] EXCEPT !.half = "dates", !.rows = rows, !.touched = touched]
    BY DEF AttemptsInv, Reads
  <2> QED
    BY <2>1 DEF AttemptsInv, IsAttempt
<1>2. attempts' = [r \in Sessions |-> attempts'[r]] /\ Others(s)
  BY DEF AttemptsInv, Others, Reads
<1> QED
  BY <1>1, <1>2 DEF AttemptsInv, IsAttempt, Others

LEMMA SendAttempt ==
  ASSUME AttemptsInv, NEW s \in Sessions, NEW rows, Sends(s, rows)
  PROVE  /\ AttemptsInv' /\ Others(s)
         /\ attempts'[s].pc = "send" /\ attempts'[s].half = "rows"
         /\ attempts'[s].call = attempts[s].call /\ attempts'[s].plan = attempts[s].plan
         /\ attempts'[s].landed = attempts[s].landed
         /\ attempts'[s].rows = rows /\ attempts'[s].touched = attempts[s].touched
<1>1. attempts'[s] = [pc |-> "send", half |-> "rows", call |-> attempts[s].call,
                      plan |-> attempts[s].plan, rows |-> rows,
                      touched |-> attempts[s].touched, landed |-> attempts[s].landed]
  <2>1. attempts'[s] = [attempts[s] EXCEPT !.pc = "send", !.half = "rows", !.rows = rows]
    BY DEF AttemptsInv, Sends
  <2> QED
    BY <2>1 DEF AttemptsInv, IsAttempt
<1>2. attempts' = [r \in Sessions |-> attempts'[r]] /\ Others(s)
  BY DEF AttemptsInv, Others, Sends
<1>3. "send" \in Places
  BY DEF Places
<1> QED
  BY <1>1, <1>2, <1>3 DEF AttemptsInv, IsAttempt, Others

\* What Things, the user and the calendar change of the attempts.
Place(a) == <<a.pc, a.half, a.call, a.plan, a.rows>>
SamePlaces == \A s \in Sessions : Place(attempts'[s]) = Place(attempts[s])

With(a, touched, landed) ==
  [pc |-> a.pc, half |-> a.half, call |-> a.call, plan |-> a.plan, rows |-> a.rows,
   touched |-> touched, landed |-> landed]

LEMMA WithAttempt ==
  ASSUME NEW a, IsAttempt(a), NEW touched, NEW landed
  PROVE  /\ IsAttempt(With(a, touched, landed)) /\ Place(With(a, touched, landed)) = Place(a)
         /\ With(a, touched, landed).touched = touched /\ With(a, touched, landed).landed = landed
BY DEF IsAttempt, With, Place

LEMMA AttemptIsWith ==
  ASSUME NEW a, IsAttempt(a), NEW parts, NEW now
  PROVE  /\ [a EXCEPT !.landed = now] = With(a, a.touched, now)
         /\ [a EXCEPT !.touched = @ \cup parts] = With(a, a.touched \cup parts, a.landed)
<1>1. PICK pc, half, call, plan, rows, touched, landed :
        a = [pc |-> pc, half |-> half, call |-> call, plan |-> plan, rows |-> rows,
             touched |-> touched, landed |-> landed]
  BY DEF IsAttempt
<1>2. [a EXCEPT !.landed = now] =
        [pc |-> pc, half |-> half, call |-> call, plan |-> plan, rows |-> rows,
         touched |-> touched, landed |-> now]
  BY <1>1
<1>3. [a EXCEPT !.touched = @ \cup parts] =
        [pc |-> pc, half |-> half, call |-> call, plan |-> plan, rows |-> rows,
         touched |-> touched \cup parts, landed |-> landed]
  BY <1>1
<1>4. /\ a.pc = pc /\ a.half = half /\ a.call = call /\ a.plan = plan /\ a.rows = rows
      /\ a.touched = touched /\ a.landed = landed
  BY <1>1
<1> QED
  BY <1>2, <1>3, <1>4 DEF With

LEMMA LandedAttempts ==
  ASSUME AttemptsInv, NEW w, Landed(w)
  PROVE  /\ AttemptsInv' /\ SamePlaces
         /\ \A s \in Sessions :
              /\ attempts'[s].touched = attempts[s].touched
              /\ \/ attempts'[s].landed = attempts[s].landed
                 \/ At(s, "verify") /\ attempts[s].call = w.call
<1>1. attempts' = [s \in Sessions |-> attempts'[s]]
  BY DEF Landed
<1>2. ASSUME NEW s \in Sessions
      PROVE  /\ IsAttempt(attempts'[s]) /\ Place(attempts'[s]) = Place(attempts[s])
             /\ attempts'[s].touched = attempts[s].touched
             /\ \/ attempts'[s].landed = attempts[s].landed
                \/ At(s, "verify") /\ attempts[s].call = w.call
  <2>1. IsAttempt(attempts[s])
    BY DEF AttemptsInv
  <2>2. PICK now : \/ attempts'[s] = attempts[s]
                   \/ /\ At(s, "verify") /\ attempts[s].call = w.call
                      /\ attempts'[s] = [attempts[s] EXCEPT !.landed = now]
    BY DEF Landed
  <2>3. \/ attempts'[s] = attempts[s]
        \/ /\ At(s, "verify") /\ attempts[s].call = w.call
           /\ attempts'[s] = With(attempts[s], attempts[s].touched, now)
    BY <2>1, <2>2, AttemptIsWith
  <2>4. CASE attempts'[s] = attempts[s]
    BY <2>1, <2>4
  <2>5. CASE /\ At(s, "verify") /\ attempts[s].call = w.call
             /\ attempts'[s] = With(attempts[s], attempts[s].touched, now)
    BY <2>1, <2>5, WithAttempt
  <2> QED
    BY <2>3, <2>4, <2>5
<1> QED
  BY <1>1, <1>2 DEF AttemptsInv, SamePlaces

LEMMA TouchedAttempts ==
  ASSUME AttemptsInv, NEW parts, Touch(parts)
  PROVE  /\ AttemptsInv' /\ SamePlaces
         /\ \A s \in Sessions :
              /\ attempts'[s].landed = attempts[s].landed
              /\ attempts'[s].touched = IF attempts[s].pc \in {"apply", "send", "verify"}
                                          THEN attempts[s].touched \cup parts
                                          ELSE attempts[s].touched
<1>1. attempts' = [s \in Sessions |-> attempts'[s]]
  BY DEF Touch
<1>2. ASSUME NEW s \in Sessions
      PROVE  /\ IsAttempt(attempts'[s]) /\ Place(attempts'[s]) = Place(attempts[s])
             /\ attempts'[s].landed = attempts[s].landed
             /\ attempts'[s].touched = IF attempts[s].pc \in {"apply", "send", "verify"}
                                         THEN attempts[s].touched \cup parts
                                         ELSE attempts[s].touched
  <2>1. IsAttempt(attempts[s])
    BY DEF AttemptsInv
  <2>2. attempts'[s] = IF attempts[s].pc \in {"apply", "send", "verify"}
                         THEN [attempts[s] EXCEPT !.touched = @ \cup parts] ELSE attempts[s]
    BY DEF Touch
  <2>3. attempts'[s] =
          IF attempts[s].pc \in {"apply", "send", "verify"}
            THEN With(attempts[s], attempts[s].touched \cup parts, attempts[s].landed)
            ELSE attempts[s]
    BY <2>1, <2>2, AttemptIsWith
  <2> QED
    BY <2>1, <2>3, WithAttempt
<1> QED
  BY <1>1, <1>2 DEF AttemptsInv, SamePlaces

\* A write and what an edit makes of it.
Rest(w, touched) ==
  [fields |-> w.fields, when |-> w.when, day |-> w.day, call |-> w.call, touched |-> touched]

LEMMA TouchedWrite ==
  ASSUME NEW w, IsWrite(w), NEW parts
  PROVE  [w EXCEPT !.touched = @ \cup parts] = Rest(w, w.touched \cup parts)
<1>1. PICK fields, when, day, call, touched :
        w = [fields |-> fields, when |-> when, day |-> day, call |-> call, touched |-> touched]
  BY DEF IsWrite
<1> QED
  BY <1>1 DEF Rest

LEMMA TouchedWrites ==
  ASSUME NEW parts, Touch(parts), \A w \in flying : IsWrite(w)
  PROVE  flying' = {Rest(w, w.touched \cup parts) : w \in flying}
BY TouchedWrite DEF Touch

\* What an update or the user does to the to-do leaves it one.
ToDo(fields, start, date, bucket, pinned, open) ==
  [fields |-> fields, start |-> start, date |-> date, bucket |-> bucket, pinned |-> pinned,
   open |-> open]

LEMMA ToDoIs ==
  ASSUME NEW fields, fields = [f \in Fields |-> fields[f]],
         NEW start, NEW date, NEW bucket, NEW pinned, NEW open
  PROVE  IsTask(ToDo(fields, start, date, bucket, pinned, open))
BY DEF IsTask, ToDo

LEMMA IsToDo ==
  ASSUME NEW t, IsTask(t)
  PROVE  \E fields, start, date, bucket, pinned, open :
           /\ t = ToDo(fields, start, date, bucket, pinned, open)
           /\ fields = [f \in Fields |-> fields[f]]
BY DEF IsTask, ToDo

LEMMA WrittenFields ==
  ASSUME IsTask(task), NEW fields
  PROVE  /\ IsTask(Written(task, fields))
         /\ \A f \in Fields : Written(task, fields).fields[f] =
              IF f \notin DOMAIN fields THEN task.fields[f]
              ELSE IF f = "checklist" THEN task.fields[f] \o fields[f] ELSE fields[f]
         /\ Written(task, fields).start = task.start /\ Written(task, fields).date = task.date
         /\ Written(task, fields).bucket = task.bucket /\ Written(task, fields).pinned = task.pinned
         /\ Written(task, fields).open = task.open
<1> DEFINE new == [f \in Fields |->
                     IF f \notin DOMAIN fields THEN task.fields[f]
                     ELSE IF f = "checklist" THEN task.fields[f] \o fields[f] ELSE fields[f]]
<1>1. PICK old, start, date, bucket, pinned, open :
        task = ToDo(old, start, date, bucket, pinned, open)
  BY IsToDo
<1>2. Written(task, fields) = ToDo(new, start, date, bucket, pinned, open)
  <2>1. Written(task, fields) = [task EXCEPT !.fields = new]
    <3>1. task.fields = old
      BY <1>1 DEF ToDo
    <3> QED
      BY <1>1 DEF Written, ToDo
  <2> QED
    BY <2>1, <1>1 DEF ToDo
<1>3. new = [f \in Fields |-> new[f]]
  OBVIOUS
<1>4. \A f \in Fields : new[f] = IF f \notin DOMAIN fields THEN task.fields[f]
                                ELSE IF f = "checklist" THEN task.fields[f] \o fields[f]
                                                        ELSE fields[f]
  OBVIOUS
<1> HIDE DEF new
<1>5. IsTask(Written(task, fields))
  BY <1>2, <1>3, ToDoIs
<1>6. /\ Written(task, fields).fields = new
      /\ Written(task, fields).start = task.start /\ Written(task, fields).date = task.date
      /\ Written(task, fields).bucket = task.bucket /\ Written(task, fields).pinned = task.pinned
      /\ Written(task, fields).open = task.open
  BY <1>1, <1>2 DEF ToDo
<1> QED
  BY <1>4, <1>5, <1>6

LEMMA ScheduledFields ==
  ASSUME NEW t, IsTask(t), NEW w, w.when \in Moves
  PROVE  /\ IsTask(Scheduled(t, w)) /\ Scheduled(t, w).fields = t.fields
         /\ w.when = "keep" => Scheduled(t, w) = t
         /\ w.when = "clear" => /\ Scheduled(t, w).start = 1 /\ Scheduled(t, w).date = 0
                                /\ ~Scheduled(t, w).pinned
         /\ w.when = "someday" => Scheduled(t, w).start = 2 /\ Scheduled(t, w).date = 0
         /\ w.when = "evening" => /\ Scheduled(t, w).start = 1 /\ Scheduled(t, w).date = today
                                  /\ Scheduled(t, w).bucket = 1
         /\ w.when = "day" => /\ Scheduled(t, w).date = w.day /\ Scheduled(t, w).bucket = 0
                              /\ w.day = today /\ today \in Nat => Scheduled(t, w).start = 1
                              /\ w.day <= today => Scheduled(t, w).start = 1
<1>1. PICK fields, start, date, bucket, pinned, open :
        /\ t = ToDo(fields, start, date, bucket, pinned, open)
        /\ fields = [f \in Fields |-> fields[f]]
  BY IsToDo
<1>2. w.when = "keep" => Scheduled(t, w) = t
  BY DEF Scheduled
<1>3. w.when = "clear" => Scheduled(t, w) = ToDo(fields, 1, 0, 0, FALSE, open)
  BY <1>1 DEF Scheduled, ToDo
<1>4. w.when = "someday" => Scheduled(t, w) = ToDo(fields, 2, 0, 0, FALSE, open)
  BY <1>1 DEF Scheduled, ToDo
<1>5. w.when = "evening" => Scheduled(t, w) = ToDo(fields, 1, today, 1, FALSE, open)
  BY <1>1 DEF Scheduled, ToDo
<1>6. w.when = "day" =>
        Scheduled(t, w) = ToDo(fields, IF w.day <= today THEN 1 ELSE 2, w.day, 0, FALSE, open)
  BY <1>1 DEF Scheduled, ToDo
<1>7. \A b, c, d, e, o : IsTask(ToDo(fields, b, c, d, e, o))
  BY <1>1, ToDoIs
<1>8. today \in Nat => today <= today
  OBVIOUS
<1>9. \/ w.when = "keep" \/ w.when = "clear" \/ w.when = "someday" \/ w.when = "evening"
      \/ w.when = "day"
  BY DEF Moves
<1>10. IsTask(Scheduled(t, w))
  BY <1>2, <1>3, <1>4, <1>5, <1>6, <1>7, <1>9
<1> QED
  BY <1>1, <1>2, <1>3, <1>4, <1>5, <1>6, <1>8, <1>9, <1>10 DEF ToDo

LEMMA EditedFields ==
  ASSUME NEW t, IsTask(t), NEW f, NEW v, NEW u, u = [t EXCEPT !.fields[f] = v]
  PROVE  /\ IsTask(u)
         /\ \A g \in Fields : u.fields[g] = IF g = f THEN v ELSE t.fields[g]
         /\ u.start = t.start /\ u.date = t.date /\ u.bucket = t.bucket /\ u.pinned = t.pinned
<1> DEFINE new == [g \in Fields |-> IF g = f THEN v ELSE t.fields[g]]
<1>1. PICK fields, start, date, bucket, pinned, open :
        /\ t = ToDo(fields, start, date, bucket, pinned, open)
        /\ fields = [g \in Fields |-> fields[g]]
  BY IsToDo
<1>2. t.fields = fields
  BY <1>1 DEF ToDo
<1>3. [fields EXCEPT ![f] = v] = new
  BY <1>1, <1>2
<1>4. u = ToDo([fields EXCEPT ![f] = v], start, date, bucket, pinned, open)
  BY <1>1 DEF ToDo
<1>5. new = [g \in Fields |-> new[g]] /\ \A g \in Fields : new[g] = IF g = f THEN v ELSE t.fields[g]
  OBVIOUS
<1> HIDE DEF new
<1>6. u = ToDo(new, start, date, bucket, pinned, open)
  BY <1>3, <1>4
<1>7. u.fields = new
  BY <1>6 DEF ToDo
<1>8. u.start = t.start /\ u.date = t.date /\ u.bucket = t.bucket /\ u.pinned = t.pinned
  BY <1>1, <1>6 DEF ToDo
<1>9. IsTask(u)
  BY <1>5, <1>6, ToDoIs
<1> QED
  BY <1>5, <1>7, <1>8, <1>9

LEMMA EditedPlace ==
  ASSUME NEW t, IsTask(t), NEW v, NEW u, u = [t EXCEPT !.pinned = v] \/ u = [t EXCEPT !.open = v]
  PROVE  /\ IsTask(u) /\ u.fields = t.fields
         /\ u.start = t.start /\ u.date = t.date /\ u.bucket = t.bucket
         /\ u = [t EXCEPT !.open = v] => u.pinned = t.pinned
<1>1. PICK fields, start, date, bucket, pinned, open :
        /\ t = ToDo(fields, start, date, bucket, pinned, open)
        /\ fields = [g \in Fields |-> fields[g]]
  BY IsToDo
<1>2. /\ u = [t EXCEPT !.pinned = v] => u = ToDo(fields, start, date, bucket, v, open)
      /\ u = [t EXCEPT !.open = v] => u = ToDo(fields, start, date, bucket, pinned, v)
  BY <1>1 DEF ToDo
<1>3. IsTask(u)
  BY <1>1, <1>2, ToDoIs
<1> QED
  BY <1>1, <1>2, <1>3 DEF ToDo

\* The user's edits, as far as the fields and their shape go.
LEMMA UserFields ==
  ASSUME UpdateAssumption, IsTask(task), UserEdits
  PROVE  /\ IsTask(task')
         /\ \E parts :
              /\ Touch(parts)
              /\ \A f \in Fields \ parts : task'.fields[f] = task.fields[f]
              /\ "schedule" \notin parts =>
                   /\ task'.start = task.start /\ task'.date = task.date
                   /\ task'.bucket = task.bucket /\ task'.pinned = task.pinned
              /\ \A f \in Fields : task'.fields[f] \in {task.fields[f]} \cup Edits[f]
<1>1. ASSUME NEW f \in Fields, NEW v \in Edits[f], task' = [task EXCEPT !.fields[f] = v],
             Touch(IF f = "deadline" THEN {f, "schedule"} ELSE {f})
      PROVE  /\ IsTask(task')
             /\ \A g \in Fields : task'.fields[g] = IF g = f THEN v ELSE task.fields[g]
             /\ task'.start = task.start /\ task'.date = task.date /\ task'.bucket = task.bucket
             /\ task'.pinned = task.pinned
  <2>1. PICK u : u = task' /\ u = [task EXCEPT !.fields[f] = v]
    BY <1>1
  <2>2. /\ IsTask(u) /\ \A g \in Fields : u.fields[g] = IF g = f THEN v ELSE task.fields[g]
        /\ u.start = task.start /\ u.date = task.date /\ u.bucket = task.bucket
        /\ u.pinned = task.pinned
    BY <2>1, EditedFields
  <2> QED
    BY <2>1, <2>2
<1>2. ASSUME NEW to \in Schedules, task' = [Scheduled(task, to) EXCEPT !.pinned = to.pinned]
      PROVE  IsTask(task') /\ task'.fields = task.fields
  <2>1. IsTask(Scheduled(task, to)) /\ Scheduled(task, to).fields = task.fields
    BY ScheduledFields DEF UpdateAssumption
  <2> QED
    BY <1>2, <2>1, EditedPlace
<1>3. ASSUME task' = [task EXCEPT !.open = FALSE]
      PROVE  /\ IsTask(task') /\ task'.fields = task.fields
             /\ task'.start = task.start /\ task'.date = task.date /\ task'.bucket = task.bucket
             /\ task'.pinned = task.pinned
  <2>1. PICK v : task' = [task EXCEPT !.open = v]
    BY <1>3
  <2> QED
    BY <2>1, EditedPlace
<1>4. CASE \E f \in {g \in Fields : Watched(g)} : \E v \in Edits[f] \ {task.fields[f]} :
             /\ task' = [task EXCEPT !.fields[f] = v]
             /\ Touch(IF f = "deadline" THEN {f, "schedule"} ELSE {f})
  <2>1. PICK f \in Fields : \E v \in Edits[f] :
          /\ task' = [task EXCEPT !.fields[f] = v]
          /\ Touch(IF f = "deadline" THEN {f, "schedule"} ELSE {f})
    BY <1>4
  <2>9. PICK v \in Edits[f] : task' = [task EXCEPT !.fields[f] = v]
    BY <2>1
  <2> DEFINE parts == IF f = "deadline" THEN {f, "schedule"} ELSE {f}
  <2>2. /\ IsTask(task')
        /\ \A g \in Fields : task'.fields[g] = IF g = f THEN v ELSE task.fields[g]
        /\ task'.start = task.start /\ task'.date = task.date /\ task'.bucket = task.bucket
        /\ task'.pinned = task.pinned
    BY <1>1, <2>1, <2>9
  <2>3. Touch(parts) /\ f \in parts
    BY <2>1
  <2> HIDE DEF parts
  <2> QED
    BY <2>2, <2>3
<1>5. CASE \E to \in Schedules :
             /\ task' = [Scheduled(task, to) EXCEPT !.pinned = to.pinned]
             /\ Touch({"schedule"})
  BY <1>2, <1>5
<1>6. CASE task' = [task EXCEPT !.open = FALSE] /\ Touch({})
  BY <1>3, <1>6
<1> QED
  BY <1>4, <1>5, <1>6 DEF UserEdits

\* What a look at the to-do shows.
LEMMA SeenParts ==
  ASSUME NEW rows, IsRows(rows), NEW when
  PROVE  /\ IsRows(Seen(rows, when))
         /\ \A f \in Fields : Seen(rows, when).fields[f] =
                              IF f = "deadline" THEN task.fields[f] ELSE rows.fields[f]
         /\ Seen(rows, when).schedule.start = rows.start
         /\ Seen(rows, when).schedule.bucket = rows.bucket
         /\ Seen(rows, when).schedule.date = task.date
         /\ Seen(rows, when).schedule.member =
              (NeedsTodayMembership(when, task.date) /\ InToday(task))
<1> DEFINE fields == [rows.fields EXCEPT !["deadline"] = task.fields["deadline"]]
<1>1. Seen(rows, when).fields = fields
  BY DEF Seen
<1>2. fields = [f \in Fields |-> fields[f]]
  BY DEF IsRows
<1>3. \A f \in Fields : fields[f] = IF f = "deadline" THEN task.fields[f] ELSE rows.fields[f]
  BY DEF IsRows
<1> HIDE DEF fields
<1>4. /\ Seen(rows, when).schedule.start = rows.start
      /\ Seen(rows, when).schedule.bucket = rows.bucket
      /\ Seen(rows, when).schedule.date = task.date
      /\ Seen(rows, when).schedule.member =
           (NeedsTodayMembership(when, task.date) /\ InToday(task))
  BY DEF Seen
<1> QED
  BY <1>1, <1>2, <1>3, <1>4 DEF IsRows

LEMMA RowsNow ==
  ASSUME IsTask(task)
  PROVE  /\ IsRows(Rows) /\ Rows.fields = task.fields
         /\ Rows.start = task.start /\ Rows.bucket = task.bucket
BY DEF IsTask, IsRows, Rows

-----------------------------------------------------------------------------
(* What a write does when a part of it is carried out                      *)

Left(w, done) ==
  [fields |-> [g \in DOMAIN w.fields \ done |-> w.fields[g]], when |-> w.when, day |-> w.day,
   call |-> w.call, touched |-> w.touched]

LEMMA LeftWrite ==
  ASSUME NEW w, IsWrite(w), NEW done
  PROVE  /\ IsWrite(Left(w, done))
         /\ [w EXCEPT !.fields = [g \in DOMAIN w.fields \ done |-> w.fields[g]]] = Left(w, done)
<1> DEFINE rest == [g \in DOMAIN w.fields \ done |-> w.fields[g]]
<1> HIDE DEF rest
<1>1. PICK fields, when, day, call, touched :
        w = [fields |-> fields, when |-> when, day |-> day, call |-> call, touched |-> touched]
  BY DEF IsWrite
<1>2. Left(w, done) = [fields |-> rest, when |-> when, day |-> day, call |-> call,
                       touched |-> touched]
  BY <1>1 DEF Left, rest
<1>3. [w EXCEPT !.fields = rest] = Left(w, done)
  BY <1>1, <1>2
<1>4. when \in Moves
  BY <1>1 DEF IsWrite
<1>5. IsWrite(Left(w, done))
  BY <1>2, <1>4 DEF IsWrite
<1> QED
  BY <1>3, <1>5 DEF rest

\* The step of Things' that ends a write, as whoever verifies it sees it.
Moved(w) == w.when # "keep" /\ \E t : IsTask(t) /\ task' = Scheduled(t, w)
Lands(s, w, done) ==
  /\ At(s, "verify") /\ attempts[s].call = w.call
  /\ done = DOMAIN w.fields /\ flying' \subseteq flying \ {w}
  /\ w.when = "keep" \/ Moved(w)

LEMMA ThingsEffect ==
  ASSUME ShapeInv, PlanInv, UpdateAssumption, NEW w \in flying,
         UrlArrives(w) \/ StatementRuns(w) \/ WriteIsLost(w)
  PROVE  /\ AttemptsInv' /\ SamePlaces
         /\ \A s \in Sessions : attempts'[s].touched = attempts[s].touched
         /\ UNCHANGED <<request, today, operations, edited, clashed, calls>>
         /\ IsTask(task')
         /\ \E done \in SUBSET (DOMAIN w.fields) :
              /\ flying' \subseteq (flying \ {w}) \cup {Left(w, done)}
              /\ \A f \in Fields :
                   task'.fields[f] = IF f \notin done THEN task.fields[f]
                                     ELSE IF f = "checklist" THEN task.fields[f] \o w.fields[f]
                                     ELSE w.fields[f]
              /\ \/ /\ task'.start = task.start /\ task'.date = task.date
                    /\ task'.bucket = task.bucket /\ task'.pinned = task.pinned
                 \/ Moved(w)
              /\ \A s \in Sessions :
                   attempts'[s].landed = attempts[s].landed \/ Lands(s, w, done)
<1>1. IsWrite(w) /\ w.when \in Moves /\ DOMAIN w.fields \subseteq Fields
      /\ (~request.token => DOMAIN w.fields \subseteq {"title", "notes"})
  BY DEF ShapeInv, PlanInv, IsWrite, GoodWrite, Allowed, NeedsToken, Planned, Sent, Asked,
    UpdateAssumption
<1>2. CASE UrlArrives(w)
  <2> DEFINE t == Written(task, w.fields)
  <2>1. /\ AttemptsInv' /\ SamePlaces
        /\ \A s \in Sessions :
             /\ attempts'[s].touched = attempts[s].touched
             /\ \/ attempts'[s].landed = attempts[s].landed
                \/ At(s, "verify") /\ attempts[s].call = w.call
    BY <1>2, LandedAttempts DEF UrlArrives, ShapeInv
  <2>2. /\ IsTask(t)
        /\ \A f \in Fields :
             t.fields[f] = IF f \notin DOMAIN w.fields THEN task.fields[f]
                           ELSE IF f = "checklist" THEN task.fields[f] \o w.fields[f] ELSE w.fields[f]
        /\ t.start = task.start /\ t.date = task.date /\ t.bucket = task.bucket
        /\ t.pinned = task.pinned
    BY WrittenFields DEF ShapeInv
  <2>3. task' = Scheduled(t, w) /\ flying' = flying \ {w}
        /\ UNCHANGED <<request, today, operations, edited, clashed, calls>>
    BY <1>2 DEF UrlArrives, counters
  <2> HIDE DEF t
  <2>4. IsTask(task') /\ task'.fields = t.fields /\ (w.when = "keep" => task' = t)
    BY <1>1, <2>2, <2>3, ScheduledFields
  <2>5. DOMAIN w.fields \in SUBSET (DOMAIN w.fields)
    OBVIOUS
  <2>6. w.when = "keep" \/ Moved(w)
    BY <2>2, <2>3 DEF Moved
  <2>7. \A s \in Sessions :
          attempts'[s].landed = attempts[s].landed \/ Lands(s, w, DOMAIN w.fields)
    BY <2>1, <2>3, <2>6 DEF Lands
  <2> QED
    BY <2>1, <2>2, <2>3, <2>4, <2>5, <2>6, <2>7
<1>3. CASE StatementRuns(w)
  <2> DEFINE f == IF "title" \in DOMAIN w.fields THEN "title" ELSE "notes"
             rest == [g \in DOMAIN w.fields \ {f} |-> w.fields[g]]
             some == [g \in {f} |-> w.fields[g]]
  <2>1. /\ AttemptsInv' /\ SamePlaces
        /\ \A s \in Sessions :
             /\ attempts'[s].touched = attempts[s].touched
             /\ \/ attempts'[s].landed = attempts[s].landed
                \/ At(s, "verify") /\ attempts[s].call = w.call
    <3>1. Landed(w) \/ UNCHANGED attempts
      BY <1>3 DEF StatementRuns
    <3> QED
      BY <3>1, LandedAttempts DEF ShapeInv, SamePlaces, AttemptsInv, Place
  <2>2. UNCHANGED <<request, today, operations, edited, clashed, calls>>
    BY <1>3 DEF StatementRuns, counters
  <2>3. CASE DOMAIN w.fields # {}
    <3>1. f \in DOMAIN w.fields /\ f # "checklist"
      BY <1>1, <1>3, <2>3 DEF StatementRuns
    <3>2. task' = Written(task, some)
      BY <1>3, <2>3 DEF StatementRuns
    <3>3. /\ IsTask(task')
          /\ \A g \in Fields : task'.fields[g] = IF g = f THEN w.fields[g] ELSE task.fields[g]
          /\ task'.start = task.start /\ task'.date = task.date /\ task'.bucket = task.bucket
          /\ task'.pinned = task.pinned
      <4>1. DOMAIN some = {f} /\ \A g \in {f} : some[g] = w.fields[g]
        OBVIOUS
      <4> HIDE DEF some
      <4> QED
        BY <3>1, <3>2, <4>1, WrittenFields DEF ShapeInv
    <3>4. flying' \subseteq (flying \ {w}) \cup {Left(w, {f})}
      <4>1. [w EXCEPT !.fields = rest] = Left(w, {f})
        BY <1>1, LeftWrite
      <4>2. flying' = flying \ {w} \/ flying' = (flying \ {w}) \cup {[w EXCEPT !.fields = rest]}
        BY <1>3, <2>3 DEF StatementRuns
      <4> HIDE DEF rest
      <4> QED
        BY <4>1, <4>2
    <3>5. \A s \in Sessions : attempts'[s].landed = attempts[s].landed \/ Lands(s, w, {f})
      <4>1. CASE rest = <<>> /\ w.when = "keep"
        <5>1. flying' = flying \ {w} /\ w.when = "keep"
          BY <1>3, <2>3, <4>1 DEF StatementRuns
        <5>2. DOMAIN rest = DOMAIN w.fields \ {f} /\ DOMAIN <<>> = {}
          OBVIOUS
        <5>3. {f} = DOMAIN w.fields
          BY <3>1, <4>1, <5>2
        <5> HIDE DEF f
        <5> QED
          BY <2>1, <5>1, <5>3 DEF Lands
      <4>2. CASE ~(rest = <<>> /\ w.when = "keep")
        BY <1>3, <2>3, <4>2 DEF StatementRuns
      <4> QED
        BY <4>1, <4>2
    <3> HIDE DEF f
    <3>6. {f} \in SUBSET (DOMAIN w.fields)
      BY <3>1
    <3> QED
      BY <2>1, <2>2, <3>1, <3>3, <3>4, <3>5, <3>6
  <2>4. CASE DOMAIN w.fields = {}
    <3>1. task' = Scheduled(task, w) /\ flying' = flying \ {w}
      BY <1>3, <2>4 DEF StatementRuns
    <3>2. /\ IsTask(task) /\ IsTask(task') /\ task'.fields = task.fields
          /\ w.when = "keep" => task' = task
      BY <1>1, <3>1, ScheduledFields DEF ShapeInv
    <3>3. {} \in SUBSET (DOMAIN w.fields)
      OBVIOUS
    <3>4. w.when = "keep" \/ Moved(w)
      BY <3>1, <3>2 DEF Moved
    <3>5. \A s \in Sessions : attempts'[s].landed = attempts[s].landed \/ Lands(s, w, {})
      BY <2>1, <2>4, <3>1, <3>4 DEF Lands
    <3> QED
      BY <2>1, <2>2, <3>1, <3>2, <3>3, <3>4, <3>5
  <2> QED
    BY <2>3, <2>4
<1>4. CASE WriteIsLost(w)
  <2>1. /\ flying' = flying \ {w}
        /\ UNCHANGED <<request, task, today, operations, attempts, edited, clashed, calls>>
    BY <1>4 DEF WriteIsLost, counters
  <2>2. AttemptsInv' /\ SamePlaces /\ \A s \in Sessions : attempts'[s].touched = attempts[s].touched
    BY <2>1 DEF ShapeInv, SamePlaces, AttemptsInv, Place
  <2>3. {} \in SUBSET (DOMAIN w.fields)
    OBVIOUS
  <2> QED
    BY <2>1, <2>2, <2>3 DEF ShapeInv
<1> QED
  BY <1>2, <1>3, <1>4

-----------------------------------------------------------------------------
(* One plan                                                                *)

\* The row goes one way, and its plan stays; time may pass, edits be made.
Kept ==
  /\ op.state \in Planned => op'.state \in Planned /\ op'.plan = op.plan
  /\ op.state \in Sent => op'.state \in Sent

Later ==
  /\ request' = request
  /\ edited \subseteq edited'
  /\ "schedule" \notin edited' => today' = today

LEMMA UnchangedRow ==
  ASSUME RowInv, UNCHANGED operations
  PROVE  RowInv' /\ Kept /\ op' = op
BY DEF RowInv, IsRow, op, Kept, Journal!OperationStates

LEMMA PlanStaysGood ==
  ASSUME NEW plan, GoodPlan(plan), Later
  PROVE  GoodPlan(plan)'
BY DEF GoodPlan, Later, Asked, Wanted, DesiredTags, ReplaySafe

LEMMA AllowedStays ==
  ASSUME Allowed, Later
  PROVE  Allowed'
BY DEF Allowed, NeedsToken, Later

LEMMA SamePlaceParts ==
  ASSUME NEW a, NEW b, Place(a) = Place(b)
  PROVE  a.pc = b.pc /\ a.half = b.half /\ a.call = b.call /\ a.plan = b.plan /\ a.rows = b.rows
BY DEF Place

LEMMA PlanAtStays ==
  ASSUME NEW s \in Sessions, PlanAt(s), Place(attempts'[s]) = Place(attempts[s]),
         attempts'[s].touched \subseteq edited', Kept, Later
  PROVE  PlanAt(s)'
<1>1. /\ attempts'[s].pc = attempts[s].pc /\ attempts'[s].half = attempts[s].half
      /\ attempts'[s].plan = attempts[s].plan /\ attempts'[s].rows = attempts[s].rows
  BY SamePlaceParts
<1>2. PICK plan, rows : plan = attempts[s].plan /\ rows = attempts[s].rows
  OBVIOUS
<1>3. attempts'[s].half = "dates" \/ attempts'[s].pc = "send" => IsRows(rows)
  BY <1>1, <1>2 DEF PlanAt, At
<1>4. /\ attempts'[s].pc \in Planning => op'.state \in Planned /\ plan = op'.plan
      /\ attempts'[s].pc \in Planning \ {"dispatch"} => op'.state \in Sent
  BY <1>1, <1>2 DEF PlanAt, Kept
<1>5. attempts'[s].pc = "record" => Allowed' /\ GoodPlan(plan)'
  <2>1. attempts'[s].pc = "record" => Allowed /\ GoodPlan(plan)
    BY <1>1, <1>2 DEF PlanAt, At
  <2> QED
    BY <2>1, AllowedStays, PlanStaysGood
<1>6. attempts'[s].pc = "prepare" /\ attempts'[s].half = "dates" => Allowed'
  BY <1>1, AllowedStays DEF PlanAt, At
<1>7. attempts'[s].plan = plan /\ attempts'[s].rows = rows
  BY <1>1, <1>2
<1> QED
  BY <1>3, <1>4, <1>5, <1>6, <1>7 DEF PlanAt, At, IsRows, GoodPlan

LEMMA SavedPlan ==
  ASSUME RowInv, RowInv', Kept, Later, PlanInv, op'.state \in Planned, op.state \in Planned
  PROVE  Allowed' /\ GoodPlan(op.plan)'
<1>1. PICK plan : plan = op.plan
  OBVIOUS
<1>2. op'.plan = plan
  BY <1>1 DEF Kept
<1>3. Allowed /\ GoodPlan(plan)
  BY <1>1 DEF PlanInv
<1>4. Allowed' /\ GoodPlan(plan)'
  BY <1>3, AllowedStays, PlanStaysGood
<1> QED
  BY <1>2, <1>4 DEF GoodPlan

LEMMA GoodWriteStays ==
  ASSUME NEW w, GoodWrite(w), op'.plan = op.plan, Later
  PROVE  GoodWrite(w)'
BY DEF GoodWrite, Later, Asked

\* A step of a session's keeps the parts if it keeps its own.
LEMMA SessionKeeps ==
  ASSUME ShapeInv, PlanInv, NEW s \in Sessions, AttemptsInv', Others(s), RowInv', Kept,
         UNCHANGED <<request, task, today, edited>>,
         PlanAt(s)',
         op.state \in Planned \/ op'.state \notin Planned \/ (Allowed' /\ GoodPlan(op.plan)'),
         \A w \in flying' : w \in flying \/ (IsWrite(w) /\ op'.state \in Sent /\ GoodWrite(w)')
  PROVE  ShapeInv' /\ PlanInv'
<1>1. Later
  BY DEF Later
<1>2. op'.state \in Planned => Allowed' /\ GoodPlan(op.plan)'
  BY <1>1, SavedPlan DEF ShapeInv
<1>3. ASSUME NEW r \in Sessions
      PROVE  PlanAt(r)'
  <2>1. CASE r = s
    BY <2>1
  <2>2. CASE r # s
    <3>1. attempts'[r] = attempts[r]
      BY <2>2 DEF Others
    <3>2. /\ PlanAt(r) /\ attempts'[r].touched \subseteq edited'
          /\ Place(attempts'[r]) = Place(attempts[r])
      BY <3>1 DEF PlanInv, PlanAt
    <3> QED
      BY <3>2, <1>1, PlanAtStays
  <2> QED
    BY <2>1, <2>2
<1>4. ASSUME NEW w \in flying'
      PROVE  IsWrite(w) /\ op'.state \in Sent /\ GoodWrite(w)'
  <2>1. CASE w \in flying
    <3>1. IsWrite(w) /\ op.state \in Sent /\ GoodWrite(w)
      BY <2>1 DEF ShapeInv, PlanInv
    <3>2. op'.plan = op.plan /\ op'.state \in Sent
      BY <3>1 DEF Kept, Sent, Planned
    <3> QED
      BY <3>1, <3>2, <1>1, GoodWriteStays
  <2> QED
    BY <2>1
<1>5. ShapeInv'
  BY <1>4 DEF ShapeInv, IsTask, IsWrite
<1>6. PlanInv'
  BY <1>2, <1>3, <1>4 DEF PlanInv, GoodPlan, GoodWrite
<1> QED
  BY <1>5, <1>6

\* Going on with the plan, and going home.
LEMMA GoesOn ==
  ASSUME ShapeInv, PlanInv, NEW s \in Sessions,
         NEW pc \in {"dispatch", "check", "apply", "verify", "finish"}, Goto(s, pc), RowInv', Kept,
         UNCHANGED <<request, task, today, edited>>,
         op'.state \in Planned /\ attempts[s].plan = op'.plan,
         pc # "dispatch" => op'.state \in Sent,
         op.state \in Planned \/ (Allowed' /\ GoodPlan(op.plan)'),
         \A w \in flying' : w \in flying \/ (IsWrite(w) /\ op'.state \in Sent /\ GoodWrite(w)')
  PROVE  ShapeInv' /\ PlanInv'
<1>1. /\ AttemptsInv' /\ Others(s)
      /\ attempts'[s].pc = pc /\ attempts'[s].half = "rows"
      /\ attempts'[s].plan = attempts[s].plan
      /\ attempts'[s].touched = IF pc = "verify" THEN attempts[s].touched ELSE {}
  BY GotoAttempt DEF ShapeInv, Places, Reading
<1>2. PlanAt(s)'
  BY <1>1 DEF PlanAt, At, PlanInv, Planning
<1> QED
  BY <1>1, <1>2, SessionKeeps

LEMMA GoesHome ==
  ASSUME ShapeInv, PlanInv, NEW s \in Sessions, Return(s), RowInv', Kept,
         UNCHANGED <<request, task, today, edited, flying>>,
         op.state \in Planned \/ op'.state \notin Planned
  PROVE  ShapeInv' /\ PlanInv'
<1>1. AttemptsInv' /\ Others(s) /\ attempts'[s].pc = "idle" /\ attempts'[s].half = "rows"
      /\ attempts'[s].touched = {}
  BY ReturnAttempt DEF ShapeInv
<1>2. PlanAt(s)'
  BY <1>1 DEF PlanAt, At, Planning
<1> QED
  BY <1>1, <1>2, SessionKeeps

LEMMA BeginKeepsPlan ==
  ASSUME ShapeInv, PlanInv, NEW s \in Sessions, Begin(s)
  PROVE  ShapeInv' /\ PlanInv'
<1>1. /\ RowInv' /\ op'.state = (IF op.state = "none" THEN "received" ELSE op.state)
      /\ (op.state # "none" => op' = op)
      /\ UNCHANGED <<request, task, today, edited, flying>>
  BY EnsureRow DEF Begin, ShapeInv
<1>2. Kept /\ (op.state \in Planned \/ op'.state \notin Planned)
  BY <1>1 DEF Kept, Planned, Sent
<1>3. CASE \E pc \in {"prepare", "dispatch", "check"} : \E plan :
             /\ Enter(s, pc, plan)
             /\ pc = "dispatch" => op.state = "prepared" /\ plan = op.plan
             /\ pc = "check" => op.state = "dispatched" /\ plan = op.plan
  <2>1. PICK pc, plan :
             /\ pc \in {"prepare", "dispatch", "check"}
             /\ Enter(s, pc, plan)
             /\ pc = "dispatch" => op.state = "prepared" /\ plan = op.plan
             /\ pc = "check" => op.state = "dispatched" /\ plan = op.plan
    BY <1>3
  <2>2. /\ AttemptsInv' /\ Others(s) /\ attempts'[s].pc = pc /\ attempts'[s].half = "rows"
        /\ attempts'[s].plan = plan /\ attempts'[s].touched = {}
    <3>1. Opens(s, pc, calls + 1, plan)
      BY <2>1 DEF Enter, Opens
    <3>2. pc \in Places
      BY <2>1 DEF Places, Reading
    <3>3. AttemptsInv
      BY DEF ShapeInv
    <3> QED
      BY <3>1, <3>2, <3>3, NewAttempt
  <2>3. PlanAt(s)'
    BY <1>1, <2>1, <2>2 DEF PlanAt, At, Planning, Planned, Sent
  <2> QED
    BY <1>1, <1>2, <2>2, <2>3, SessionKeeps
<1>4. CASE UNCHANGED attempts
  <2>1. AttemptsInv' /\ Others(s) /\ PlanAt(s)
    BY <1>4 DEF ShapeInv, AttemptsInv, Others, PlanInv
  <2>2. PlanAt(s)'
    <3>1. Place(attempts'[s]) = Place(attempts[s]) /\ attempts'[s].touched \subseteq edited' /\ Later
      BY <1>1, <1>4, <2>1 DEF PlanAt, Later
    <3> QED
      BY <3>1, <2>1, <1>2, PlanAtStays
  <2> QED
    BY <1>1, <1>2, <2>1, <2>2, SessionKeeps
<1> QED
  BY <1>3, <1>4 DEF Begin

LEMMA ReadRowsKeepsPlan ==
  ASSUME ShapeInv, PlanInv, NEW s \in Sessions, ReadRows(s)
  PROVE  ShapeInv' /\ PlanInv'
<1>1. UNCHANGED <<request, task, today, operations, edited, flying>>
  BY DEF ReadRows, counters
<1>2. RowInv' /\ Kept /\ op' = op
  BY <1>1, UnchangedRow DEF ShapeInv
<1>3. CASE Return(s)
  BY <1>1, <1>2, <1>3, GoesHome
<1>4. CASE ~Return(s)
  <2>1. /\ attempts' = [attempts EXCEPT ![s].half = "dates", ![s].rows = Rows,
                          ![s].touched = IF At(s, "verify") THEN @ ELSE {}]
        /\ At(s, "prepare") => Allowed
    BY <1>4 DEF ReadRows, Allowed
  <2>2. attempts[s].pc \in Reading
    BY DEF ReadRows
  <2>7. PICK rows, touched :
          /\ Reads(s, rows, touched)
          /\ rows = Rows /\ touched = IF At(s, "verify") THEN attempts[s].touched ELSE {}
    <3>1. CASE At(s, "verify")
      BY <2>1, <3>1 DEF Reads
    <3>2. CASE ~At(s, "verify")
      BY <2>1, <3>2 DEF Reads
    <3> QED
      BY <3>1, <3>2
  <2>3. /\ AttemptsInv' /\ Others(s)
        /\ attempts'[s].pc = attempts[s].pc /\ attempts'[s].half = "dates"
        /\ attempts'[s].plan = attempts[s].plan
        /\ attempts'[s].rows = Rows /\ attempts'[s].touched = touched
    BY <2>7, <2>2, ReadAttempt DEF ShapeInv
  <2>4. IsRows(attempts'[s].rows)
    BY <2>3, RowsNow DEF ShapeInv
  <2>5. Allowed => Allowed'
    BY <1>1, AllowedStays DEF Later
  <2>6. PlanAt(s)'
    <3>1. PlanAt(s) /\ touched \subseteq attempts[s].touched
      BY <2>7 DEF PlanInv
    <3>2. touched \subseteq edited'
      BY <1>1, <3>1 DEF PlanAt
    <3>3. attempts[s].pc \in Planning => op'.state \in Planned /\ attempts[s].plan = op'.plan
      BY <1>2, <3>1 DEF PlanAt
    <3>4. attempts[s].pc \in Planning \ {"dispatch"} => op'.state \in Sent
      BY <1>2, <3>1 DEF PlanAt
    <3>5. attempts[s].pc # "record" /\ (attempts[s].pc = "prepare" => Allowed')
      BY <2>1, <2>2, <2>5 DEF At, Reading
    <3> QED
      BY <2>3, <2>4, <3>2, <3>3, <3>4, <3>5 DEF PlanAt, At
  <2> QED
    BY <1>1, <1>2, <2>3, <2>6, SessionKeeps
<1> QED
  BY <1>3, <1>4

LEMMA NewPlanIsGood ==
  ASSUME NEW rows, NEW plan, plan = Plan(Seen(rows, request.when))
  PROVE  GoodPlan(plan)
BY DEF GoodPlan, Plan, Asked

LEMMA PrepareKeepsPlan ==
  ASSUME ShapeInv, PlanInv, NEW s \in Sessions, Prepare(s)
  PROVE  ShapeInv' /\ PlanInv'
<1>1. UNCHANGED <<request, task, today, operations, edited, flying>> /\ Later
  BY DEF Prepare, counters, Later
<1>2. RowInv' /\ Kept /\ op' = op
  BY <1>1, UnchangedRow DEF ShapeInv
<1>3. PICK plan : plan = Plan(Whole(s))
  OBVIOUS
<1>4. Opens(s, "record", attempts[s].call, plan)
  BY <1>3 DEF Prepare, Opens
<1>5. /\ AttemptsInv' /\ Others(s)
      /\ attempts'[s].pc = "record" /\ attempts'[s].half = "rows" /\ attempts'[s].plan = plan
      /\ attempts'[s].touched = {}
  <2>1. "record" \in Places
    BY DEF Places
  <2> QED
    BY <1>4, <2>1, NewAttempt DEF ShapeInv
<1>6. Allowed' /\ GoodPlan(plan)'
  <2>1. GoodPlan(plan)
    BY <1>3, NewPlanIsGood DEF Whole
  <2>2. Allowed
    BY DEF Prepare, ReadDates, PlanInv, PlanAt
  <2> QED
    BY <1>1, <2>1, <2>2, PlanStaysGood, AllowedStays
<1>7. PlanAt(s)'
  BY <1>5, <1>6 DEF PlanAt, At, Planning, GoodPlan
<1> QED
  BY <1>1, <1>2, <1>5, <1>7, SessionKeeps

LEMMA RecordKeepsPlan ==
  ASSUME ShapeInv, PlanInv, NEW s \in Sessions, Record(s)
  PROVE  ShapeInv' /\ PlanInv'
<1>1. UNCHANGED <<request, task, today, edited, flying>> /\ Later
  BY DEF Record, counters, Later
<1>2. CASE Journal!PrepareOperation("update", attempts[s].plan) /\ Goto(s, "dispatch")
  <2>1. PICK plan : plan = attempts[s].plan
    OBVIOUS
  <2>2. RowInv' /\ op.state = "received" /\ op'.state = "prepared" /\ op'.plan = plan
    BY <1>2, <2>1, PrepareRow DEF ShapeInv
  <2>3. Allowed' /\ GoodPlan(plan)'
    <3>1. Allowed /\ GoodPlan(plan)
      BY <2>1 DEF Record, PlanInv, PlanAt
    <3> QED
      BY <1>1, <3>1, PlanStaysGood, AllowedStays
  <2>4. Allowed' /\ GoodPlan(op.plan)'
    BY <2>2, <2>3 DEF GoodPlan
  <2>5. Kept /\ op'.state \in Planned /\ attempts[s].plan = op'.plan
    BY <2>1, <2>2 DEF Kept, Planned, Sent
  <2> QED
    BY <1>1, <1>2, <2>2, <2>4, <2>5, GoesOn
<1>3. CASE Return(s) /\ UNCHANGED operations
  BY <1>1, <1>3, UnchangedRow, GoesHome DEF ShapeInv
<1> QED
  BY <1>2, <1>3 DEF Record

LEMMA DispatchKeepsPlan ==
  ASSUME ShapeInv, PlanInv, NEW s \in Sessions, Dispatch(s)
  PROVE  ShapeInv' /\ PlanInv'
<1>1. UNCHANGED <<request, task, today, edited, flying>>
  BY DEF Dispatch, counters
<1>2. CASE Journal!MarkOperationDispatched("update") /\ Goto(s, "apply")
  <2>1. RowInv' /\ op.state = "prepared" /\ op'.state = "dispatched" /\ op'.plan = op.plan
    BY <1>2, DispatchRow DEF ShapeInv
  <2>2. attempts[s].plan = op.plan
    BY DEF Dispatch, PlanInv, PlanAt, At, Planning
  <2>3. Kept /\ op.state \in Planned /\ op'.state \in Planned \cap Sent
    BY <2>1 DEF Kept, Planned, Sent
  <2> QED
    BY <1>1, <1>2, <2>1, <2>2, <2>3, GoesOn
<1>3. CASE Return(s) /\ UNCHANGED operations
  BY <1>1, <1>3, UnchangedRow, GoesHome DEF ShapeInv
<1> QED
  BY <1>2, <1>3 DEF Dispatch

LEMMA CommittedFacts ==
  ASSUME PlanInv, NEW s \in Sessions,
         attempts[s].pc \in {"check", "apply", "send", "verify", "finish"}
  PROVE  /\ op.state \in Planned /\ op.state \in Sent
         /\ attempts[s].plan = op.plan /\ GoodPlan(op.plan)
BY DEF PlanInv, PlanAt, Planning

LEMMA CheckKeepsPlan ==
  ASSUME ShapeInv, PlanInv, NEW s \in Sessions, Check(s)
  PROVE  ShapeInv' /\ PlanInv'
<1>1. UNCHANGED <<request, task, today, operations, edited, flying>>
  BY DEF Check, counters
<1>2. RowInv' /\ Kept /\ op' = op
  BY <1>1, UnchangedRow DEF ShapeInv
<1>3. op.state \in Planned /\ op.state \in Sent /\ attempts[s].plan = op.plan
  BY CommittedFacts DEF Check, ReadDates, At
<1>4. CASE Return(s)
  BY <1>1, <1>2, <1>4, GoesHome
<1>5. CASE \E pc \in {"apply", "finish"} : Goto(s, pc)
  BY <1>1, <1>2, <1>3, <1>5, GoesOn
<1> QED
  BY <1>4, <1>5 DEF Check, Refuse

LEMMA ApplyKeepsPlan ==
  ASSUME ShapeInv, PlanInv, NEW s \in Sessions, Apply(s)
  PROVE  ShapeInv' /\ PlanInv'
<1>1. UNCHANGED <<request, task, today, operations, edited, flying>>
  BY DEF Apply, counters
<1>2. RowInv' /\ Kept /\ op' = op
  BY <1>1, UnchangedRow DEF ShapeInv
<1>3. op.state \in Planned /\ op.state \in Sent /\ attempts[s].plan = op.plan
  BY CommittedFacts DEF Apply, ReadDates, At
<1>4. CASE Return(s)
  BY <1>1, <1>2, <1>4, GoesHome
<1>5. CASE Goto(s, "finish")
  BY <1>1, <1>2, <1>3, <1>5, GoesOn
<1>6. CASE Sends(s, Whole(s))
  <2>1. PICK rows : rows = Whole(s)
    OBVIOUS
  <2>2. /\ AttemptsInv' /\ Others(s)
        /\ attempts'[s].pc = "send" /\ attempts'[s].half = "rows"
        /\ attempts'[s].plan = attempts[s].plan
        /\ attempts'[s].rows = rows /\ attempts'[s].touched = attempts[s].touched
    BY <1>6, <2>1, SendAttempt DEF ShapeInv
  <2>3. IsRows(rows)
    BY <2>1, SeenParts DEF Whole, Apply, ReadDates, PlanInv, PlanAt
  <2>4. attempts[s].touched \subseteq edited'
    BY <1>1 DEF PlanInv, PlanAt
  <2>5. PlanAt(s)'
    BY <1>2, <1>3, <2>2, <2>3, <2>4 DEF PlanAt, At, IsRows
  <2> QED
    BY <1>1, <1>2, <2>2, <2>5, SessionKeeps
<1> QED
  BY <1>4, <1>5, <1>6 DEF Apply, Refuse, Sends

LEMMA NewWriteIsGood ==
  ASSUME UpdateAssumption, ShapeInv, PlanInv, NEW s \in Sessions, At(s, "send"), NEW seen
  PROVE  IsWrite(Write(s, seen)) /\ GoodWrite(Write(s, seen))
<1>1. attempts[s].plan = op.plan /\ GoodPlan(op.plan)
  BY CommittedFacts DEF At
<1>2. PICK fields, when, day, call, touched :
        /\ Write(s, seen) = [fields |-> fields, when |-> when, day |-> day, call |-> call,
                             touched |-> touched]
        /\ fields = [f \in Unmet(op.plan, seen) |->
                       IF f = "checklist" THEN request.set[f] ELSE op.plan.after[f]]
        /\ when = WhenSent(op.plan, seen) /\ day = op.plan.day
        /\ touched = attempts[s].touched
  BY <1>1 DEF Write
<1>3. DOMAIN fields \subseteq Asked
  BY <1>1, <1>2 DEF Unmet, GoodPlan
<1>4. \/ when = "keep"
      \/ request.when = "anytime" /\ when = "clear"
      \/ request.when \in {"someday", "evening"} /\ when = request.when
      \/ request.when \in {"today", "date"} /\ when = "day"
  <2>1. op.plan.when = request.when /\ request.when \in Whens
    BY <1>1 DEF GoodPlan, ShapeInv, UpdateAssumption
  <2>2. CASE request.when = "keep"
    BY <1>2, <2>1, <2>2 DEF WhenSent, ScheduleMet, ScheduleUpdateMatches
  <2>3. CASE request.when # "keep"
    BY <1>2, <2>1, <2>3 DEF WhenSent, Whens
  <2> QED
    BY <2>2, <2>3
<1>5. touched \subseteq edited
  BY <1>2 DEF PlanInv, PlanAt
<1>6. when \in Moves
  BY <1>4 DEF Moves
<1>7. \A f \in DOMAIN fields :
        fields[f] = IF f = "checklist" THEN request.set[f] ELSE op.plan.after[f]
  BY <1>2
<1> HIDE DEF Write
<1>8. IsWrite(Write(s, seen))
  BY <1>2, <1>6 DEF IsWrite
<1>9. GoodWrite(Write(s, seen))
  BY <1>2, <1>3, <1>4, <1>5, <1>7 DEF GoodWrite
<1> QED
  BY <1>8, <1>9

LEMMA SendKeepsPlan ==
  ASSUME UpdateAssumption, ShapeInv, PlanInv, NEW s \in Sessions, Send(s)
  PROVE  ShapeInv' /\ PlanInv'
<1>1. UNCHANGED <<request, task, today, operations, edited>> /\ Later
  BY DEF Send, counters, Later
<1>2. RowInv' /\ Kept /\ op' = op
  BY <1>1, UnchangedRow DEF ShapeInv
<1>3. At(s, "send") /\ Goto(s, "verify")
  BY DEF Send
<1>4. op.state \in Planned /\ op.state \in Sent /\ attempts[s].plan = op.plan
  BY <1>3, CommittedFacts DEF At
<1>5. PICK w : w = Write(s, attempts[s].rows)
  OBVIOUS
<1>6. IsWrite(w) /\ GoodWrite(w)
  BY <1>3, <1>5, NewWriteIsGood
<1>7. GoodWrite(w)'
  BY <1>1, <1>2, <1>6, GoodWriteStays
<1>8. flying' = flying \cup {w}
  BY <1>5 DEF Send
<1> QED
  BY <1>1, <1>2, <1>3, <1>4, <1>6, <1>7, <1>8, GoesOn

LEMMA VerifyKeepsPlan ==
  ASSUME ShapeInv, PlanInv, NEW s \in Sessions, Verify(s)
  PROVE  ShapeInv' /\ PlanInv'
<1>1. UNCHANGED <<request, task, today, operations, edited, flying>>
  BY DEF Verify, counters
<1>2. RowInv' /\ Kept /\ op' = op
  BY <1>1, UnchangedRow DEF ShapeInv
<1>3. op.state \in Planned /\ op.state \in Sent /\ attempts[s].plan = op.plan
  BY CommittedFacts DEF Verify, ReadDates, At
<1>4. Goto(s, "finish") \/ Goto(s, "verify")
  BY DEF Verify
<1> QED
  BY <1>1, <1>2, <1>3, <1>4, GoesOn

LEMMA FinishKeepsPlan ==
  ASSUME ShapeInv, PlanInv, NEW s \in Sessions, Finish(s)
  PROVE  ShapeInv' /\ PlanInv'
<1>1. UNCHANGED <<request, task, today, edited, flying>> /\ Return(s)
  BY DEF Finish, counters
<1>2. RowInv' /\ Kept /\ (op.state \in Planned \/ op'.state \notin Planned)
  <2>1. CASE Journal!CompleteOperation("update", attempts[s].plan, FALSE)
    <3>1. RowInv' /\ op.state = "dispatched" /\ op'.state = "applied" /\ op'.plan = op.plan
      BY <2>1, CompleteRow DEF ShapeInv
    <3> QED
      BY <3>1 DEF Kept, Planned, Sent
  <2>2. CASE UNCHANGED operations
    BY <2>2, UnchangedRow DEF ShapeInv
  <2> QED
    BY <2>1, <2>2 DEF Finish
<1> QED
  BY <1>1, <1>2, GoesHome

LEMMA AbandonKeepsPlan ==
  ASSUME ShapeInv, PlanInv, NEW s \in Sessions, Abandon(s)
  PROVE  ShapeInv' /\ PlanInv'
<1>1. UNCHANGED <<request, task, today, operations, edited, flying>> /\ Return(s)
  BY DEF Abandon, counters
<1> QED
  BY <1>1, UnchangedRow, GoesHome DEF ShapeInv

\* A step of Things', the user's or the calendar's.
LEMMA OthersKeep ==
  ASSUME ShapeInv, PlanInv, AttemptsInv', SamePlaces, UNCHANGED operations, Later,
         IsTask(task)', today' \in 1 .. LastDay,
         \A s \in Sessions : attempts'[s].touched \subseteq edited',
         \A w \in flying' : IsWrite(w) /\ op.state \in Sent /\ GoodWrite(w)'
  PROVE  ShapeInv' /\ PlanInv'
<1>1. RowInv' /\ Kept /\ op' = op
  BY UnchangedRow DEF ShapeInv
<1>2. op'.state \in Planned => Allowed' /\ GoodPlan(op.plan)'
  BY <1>1, SavedPlan DEF ShapeInv
<1>3. ASSUME NEW s \in Sessions
      PROVE  PlanAt(s)'
  BY <1>1, PlanAtStays DEF PlanInv, SamePlaces
<1>4. ShapeInv'
  BY <1>1 DEF ShapeInv, IsTask, IsWrite, Later
<1>5. PlanInv'
  BY <1>1, <1>2, <1>3 DEF PlanInv, GoodWrite
<1> QED
  BY <1>4, <1>5

LEMMA LeftIsGood ==
  ASSUME NEW w, GoodWrite(w), NEW done
  PROVE  GoodWrite(Left(w, done))
<1>1. /\ DOMAIN Left(w, done).fields = DOMAIN w.fields \ done
      /\ \A f \in DOMAIN w.fields \ done : Left(w, done).fields[f] = w.fields[f]
      /\ Left(w, done).when = w.when /\ Left(w, done).day = w.day
      /\ Left(w, done).touched = w.touched
  BY DEF Left
<1> QED
  BY <1>1 DEF GoodWrite

LEMMA ThingsKeepsPlan ==
  ASSUME UpdateAssumption, ShapeInv, PlanInv, NEW w \in flying,
         UrlArrives(w) \/ StatementRuns(w) \/ WriteIsLost(w)
  PROVE  ShapeInv' /\ PlanInv'
<1>1. /\ AttemptsInv' /\ SamePlaces
      /\ \A s \in Sessions : attempts'[s].touched = attempts[s].touched
      /\ UNCHANGED <<request, today, operations, edited>>
      /\ IsTask(task')
  BY ThingsEffect
<1>2. PICK done \in SUBSET (DOMAIN w.fields) : flying' \subseteq (flying \ {w}) \cup {Left(w, done)}
  BY ThingsEffect
<1>3. Later /\ op' = op
  BY <1>1, UnchangedRow DEF Later, ShapeInv
<1>4. ASSUME NEW v \in flying'
      PROVE  IsWrite(v) /\ op.state \in Sent /\ GoodWrite(v)'
  <2>1. IsWrite(w) /\ op.state \in Sent /\ GoodWrite(w)
    BY DEF ShapeInv, PlanInv
  <2>2. IsWrite(v) /\ GoodWrite(v)
    <3>1. CASE v \in flying
      BY <3>1 DEF ShapeInv, PlanInv
    <3>2. CASE v = Left(w, done)
      BY <2>1, <3>2, LeftWrite, LeftIsGood
    <3> QED
      BY <1>2, <3>1, <3>2
  <2> QED
    BY <1>3, <2>1, <2>2, GoodWriteStays
<1>5. \A s \in Sessions : attempts'[s].touched \subseteq edited'
  BY <1>1 DEF PlanInv, PlanAt
<1>6. IsTask(task)' /\ today' \in 1 .. LastDay
  BY <1>1 DEF IsTask, ShapeInv
<1> QED
  BY <1>1, <1>3, <1>4, <1>5, <1>6, OthersKeep

LEMMA TouchKeepsPlan ==
  ASSUME ShapeInv, PlanInv, NEW parts, Touch(parts), UNCHANGED <<request, operations>>,
         IsTask(task'), today' \in 1 .. LastDay, today' = today \/ "schedule" \in parts
  PROVE  ShapeInv' /\ PlanInv'
<1>1. /\ AttemptsInv' /\ SamePlaces
      /\ \A s \in Sessions :
           attempts'[s].touched = IF attempts[s].pc \in {"apply", "send", "verify"}
                                    THEN attempts[s].touched \cup parts ELSE attempts[s].touched
  BY TouchedAttempts DEF ShapeInv
<1>2. edited' = edited \cup parts
  BY DEF Touch
<1>3. Later /\ op' = op
  BY <1>2, UnchangedRow DEF Later, ShapeInv
<1>4. ASSUME NEW v \in flying'
      PROVE  IsWrite(v) /\ op.state \in Sent /\ GoodWrite(v)'
  <2>1. PICK w \in flying : v = Rest(w, w.touched \cup parts)
    BY TouchedWrites DEF ShapeInv
  <2>2. IsWrite(w) /\ op.state \in Sent /\ GoodWrite(w)
    BY DEF ShapeInv, PlanInv
  <2>3. /\ v.fields = w.fields /\ v.when = w.when /\ v.day = w.day /\ v.call = w.call
        /\ v.touched = w.touched \cup parts
    BY <2>1 DEF Rest
  <2>4. IsWrite(v)
    BY <2>1, <2>2, <2>3 DEF IsWrite, Rest
  <2>5. GoodWrite(v)'
    BY <1>2, <1>3, <2>2, <2>3 DEF GoodWrite, Later, Asked
  <2> QED
    BY <2>2, <2>4, <2>5
<1>5. \A s \in Sessions : attempts'[s].touched \subseteq edited'
  BY <1>1, <1>2 DEF PlanInv, PlanAt
<1>6. IsTask(task)'
  BY DEF IsTask
<1> QED
  BY <1>1, <1>3, <1>4, <1>5, <1>6, OthersKeep

LEMMA PlanStep ==
  ASSUME UpdateAssumption, ShapeInv, PlanInv, [UpdateNext]_updateVars
  PROVE  ShapeInv' /\ PlanInv'
<1>1. ASSUME NEW s \in Sessions, Attempt(s)
      PROVE  ShapeInv' /\ PlanInv'
  BY <1>1, BeginKeepsPlan, ReadRowsKeepsPlan, PrepareKeepsPlan, RecordKeepsPlan, DispatchKeepsPlan,
    CheckKeepsPlan, ApplyKeepsPlan, SendKeepsPlan, VerifyKeepsPlan, FinishKeepsPlan,
    AbandonKeepsPlan DEF Attempt
<1>2. CASE ThingsStep
  BY <1>2, ThingsKeepsPlan DEF ThingsStep
<1>3. CASE UserEdits
  <2>1. IsTask(task') /\ \E parts : Touch(parts)
    BY <1>3, UserFields DEF ShapeInv
  <2>2. UNCHANGED <<request, operations, today>> /\ today' \in 1 .. LastDay
    BY <1>3 DEF UserEdits, ShapeInv
  <2> QED
    BY <2>1, <2>2, TouchKeepsPlan
<1>4. CASE DayPasses
  <2>1. UNCHANGED <<request, operations, task>> /\ Touch({"schedule"}) /\ today' \in 1 .. LastDay
    BY <1>4 DEF DayPasses, counters, ShapeInv, UpdateAssumption
  <2> QED
    BY <2>1, TouchKeepsPlan DEF ShapeInv
<1>5. CASE UNCHANGED updateVars
  <2>1. UNCHANGED <<request, task, today, operations, attempts, flying, edited>> /\ Later
    BY <1>5 DEF updateVars, Later
  <2>2. AttemptsInv' /\ SamePlaces /\ op' = op
    BY <2>1, UnchangedRow DEF ShapeInv, AttemptsInv, SamePlaces
  <2>3. ASSUME NEW w \in flying'
        PROVE  IsWrite(w) /\ op.state \in Sent /\ GoodWrite(w)'
    BY <2>1, <2>2, GoodWriteStays DEF ShapeInv, PlanInv
  <2>4. /\ \A s \in Sessions : attempts'[s].touched \subseteq edited'
        /\ IsTask(task)' /\ today' \in 1 .. LastDay
    BY <2>1 DEF PlanInv, PlanAt, ShapeInv, IsTask
  <2> QED
    BY <2>1, <2>2, <2>3, <2>4, OthersKeep
<1> QED
  BY <1>1, <1>2, <1>3, <1>4, <1>5 DEF UpdateNext

LEMMA PlanInitially ==
  ASSUME UpdateAssumption, UpdateInit
  PROVE  ShapeInv /\ PlanInv
<1>1. op = Journal!NoOperation /\ op.state = "none" /\ RowInv
  BY DEF UpdateInit, op, RowInv, IsRow, Journal!NoOperation, Journal!OperationStates
<1>2. AttemptsInv /\ \A s \in Sessions : attempts[s].pc = "idle" /\ attempts[s].half = "rows"
                                     /\ attempts[s].touched = {}
  BY DEF UpdateInit, NoCall, Call, AttemptsInv, IsAttempt, Places
<1>3. ShapeInv
  BY <1>1, <1>2 DEF ShapeInv, UpdateInit, UpdateAssumption
<1>4. PlanInv
  BY <1>1, <1>2 DEF PlanInv, PlanAt, At, Planned, Planning, UpdateInit
<1> QED
  BY <1>3, <1>4

-----------------------------------------------------------------------------
(* What a session's step comes to, given that there is one plan            *)

From(s, places) == attempts[s].pc \in places /\ attempts[s].half = "dates"
To(s, pc) == attempts'[s].pc = pc /\ attempts'[s].half = "rows"
Apart == UNCHANGED <<flying, clashed>>

Idles(s) ==
  /\ (\E pc \in {"idle", "prepare", "dispatch", "check", "verify"} : To(s, pc))
       \/ (To(s, "apply") /\ ReplaySafe)
  /\ op' = op \/ (op.state = "none" /\ op'.state = "received")
  /\ Apart

Looks(s) ==
  /\ attempts[s].pc \in Reading /\ attempts'[s].pc = attempts[s].pc
  /\ attempts'[s].half = "dates" /\ attempts'[s].rows = Rows
  /\ attempts'[s].touched = IF At(s, "verify") THEN attempts[s].touched ELSE {}
  /\ op' = op /\ Apart

Plans(s) ==
  /\ From(s, {"prepare"}) /\ To(s, "record")
  /\ attempts'[s].plan = Plan(Whole(s))
  /\ op' = op /\ Apart

Records(s) ==
  /\ At(s, "record") /\ To(s, "dispatch")
  /\ op.state = "received" /\ op'.state = "prepared" /\ op'.plan = attempts[s].plan
  /\ Apart

Dispatches(s) ==
  /\ To(s, "apply")
  /\ op.state = "prepared" /\ op'.state = "dispatched" /\ op'.plan = op.plan
  /\ Apart

Refuses(s) ==
  /\ From(s, {"check", "apply"}) /\ To(s, "idle")
  /\ clashed' = clashed \cup Clashes(op.plan, Whole(s))
  /\ op' = op /\ flying' = flying

Accepts(s) ==
  /\ From(s, {"apply"}) /\ To(s, "send")
  /\ ~Clash(op.plan, Whole(s))
  /\ request.when = "evening" => op.plan.day = today
  /\ attempts'[s].rows = Whole(s) /\ attempts'[s].touched = attempts[s].touched
  /\ attempts'[s].plan = op.plan
  /\ op' = op /\ Apart

Writes(s) ==
  /\ At(s, "send") /\ To(s, "verify")
  /\ flying' = flying \cup {Write(s, attempts[s].rows)}
  /\ op' = op /\ clashed' = clashed

Finds(s) ==
  /\ From(s, {"check", "apply", "verify"}) /\ To(s, "finish")
  /\ Done(op.plan, Whole(s))
  /\ op' = op /\ Apart

Finishes(s) ==
  /\ At(s, "finish") /\ To(s, "idle")
  /\ op' = op \/ (op.state = "dispatched" /\ op'.state = "applied" /\ op'.plan = op.plan)
  /\ Apart

Effect(s) ==
  /\ Others(s) /\ UNCHANGED <<request, task, today, edited>>
  /\ \/ Idles(s) \/ Looks(s) \/ Plans(s) \/ Records(s) \/ Dispatches(s) \/ Refuses(s)
     \/ Accepts(s) \/ Writes(s) \/ Finds(s) \/ Finishes(s)

LEMMA BeginEffect ==
  ASSUME ShapeInv, NEW s \in Sessions, Begin(s), attempts[s].half = "rows"
  PROVE  Effect(s)
<1>1. UNCHANGED <<request, task, today, edited, flying, clashed>> /\ At(s, "idle")
  BY DEF Begin
<1>2. op' = op \/ (op.state = "none" /\ op'.state = "received")
  BY EnsureRow DEF Begin, ShapeInv
<1>3. CASE \E pc \in {"prepare", "dispatch", "check"}, plan \in {NoPlan, op.plan} : Enter(s, pc, plan)
  <2>1. PICK pc \in {"prepare", "dispatch", "check"} :
          \E plan \in {NoPlan, op.plan} : Enter(s, pc, plan)
    BY <1>3
  <2>2. PICK plan : Opens(s, pc, calls + 1, plan)
    BY <2>1 DEF Enter, Opens
  <2>3. pc \in Places
    BY DEF Places, Reading
  <2>4. Others(s) /\ To(s, pc)
    BY <2>2, <2>3, NewAttempt DEF ShapeInv, To
  <2> QED
    BY <1>1, <1>2, <2>4 DEF Effect, Idles, Apart
<1>4. CASE UNCHANGED attempts
  BY <1>1, <1>2, <1>4 DEF Effect, Idles, Apart, To, Others, At
<1> QED
  BY <1>3, <1>4 DEF Begin

LEMMA GotoEffect ==
  ASSUME ShapeInv, NEW s \in Sessions, NEW pc \in Places, Goto(s, pc)
  PROVE  Others(s) /\ To(s, pc)
BY GotoAttempt DEF ShapeInv, To

LEMMA ReturnEffect ==
  ASSUME ShapeInv, NEW s \in Sessions, Return(s)
  PROVE  Others(s) /\ To(s, "idle")
BY ReturnAttempt DEF ShapeInv, To

LEMMA ReadRowsEffect ==
  ASSUME ShapeInv, NEW s \in Sessions, ReadRows(s)
  PROVE  Effect(s)
<1>1. UNCHANGED <<request, task, today, edited, flying, clashed, operations>>
  BY DEF ReadRows, counters
<1>2. op' = op
  BY <1>1, UnchangedRow DEF ShapeInv
<1>3. CASE Return(s)
  BY <1>1, <1>2, <1>3, ReturnEffect DEF Effect, Idles, Apart
<1>4. CASE ~Return(s)
  <2>1. attempts' = [attempts EXCEPT ![s].half = "dates", ![s].rows = Rows,
                          ![s].touched = IF At(s, "verify") THEN @ ELSE {}]
    BY <1>4 DEF ReadRows
  <2>2. attempts[s].pc \in Reading
    BY DEF ReadRows
  <2>3. PICK rows, touched :
          /\ Reads(s, rows, touched)
          /\ rows = Rows /\ touched = IF At(s, "verify") THEN attempts[s].touched ELSE {}
    <3>1. CASE At(s, "verify")
      BY <2>1, <3>1 DEF Reads
    <3>2. CASE ~At(s, "verify")
      BY <2>1, <3>2 DEF Reads
    <3> QED
      BY <3>1, <3>2
  <2>4. /\ Others(s)
        /\ attempts'[s].pc = attempts[s].pc /\ attempts'[s].half = "dates"
        /\ attempts'[s].rows = rows /\ attempts'[s].touched = touched
    BY <2>2, <2>3, ReadAttempt DEF ShapeInv
  <2> QED
    BY <1>1, <1>2, <2>2, <2>3, <2>4 DEF Effect, Looks, Apart
<1> QED
  BY <1>3, <1>4

LEMMA PrepareEffect ==
  ASSUME ShapeInv, NEW s \in Sessions, Prepare(s)
  PROVE  Effect(s)
<1>1. UNCHANGED <<request, task, today, edited, flying, clashed, operations>> /\ From(s, {"prepare"})
  BY DEF Prepare, counters, ReadDates, From, At
<1>2. op' = op
  BY <1>1, UnchangedRow DEF ShapeInv
<1>3. PICK plan : plan = Plan(Whole(s))
  OBVIOUS
<1>4. Opens(s, "record", attempts[s].call, plan)
  BY <1>3 DEF Prepare, Opens
<1>5. Others(s) /\ To(s, "record") /\ attempts'[s].plan = plan
  <2>1. "record" \in Places
    BY DEF Places
  <2> QED
    BY <1>4, <2>1, NewAttempt DEF ShapeInv, To
<1> QED
  BY <1>1, <1>2, <1>3, <1>5 DEF Effect, Plans, Apart

LEMMA RecordEffect ==
  ASSUME ShapeInv, NEW s \in Sessions, Record(s)
  PROVE  Effect(s)
<1>1. UNCHANGED <<request, task, today, edited, flying, clashed>> /\ At(s, "record")
  BY DEF Record, counters
<1>2. CASE Journal!PrepareOperation("update", attempts[s].plan) /\ Goto(s, "dispatch")
  <2>1. PICK plan : plan = attempts[s].plan
    OBVIOUS
  <2>2. op.state = "received" /\ op'.state = "prepared" /\ op'.plan = plan
    BY <1>2, <2>1, PrepareRow DEF ShapeInv
  <2>3. Others(s) /\ To(s, "dispatch")
    BY <1>2, GotoEffect DEF Places
  <2> QED
    BY <1>1, <2>1, <2>2, <2>3 DEF Effect, Records, Apart
<1>3. CASE Return(s) /\ UNCHANGED operations
  BY <1>1, <1>3, UnchangedRow, ReturnEffect DEF ShapeInv, Effect, Idles, Apart
<1> QED
  BY <1>2, <1>3 DEF Record

LEMMA DispatchEffect ==
  ASSUME ShapeInv, NEW s \in Sessions, Dispatch(s)
  PROVE  Effect(s)
<1>1. UNCHANGED <<request, task, today, edited, flying, clashed>>
  BY DEF Dispatch, counters
<1>2. CASE Journal!MarkOperationDispatched("update") /\ Goto(s, "apply")
  <2>1. op.state = "prepared" /\ op'.state = "dispatched" /\ op'.plan = op.plan
    BY <1>2, DispatchRow DEF ShapeInv
  <2>2. Others(s) /\ To(s, "apply")
    BY <1>2, GotoEffect DEF Places, Reading
  <2> QED
    BY <1>1, <2>1, <2>2 DEF Effect, Dispatches, Apart
<1>3. CASE Return(s) /\ UNCHANGED operations
  BY <1>1, <1>3, UnchangedRow, ReturnEffect DEF ShapeInv, Effect, Idles, Apart
<1> QED
  BY <1>2, <1>3 DEF Dispatch

LEMMA CheckEffect ==
  ASSUME ShapeInv, PlanInv, NEW s \in Sessions, Check(s)
  PROVE  Effect(s)
<1>1. UNCHANGED <<request, task, today, edited, flying, operations>> /\ From(s, {"check"})
  BY DEF Check, counters, ReadDates, From, At
<1>2. op' = op
  BY <1>1, UnchangedRow DEF ShapeInv
<1>3. attempts[s].plan = op.plan /\ op.plan.safe = ReplaySafe
  BY <1>1, CommittedFacts DEF From, GoodPlan
<1>4. CASE Refuse(s, Whole(s))
  BY <1>1, <1>2, <1>3, <1>4, ReturnEffect DEF Refuse, Effect, Refuses, From
<1>5. CASE Done(attempts[s].plan, Whole(s)) /\ Goto(s, "finish") /\ UNCHANGED clashed
  <2>1. Others(s) /\ To(s, "finish")
    BY <1>5, GotoEffect DEF Places
  <2> QED
    BY <1>1, <1>2, <1>3, <1>5, <2>1 DEF Effect, Finds, From, Apart
<1>6. CASE (IF attempts[s].plan.safe THEN Goto(s, "apply") ELSE Return(s)) /\ UNCHANGED clashed
  <2>1. Others(s) /\ (To(s, "idle") \/ (To(s, "apply") /\ ReplaySafe))
    BY <1>3, <1>6, GotoEffect, ReturnEffect DEF Places, Reading
  <2> QED
    BY <1>1, <1>2, <1>6, <2>1 DEF Effect, Idles, Apart
<1> QED
  BY <1>4, <1>5, <1>6 DEF Check

LEMMA ApplyEffect ==
  ASSUME ShapeInv, PlanInv, NEW s \in Sessions, Apply(s)
  PROVE  Effect(s)
<1>1. UNCHANGED <<request, task, today, edited, flying, operations>> /\ From(s, {"apply"})
  BY DEF Apply, counters, ReadDates, From, At
<1>2. op' = op
  BY <1>1, UnchangedRow DEF ShapeInv
<1>3. attempts[s].plan = op.plan
  BY <1>1, CommittedFacts DEF From
<1>4. CASE Refuse(s, Whole(s))
  BY <1>1, <1>2, <1>3, <1>4, ReturnEffect DEF Refuse, Effect, Refuses, From
<1>5. CASE Done(attempts[s].plan, Whole(s)) /\ Goto(s, "finish") /\ UNCHANGED clashed
  <2>1. Others(s) /\ To(s, "finish")
    BY <1>5, GotoEffect DEF Places
  <2> QED
    BY <1>1, <1>2, <1>3, <1>5, <2>1 DEF Effect, Finds, From, Apart
<1>6. CASE Return(s) /\ UNCHANGED clashed
  BY <1>1, <1>2, <1>6, ReturnEffect DEF Effect, Idles, Apart
<1>7. CASE /\ ~Clash(attempts[s].plan, Whole(s)) /\ Sends(s, Whole(s)) /\ UNCHANGED clashed
           /\ attempts[s].plan.when = "evening" => attempts[s].plan.day = today
  <2>1. PICK rows : rows = Whole(s)
    OBVIOUS
  <2>2. /\ Others(s) /\ To(s, "send")
        /\ attempts'[s].plan = attempts[s].plan
        /\ attempts'[s].rows = rows /\ attempts'[s].touched = attempts[s].touched
    BY <1>7, <2>1, SendAttempt DEF ShapeInv, To
  <2>3. request.when = "evening" => op.plan.day = today
    BY <1>1, <1>3, <1>7, CommittedFacts DEF GoodPlan, From
  <2> QED
    BY <1>1, <1>2, <1>3, <1>7, <2>1, <2>2, <2>3 DEF Effect, Accepts, Apart
<1> QED
  BY <1>4, <1>5, <1>6, <1>7 DEF Apply, Sends

LEMMA SendEffect ==
  ASSUME ShapeInv, NEW s \in Sessions, Send(s)
  PROVE  Effect(s)
<1>1. /\ UNCHANGED <<request, task, today, edited, clashed, operations>> /\ At(s, "send")
      /\ flying' = flying \cup {Write(s, attempts[s].rows)} /\ Goto(s, "verify")
  BY DEF Send, counters
<1>2. op' = op
  BY <1>1, UnchangedRow DEF ShapeInv
<1>3. Others(s) /\ To(s, "verify")
  BY <1>1, GotoEffect DEF Places, Reading
<1> QED
  BY <1>1, <1>2, <1>3 DEF Effect, Writes

LEMMA VerifyEffect ==
  ASSUME ShapeInv, PlanInv, NEW s \in Sessions, Verify(s)
  PROVE  Effect(s)
<1>1. UNCHANGED <<request, task, today, edited, flying, operations, clashed>> /\ From(s, {"verify"})
  BY DEF Verify, counters, ReadDates, From, At
<1>2. op' = op
  BY <1>1, UnchangedRow DEF ShapeInv
<1>3. attempts[s].plan = op.plan
  BY <1>1, CommittedFacts DEF From
<1>4. CASE Done(attempts[s].plan, Whole(s))
  <2>1. Others(s) /\ To(s, "finish")
    BY <1>4, GotoEffect DEF Verify, Places
  <2> QED
    BY <1>1, <1>2, <1>3, <1>4, <2>1 DEF Effect, Finds, From, Apart
<1>5. CASE ~Done(attempts[s].plan, Whole(s))
  <2>1. Others(s) /\ To(s, "verify")
    BY <1>5, GotoEffect DEF Verify, Places, Reading
  <2> QED
    BY <1>1, <1>2, <2>1 DEF Effect, Idles, Apart
<1> QED
  BY <1>4, <1>5

LEMMA FinishEffect ==
  ASSUME ShapeInv, NEW s \in Sessions, Finish(s)
  PROVE  Effect(s)
<1>1. UNCHANGED <<request, task, today, edited, flying, clashed>> /\ Return(s) /\ At(s, "finish")
  BY DEF Finish, counters
<1>2. op' = op \/ (op.state = "dispatched" /\ op'.state = "applied" /\ op'.plan = op.plan)
  BY CompleteRow, UnchangedRow DEF Finish, ShapeInv
<1> QED
  BY <1>1, <1>2, ReturnEffect DEF Effect, Finishes, Apart

LEMMA AbandonEffect ==
  ASSUME ShapeInv, NEW s \in Sessions, Abandon(s)
  PROVE  Effect(s)
<1>1. UNCHANGED <<request, task, today, edited, flying, clashed, operations>> /\ Return(s)
  BY DEF Abandon, counters
<1> QED
  BY <1>1, ReturnEffect, UnchangedRow DEF Effect, Idles, Apart, ShapeInv

LEMMA AttemptEffect ==
  ASSUME ShapeInv, PlanInv, NEW s \in Sessions, Attempt(s)
  PROVE  Effect(s)
<1>1. Begin(s) => attempts[s].half = "rows"
  BY DEF Begin, At, ShapeInv, AttemptsInv, IsAttempt, Reading
<1> QED
  BY <1>1, BeginEffect, ReadRowsEffect, PrepareEffect, RecordEffect, DispatchEffect, CheckEffect,
    ApplyEffect, SendEffect, VerifyEffect, FinishEffect, AbandonEffect DEF Attempt

LEMMA EffectKept ==
  ASSUME NEW s \in Sessions, Effect(s)
  PROVE  Kept /\ Later
BY DEF Effect, Idles, Looks, Plans, Records, Dispatches, Refuses, Accepts, Writes, Finds, Finishes,
  Kept, Later, Planned, Sent

\* What an edit, or a day that passes, comes to.
Disturbs(parts) ==
  /\ UNCHANGED <<request, clashed, calls>> /\ op' = op
  /\ today' \in {today, today + 1}
  /\ edited' = edited \cup parts
  /\ SamePlaces
  /\ \A s \in Sessions :
       /\ attempts'[s].landed = attempts[s].landed
       /\ attempts'[s].touched = IF attempts[s].pc \in {"apply", "send", "verify"}
                                   THEN attempts[s].touched \cup parts ELSE attempts[s].touched
  /\ flying' = {Rest(w, w.touched \cup parts) : w \in flying}
  /\ \A f \in Fields \ parts : task'.fields[f] = task.fields[f]
  /\ \A f \in Fields : task'.fields[f] \in {task.fields[f]} \cup Edits[f]
  /\ "schedule" \notin parts =>
       /\ today' = today
       /\ task'.start = task.start /\ task'.date = task.date /\ task'.bucket = task.bucket
       /\ task'.pinned = task.pinned

LEMMA DisturbsKept ==
  ASSUME NEW parts, Disturbs(parts)
  PROVE  Kept /\ Later
BY DEF Disturbs, Kept, Later

\* What Things' step comes to: a part of a write is carried out, and the rest is left.
Carries(w, done) ==
  /\ UNCHANGED <<request, today, edited, clashed, calls>> /\ op' = op
  /\ SamePlaces
  /\ \A s \in Sessions : attempts'[s].touched = attempts[s].touched
  /\ flying' \subseteq (flying \ {w}) \cup {Left(w, done)}
  /\ \A f \in Fields :
       task'.fields[f] = IF f \notin done THEN task.fields[f]
                         ELSE IF f = "checklist" THEN task.fields[f] \o w.fields[f]
                         ELSE w.fields[f]
  /\ \/ /\ task'.start = task.start /\ task'.date = task.date
        /\ task'.bucket = task.bucket /\ task'.pinned = task.pinned
     \/ Moved(w)
  /\ \A s \in Sessions : attempts'[s].landed = attempts[s].landed \/ Lands(s, w, done)

LEMMA StepKinds ==
  ASSUME UpdateAssumption, ShapeInv, PlanInv, [UpdateNext]_updateVars
  PROVE  \/ \E s \in Sessions : Attempt(s)
         \/ \E parts : Disturbs(parts)
         \/ \E w \in flying : \E done \in SUBSET (DOMAIN w.fields) : Carries(w, done)
         \/ UNCHANGED updateVars
<1>1. CASE \E s \in Sessions : Attempt(s)
  BY <1>1
<1>2. CASE ThingsStep
  <2>1. PICK w \in flying : UrlArrives(w) \/ StatementRuns(w) \/ WriteIsLost(w)
    BY <1>2 DEF ThingsStep
  <2>2. PICK done \in SUBSET (DOMAIN w.fields) :
          /\ flying' \subseteq (flying \ {w}) \cup {Left(w, done)}
          /\ \A f \in Fields :
               task'.fields[f] = IF f \notin done THEN task.fields[f]
                                 ELSE IF f = "checklist" THEN task.fields[f] \o w.fields[f]
                                 ELSE w.fields[f]
          /\ \/ /\ task'.start = task.start /\ task'.date = task.date
                /\ task'.bucket = task.bucket /\ task'.pinned = task.pinned
             \/ Moved(w)
          /\ \A s \in Sessions : attempts'[s].landed = attempts[s].landed \/ Lands(s, w, done)
    BY <2>1, ThingsEffect
  <2>3. /\ SamePlaces /\ \A s \in Sessions : attempts'[s].touched = attempts[s].touched
        /\ UNCHANGED <<request, today, operations, edited, clashed, calls>>
    BY <2>1, ThingsEffect
  <2>4. op' = op
    BY <2>3, UnchangedRow DEF ShapeInv
  <2> QED
    BY <2>2, <2>3, <2>4 DEF Carries
<1>3. CASE UserEdits
  <2>1. UNCHANGED <<request, today, operations, clashed, calls>>
    BY <1>3 DEF UserEdits
  <2>2. PICK parts :
          /\ Touch(parts)
          /\ \A f \in Fields \ parts : task'.fields[f] = task.fields[f]
          /\ "schedule" \notin parts =>
               /\ task'.start = task.start /\ task'.date = task.date
               /\ task'.bucket = task.bucket /\ task'.pinned = task.pinned
          /\ \A f \in Fields : task'.fields[f] \in {task.fields[f]} \cup Edits[f]
    BY <1>3, UserFields DEF ShapeInv
  <2>3. op' = op /\ edited' = edited \cup parts
    BY <2>1, <2>2, UnchangedRow DEF ShapeInv, Touch
  <2>4. Disturbs(parts)
    BY <2>1, <2>2, <2>3, TouchedAttempts, TouchedWrites DEF Disturbs, ShapeInv
  <2> QED
    BY <2>4
<1>4. CASE DayPasses
  <2>1. /\ UNCHANGED <<request, task, operations, clashed, calls>> /\ today' = today + 1
        /\ Touch({"schedule"})
    BY <1>4 DEF DayPasses, counters
  <2>2. op' = op /\ edited' = edited \cup {"schedule"}
    BY <2>1, UnchangedRow DEF ShapeInv, Touch
  <2>3. Disturbs({"schedule"})
    BY <2>1, <2>2, TouchedAttempts, TouchedWrites DEF Disturbs, ShapeInv
  <2> QED
    BY <2>3
<1> QED
  BY <1>1, <1>2, <1>3, <1>4 DEF UpdateNext

LEMMA StepEffect ==
  ASSUME UpdateAssumption, ShapeInv, PlanInv, [UpdateNext]_updateVars
  PROVE  \/ \E s \in Sessions : Effect(s)
         \/ \E parts : Disturbs(parts)
         \/ \E w \in flying : \E done \in SUBSET (DOMAIN w.fields) : Carries(w, done)
         \/ UNCHANGED updateVars
BY StepKinds, AttemptEffect

LEMMA StutterOp ==
  ASSUME ShapeInv, UNCHANGED updateVars
  PROVE  op' = op
BY UnchangedRow DEF updateVars, ShapeInv

-----------------------------------------------------------------------------
(* One writer of a checklist                                               *)

LEMMA Committed ==
  ASSUME PlanInv
  PROVE  /\ \A s \in Sessions :
              /\ attempts[s].pc \in {"check", "apply", "send", "verify", "finish"} =>
                   op.state \in Planned /\ op.state \in Sent /\ attempts[s].plan = op.plan
         /\ \A w \in flying : op.state \in Planned /\ op.state \in Sent /\ GoodWrite(w)
BY CommittedFacts DEF PlanInv, Planned, Sent

LEMMA WriterStep ==
  ASSUME ShapeInv, PlanInv, WriterInv,
         \/ \E s \in Sessions : Effect(s)
         \/ \E parts : Disturbs(parts)
         \/ \E w \in flying : \E done \in SUBSET (DOMAIN w.fields) : Carries(w, done)
         \/ UNCHANGED updateVars
  PROVE  WriterInv'
<1> SUFFICES ASSUME "checklist" \in Asked'
             PROVE  /\ \A s, r \in Sessions : Writing(s)' /\ Writing(r)' => s = r
                    /\ \A s \in Sessions, w \in flying' : ~(Writing(s)' /\ Appends(w))
                    /\ \A v, w \in flying' : Appends(v) /\ Appends(w) => v = w
  BY DEF WriterInv, Appends
<1>1. "checklist" \in Asked /\ ~ReplaySafe
  BY DEF Effect, Disturbs, Carries, updateVars, Asked, ReplaySafe
<1>2. /\ \A s, r \in Sessions : Writing(s) /\ Writing(r) => s = r
      /\ \A s \in Sessions, w \in flying : ~(Writing(s) /\ Appends(w))
      /\ \A v, w \in flying : Appends(v) /\ Appends(w) => v = w
  BY <1>1 DEF WriterInv
<1>3. CASE (\A s \in Sessions : Writing(s)' => Writing(s)) /\ flying' = flying
  BY <1>2, <1>3
<1>4. ASSUME NEW s \in Sessions, Effect(s)
      PROVE  /\ \A q, r \in Sessions : Writing(q)' /\ Writing(r)' => q = r
             /\ \A q \in Sessions, w \in flying' : ~(Writing(q)' /\ Appends(w))
             /\ \A v, w \in flying' : Appends(v) /\ Appends(w) => v = w
  <2>1. \A r \in Sessions \ {s} : Writing(r)' => Writing(r)
    BY <1>4 DEF Effect, Others, Writing
  <2>2. CASE \/ Idles(s) \/ Looks(s) \/ Plans(s) \/ Records(s) \/ Refuses(s) \/ Accepts(s)
             \/ Finds(s) \/ Finishes(s)
    <3>1. flying' = flying /\ (Writing(s)' => Writing(s))
      BY <1>1, <2>2 DEF Idles, Looks, Plans, Records, Refuses, Accepts, Finds, Finishes, Apart, To,
        From, Writing
    <3> QED
      BY <1>3, <2>1, <3>1
  <2>3. CASE Dispatches(s)
    <3>1. op.state \notin Sent /\ flying' = flying
      BY <2>3 DEF Dispatches, Sent, Apart
    <3>2. flying = {} /\ \A r \in Sessions : ~Writing(r)
      BY <3>1, Committed DEF Writing
    <3> QED
      BY <2>1, <3>1, <3>2
  <2>4. CASE Writes(s)
    <3>1. Writing(s) /\ ~Writing(s)' /\ flying' = flying \cup {Write(s, attempts[s].rows)}
      BY <2>4 DEF Writes, To, At, Writing
    <3> QED
      BY <1>2, <2>1, <3>1
  <2> QED
    BY <1>4, <2>2, <2>3, <2>4 DEF Effect
<1>5. ASSUME NEW parts, Disturbs(parts)
      PROVE  /\ \A q, r \in Sessions : Writing(q)' /\ Writing(r)' => q = r
             /\ \A q \in Sessions, w \in flying' : ~(Writing(q)' /\ Appends(w))
             /\ \A v, w \in flying' : Appends(v) /\ Appends(w) => v = w
  <2>1. \A s \in Sessions : Writing(s)' => Writing(s)
    BY <1>5, SamePlaceParts DEF Disturbs, SamePlaces, Writing
  <2>2. \A v \in flying' : \E w \in flying :
          v = Rest(w, w.touched \cup parts) /\ (Appends(v) => Appends(w))
    BY <1>5 DEF Disturbs, Rest, Appends
  <2> QED
    BY <1>2, <2>1, <2>2
<1>6. ASSUME NEW w \in flying, NEW done \in SUBSET (DOMAIN w.fields), Carries(w, done)
      PROVE  /\ \A q, r \in Sessions : Writing(q)' /\ Writing(r)' => q = r
             /\ \A q \in Sessions, v \in flying' : ~(Writing(q)' /\ Appends(v))
             /\ \A u, v \in flying' : Appends(u) /\ Appends(v) => u = v
  <2>1. \A s \in Sessions : Writing(s)' => Writing(s)
    BY <1>6, SamePlaceParts DEF Carries, SamePlaces, Writing
  <2>2. Appends(Left(w, done)) => Appends(w)
    BY DEF Left, Appends
  <2>3. flying' \subseteq (flying \ {w}) \cup {Left(w, done)}
    BY <1>6 DEF Carries
  <2> QED
    BY <1>2, <2>1, <2>2, <2>3
<1>7. CASE UNCHANGED updateVars
  BY <1>3, <1>7 DEF updateVars, Writing
<1> QED
  BY <1>4, <1>5, <1>6, <1>7

-----------------------------------------------------------------------------
(* What a field may be                                                     *)

Steps ==
  \/ \E s \in Sessions : Effect(s)
  \/ \E parts : Disturbs(parts)
  \/ \E w \in flying : \E done \in SUBSET (DOMAIN w.fields) : Carries(w, done)
  \/ UNCHANGED updateVars

ValueOf(s) ==
  /\ At(s, "send") =>
       \A f \in Unmet(attempts[s].plan, attempts[s].rows) \ attempts[s].touched :
         task.fields[f] \in Expected(f)
  /\ At(s, "apply") /\ attempts[s].half = "dates" =>
       \A f \in Asked \ (attempts[s].touched \cup {"deadline"}) :
         attempts[s].rows.fields[f] = op.plan.before[f] => task.fields[f] \in Expected(f)

\* Where nothing has been done to a field, it is still as it may be.
LEMMA ValueOfStays ==
  ASSUME NEW s \in Sessions, ValueOf(s), PlanInv, UpdateAssumption, ShapeInv,
         Place(attempts'[s]) = Place(attempts[s]), op'.plan = op.plan, request' = request,
         attempts[s].touched \subseteq attempts'[s].touched,
         Writing(s) =>
           \A f \in Asked \ attempts'[s].touched :
             task'.fields[f] = task.fields[f] \/ task'.fields[f] \in Expected(f)
  PROVE  ValueOf(s)'
<1>1. /\ attempts'[s].pc = attempts[s].pc /\ attempts'[s].half = attempts[s].half
      /\ attempts'[s].plan = attempts[s].plan /\ attempts'[s].rows = attempts[s].rows
  BY SamePlaceParts
<1>2. \A f : Expected(f)' = Expected(f)
  BY DEF Expected
<1>3. Writing(s) => attempts[s].plan = op.plan /\ DOMAIN op.plan.after = Asked
  BY Committed DEF Writing, PlanInv, GoodPlan
<1>4. At(s, "send") => Unmet(attempts[s].plan, attempts[s].rows) \subseteq Asked
  BY <1>3 DEF Unmet, Writing, At
<1>5. Unmet(attempts'[s].plan, attempts'[s].rows) = Unmet(attempts[s].plan, attempts[s].rows)
  BY <1>1 DEF Unmet
<1>6. ASSUME At(s, "send")',
             NEW f \in Unmet(attempts'[s].plan, attempts'[s].rows) \ attempts'[s].touched
      PROVE  task'.fields[f] \in Expected(f)
  BY <1>1, <1>4, <1>5, <1>6 DEF ValueOf, Writing, At
<1>7. ASSUME At(s, "apply")', attempts'[s].half = "dates",
             NEW f \in Asked \ (attempts'[s].touched \cup {"deadline"}),
             attempts'[s].rows.fields[f] = op.plan.before[f]
      PROVE  task'.fields[f] \in Expected(f)
  BY <1>1, <1>7 DEF ValueOf, Writing, At
<1> QED
  BY <1>2, <1>6, <1>7 DEF ValueOf, Asked, Unmet

LEMMA ValueStep ==
  ASSUME UpdateAssumption, ShapeInv, PlanInv, WriterInv, ValueInv, Steps
  PROVE  ValueInv'
<1> USE DEF Steps
<1>a. Asked \subseteq Fields
  BY DEF ShapeInv, UpdateAssumption, Asked
<1>b. ASSUME op'.plan = op.plan,
             \A s \in Sessions : ValueOf(s)',
             \A w \in flying' : \A f \in DOMAIN w.fields \ w.touched : task'.fields[f] \in Expected(f)
      PROVE  ValueInv'
  BY <1>b DEF ValueInv, ValueOf, Expected
<1>c. \A s \in Sessions : ValueOf(s)
  BY DEF ValueInv, ValueOf
<1>1. ASSUME NEW s \in Sessions, Effect(s)
      PROVE  ValueInv'
  <2>1. Kept /\ task' = task /\ request' = request
    BY <1>1, EffectKept DEF Effect
  <2>2. CASE op.state \notin Sent
    <3>1. flying = {} /\ \A r \in Sessions : ~Writing(r)
      BY <2>2, Committed DEF Writing
    <3>2. flying' = {} /\ \A r \in Sessions \ {s} : ~Writing(r)'
      <4>1. ~Writes(s)
        BY <3>1 DEF Writes, Writing, At
      <4> QED
        BY <1>1, <3>1, <4>1 DEF Effect, Others, Writing, Idles, Looks, Plans, Records, Dispatches,
          Refuses, Accepts, Finds, Finishes, Apart
    <3>3. ~At(s, "send")' /\ ~(At(s, "apply")' /\ attempts'[s].half = "dates")
      BY <1>1, <3>1 DEF Effect, At, Writing, Idles, Looks, Plans, Records, Dispatches, Refuses,
        Accepts, Writes, Finds, Finishes, To, From
    <3> QED
      BY <3>2, <3>3 DEF ValueInv, At, Writing
  <2>3. CASE op.state \in Sent
    <3>1. op'.plan = op.plan
      BY <2>1, <2>3 DEF Kept, Sent, Planned
    <3>2. ASSUME NEW r \in Sessions \ {s}
          PROVE  ValueOf(r)'
      <4>1. attempts'[r] = attempts[r]
        BY <1>1 DEF Effect, Others
      <4> QED
        BY <1>c, <2>1, <3>1, <4>1, ValueOfStays
    <3>3. ValueOf(s)'
      <4>1. CASE Looks(s)
        <5>1. \A f \in Asked : attempts'[s].rows.fields[f] = task.fields[f]
          BY <4>1, RowsNow DEF Looks, ShapeInv
        <5>2. \A f : op.plan.before[f] \in Expected(f)
          BY DEF Expected
        <5>3. attempts'[s].pc # "send"
          BY <4>1 DEF Looks, Reading
        <5> QED
          BY <2>1, <3>1, <5>1, <5>2, <5>3 DEF ValueOf, At, Asked, Expected
      <4>2. CASE Accepts(s)
        <5>1. /\ From(s, {"apply"}) /\ attempts'[s].plan = op.plan /\ attempts'[s].rows = Whole(s)
              /\ attempts'[s].touched = attempts[s].touched /\ attempts'[s].pc = "send"
              /\ Clashes(op.plan, Whole(s)) = {}
          BY <4>2 DEF Accepts, Clash, To
        <5>2. DOMAIN op.plan.after = Asked /\ IsRows(attempts[s].rows)
          BY <5>1, CommittedFacts DEF From, GoodPlan, PlanInv, PlanAt
        <5>3. \A f \in Fields : Whole(s).fields[f] =
                 IF f = "deadline" THEN task.fields[f] ELSE attempts[s].rows.fields[f]
          BY <5>2, SeenParts DEF Whole
        <5>4. ASSUME NEW f \in Unmet(op.plan, Whole(s)) \ attempts[s].touched
              PROVE  task.fields[f] \in Expected(f)
          <6>1. f \in Asked /\ Whole(s).fields[f] = op.plan.before[f]
            BY <5>1, <5>2 DEF Clashes, Unmet
          <6>2. op.plan.before[f] \in Expected(f)
            BY DEF Expected
          <6>3. At(s, "apply") /\ attempts[s].half = "dates"
            BY <5>1 DEF From, At
          <6> QED
            BY <1>a, <1>c, <5>3, <6>1, <6>2, <6>3 DEF ValueOf
        <5>5. PICK rows, plan : rows = Whole(s) /\ plan = op.plan
          OBVIOUS
        <5>6. \A f \in Unmet(plan, rows) \ attempts'[s].touched : task'.fields[f] \in Expected(f)'
          BY <2>1, <3>1, <5>1, <5>4, <5>5 DEF Expected
        <5> QED
          BY <5>1, <5>5, <5>6 DEF ValueOf, At, Unmet
      <4>3. CASE ~Looks(s) /\ ~Accepts(s)
        <5>1. ~At(s, "send")' /\ ~(At(s, "apply")' /\ attempts'[s].half = "dates")
          BY <1>1, <4>3 DEF Effect, At, Idles, Plans, Records, Dispatches, Refuses, Writes, Finds,
            Finishes, To
        <5> QED
          BY <5>1 DEF ValueOf, At
      <4> QED
        BY <4>1, <4>2, <4>3
    <3>4. ASSUME NEW w \in flying', NEW f \in DOMAIN w.fields \ w.touched
          PROVE  task.fields[f] \in Expected(f)
      <4>1. CASE w \in flying
        BY <4>1 DEF ValueInv
      <4>2. CASE w \notin flying
        <5>1. At(s, "send") /\ w = Write(s, attempts[s].rows)
          BY <1>1, <4>2 DEF Effect, Idles, Looks, Plans, Records, Dispatches, Refuses, Accepts,
            Writes, Finds, Finishes, Apart
        <5>2. f \in Unmet(attempts[s].plan, attempts[s].rows) \ attempts[s].touched
          BY <5>1 DEF Write
        <5> QED
          BY <5>1, <5>2 DEF ValueInv
      <4> QED
        BY <4>1, <4>2
    <3> QED
      BY <1>b, <2>1, <3>1, <3>2, <3>3, <3>4
  <2> QED
    BY <2>2, <2>3
<1>2. ASSUME NEW parts, Disturbs(parts)
      PROVE  ValueInv'
  <2>1. /\ op'.plan = op.plan /\ request' = request /\ SamePlaces
        /\ \A f \in Asked \ parts : task'.fields[f] = task.fields[f]
    BY <1>a, <1>2 DEF Disturbs
  <2>2. ASSUME NEW s \in Sessions
        PROVE  ValueOf(s)'
    <3>1. attempts[s].touched \subseteq attempts'[s].touched
          /\ (Writing(s) => parts \subseteq attempts'[s].touched)
      BY <1>2 DEF Disturbs, Writing
    <3> QED
      BY <1>c, <2>1, <3>1, ValueOfStays DEF SamePlaces
  <2>3. ASSUME NEW v \in flying', NEW f \in DOMAIN v.fields \ v.touched
        PROVE  task'.fields[f] \in Expected(f)
    <3>1. PICK w \in flying : v = Rest(w, w.touched \cup parts)
      BY <1>2 DEF Disturbs
    <3>2. f \in DOMAIN w.fields \ (w.touched \cup parts)
      BY <3>1 DEF Rest
    <3>3. f \in Asked
      BY <3>2, Committed DEF GoodWrite
    <3> QED
      BY <2>1, <3>2, <3>3 DEF ValueInv
  <2> QED
    BY <1>b, <2>1, <2>2, <2>3
<1>3. ASSUME NEW w \in flying, NEW done \in SUBSET (DOMAIN w.fields), Carries(w, done)
      PROVE  ValueInv'
  <2>1. /\ op'.plan = op.plan /\ request' = request /\ SamePlaces
        /\ \A s \in Sessions : attempts'[s].touched = attempts[s].touched
        /\ flying' \subseteq (flying \ {w}) \cup {Left(w, done)}
    BY <1>3 DEF Carries
  <2>2. GoodWrite(w) /\ DOMAIN w.fields \subseteq Asked
    BY Committed DEF GoodWrite
  <2>3. \A f \in Asked :
          \/ task'.fields[f] = task.fields[f]
          \/ f \in done /\ f = "checklist"
          \/ f \in done /\ task'.fields[f] \in Expected(f)
    BY <1>a, <1>3, <2>2 DEF Carries, GoodWrite, Expected
  <2>4. ASSUME NEW s \in Sessions
        PROVE  ValueOf(s)'
    <3>1. Writing(s) => "checklist" \notin done
      BY <2>2 DEF WriterInv, Appends
    <3> QED
      BY <1>c, <2>1, <2>3, <3>1, ValueOfStays DEF SamePlaces
  <2>5. ASSUME NEW v \in flying', NEW f \in DOMAIN v.fields \ v.touched
        PROVE  task'.fields[f] \in Expected(f)
    <3>1. CASE v \in flying /\ v # w
      <4>1. f \in Asked /\ task.fields[f] \in Expected(f)
        BY <3>1, Committed DEF ValueInv, GoodWrite
      <4>2. ~(f \in done /\ f = "checklist")
        BY <3>1, <4>1 DEF WriterInv, Appends
      <4> QED
        BY <2>3, <4>1, <4>2
    <3>2. CASE v = Left(w, done)
      <4>1. f \in DOMAIN w.fields \ w.touched /\ f \notin done
        BY <3>2 DEF Left
      <4> QED
        BY <2>2, <2>3, <4>1 DEF ValueInv
    <3> QED
      BY <2>1, <3>1, <3>2
  <2> QED
    BY <1>b, <2>1, <2>4, <2>5
<1>4. CASE UNCHANGED updateVars
  <2>1. op' = op /\ UNCHANGED <<request, task, attempts, flying>>
    BY <1>4, StutterOp DEF updateVars
  <2> QED
    BY <2>1 DEF ValueInv, At, Unmet, Asked, Expected
<1> QED
  BY <1>1, <1>2, <1>3, <1>4

-----------------------------------------------------------------------------
(* What is nobody else's                                                   *)

OwnAt(s, f) ==
  /\ From(s, {"check", "apply"}) /\ f # "deadline" =>
       attempts[s].rows.fields[f] \in {op.plan.before[f], op.plan.after[f]}
  /\ op.state \notin Planned /\ At(s, "record") => attempts[s].plan.before[f] = task.fields[f]
  /\ op.state \notin Planned /\ From(s, {"prepare"}) /\ f # "deadline" =>
       attempts[s].rows.fields[f] = task.fields[f]

LEMMA OwnParts ==
  OwnInv <=> /\ clashed \subseteq edited \cap Asked
             /\ \A f \in Asked \ edited :
                  /\ op.state \in Planned => task.fields[f] \in {op.plan.before[f], op.plan.after[f]}
                  /\ \A s \in Sessions : OwnAt(s, f)
BY DEF OwnInv, OwnAt, From, At

LEMMA OwnAtStays ==
  ASSUME PlanInv, NEW s \in Sessions, NEW f, OwnAt(s, f), Place(attempts'[s]) = Place(attempts[s]),
         Kept, op.state \in Planned \/ task'.fields[f] = task.fields[f]
  PROVE  OwnAt(s, f)'
<1>1. /\ attempts'[s].pc = attempts[s].pc /\ attempts'[s].half = attempts[s].half
      /\ attempts'[s].plan = attempts[s].plan /\ attempts'[s].rows = attempts[s].rows
  BY SamePlaceParts
<1>2. From(s, {"check", "apply"}) => op.state \in Planned
  BY Committed DEF From
<1> QED
  BY <1>1, <1>2 DEF OwnAt, From, At, Kept

LEMMA OwnStep ==
  ASSUME UpdateAssumption, ShapeInv, PlanInv, WriterInv, ValueInv, OwnInv, Steps
  PROVE  OwnInv'
<1> USE DEF Steps
<1>a. Asked \subseteq Fields
  BY DEF ShapeInv, UpdateAssumption, Asked
<1>b. ASSUME clashed' \subseteq edited' \cap Asked', request' = request,
             \A f \in Asked \ edited' :
               /\ op'.state \in Planned => task'.fields[f] \in {op'.plan.before[f], op'.plan.after[f]}
               /\ \A s \in Sessions : OwnAt(s, f)'
      PROVE  OwnInv'
  BY <1>b DEF OwnInv, OwnAt, From, At, Asked
<1>c. /\ clashed \subseteq edited \cap Asked
      /\ \A f \in Asked \ edited :
           /\ op.state \in Planned => task.fields[f] \in {op.plan.before[f], op.plan.after[f]}
           /\ \A s \in Sessions : OwnAt(s, f)
  BY OwnParts
<1>1. ASSUME NEW s \in Sessions, Effect(s)
      PROVE  OwnInv'
  <2>1. Kept /\ task' = task /\ request' = request /\ edited' = edited /\ Asked' = Asked
    BY <1>1, EffectKept DEF Effect, Asked
  <2>2. From(s, {"check", "apply", "prepare"}) =>
          \A f \in Fields : Whole(s).fields[f] =
            IF f = "deadline" THEN task.fields[f] ELSE attempts[s].rows.fields[f]
    BY SeenParts DEF From, Whole, PlanInv, PlanAt
  <2>3. clashed' \subseteq edited \cap Asked
    <3>1. CASE Refuses(s)
      <4>1. op.state \in Planned /\ DOMAIN op.plan.after = Asked
        BY <3>1, CommittedFacts DEF Refuses, From, GoodPlan
      <4>2. ASSUME NEW f \in Clashes(op.plan, Whole(s)), f \notin edited
            PROVE  FALSE
        <5>1. f \in Asked /\ Whole(s).fields[f] \notin {op.plan.before[f], op.plan.after[f]}
          BY <4>1 DEF Clashes, Unmet
        <5>2. task.fields[f] \in {op.plan.before[f], op.plan.after[f]} /\ OwnAt(s, f)
          BY <1>c, <4>1, <4>2, <5>1
        <5>3. From(s, {"check", "apply"}) /\ From(s, {"check", "apply", "prepare"})
          BY <3>1 DEF Refuses, From
        <5> QED
          BY <1>a, <2>2, <5>1, <5>2, <5>3 DEF OwnAt
      <4>3. Clashes(op.plan, Whole(s)) \subseteq Asked
        BY <4>1 DEF Clashes, Unmet
      <4> QED
        BY <1>c, <3>1, <4>2, <4>3 DEF Refuses
    <3>2. CASE ~Refuses(s)
      BY <1>1, <1>c, <3>2 DEF Effect, Idles, Looks, Plans, Records, Dispatches, Accepts, Writes,
        Finds, Finishes, Apart
    <3> QED
      BY <3>1, <3>2
  <2>4. ASSUME NEW f \in Asked \ edited, op'.state \in Planned
        PROVE  task.fields[f] \in {op'.plan.before[f], op'.plan.after[f]}
    <3>1. CASE op.state \in Planned
      BY <1>c, <2>1, <3>1 DEF Kept
    <3>2. CASE op.state \notin Planned
      <4>1. Records(s)
        BY <1>1, <2>4, <3>2 DEF Effect, Idles, Looks, Plans, Dispatches, Refuses, Accepts, Writes,
          Finds, Finishes, Planned
      <4> QED
        BY <1>c, <3>2, <4>1 DEF Records, OwnAt
    <3> QED
      BY <3>1, <3>2
  <2>5. ASSUME NEW f \in Asked \ edited, NEW r \in Sessions
        PROVE  OwnAt(r, f)'
    <3>1. CASE r # s
      <4>1. attempts'[r] = attempts[r]
        BY <1>1, <3>1 DEF Effect, Others
      <4> QED
        BY <1>c, <2>1, <4>1, OwnAtStays
    <3>2. CASE r = s /\ Looks(s)
      <4>1. attempts'[s].rows.fields[f] = task.fields[f] /\ op' = op /\ attempts'[s].pc = attempts[s].pc
        BY <3>2, RowsNow DEF Looks, ShapeInv
      <4>2. attempts'[s].pc \in {"check", "apply"} => op.state \in Planned
        BY <4>1, Committed
      <4>3. attempts'[s].pc # "record"
        BY <3>2 DEF Looks, Reading
      <4> QED
        BY <1>c, <2>1, <3>2, <4>1, <4>2, <4>3 DEF OwnAt, From, At
    <3>3. CASE r = s /\ Plans(s)
      <4>1. PICK plan : plan = Plan(Whole(s))
        OBVIOUS
      <4>2. plan.before[f] = Whole(s).fields[f]
        BY <4>1 DEF Plan, Asked
      <4>3. op.state \notin Planned => plan.before[f] = task.fields[f]
        <5>1. From(s, {"prepare"}) /\ From(s, {"check", "apply", "prepare"}) /\ OwnAt(s, f)
          BY <1>c, <3>3 DEF Plans, From
        <5> QED
          BY <1>a, <2>2, <4>2, <5>1 DEF OwnAt
      <4>4. attempts'[s].plan = plan /\ attempts'[s].pc = "record" /\ op' = op
        BY <3>3, <4>1 DEF Plans, To
      <4> QED
        BY <2>1, <3>3, <4>3, <4>4 DEF OwnAt, From, At
    <3>4. CASE r = s /\ ~Looks(s) /\ ~Plans(s)
      <4>1. attempts'[s].half = "rows" /\ attempts'[s].pc # "record"
        BY <1>1, <3>4 DEF Effect, Idles, Records, Dispatches, Refuses, Accepts, Writes, Finds,
          Finishes, To
      <4> QED
        BY <3>4, <4>1 DEF OwnAt, From, At
    <3> QED
      BY <3>1, <3>2, <3>3, <3>4
  <2> QED
    BY <1>b, <2>1, <2>3, <2>4, <2>5
<1>2. ASSUME NEW parts, Disturbs(parts)
      PROVE  OwnInv'
  <2>1. /\ op' = op /\ request' = request /\ clashed' = clashed /\ Asked' = Asked /\ SamePlaces
        /\ edited' = edited \cup parts
        /\ \A f \in Asked \ edited' : f \in Asked \ edited /\ task'.fields[f] = task.fields[f]
    BY <1>a, <1>2 DEF Disturbs, Asked
  <2>2. Kept
    BY <1>2, DisturbsKept
  <2>3. \A f \in Asked \ edited', s \in Sessions : OwnAt(s, f)'
    BY <1>c, <2>1, <2>2, OwnAtStays DEF SamePlaces
  <2> QED
    BY <1>b, <1>c, <2>1, <2>3
<1>3. ASSUME NEW w \in flying, NEW done \in SUBSET (DOMAIN w.fields), Carries(w, done)
      PROVE  OwnInv'
  <2>1. /\ op' = op /\ request' = request /\ clashed' = clashed /\ edited' = edited
        /\ Asked' = Asked /\ SamePlaces /\ Kept
    BY <1>3 DEF Carries, Asked, Kept
  <2>2. op.state \in Planned /\ GoodWrite(w) /\ GoodPlan(op.plan)
    BY Committed DEF PlanInv
  <2>3. ASSUME NEW f \in Asked \ edited
        PROVE  task'.fields[f] \in {op.plan.before[f], op.plan.after[f]}
    <3>1. CASE f \notin done
      BY <1>3, <1>a, <1>c, <2>2, <3>1 DEF Carries
    <3>2. CASE f \in done /\ f # "checklist"
      BY <1>3, <1>a, <2>2, <3>2 DEF Carries, GoodWrite
    <3>3. CASE f \in done /\ f = "checklist"
      <4>1. f \in DOMAIN w.fields \ w.touched
        BY <2>2, <3>3 DEF GoodWrite
      <4>2. task.fields[f] = op.plan.before[f]
        BY <3>3, <4>1 DEF ValueInv, Expected
      <4>3. task'.fields[f] = task.fields[f] \o request.set[f]
        BY <1>3, <1>a, <2>2, <3>3, <4>1 DEF Carries, GoodWrite
      <4>4. op.plan.after[f] = op.plan.before[f] \o request.set[f]
        BY <2>2, <3>3 DEF GoodPlan, Wanted
      <4> QED
        BY <4>2, <4>3, <4>4
    <3> QED
      BY <3>1, <3>2, <3>3
  <2>4. \A f \in Asked \ edited, s \in Sessions : OwnAt(s, f)'
    BY <1>c, <2>1, <2>2, OwnAtStays DEF SamePlaces
  <2> QED
    BY <1>b, <1>c, <2>1, <2>3, <2>4
<1>4. CASE UNCHANGED updateVars
  <2>1. op' = op /\ UNCHANGED <<request, task, attempts, clashed, edited>> /\ Asked' = Asked
    BY <1>4, StutterOp DEF updateVars, Asked
  <2> QED
    BY <2>1 DEF OwnInv, At
<1> QED
  BY <1>1, <1>2, <1>3, <1>4

-----------------------------------------------------------------------------
(* What has been seen has been so                                          *)

MetAt(s) ==
  From(s, {"check", "apply", "verify"}) =>
    /\ \A f \in Asked \ {"deadline"} : attempts[s].rows.fields[f] = op.plan.after[f] => f \in met
    /\ \/ "schedule" \in edited \cup met
       \/ attempts[s].rows.start = task.start /\ attempts[s].rows.bucket = task.bucket

\* What stands as requested has been noted.
LEMMA NotedNow ==
  ASSUME UpdateAssumption, ShapeInv, PlanInv, MetNow \subseteq met, op.state \in Planned
  PROVE  /\ \A f \in Asked : task.fields[f] = op.plan.after[f] => f \in met
         /\ ScheduleMet(op.plan, Now) => "schedule" \in met
<1>1. DOMAIN op.plan.after = Asked /\ Asked \subseteq Fields
  BY DEF PlanInv, GoodPlan, ShapeInv, UpdateAssumption, Asked
<1>2. \A f \in Fields : Now.fields[f] = task.fields[f]
  BY RowsNow, SeenParts DEF Now, ShapeInv
<1>3. MetNow = (Asked \ Unmet(op.plan, Now))
                 \cup (IF ScheduleMet(op.plan, Now) THEN {"schedule"} ELSE {})
  BY <1>1 DEF MetNow, Journal!Planned, Planned, Journal!Settled
<1> QED
  BY <1>1, <1>2, <1>3 DEF Unmet

\* The schedule is met, or not, by what ScheduleMet looks at.
LEMMA SameSchedule ==
  ASSUME NEW plan, NEW seen, NEW other,
         seen.schedule.start = other.schedule.start, seen.schedule.bucket = other.schedule.bucket,
         seen.schedule.date = other.schedule.date, seen.schedule.member = other.schedule.member,
         seen.fields["deadline"] = other.fields["deadline"],
         ScheduleMet(plan, seen)
  PROVE  ScheduleMet(plan, other)
BY DEF ScheduleMet, ScheduleUpdateMatches

\* A write that moves the to-do moves it to where it is to be.
LEMMA MovedIsMet ==
  ASSUME UpdateAssumption, ShapeInv, GoodPlan(op.plan), NEW w, GoodWrite(w),
         w.when \in Moves \ {"keep"},
         NEW t, IsTask(t), task' = Scheduled(t, w), "schedule" \notin edited,
         op' = op, UNCHANGED <<request, today>>
  PROVE  ScheduleMet(op.plan, Now)'
<1>1. /\ Now'.schedule.start = task'.start /\ Now'.schedule.bucket = task'.bucket
      /\ Now'.schedule.date = task'.date /\ Now'.fields["deadline"] = task'.fields["deadline"]
      /\ Now'.schedule.member = (NeedsTodayMembership(request.when, task'.date) /\ InToday(task)')
  <2>1. task'.fields = [f \in Fields |-> task'.fields[f]]
    BY ScheduledFields DEF IsTask
  <2> QED
    BY <2>1 DEF Now, Seen, Rows, Fields, NeedsTodayMembership
<1>2. op.plan.when = request.when /\ w.day = op.plan.day
      /\ (request.when \in {"today", "evening"} => op.plan.day = today)
  BY DEF GoodPlan, GoodWrite
<1>3. today \in Nat
  BY DEF ShapeInv, UpdateAssumption
<1>4. CASE request.when = "anytime" /\ w.when = "clear"
  <2>1. task'.start = 1 /\ task'.date = 0 /\ ~task'.pinned
    BY <1>4, ScheduledFields
  <2>2. InToday(task)' => Due(task.fields["deadline"])'
    BY <2>1 DEF InToday, Due
  <2> QED
    BY <1>1, <1>2, <1>4, <2>1, <2>2 DEF ScheduleMet, ScheduleUpdateMatches
<1>5. CASE request.when = "someday" /\ w.when = "someday"
  <2>1. task'.start = 2 /\ task'.date = 0
    BY <1>5, ScheduledFields
  <2> QED
    BY <1>1, <1>2, <1>5, <2>1 DEF ScheduleMet, ScheduleUpdateMatches
<1>6. CASE request.when = "evening" /\ w.when = "evening"
  <2>1. task'.start = 1 /\ task'.date = today /\ task'.bucket = 1
    BY <1>6, ScheduledFields
  <2> QED
    BY <1>1, <1>2, <1>6, <2>1 DEF ScheduleMet, ScheduleUpdateMatches
<1>7. CASE request.when = "today" /\ w.when = "day"
  <2>1. task'.start = 1 /\ task'.date = today /\ task'.bucket = 0
    BY <1>2, <1>3, <1>7, ScheduledFields
  <2> QED
    BY <1>1, <1>2, <1>7, <2>1 DEF ScheduleMet, ScheduleUpdateMatches
<1>8. CASE request.when = "date" /\ w.when = "day"
  <2>1. task'.date = w.day
    BY <1>8, ScheduledFields
  <2> QED
    BY <1>1, <1>2, <1>8, <2>1 DEF ScheduleMet, ScheduleUpdateMatches
<1> QED
  BY <1>4, <1>5, <1>6, <1>7, <1>8 DEF GoodWrite

LEMMA MetAtStays ==
  ASSUME PlanInv, NEW s \in Sessions, MetAt(s), Place(attempts'[s]) = Place(attempts[s]),
         Kept, Later, met \subseteq met',
         "schedule" \in edited' \cup met' \/ (task'.start = task.start /\ task'.bucket = task.bucket)
  PROVE  MetAt(s)'
<1>1. /\ attempts'[s].pc = attempts[s].pc /\ attempts'[s].half = attempts[s].half
      /\ attempts'[s].rows = attempts[s].rows
  BY SamePlaceParts
<1>2. From(s, {"check", "apply", "verify"}) => op'.plan = op.plan
  BY Committed DEF From, Kept
<1> QED
  BY <1>1, <1>2 DEF MetAt, From, Later, Asked

LEMMA MetStep ==
  ASSUME UpdateAssumption, ShapeInv, PlanInv, MetInv, ShapeInv', PlanInv', Steps,
         met' = met \cup MetNow'
  PROVE  MetInv'
<1> USE DEF Steps
<1>a. Later /\ Kept
  BY EffectKept, DisturbsKept, StutterOp DEF Carries, updateVars, Later, Kept
<1>b. MetNow' \subseteq met' /\ met \subseteq met' /\ (AllMet => AllMet')
  BY <1>a DEF AllMet, Later, Asked
<1>c. Asked' = Asked
  BY <1>a DEF Later, Asked
<1>d. met' \subseteq Asked' \cup {"schedule"}
  <2>1. op'.state \in Planned => DOMAIN op'.plan.after = Asked'
    BY DEF PlanInv, GoodPlan
  <2>2. MetNow' \subseteq Asked' \cup {"schedule"}
    BY <2>1 DEF MetNow, Journal!Planned, Planned, Journal!Settled
  <2> QED
    BY <1>c, <2>2 DEF MetInv
<1>e. /\ op.state \in Settled => AllMet
      /\ \A s \in Sessions : MetAt(s) /\ (At(s, "finish") => AllMet)
  BY DEF MetInv, MetAt, From
<1>f. ASSUME op'.state \in Settled => AllMet',
             \A s \in Sessions : MetAt(s)' /\ (At(s, "finish")' => AllMet')
      PROVE  MetInv'
  BY <1>b, <1>d, <1>f DEF MetInv, MetAt, From
<1>g. ASSUME NEW s \in Sessions, Place(attempts'[s]) = Place(attempts[s]),
             "schedule" \in edited' \cup met' \/ (task'.start = task.start /\ task'.bucket = task.bucket)
      PROVE  MetAt(s)' /\ (At(s, "finish")' => AllMet')
  BY <1>a, <1>b, <1>e, <1>g, MetAtStays, SamePlaceParts DEF At
<1>1. ASSUME NEW s \in Sessions, Effect(s)
      PROVE  MetInv'
  <2>1. task' = task /\ edited' = edited
    BY <1>1 DEF Effect
  <2>2. ASSUME NEW r \in Sessions \ {s}
        PROVE  MetAt(r)' /\ (At(r, "finish")' => AllMet')
    <3>1. attempts'[r] = attempts[r]
      BY <1>1 DEF Effect, Others
    <3> QED
      BY <1>g, <2>1, <3>1
  <2>3. MetAt(s)'
    <3>1. CASE Looks(s)
      <4>1. /\ attempts'[s].pc = attempts[s].pc /\ op' = op
            /\ attempts'[s].rows.fields = task.fields
            /\ attempts'[s].rows.start = task.start /\ attempts'[s].rows.bucket = task.bucket
        BY <3>1, RowsNow DEF Looks, ShapeInv
      <4>2. From(s, {"check", "apply", "verify"})' => op.state \in Planned
        BY <4>1, Committed DEF From
      <4>3. op.state \in Planned =>
              \A f \in Asked : task.fields[f] = op.plan.after[f] => f \in met
        BY NotedNow DEF MetInv
      <4> QED
        BY <1>b, <1>c, <2>1, <4>1, <4>2, <4>3 DEF MetAt, From
    <3>2. CASE ~Looks(s)
      BY <1>1, <3>2 DEF Effect, Idles, Plans, Records, Dispatches, Refuses, Accepts, Writes, Finds,
        Finishes, To, From, MetAt
    <3> QED
      BY <3>1, <3>2
  <2>4. At(s, "finish")' => AllMet'
    <3>1. CASE Finds(s)
      <4>1. From(s, {"check", "apply", "verify"}) /\ Done(op.plan, Whole(s))
        BY <3>1 DEF Finds
      <4>2. op.state \in Planned /\ DOMAIN op.plan.after = Asked /\ Asked \subseteq Fields
        BY <4>1, CommittedFacts DEF From, GoodPlan, ShapeInv, UpdateAssumption, Asked
      <4>3. /\ \A f \in Fields : Whole(s).fields[f] =
                  IF f = "deadline" THEN task.fields[f] ELSE attempts[s].rows.fields[f]
            /\ Whole(s).schedule.start = attempts[s].rows.start
            /\ Whole(s).schedule.bucket = attempts[s].rows.bucket
            /\ Whole(s).schedule.date = task.date
            /\ Whole(s).schedule.member =
                 (NeedsTodayMembership(request.when, task.date) /\ InToday(task))
        BY <4>1, SeenParts DEF From, Whole, PlanInv, PlanAt
      <4>4. /\ \A f \in Asked : task.fields[f] = op.plan.after[f] => f \in met
            /\ ScheduleMet(op.plan, Now) => "schedule" \in met
        BY <4>2, NotedNow DEF MetInv
      <4>5. Asked \subseteq met
        BY <1>e, <4>1, <4>2, <4>3, <4>4 DEF Done, Unmet, MetAt
      <4>6. "schedule" \in edited \cup met
        <5>1. SUFFICES ASSUME attempts[s].rows.start = task.start,
                              attempts[s].rows.bucket = task.bucket
                       PROVE  "schedule" \in met
          BY <1>e, <4>1 DEF MetAt
        <5>2. /\ Now.schedule.start = task.start /\ Now.schedule.bucket = task.bucket
              /\ Now.schedule.date = task.date /\ Now.fields["deadline"] = task.fields["deadline"]
              /\ Now.schedule.member =
                   (NeedsTodayMembership(request.when, task.date) /\ InToday(task))
          BY RowsNow, SeenParts DEF Now, ShapeInv, Fields
        <5>3. PICK seen, other : seen = Whole(s) /\ other = Now
          OBVIOUS
        <5>4. ScheduleMet(op.plan, other)
          <6>1. ScheduleMet(op.plan, seen)
            BY <4>1, <5>3 DEF Done
          <6>2. seen.fields["deadline"] = task.fields["deadline"]
            BY <4>3, <5>3 DEF Fields
          <6> QED
            BY <4>3, <5>1, <5>2, <5>3, <6>1, <6>2, SameSchedule
        <5> QED
          BY <4>4, <5>3, <5>4
      <4> QED
        BY <1>b, <4>5, <4>6 DEF AllMet
    <3>2. CASE ~Finds(s)
      <4>1. At(s, "finish")' => FALSE
        BY <1>1, <3>2 DEF Effect, Idles, Looks, Plans, Records, Dispatches, Refuses, Accepts, Writes,
          Finishes, To, At, Reading
      <4> QED
        BY <4>1
    <3> QED
      BY <3>1, <3>2
  <2>5. op'.state \in Settled => AllMet'
    <3>1. CASE Finishes(s)
      BY <1>b, <1>e, <3>1 DEF Finishes
    <3>2. CASE ~Finishes(s)
      BY <1>1, <1>b, <1>e, <3>2 DEF Effect, Idles, Looks, Plans, Records, Dispatches, Refuses,
        Accepts, Writes, Finds, Settled
    <3> QED
      BY <3>1, <3>2
  <2> QED
    BY <1>f, <2>2, <2>3, <2>4, <2>5
<1>2. ASSUME NEW parts, Disturbs(parts)
      PROVE  MetInv'
  <2>1. op' = op /\ SamePlaces
        /\ ("schedule" \in edited' \/ (task'.start = task.start /\ task'.bucket = task.bucket))
    BY <1>2 DEF Disturbs
  <2> QED
    BY <1>b, <1>e, <1>f, <1>g, <2>1 DEF SamePlaces
<1>3. ASSUME NEW w \in flying, NEW done \in SUBSET (DOMAIN w.fields), Carries(w, done)
      PROVE  MetInv'
  <2>1. op' = op /\ SamePlaces /\ request' = request /\ today' = today /\ edited' = edited
    BY <1>3 DEF Carries
  <2>2. "schedule" \in edited' \cup met' \/ (task'.start = task.start /\ task'.bucket = task.bucket)
    <3>1. SUFFICES ASSUME "schedule" \notin edited, w.when # "keep",
                          \E t : IsTask(t) /\ task' = Scheduled(t, w)
                   PROVE  "schedule" \in met'
      BY <1>3, <2>1 DEF Carries, Moved
    <3>2. PICK t : IsTask(t) /\ task' = Scheduled(t, w)
      BY <3>1
    <3>3. GoodWrite(w) /\ w.when \in Moves \ {"keep"} /\ op.state \in Planned
      BY <3>1, Committed DEF ShapeInv, IsWrite
    <3>4. ScheduleMet(op.plan, Now)'
      BY <2>1, <3>1, <3>2, <3>3, MovedIsMet DEF PlanInv
    <3>5. "schedule" \in MetNow'
      BY <2>1, <3>3, <3>4 DEF MetNow, Journal!Planned, Planned, Journal!Settled
    <3> QED
      BY <1>b, <3>5
  <2> QED
    BY <1>b, <1>e, <1>f, <1>g, <2>1, <2>2 DEF SamePlaces
<1>4. CASE UNCHANGED updateVars
  <2>1. op' = op /\ SamePlaces /\ task' = task
    BY <1>4, StutterOp DEF updateVars, SamePlaces
  <2> QED
    BY <1>b, <1>e, <1>f, <1>g, <2>1 DEF SamePlaces
<1> QED
  BY <1>1, <1>2, <1>3, <1>4

-----------------------------------------------------------------------------
(* What is appended is there once                                          *)

LEMMA AppendedLine ==
  ASSUME NEW v, NEW u, NEW line, Lacks(v, line), HasOnce(u, line)
  PROVE  HasOnce(v \o u, line)
<1> DEFINE A == {v[i] : i \in DOMAIN v}
           B == {u[i] : i \in DOMAIN u}
<1>1. v \in Seq(A) /\ u \in Seq(B)
  BY DEF Lacks, HasOnce, Text
<1>2. PICK S : v \in Seq(S) /\ u \in Seq(S)
  <2>1. v \in Seq(A \cup B) /\ u \in Seq(A \cup B)
    <3> HIDE DEF A, B
    <3> QED
      BY <1>1
  <2> QED
    BY <2>1
<1>3. /\ v \o u \in Seq(S) /\ Len(v \o u) = Len(v) + Len(u)
      /\ Len(v) \in Nat /\ Len(u) \in Nat /\ DOMAIN v = 1 .. Len(v) /\ DOMAIN u = 1 .. Len(u)
      /\ DOMAIN (v \o u) = 1 .. Len(v) + Len(u)
  BY <1>2
<1>4. \A i \in DOMAIN (v \o u) : (v \o u)[i] = IF i <= Len(v) THEN v[i] ELSE u[i - Len(v)]
  BY <1>2, <1>3
<1>5. Text(v \o u)
  <2>1. PICK x : x = v \o u
    OBVIOUS
  <2>2. x \in Seq(S) /\ Len(x) \in Nat /\ DOMAIN x = 1 .. Len(x)
    BY <1>3, <2>1
  <2> DEFINE C == {x[i] : i \in DOMAIN x}
  <2>3. \A i \in 1 .. Len(x) : x[i] \in C
    BY <2>2
  <2>4. x = [i \in 1 .. Len(x) |-> x[i]]
    BY <2>2
  <2> HIDE DEF C
  <2>5. x \in Seq(C)
    BY <2>2, <2>3, <2>4
  <2> QED
    BY <2>1, <2>5 DEF Text, C
<1>6. ASSUME NEW i \in DOMAIN (v \o u), NEW j \in DOMAIN (v \o u),
             (v \o u)[i] = line, (v \o u)[j] = line
      PROVE  i = j
  <2>1. i > Len(v) /\ j > Len(v)
    BY <1>3, <1>4, <1>6 DEF Lacks
  <2>2. i - Len(v) \in DOMAIN u /\ j - Len(v) \in DOMAIN u
    BY <1>3, <2>1
  <2>3. u[i - Len(v)] = line /\ u[j - Len(v)] = line
    BY <1>3, <1>4, <1>6, <2>1
  <2>4. i - Len(v) = j - Len(v)
    BY <2>2, <2>3 DEF HasOnce
  <2> QED
    BY <1>3, <2>4
<1> QED
  BY <1>5, <1>6 DEF HasOnce

LEMMA LacksHasOnce ==
  ASSUME NEW v, NEW line, Lacks(v, line)
  PROVE  HasOnce(v, line)
BY DEF Lacks, HasOnce

LineAt(s, f) ==
  /\ At(s, "record") => Clean(f, attempts[s].plan.before[f])
  /\ From(s, {"prepare"}) => Clean(f, attempts[s].rows.fields[f])

Unwritten(f) ==
  \/ Clean(f, task.fields[f])
  \/ (\A s \in Sessions : ~Writing(s)) /\ \A w \in flying : ~Appends(w)

LineOf(f) ==
  /\ Once(f, task.fields[f])
  /\ op.state \in Planned => Clean(f, op.plan.before[f])
  /\ op.state \notin Sent => Clean(f, task.fields[f])
  /\ f = "checklist" => Unwritten(f)
  /\ op.state \notin Planned => \A s \in Sessions : LineAt(s, f)

LEMMA LineParts ==
  LineInv <=> \A f \in {"notes", "checklist"} \cap Asked : LineOf(f)
BY DEF LineInv, LineOf, LineAt, Unwritten, From, At

LEMMA LineAtStays ==
  ASSUME NEW s \in Sessions, NEW f, LineAt(s, f), Place(attempts'[s]) = Place(attempts[s]),
         request' = request
  PROVE  LineAt(s, f)'
<1>1. /\ attempts'[s].pc = attempts[s].pc /\ attempts'[s].half = attempts[s].half
      /\ attempts'[s].plan = attempts[s].plan /\ attempts'[s].rows = attempts[s].rows
  BY SamePlaceParts
<1> QED
  BY <1>1 DEF LineAt, Clean, From, At

LEMMA LineEffect ==
  ASSUME ShapeInv, PlanInv, NEW f \in {"notes", "checklist"} \cap Asked, LineOf(f),
         NEW s \in Sessions, Effect(s)
  PROVE  LineOf(f)'
<1>1. /\ Kept /\ task' = task /\ request' = request
      /\ \A r \in Sessions \ {s} : attempts'[r] = attempts[r]
  BY EffectKept DEF Effect, Others
<1>2. \A v : Clean(f, v)' = Clean(f, v) /\ Once(f, v)' = Once(f, v)
  BY <1>1 DEF Clean, Once
<1>3. Once(f, task.fields[f])'
  BY <1>1 DEF LineOf, Once
<1>4. op'.state \in Planned => Clean(f, op.plan.before[f])'
  <2>1. CASE op.state \in Planned
    BY <1>1, <2>1 DEF Kept, LineOf, Clean
  <2>2. CASE op.state \notin Planned /\ op'.state \in Planned
    <3>1. Records(s)
      BY <2>2, Committed DEF Effect, Idles, Looks, Plans, Dispatches, Refuses, Accepts, Writes,
        Finds, Finishes, Apart, Planned
    <3> QED
      BY <1>1, <2>2, <3>1 DEF Records, LineOf, LineAt, Clean
  <2> QED
    BY <2>1, <2>2
<1>5. op'.state \notin Sent => Clean(f, task.fields[f])'
  BY <1>1 DEF Kept, LineOf, Clean
<1>6. ASSUME f = "checklist"
      PROVE  Unwritten(f)'
  <2>1. CASE Clean(f, task.fields[f])
    BY <1>1, <2>1 DEF Unwritten, Clean
  <2>2. CASE ~Clean(f, task.fields[f])
    <3>1. op.state \in Sent /\ ~ReplaySafe
      BY <1>6, <2>2 DEF LineOf, ReplaySafe, Asked
    <3>2. (\A r \in Sessions : ~Writing(r)) /\ \A w \in flying : ~Appends(w)
      BY <1>6, <2>2 DEF LineOf, Unwritten
    <3>3. flying' = flying /\ ~Writing(s)'
      BY <3>1, <3>2 DEF Effect, Idles, Looks, Plans, Records, Dispatches, Refuses, Accepts, Writes,
        Finds, Finishes, Apart, To, From, At, Writing, Sent
    <3>4. \A r \in Sessions \ {s} : ~Writing(r)'
      BY <1>1, <3>2 DEF Writing
    <3> QED
      BY <3>2, <3>3, <3>4 DEF Unwritten
  <2> QED
    BY <2>1, <2>2
<1>7. ASSUME op'.state \notin Planned
      PROVE  \A r \in Sessions : LineAt(r, f)'
  <2>1. op.state \notin Planned /\ op.state \notin Sent
    BY <1>1, <1>7 DEF Kept, Planned, Sent
  <2>2. \A r \in Sessions : LineAt(r, f)
    BY <2>1 DEF LineOf
  <2>3. ASSUME NEW r \in Sessions \ {s}
        PROVE  LineAt(r, f)'
    BY <1>1, <2>2, <2>3, LineAtStays
  <2>4. CASE Looks(s)
    <3>1. attempts'[s].rows.fields = task.fields /\ attempts'[s].pc \in Reading
      BY <2>4, RowsNow DEF Looks, ShapeInv
    <3>2. Clean(f, task.fields[f])
      BY <2>1 DEF LineOf
    <3> QED
      BY <1>1, <2>3, <3>1, <3>2 DEF LineAt, Clean, At, Reading
  <2>5. CASE Plans(s)
    <3>1. From(s, {"prepare"}) /\ attempts'[s].plan = Plan(Whole(s)) /\ To(s, "record")
      BY <2>5 DEF Plans
    <3>2. IsRows(attempts[s].rows) /\ f \in Fields /\ f # "deadline"
      BY <3>1 DEF PlanInv, PlanAt, From, Fields
    <3>3. Whole(s).fields[f] = attempts[s].rows.fields[f]
      BY <3>2, SeenParts DEF Whole
    <3>4. PICK seen : seen = Whole(s)
      OBVIOUS
    <3>5. attempts'[s].plan.before[f] = seen.fields[f]
      BY <3>1, <3>4 DEF Plan, Asked
    <3>6. Clean(f, attempts[s].rows.fields[f])
      BY <2>2, <3>1 DEF LineAt
    <3>7. attempts'[s].pc = "record"
      BY <3>1 DEF To
    <3>8. PICK v : v = attempts'[s].plan.before[f]
      OBVIOUS
    <3>9. Clean(f, v)'
      BY <1>2, <3>3, <3>4, <3>5, <3>6, <3>8
    <3>10. LineAt(s, f)'
      BY <3>7, <3>8, <3>9 DEF LineAt, At, From, Clean
    <3> QED
      BY <2>3, <3>10
  <2>6. CASE ~Looks(s) /\ ~Plans(s)
    <3>1. attempts'[s].pc # "record" /\ attempts'[s].half = "rows"
      BY <2>6 DEF Effect, Idles, Records, Dispatches, Refuses, Accepts, Writes, Finds, Finishes, To
    <3>2. LineAt(s, f)'
      BY <3>1 DEF LineAt, At, From
    <3> QED
      BY <2>3, <3>2
  <2> QED
    BY <2>4, <2>5, <2>6
<1> QED
  BY <1>3, <1>4, <1>5, <1>6, <1>7 DEF LineOf

LEMMA LineDisturbs ==
  ASSUME FreshLines, ShapeInv, PlanInv, NEW f \in {"notes", "checklist"} \cap Asked, LineOf(f),
         NEW parts, Disturbs(parts)
  PROVE  LineOf(f)'
<1>1. request' = request /\ op' = op /\ SamePlaces
  BY DEF Disturbs
<1>2. task'.fields[f] = task.fields[f] \/ Clean(f, task'.fields[f])
  <2>1. task'.fields[f] \in {task.fields[f]} \cup Edits[f]
    BY DEF Disturbs, Fields
  <2>2. \A v \in Edits[f] : Clean(f, v)
    BY DEF FreshLines, AppendsFresh, ShapeInv, Clean, Asked
  <2> QED
    BY <2>1, <2>2
<1>3. \A r \in Sessions : Writing(r)' => Writing(r)
  BY <1>1, SamePlaceParts DEF SamePlaces, Writing
<1>4. (\A w \in flying : ~Appends(w)) => \A w \in flying' : ~Appends(w)
  BY DEF Disturbs, Rest, Appends
<1>5. PICK v : v = task'.fields[f]
  OBVIOUS
<1>6. Once(f, v) /\ (op.state \notin Sent => Clean(f, v))
  BY <1>2, <1>5, LacksHasOnce DEF LineOf, Clean, Once
<1>7. ASSUME f = "checklist"
      PROVE  Unwritten(f)'
  BY <1>1, <1>2, <1>3, <1>4, <1>7 DEF LineOf, Unwritten, Clean
<1>8. op.state \notin Planned => \A s \in Sessions : LineAt(s, f)'
  BY <1>1, LineAtStays DEF LineOf, SamePlaces
<1> QED
  BY <1>1, <1>5, <1>6, <1>7, <1>8 DEF LineOf, Clean, Once

LEMMA LineCarries ==
  ASSUME FreshLines, ShapeInv, PlanInv, WriterInv,
         NEW f \in {"notes", "checklist"} \cap Asked, LineOf(f),
         NEW w \in flying, NEW done \in SUBSET (DOMAIN w.fields), Carries(w, done)
  PROVE  LineOf(f)'
<1>1. request' = request /\ op' = op /\ SamePlaces
  BY DEF Carries
<1>2. op.state \in Sent /\ op.state \in Planned /\ GoodWrite(w) /\ GoodPlan(op.plan)
  BY Committed DEF PlanInv
<1>3. Clean(f, op.plan.before[f])
  BY <1>2 DEF LineOf
<1>4. HasOnce(request.set[f], request.set[f][1])
  BY DEF FreshLines, AppendsFresh, ShapeInv, Asked
<1>5. f \notin done => task'.fields[f] = task.fields[f]
  BY DEF Carries, Fields
<1>6. \A r \in Sessions : Writing(r)' => Writing(r)
  BY <1>1, SamePlaceParts DEF SamePlaces, Writing
<1>7. flying' \subseteq (flying \ {w}) \cup {Left(w, done)}
  BY DEF Carries
<1>8. Once(f, task'.fields[f])
  <2>1. CASE f \notin done
    BY <1>5, <2>1 DEF LineOf
  <2>2. CASE f = "notes" /\ f \in done
    <3>1. task'.fields[f] = w.fields[f] /\ w.fields[f] = op.plan.after[f]
      BY <1>2, <2>2 DEF Carries, GoodWrite, Fields
    <3>2. op.plan.after[f] = op.plan.before[f] \o request.set[f]
      BY <1>2, <2>2 DEF GoodPlan, Wanted
    <3> QED
      BY <1>3, <1>4, <3>1, <3>2, AppendedLine DEF Once, Clean
  <2>3. CASE f = "checklist" /\ f \in done
    <3>1. Clean(f, task.fields[f])
      BY <2>3 DEF LineOf, Unwritten, Appends
    <3>2. task'.fields[f] = task.fields[f] \o w.fields[f] /\ w.fields[f] = request.set[f]
      BY <1>2, <2>3 DEF Carries, GoodWrite, Fields
    <3> QED
      BY <1>4, <3>1, <3>2, AppendedLine DEF Once, Clean
  <2> QED
    BY <2>1, <2>2, <2>3
<1>9. ASSUME f = "checklist"
      PROVE  Unwritten(f)'
  <2>1. CASE f \notin done
    <3>1. Appends(Left(w, done)) => Appends(w)
      BY DEF Left, Appends
    <3> QED
      BY <1>1, <1>5, <1>6, <1>7, <1>9, <2>1, <3>1 DEF LineOf, Unwritten, Clean
  <2>2. CASE f \in done
    <3>1. ~Appends(Left(w, done)) /\ Appends(w)
      BY <1>9, <2>2 DEF Left, Appends
    <3>2. (\A r \in Sessions : ~Writing(r)) /\ \A v \in flying \ {w} : ~Appends(v)
      BY <1>9, <3>1 DEF WriterInv
    <3> QED
      BY <1>6, <1>7, <3>1, <3>2 DEF Unwritten
  <2> QED
    BY <2>1, <2>2
<1>10. PICK v : v = task'.fields[f]
  OBVIOUS
<1> QED
  BY <1>1, <1>2, <1>3, <1>8, <1>9, <1>10 DEF LineOf, Clean, Once

LEMMA LineStep ==
  ASSUME FreshLines, ShapeInv, PlanInv, WriterInv, LineInv, Steps
  PROVE  LineInv'
<1>1. Asked' = Asked /\ \A f \in {"notes", "checklist"} \cap Asked : LineOf(f)
  BY LineParts DEF Steps, Effect, Disturbs, Carries, updateVars, Asked
<1>2. ASSUME NEW f \in {"notes", "checklist"} \cap Asked
      PROVE  LineOf(f)'
  <2>1. CASE UNCHANGED updateVars
    <3>1. op' = op /\ UNCHANGED <<request, task, attempts, flying>>
      BY <2>1, StutterOp DEF updateVars
    <3> QED
      BY <1>1, <3>1 DEF LineOf, LineAt, Unwritten, Clean, Once, From, At, Writing
  <2> QED
    BY <1>1, <2>1, LineEffect, LineDisturbs, LineCarries DEF Steps
<1> QED
  BY <1>1, <1>2 DEF LineInv, LineOf, LineAt, Unwritten, From, At

-----------------------------------------------------------------------------
(* Whose write it is                                                       *)

\* A call is one session's, and hands over one write, which it then verifies.
CallOf(s) ==
  /\ IF At(s, "idle") THEN attempts[s].call = 0 ELSE attempts[s].call \in 1 .. calls
  /\ attempts[s].landed => attempts[s].pc \in {"verify", "finish"}

Sender(s, w) ==
  attempts[s].call = w.call =>
    /\ attempts[s].pc \in {"verify", "finish"}
    /\ At(s, "verify") => attempts[s].touched = w.touched

CallsInv ==
  /\ calls \in Nat
  /\ \A s \in Sessions : CallOf(s)
  /\ \A s, r \in Sessions : ~At(s, "idle") /\ attempts[s].call = attempts[r].call => s = r
  /\ \A w \in flying : w.call \in 1 .. calls /\ \A s \in Sessions : Sender(s, w)

\* What a session's step comes to for its call.
Rests(s) == attempts'[s] = attempts[s] /\ calls' \in {calls, calls + 1}
Leaves(s) ==
  attempts'[s].pc = "idle" /\ attempts'[s].call = 0 /\ ~attempts'[s].landed /\ calls' = calls
Starts(s) ==
  /\ At(s, "idle") /\ attempts'[s].pc \in {"prepare", "dispatch", "check"}
  /\ calls' = calls + 1 /\ attempts'[s].call = calls + 1 /\ ~attempts'[s].landed
Continues(s) ==
  /\ ~At(s, "idle") /\ attempts'[s].pc # "idle"
  /\ calls' = calls /\ attempts'[s].call = attempts[s].call
  /\ attempts'[s].landed => attempts[s].landed
  /\ attempts[s].pc \in {"verify", "finish"} => attempts'[s].pc \in {"verify", "finish"}
  /\ attempts'[s].pc = "verify" =>
       attempts[s].pc \in {"send", "verify"} /\ attempts'[s].touched = attempts[s].touched

CallStep(s) ==
  /\ Others(s)
  /\ Rests(s) \/ Leaves(s) \/ Starts(s) \/ Continues(s)
  /\ \/ flying' = flying
     \/ /\ At(s, "send") /\ attempts'[s].pc = "verify"
        /\ flying' = flying \cup {Write(s, attempts[s].rows)}

LEMMA ReturnCall ==
  ASSUME ShapeInv, NEW s \in Sessions, Return(s), UNCHANGED <<calls, flying>>
  PROVE  CallStep(s)
BY ReturnAttempt DEF ShapeInv, CallStep, Leaves

LEMMA GotoCall ==
  ASSUME ShapeInv, NEW s \in Sessions, NEW pc \in Places \ {"idle"}, Goto(s, pc),
         UNCHANGED calls, ~At(s, "idle"),
         pc = "verify" => attempts[s].pc \in {"send", "verify"},
         attempts[s].pc \in {"verify", "finish"} => pc \in {"verify", "finish"},
         \/ flying' = flying
         \/ pc = "verify" /\ At(s, "send") /\ flying' = flying \cup {Write(s, attempts[s].rows)}
  PROVE  CallStep(s)
<1>1. /\ Others(s) /\ attempts'[s].pc = pc /\ attempts'[s].call = attempts[s].call
      /\ attempts'[s].landed = attempts[s].landed
      /\ attempts'[s].touched = IF pc = "verify" THEN attempts[s].touched ELSE {}
  BY GotoAttempt DEF ShapeInv
<1>2. Continues(s)
  BY <1>1 DEF Continues
<1> QED
  BY <1>1, <1>2 DEF CallStep

LEMMA BeginCall ==
  ASSUME ShapeInv, NEW s \in Sessions, Begin(s)
  PROVE  CallStep(s)
<1>1. At(s, "idle") /\ calls' = calls + 1 /\ flying' = flying
  BY DEF Begin
<1>2. CASE \E pc \in {"prepare", "dispatch", "check"}, plan \in {NoPlan, op.plan} : Enter(s, pc, plan)
  <2>1. PICK pc \in {"prepare", "dispatch", "check"} :
          \E plan \in {NoPlan, op.plan} : Enter(s, pc, plan)
    BY <1>2
  <2>2. PICK plan : Opens(s, pc, calls + 1, plan)
    BY <2>1 DEF Enter, Opens
  <2>3. pc \in Places
    BY DEF Places, Reading
  <2>4. PICK number : number = calls + 1
    OBVIOUS
  <2>5. /\ Others(s) /\ attempts'[s].pc = pc /\ attempts'[s].call = number
        /\ ~attempts'[s].landed
    BY <2>2, <2>3, <2>4, NewAttempt DEF ShapeInv
  <2> QED
    BY <1>1, <2>4, <2>5 DEF CallStep, Starts
<1>3. CASE UNCHANGED attempts
  BY <1>1, <1>3 DEF CallStep, Rests, Others
<1> QED
  BY <1>2, <1>3 DEF Begin

LEMMA ReadRowsCall ==
  ASSUME ShapeInv, NEW s \in Sessions, ReadRows(s)
  PROVE  CallStep(s)
<1>1. UNCHANGED <<calls, flying>> /\ attempts[s].pc \in Reading
  BY DEF ReadRows, counters
<1>2. CASE Return(s)
  BY <1>1, <1>2, ReturnCall
<1>3. CASE ~Return(s)
  <2>1. PICK touched, rows :
          /\ attempts' = [attempts EXCEPT ![s].half = "dates", ![s].rows = rows,
                             ![s].touched = touched]
          /\ At(s, "verify") => touched = attempts[s].touched
    <3>1. attempts' = [attempts EXCEPT ![s].half = "dates", ![s].rows = Rows,
                          ![s].touched = IF At(s, "verify") THEN @ ELSE {}]
      BY <1>3 DEF ReadRows
    <3>2. CASE At(s, "verify")
      BY <3>1, <3>2
    <3>3. CASE ~At(s, "verify")
      BY <3>1, <3>3
    <3> QED
      BY <3>2, <3>3
  <2>2. Reads(s, rows, touched)
    BY <2>1 DEF Reads
  <2>3. /\ Others(s) /\ attempts'[s].pc = attempts[s].pc
        /\ attempts'[s].call = attempts[s].call /\ attempts'[s].landed = attempts[s].landed
        /\ attempts'[s].touched = touched
    BY <1>1, <2>2, ReadAttempt DEF ShapeInv
  <2>4. Continues(s)
    BY <1>1, <2>1, <2>3 DEF Continues, At, Reading
  <2> QED
    BY <1>1, <2>3, <2>4 DEF CallStep
<1> QED
  BY <1>2, <1>3

LEMMA PrepareCall ==
  ASSUME ShapeInv, NEW s \in Sessions, Prepare(s)
  PROVE  CallStep(s)
<1>1. UNCHANGED <<calls, flying>> /\ At(s, "prepare")
  BY DEF Prepare, counters, ReadDates
<1>2. PICK plan, number : Opens(s, "record", number, plan) /\ number = attempts[s].call
  BY DEF Prepare, Opens
<1>3. /\ Others(s) /\ attempts'[s].pc = "record" /\ attempts'[s].call = number
      /\ ~attempts'[s].landed
  <2>1. "record" \in Places
    BY DEF Places
  <2> QED
    BY <1>2, <2>1, NewAttempt DEF ShapeInv
<1>4. Continues(s)
  BY <1>1, <1>2, <1>3 DEF Continues, At
<1> QED
  BY <1>1, <1>3, <1>4 DEF CallStep

LEMMA ApplyCall ==
  ASSUME ShapeInv, NEW s \in Sessions, Apply(s)
  PROVE  CallStep(s)
<1>1. UNCHANGED <<calls, flying>> /\ At(s, "apply")
  BY DEF Apply, counters, ReadDates
<1>2. CASE Return(s)
  BY <1>1, <1>2, ReturnCall
<1>3. CASE Goto(s, "finish")
  BY <1>1, <1>3, GotoCall DEF Places, At
<1>4. CASE Sends(s, Whole(s))
  <2>1. PICK rows : Sends(s, rows)
    BY <1>4
  <2>2. /\ Others(s) /\ attempts'[s].pc = "send"
        /\ attempts'[s].call = attempts[s].call /\ attempts'[s].landed = attempts[s].landed
    BY <2>1, SendAttempt DEF ShapeInv
  <2>3. Continues(s)
    BY <1>1, <2>2 DEF Continues, At
  <2> QED
    BY <1>1, <2>2, <2>3 DEF CallStep
<1> QED
  BY <1>2, <1>3, <1>4 DEF Apply, Refuse, Sends

LEMMA AttemptCall ==
  ASSUME ShapeInv, NEW s \in Sessions, Attempt(s)
  PROVE  CallStep(s)
<1> USE DEF At, Places, Reading
<1>1. CASE Record(s)
  <2>1. At(s, "record") /\ UNCHANGED <<calls, flying>> /\ (Goto(s, "dispatch") \/ Return(s))
    BY <1>1 DEF Record, counters
  <2> QED
    BY <2>1, ReturnCall, GotoCall
<1>2. CASE Dispatch(s)
  <2>1. At(s, "dispatch") /\ UNCHANGED <<calls, flying>> /\ (Goto(s, "apply") \/ Return(s))
    BY <1>2 DEF Dispatch, counters
  <2> QED
    BY <2>1, ReturnCall, GotoCall
<1>3. CASE Check(s)
  <2>1. /\ At(s, "check") /\ UNCHANGED <<calls, flying>>
        /\ Goto(s, "apply") \/ Goto(s, "finish") \/ Return(s)
    BY <1>3 DEF Check, ReadDates, Refuse, counters
  <2> QED
    BY <2>1, ReturnCall, GotoCall
<1>4. CASE Send(s)
  <2>1. /\ At(s, "send") /\ UNCHANGED calls /\ Goto(s, "verify")
        /\ flying' = flying \cup {Write(s, attempts[s].rows)}
    BY <1>4 DEF Send, counters
  <2> QED
    BY <2>1, GotoCall
<1>5. CASE Verify(s)
  <2>1. /\ At(s, "verify") /\ UNCHANGED <<calls, flying>>
        /\ Goto(s, "verify") \/ Goto(s, "finish")
    BY <1>5 DEF Verify, ReadDates, counters
  <2> QED
    BY <2>1, GotoCall
<1>6. CASE Finish(s) \/ Abandon(s)
  <2>1. UNCHANGED <<calls, flying>> /\ Return(s)
    BY <1>6 DEF Finish, Abandon, counters
  <2> QED
    BY <2>1, ReturnCall
<1> QED
  BY <1>1, <1>2, <1>3, <1>4, <1>5, <1>6, BeginCall, ReadRowsCall, PrepareCall, ApplyCall DEF Attempt

\* All there is to say of a step.
FullSteps ==
  \/ \E s \in Sessions : Effect(s) /\ CallStep(s)
  \/ \E parts : Disturbs(parts)
  \/ \E w \in flying : \E done \in SUBSET (DOMAIN w.fields) : Carries(w, done)
  \/ UNCHANGED updateVars

LEMMA StepFull ==
  ASSUME UpdateAssumption, ShapeInv, PlanInv, [UpdateNext]_updateVars
  PROVE  FullSteps
BY StepKinds, AttemptEffect, AttemptCall DEF FullSteps

LEMMA CallsByAttempt ==
  ASSUME ShapeInv, CallsInv, NEW s \in Sessions, CallStep(s)
  PROVE  CallsInv'
<1> USE DEF CallsInv, CallOf, Sender, At
<1>1. calls' \in {calls, calls + 1} /\ calls' \in Nat /\ 1 .. calls \subseteq 1 .. calls'
  BY DEF CallStep, Rests, Leaves, Starts, Continues
<1>2. \A r \in Sessions \ {s} : attempts'[r] = attempts[r]
  BY DEF CallStep, Others
<1>3. CallOf(s)' /\ (attempts'[s].call = attempts[s].call \/ attempts'[s].call \in {0, calls + 1})
  BY <1>1 DEF CallStep, Rests, Leaves, Starts, Continues
<1>4. \A r \in Sessions : CallOf(r)'
  BY <1>1, <1>2, <1>3
<1>5. ASSUME NEW q \in Sessions, NEW r \in Sessions, ~At(q, "idle")',
             attempts'[q].call = attempts'[r].call
      PROVE  q = r
  <2>1. CASE q = s /\ r # s
    <3>1. attempts'[r] = attempts[r]
      BY <1>2, <2>1
    <3> QED
      BY <1>5, <2>1, <3>1 DEF CallStep, Rests, Leaves, Starts, Continues
  <2>2. CASE q # s /\ r = s
    <3>1. attempts'[q] = attempts[q]
      BY <1>2, <2>2
    <3> QED
      BY <1>5, <2>2, <3>1 DEF CallStep, Rests, Leaves, Starts, Continues
  <2>3. CASE q # s /\ r # s
    BY <1>2, <1>5, <2>3
  <2> QED
    BY <2>1, <2>2, <2>3
<1>6. ASSUME NEW w \in flying
      PROVE  w.call \in 1 .. calls' /\ \A r \in Sessions : Sender(r, w)'
  <2>1. w.call \in 1 .. calls /\ \A r \in Sessions : Sender(r, w)
    OBVIOUS
  <2>2. Sender(s, w)'
    BY <1>1, <2>1 DEF CallStep, Rests, Leaves, Starts, Continues
  <2> QED
    BY <1>1, <1>2, <2>1, <2>2
<1>7. ASSUME NEW w \in flying', w \notin flying
      PROVE  w.call \in 1 .. calls' /\ \A r \in Sessions : Sender(r, w)'
  <2>1. /\ w = Write(s, attempts[s].rows) /\ At(s, "send") /\ attempts'[s].pc = "verify"
        /\ Continues(s)
    BY <1>7 DEF CallStep, Rests, Leaves, Starts
  <2>2. w.call = attempts[s].call /\ w.touched = attempts[s].touched
    BY <2>1 DEF Write
  <2>3. w.call \in 1 .. calls /\ attempts'[s].touched = w.touched
    BY <2>1, <2>2 DEF Continues
  <2>4. \A r \in Sessions \ {s} : attempts'[r].call # w.call
    BY <1>2, <2>1, <2>2
  <2> QED
    BY <1>1, <2>1, <2>3, <2>4
<1> QED
  BY <1>1, <1>4, <1>5, <1>6, <1>7

LEMMA CallsStep ==
  ASSUME ShapeInv, CallsInv, FullSteps
  PROVE  CallsInv'
<1>1. CASE \E s \in Sessions : CallStep(s)
  BY <1>1, CallsByAttempt
<1>2. ASSUME NEW parts, Disturbs(parts)
      PROVE  CallsInv'
  <2>1. \A s \in Sessions :
          /\ attempts'[s].pc = attempts[s].pc /\ attempts'[s].call = attempts[s].call
          /\ attempts'[s].landed = attempts[s].landed
          /\ At(s, "verify") => attempts'[s].touched = attempts[s].touched \cup parts
    <3>1. \A s \in Sessions :
            attempts'[s].pc = attempts[s].pc /\ attempts'[s].call = attempts[s].call
      BY <1>2, SamePlaceParts DEF Disturbs, SamePlaces
    <3> QED
      BY <1>2, <3>1 DEF Disturbs, At
  <2>2. ASSUME NEW v \in flying'
        PROVE  v.call \in 1 .. calls /\ \A s \in Sessions : Sender(s, v)'
    <3>1. PICK w \in flying : v = Rest(w, w.touched \cup parts)
      BY <1>2 DEF Disturbs
    <3>2. v.call = w.call /\ v.touched = w.touched \cup parts
      BY <3>1 DEF Rest
    <3>3. w.call \in 1 .. calls /\ \A s \in Sessions : Sender(s, w)
      BY DEF CallsInv
    <3> QED
      BY <2>1, <3>2, <3>3 DEF Sender, At
  <2>3. calls' = calls
    BY <1>2 DEF Disturbs
  <2> QED
    BY <2>1, <2>2, <2>3 DEF CallsInv, CallOf, At
<1>3. ASSUME NEW w \in flying, NEW done \in SUBSET (DOMAIN w.fields), Carries(w, done)
      PROVE  CallsInv'
  <2>1. \A s \in Sessions :
          /\ attempts'[s].pc = attempts[s].pc /\ attempts'[s].call = attempts[s].call
          /\ attempts'[s].touched = attempts[s].touched
          /\ attempts'[s].landed = attempts[s].landed \/ At(s, "verify")
    BY <1>3, SamePlaceParts DEF Carries, SamePlaces, Lands
  <2>2. ASSUME NEW v \in flying'
        PROVE  v.call \in 1 .. calls /\ \A s \in Sessions : Sender(s, v)'
    <3>1. v \in flying \/ v = Left(w, done)
      BY <1>3 DEF Carries
    <3>2. PICK u \in flying : v.call = u.call /\ v.touched = u.touched
      BY <3>1 DEF Left
    <3>3. u.call \in 1 .. calls /\ \A s \in Sessions : Sender(s, u)
      BY DEF CallsInv
    <3> QED
      BY <2>1, <3>2, <3>3 DEF Sender, At
  <2>3. calls' = calls
    BY <1>3 DEF Carries
  <2> QED
    BY <2>1, <2>2, <2>3 DEF CallsInv, CallOf, At
<1>4. CASE UNCHANGED updateVars
  BY <1>4 DEF updateVars, CallsInv, CallOf, Sender, At
<1> QED
  BY <1>1, <1>2, <1>3, <1>4 DEF FullSteps

-----------------------------------------------------------------------------
(* What must not be replayed                                               *)

\* Of such an update there is one try and one write, and once that is carried out, none.
Trying(s) == attempts[s].pc \in {"apply", "send", "verify"}

SoloInv ==
  ~ReplaySafe =>
    /\ \A s, r \in Sessions : Trying(s) /\ Trying(r) => s = r
    /\ \A s \in Sessions : Writing(s) => flying = {}
    /\ \A v, w \in flying : v = w
    /\ \A s \in Sessions : At(s, "verify") /\ attempts[s].landed => flying = {}

LEMMA SoloStep ==
  ASSUME ShapeInv, PlanInv, CallsInv, SoloInv, FullSteps
  PROVE  SoloInv'
<1>1. ReplaySafe' = ReplaySafe
  BY DEF FullSteps, Effect, Disturbs, Carries, updateVars, ReplaySafe
<1> SUFFICES ASSUME ~ReplaySafe
             PROVE  /\ \A s, r \in Sessions : Trying(s)' /\ Trying(r)' => s = r
                    /\ \A s \in Sessions : Writing(s)' => flying' = {}
                    /\ \A v, w \in flying' : v = w
                    /\ \A s \in Sessions : At(s, "verify")' /\ attempts'[s].landed => flying' = {}
  BY <1>1 DEF SoloInv
<1>2. /\ \A s, r \in Sessions : Trying(s) /\ Trying(r) => s = r
      /\ \A s \in Sessions : Writing(s) => flying = {}
      /\ \A v, w \in flying : v = w
      /\ \A s \in Sessions : At(s, "verify") /\ attempts[s].landed => flying = {}
  BY DEF SoloInv
<1>3. \A s \in Sessions : attempts[s].landed => attempts[s].pc \in {"verify", "finish"}
  BY DEF CallsInv, CallOf
<1>4. ASSUME NEW s \in Sessions, Effect(s), CallStep(s)
      PROVE  /\ \A q, r \in Sessions : Trying(q)' /\ Trying(r)' => q = r
             /\ \A q \in Sessions : Writing(q)' => flying' = {}
             /\ \A v, w \in flying' : v = w
             /\ \A q \in Sessions : At(q, "verify")' /\ attempts'[q].landed => flying' = {}
  <2>1. \A r \in Sessions \ {s} : attempts'[r] = attempts[r]
    BY <1>4 DEF Effect, Others
  <2>2. /\ attempts'[s].pc = "verify" => attempts[s].pc \in {"send", "verify"}
        /\ attempts'[s].pc = "verify" /\ attempts'[s].landed => attempts[s].landed
    BY <1>4 DEF CallStep, Rests, Leaves, Starts, Continues, At
  <2>3. CASE Dispatches(s)
    <3>1. op.state \notin Sent /\ flying' = flying /\ attempts'[s].pc = "apply"
      BY <2>3 DEF Dispatches, Sent, Apart, To
    <3>2. flying = {} /\ \A r \in Sessions : ~Trying(r)
      BY <3>1, Committed DEF Trying
    <3> QED
      BY <2>1, <3>1, <3>2 DEF Trying, Writing
  <2>4. CASE Writes(s)
    <3>1. /\ At(s, "send") /\ attempts'[s].pc = "verify"
          /\ flying' = flying \cup {Write(s, attempts[s].rows)}
      BY <2>4 DEF Writes, To
    <3>2. flying = {} /\ Trying(s) /\ \A r \in Sessions \ {s} : ~Trying(r)
      BY <1>2, <3>1 DEF Writing, Trying, At
    <3>3. ~attempts'[s].landed
      BY <1>3, <2>2, <3>1 DEF At
    <3> QED
      BY <2>1, <3>1, <3>2, <3>3 DEF Trying, Writing, At
  <2>5. CASE ~Dispatches(s) /\ ~Writes(s)
    <3>1. flying' = flying
      BY <1>4, <2>5 DEF Effect, Idles, Looks, Plans, Records, Refuses, Accepts, Finds, Finishes, Apart
    <3>2. Writing(s)' => Writing(s)
      BY <1>4, <2>5 DEF Effect, Idles, Looks, Plans, Records, Refuses, Accepts, Finds,
        Finishes, To, From, Writing
    <3>3. Trying(s)' => Trying(s)
      BY <2>2, <3>2 DEF Trying, Writing
    <3>4. At(s, "verify")' /\ attempts'[s].landed => At(s, "verify") /\ attempts[s].landed
      BY <1>3, <2>2 DEF At
    <3> QED
      BY <1>2, <2>1, <3>1, <3>2, <3>3, <3>4 DEF Trying, Writing, At
  <2> QED
    BY <2>3, <2>4, <2>5
<1>5. ASSUME NEW parts, Disturbs(parts)
      PROVE  /\ \A q, r \in Sessions : Trying(q)' /\ Trying(r)' => q = r
             /\ \A q \in Sessions : Writing(q)' => flying' = {}
             /\ \A v, w \in flying' : v = w
             /\ \A q \in Sessions : At(q, "verify")' /\ attempts'[q].landed => flying' = {}
  <2>1. \A s \in Sessions :
          attempts'[s].pc = attempts[s].pc /\ attempts'[s].landed = attempts[s].landed
    BY <1>5, SamePlaceParts DEF Disturbs, SamePlaces
  <2>2. flying' = {Rest(w, w.touched \cup parts) : w \in flying}
    BY <1>5 DEF Disturbs
  <2> QED
    BY <1>2, <2>1, <2>2 DEF Trying, Writing, At
<1>6. ASSUME NEW w \in flying, NEW done \in SUBSET (DOMAIN w.fields), Carries(w, done)
      PROVE  /\ \A q, r \in Sessions : Trying(q)' /\ Trying(r)' => q = r
             /\ \A q \in Sessions : Writing(q)' => flying' = {}
             /\ \A u, v \in flying' : u = v
             /\ \A q \in Sessions : At(q, "verify")' /\ attempts'[q].landed => flying' = {}
  <2>1. \A s \in Sessions : attempts'[s].pc = attempts[s].pc
    BY <1>6, SamePlaceParts DEF Carries, SamePlaces
  <2>2. flying = {w} /\ flying' \subseteq {Left(w, done)}
    BY <1>2, <1>6 DEF Carries
  <2>3. \A s \in Sessions : attempts'[s].landed = attempts[s].landed \/ flying' \subseteq flying \ {w}
    BY <1>6 DEF Carries, Lands
  <2> QED
    BY <1>2, <2>1, <2>2, <2>3 DEF Trying, Writing, At
<1>7. CASE UNCHANGED updateVars
  BY <1>2, <1>7 DEF updateVars, Trying, Writing, At
<1> QED
  BY <1>4, <1>5, <1>6, <1>7 DEF FullSteps

-----------------------------------------------------------------------------
(* One write is enough                                                     *)

\* A deadline is not changed together with a move to Today, where the to-do may be only
\* because its deadline is due: such an update may be in conflict with itself.
DeadlineApart ==
  \A r \in Requests : r.when \in {"today", "evening"} => "deadline" \notin DOMAIN r.set

\* The to-do is where the update puts it, as long as nobody but this update writes to it
\* and no day passes.
OnDay == task.date = op.plan.day \/ (task.date = 0 /\ op.plan.day = today /\ InToday(task))
Late == op.plan.when = "evening" /\ op.plan.day # today

InPlace ==
  /\ op.plan.when = "evening" => task.bucket = 1 /\ task.start = 1 /\ OnDay /\ ~Late
  /\ op.plan.when = "today" => task.bucket = 0 /\ task.start = 1 /\ OnDay
  /\ op.plan.when = "someday" => task.start = 2 /\ task.date = 0
  /\ op.plan.when = "anytime" =>
       task.start = 1 /\ task.date = 0 /\ (task.pinned => Due(DueAfter(op.plan, task)))
  /\ op.plan.when = "date" => task.date = op.plan.day

FieldsMet(fields) == \A f \in fields : task.fields[f] = op.plan.after[f]

\* A day that was today stays in the past.
DayInv ==
  request.when \in {"today", "evening"} =>
    /\ op.state \in Planned => op.plan.day \in 1 .. today
    /\ \A s \in Sessions : At(s, "record") => attempts[s].plan.day \in 1 .. today

\* What a look, a write to be sent, a write under way and one that is carried out say of
\* the to-do, if nobody else has touched it since the look.
LookOf(s) ==
  From(s, {"apply"}) /\ attempts[s].touched = {} =>
    /\ \A f \in Asked \ {"deadline"} :
         \/ task.fields[f] = attempts[s].rows.fields[f]
         \/ f # "checklist" /\ task.fields[f] = op.plan.after[f]
    /\ \/ attempts[s].rows.start = task.start /\ attempts[s].rows.bucket = task.bucket
       \/ InPlace \/ Late

SendOf(s) ==
  At(s, "send") /\ attempts[s].touched = {} =>
    /\ \A f \in Asked :
         attempts[s].rows.fields[f] = op.plan.after[f] => task.fields[f] = op.plan.after[f]
    /\ WhenSent(op.plan, attempts[s].rows) = "keep" => InPlace
    /\ ~Late

EndOf(s) ==
  At(s, "verify") /\ attempts[s].landed /\ attempts[s].touched = {} => FieldsMet(Asked) /\ InPlace

FlightOf(w) ==
  w.touched = {} =>
    /\ FieldsMet(Asked \ DOMAIN w.fields)
    /\ w.when = "keep" => InPlace
    /\ ~Late

EnoughInv ==
  /\ DayInv
  /\ \A s \in Sessions : LookOf(s) /\ SendOf(s) /\ EndOf(s)
  /\ \A w \in flying : FlightOf(w)

LEMMA SameWhenSent ==
  ASSUME NEW plan, NEW seen, today' = today
  PROVE  WhenSent(plan, seen)' = WhenSent(plan, seen)
BY DEF WhenSent, ScheduleMet, ScheduleUpdateMatches, DueAfter, Due

LEMMA StaysInPlace ==
  ASSUME InPlace, op'.plan = op.plan, today' = today,
         task'.start = task.start, task'.date = task.date, task'.bucket = task.bucket,
         task'.pinned = task.pinned,
         \/ task'.fields["deadline"] = task.fields["deadline"]
         \/ "deadline" \in DOMAIN op.plan.after /\ op.plan.when \notin {"today", "evening"}
  PROVE  InPlace'
<1>1. CASE task'.fields["deadline"] = task.fields["deadline"]
  BY <1>1 DEF InPlace, OnDay, Late, InToday, Due, DueAfter
<1>2. CASE "deadline" \in DOMAIN op.plan.after /\ op.plan.when \notin {"today", "evening"}
  BY <1>2 DEF InPlace, Due, DueAfter
<1> QED
  BY <1>1, <1>2

\* A write that moves the to-do moves it to where it stays.
LEMMA MovedInPlace ==
  ASSUME UpdateAssumption, ShapeInv, PlanInv, DayInv, NEW w \in flying, Moved(w),
         op' = op, UNCHANGED <<request, today>>
  PROVE  InPlace' \/ Late
<1>1. PICK t : IsTask(t) /\ task' = Scheduled(t, w)
  BY DEF Moved
<1>2. /\ GoodWrite(w) /\ w.when \in Moves \ {"keep"} /\ op.state \in Planned
      /\ op.plan.when = request.when /\ w.day = op.plan.day
  BY Committed DEF Moved, ShapeInv, IsWrite, PlanInv, GoodPlan, GoodWrite
<1>3. w.when \in Moves
  BY <1>2
<1>4. CASE request.when = "anytime" /\ w.when = "clear"
  <2>1. task'.start = 1 /\ task'.date = 0 /\ ~task'.pinned
    BY <1>1, <1>3, <1>4, ScheduledFields
  <2> QED
    BY <1>2, <1>4, <2>1 DEF InPlace
<1>5. CASE request.when = "someday" /\ w.when = "someday"
  <2>1. task'.start = 2 /\ task'.date = 0
    BY <1>1, <1>3, <1>5, ScheduledFields
  <2> QED
    BY <1>2, <1>5, <2>1 DEF InPlace
<1>6. CASE request.when = "evening" /\ w.when = "evening"
  <2>1. task'.start = 1 /\ task'.date = today /\ task'.bucket = 1
    BY <1>1, <1>3, <1>6, ScheduledFields
  <2> QED
    BY <1>2, <1>6, <2>1 DEF InPlace, OnDay, Late
<1>7. CASE request.when = "today" /\ w.when = "day"
  <2>1. op.plan.day <= today
    BY <1>2, <1>7 DEF DayInv, ShapeInv, UpdateAssumption
  <2>2. task'.start = 1 /\ task'.date = w.day /\ task'.bucket = 0
    BY <1>1, <1>2, <1>7, <2>1, ScheduledFields
  <2> QED
    BY <1>2, <1>7, <2>2 DEF InPlace, OnDay
<1>8. CASE request.when = "date" /\ w.when = "day"
  <2>1. task'.date = w.day
    BY <1>1, <1>3, <1>8, ScheduledFields
  <2> QED
    BY <1>2, <1>8, <2>1 DEF InPlace
<1> QED
  BY <1>2, <1>4, <1>5, <1>6, <1>7, <1>8 DEF GoodWrite

\* What a part of a write that is carried out does to the to-do.
LEMMA CarriedFields ==
  ASSUME UpdateAssumption, ShapeInv, PlanInv, ValueInv,
         NEW w \in flying, NEW done \in SUBSET (DOMAIN w.fields), Carries(w, done)
  PROVE  /\ \A f \in Asked : \/ task'.fields[f] = task.fields[f]
                             \/ f # "checklist" /\ task'.fields[f] = op.plan.after[f]
                             \/ f = "checklist" /\ f \in done
         /\ w.touched = {} => \A f \in done : task'.fields[f] = op.plan.after[f]
         /\ \A f \in Asked \ done : task'.fields[f] = task.fields[f]
<1>1. GoodWrite(w) /\ GoodPlan(op.plan) /\ DOMAIN w.fields \subseteq Asked /\ Asked \subseteq Fields
  BY Committed DEF PlanInv, GoodWrite, ShapeInv, UpdateAssumption, Asked
<1>2. /\ \A f \in Asked \ done : task'.fields[f] = task.fields[f]
      /\ \A f \in done \ {"checklist"} : task'.fields[f] = op.plan.after[f]
  BY <1>1 DEF Carries, GoodWrite
<1>3. ASSUME w.touched = {}, "checklist" \in done
      PROVE  task'.fields["checklist"] = op.plan.after["checklist"]
  <2>1. task.fields["checklist"] = op.plan.before["checklist"]
    BY <1>3 DEF ValueInv, Expected
  <2>2. task'.fields["checklist"] = task.fields["checklist"] \o request.set["checklist"]
    BY <1>1, <1>3 DEF Carries, GoodWrite
  <2>3. op.plan.after["checklist"] = op.plan.before["checklist"] \o request.set["checklist"]
    BY <1>1, <1>3 DEF GoodPlan, Wanted
  <2> QED
    BY <2>1, <2>2, <2>3
<1> QED
  BY <1>1, <1>2, <1>3

LEMMA CarriedPlace ==
  ASSUME UpdateAssumption, DeadlineApart, ShapeInv, PlanInv, DayInv,
         NEW w \in flying, NEW done \in SUBSET (DOMAIN w.fields), Carries(w, done)
  PROVE  /\ InPlace => InPlace'
         /\ Moved(w) => InPlace' \/ Late
         /\ ~Moved(w) => task'.start = task.start /\ task'.bucket = task.bucket
<1>1. op' = op /\ UNCHANGED <<request, today>>
  BY DEF Carries
<1>2. Moved(w) => InPlace' \/ Late
  BY <1>1, MovedInPlace
<1>3. ~Moved(w) => /\ task'.start = task.start /\ task'.date = task.date
                   /\ task'.bucket = task.bucket /\ task'.pinned = task.pinned
  BY DEF Carries
<1>4. GoodWrite(w) /\ GoodPlan(op.plan) /\ DOMAIN w.fields \subseteq Asked /\ request \in Requests
  BY Committed DEF PlanInv, GoodWrite, ShapeInv
<1>5. \/ task'.fields["deadline"] = task.fields["deadline"]
      \/ "deadline" \in DOMAIN op.plan.after /\ op.plan.when \notin {"today", "evening"}
  BY <1>4 DEF Carries, Fields, GoodPlan, DeadlineApart, Asked
<1>6. InPlace => ~Late
  BY DEF InPlace, Late
<1>7. ASSUME InPlace, ~Moved(w)
      PROVE  InPlace'
  BY <1>1, <1>3, <1>5, <1>7, StaysInPlace
<1> QED
  BY <1>2, <1>3, <1>6, <1>7

LEMMA EnoughByThings ==
  ASSUME UpdateAssumption, DeadlineApart, ShapeInv, PlanInv, ValueInv, CallsInv, SoloInv, EnoughInv,
         NEW w \in flying, NEW done \in SUBSET (DOMAIN w.fields), Carries(w, done)
  PROVE  EnoughInv'
<1>1. /\ op' = op /\ UNCHANGED <<request, today>>
      /\ \A s \in Sessions :
           /\ attempts'[s].pc = attempts[s].pc /\ attempts'[s].half = attempts[s].half
           /\ attempts'[s].plan = attempts[s].plan /\ attempts'[s].rows = attempts[s].rows
           /\ attempts'[s].touched = attempts[s].touched
  BY SamePlaceParts DEF Carries, SamePlaces
<1>2. /\ \A f \in Asked : \/ task'.fields[f] = task.fields[f]
                          \/ f # "checklist" /\ task'.fields[f] = op.plan.after[f]
                          \/ f = "checklist" /\ f \in done
      /\ w.touched = {} => \A f \in done : task'.fields[f] = op.plan.after[f]
      /\ \A f \in Asked \ done : task'.fields[f] = task.fields[f]
  BY CarriedFields
<1>3. /\ InPlace => InPlace'
      /\ Moved(w) => InPlace' \/ Late
      /\ ~Moved(w) => task'.start = task.start /\ task'.bucket = task.bucket
  BY CarriedPlace DEF EnoughInv
<1>4. Late' = Late /\ Asked' = Asked
  BY <1>1 DEF Late, Asked
<1>5. GoodWrite(w) /\ DOMAIN w.fields \subseteq Asked /\ op.state \in Planned
  BY Committed DEF GoodWrite
<1>6. "checklist" \in done =>
        /\ flying = {w}
        /\ \A s \in Sessions : ~Writing(s) /\ ~(At(s, "verify") /\ attempts[s].landed)
  BY <1>5 DEF SoloInv, ReplaySafe, Asked
<1>7. DayInv'
  BY <1>1 DEF EnoughInv, DayInv, At
<1>8. ASSUME NEW s \in Sessions
      PROVE  LookOf(s)' /\ SendOf(s)' /\ EndOf(s)'
  <2>1. LookOf(s) /\ SendOf(s) /\ EndOf(s)
    BY DEF EnoughInv
  <2>2. Writing(s) => \A f \in Asked : \/ task'.fields[f] = task.fields[f]
                                       \/ f # "checklist" /\ task'.fields[f] = op.plan.after[f]
    BY <1>2, <1>6
  <2>3. LookOf(s)'
    <3>1. SUFFICES ASSUME From(s, {"apply"}), attempts[s].touched = {}
                   PROVE  /\ \A f \in Asked \ {"deadline"} :
                               \/ task'.fields[f] = attempts[s].rows.fields[f]
                               \/ f # "checklist" /\ task'.fields[f] = op.plan.after[f]
                          /\ \/ /\ attempts[s].rows.start = task'.start
                                /\ attempts[s].rows.bucket = task'.bucket
                             \/ InPlace' \/ Late
      BY <1>1, <1>4 DEF LookOf, From
    <3>2. Writing(s)
      BY <3>1 DEF From, Writing
    <3> QED
      BY <1>3, <2>1, <2>2, <3>1, <3>2 DEF LookOf
  <2>4. SendOf(s)'
    <3>1. PICK rows : rows = attempts[s].rows
      OBVIOUS
    <3>2. SUFFICES ASSUME At(s, "send"), attempts[s].touched = {}
                   PROVE  /\ \A f \in Asked :
                               rows.fields[f] = op.plan.after[f] => task'.fields[f] = op.plan.after[f]
                          /\ WhenSent(op.plan, rows)' = "keep" => InPlace'
                          /\ ~Late
      BY <1>1, <1>4, <3>1 DEF SendOf, At, WhenSent, ScheduleMet, ScheduleUpdateMatches, DueAfter
    <3>3. PICK plan : plan = op.plan
      OBVIOUS
    <3>4. WhenSent(op.plan, rows)' = WhenSent(op.plan, rows)
      <4>1. WhenSent(plan, rows)' = WhenSent(plan, rows)
        BY <1>1, SameWhenSent
      <4>2. op.plan' = plan
        BY <1>1, <3>3
      <4> QED
        BY <3>3, <4>1, <4>2 DEF WhenSent, ScheduleMet, ScheduleUpdateMatches, DueAfter
    <3>5. Writing(s)
      BY <3>2 DEF At, Writing
    <3> QED
      BY <1>3, <2>1, <2>2, <3>1, <3>2, <3>4, <3>5 DEF SendOf
  <2>5. EndOf(s)'
    <3>1. SUFFICES ASSUME At(s, "verify"), attempts'[s].landed, attempts[s].touched = {}
                   PROVE  (\A f \in Asked : task'.fields[f] = op.plan.after[f]) /\ InPlace'
      BY <1>1, <1>4 DEF EndOf, FieldsMet, At
    <3>2. CASE attempts'[s].landed = attempts[s].landed
      BY <1>2, <1>3, <1>6, <2>1, <3>1, <3>2 DEF EndOf, FieldsMet
    <3>3. CASE Lands(s, w, done)
      <4>1. w.touched = {}
        BY <3>1, <3>3 DEF Lands, CallsInv, Sender
      <4>2. /\ FieldsMet(Asked \ done) /\ (w.when = "keep" => InPlace) /\ ~Late
            /\ w.when = "keep" \/ Moved(w)
        BY <3>3, <4>1 DEF EnoughInv, FlightOf, Lands
      <4> QED
        BY <1>2, <1>3, <4>1, <4>2 DEF FieldsMet
    <3> QED
      BY <3>2, <3>3 DEF Carries
  <2> QED
    BY <2>3, <2>4, <2>5
<1>9. ASSUME NEW v \in flying'
      PROVE  FlightOf(v)'
  <2>1. SUFFICES ASSUME v.touched = {}
                 PROVE  /\ \A f \in Asked \ DOMAIN v.fields : task'.fields[f] = op.plan.after[f]
                        /\ v.when = "keep" => InPlace'
                        /\ ~Late
    BY <1>1, <1>4 DEF FlightOf, FieldsMet
  <2>2. CASE v \in flying /\ v # w
    <3>1. FieldsMet(Asked \ DOMAIN v.fields) /\ (v.when = "keep" => InPlace) /\ ~Late
      BY <2>1, <2>2 DEF EnoughInv, FlightOf
    <3>2. "checklist" \notin done
      BY <1>6, <2>2
    <3> QED
      BY <1>2, <1>3, <3>1, <3>2 DEF FieldsMet
  <2>3. CASE v = Left(w, done)
    <3>1. /\ DOMAIN v.fields = DOMAIN w.fields \ done /\ v.when = w.when
          /\ w.touched = {}
      BY <2>1, <2>3 DEF Left
    <3>2. FieldsMet(Asked \ DOMAIN w.fields) /\ (w.when = "keep" => InPlace) /\ ~Late
      BY <3>1 DEF EnoughInv, FlightOf
    <3> QED
      BY <1>2, <1>3, <3>1, <3>2 DEF FieldsMet
  <2> QED
    BY <2>2, <2>3 DEF Carries
<1> QED
  BY <1>7, <1>8, <1>9 DEF EnoughInv

\* An edit, or a day that passes, is noted where it matters; a to-do that is only completed
\* stays as it was.
LEMMA EnoughByEdits ==
  ASSUME UpdateAssumption, ShapeInv, ShapeInv', PlanInv, EnoughInv, NEW parts, Disturbs(parts)
  PROVE  EnoughInv'
<1>1. /\ op' = op /\ request' = request
      /\ \A s \in Sessions :
           /\ attempts'[s].pc = attempts[s].pc /\ attempts'[s].half = attempts[s].half
           /\ attempts'[s].plan = attempts[s].plan /\ attempts'[s].rows = attempts[s].rows
           /\ attempts'[s].landed = attempts[s].landed
           /\ Trying(s) => attempts'[s].touched = attempts[s].touched \cup parts
  <2>1. \A s \in Sessions :
          /\ attempts'[s].pc = attempts[s].pc /\ attempts'[s].half = attempts[s].half
          /\ attempts'[s].plan = attempts[s].plan /\ attempts'[s].rows = attempts[s].rows
    BY SamePlaceParts DEF Disturbs, SamePlaces
  <2> QED
    BY <2>1 DEF Disturbs, Trying
<1>2. DayInv'
  <2>1. 1 .. today \subseteq 1 .. today'
    BY DEF Disturbs, ShapeInv, UpdateAssumption
  <2> QED
    BY <1>1, <2>1 DEF EnoughInv, DayInv, At
<1>3. \A v \in flying' : \E w \in flying :
        /\ v.fields = w.fields /\ v.when = w.when
        /\ v.touched = w.touched \cup parts
  BY DEF Disturbs, Rest
<1>4. CASE parts # {}
  <2>1. \A s \in Sessions : Trying(s)' => attempts'[s].touched # {}
    BY <1>1, <1>4 DEF Trying
  <2>2. \A v \in flying' : v.touched # {}
    BY <1>3, <1>4
  <2> QED
    BY <1>2, <2>1, <2>2 DEF EnoughInv, LookOf, SendOf, EndOf, FlightOf, From, At, Trying
<1>5. CASE parts = {}
  <2>1. /\ today' = today /\ \A f \in Fields : task'.fields[f] = task.fields[f]
        /\ task'.start = task.start /\ task'.date = task.date
        /\ task'.bucket = task.bucket /\ task'.pinned = task.pinned
    BY <1>5 DEF Disturbs
  <2>2. \A s \in Sessions : Trying(s) => attempts'[s].touched = attempts[s].touched
    BY <1>1, <1>5
  <2>3. Asked \subseteq Fields /\ Asked' = Asked /\ Late' = Late
    BY <1>1, <2>1 DEF ShapeInv, UpdateAssumption, Asked, Late
  <2>4. InPlace => InPlace'
    BY <1>1, <2>1, StaysInPlace DEF Fields
  <2>5. ASSUME NEW s \in Sessions
        PROVE  LookOf(s)' /\ SendOf(s)' /\ EndOf(s)'
    <3>1. LookOf(s) /\ SendOf(s) /\ EndOf(s)
      BY DEF EnoughInv
    <3>2. LookOf(s)'
      BY <1>1, <2>1, <2>2, <2>3, <2>4, <3>1 DEF LookOf, From, Trying
    <3>3. SendOf(s)'
      <4>1. PICK rows, plan : rows = attempts[s].rows /\ plan = op.plan
        OBVIOUS
      <4>2. WhenSent(plan, rows)' = WhenSent(plan, rows)
        BY <2>1, SameWhenSent
      <4>3. op'.plan = plan /\ attempts'[s].rows = rows
        BY <1>1, <4>1
      <4>4. At(s, "send")' /\ attempts'[s].touched = {} =>
              /\ \A f \in Asked :
                   rows.fields[f] = plan.after[f] => task'.fields[f] = plan.after[f]
              /\ WhenSent(plan, rows)' = "keep" => InPlace'
              /\ ~Late
        BY <1>1, <2>1, <2>2, <2>3, <2>4, <3>1, <4>1, <4>2 DEF SendOf, At, Trying
      <4> QED
        BY <2>3, <4>3, <4>4 DEF SendOf, At, WhenSent, ScheduleMet, ScheduleUpdateMatches, DueAfter
    <3>4. EndOf(s)'
      BY <1>1, <2>1, <2>2, <2>3, <2>4, <3>1 DEF EndOf, FieldsMet, At, Trying
    <3> QED
      BY <3>2, <3>3, <3>4
  <2>6. ASSUME NEW v \in flying'
        PROVE  FlightOf(v)'
    <3>1. PICK w \in flying :
            v.fields = w.fields /\ v.when = w.when /\ v.touched = w.touched \cup parts
      BY <1>3
    <3>2. FlightOf(w) /\ v.touched = w.touched
      BY <1>5, <3>1 DEF EnoughInv
    <3> QED
      BY <1>1, <2>1, <2>3, <2>4, <3>1, <3>2 DEF FlightOf, FieldsMet
  <2> QED
    BY <1>2, <2>5, <2>6 DEF EnoughInv
<1> QED
  BY <1>4, <1>5

\* A write is sent without a move only when the to-do is where it is to be already, and
\* stays there when the deadline is changed too.
LEMMA SeenInPlace ==
  ASSUME UpdateAssumption, ShapeInv, PlanInv, NEW s \in Sessions, From(s, {"apply"}), LookOf(s),
         attempts[s].touched = {}, ~Late, WhenSent(op.plan, Whole(s)) = "keep"
  PROVE  InPlace
<1>1. PICK seen : seen = Whole(s)
  OBVIOUS
<1>2. GoodPlan(op.plan) /\ op.plan.when = request.when /\ request.when \in Whens
  BY CommittedFacts DEF From, GoodPlan, ShapeInv, UpdateAssumption
<1>3. IsRows(attempts[s].rows)
  BY DEF PlanInv, PlanAt, From
<1>4. /\ seen.fields["deadline"] = task.fields["deadline"]
      /\ seen.schedule.start = attempts[s].rows.start
      /\ seen.schedule.bucket = attempts[s].rows.bucket
      /\ seen.schedule.date = task.date
      /\ seen.schedule.member = (NeedsTodayMembership(request.when, task.date) /\ InToday(task))
  BY <1>1, <1>3, SeenParts DEF Whole, Fields
<1>5. DueAfter(op.plan, seen) = DueAfter(op.plan, task)
  BY <1>4 DEF DueAfter
<1>6. CASE op.plan.when = "keep"
  BY <1>6 DEF InPlace
<1>7. CASE op.plan.when # "keep"
  <2>1. ScheduleUpdateMatches(op.plan, seen.schedule, DueAfter(op.plan, task))
    BY <1>1, <1>2, <1>5, <1>7 DEF WhenSent, Whens
  <2>2. SUFFICES ASSUME seen.schedule.start = task.start, seen.schedule.bucket = task.bucket
                 PROVE  InPlace
    BY <1>4 DEF LookOf
  <2>3. \/ op.plan.when = "evening" \/ op.plan.when = "today" \/ op.plan.when = "someday"
        \/ op.plan.when = "anytime" \/ op.plan.when = "date"
    BY <1>2, <1>7 DEF Whens
  <2>4. CASE op.plan.when \in {"evening", "today"}
    BY <1>2, <1>4, <2>1, <2>2, <2>4 DEF ScheduleUpdateMatches, InPlace, OnDay
  <2>5. CASE op.plan.when = "anytime"
    <3>1. task.start = 1 /\ task.date = 0
          /\ (InToday(task) => Due(DueAfter(op.plan, task)))
      BY <1>2, <1>4, <2>1, <2>2, <2>5 DEF ScheduleUpdateMatches, NeedsTodayMembership
    <3> QED
      BY <2>5, <3>1 DEF InPlace, InToday
  <2>6. CASE op.plan.when \in {"someday", "date"}
    BY <1>4, <2>1, <2>2, <2>6 DEF ScheduleUpdateMatches, InPlace
  <2> QED
    BY <2>3, <2>4, <2>5, <2>6
<1> QED
  BY <1>6, <1>7

LEMMA DayBySession ==
  ASSUME UpdateAssumption, ShapeInv, PlanInv, DayInv, NEW s \in Sessions, Effect(s)
  PROVE  DayInv'
<1>1. /\ Kept /\ UNCHANGED <<request, task, today>>
      /\ \A r \in Sessions \ {s} : attempts'[r] = attempts[r]
  BY EffectKept DEF Effect, Others
<1>2. SUFFICES ASSUME request.when \in {"today", "evening"}
               PROVE  /\ op'.state \in Planned => op'.plan.day \in 1 .. today
                      /\ \A r \in Sessions : At(r, "record")' => attempts'[r].plan.day \in 1 .. today
  BY <1>1 DEF DayInv
<1>3. today \in 1 .. today
  BY DEF ShapeInv, UpdateAssumption
<1>4. op'.state \in Planned => op'.plan.day \in 1 .. today
  <2>1. CASE op.state \in Planned
    BY <1>1, <1>2, <2>1 DEF DayInv, Kept
  <2>2. CASE op.state \notin Planned /\ op'.state \in Planned
    <3>1. Records(s)
      BY <2>2, Committed DEF Effect, Idles, Looks, Plans, Dispatches, Refuses, Accepts, Writes,
        Finds, Finishes, Apart, Planned
    <3> QED
      BY <1>2, <3>1 DEF Records, DayInv
  <2> QED
    BY <2>1, <2>2
<1>5. ASSUME At(s, "record")'
      PROVE  attempts'[s].plan.day \in 1 .. today
  <2>1. Plans(s)
    BY <1>5 DEF Effect, Idles, Looks, Records, Dispatches, Refuses, Accepts, Writes, Finds, Finishes,
      To, At, Reading
  <2>2. attempts'[s].plan.day = today
    BY <1>2, <2>1 DEF Plans, Plan
  <2> QED
    BY <1>3, <2>2
<1> QED
  BY <1>1, <1>2, <1>4, <1>5 DEF DayInv, At

LEMMA EnoughBySession ==
  ASSUME UpdateAssumption, ShapeInv, PlanInv, CallsInv, EnoughInv,
         NEW s \in Sessions, Effect(s), CallStep(s)
  PROVE  EnoughInv'
<1>1. /\ Kept /\ UNCHANGED <<request, task, today>>
      /\ \A r \in Sessions \ {s} : attempts'[r] = attempts[r]
  BY EffectKept DEF Effect, Others
<1>2. DayInv'
  BY DayBySession DEF EnoughInv
<1>3. /\ attempts'[s].pc = "verify" =>
           attempts[s].pc \in {"send", "verify"} /\ attempts'[s].touched = attempts[s].touched
      /\ At(s, "verify")' /\ attempts'[s].landed => At(s, "verify") /\ attempts[s].landed
  BY DEF CallStep, Rests, Leaves, Starts, Continues, CallsInv, CallOf, At
<1>4. CASE op.state \notin Sent
  <2>1. flying = {} /\ \A r \in Sessions : ~Trying(r)
    BY <1>4, Committed DEF Trying
  <2>2. flying' = {}
    BY <2>1 DEF CallStep, Trying, At
  <2>3. \A r \in Sessions \ {s} : ~Trying(r)'
    BY <1>1, <2>1 DEF Trying
  <2>4. ~From(s, {"apply"})' /\ ~At(s, "send")' /\ ~At(s, "verify")'
    BY <1>3, <2>1 DEF Effect, Idles, Looks, Plans, Records, Dispatches, Refuses, Accepts, Writes,
      Finds, Finishes, To, From, At, Trying
  <2> QED
    BY <1>2, <2>2, <2>3, <2>4 DEF EnoughInv, LookOf, SendOf, EndOf, From, At, Trying
<1>5. CASE op.state \in Sent
  <2>1. op'.plan = op.plan /\ Asked' = Asked
    BY <1>1, <1>5 DEF Kept, Sent, Planned, Asked
  <2>2. InPlace' = InPlace /\ Late' = Late
    BY <1>1, <2>1 DEF InPlace, Late, OnDay, InToday, Due, DueAfter
  <2>3. \A plan, seen : WhenSent(plan, seen)' = WhenSent(plan, seen)
    BY <1>1 DEF WhenSent, ScheduleMet, ScheduleUpdateMatches, DueAfter, Due
  <2>4. ASSUME NEW r \in Sessions \ {s}
        PROVE  LookOf(r)' /\ SendOf(r)' /\ EndOf(r)'
    <3>1. attempts'[r] = attempts[r] /\ LookOf(r) /\ SendOf(r) /\ EndOf(r)
      BY <1>1 DEF EnoughInv
    <3>2. WhenSent(op.plan, attempts[r].rows)' = WhenSent(op.plan, attempts[r].rows)
      BY <1>1, <2>1, <3>1 DEF WhenSent, ScheduleMet, ScheduleUpdateMatches, DueAfter, Due
    <3> QED
      BY <1>1, <2>1, <2>2, <3>1, <3>2 DEF LookOf, SendOf, EndOf, FieldsMet, From, At
  <2>5. LookOf(s)'
    <3>1. CASE Looks(s)
      <4>1. /\ \A f \in Asked : attempts'[s].rows.fields[f] = task.fields[f]
            /\ attempts'[s].rows.start = task.start /\ attempts'[s].rows.bucket = task.bucket
        BY <3>1, RowsNow DEF Looks, ShapeInv
      <4> QED
        BY <1>1, <2>1, <4>1 DEF LookOf
    <3>2. CASE ~Looks(s)
      <4>1. ~From(s, {"apply"})'
        BY <3>2 DEF Effect, Idles, Plans, Records, Dispatches, Refuses, Accepts, Writes, Finds,
          Finishes, To, From
      <4> QED
        BY <4>1 DEF LookOf
    <3> QED
      BY <3>1, <3>2
  <2>6. SendOf(s)'
    <3>1. CASE Accepts(s)
      <4>1. /\ From(s, {"apply"}) /\ attempts'[s].touched = attempts[s].touched
            /\ attempts'[s].rows = Whole(s) /\ (request.when = "evening" => op.plan.day = today)
        BY <3>1 DEF Accepts
      <4>2. /\ DOMAIN op.plan.after = Asked /\ op.plan.when = request.when
            /\ IsRows(attempts[s].rows) /\ LookOf(s)
        BY <4>1, CommittedFacts DEF From, GoodPlan, PlanInv, PlanAt, EnoughInv
      <4>3. \A f \in Fields : Whole(s).fields[f] =
               IF f = "deadline" THEN task.fields[f] ELSE attempts[s].rows.fields[f]
        BY <4>2, SeenParts DEF Whole
      <4>4. ~Late
        BY <4>1, <4>2 DEF Late
      <4>5. PICK seen, plan : seen = Whole(s) /\ plan = op.plan
        OBVIOUS
      <4>6. attempts[s].touched = {} =>
              /\ \A f \in Asked : seen.fields[f] = plan.after[f] => task.fields[f] = plan.after[f]
              /\ WhenSent(plan, seen) = "keep" => InPlace
        <5>1. Asked \subseteq Fields
          BY DEF ShapeInv, UpdateAssumption, Asked
        <5> QED
          BY <4>1, <4>2, <4>3, <4>4, <4>5, <5>1, SeenInPlace DEF LookOf
      <4>7. attempts'[s].rows = seen /\ op'.plan = plan
        BY <2>1, <4>1, <4>5
      <4>8. WhenSent(plan, seen)' = WhenSent(plan, seen)
        BY <2>3
      <4>9. attempts'[s].touched = {} =>
              /\ \A f \in Asked' : seen.fields[f] = plan.after[f] => task'.fields[f] = plan.after[f]
              /\ WhenSent(plan, seen)' = "keep" => InPlace'
              /\ ~Late'
        BY <1>1, <2>1, <2>2, <4>1, <4>4, <4>6, <4>8
      <4> QED
        BY <4>7, <4>9 DEF SendOf, WhenSent, ScheduleMet, ScheduleUpdateMatches, DueAfter
    <3>2. CASE ~Accepts(s)
      <4>1. ~At(s, "send")'
        BY <3>2 DEF Effect, Idles, Looks, Plans, Records, Dispatches, Refuses, Writes, Finds,
          Finishes, To, At, Reading
      <4> QED
        BY <4>1 DEF SendOf
    <3> QED
      BY <3>1, <3>2
  <2>7. EndOf(s)'
    <3>1. EndOf(s)
      BY DEF EnoughInv
    <3> QED
      BY <1>1, <1>3, <2>1, <2>2, <3>1 DEF EndOf, FieldsMet, At
  <2>8. ASSUME NEW w \in flying'
        PROVE  FlightOf(w)'
    <3>1. FlightOf(w)
      <4>1. CASE w \in flying
        BY <4>1 DEF EnoughInv
      <4>2. CASE w \notin flying
        <5>1. At(s, "send") /\ w = Write(s, attempts[s].rows)
          BY <4>2 DEF CallStep
        <5>2. attempts[s].plan = op.plan /\ DOMAIN op.plan.after = Asked
          BY <5>1, CommittedFacts DEF At, GoodPlan
        <5>3. /\ DOMAIN w.fields = Unmet(op.plan, attempts[s].rows)
              /\ w.when = WhenSent(op.plan, attempts[s].rows)
              /\ w.touched = attempts[s].touched
          BY <5>1, <5>2 DEF Write
        <5>4. SendOf(s)
          BY DEF EnoughInv
        <5> QED
          BY <5>1, <5>2, <5>3, <5>4 DEF FlightOf, SendOf, FieldsMet, Unmet
      <4> QED
        BY <4>1, <4>2
    <3> QED
      BY <1>1, <2>1, <2>2, <3>1 DEF FlightOf, FieldsMet
  <2> QED
    BY <1>2, <2>4, <2>5, <2>6, <2>7, <2>8 DEF EnoughInv
<1> QED
  BY <1>4, <1>5

\* With the to-do where the update puts it, the look that verifies finds everything done.
LEMMA EndIsDone ==
  ASSUME UpdateAssumption, ShapeInv, PlanInv, EnoughInv, NEW s \in Sessions,
         At(s, "verify"), attempts[s].landed, attempts[s].touched = {}
  PROVE  Done(attempts[s].plan, Now)
<1>1. attempts[s].plan = op.plan /\ GoodPlan(op.plan) /\ op.plan.when = request.when
  BY CommittedFacts DEF At, GoodPlan
<1>2. FieldsMet(Asked) /\ InPlace
  BY DEF EnoughInv, EndOf
<1>3. PICK seen, plan : seen = Now /\ plan = op.plan
  OBVIOUS
<1>4. /\ \A f \in Fields : seen.fields[f] = task.fields[f]
      /\ seen.schedule.start = task.start /\ seen.schedule.bucket = task.bucket
      /\ seen.schedule.date = task.date
      /\ seen.schedule.member = (NeedsTodayMembership(request.when, task.date) /\ InToday(task))
  BY <1>3, RowsNow, SeenParts DEF Now, ShapeInv
<1>5. Unmet(plan, seen) = {}
  BY <1>1, <1>2, <1>3, <1>4 DEF Unmet, GoodPlan, FieldsMet, ShapeInv, UpdateAssumption, Asked
<1>6. ScheduleMet(plan, seen)
  <2>1. "deadline" \in DOMAIN plan.after => plan.after["deadline"] = task.fields["deadline"]
    BY <1>1, <1>2, <1>3 DEF FieldsMet, GoodPlan
  <2>2. seen.fields["deadline"] = task.fields["deadline"]
    BY <1>4 DEF Fields
  <2>3. request.when \in Whens
    BY DEF ShapeInv, UpdateAssumption
  <2>4. CASE plan.when = "anytime"
    <3>1. task.start = 1 /\ task.date = 0 /\ (task.pinned => Due(DueAfter(plan, task)))
      BY <1>2, <1>3, <2>4 DEF InPlace
    <3>2. DueAfter(plan, task) = task.fields["deadline"]
      BY <2>1 DEF DueAfter
    <3>3. InToday(task) => Due(task.fields["deadline"])
      BY <3>1, <3>2 DEF InToday, Due
    <3> QED
      BY <1>4, <2>2, <2>4, <3>1, <3>3 DEF ScheduleMet, ScheduleUpdateMatches
  <2>5. CASE plan.when \in {"today", "evening"}
    BY <1>1, <1>2, <1>3, <1>4, <2>5
      DEF ScheduleMet, ScheduleUpdateMatches, InPlace, OnDay, NeedsTodayMembership
  <2>6. CASE plan.when \in {"keep", "someday", "date"}
    BY <1>2, <1>3, <1>4, <2>6 DEF ScheduleMet, ScheduleUpdateMatches, InPlace
  <2> QED
    BY <1>1, <1>3, <2>3, <2>4, <2>5, <2>6 DEF Whens
<1> QED
  BY <1>1, <1>3, <1>5, <1>6 DEF Done

LEMMA EnoughStep ==
  ASSUME UpdateAssumption, DeadlineApart, ShapeInv, ShapeInv', PlanInv, ValueInv, CallsInv, SoloInv,
         EnoughInv, FullSteps
  PROVE  EnoughInv'
<1>1. CASE UNCHANGED updateVars
  <2>1. op' = op /\ UNCHANGED <<request, task, today, attempts, flying>>
    BY <1>1, StutterOp DEF updateVars
  <2>2. InPlace' = InPlace /\ Late' = Late /\ Asked' = Asked
    BY <2>1 DEF InPlace, Late, OnDay, InToday, Due, DueAfter, Asked
  <2>3. \A s \in Sessions : WhenSent(op.plan, attempts[s].rows)' = WhenSent(op.plan, attempts[s].rows)
    BY <2>1 DEF WhenSent, ScheduleMet, ScheduleUpdateMatches, DueAfter, Due
  <2> QED
    BY <2>1, <2>2, <2>3 DEF EnoughInv, DayInv, LookOf, SendOf, EndOf, FlightOf, FieldsMet, From, At
<1> QED
  BY <1>1, EnoughBySession, EnoughByEdits, EnoughByThings DEF FullSteps

-----------------------------------------------------------------------------
(* The theorems                                                            *)

\* What the proofs go by, all together.
UpdateInv == ShapeInv /\ PlanInv /\ WriterInv /\ ValueInv /\ OwnInv /\ MetInv

LEMMA InvInitially ==
  ASSUME UpdateAssumption, UpdateInit
  PROVE  UpdateInv
<1>1. ShapeInv /\ PlanInv
  BY PlanInitially
<1>2. op.state = "none"
  BY DEF UpdateInit, op, Journal!NoOperation
<1>3. \A s \in Sessions : attempts[s].pc = "idle"
  BY DEF UpdateInit, NoCall, Call
<1>4. WriterInv /\ ValueInv
  BY <1>3 DEF WriterInv, ValueInv, Writing, At, UpdateInit
<1>5. OwnInv
  BY <1>2, <1>3 DEF OwnInv, At, Planned, UpdateInit
<1>6. MetInv
  <2>1. MetNow = {}
    BY <1>2 DEF MetNow, Journal!Planned, Journal!Settled
  <2> QED
    BY <1>2, <1>3, <2>1 DEF MetInv, At, Settled, UpdateInit
<1> QED
  BY <1>1, <1>4, <1>5, <1>6 DEF UpdateInv

LEMMA InvStep ==
  ASSUME UpdateAssumption, UpdateInv, [UpdateNext]_updateVars
  PROVE  UpdateInv' /\ Steps
<1>1. Steps
  BY StepEffect DEF Steps, UpdateInv
<1>2. ShapeInv' /\ PlanInv'
  BY PlanStep DEF UpdateInv
<1>3. WriterInv' /\ ValueInv' /\ OwnInv'
  BY <1>1, WriterStep, ValueStep, OwnStep DEF UpdateInv, Steps
<1>4. MetInv'
  <2>1. met' = met \cup MetNow'
    <3>1. CASE UNCHANGED updateVars
      <4>1. UNCHANGED <<op, request, task, today, met>>
        BY <3>1, StutterOp DEF updateVars, UpdateInv
      <4>2. MetNow' = MetNow
        BY <4>1 DEF MetNow, Unmet, ScheduleMet, ScheduleUpdateMatches, Due, Now, Seen, Rows,
          NeedsTodayMembership, InToday
      <4> QED
        BY <4>1, <4>2 DEF UpdateInv, MetInv
    <3> QED
      BY <3>1 DEF UpdateNext
  <2> QED
    BY <1>1, <1>2, <2>1, MetStep DEF UpdateInv
<1> QED
  BY <1>1, <1>2, <1>3, <1>4 DEF UpdateInv

LEMMA UpdateInvariant ==
  UpdateSpec => []UpdateInv
<1>1. UpdateInit => UpdateInv
  BY UpdateAssumption, InvInitially
<1>2. UpdateInv /\ [UpdateNext]_updateVars => UpdateInv'
  BY UpdateAssumption, InvStep
<1> QED
  BY <1>1, <1>2, PTL DEF UpdateSpec

\* The row, the attempts and the writes under way are always such as the code can make:
\* a saved plan covers the fields of the request and no other, and no write, refusal or
\* result goes beyond them.
THEOREM UpdateTypes ==
  UpdateSpec => []UpdateTypeOK
<1>1. ASSUME UpdateInv
      PROVE  UpdateTypeOK
  <2>1. /\ request \in Requests /\ today \in 1 .. LastDay
        /\ op.state \in Journal!OperationStates
        /\ \A s \in Sessions : attempts[s].pc \in Places
                               /\ (attempts[s].half = "dates" => attempts[s].pc \in Reading)
    BY <1>1 DEF UpdateInv, ShapeInv, RowInv, IsRow, AttemptsInv, IsAttempt
  <2>2. op.state \in Journal!Planned => DOMAIN op.plan.after = DOMAIN request.set
    BY <1>1 DEF UpdateInv, PlanInv, GoodPlan, Asked, Planned, Journal!Planned, Journal!Settled
  <2>3. \A w \in flying : DOMAIN w.fields \subseteq DOMAIN request.set
    BY <1>1 DEF UpdateInv, PlanInv, GoodWrite, Asked
  <2>4. clashed \subseteq DOMAIN request.set /\ met \subseteq DOMAIN request.set \cup {"schedule"}
    BY <1>1 DEF UpdateInv, OwnInv, MetInv, Asked
  <2> QED
    BY <2>1, <2>2, <2>3, <2>4 DEF UpdateTypeOK, Places
<1> QED
  BY <1>1, UpdateInvariant, PTL

\* A write on its way never replaces an edit its sender could have seen, however many
\* deliveries and local calls run at once, on whatever plan.
THEOREM NothingSeenIsLost ==
  UpdateSpec => []NothingSeenIsOverwritten
<1>1. ASSUME UpdateInv
      PROVE  NothingSeenIsOverwritten
  BY <1>1 DEF UpdateInv, ValueInv, Expected, NothingSeenIsOverwritten
<1> QED
  BY <1>1, UpdateInvariant, PTL

\* A field is refused as a conflict only when somebody else has edited it: what an earlier
\* delivery wrote, wholly or in part, in time or late, is never taken for an edit.
THEOREM NoUpdateClashesWithItself ==
  UpdateSpec => []NoSelfConflict
<1>1. ASSUME UpdateInv
      PROVE  NoSelfConflict
  BY <1>1 DEF UpdateInv, OwnInv, NoSelfConflict
<1> QED
  BY <1>1, UpdateInvariant, PTL

\* An update recorded as done has had each of its fields as requested, and its schedule
\* too unless it was moved by somebody else.
THEOREM DoneUpdatesAreReal ==
  UpdateSpec => []DoneIsReal
<1>1. ASSUME UpdateInv
      PROVE  DoneIsReal
  BY <1>1 DEF UpdateInv, MetInv, AllMet, Asked, Settled, DoneIsReal, Journal!Settled
<1> QED
  BY <1>1, UpdateInvariant, PTL

\* Where the line to append is neither in the to-do nor typed by the user, all deliveries
\* and calls together leave it there once.
THEOREM AppendsOnce ==
  ASSUME FreshLines
  PROVE  UpdateSpec => []AppendedOnce
<1>1. UpdateInit => UpdateInv /\ LineInv
  <2>1. ASSUME UpdateInit
        PROVE  LineInv
    <3>1. op.state = "none" /\ \A s \in Sessions : attempts[s].pc = "idle"
      BY <2>1 DEF UpdateInit, op, Journal!NoOperation, NoCall, Call
    <3>2. \A f \in {"notes", "checklist"} \cap Asked : Clean(f, task.fields[f])
      BY <2>1 DEF UpdateInit, FreshLines, AppendsFresh, Clean, Asked
    <3> QED
      BY <3>1, <3>2, LacksHasOnce DEF LineInv, Clean, Once, At, Planned
  <2> QED
    BY <2>1, UpdateAssumption, InvInitially
<1>2. UpdateInv /\ LineInv /\ [UpdateNext]_updateVars => UpdateInv' /\ LineInv'
  BY UpdateAssumption, InvStep, LineStep DEF UpdateInv
<1>3. ASSUME LineInv
      PROVE  AppendedOnce
  BY <1>3 DEF LineInv, Once, HasOnce, AppendedOnce, Asked
<1> QED
  BY <1>1, <1>2, <1>3, PTL DEF UpdateSpec

\* Where the update does not change a deadline together with a move to Today, one write is
\* enough: once it is carried out, and nobody else and no new day has interfered since the
\* look it was made from, the loop that waits for it finds all that was asked for.
THEOREM OneWriteIsEnough ==
  ASSUME DeadlineApart
  PROVE  UpdateSpec => []OneWriteSuffices
<1>1. UpdateInit => UpdateInv /\ CallsInv /\ SoloInv /\ EnoughInv
  <2>1. ASSUME UpdateInit
        PROVE  CallsInv /\ SoloInv /\ EnoughInv
    <3>1. /\ flying = {} /\ calls = 0 /\ op.state = "none"
          /\ \A s \in Sessions : /\ attempts[s].pc = "idle" /\ attempts[s].half = "rows"
                                 /\ attempts[s].call = 0 /\ ~attempts[s].landed
      BY <2>1 DEF UpdateInit, op, Journal!NoOperation, NoCall, Call
    <3>2. CallsInv
      BY <3>1 DEF CallsInv, CallOf, At
    <3>3. SoloInv
      BY <3>1 DEF SoloInv, Trying, Writing, At
    <3>4. EnoughInv
      BY <3>1 DEF EnoughInv, DayInv, LookOf, SendOf, EndOf, From, At, Planned
    <3> QED
      BY <3>2, <3>3, <3>4
  <2> QED
    BY <2>1, UpdateAssumption, InvInitially
<1>2. UpdateInv /\ CallsInv /\ SoloInv /\ EnoughInv /\ [UpdateNext]_updateVars =>
        UpdateInv' /\ CallsInv' /\ SoloInv' /\ EnoughInv'
  <2>1. ASSUME UpdateInv, CallsInv, SoloInv, EnoughInv, [UpdateNext]_updateVars
        PROVE  UpdateInv' /\ CallsInv' /\ SoloInv' /\ EnoughInv'
    <3>1. UpdateInv' /\ FullSteps
      BY <2>1, UpdateAssumption, InvStep, StepFull DEF UpdateInv
    <3>2. CallsInv' /\ SoloInv'
      BY <2>1, <3>1, CallsStep, SoloStep DEF UpdateInv
    <3>3. EnoughInv'
      BY <2>1, <3>1, UpdateAssumption, DeadlineApart, EnoughStep DEF UpdateInv
    <3> QED
      BY <3>1, <3>2, <3>3
  <2> QED
    BY <2>1
<1>3. ASSUME UpdateInv, EnoughInv
      PROVE  OneWriteSuffices
  BY <1>3, UpdateAssumption, EndIsDone DEF UpdateInv, OneWriteSuffices
<1> QED
  BY <1>1, <1>2, <1>3, PTL DEF UpdateSpec

=============================================================================
