------------------------------ MODULE TaskUpdate ------------------------------
(***************************************************************************)
(* One update of one to-do, field by field: PrepareTaskUpdate,             *)
(* CheckTaskUpdate and ApplyTaskUpdate of internal/helper/task_update.go,  *)
(* called by every delivery of the job (or by every local call with its    *)
(* key, cmd/things-index/local_writes.go) around one row of the operations table,  *)
(* while the user edits the same to-do, writes arrive late, and days pass. *)
(*                                                                         *)
(* A value is whatever its field compares: a line for the title, a         *)
(* sequence of lines for notes and checklist, a set of tags, a day.  Days  *)
(* are numbers, 0 is "no date".  How Things itself moves a to-do when it   *)
(* is scheduled is external, taken from what scheduleUpdateMatches expects *)
(* and its comments say.                                                   *)
(***************************************************************************)
EXTENDS Integers, Sequences

CONSTANTS
  Sessions,       \* processes: the worker, or a stdio session with its gate
  Requests,       \* the request, and whether there is an authorization token
  Tasks,          \* how the to-do may stand at first
  Edits,          \* what the user may set each field to
  Schedules,      \* where the user may move the to-do
  LastDay,        \* bound: the day on which the run ends
  MaxCalls,       \* bound: deliveries and calls
  MaxEdits        \* bound: edits of the user

Fields == {"title", "notes", "tags", "checklist", "deadline"}
Whens == {"keep", "today", "evening", "anytime", "someday", "date"}

\* How an update, or the user, may move a to-do: its start date cleared, Someday, This
\* Evening, a day.
Moves == {"keep", "clear", "someday", "evening", "day"}

IsTask(t) ==
  /\ t = [fields |-> t.fields, start |-> t.start, date |-> t.date, bucket |-> t.bucket,
          pinned |-> t.pinned, open |-> t.open]
  /\ t.fields = [f \in Fields |-> t.fields[f]]

ASSUME UpdateAssumption ==
  /\ \A r \in Requests : DOMAIN r.set \subseteq Fields /\ r.when \in Whens
  /\ \A t \in Tasks : IsTask(t)
  /\ \A to \in Schedules : to.when \in Moves
  /\ LastDay \in Nat \ {0} /\ MaxCalls \in Nat /\ MaxEdits \in Nat

VARIABLES
  request, task, today,
  operations,   \* the row of the journal, its saved plan included
  attempts,     \* what each session is doing
  flying,       \* writes handed to Things and not carried out, or not wholly
  calls, edits,
  edited,       \* history: what somebody else has changed
  clashed,      \* history: fields an attempt was refused for
  met           \* history: parts of the plan that have been as requested

updateVars == <<request, task, today, operations, attempts, flying, calls, edits, edited,
                clashed, met>>
counters == <<request, calls, edits>>

NoPlan == [safe |-> TRUE]

Journal == INSTANCE OperationJournal WITH
  Ids <- {"update"}, Payloads <- {"request"}, Results <- {}, None <- NoPlan,
  deliveries <- [id \in {"update"} |-> [state |-> "none"]]

op == operations["update"]

Call(pc, number, plan) ==
  [pc |-> pc, half |-> "rows", call |-> number, plan |-> plan, rows |-> NoPlan,
   touched |-> {}, landed |-> FALSE]
NoCall == Call("idle", 0, NoPlan)

Reading == {"prepare", "check", "apply", "verify"}

UpdateTypeOK ==
  /\ request \in Requests
  /\ today \in 1 .. LastDay
  /\ op.state \in Journal!OperationStates
  /\ op.state \in Journal!Planned => DOMAIN op.plan.after = DOMAIN request.set
  /\ \A s \in Sessions :
       /\ attempts[s].pc \in Reading \cup {"idle", "record", "dispatch", "send", "finish"}
       /\ attempts[s].half = "dates" => attempts[s].pc \in Reading
  /\ \A w \in flying : DOMAIN w.fields \subseteq DOMAIN request.set
  /\ clashed \subseteq DOMAIN request.set
  /\ met \subseteq DOMAIN request.set \cup {"schedule"}

UpdateInit ==
  /\ request \in Requests
  /\ task \in Tasks
  /\ today = 1
  /\ operations = [id \in {"update"} |-> Journal!NoOperation]
  /\ attempts = [s \in Sessions |-> NoCall]
  /\ flying = {}
  /\ calls = 0 /\ edits = 0
  /\ edited = {} /\ clashed = {} /\ met = {}

-----------------------------------------------------------------------------
(* Things (external)                                                       *)

Due(day) == day # 0 /\ day <= today

\* The list Today: by a date, by a due deadline, or put there by hand.
InToday(t) == t.pinned \/ (t.start = 1 /\ Due(t.date)) \/ Due(t.fields["deadline"])

\* What the "when" of an update does to a to-do.
Scheduled(t, w) ==
  CASE w.when = "keep"    -> t
    [] w.when = "clear"   -> [t EXCEPT !.start = 1, !.date = 0, !.bucket = 0, !.pinned = FALSE]
    [] w.when = "someday" -> [t EXCEPT !.start = 2, !.date = 0, !.bucket = 0, !.pinned = FALSE]
    [] w.when = "evening" -> [t EXCEPT !.start = 1, !.date = today, !.bucket = 1, !.pinned = FALSE]
    [] w.when = "day"     -> [t EXCEPT !.start = IF w.day <= today THEN 1 ELSE 2,
                                       !.date = w.day, !.bucket = 0, !.pinned = FALSE]

\* All fields are replaced but the checklist, which is appended to.
Written(t, fields) ==
  [t EXCEPT !.fields = [f \in Fields |->
     IF f \notin DOMAIN fields THEN @[f]
     ELSE IF f = "checklist" THEN @[f] \o fields[f] ELSE fields[f]]]

-----------------------------------------------------------------------------
(* Reading, planning and comparing                                         *)

NeedsTodayMembership(when, date) == when \in {"today", "evening", "anytime"} /\ date = 0

\* The rows come from SQLite, the dates and the membership later from AppleScript.
Rows == [fields |-> task.fields, start |-> task.start, bucket |-> task.bucket,
         raw |-> task.date, index |-> task.pinned]

Seen(rows, when) ==
  [fields |-> [rows.fields EXCEPT !["deadline"] = task.fields["deadline"]],
   schedule |-> [start |-> rows.start, bucket |-> rows.bucket, raw |-> rows.raw,
                 index |-> rows.index, date |-> task.date,
                 member |-> NeedsTodayMembership(when, task.date) /\ InToday(task)]]

\* Each requested tag is there already, or is looked up and added.
DesiredTags(old) == old \cup request.set["tags"]

\* Appended notes become a replacement, added tags a replacement set; the checklist
\* keeps its rows and gets more.
Wanted(f, old) ==
  CASE f \in {"title", "deadline"}  -> request.set[f]
    [] f \in {"notes", "checklist"} -> old \o request.set[f]
    [] f = "tags"                   -> DesiredTags(old)

\* Mutant: only This Evening is kept from being replayed.
SafeWithChecklist == request.when # "evening"
ReplaySafe == "checklist" \notin DOMAIN request.set /\ request.when # "evening"

Plan(seen) ==
  [safe |-> ReplaySafe,
   before |-> [f \in DOMAIN request.set |-> seen.fields[f]],
   after |-> [f \in DOMAIN request.set |-> Wanted(f, seen.fields[f])],
   when |-> request.when,
   day |-> CASE request.when \in {"today", "evening"} -> today
             [] request.when = "date" -> request.day
             [] OTHER -> 0,
   schedule |-> seen.schedule]

NeedsToken ==
  \/ DOMAIN request.set \ {"title", "notes"} # {}
  \/ request.when \notin {"keep", "today"}

ScheduleUpdateMatches(plan, s, due) ==
  LET onDay == s.date = plan.day \/ (s.date = 0 /\ plan.day = today /\ s.member) IN
  CASE plan.when = "keep"    -> TRUE
    [] plan.when = "evening" -> s.bucket = 1 /\ s.start = 1 /\ onDay
    [] plan.when = "today"   -> s.bucket = 0 /\ s.start = 1 /\ onDay
    [] plan.when = "someday" -> s.start = 2 /\ s.date = 0
    [] plan.when = "anytime" -> s.start = 1 /\ s.date = 0 /\ (s.member => Due(due))
    [] plan.when = "date"    -> s.date = plan.day

ScheduleMet(plan, seen) ==
  ScheduleUpdateMatches(plan, seen.schedule, seen.fields["deadline"])

Unmet(plan, seen) == {f \in DOMAIN plan.after : seen.fields[f] # plan.after[f]}

\* Mutant: a field that has its new value already is taken for an edit.
ClashesIfWritten(plan, seen) == {f \in DOMAIN plan.after : seen.fields[f] # plan.before[f]}

\* taskUpdateStatus: a field that stands neither before nor after the change clashes.
Clashes(plan, seen) ==
  {f \in Unmet(plan, seen) : seen.fields[f] # plan.before[f]}
ScheduleClashes(plan, seen) == ~ScheduleMet(plan, seen) /\ seen.schedule # plan.schedule
Clash(plan, seen) == Clashes(plan, seen) # {} \/ ScheduleClashes(plan, seen)
Done(plan, seen) == Unmet(plan, seen) = {} /\ ScheduleMet(plan, seen)

\* Mutant: the deadline that is about to change still excuses a to-do in Today.
DueNow(plan, seen) == seen.fields["deadline"]
DueAfter(plan, seen) ==
  IF "deadline" \in DOMAIN plan.after THEN plan.after["deadline"] ELSE seen.fields["deadline"]

WhenSent(plan, seen) ==
  IF /\ ScheduleMet(plan, seen)
     /\ ScheduleUpdateMatches(plan, seen.schedule, DueAfter(plan, seen))
    THEN "keep"
    ELSE CASE plan.when = "anytime"               -> "clear"
           [] plan.when \in {"someday", "evening"} -> plan.when
           [] OTHER                                -> "day"

\* Mutant: the write names every field, as it was read or as it is to be.
WriteAll(s, seen) ==
  LET plan == attempts[s].plan IN
  [fields |-> [f \in Fields |-> IF f \in DOMAIN plan.after THEN plan.after[f]
                                                           ELSE seen.fields[f]],
   when |-> WhenSent(plan, seen),
   day |-> plan.day, call |-> attempts[s].call, touched |-> attempts[s].touched]

Write(s, seen) ==
  LET plan == attempts[s].plan IN
  [fields |-> [f \in Unmet(plan, seen) |->
                 IF f = "checklist" THEN request.set[f] ELSE plan.after[f]],
   when |-> WhenSent(plan, seen),
   day |-> plan.day, call |-> attempts[s].call, touched |-> attempts[s].touched]

-----------------------------------------------------------------------------
(* One call of Processor.Process, up to its error or its result            *)

At(s, pc) == attempts[s].pc = pc
Goto(s, pc) ==
  attempts' = [attempts EXCEPT ![s].pc = pc, ![s].half = "rows", ![s].rows = NoPlan,
                 ![s].touched = IF pc = "verify" THEN @ ELSE {}]
Return(s) == attempts' = [attempts EXCEPT ![s] = NoCall]
Enter(s, pc, plan) == attempts' = [attempts EXCEPT ![s] = Call(pc, calls + 1, plan)]

\* A delivery, or a local call that has entered its session's gate; EnsureOperation and
\* the branch on what it found.
Begin(s) ==
  /\ At(s, "idle") /\ calls < MaxCalls
  /\ calls' = calls + 1
  /\ Journal!EnsureOperation("update", "request")
  /\ \/ op.state \in {"none", "received"} /\ Enter(s, "prepare", NoPlan)
     \/ op.state = "prepared" /\ Enter(s, "dispatch", op.plan)
     \/ op.state = "dispatched" /\ Enter(s, "check", op.plan)
     \/ op.state \in Journal!Settled /\ UNCHANGED attempts
  /\ UNCHANGED <<request, task, today, flying, edits, edited, clashed>>

\* The first half of readTaskUpdateState.
ReadRows(s) ==
  /\ attempts[s].pc \in Reading /\ attempts[s].half = "rows"
  /\ IF task.open /\ (At(s, "prepare") /\ NeedsToken => request.token)
       THEN attempts' = [attempts EXCEPT ![s].half = "dates", ![s].rows = Rows,
                           ![s].touched = IF At(s, "verify") THEN @ ELSE {}]
       ELSE Return(s)
  /\ UNCHANGED <<counters, task, today, operations, flying, edited, clashed>>

\* The second half: now the caller has the whole to go by.
ReadDates(s, purpose) == At(s, purpose) /\ attempts[s].half = "dates"
Whole(s) == Seen(attempts[s].rows, request.when)

Prepare(s) ==
  /\ ReadDates(s, "prepare")
  /\ attempts' = [attempts EXCEPT ![s] = Call("record", @.call, Plan(Whole(s)))]
  /\ UNCHANGED <<counters, task, today, operations, flying, edited, clashed>>

Record(s) ==
  /\ At(s, "record")
  /\ \/ Journal!PrepareOperation("update", attempts[s].plan) /\ Goto(s, "dispatch")
     \/ ~Journal!OperationIn("update", "received") /\ Return(s) /\ UNCHANGED operations
  /\ UNCHANGED <<counters, task, today, flying, edited, clashed>>

Dispatch(s) ==
  /\ At(s, "dispatch")
  /\ \/ Journal!MarkOperationDispatched("update") /\ Goto(s, "apply")
     \/ ~Journal!OperationIn("update", "prepared") /\ Return(s) /\ UNCHANGED operations
  /\ UNCHANGED <<counters, task, today, flying, edited, clashed>>

Refuse(s, seen) ==
  /\ Return(s)
  /\ clashed' = clashed \cup Clashes(attempts[s].plan, seen)

Check(s) ==
  LET plan == attempts[s].plan
      seen == Whole(s)
  IN
  /\ ReadDates(s, "check")
  /\ \/ Clash(plan, seen) /\ Refuse(s, seen)
     \/ Done(plan, seen) /\ Goto(s, "finish") /\ UNCHANGED clashed
     \/ /\ ~Clash(plan, seen) /\ ~Done(plan, seen)
        /\ IF plan.safe THEN Goto(s, "apply") ELSE Return(s)
        /\ UNCHANGED clashed
  /\ UNCHANGED <<counters, task, today, operations, flying, edited>>

\* Mutant: what CheckTaskUpdate or the preparation read is good enough to write from.
ApplyFromPlan(s) ==
  LET plan == attempts[s].plan
      seen == [fields |-> [f \in Fields |-> IF f \in DOMAIN plan.before THEN plan.before[f]
                                                                       ELSE task.fields[f]],
               schedule |-> plan.schedule]
  IN
  /\ At(s, "apply")
  /\ attempts' = [attempts EXCEPT ![s].pc = "send", ![s].half = "rows", ![s].rows = seen]
  /\ UNCHANGED <<counters, task, today, operations, flying, edited, clashed>>

Apply(s) ==
  LET plan == attempts[s].plan
      seen == Whole(s)
  IN
  /\ ReadDates(s, "apply")
  /\ \/ Clash(plan, seen) /\ Refuse(s, seen)
     \/ Done(plan, seen) /\ Goto(s, "finish") /\ UNCHANGED clashed
     \/ /\ ~Clash(plan, seen) /\ ~Done(plan, seen)
        /\ IF plan.when = "evening" /\ plan.day # today
             THEN Return(s)
             ELSE attempts' = [attempts EXCEPT ![s].pc = "send", ![s].half = "rows",
                                               ![s].rows = seen]
        /\ UNCHANGED clashed
  /\ UNCHANGED <<counters, task, today, operations, flying, edited>>

\* With a token one URL, without one a script.
Send(s) ==
  /\ At(s, "send")
  /\ flying' = flying \cup {Write(s, attempts[s].rows)}
  /\ Goto(s, "verify")
  /\ UNCHANGED <<counters, task, today, operations, edited, clashed>>

\* Mutant: a command that exited 0 is taken for a write that took effect.
VerifyNot(s) ==
  /\ At(s, "verify")
  /\ Goto(s, "finish")
  /\ UNCHANGED <<counters, task, today, operations, flying, edited, clashed>>

\* One round of the verification loop, whose errors of taskUpdateStatus are ignored.
Verify(s) ==
  /\ ReadDates(s, "verify")
  /\ Goto(s, IF Done(attempts[s].plan, Whole(s)) THEN "finish" ELSE "verify")
  /\ UNCHANGED <<counters, task, today, operations, flying, edited, clashed>>

Finish(s) ==
  /\ At(s, "finish")
  /\ \/ Journal!CompleteOperation("update", attempts[s].plan, FALSE)
     \/ ~Journal!OperationIn("update", "dispatched") /\ UNCHANGED operations
  /\ Return(s)
  /\ UNCHANGED <<counters, task, today, flying, edited, clashed>>

\* An error, a time-out or the end of the process, anywhere.
Abandon(s) ==
  /\ ~At(s, "idle")
  /\ Return(s)
  /\ UNCHANGED <<counters, task, today, operations, flying, edited, clashed>>

-----------------------------------------------------------------------------
(* What reaches Things, and who else changes the to-do                     *)

\* Whoever sent w and still verifies it now has it.
Landed(w) ==
  attempts' = [s \in Sessions |->
                 IF At(s, "verify") /\ attempts[s].call = w.call
                   THEN [attempts[s] EXCEPT !.landed = TRUE] ELSE attempts[s]]

UrlArrives(w) ==
  /\ request.token
  /\ task' = Scheduled(Written(task, w.fields), w)
  /\ flying' = flying \ {w}
  /\ Landed(w)
  /\ UNCHANGED <<counters, today, operations, edited, clashed>>

\* The statements of a script, in their order.
StatementRuns(w) ==
  LET f == IF "title" \in DOMAIN w.fields THEN "title" ELSE "notes"
      rest == [g \in DOMAIN w.fields \ {f} |-> w.fields[g]]
      left == [w EXCEPT !.fields = rest]
  IN
  /\ ~request.token
  /\ IF DOMAIN w.fields # {}
       THEN /\ task' = Written(task, [g \in {f} |-> w.fields[g]])
            /\ IF rest = <<>> /\ w.when = "keep"
                 THEN flying' = flying \ {w} /\ Landed(w)
                 ELSE flying' = (flying \ {w}) \cup {left} /\ UNCHANGED attempts
       ELSE /\ task' = Scheduled(task, w)
            /\ flying' = flying \ {w}
            /\ Landed(w)
  /\ UNCHANGED <<counters, today, operations, edited, clashed>>

\* Things rejects the write, or the script ends here.
WriteIsLost(w) ==
  /\ flying' = flying \ {w}
  /\ UNCHANGED <<counters, task, today, operations, attempts, edited, clashed>>

Touch(parts) ==
  /\ attempts' = [s \in Sessions |->
                    IF attempts[s].pc \in {"apply", "send", "verify"}
                      THEN [attempts[s] EXCEPT !.touched = @ \cup parts] ELSE attempts[s]]
  /\ flying' = {[w EXCEPT !.touched = @ \cup parts] : w \in flying}
  /\ edited' = edited \cup parts

\* Only what the update looks at matters to it.
Watched(f) ==
  f \in DOMAIN request.set \/ (f = "deadline" /\ NeedsTodayMembership(request.when, 0))

UserEdits ==
  /\ edits < MaxEdits /\ edits' = edits + 1
  /\ \/ \E f \in {f \in Fields : Watched(f)} : \E v \in Edits[f] \ {task.fields[f]} :
          /\ task' = [task EXCEPT !.fields[f] = v]
          /\ Touch(IF f = "deadline" THEN {f, "schedule"} ELSE {f})
     \/ \E to \in Schedules :
          /\ request.when # "keep"
          /\ task' = [Scheduled(task, to) EXCEPT !.pinned = to.pinned]
          /\ Touch({"schedule"})
     \/ task.open /\ task' = [task EXCEPT !.open = FALSE] /\ Touch({})
  /\ UNCHANGED <<request, calls, today, operations, clashed>>

DayPasses ==
  /\ today < LastDay /\ request.when # "keep"
  /\ today' = today + 1
  /\ Touch({"schedule"})
  /\ UNCHANGED <<counters, task, operations, clashed>>

-----------------------------------------------------------------------------

Attempt(s) ==
  \/ Begin(s)
  \/ ReadRows(s)
  \/ Prepare(s)
  \/ Record(s)
  \/ Dispatch(s)
  \/ Check(s)
  \/ Apply(s)
  \/ Send(s)
  \/ Verify(s)
  \/ Finish(s)
  \/ Abandon(s)

ThingsStep == \E w \in flying : UrlArrives(w) \/ StatementRuns(w) \/ WriteIsLost(w)

\* The to-do as one look at it would show it.
Now == Seen(Rows, request.when)

MetNow ==
  IF op.state \notin Journal!Planned THEN {}
  ELSE (DOMAIN op.plan.after \ Unmet(op.plan, Now))
         \cup (IF ScheduleMet(op.plan, Now) THEN {"schedule"} ELSE {})

UpdateNext ==
  /\ (\E s \in Sessions : Attempt(s)) \/ ThingsStep \/ UserEdits \/ DayPasses
  /\ met' = met \cup MetNow'

UpdateSpec == UpdateInit /\ [][UpdateNext]_updateVars

-----------------------------------------------------------------------------
(* Properties                                                              *)

\* A write never replaces what its sender could have seen was not his to replace:
\* whoever's edit it undoes made it after the sender's last look.
NothingSeenIsOverwritten ==
  \A w \in flying : \A f \in DOMAIN w.fields \ w.touched :
    task.fields[f] \in {op.plan.before[f], op.plan.after[f]}

\* However often the update is tried, what it appends is there at most once.
Occurrences(lines, line) == {i \in DOMAIN lines : lines[i] = line}

AppendedOnce ==
  \A f \in {"notes", "checklist"} \cap DOMAIN request.set :
    \A i, j \in DOMAIN task.fields[f] :
      i # j => ~(task.fields[f][i] = request.set[f][1] /\ task.fields[f][j] = request.set[f][1])

\* An update that is called done has brought about all it was asked for: each field,
\* and the schedule unless it was moved meanwhile.
DoneIsReal ==
  op.state \in Journal!Settled =>
    DOMAIN request.set \cup ({"schedule"} \ edited) \subseteq met

\* What one delivery has written is no conflict to the next, even if only a part of it
\* took effect or it arrived long after: a field clashes only when it was edited.
NoSelfConflict == clashed \subseteq edited

\* One write is enough: once it is carried out and nobody else interferes, the loop
\* that waits for it finds the requested state, whatever the schedule and the deadline
\* were before.
OneWriteSuffices ==
  \A s \in Sessions :
    At(s, "verify") /\ attempts[s].landed /\ attempts[s].touched = {} =>
      Done(attempts[s].plan, Now)

\* A deadline that is changed together with the schedule is no conflict with the schedule
\* ("a combined deadline change must not itself create a schedule conflict",
\* scheduleUpdateMatches): while nobody else changes the to-do and no write is under way,
\* it stands as requested or as planned from.
OwnDeadlineIsNoConflict ==
  op.state \in Journal!Planned /\ flying = {} /\ edited = {} =>
    ~ScheduleClashes(op.plan, Now)

=============================================================================
