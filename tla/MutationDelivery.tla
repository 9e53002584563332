--------------------------- MODULE MutationDelivery ---------------------------
(***************************************************************************)
(* Every write that is not a capture, from the queue to Things and back:   *)
(* Processor.processMutation of internal/worker/mutations.go with its      *)
(* journal, inside the loop of WorkerRuntime, and as much of the helper as *)
(* tells a write that was sent from one that took effect.                  *)
(*                                                                         *)
(* Requests are of four kinds.  Native writes (projects, areas, tags,      *)
(* headings, archiving) are sent at most once; the creation of a project   *)
(* settles for one of that title that is there.  Updates follow a saved    *)
(* plan; those that append to a checklist or choose This Evening must not  *)
(* be replayed, the others may.  Captures only compete for the identifier: *)
(* CaptureDelivery has what happens to them.  TaskUpdate has what a plan   *)
(* says field by field; here an item stands before the change, after it,   *)
(* alike (an active project of the requested title and area, with other    *)
(* fields) or elsewhere (edited, closed, trashed).                         *)
(***************************************************************************)
EXTENDS WorkerRuntime

CONSTANTS
  Natives,   \* payloads that are native writes
  Projects,  \* native writes that create a project
  Updates,   \* payloads that are task updates
  Appends    \* updates whose plan is not replay-safe

ASSUME KindAssumption ==
  /\ Natives \cup Updates \subseteq Payloads
  /\ Projects \subseteq Natives
  /\ Appends \subseteq Updates
  /\ Natives \cap Updates = {}

Captures == Payloads \ (Natives \cup Updates)
Unsafe == Natives \cup Appends

VARIABLES
  deliveries,
  operations,  \* the two tables of the journal
  items,       \* where each item of Things stands
  flying,      \* writes handed over and not carried out yet, by item
  sent,        \* history: writes handed over for a job, by item, since it is journalled
  changed,     \* history: items that did get the requested change
  met          \* history: items that were a project alike

INSTANCE OperationJournal

journalVars == <<deliveries, operations>>
thingsVars == <<items, flying, changed, met>>
writeVars == <<journalVars, thingsVars, sent>>
mutationVars == <<runtimeVars, writeVars>>

\* Inside Processor.Process; in each of these places it may also return an error.
Processing ==
  {"ensure", "capture", "prepare", "record", "dispatch", "check", "look", "send", "poll",
   "finish", "reuse"}

Standings == {"before", "after", "alike", "elsewhere"}

\* Two stands for "more than once".
Counts == 0 .. 2
OneMore(n) == IF n < 2 THEN n + 1 ELSE n

MutationTypeOK ==
  /\ RuntimeTypeOK(Processing)
  /\ OperationsTypeOK
  /\ \A id \in Ids : operations[id].state \in Planned =>
       (operations[id].plan # None <=> operations[id].payload \in Updates)
  /\ items \in [Results -> Standings]
  /\ flying \in [Results -> Counts]
  /\ sent \in [Ids -> [Results -> Counts]]
  /\ changed \in SUBSET Results /\ met \in SUBSET Results

MutationInit ==
  /\ RuntimeInit
  /\ OperationsInit
  /\ items = [x \in Results |-> "before"]
  /\ flying = [x \in Results |-> 0]
  /\ sent = [id \in Ids |-> [x \in Results |-> 0]]
  /\ changed = {} /\ met = {}

Is(w, kind) == workers[w].payload \in kind
About(w) == workers[w].task
Aim(w, pc, x) == Become(w, [workers[w] EXCEPT !.pc = pc, !.task = x])

-----------------------------------------------------------------------------
(* Processor.Process                                                       *)

\* Journal.Ensure for a capture, and the branch on what it found.
EnsureCapture(w) ==
  LET id == workers[w].id
      entry == deliveries'[id]
  IN
  /\ At(w, "ensure") /\ Is(w, Captures)
  /\ \/ KeptFromDeliveries(id) /\ ReportFailure(w, FALSE) /\ UNCHANGED deliveries
     \/ /\ ~KeptFromDeliveries(id)
        /\ EnsureDelivery(id, workers[w].payload)
        /\ \/ entry.payload # workers[w].payload /\ ReportFailure(w, FALSE)
           \/ /\ entry.payload = workers[w].payload
              /\ IF entry.state \in {"finalised", "reported"}
                   THEN ReportOutcome(w, entry.task)
                   ELSE Step(w, "capture") /\ UNCHANGED mail
  /\ UNCHANGED <<storeVars, counters, operations, thingsVars, sent>>

\* The capture comes to its end, one way or another.
CaptureEnds(w) ==
  LET id == workers[w].id IN
  /\ At(w, "capture")
  /\ \/ \E retryable \in BOOLEAN : ReportFailure(w, retryable) /\ UNCHANGED deliveries
     \/ \E x \in Results :
          /\ In(id, {"received", "creating", "created"})
          /\ deliveries' = [deliveries EXCEPT ![id] = Entry("finalised", @.payload, x)]
          /\ ReportOutcome(w, x)
  /\ UNCHANGED <<storeVars, counters, operations, thingsVars, sent>>

\* EnsureOperation, and the branch on what it found.
EnsureWrite(w) ==
  LET id == workers[w].id
      op == operations'[id]
  IN
  /\ At(w, "ensure") /\ ~Is(w, Captures)
  /\ \/ KeptFromOperations(id) /\ ReportFailure(w, FALSE) /\ UNCHANGED operations
     \/ /\ EnsureOperation(id, workers[w].payload)
        /\ \/ op.payload # workers[w].payload /\ ReportFailure(w, FALSE)
           \/ /\ op.payload = workers[w].payload
              /\ \/ op.state \in Settled /\ ReportOutcome(w, op.result)
                 \/ /\ op.state = "received"
                    /\ Step(w, IF Is(w, Updates) THEN "prepare" ELSE "record")
                    /\ UNCHANGED mail
                 \/ op.state = "prepared" /\ Aim(w, "dispatch", op.plan) /\ UNCHANGED mail
                 \/ /\ op.state = "dispatched" /\ Is(w, Updates)
                    /\ Aim(w, "check", op.plan)
                    /\ UNCHANGED mail
                 \/ op.state = "dispatched" /\ Is(w, Natives) /\ ReportFailure(w, FALSE)
  /\ UNCHANGED <<storeVars, counters, deliveries, thingsVars, sent>>

\* PrepareTaskUpdate resolves the item; which one a title names depends on the moment.
Prepare(w) ==
  /\ At(w, "prepare")
  /\ \/ \E x \in Results :
          items[x] \in {"before", "after"} /\ Aim(w, "record", x) /\ UNCHANGED mail
     \/ ReportFailure(w, FALSE)
  /\ UNCHANGED <<storeVars, counters, writeVars>>

Record(w) ==
  LET id == workers[w].id IN
  /\ At(w, "record")
  /\ \/ PrepareOperation(id, About(w)) /\ Step(w, "dispatch") /\ UNCHANGED mail
     \/ ~OperationIn(id, "received") /\ ReportFailure(w, TRUE) /\ UNCHANGED operations
  /\ UNCHANGED <<storeVars, counters, deliveries, thingsVars, sent>>

Dispatch(w) ==
  LET id == workers[w].id IN
  /\ At(w, "dispatch")
  /\ \/ MarkOperationDispatched(id) /\ Step(w, "look") /\ UNCHANGED mail
     \/ ~OperationIn(id, "prepared") /\ ReportFailure(w, TRUE) /\ UNCHANGED operations
  /\ UNCHANGED <<storeVars, counters, deliveries, thingsVars, sent>>

\* Mutant: an update that was not verified is replayed whatever its plan says.
CheckAndReplay(w) ==
  /\ At(w, "check")
  /\ \/ items[About(w)] = "after" /\ Step(w, "finish") /\ UNCHANGED mail
     \/ items[About(w)] = "before" /\ Step(w, "look") /\ UNCHANGED mail
     \/ items[About(w)] \in {"alike", "elsewhere"} /\ ReportFailure(w, FALSE)
  /\ UNCHANGED <<storeVars, counters, writeVars>>

\* CheckTaskUpdate for an update that may have been sent before.
Check(w) ==
  /\ At(w, "check")
  /\ \/ items[About(w)] = "after" /\ Step(w, "finish") /\ UNCHANGED mail
     \/ /\ items[About(w)] = "before"
        /\ IF Is(w, Appends) THEN ReportFailure(w, FALSE)
                             ELSE Step(w, "look") /\ UNCHANGED mail
     \/ items[About(w)] \in {"alike", "elsewhere"} /\ ReportFailure(w, FALSE)
  /\ UNCHANGED <<storeVars, counters, writeVars>>

\* ApplyTaskUpdate and the native writes look before they write: what is as it should
\* be is left alone, what is not as expected is an error.  A native write finds its
\* item now, an update has it from its plan.  A project that is alike is reused as it
\* is; headings are renamed and archived without a look at how they are.
Look(w) ==
  /\ At(w, "look")
  /\ \/ \E x \in Results :
          /\ Is(w, Updates) => x = About(w)
          /\ UNCHANGED mail
          /\ \/ items[x] = "after" /\ Aim(w, "finish", x)
             \/ items[x] = "before" /\ Aim(w, "send", x)
             \/ items[x] = "after" /\ Is(w, Natives) /\ Aim(w, "send", x)
             \/ items[x] = "alike" /\ Is(w, Projects) /\ Aim(w, "reuse", x)
     \/ /\ Is(w, Updates) => items[About(w)] \in {"alike", "elsewhere"}
        /\ ReportFailure(w, FALSE)
  /\ UNCHANGED <<storeVars, counters, writeVars>>

\* A URL or a script is handed to Things.
Send(w) ==
  LET x == About(w) IN
  /\ At(w, "send")
  /\ flying' = [flying EXCEPT ![x] = OneMore(@)]
  /\ sent' = [sent EXCEPT ![workers[w].id][x] = OneMore(@)]
  /\ Step(w, "poll")
  /\ UNCHANGED <<storeVars, counters, mail, journalVars, items, changed, met>>

\* Mutant: a command that exited 0 is taken for a write that took effect.
PollNot(w) ==
  /\ At(w, "poll")
  /\ Step(w, "finish")
  /\ UNCHANGED <<storeVars, counters, mail, writeVars>>

\* Only the read-back counts; a native write that is not verified in time may also be
\* an error of the permanent kind.
PollWrite(w) ==
  /\ At(w, "poll")
  /\ \/ items[About(w)] = "after" /\ Step(w, "finish") /\ UNCHANGED mail
     \/ Is(w, Natives) /\ ReportFailure(w, FALSE)
  /\ UNCHANGED <<storeVars, counters, writeVars>>

\* Mutant: the result is reported although it could not be saved.
FinishUnsaved(w) ==
  LET id == workers[w].id IN
  /\ workers[w].pc \in {"finish", "reuse"}
  /\ CompleteOperation(id, About(w), At(w, "reuse")) \/ UNCHANGED operations
  /\ ReportOutcome(w, About(w))
  /\ UNCHANGED <<storeVars, counters, deliveries, thingsVars, sent>>

\* finishMutation; what was reused as it is says so in its warnings.
Finish(w) ==
  LET id == workers[w].id IN
  /\ workers[w].pc \in {"finish", "reuse"}
  /\ \/ CompleteOperation(id, About(w), At(w, "reuse")) /\ ReportOutcome(w, About(w))
     \/ ~OperationIn(id, "dispatched") /\ ReportFailure(w, TRUE) /\ UNCHANGED operations
  /\ UNCHANGED <<storeVars, counters, deliveries, thingsVars, sent>>

\* A statement, a command or a verification fails or times out: all retryable.
Stumble(w) ==
  /\ workers[w].pc \in Processing
  /\ ReportFailure(w, TRUE)
  /\ UNCHANGED <<storeVars, counters, writeVars>>

\* Processor.MarkReported, once the server has acknowledged the completion.
Acknowledged(w) ==
  LET id == workers[w].id IN
  /\ At(w, "reported")
  /\ \/ HasOperation(id) /\ MarkOperationReported(id) /\ UNCHANGED deliveries
     \/ ~HasOperation(id) /\ MarkReported(id) /\ UNCHANGED operations
     \/ /\ ~OperationIn(id, "applied") /\ ~In(id, {"finalised"})
        /\ UNCHANGED journalVars
  /\ Become(w, IdleWorker)
  /\ UNCHANGED <<storeVars, counters, mail, thingsVars, sent>>

-----------------------------------------------------------------------------
(* Things and its user                                                     *)

\* A write is carried out, or dropped.
WriteArrives(x) ==
  /\ flying[x] > 0
  /\ flying' = [flying EXCEPT ![x] = @ - 1]
  /\ \/ items' = [items EXCEPT ![x] = "after"] /\ changed' = changed \cup {x}
     \/ UNCHANGED <<items, changed>>
  /\ UNCHANGED <<runtimeVars, journalVars, sent, met>>

\* Only the creation of a project tells an item alike from one elsewhere, and it looks
\* while its row is dispatched: bound, items become alike no earlier than that.
CreatesProject == \E id \in Ids : OperationIn(id, "dispatched") /\ operations[id].payload \in Projects

\* The user changes the item, undoes the change, or makes it himself, as asked or alike.
UserEdits(x) ==
  /\ \E standing \in Standings \ {items[x]} :
       /\ standing = "alike" => CreatesProject
       /\ items' = [items EXCEPT ![x] = standing]
       /\ changed' = IF standing = "after" THEN changed \cup {x} ELSE changed
       /\ met' = IF standing = "alike" THEN met \cup {x} ELSE met
  /\ UNCHANGED <<runtimeVars, journalVars, flying, sent>>

-----------------------------------------------------------------------------
(* Time                                                                    *)

\* Retention is counted in days: nothing of the job is still under way by then.
Quiet(id) ==
  /\ \A w \in Workers : workers[w].id # id
  /\ \A m \in mail : m.id # id
  /\ \A x \in Results : flying[x] = 0

DaysPass ==
  /\ \E id \in Ids :
       /\ Quiet(id)
       /\ \/ RetentionPasses(id) /\ UNCHANGED journalVars
          \/ EntryAges(id) /\ UNCHANGED <<storeVars, operations>>
          \/ OperationAges(id) /\ UNCHANGED <<storeVars, deliveries>>
  /\ UNCHANGED <<workers, mail, counters, thingsVars, sent>>

\* The server's sweep, and the two statements of the worker's.
Sweep ==
  /\ \/ PruneTerminal /\ UNCHANGED <<journalVars, sent>>
     \/ PruneReported /\ UNCHANGED <<storeVars, operations, sent>>
     \/ /\ PruneOperations
        /\ sent' = [id \in Ids |-> IF AcknowledgedAndOld(id) THEN [x \in Results |-> 0]
                                                             ELSE sent[id]]
        /\ UNCHANGED <<storeVars, deliveries>>
  /\ UNCHANGED <<workers, mail, counters, thingsVars>>

-----------------------------------------------------------------------------

Ask(id, payload) == Enqueue(id, payload) /\ UNCHANGED writeVars

Process(w) ==
  \/ EnsureCapture(w)
  \/ CaptureEnds(w)
  \/ EnsureWrite(w)
  \/ Prepare(w)
  \/ Record(w)
  \/ Dispatch(w)
  \/ Check(w)
  \/ Look(w)
  \/ Send(w)
  \/ PollWrite(w)
  \/ Finish(w)
  \/ Stumble(w)
  \/ Acknowledged(w)

WorkerStep(w) == Process(w) \/ (WorkerLoop(w) /\ UNCHANGED writeVars)

ThingsStep == \E x \in Results : WriteArrives(x) \/ UserEdits(x)

MutationNext ==
  \/ \E id \in Ids, p \in Payloads : Ask(id, p)
  \/ \E w \in Workers : WorkerStep(w)
  \/ Serve /\ UNCHANGED writeVars
  \/ ThingsStep
  \/ Failure /\ UNCHANGED writeVars
  \/ Lapse /\ UNCHANGED writeVars
  \/ DaysPass
  \/ Sweep

MutationSpec == MutationInit /\ [][MutationNext]_mutationVars

-----------------------------------------------------------------------------
(* Properties                                                              *)

\* However often a job is delivered, by however many processes at once, and wherever
\* one of them dies, a write that must not be repeated is handed to Things at most
\* once for as long as the journal remembers the job.
UnsafeSentOnce ==
  \A id \in Ids : operations[id].payload \in Unsafe =>
    \A x, y \in Results :
      sent[id][x] > 0 /\ sent[id][y] > 0 => x = y /\ sent[id][x] = 1

\* All deliveries of an update write to the item that the first plan names, also when
\* the title it was found by fits another item by now.
OneTarget ==
  \A id \in Ids : \A x \in Results :
    sent[id][x] > 0 /\ operations[id].payload \in Updates => x = operations[id].plan

\* What the server calls succeeded is what the journal has saved: a later delivery can
\* only repeat the outcome the caller was given.
SavedOutcomeStands ==
  \A id \in Ids :
    jobs[id].state = "succeeded" /\ operations[id].payload = jobs[id].payload =>
      /\ operations[id].state \in Settled
      /\ operations[id].result = jobs[id].result

\* A saved outcome is about an item that did get the change, or it says that it is not:
\* then it is about a project to be created, one of that title was there with other
\* fields, and nothing was ever handed over for the job.
SavedOutcomeIsReal ==
  \A id \in Ids : operations[id].state \in Settled =>
    IF operations[id].differs
      THEN /\ operations[id].payload \in Projects
           /\ operations[id].result \in met
           /\ \A x \in Results : sent[id][x] = 0
      ELSE operations[id].result \in changed

\* An identifier is journalled as a capture or as another write, never as both,
\* although a key may come back with another kind of request when the server has
\* forgotten it.
OneKindPerIdentifier == \A id \in Ids : ~(Recorded(id) /\ HasOperation(id))

\* The journal lets go of a write only when the server keeps its outcome.
ReportedWhenKept ==
  [][\A id \in Ids :
       operations[id].state = "applied" /\ operations'[id].state = "reported" =>
         jobs[id].state = "succeeded" /\ jobs[id].result = operations[id].result]_mutationVars

\* How far the journal's row of a job is, in the terms of WritePromise.
Stage(state) ==
  CASE state = "none" -> "none"
    [] state = "received" -> "taken"
    [] state = "prepared" -> "aimed"
    [] state = "dispatched" -> "begun"
    [] state = "applied" -> "saved"
    [] state = "reported" -> "kept"

\* The job and its write seen from outside.
Promise == INSTANCE WritePromise WITH
  status <- [id \in Ids |-> StatusOf(jobs[id])],
  payload <- [id \in Ids |-> jobs[id].payload],
  outcome <- [id \in Ids |-> jobs[id].result],
  stage <- [id \in Ids |-> Stage(operations[id].state)],
  request <- [id \in Ids |-> operations[id].payload],
  aim <- [id \in Ids |-> operations[id].plan],
  saved <- [id \in Ids |-> operations[id].result],
  differs <- [id \in Ids |-> operations[id].differs]

\* Queue, processes, journal and Things together do what WritePromise says and no more,
\* whatever is delivered again, lost, answered late or forgotten on the way.
KeepsWritePromise == Promise!Spec

=============================================================================
