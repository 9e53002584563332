--------------------------- MODULE CaptureDelivery ----------------------------
(***************************************************************************)
(* One capture, from the queue to Things and back: the capture path of     *)
(* internal/worker/processor.go with its journal, and the parts of         *)
(* internal/helper/client.go that create, find and rename the task, inside *)
(* the loop of WorkerRuntime.                                              *)
(*                                                                         *)
(* The workers share one journal.  Things is reached through URLs that are *)
(* handed over and carried out later, or never.                            *)
(***************************************************************************)
EXTENDS WorkerRuntime

VARIABLES
  deliveries,  \* the journal
  things,      \* the tasks in Things, by identifier
  renames,     \* tasks with an update URL on its way
  made         \* history: the tasks an add URL was sent for, since the row was queued

INSTANCE Journal

captureVars == <<deliveries, things, renames, made>>
deliveryVars == <<runtimeVars, captureVars>>

\* Inside Processor.Process; in each of these places it may also return an error.
Processing ==
  {"ensure", "find", "claim", "capture", "verify", "save", "reload", "finalise",
   "rename", "confirm", "seal"}

\* Places that are reached only with a Things identifier in hand.
Identified == {"save", "reload", "finalise", "rename", "confirm", "seal", "reported"}

\* A title is the pending marker, the requested title, or what the user made of it;
\* a task whose add URL Things has not carried out yet is "flying".
Titles == {"none", "flying", "pending", "final", "edited", "trashed"}
TaskStates == [job : Ids \cup {None}, title : Titles]

DeliveryTypeOK ==
  /\ RuntimeTypeOK(Processing)
  /\ JournalTypeOK
  /\ \A w \in Workers :
       /\ workers[w].id = None <=> workers[w].pc \in {"idle", "polling"}
       /\ workers[w].pc \in Identified => workers[w].task # None
  /\ things \in [Results -> TaskStates]
  /\ renames \in SUBSET Results
  /\ made \in [Ids -> SUBSET Results]

DeliveryInit ==
  /\ RuntimeInit
  /\ JournalInit
  /\ things = [x \in Results |-> [job |-> None, title |-> "none"]]
  /\ renames = {}
  /\ made = [id \in Ids |-> {}]

thingsVars == <<things, renames>>

\* A client enqueues a job.
Ask(id, payload) ==
  /\ Enqueue(id, payload)
  /\ made' = [made EXCEPT ![id] = {}]
  /\ UNCHANGED <<deliveries, thingsVars>>

-----------------------------------------------------------------------------
(* Processor.Process, for a capture                                        *)

\* Journal.Ensure, and the branch on what it found.  Branching on the entry as it
\* was before the insert tells a fresh entry apart.
Ensure(w) ==
  LET id == workers[w].id
      entry == deliveries[id]
  IN
  /\ At(w, "ensure")
  /\ EnsureDelivery(id, workers[w].payload)
  /\ \/ /\ Recorded(id) /\ entry.payload # workers[w].payload
        /\ ReportFailure(w, FALSE)
     \/ /\ ~Recorded(id) \/ entry.payload = workers[w].payload
        /\ \/ entry.state \in {"none", "received"} /\ Step(w, "claim") /\ UNCHANGED mail
           \/ entry.state = "creating" /\ Step(w, "find") /\ UNCHANGED mail
           \/ /\ entry.state = "created"
              /\ Become(w, [workers[w] EXCEPT !.pc = "finalise", !.task = entry.task])
              /\ UNCHANGED mail
           \/ entry.state \in {"finalised", "reported"} /\ ReportOutcome(w, entry.task)
  /\ UNCHANGED <<storeVars, thingsVars, made, counters>>

\* Tasks that carry the pending marker of job id.
Marked(id) == {x \in Results : things[x] = [job |-> id, title |-> "pending"]}

\* Mutant: an empty answer of the query is taken for an identifier.
FindUnchecked(w) ==
  LET found == Marked(workers[w].id) IN
  /\ At(w, "find")
  /\ \E x \in IF found = {} THEN {None} ELSE found :
       Become(w, [workers[w] EXCEPT !.pc = "save", !.task = x])
  /\ UNCHANGED <<storeVars, deliveries, thingsVars, mail, made, counters>>

\* An interrupted creation: look for its marker.
Find(w) ==
  LET found == Marked(workers[w].id) IN
  /\ At(w, "find")
  /\ \/ \E x \in found :
          /\ found = {x}
          /\ Become(w, [workers[w] EXCEPT !.pc = "save", !.task = x])
          /\ UNCHANGED mail
     \/ Cardinality(found) # 1 /\ ReportFailure(w, FALSE)
  /\ UNCHANGED <<storeVars, deliveries, thingsVars, made, counters>>

Claim(w) ==
  /\ At(w, "claim")
  /\ \/ MarkCreating(workers[w].id) /\ Step(w, "capture") /\ UNCHANGED mail
     \/ /\ ~In(workers[w].id, {"received"})
        /\ ReportFailure(w, TRUE)
        /\ UNCHANGED deliveries
  /\ UNCHANGED <<storeVars, thingsVars, made, counters>>

\* Helper.Capture hands the add URL to Things; x is the identifier Things gives the
\* task if it ever carries the URL out.  The fallback to the Inbox happens before
\* anything is handed over.
DispatchAdd(w, x) ==
  LET id == workers[w].id IN
  /\ At(w, "capture")
  /\ things[x].title = "none"
  /\ things' = [things EXCEPT ![x] = [job |-> id, title |-> "flying"]]
  /\ made' = [made EXCEPT ![id] = @ \cup {x}]
  /\ Step(w, "verify")
  /\ UNCHANGED <<storeVars, deliveries, renames, mail, counters>>

\* ... and polls for its marker.
VerifyAdd(w) ==
  LET found == Marked(workers[w].id) IN
  /\ At(w, "verify")
  /\ \/ \E x \in found :
          /\ found = {x}
          /\ Become(w, [workers[w] EXCEPT !.pc = "save", !.task = x])
          /\ UNCHANGED mail
     \/ Cardinality(found) > 1 /\ ReportFailure(w, FALSE)
  /\ UNCHANGED <<storeVars, deliveries, thingsVars, made, counters>>

Save(w) ==
  LET id == workers[w].id IN
  /\ At(w, "save")
  /\ \/ MarkCreated(id, workers[w].task) /\ Step(w, "reload") /\ UNCHANGED mail
     \/ ~In(id, {"creating"}) /\ ReportFailure(w, TRUE) /\ UNCHANGED deliveries
  /\ UNCHANGED <<storeVars, thingsVars, made, counters>>

\* Journal.Get after MarkCreated: another process may have moved on already.
Reload(w) ==
  LET entry == deliveries[workers[w].id] IN
  /\ At(w, "reload")
  /\ \/ entry.state = "created" /\ Step(w, "finalise") /\ UNCHANGED mail
     \/ entry.state = "finalised" /\ ReportOutcome(w, entry.task)
     \/ entry.state \in {"none", "reported"} /\ ReportFailure(w, TRUE)
  /\ UNCHANGED <<storeVars, deliveries, thingsVars, made, counters>>

\* Helper.FinaliseCapture reads the title before it changes it.
FinaliseCapture(w) ==
  LET title == things[workers[w].task].title IN
  /\ At(w, "finalise")
  /\ \/ title = "final" /\ Step(w, "seal") /\ UNCHANGED mail
     \/ title = "pending" /\ Step(w, "rename") /\ UNCHANGED mail
     \/ title = "edited" /\ ReportFailure(w, FALSE)
     \/ title = "trashed" /\ ReportFailure(w, TRUE)
  /\ UNCHANGED <<storeVars, deliveries, thingsVars, made, counters>>

DispatchRename(w) ==
  /\ At(w, "rename")
  /\ renames' = renames \cup {workers[w].task}
  /\ Step(w, "confirm")
  /\ UNCHANGED <<storeVars, deliveries, things, mail, made, counters>>

\* Mutant: open's exit status is taken for success.
ConfirmBlindly(w) ==
  /\ At(w, "confirm")
  /\ Step(w, "seal")
  /\ UNCHANGED <<storeVars, deliveries, thingsVars, mail, made, counters>>

Confirm(w) ==
  /\ At(w, "confirm")
  /\ things[workers[w].task].title = "final"
  /\ Step(w, "seal")
  /\ UNCHANGED <<storeVars, deliveries, thingsVars, mail, made, counters>>

Seal(w) ==
  LET id == workers[w].id IN
  /\ At(w, "seal")
  /\ \/ MarkFinalised(id) /\ ReportOutcome(w, workers[w].task)
     \/ ~In(id, {"created"}) /\ ReportFailure(w, TRUE) /\ UNCHANGED deliveries
  /\ UNCHANGED <<storeVars, thingsVars, made, counters>>

\* A statement fails, a command fails or times out, a verification window closes,
\* or the job's 45 seconds are over: all retryable.
Stumble(w) ==
  /\ workers[w].pc \in Processing
  /\ ReportFailure(w, TRUE)
  /\ UNCHANGED <<storeVars, deliveries, thingsVars, made, counters>>

\* The server has acknowledged the completion.
Acknowledged(w) ==
  LET id == workers[w].id IN
  /\ At(w, "reported")
  /\ \/ MarkReported(id)
     \/ ~In(id, {"finalised", "reported"}) /\ UNCHANGED deliveries
  /\ Become(w, IdleWorker)
  /\ UNCHANGED <<storeVars, thingsVars, mail, made, counters>>

-----------------------------------------------------------------------------
(* Things and its user                                                     *)

\* Things carries out an add URL, or drops it.
AddArrives(x) ==
  /\ things[x].title = "flying"
  /\ \E title \in {"pending", "trashed"} : things' = [things EXCEPT ![x].title = title]
  /\ UNCHANGED <<storeVars, deliveries, workers, renames, mail, made, counters>>

\* The same for an update URL; it overwrites whatever the title is by then.
RenameArrives(x) ==
  /\ x \in renames
  /\ renames' = renames \ {x}
  /\ \/ things[x].title # "trashed" /\ things' = [things EXCEPT ![x].title = "final"]
     \/ UNCHANGED things
  /\ UNCHANGED <<storeVars, deliveries, workers, mail, made, counters>>

UserEdits(x) ==
  /\ things[x].title \in {"pending", "final"}
  /\ \E title \in {"edited", "trashed"} : things' = [things EXCEPT ![x].title = title]
  /\ UNCHANGED <<storeVars, deliveries, workers, renames, mail, made, counters>>

-----------------------------------------------------------------------------
(* Time                                                                    *)

\* Retention is counted in days: nothing of the job is still under way by then.
Quiet(id) ==
  /\ \A w \in Workers : workers[w].id # id
  /\ \A m \in mail : m.id # id
  /\ \A x \in Results : things[x].job = id => things[x].title # "flying" /\ x \notin renames

DaysPass ==
  /\ \E id \in Ids :
       \/ Quiet(id) /\ RetentionPasses(id) /\ UNCHANGED deliveries
       \/ Quiet(id) /\ EntryAges(id) /\ UNCHANGED storeVars
  /\ UNCHANGED <<workers, thingsVars, mail, made, counters>>

Sweep ==
  /\ \/ PruneTerminal /\ UNCHANGED deliveries
     \/ PruneReported /\ UNCHANGED storeVars
  /\ UNCHANGED <<workers, thingsVars, mail, made, counters>>

-----------------------------------------------------------------------------

Process(w) ==
  \/ Ensure(w)
  \/ Find(w)
  \/ Claim(w)
  \/ \E x \in Results : DispatchAdd(w, x)
  \/ VerifyAdd(w)
  \/ Save(w)
  \/ Reload(w)
  \/ FinaliseCapture(w)
  \/ DispatchRename(w)
  \/ Confirm(w)
  \/ Seal(w)
  \/ Stumble(w)
  \/ Acknowledged(w)

WorkerStep(w) == Process(w) \/ (WorkerLoop(w) /\ UNCHANGED captureVars)

ThingsStep == \E x \in Results : AddArrives(x) \/ RenameArrives(x) \/ UserEdits(x)

DeliveryNext ==
  \/ \E id \in Ids, p \in Payloads : Ask(id, p)
  \/ \E w \in Workers : WorkerStep(w)
  \/ Serve /\ UNCHANGED captureVars
  \/ ThingsStep
  \/ Failure /\ UNCHANGED captureVars
  \/ Lapse /\ UNCHANGED captureVars
  \/ DaysPass
  \/ Sweep

DeliverySpec == DeliveryInit /\ [][DeliveryNext]_deliveryVars

\* The worker loops for ever, the server answers, and clocks run.
Fairness ==
  /\ \A w \in Workers : WF_deliveryVars(WorkerStep(w))
  /\ WF_deliveryVars(Serve /\ UNCHANGED captureVars)
  /\ WF_deliveryVars(Lapse /\ UNCHANGED captureVars)

FairDeliverySpec == DeliverySpec /\ Fairness

-----------------------------------------------------------------------------
(* Properties                                                              *)

\* However often a job is delivered, crashes, times out or is reported in vain,
\* and whatever the two retention sweeps delete meanwhile, Things is asked to
\* create at most one task for it.
OneTaskPerJob == \A id \in Ids : Cardinality(made[id]) <= 1

\* A job that the server calls succeeded names a task that Things created for it
\* and that no longer carries the pending marker.
SuccessIsReal ==
  \A id \in Ids : jobs[id].state = "succeeded" =>
    /\ things[jobs[id].result].job = id
    /\ things[jobs[id].result].title \in {"final", "edited", "trashed"}

\* The journal calls a delivery reported, and so lets retention have it, only when
\* the server has kept an outcome: the row whose delivery made the task is never
\* still waiting, and never failed.
ReportedMeansKept ==
  \A id \in Ids :
    deliveries[id].state = "reported" /\ Present(id) /\ made[id] # {} =>
      jobs[id].state = "succeeded"

\* The job and its task seen from outside: a row is pending until it is finished, a task
\* waits for its title while it is on its way or carries the pending marker.
Promise == INSTANCE CapturePromise WITH
  status <- [id \in Ids |-> StatusOf(jobs[id])],
  outcome <- [id \in Ids |-> jobs[id].result],
  tasks <- made,
  owner <- [x \in Results |-> things[x].job],
  named <- {x \in Results : things[x].title \in {"final", "edited", "trashed"}},
  remembered <- {id \in Ids : Recorded(id)}

\* Queue, workers, journal and Things together do what CapturePromise says and no more,
\* whatever is delivered again, lost, answered late or forgotten on the way.
KeepsCapturePromise == Promise!Spec

\* Every job is settled in the end, however its deliveries go.
JobsSettle == \A id \in Ids : jobs[id].state = "queued" ~> Finished(id)

=============================================================================
