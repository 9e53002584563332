---------------------------- MODULE CapturePromise ----------------------------
(***************************************************************************)
(* What a capture promises the one who asked for it, with no leases,       *)
(* workers, markers or URLs in it: Things is asked for one task at most,   *)
(* and only when the worker will remember that; a success names a task of  *)
(* the job's own that has got its title; an outcome is given once; and the *)
(* worker forgets a task only when the queue has kept its success.         *)
(***************************************************************************)
CONSTANTS Ids, Results, None

VARIABLES
  status,      \* "absent", "pending", "succeeded" or "failed", per job
  outcome,     \* the task a succeeded job names
  tasks,       \* the tasks Things was asked for, since the job was queued
  owner,       \* the job each task was asked for
  named,       \* tasks that wait no longer for their title
  remembered   \* jobs the worker has a record of

vars == <<status, outcome, tasks, owner, named, remembered>>

Init ==
  /\ status = [id \in Ids |-> "absent"]
  /\ outcome = [id \in Ids |-> None]
  /\ tasks = [id \in Ids |-> {}]
  /\ owner = [x \in Results |-> None]
  /\ named = {}
  /\ remembered = {}

Submit(id) ==
  /\ status[id] = "absent"
  /\ status' = [status EXCEPT ![id] = "pending"]
  /\ outcome' = [outcome EXCEPT ![id] = None]
  /\ tasks' = [tasks EXCEPT ![id] = {}]
  /\ UNCHANGED <<owner, named, remembered>>

Remember(id) ==
  /\ status[id] # "absent"
  /\ remembered' = remembered \cup {id}
  /\ UNCHANGED <<status, outcome, tasks, owner, named>>

AskForTask(id, x) ==
  /\ status[id] # "absent" /\ id \in remembered
  /\ tasks[id] = {} /\ owner[x] = None
  /\ tasks' = [tasks EXCEPT ![id] = {x}]
  /\ owner' = [owner EXCEPT ![x] = id]
  /\ UNCHANGED <<status, outcome, named, remembered>>

\* A task gets its title, or the user takes it over.
Name(x) ==
  /\ owner[x] # None
  /\ named' = named \cup {x}
  /\ UNCHANGED <<status, outcome, tasks, owner, remembered>>

Succeed(id, x) ==
  /\ status[id] = "pending"
  /\ owner[x] = id /\ x \in named
  /\ status' = [status EXCEPT ![id] = "succeeded"]
  /\ outcome' = [outcome EXCEPT ![id] = x]
  /\ UNCHANGED <<tasks, owner, named, remembered>>

\* Several jobs may fail at once.
GiveUp(failing) ==
  /\ \A id \in failing : status[id] = "pending"
  /\ status' = [id \in Ids |-> IF id \in failing THEN "failed" ELSE status[id]]
  /\ UNCHANGED <<outcome, tasks, owner, named, remembered>>

\* Retention on the server's side.
Forget(gone) ==
  /\ \A id \in gone : status[id] \in {"succeeded", "failed"}
  /\ status' = [id \in Ids |-> IF id \in gone THEN "absent" ELSE status[id]]
  /\ outcome' = [id \in Ids |-> IF id \in gone THEN None ELSE outcome[id]]
  /\ UNCHANGED <<tasks, owner, named, remembered>>

\* Retention on the worker's side: of a task that was asked for only when the job
\* has succeeded.
LetGo(gone) ==
  /\ \A id \in gone : tasks[id] # {} => status[id] \in {"absent", "succeeded"}
  /\ remembered' = remembered \ gone
  /\ UNCHANGED <<status, outcome, tasks, owner, named>>

Next ==
  \/ \E id \in Ids : Submit(id) \/ Remember(id)
  \/ \E id \in Ids, x \in Results : AskForTask(id, x) \/ Succeed(id, x)
  \/ \E x \in Results : Name(x)
  \/ \E jobs \in SUBSET Ids : GiveUp(jobs) \/ Forget(jobs) \/ LetGo(jobs)

Spec == Init /\ [][Next]_vars

===============================================================================
