----------------------------- MODULE WritePromise ------------------------------
(***************************************************************************)
(* What a write other than a capture promises the one who asked for it,    *)
(* with no leases, workers or processes in it.  The worker takes a request *)
(* down, settles what it is about, and only then begins; a write that must *)
(* not be repeated is handed over once, an update to one item only; what   *)
(* is saved did happen, or is a project that was met and left as it is,    *)
(* and says so; what the queue calls a success is what was saved; and the  *)
(* record is let go when the queue keeps that outcome.                     *)
(***************************************************************************)
EXTENDS Integers

CONSTANTS Ids, Payloads, Results, None, Projects, Updates, Unsafe

VARIABLES
  status,    \* "absent", "pending", "succeeded" or "failed", per job
  payload,   \* what a job asks for
  outcome,   \* the item a succeeded job names
  stage,     \* of the worker's record: "none", "taken", "aimed", "begun", "saved", "kept"
  request,   \* what the record says was asked for
  aim,       \* the item an update is about
  saved,     \* the item that was saved as the result
  differs,   \* that the result says the item was left as it is, not as requested
  sent,      \* how often a write was handed over for the record, per item
  changed,   \* items that did get the change
  met        \* projects of the requested title that were there with other fields

vars == <<status, payload, outcome, stage, request, aim, saved, differs, sent, changed, met>>
queueVars == <<status, payload, outcome>>
recordVars == <<stage, request, aim, saved, differs, sent>>
itemVars == <<changed, met>>

Unsent == [x \in Results |-> 0]

Init ==
  /\ status = [id \in Ids |-> "absent"]
  /\ payload = [id \in Ids |-> None]
  /\ outcome = [id \in Ids |-> None]
  /\ stage = [id \in Ids |-> "none"]
  /\ request = [id \in Ids |-> None]
  /\ aim = [id \in Ids |-> None]
  /\ saved = [id \in Ids |-> None]
  /\ differs = [id \in Ids |-> FALSE]
  /\ sent = [id \in Ids |-> Unsent]
  /\ changed = {} /\ met = {}

-----------------------------------------------------------------------------
(* The queue                                                               *)

Submit(id, p) ==
  /\ status[id] = "absent"
  /\ status' = [status EXCEPT ![id] = "pending"]
  /\ payload' = [payload EXCEPT ![id] = p]
  /\ outcome' = [outcome EXCEPT ![id] = None]
  /\ UNCHANGED <<recordVars, itemVars>>

\* A record of this very request must have the outcome.
Succeed(id, x) ==
  /\ status[id] = "pending"
  /\ request[id] = payload[id] => saved[id] = x
  /\ status' = [status EXCEPT ![id] = "succeeded"]
  /\ outcome' = [outcome EXCEPT ![id] = x]
  /\ UNCHANGED <<payload, recordVars, itemVars>>

\* Several jobs may fail at once.
GiveUp(failing) ==
  /\ \A id \in failing : status[id] = "pending"
  /\ status' = [id \in Ids |-> IF id \in failing THEN "failed" ELSE status[id]]
  /\ UNCHANGED <<payload, outcome, recordVars, itemVars>>

Forget(gone) ==
  /\ \A id \in gone : status[id] \in {"succeeded", "failed"}
  /\ status' = [id \in Ids |-> IF id \in gone THEN "absent" ELSE status[id]]
  /\ payload' = [id \in Ids |-> IF id \in gone THEN None ELSE payload[id]]
  /\ outcome' = [id \in Ids |-> IF id \in gone THEN None ELSE outcome[id]]
  /\ UNCHANGED <<recordVars, itemVars>>

-----------------------------------------------------------------------------
(* The worker's record                                                     *)

\* A job that has succeeded gets no record any more.
Take(id, p) ==
  /\ stage[id] = "none"
  /\ payload[id] = p /\ status[id] \in {"pending", "failed"}
  /\ stage' = [stage EXCEPT ![id] = "taken"]
  /\ request' = [request EXCEPT ![id] = p]
  /\ UNCHANGED <<queueVars, aim, saved, differs, sent, itemVars>>

Aim(id, x) ==
  /\ stage[id] = "taken"
  /\ x # None <=> request[id] \in Updates
  /\ stage' = [stage EXCEPT ![id] = "aimed"]
  /\ aim' = [aim EXCEPT ![id] = x]
  /\ UNCHANGED <<queueVars, request, saved, differs, sent, itemVars>>

Begin(id) ==
  /\ stage[id] = "aimed"
  /\ stage' = [stage EXCEPT ![id] = "begun"]
  /\ UNCHANGED <<queueVars, request, aim, saved, differs, sent, itemVars>>

HandOver(id, x) ==
  /\ stage[id] \in {"begun", "saved", "kept"}
  /\ request[id] \in Updates => x = aim[id]
  /\ request[id] \in Unsafe => sent[id] = Unsent
  /\ ~differs[id]
  /\ sent' = [sent EXCEPT ![id][x] = IF @ = 0 THEN 1 ELSE 2]
  /\ UNCHANGED <<queueVars, stage, request, aim, saved, differs, itemVars>>

Change(x) ==
  /\ changed' = changed \cup {x}
  /\ UNCHANGED <<queueVars, recordVars, met>>

Meet(x) ==
  /\ met' = met \cup {x}
  /\ UNCHANGED <<queueVars, recordVars, changed>>

Save(id, x) ==
  /\ stage[id] = "begun"
  /\ \/ x \in changed /\ UNCHANGED differs
     \/ /\ request[id] \in Projects /\ x \in met
        /\ sent[id] = Unsent
        /\ differs' = [differs EXCEPT ![id] = TRUE]
  /\ stage' = [stage EXCEPT ![id] = "saved"]
  /\ saved' = [saved EXCEPT ![id] = x]
  /\ UNCHANGED <<queueVars, request, aim, sent, itemVars>>

Keep(id) ==
  /\ stage[id] = "saved"
  /\ status[id] = "succeeded" /\ outcome[id] = saved[id]
  /\ stage' = [stage EXCEPT ![id] = "kept"]
  /\ UNCHANGED <<queueVars, request, aim, saved, differs, sent, itemVars>>

LetGo(gone) ==
  /\ \A id \in gone : stage[id] = "kept"
  /\ stage' = [id \in Ids |-> IF id \in gone THEN "none" ELSE stage[id]]
  /\ request' = [id \in Ids |-> IF id \in gone THEN None ELSE request[id]]
  /\ aim' = [id \in Ids |-> IF id \in gone THEN None ELSE aim[id]]
  /\ saved' = [id \in Ids |-> IF id \in gone THEN None ELSE saved[id]]
  /\ differs' = [id \in Ids |-> IF id \in gone THEN FALSE ELSE differs[id]]
  /\ sent' = [id \in Ids |-> IF id \in gone THEN Unsent ELSE sent[id]]
  /\ UNCHANGED <<queueVars, itemVars>>

-----------------------------------------------------------------------------

Next ==
  \/ \E id \in Ids, p \in Payloads : Submit(id, p) \/ Take(id, p)
  \/ \E id \in Ids, x \in Results : Succeed(id, x) \/ HandOver(id, x) \/ Save(id, x)
  \/ \E id \in Ids, x \in Results \cup {None} : Aim(id, x)
  \/ \E id \in Ids : Begin(id) \/ Keep(id)
  \/ \E x \in Results : Change(x) \/ Meet(x)
  \/ \E some \in SUBSET Ids : GiveUp(some) \/ Forget(some) \/ LetGo(some)

Spec == Init /\ [][Next]_vars

===============================================================================
