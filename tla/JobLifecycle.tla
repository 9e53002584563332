----------------------------- MODULE JobLifecycle -----------------------------
(***************************************************************************)
(* What the queue promises to the callers of the MCP tools, with no leases,*)
(* tokens, workers or handlers in it: a job exists only because a caller   *)
(* asked for it, it is settled once, its outcome stays until retention     *)
(* forgets the job, and callers are told what happened and nothing else.   *)
(***************************************************************************)
CONSTANTS Ids, Callers, Payloads, Results, None

VARIABLES
  status,   \* "absent", "pending", "succeeded" or "failed", per job
  payload,  \* what a job that is not absent was asked to do
  result,   \* what a succeeded job reported
  asked,    \* the <<job, payload>> a caller asked for, or <<None, None>>
  told      \* the <<status, result>> a caller was last told, or Silence

vars == <<status, payload, result, asked, told>>

Nothing == <<None, None>>
Silence == <<"none", None>>

Init ==
  /\ status = [id \in Ids |-> "absent"]
  /\ payload = [id \in Ids |-> None]
  /\ result = [id \in Ids |-> None]
  /\ asked = [c \in Callers |-> Nothing]
  /\ told = [c \in Callers |-> Silence]

\* A caller asks, and may be refused at once because the identifier is already
\* taken by a different payload.
Ask(c, id, p) ==
  /\ asked[c] = Nothing
  /\ asked' = [asked EXCEPT ![c] = <<id, p>>]
  /\ \/ told' = told
     \/ /\ status[id] # "absent" /\ payload[id] # p
        /\ told' = [told EXCEPT ![c] = <<"conflict", None>>]
  /\ UNCHANGED <<status, payload, result>>

\* The job of an unanswered caller enters the queue.
Admit(c) ==
  LET id == asked[c][1] IN
  /\ asked[c] # Nothing /\ told[c] = Silence
  /\ status[id] = "absent"
  /\ status' = [status EXCEPT ![id] = "pending"]
  /\ payload' = [payload EXCEPT ![id] = asked[c][2]]
  /\ UNCHANGED <<result, asked, told>>

Succeed(id, r) ==
  /\ status[id] = "pending"
  /\ status' = [status EXCEPT ![id] = "succeeded"]
  /\ result' = [result EXCEPT ![id] = r]
  /\ UNCHANGED <<payload, asked, told>>

\* Several jobs may fail at once.
GiveUp(failing) ==
  /\ \A id \in failing : status[id] = "pending"
  /\ status' = [id \in Ids |-> IF id \in failing THEN "failed" ELSE status[id]]
  /\ UNCHANGED <<payload, result, asked, told>>

\* An answer is true when it is given, and an outcome is the last answer.
Answer(c) ==
  LET id == asked[c][1] IN
  /\ asked[c] # Nothing
  /\ told[c] = Silence \/ told[c] = <<"queued", None>>
  /\ \E s \in {"queued", "conflict", "error", "succeeded", "failed"} :
       /\ s = "succeeded" => status[id] = "succeeded"
       /\ s = "failed" => status[id] = "failed"
       /\ s = "conflict" => status[id] # "absent" /\ payload[id] # asked[c][2]
       /\ told' = [told EXCEPT ![c] =
                     <<s, IF s = "succeeded" THEN result[id] ELSE None>>]
  /\ UNCHANGED <<status, payload, result, asked>>

\* Retention forgets settled jobs; a restart of the server also loses the calls
\* that were waiting.
Forget(gone, dropped) ==
  /\ \A id \in gone : status[id] \in {"succeeded", "failed"}
  /\ \A c \in dropped : asked[c] # Nothing /\ told[c] = Silence
  /\ status' = [id \in Ids |-> IF id \in gone THEN "absent" ELSE status[id]]
  /\ payload' = [id \in Ids |-> IF id \in gone THEN None ELSE payload[id]]
  /\ result' = [id \in Ids |-> IF id \in gone THEN None ELSE result[id]]
  /\ told' = [c \in Callers |-> IF c \in dropped THEN <<"error", None>> ELSE told[c]]
  /\ UNCHANGED asked

Next ==
  \/ \E c \in Callers, id \in Ids, p \in Payloads : Ask(c, id, p)
  \/ \E c \in Callers : Admit(c)
  \/ \E id \in Ids, r \in Results : Succeed(id, r)
  \/ \E failing \in SUBSET Ids : GiveUp(failing)
  \/ \E c \in Callers : Answer(c)
  \/ \E gone \in SUBSET Ids, dropped \in SUBSET Callers : Forget(gone, dropped)

Spec == Init /\ [][Next]_vars

=============================================================================
