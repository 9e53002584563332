------------------------ MODULE CaptureDeliveryProofs -------------------------
(***************************************************************************)
(* Theorems about CaptureDelivery, for every number of workers, jobs and   *)
(* tasks: at most one task is asked for per job, and a success is a task   *)
(* that Things made for the job and that has its title.                    *)
(*                                                                         *)
(* The argument: a worker may create only while the row is in "creating"   *)
(* and it alone took it there, and a row is forgotten only when nobody     *)
(* holds the job and nobody can lease it again (KeptInv, which needs the   *)
(* facts about leases of LedgerInv).                                       *)
(***************************************************************************)
EXTENDS CaptureDelivery, WorkerRuntimeProofs, FiniteSetTheorems

-----------------------------------------------------------------------------
(* The inductive invariant                                                 *)

SettledTitles == {"final", "edited", "trashed"}
Unfinished == {"flying", "pending"}
Located == {"created", "finalised", "reported"}

\* The tasks of a job that are still to be renamed.
Live(id) == {x \in Results : things[x].job = id /\ things[x].title \in Unfinished}

\* Places with the row's own task in hand.
Owning == {"reload", "finalise", "rename", "confirm", "seal"}

\* What a worker inside Processor.Process has from its row is so.
WorkOK(w) ==
  LET id == workers[w].id
      task == workers[w].task
      entry == deliveries[id]
  IN
  /\ workers[w].pc \in Processing \ {"ensure"} =>
       entry.state # "none" /\ (entry.state = "reported" => ~entry.aged)
  /\ workers[w].pc \in {"find", "capture", "verify", "save"} => entry.state # "received"
  /\ At(w, "capture") => entry.state = "creating" /\ made[id] = {} /\ Live(id) = {}
  /\ At(w, "save") => task \in Results /\ things[task].job = id /\ Live(id) \subseteq {task}
  /\ workers[w].pc \in Owning => entry.state \in Located /\ task = entry.task
  /\ At(w, "seal") => things[task].title \in SettledTitles

\* Who creates is alone with the row.
CaptureAlone ==
  \A w, v \in Workers :
    At(w, "capture") /\ workers[v].id = workers[w].id /\ workers[v].pc \in {"capture", "save"}
      => v = w

EntryOK(id) ==
  LET entry == deliveries[id] IN
  /\ entry.state \in Located => entry.task \in Results /\ things[entry.task].job = id
  /\ entry.state \in {"none", "received", "finalised", "reported"} => Live(id) = {}
  /\ entry.state = "received" => made[id] = {}
  /\ entry.state = "created" => Live(id) \subseteq {entry.task}
  /\ entry.state \in {"finalised", "reported"} =>
       things[entry.task].title \in SettledTitles

\* Of a job that had its task made the row goes only with the job.
KeptOK(id) ==
  made[id] # {} =>
    /\ deliveries[id].state \in {"none", "reported"} => SucceededIfThere(id)
    /\ \/ deliveries[id].state = "none"
       \/ deliveries[id].state = "reported" /\ deliveries[id].aged
       => NobodyHas(id)

ThingsInv ==
  /\ deliveries \in [Ids -> Entries]
  /\ things \in [Results -> TaskStates]
  /\ renames \in SUBSET Results
  /\ made \in [Ids -> SUBSET Results]
  /\ \A x \in Results : things[x].title = "none" <=> things[x].job = None
  /\ \A x \in renames : things[x].job # None
  /\ \A id \in Ids : \A x, y \in Live(id) : x = y
  /\ \A id \in Ids : \A x, y \in made[id] : x = y

\* A completion on its way, and one that was accepted, is about a real task.
RealInv ==
  /\ \A m \in mail : m.task # None =>
       things[m.task].job = m.id /\ things[m.task].title \in SettledTitles
  /\ \A id \in Ids : jobs[id].state = "succeeded" =>
       /\ jobs[id].result \in Results
       /\ things[jobs[id].result].job = id
       /\ things[jobs[id].result].title \in SettledTitles

CaptureInv ==
  /\ RuntimeInv(Processing)
  /\ LedgerInv
  /\ ThingsInv
  /\ \A w \in Workers : WorkOK(w)
  /\ CaptureAlone
  /\ \A id \in Ids : EntryOK(id) /\ KeptOK(id)
  /\ RealInv

-----------------------------------------------------------------------------
(* What a step keeps                                                       *)

\* A row that is there stays, moves forward, and keeps its task.
EntryKept(id) ==
  deliveries[id].state # "none" =>
    /\ deliveries'[id].state # "none"
    /\ deliveries[id].state # "received" => deliveries'[id].state # "received"
    /\ deliveries[id].state \in Located =>
         deliveries'[id].state \in Located /\ deliveries'[id].task = deliveries[id].task
    /\ (deliveries[id].state = "reported" => ~deliveries[id].aged) =>
         (deliveries'[id].state = "reported" => ~deliveries'[id].aged)

ThingsKept ==
  \A x \in Results : things[x].job # None =>
    /\ things'[x].job = things[x].job
    /\ things[x].title \in SettledTitles => things'[x].title \in SettledTitles

LiveKept(id) == Live(id)' \subseteq Live(id)

\* A row is as it was, or is in use, or was just acknowledged for a success.
InUse(id) ==
  \/ deliveries'[id] = deliveries[id]
  \/ deliveries'[id].state \notin {"none", "reported"}
  \/ deliveries'[id].state = "reported" /\ ~deliveries'[id].aged /\ SucceededIfThere(id)

\* A worker keeps its place, or goes where it cannot create.
Harmless(v) == workers'[v] = workers[v] \/ workers'[v].pc \notin {"capture", "save"}

LEMMA OthersOK ==
  ASSUME CaptureInv, NEW v \in Workers, workers'[v] = workers[v],
         workers[v].pc \in Processing \ {"ensure"} =>
           /\ EntryKept(workers[v].id) /\ ThingsKept
           /\ workers[v].pc \in {"capture", "save"} => LiveKept(workers[v].id)
           /\ At(v, "capture") => /\ deliveries'[workers[v].id].state = "creating"
                                  /\ made'[workers[v].id] = {}
  PROVE  WorkOK(v)'
<1> DEFINE id == workers[v].id
<1>1. WorkOK(v) /\ ThingsInv
  BY DEF CaptureInv
<1>2. CASE workers[v].pc \in Processing \ {"ensure"}
  <2>1. id \in Ids /\ id # None
    BY <1>2, StoreAssumption DEF CaptureInv, RuntimeInv, LeaseShape, Processing
  <2>2. EntryOK(id)
    BY <2>1 DEF CaptureInv
  <2>3. At(v, "seal") =>
          workers[v].task \in Results /\ things[workers[v].task].job # None
    BY <1>1, <2>1, <2>2 DEF WorkOK, EntryOK, At, Owning
  <2> QED
    BY <1>1, <1>2, <2>1, <2>3
       DEF WorkOK, At, Owning, EntryKept, ThingsKept, LiveKept, Located, SettledTitles
<1>3. CASE workers[v].pc \notin Processing \ {"ensure"}
  BY <1>3 DEF WorkOK, At, Owning, Processing
<1> QED BY <1>2, <1>3

LEMMA IdleOK ==
  ASSUME NEW v \in Workers, workers'[v].pc \in Between \cup {"ensure"}
  PROVE  WorkOK(v)'
BY DEF WorkOK, At, Owning, Between, Processing

LEMMA AloneKept ==
  ASSUME CaptureAlone, \A v \in Workers : Harmless(v)
  PROVE  CaptureAlone'
BY DEF CaptureAlone, Harmless, At

LEMMA LiveSame ==
  ASSUME UNCHANGED things
  PROVE  ThingsKept /\ \A id \in Ids : Live(id)' = Live(id)
BY DEF ThingsKept, Live

LEMMA KeptKept ==
  ASSUME CaptureInv, RowsMove,
         \A id \in Ids : InUse(id),
         \A id \in Ids : made'[id] = made[id]
                         \/ deliveries'[id].state \notin {"none", "reported"},
         \A id \in Ids : NobodyHas(id) /\ SucceededIfThere(id) => NobodyHas(id)'
  PROVE  \A id \in Ids : KeptOK(id)'
<1> SUFFICES ASSUME NEW id \in Ids, made'[id] # {},
                    deliveries'[id].state \in {"none", "reported"}
             PROVE  /\ SucceededIfThere(id)'
                    /\ \/ deliveries'[id].state = "none"
                       \/ deliveries'[id].state = "reported" /\ deliveries'[id].aged
                       => NobodyHas(id)'
  BY DEF KeptOK
<1>1. SucceededIfThere(id) => SucceededIfThere(id)'
  BY RowsMoveKeeps DEF SucceededIfThere, Present
<1>2. made[id] # {}
  OBVIOUS
<1>3. KeptOK(id)
  BY DEF CaptureInv
<1> QED BY <1>1, <1>2, <1>3 DEF KeptOK, InUse

\* What the steps have to show that leave the tasks alone.
LEMMA StillKeeps ==
  ASSUME CaptureInv, RuntimeInv(Processing)', LedgerInv', RowsMove,
         UNCHANGED <<things, made>>, ThingsInv',
         \A id \in Ids : EntryKept(id) /\ InUse(id) /\ EntryOK(id)',
         \A v \in Workers : At(v, "capture") =>
           deliveries'[workers[v].id].state = "creating" \/ workers'[v] # workers[v],
         \A v \in Workers : workers'[v] = workers[v] \/ WorkOK(v)',
         \A id \in Ids : NobodyHas(id) /\ SucceededIfThere(id) => NobodyHas(id)',
         CaptureAlone', RealInv'
  PROVE  CaptureInv'
<1>1. ThingsKept /\ \A id \in Ids : LiveKept(id)
  BY LiveSame DEF LiveKept
<1>2. \A v \in Workers : WorkOK(v)'
  <2> SUFFICES ASSUME NEW v \in Workers, workers'[v] = workers[v]
               PROVE  WorkOK(v)'
    OBVIOUS
  <2>1. workers[v].pc \in Processing \ {"ensure"} => workers[v].id \in Ids
    BY DEF CaptureInv, RuntimeInv, LeaseShape, Processing
  <2>2. At(v, "capture") => made'[workers[v].id] = {}
    BY DEF CaptureInv, WorkOK
  <2> QED BY <1>1, <2>1, <2>2, OthersOK
<1>3. \A id \in Ids : KeptOK(id)'
  BY KeptKept
<1> QED BY <1>2, <1>3 DEF CaptureInv

-----------------------------------------------------------------------------
(* A worker that reports, and one that goes on                             *)

LEMMA RealKept ==
  ASSUME CaptureInv, UNCHANGED <<jobs, things>>,
         \A m \in mail' : m \in mail \/ m.task = None
           \/ (things[m.task].job = m.id /\ things[m.task].title \in SettledTitles)
  PROVE  RealInv'
BY DEF CaptureInv, RealInv

\* What is known of a worker inside Processor.Process.
LEMMA AtWork ==
  ASSUME CaptureInv, NEW w \in Workers, workers[w].pc \in Processing \cup {"reported"}
  PROVE  /\ workers[w].id \in Ids /\ workers[w].payload \in Payloads
         /\ workers[w].task \in Results \cup {None}
         /\ WorkOK(w) /\ EntryOK(workers[w].id) /\ ThingsInv
         /\ deliveries[workers[w].id] \in Entries
         /\ deliveries[workers[w].id].state = "none" => made[workers[w].id] = {}
<1>1. workers[w].id \in Ids /\ workers[w].payload \in Payloads
  BY DEF CaptureInv, RuntimeInv, LeaseShape, Processing
<1>2. workers[w] \in WorkerStates(Processing)
  BY DEF CaptureInv, RuntimeInv, RuntimeTypeOK
<1>3. KeptOK(workers[w].id) /\ ~NobodyHas(workers[w].id)
  BY <1>1 DEF CaptureInv, NobodyHas
<1> QED BY <1>1, <1>2, <1>3 DEF CaptureInv, ThingsInv, WorkerStates, KeptOK

LEMMA ReportKeeps ==
  ASSUME CaptureInv, NEW w \in Workers, workers[w].pc \in Processing,
         NEW task \in Results \cup {None}, NEW retryable \in BOOLEAN,
         Report(w, task, retryable), UNCHANGED <<storeVars, counters, thingsVars, made>>,
         ThingsInv', \A id \in Ids : EntryKept(id) /\ InUse(id) /\ EntryOK(id)',
         \A v \in Workers : At(v, "capture") =>
           deliveries'[workers[v].id].state = "creating" \/ v = w,
         task # None => /\ things[task].job = workers[w].id
                        /\ things[task].title \in SettledTitles
  PROVE  CaptureInv'
<1>1. /\ workers[w].pc \notin {"idle", "polling", "reporting", "reported"} /\ Holding(w)
      /\ workers \in [Workers -> WorkerStates(Processing)] /\ workers[w].id \in Ids
      /\ RuntimeInv(Processing) /\ LeaseShape /\ LedgerInv
  BY DEF Processing, Holding, CaptureInv, RuntimeInv, RuntimeTypeOK, LeaseShape
<1>2. RuntimeInv(Processing)'
  BY <1>1, ReportTypes
<1>3. /\ workers'[w].pc = "reporting" /\ workers'[w].id = workers[w].id
      /\ workers'[w].token = workers[w].token /\ workers'[w].task = task
      /\ \A v \in Workers \ {w} : workers'[v] = workers[v]
  BY <1>1 DEF Report, WorkerStates
<1>4. \A m \in mail' : m \in mail \/ (m.id = workers[w].id /\ m.token = workers[w].token
                                     /\ m.task = task)
  BY DEF Report
<1>5. LedgerInv'
  BY <1>1, <1>3, <1>4, GoOnLedger
<1>6. RowsMove
  BY <1>1, RowsMoveWhen DEF RuntimeInv, RuntimeTypeOK
<1>7. \A id \in Ids : NobodyHas(id) => NobodyHas(id)'
  BY <1>3, <1>4 DEF NobodyHas
<1>8. RealInv'
  BY <1>4, RealKept DEF storeVars, thingsVars
<1>9. CaptureAlone'
  BY <1>3, AloneKept DEF CaptureInv, Harmless
<1>10. \A v \in Workers : workers'[v] = workers[v] \/ WorkOK(v)'
  BY <1>3, IdleOK DEF Between
<1>11. \A v \in Workers : At(v, "capture") =>
         deliveries'[workers[v].id].state = "creating" \/ workers'[v] # workers[v]
  BY <1>1, <1>3 DEF At
<1> QED BY <1>2, <1>5, <1>6, <1>7, <1>8, <1>9, <1>10, <1>11, StillKeeps DEF thingsVars

\* Where a move takes the worker, and what it leaves alone.
LEMMA Moves ==
  ASSUME CaptureInv, NEW w \in Workers, workers[w].pc \in Processing,
         NEW pc \in Processing, NEW task \in Results \cup {None},
         Become(w, [workers[w] EXCEPT !.pc = pc, !.task = task]),
         UNCHANGED <<storeVars, mail, counters>>
  PROVE  /\ RuntimeInv(Processing)' /\ LedgerInv' /\ RowsMove
         /\ workers'[w].pc = pc /\ workers'[w].task = task
         /\ workers'[w].id = workers[w].id
         /\ \A v \in Workers \ {w} : workers'[v] = workers[v]
         /\ \A id \in Ids : NobodyHas(id) => NobodyHas(id)'
<1>1. /\ workers[w].pc \notin {"idle", "polling", "reporting", "reported"} /\ Holding(w)
      /\ pc \notin {"idle", "polling", "reporting", "reported"}
      /\ workers \in [Workers -> WorkerStates(Processing)]
      /\ RuntimeInv(Processing) /\ LeaseShape /\ LedgerInv
  BY DEF Processing, Holding, CaptureInv, RuntimeInv, RuntimeTypeOK
<1>2. RuntimeInv(Processing)'
  BY <1>1, StepTypes
<1>3. /\ workers'[w].pc = pc /\ workers'[w].id = workers[w].id
      /\ workers'[w].token = workers[w].token /\ workers'[w].task = task
      /\ \A v \in Workers \ {w} : workers'[v] = workers[v]
  BY <1>1 DEF Become, WorkerStates
<1>4. LedgerInv'
  BY <1>1, <1>3, GoOnLedger
<1>5. RowsMove
  BY <1>1, RowsMoveWhen DEF RuntimeInv, RuntimeTypeOK
<1>6. \A id \in Ids : NobodyHas(id) => NobodyHas(id)'
  BY <1>3 DEF NobodyHas
<1> QED BY <1>2, <1>3, <1>4, <1>5, <1>6

LEMMA StepIsMove ==
  ASSUME CaptureInv, NEW w \in Workers, NEW pc, Step(w, pc)
  PROVE  Become(w, [workers[w] EXCEPT !.pc = pc, !.task = workers[w].task])
<1>1. workers \in [Workers -> WorkerStates(Processing)]
  BY DEF CaptureInv, RuntimeInv, RuntimeTypeOK
<1> QED BY <1>1 DEF Step, Become, WorkerStates

\* A move of a worker while the tasks stay as they are.
LEMMA MoveKeeps ==
  ASSUME CaptureInv, NEW w \in Workers, workers[w].pc \in Processing,
         NEW pc \in Processing, NEW task \in Results \cup {None},
         Become(w, [workers[w] EXCEPT !.pc = pc, !.task = task]),
         UNCHANGED <<storeVars, mail, counters, things, made>>,
         ThingsInv', \A id \in Ids : EntryKept(id) /\ InUse(id) /\ EntryOK(id)',
         \A v \in Workers : At(v, "capture") =>
           deliveries'[workers[v].id].state = "creating" \/ v = w,
         WorkOK(w)',
         pc \in {"capture", "save"} => CaptureAlone',
         pc # workers[w].pc
  PROVE  CaptureInv'
<1>1. /\ RuntimeInv(Processing)' /\ LedgerInv' /\ RowsMove
      /\ workers'[w].pc = pc /\ \A v \in Workers \ {w} : workers'[v] = workers[v]
      /\ \A id \in Ids : NobodyHas(id) => NobodyHas(id)'
  BY Moves
<1>2. \A v \in Workers : workers'[v] = workers[v] \/ WorkOK(v)'
  BY <1>1
<1>3. CaptureAlone'
  BY <1>1, AloneKept DEF CaptureInv, Harmless
<1>4. RealInv'
  BY RealKept DEF storeVars
<1>5. \A v \in Workers : At(v, "capture") =>
        deliveries'[workers[v].id].state = "creating" \/ workers'[v] # workers[v]
  BY <1>1
<1> QED BY <1>1, <1>2, <1>3, <1>4, <1>5, StillKeeps

\* A step that leaves the journal alone, too, keeps what is said of it.
LEMMA JournalSame ==
  ASSUME CaptureInv, UNCHANGED <<deliveries, things, made>>, renames' = renames
  PROVE  /\ ThingsInv' /\ \A id \in Ids : EntryKept(id) /\ InUse(id) /\ EntryOK(id)'
         /\ \A v \in Workers : At(v, "capture") =>
              deliveries'[workers[v].id].state = "creating"
<1>1. ThingsInv'
  BY LiveSame DEF CaptureInv, ThingsInv
<1>2. \A id \in Ids : EntryKept(id) /\ InUse(id)
  BY DEF EntryKept, InUse
<1>3. \A id \in Ids : EntryOK(id)'
  BY LiveSame DEF CaptureInv, EntryOK
<1> QED BY <1>1, <1>2, <1>3 DEF CaptureInv, WorkOK

\* One row takes a turn, the others and the tasks stay.
LEMMA RowTurns ==
  ASSUME CaptureInv, UNCHANGED <<things, made, renames>>, NEW id \in Ids, NEW e \in Entries,
         deliveries' = [deliveries EXCEPT ![id] = e],
         EntryKept(id), InUse(id), EntryOK(id)'
  PROVE  /\ ThingsInv' /\ \A i \in Ids : EntryKept(i) /\ InUse(i) /\ EntryOK(i)'
         /\ \A v \in Workers : At(v, "capture") =>
              deliveries'[workers[v].id].state = "creating" \/ workers[v].id = id
<1>1. deliveries \in [Ids -> Entries]
  BY DEF CaptureInv, ThingsInv
<1>2. \A i \in Ids \ {id} : deliveries'[i] = deliveries[i]
  BY <1>1
<1>3. ThingsInv'
  BY <1>1, LiveSame DEF CaptureInv, ThingsInv
<1>4. \A i \in Ids \ {id} : EntryKept(i) /\ InUse(i) /\ EntryOK(i)'
  BY <1>2, LiveSame DEF EntryKept, InUse, CaptureInv, EntryOK
<1>5. \A v \in Workers : At(v, "capture") =>
        deliveries[workers[v].id].state = "creating" /\ workers[v].id \in Ids
  BY AtWork DEF At, Processing, WorkOK
<1> QED BY <1>2, <1>3, <1>4, <1>5

-----------------------------------------------------------------------------
(* The steps of Processor.Process                                          *)

LEMMA EnsureKeeps ==
  ASSUME CaptureInv, NEW w \in Workers, Ensure(w)
  PROVE  CaptureInv'
<1>1. workers[w].pc \in Processing /\ workers[w].pc = "ensure"
  BY DEF Ensure, At, Processing
<1>0. PICK id \in Ids : id = workers[w].id
  BY <1>1, AtWork
<1> DEFINE p == workers[w].payload
           entry == deliveries[id]
<1>2. /\ p \in Payloads /\ workers[w].task \in Results \cup {None}
      /\ EntryOK(id) /\ entry \in Entries /\ deliveries \in [Ids -> Entries]
      /\ entry.state = "none" => made[id] = {}
  BY <1>0, <1>1, AtWork DEF ThingsInv
<1>3. UNCHANGED <<storeVars, counters, thingsVars, made, things, renames>>
      /\ EnsureDelivery(id, p)
  BY <1>0 DEF Ensure, thingsVars
<1>4. /\ ThingsInv' /\ \A i \in Ids : EntryKept(i) /\ InUse(i) /\ EntryOK(i)'
      /\ \A v \in Workers : At(v, "capture") =>
           deliveries'[workers[v].id].state = "creating"
      /\ IF entry.state = "none" THEN deliveries'[id].state = "received"
                                 ELSE deliveries' = deliveries
  <2>1. CASE Recorded(id)
    BY <1>2, <1>3, <2>1, JournalSame DEF EnsureDelivery, Recorded
  <2>2. CASE ~Recorded(id)
    <3> DEFINE e == Entry("received", p, None)
    <3>1. e \in Entries /\ e.state = "received"
      BY <1>2 DEF Entry, Entries, DeliveryStates
    <3>2. deliveries' = [deliveries EXCEPT ![id] = e] /\ entry.state = "none"
      BY <1>3, <2>2 DEF EnsureDelivery, Recorded
    <3> HIDE DEF e
    <3>3. deliveries'[id] = e
      BY <1>2, <3>2
    <3>4. EntryKept(id) /\ InUse(id)
      BY <3>1, <3>2, <3>3 DEF EntryKept, InUse
    <3>5. Live(id)' = {} /\ made'[id] = {}
      BY <1>2, <1>3, <3>2, LiveSame DEF EntryOK
    <3>6. EntryOK(id)'
      BY <3>1, <3>3, <3>5 DEF EntryOK, Located
    <3>7. \A v \in Workers : At(v, "capture") => workers[v].id # id
      BY <1>0, <3>2, AtWork DEF WorkOK, At, Processing
    <3>8. UNCHANGED <<things, made, renames>>
      BY <1>3
    <3>9. /\ ThingsInv' /\ \A i \in Ids : EntryKept(i) /\ InUse(i) /\ EntryOK(i)'
          /\ \A v \in Workers : At(v, "capture") =>
               deliveries'[workers[v].id].state = "creating" \/ workers[v].id = id
      BY <1>2, <3>1, <3>2, <3>4, <3>6, <3>8, RowTurns
    <3> QED BY <3>1, <3>2, <3>3, <3>7, <3>9
  <2> QED BY <2>1, <2>2
<1>5. CASE ReportFailure(w, FALSE)
  BY <1>0, <1>1, <1>3, <1>4, <1>5, ReportKeeps DEF ReportFailure
<1>6. CASE entry.state \in {"finalised", "reported"} /\ ReportOutcome(w, entry.task)
  <2>1. /\ entry.task \in Results /\ things[entry.task].job = id
        /\ things[entry.task].title \in SettledTitles
    BY <1>2, <1>6 DEF EntryOK, Located
  <2> QED BY <1>0, <1>1, <1>3, <1>4, <1>6, <2>1, ReportKeeps DEF ReportOutcome
<1>7. CASE entry.state \in {"none", "received"} /\ Step(w, "claim") /\ UNCHANGED mail
  <2>1. Become(w, [workers[w] EXCEPT !.pc = "claim", !.task = workers[w].task])
        /\ "claim" \in Processing
    BY <1>0, <1>7, StepIsMove DEF Processing
  <2>2. workers'[w].pc = "claim" /\ workers'[w].id = id
    BY <1>0, <1>1, <1>2, <1>3, <1>7, <2>1, Moves
  <2>3. deliveries'[id].state = "received"
    BY <1>4, <1>7
  <2>4. WorkOK(w)'
    BY <1>0, <2>2, <2>3 DEF WorkOK, At, Owning
  <2> QED BY <1>0, <1>1, <1>2, <1>3, <1>4, <1>7, <2>1, <2>4, MoveKeeps
<1>8. CASE entry.state = "creating" /\ Step(w, "find") /\ UNCHANGED mail
  <2>1. Become(w, [workers[w] EXCEPT !.pc = "find", !.task = workers[w].task])
        /\ "find" \in Processing
    BY <1>0, <1>8, StepIsMove DEF Processing
  <2>2. workers'[w].pc = "find" /\ workers'[w].id = id
    BY <1>0, <1>1, <1>2, <1>3, <1>8, <2>1, Moves
  <2>3. WorkOK(w)'
    BY <1>0, <1>4, <1>8, <2>2 DEF WorkOK, At, Owning
  <2> QED BY <1>0, <1>1, <1>2, <1>3, <1>4, <1>8, <2>1, <2>3, MoveKeeps
<1>9. CASE /\ entry.state = "created"
           /\ Become(w, [workers[w] EXCEPT !.pc = "finalise", !.task = entry.task])
           /\ UNCHANGED mail
  <2>0. PICK task \in Results \cup {None} : task = entry.task
    BY <1>2 DEF Entries
  <2>1. Become(w, [workers[w] EXCEPT !.pc = "finalise", !.task = task])
        /\ "finalise" \in Processing
    BY <1>9, <2>0 DEF Processing
  <2>2. workers'[w].pc = "finalise" /\ workers'[w].id = id /\ workers'[w].task = task
    BY <1>0, <1>1, <1>3, <1>9, <2>1, Moves
  <2>3. WorkOK(w)'
    BY <1>0, <1>4, <1>9, <2>0, <2>2 DEF WorkOK, At, Owning, Located
  <2> QED BY <1>0, <1>1, <1>3, <1>4, <1>9, <2>1, <2>3, MoveKeeps
<1> QED BY <1>0, <1>5, <1>6, <1>7, <1>8, <1>9 DEF Ensure

\* Who sees the marker of the job knows the one task that carries it, and that nobody
\* is about to make another.
LEMMA FoundKeeps ==
  ASSUME CaptureInv, NEW w \in Workers, workers[w].pc \in {"find", "verify"},
         NEW x \in Marked(workers[w].id), Become(w, [workers[w] EXCEPT !.pc = "save", !.task = x]),
         UNCHANGED <<storeVars, deliveries, thingsVars, mail, made, counters>>
  PROVE  CaptureInv'
<1> DEFINE id == workers[w].id
<1>1. workers[w].pc \in Processing /\ "save" \in Processing
  BY DEF Processing
<1>2. id \in Ids /\ WorkOK(w) /\ ThingsInv
  BY <1>1, AtWork
<1>3. UNCHANGED <<things, renames>>
  BY DEF thingsVars
<1>4. /\ ThingsInv' /\ \A i \in Ids : EntryKept(i) /\ InUse(i) /\ EntryOK(i)'
      /\ \A v \in Workers : At(v, "capture") => deliveries'[workers[v].id].state = "creating"
  BY <1>3, JournalSame
<1>5. x \in Results /\ things[x].job = id /\ x \in Live(id)
  BY DEF Marked, Live, Unfinished
<1>6. /\ workers'[w].pc = "save" /\ workers'[w].id = id /\ workers'[w].task = x
      /\ \A v \in Workers \ {w} : workers'[v] = workers[v]
  BY <1>1, <1>5, Moves
<1>7. Live(id) \subseteq {x}
  BY <1>2, <1>5 DEF ThingsInv
<1>8. WorkOK(w)'
  BY <1>1, <1>2, <1>3, <1>5, <1>6, <1>7, LiveSame DEF WorkOK, At, Owning
<1>9. \A v \in Workers : At(v, "capture") => workers[v].id # id
  BY <1>5, AtWork DEF At, Processing, WorkOK
<1>10. CaptureAlone'
  BY <1>6, <1>9 DEF CaptureInv, CaptureAlone, At
<1> QED BY <1>1, <1>3, <1>4, <1>5, <1>8, <1>10, MoveKeeps

\* A failure that leaves everything but the worker as it was.
LEMMA FailureKeeps ==
  ASSUME CaptureInv, NEW w \in Workers, workers[w].pc \in Processing,
         NEW retryable \in BOOLEAN, ReportFailure(w, retryable),
         UNCHANGED <<storeVars, deliveries, thingsVars, made, counters>>
  PROVE  CaptureInv'
<1>1. /\ ThingsInv' /\ \A i \in Ids : EntryKept(i) /\ InUse(i) /\ EntryOK(i)'
      /\ \A v \in Workers : At(v, "capture") => deliveries'[workers[v].id].state = "creating"
  BY JournalSame DEF thingsVars
<1> QED BY <1>1, ReportKeeps DEF ReportFailure

LEMMA FindKeeps ==
  ASSUME CaptureInv, NEW w \in Workers, Find(w) \/ VerifyAdd(w)
  PROVE  CaptureInv'
<1>1. workers[w].pc \in {"find", "verify"} /\ workers[w].pc \in Processing
  BY DEF Find, VerifyAdd, At, Processing
<1>2. UNCHANGED <<storeVars, deliveries, thingsVars, made, counters>>
  BY DEF Find, VerifyAdd
<1>3. CASE ReportFailure(w, FALSE)
  BY <1>1, <1>2, <1>3, FailureKeeps
<1>4. CASE \E x \in Marked(workers[w].id) :
             Become(w, [workers[w] EXCEPT !.pc = "save", !.task = x]) /\ UNCHANGED mail
  BY <1>1, <1>2, <1>4, FoundKeeps
<1> QED BY <1>3, <1>4 DEF Find, VerifyAdd

LEMMA ClaimKeeps ==
  ASSUME CaptureInv, NEW w \in Workers, Claim(w)
  PROVE  CaptureInv'
<1>1. workers[w].pc \in Processing /\ workers[w].pc = "claim"
  BY DEF Claim, At, Processing
<1>0. PICK id \in Ids : id = workers[w].id
  BY <1>1, AtWork
<1> DEFINE entry == deliveries[id]
<1>2. UNCHANGED <<storeVars, counters, thingsVars, made, things, renames>>
  BY DEF Claim, thingsVars
<1>3. CASE ReportFailure(w, TRUE) /\ UNCHANGED deliveries
  BY <1>1, <1>2, <1>3, FailureKeeps
<1>4. CASE MarkCreating(id) /\ Step(w, "capture") /\ UNCHANGED mail
  <2> DEFINE e == [entry EXCEPT !.state = "creating", !.aged = FALSE]
  <2>1. /\ EntryOK(id) /\ entry \in Entries /\ deliveries \in [Ids -> Entries]
        /\ workers[w].task \in Results \cup {None}
    BY <1>0, <1>1, AtWork DEF ThingsInv
  <2>2. entry.state = "received" /\ Live(id) = {} /\ made[id] = {}
    BY <1>4, <2>1 DEF MarkCreating, Advance, In, EntryOK
  <2>3. e \in Entries /\ e.state = "creating" /\ deliveries' = [deliveries EXCEPT ![id] = e]
    BY <1>4, <2>1 DEF MarkCreating, Advance, Entries, DeliveryStates
  <2> HIDE DEF e
  <2>4. deliveries'[id] = e
    BY <2>1, <2>3
  <2>5. EntryKept(id) /\ InUse(id) /\ EntryOK(id)'
    <3>1. EntryKept(id) /\ InUse(id)
      BY <2>2, <2>3, <2>4 DEF EntryKept, InUse, Located
    <3>2. EntryOK(id)'
      BY <2>3, <2>4 DEF EntryOK, Located
    <3> QED BY <3>1, <3>2
  <2>6. /\ ThingsInv' /\ \A i \in Ids : EntryKept(i) /\ InUse(i) /\ EntryOK(i)'
        /\ \A v \in Workers : At(v, "capture") =>
             deliveries'[workers[v].id].state = "creating"
    <3>1. UNCHANGED <<things, made, renames>>
      BY <1>2
    <3>2. /\ ThingsInv' /\ \A i \in Ids : EntryKept(i) /\ InUse(i) /\ EntryOK(i)'
          /\ \A v \in Workers : At(v, "capture") =>
               deliveries'[workers[v].id].state = "creating" \/ workers[v].id = id
      BY <2>1, <2>3, <2>5, <3>1, RowTurns
    <3> QED BY <2>3, <2>4, <3>2
  <2>7. Become(w, [workers[w] EXCEPT !.pc = "capture", !.task = workers[w].task])
        /\ "capture" \in Processing
    BY <1>0, <1>4, StepIsMove DEF Processing
  <2>8. /\ workers'[w].pc = "capture" /\ workers'[w].id = id
        /\ \A v \in Workers \ {w} : workers'[v] = workers[v]
    BY <1>0, <1>1, <1>2, <1>4, <2>1, <2>7, Moves
  <2>9. WorkOK(w)'
    <3>1. Live(id)' = {} /\ made'[id] = {}
      BY <1>2, <2>1, <2>2, LiveSame
    <3> QED BY <1>0, <2>3, <2>4, <2>8, <3>1 DEF WorkOK, At, Owning
  <2>10. \A v \in Workers : workers[v].pc \in {"capture", "save"} => workers[v].id # id
    BY <2>2, AtWork DEF At, Processing, WorkOK
  <2>11. CaptureAlone'
    BY <1>0, <2>8, <2>10 DEF CaptureInv, CaptureAlone, At
  <2> QED BY <1>0, <1>1, <1>2, <1>4, <2>1, <2>6, <2>7, <2>9, <2>11, MoveKeeps
<1> QED BY <1>0, <1>1, <1>3, <1>4 DEF Claim


\* A step within Processor.Process that only the worker notices.
LEMMA GoKeeps ==
  ASSUME CaptureInv, NEW w \in Workers, workers[w].pc \in Owning,
         NEW pc \in Owning, pc # workers[w].pc, Step(w, pc),
         pc = "seal" => things[workers[w].task].title \in SettledTitles,
         UNCHANGED <<storeVars, mail, counters, deliveries, things, made>>,
         renames' \in SUBSET Results, \A x \in renames' : things[x].job # None
  PROVE  CaptureInv'
<1>1. /\ workers[w].pc \in Processing /\ pc \in Processing /\ pc \notin {"capture", "save"}
      /\ pc \notin {"find", "verify"}
  BY DEF Owning, Processing
<1>0. PICK id \in Ids : id = workers[w].id
  BY <1>1, AtWork
<1>2. /\ workers[w].task \in Results \cup {None} /\ WorkOK(w)
      /\ \A v \in Workers : At(v, "capture") => deliveries[workers[v].id].state = "creating"
  BY <1>1, AtWork DEF At, Processing, WorkOK
<1>3. Become(w, [workers[w] EXCEPT !.pc = pc, !.task = workers[w].task])
  BY StepIsMove
<1>4. workers'[w].pc = pc /\ workers'[w].id = id /\ workers'[w].task = workers[w].task
  BY <1>0, <1>1, <1>2, <1>3, Moves
<1>5. WorkOK(w)'
  <2>1. workers[w].pc \in Processing \ {"ensure"}
    BY DEF Owning, Processing
  <2> QED BY <1>0, <1>1, <1>2, <1>4, <2>1 DEF WorkOK, At
<1>6. ThingsInv'
  BY LiveSame DEF CaptureInv, ThingsInv
<1>7. \A i \in Ids : EntryKept(i) /\ InUse(i)
  BY DEF EntryKept, InUse
<1>8. \A i \in Ids : EntryOK(i)'
  BY LiveSame DEF CaptureInv, EntryOK
<1> QED BY <1>1, <1>2, <1>3, <1>5, <1>6, <1>7, <1>8, MoveKeeps

LEMMA SaveKeeps ==
  ASSUME CaptureInv, NEW w \in Workers, Save(w)
  PROVE  CaptureInv'
<1>1. workers[w].pc \in Processing /\ workers[w].pc = "save"
  BY DEF Save, At, Processing
<1>0. PICK id \in Ids : id = workers[w].id
  BY <1>1, AtWork
<1>2. UNCHANGED <<storeVars, counters, thingsVars, made, things, renames>>
  BY DEF Save, thingsVars
<1>3. CASE ReportFailure(w, TRUE) /\ UNCHANGED deliveries
  BY <1>1, <1>2, <1>3, FailureKeeps
<1>4. CASE MarkCreated(id, workers[w].task) /\ Step(w, "reload") /\ UNCHANGED mail
  <2> DEFINE e == Entry("created", deliveries[id].payload, workers[w].task)
  <2>1. /\ workers[w].task \in Results /\ things[workers[w].task].job = id
        /\ Live(id) \subseteq {workers[w].task}
        /\ deliveries \in [Ids -> Entries] /\ deliveries[id] \in Entries
    BY <1>0, <1>1, AtWork DEF ThingsInv, WorkOK, At
  <2>2. /\ deliveries[id].state = "creating"
        /\ deliveries' = [deliveries EXCEPT ![id] = e]
    BY <1>4 DEF MarkCreated, In
  <2>3. /\ e \in Entries /\ e.state = "created" /\ e.task = workers[w].task
    BY <2>1 DEF Entry, Entries, DeliveryStates
  <2> HIDE DEF e
  <2>4. deliveries'[id] = e
    BY <2>1, <2>2
  <2>5. EntryKept(id) /\ InUse(id)
    BY <2>2, <2>3, <2>4 DEF EntryKept, InUse, Located
  <2>6. EntryOK(id)'
    BY <1>2, <2>1, <2>3, <2>4, LiveSame DEF EntryOK, Located
  <2>7. /\ ThingsInv' /\ \A i \in Ids : EntryKept(i) /\ InUse(i) /\ EntryOK(i)'
        /\ \A v \in Workers : At(v, "capture") =>
             deliveries'[workers[v].id].state = "creating" \/ workers[v].id = id
    BY <1>2, <2>2, <2>3, <2>5, <2>6, RowTurns
  <2>8. \A v \in Workers : At(v, "capture") /\ workers[v].id = id => v = w
    BY <1>0, <1>1 DEF CaptureInv, CaptureAlone, At
  <2>9. Become(w, [workers[w] EXCEPT !.pc = "reload", !.task = workers[w].task])
        /\ "reload" \in Processing
    BY <1>4, StepIsMove DEF Processing
  <2>10. workers'[w].pc = "reload" /\ workers'[w].id = id
         /\ workers'[w].task = workers[w].task
    BY <1>0, <1>1, <1>2, <1>4, <2>1, <2>9, Moves
  <2>11. WorkOK(w)'
    BY <2>3, <2>4, <2>10 DEF WorkOK, At, Owning, Located
  <2> QED BY <1>1, <1>2, <1>4, <2>1, <2>7, <2>8, <2>9, <2>11, MoveKeeps
<1> QED BY <1>0, <1>3, <1>4 DEF Save

LEMMA ReloadKeeps ==
  ASSUME CaptureInv, NEW w \in Workers, Reload(w)
  PROVE  CaptureInv'
<1>1. workers[w].pc \in Processing /\ workers[w].pc = "reload" /\ workers[w].pc \in Owning
  BY DEF Reload, At, Processing, Owning
<1>0. PICK id \in Ids : id = workers[w].id
  BY <1>1, AtWork
<1>2. UNCHANGED <<storeVars, counters, deliveries, thingsVars, made, things, renames>>
  BY DEF Reload, thingsVars
<1>3. EntryOK(id) /\ renames \in SUBSET Results /\ \A x \in renames : things[x].job # None
  BY <1>0, <1>1, AtWork DEF ThingsInv
<1>4. CASE Step(w, "finalise") /\ UNCHANGED mail
  <2>1. "finalise" \in Owning
    BY DEF Owning
  <2> QED BY <1>1, <1>2, <1>3, <1>4, <2>1, GoKeeps
<1>5. CASE deliveries[id].state = "finalised" /\ ReportOutcome(w, deliveries[id].task)
  <2>1. PICK task \in Results : task = deliveries[id].task
    BY <1>3, <1>5 DEF EntryOK, Located
  <2>2. things[task].job = id /\ things[task].title \in SettledTitles
    BY <1>3, <1>5, <2>1 DEF EntryOK, Located
  <2>3. /\ ThingsInv' /\ \A i \in Ids : EntryKept(i) /\ InUse(i) /\ EntryOK(i)'
        /\ \A v \in Workers : At(v, "capture") =>
             deliveries'[workers[v].id].state = "creating"
    BY <1>2, JournalSame
  <2> QED BY <1>0, <1>1, <1>2, <1>5, <2>1, <2>2, <2>3, ReportKeeps DEF ReportOutcome
<1>6. CASE ReportFailure(w, TRUE)
  BY <1>1, <1>2, <1>6, FailureKeeps
<1> QED BY <1>0, <1>4, <1>5, <1>6 DEF Reload

LEMMA RenameStepsKeep ==
  ASSUME CaptureInv, NEW w \in Workers,
         FinaliseCapture(w) \/ DispatchRename(w) \/ Confirm(w)
  PROVE  CaptureInv'
<1>1. workers[w].pc \in {"finalise", "rename", "confirm"} /\ workers[w].pc \in Owning
      /\ workers[w].pc \in Processing
  BY DEF FinaliseCapture, DispatchRename, Confirm, At, Owning, Processing
<1>2. UNCHANGED <<storeVars, counters, deliveries, made, things>>
  BY DEF FinaliseCapture, DispatchRename, Confirm, thingsVars
<1>3. /\ workers[w].task \in Results /\ things[workers[w].task].job # None
      /\ renames \in SUBSET Results /\ \A x \in renames : things[x].job # None
  <2>1. PICK id \in Ids : id = workers[w].id
    BY <1>1, AtWork
  <2>2. WorkOK(w) /\ EntryOK(id) /\ ThingsInv /\ id # None
    BY <1>1, <2>1, AtWork, StoreAssumption
  <2> QED BY <1>1, <2>1, <2>2 DEF WorkOK, EntryOK, ThingsInv
<1>4. {"rename", "confirm", "seal"} \subseteq Owning
  BY DEF Owning
<1>5. CASE \E retryable \in BOOLEAN : ReportFailure(w, retryable) /\ UNCHANGED thingsVars
  BY <1>1, <1>2, <1>5, FailureKeeps
<1>6. CASE DispatchRename(w)
  <2>1. /\ renames' = renames \cup {workers[w].task} /\ Step(w, "confirm")
        /\ UNCHANGED mail /\ workers[w].pc = "rename"
    BY <1>6 DEF DispatchRename, At
  <2>2. renames' \in SUBSET Results /\ \A x \in renames' : things[x].job # None
    BY <1>3, <2>1
  <2> QED BY <1>1, <1>2, <1>4, <2>1, <2>2, GoKeeps
<1>7. CASE /\ things[workers[w].task].title = "final"
           /\ Step(w, "seal") /\ UNCHANGED <<mail, renames>>
  <2>1. workers[w].pc # "seal"
    BY <1>1
  <2> QED BY <1>1, <1>2, <1>3, <1>4, <1>7, <2>1, GoKeeps DEF SettledTitles
<1>8. CASE FinaliseCapture(w) /\ Step(w, "rename") /\ UNCHANGED mail
  <2>1. workers[w].pc # "rename" /\ UNCHANGED renames
    BY <1>8 DEF FinaliseCapture, At, thingsVars
  <2> QED BY <1>1, <1>2, <1>3, <1>4, <1>8, <2>1, GoKeeps
<1> QED BY <1>5, <1>6, <1>7, <1>8 DEF FinaliseCapture, Confirm, thingsVars

LEMMA SealKeeps ==
  ASSUME CaptureInv, NEW w \in Workers, Seal(w)
  PROVE  CaptureInv'
<1>1. workers[w].pc \in Processing /\ workers[w].pc = "seal"
  BY DEF Seal, At, Processing
<1>0. PICK id \in Ids : id = workers[w].id
  BY <1>1, AtWork
<1>2. UNCHANGED <<storeVars, counters, thingsVars, made, things, renames>>
  BY DEF Seal, thingsVars
<1>3. CASE ReportFailure(w, TRUE) /\ UNCHANGED deliveries
  BY <1>1, <1>2, <1>3, FailureKeeps
<1>4. CASE MarkFinalised(id) /\ ReportOutcome(w, workers[w].task)
  <2> DEFINE e == [deliveries[id] EXCEPT !.state = "finalised", !.aged = FALSE]
  <2>1. /\ deliveries \in [Ids -> Entries] /\ deliveries[id] \in Entries
        /\ EntryOK(id) /\ workers[w].task = deliveries[id].task
        /\ things[workers[w].task].title \in SettledTitles
    BY <1>0, <1>1, AtWork DEF ThingsInv, WorkOK, At, Owning
  <2>2. /\ deliveries[id].state = "created"
        /\ deliveries' = [deliveries EXCEPT ![id] = e]
        /\ e \in Entries /\ e.state = "finalised" /\ e.task = deliveries[id].task
    BY <1>4, <2>1 DEF MarkFinalised, Advance, In, Entries, DeliveryStates
  <2> HIDE DEF e
  <2>3. deliveries'[id] = e
    BY <2>1, <2>2
  <2>4. /\ deliveries[id].task \in Results /\ things[deliveries[id].task].job = id
        /\ Live(id) = {}
    BY <2>1, <2>2 DEF EntryOK, Located, Live, SettledTitles, Unfinished
  <2>5. EntryKept(id) /\ InUse(id)
    BY <2>2, <2>3 DEF EntryKept, InUse, Located
  <2>6. Live(id)' = {}
    BY <1>2, <2>4, LiveSame
  <2>7. EntryOK(id)'
    BY <1>2, <2>1, <2>2, <2>3, <2>4, <2>6 DEF EntryOK, Located
  <2>8. /\ ThingsInv' /\ \A i \in Ids : EntryKept(i) /\ InUse(i) /\ EntryOK(i)'
        /\ \A v \in Workers : At(v, "capture") =>
             deliveries'[workers[v].id].state = "creating" \/ workers[v].id = id
    BY <1>2, <2>2, <2>5, <2>7, RowTurns
  <2>9. \A v \in Workers : At(v, "capture") => workers[v].id # id
    BY <2>2, AtWork DEF At, Processing, WorkOK
  <2> QED BY <1>0, <1>1, <1>2, <1>4, <2>1, <2>4, <2>8, <2>9, ReportKeeps DEF ReportOutcome
<1> QED BY <1>0, <1>3, <1>4 DEF Seal

LEMMA AcknowledgedKeeps ==
  ASSUME CaptureInv, NEW w \in Workers, Acknowledged(w)
  PROVE  CaptureInv'
<1>1. /\ workers[w].pc = "reported" /\ At(w, "reported")
      /\ UNCHANGED <<storeVars, mail, counters, thingsVars, made, things, renames>>
      /\ UNCHANGED <<jobs, things>>
      /\ Become(w, IdleWorker)
  BY DEF Acknowledged, At, thingsVars, storeVars
<1>0. PICK id \in Ids : id = workers[w].id
  BY <1>1, AtWork
<1>2. /\ RuntimeInv(Processing) /\ RuntimeTypeOK(Processing) /\ LeaseShape /\ LedgerInv
      /\ workers \in [Workers -> WorkerStates(Processing)] /\ StoreTypeOK
      /\ IdleWorker.pc = "idle" /\ IdleWorker.id = None /\ IdleWorker.token = None
      /\ None \notin Ids
  BY StoreAssumption DEF CaptureInv, RuntimeInv, RuntimeTypeOK, IdleWorker, Worker
<1>3. workers'[w] = IdleWorker /\ \A v \in Workers \ {w} : workers'[v] = workers[v]
  BY <1>1, <1>2 DEF Become
<1>4. RuntimeInv(Processing)'
  <2>1. workers' \in [Workers -> WorkerStates(Processing)] /\ LeaseShape'
    BY <1>1, <1>2, IdleTypes
  <2>2. StoreTypeOK' /\ RowShape'
    BY <1>1, <1>2, StoreTypes, RowShapeKept DEF RuntimeInv
  <2> QED BY <1>1, <1>2, <2>1, <2>2 DEF RuntimeInv, RuntimeTypeOK, counters
<1>5. RowsMove
  BY <1>1, <1>2, RowsMoveWhen
<1>6. LedgerInv'
  BY <1>1, <1>2, <1>3, <1>5, LetGoLedger
<1>7. \A i \in Ids : NobodyHas(i) => NobodyHas(i)'
  BY <1>1, <1>2, <1>3 DEF NobodyHas
<1>8. RealInv'
  BY <1>1, RealKept
<1>9. CaptureAlone'
  BY <1>2, <1>3, AloneKept DEF CaptureInv, Harmless
<1>10. \A v \in Workers : workers'[v] = workers[v] \/ WorkOK(v)'
  BY <1>2, <1>3, IdleOK DEF Between
<1>11. /\ ThingsInv' /\ \A i \in Ids : EntryKept(i) /\ InUse(i) /\ EntryOK(i)'
       /\ \A v \in Workers : At(v, "capture") =>
            deliveries'[workers[v].id].state = "creating"
  <2>1. CASE UNCHANGED deliveries
    BY <1>1, <2>1, JournalSame
  <2>2. CASE MarkReported(id)
    <3> DEFINE e == [deliveries[id] EXCEPT !.state = "reported", !.aged = FALSE]
    <3>1. deliveries \in [Ids -> Entries] /\ deliveries[id] \in Entries /\ EntryOK(id)
      BY <1>0, <1>1, AtWork DEF ThingsInv
    <3>2. /\ deliveries[id].state \in {"finalised", "reported"}
          /\ deliveries' = [deliveries EXCEPT ![id] = e]
          /\ e \in Entries /\ e.state = "reported" /\ ~e.aged
          /\ e.task = deliveries[id].task
      BY <2>2, <3>1 DEF MarkReported, Advance, In, Entries, DeliveryStates
    <3> HIDE DEF e
    <3>3. deliveries'[id] = e
      BY <3>1, <3>2
    <3>4. SucceededIfThere(id)
      BY <1>0, <1>1, <1>2 DEF LedgerInv, SucceededIfThere
    <3>5. EntryKept(id) /\ InUse(id)
      BY <3>2, <3>3, <3>4 DEF EntryKept, InUse, Located
    <3>6. Live(id)' = Live(id) /\ Live(id) = {}
      BY <1>1, <3>1, <3>2, LiveSame DEF EntryOK
    <3>7. EntryOK(id)'
      BY <1>1, <3>1, <3>2, <3>3, <3>6 DEF EntryOK, Located
    <3>8. \A v \in Workers : At(v, "capture") => workers[v].id # id
      BY <3>2, AtWork DEF At, Processing, WorkOK
    <3>9. UNCHANGED <<things, made, renames>>
      BY <1>1
    <3> QED BY <3>2, <3>5, <3>7, <3>8, <3>9, RowTurns
  <2> QED BY <1>0, <2>1, <2>2 DEF Acknowledged
<1> QED BY <1>1, <1>4, <1>5, <1>6, <1>7, <1>8, <1>9, <1>10, <1>11, StillKeeps

\* The one step that makes a task: nobody else is at the row, and the task is new.
LEMMA DispatchKeeps ==
  ASSUME CaptureInv, NEW w \in Workers, NEW x \in Results, DispatchAdd(w, x)
  PROVE  CaptureInv'
<1>1. /\ workers[w].pc \in Processing /\ workers[w].pc = "capture" /\ At(w, "capture")
      /\ "verify" \in Processing
  BY DEF DispatchAdd, At, Processing
<1>0. PICK id \in Ids : id = workers[w].id
  BY <1>1, AtWork
<1>2. /\ ThingsInv /\ workers[w].task \in Results \cup {None} /\ id # None
      /\ deliveries[id].state = "creating" /\ made[id] = {} /\ Live(id) = {}
      /\ RealInv /\ CaptureAlone
  BY <1>0, <1>1, AtWork, StoreAssumption DEF WorkOK, CaptureInv
<1>3. /\ things[x].title = "none" /\ Step(w, "verify")
      /\ things' = [things EXCEPT ![x] = [job |-> id, title |-> "flying"]]
      /\ made' = [made EXCEPT ![id] = @ \cup {x}]
      /\ UNCHANGED <<storeVars, deliveries, renames, mail, counters>>
  BY <1>0 DEF DispatchAdd
<1>4. /\ things[x].job = None
      /\ things'[x].job = id /\ things'[x].title = "flying"
      /\ \A y \in Results \ {x} : things'[y] = things[y]
      /\ made'[id] = {x} /\ \A i \in Ids \ {id} : made'[i] = made[i]
  BY <1>2, <1>3 DEF ThingsInv
<1>5. Become(w, [workers[w] EXCEPT !.pc = "verify", !.task = workers[w].task])
  BY <1>3, StepIsMove
<1>6. /\ RuntimeInv(Processing)' /\ LedgerInv' /\ RowsMove
      /\ workers'[w].pc = "verify" /\ workers'[w].id = id
      /\ \A v \in Workers \ {w} : workers'[v] = workers[v]
      /\ \A i \in Ids : NobodyHas(i) => NobodyHas(i)'
  BY <1>0, <1>1, <1>2, <1>3, <1>5, Moves
<1>7. /\ Live(id)' = {x} /\ \A i \in Ids \ {id} : Live(i)' = Live(i)
  BY <1>2, <1>4, StoreAssumption DEF Live, Unfinished
<1>8. ThingsKept
  BY <1>4 DEF ThingsKept
<1>9. \A i \in Ids : EntryKept(i) /\ InUse(i) /\ deliveries'[i] = deliveries[i]
  BY <1>3 DEF EntryKept, InUse
<1>10. ThingsInv'
  <2>1. things' \in [Results -> TaskStates]
    BY <1>2, <1>3 DEF ThingsInv, TaskStates, Titles
  <2>2. made' \in [Ids -> SUBSET Results]
    BY <1>2, <1>3 DEF ThingsInv
  <2>3. \A y \in Results : things'[y].title = "none" <=> things'[y].job = None
    BY <1>2, <1>4 DEF ThingsInv
  <2>4. \A y \in renames' : things'[y].job # None
    BY <1>2, <1>3, <1>4 DEF ThingsInv
  <2>5. \A i \in Ids : \A y, z \in Live(i)' : y = z
    BY <1>2, <1>7 DEF ThingsInv
  <2>6. \A i \in Ids : \A y, z \in made'[i] : y = z
    BY <1>2, <1>4 DEF ThingsInv
  <2> QED BY <1>2, <1>3, <2>1, <2>2, <2>3, <2>4, <2>5, <2>6 DEF ThingsInv
<1>11. \A v \in Workers : WorkOK(v)'
  <2>1. WorkOK(w)'
    <3>1. WorkOK(w)
      BY DEF CaptureInv
    <3> QED BY <1>0, <1>1, <1>2, <1>6, <1>9, <3>1 DEF WorkOK, At, Owning
  <2>2. ASSUME NEW v \in Workers \ {w}
        PROVE  WorkOK(v)'
    <3>1. workers[v].pc \in Processing \ {"ensure"} => workers[v].id \in Ids
      BY AtWork
    <3>2. workers[v].pc \in {"capture", "save"} => workers[v].id # id
      BY <1>0, <1>1, <1>2 DEF CaptureAlone
    <3>3. workers[v].pc \in {"capture", "save"} => LiveKept(workers[v].id)
      BY <1>6, <1>7, <3>1, <3>2 DEF LiveKept, Processing
    <3>4. At(v, "capture") => /\ deliveries'[workers[v].id].state = "creating"
                              /\ made'[workers[v].id] = {}
      <4>1. WorkOK(v) /\ (At(v, "capture") => workers[v].pc \in Processing \ {"ensure"})
        BY DEF CaptureInv, At, Processing
      <4> QED BY <1>4, <1>9, <3>1, <3>2, <4>1 DEF WorkOK, At
    <3>5. workers[v].pc \in Processing \ {"ensure"} => EntryKept(workers[v].id)
      BY <1>9, <3>1
    <3> QED BY <1>6, <1>8, <3>3, <3>4, <3>5, OthersOK
  <2> QED BY <2>1, <2>2
<1>12. CaptureAlone'
  BY <1>2, <1>6, AloneKept DEF Harmless
<1>13. \A i \in Ids : EntryOK(i)'
  <2>1. EntryOK(id)'
    BY <1>2, <1>9 DEF EntryOK, Located
  <2>2. ASSUME NEW i \in Ids \ {id}
        PROVE  EntryOK(i)'
    <3>1. EntryOK(i) /\ i # None
      BY StoreAssumption DEF CaptureInv
    <3>2. deliveries[i].state \in Located =>
            things'[deliveries[i].task] = things[deliveries[i].task]
      BY <1>4, <3>1 DEF EntryOK
    <3> QED BY <1>4, <1>7, <1>9, <3>1, <3>2 DEF EntryOK, Located
  <2> QED BY <2>1, <2>2
<1>14. \A i \in Ids : KeptOK(i)'
  <2>1. \A i \in Ids : made'[i] = made[i]
                       \/ deliveries'[i].state \notin {"none", "reported"}
    BY <1>2, <1>4, <1>9
  <2> QED BY <1>6, <1>9, <2>1, KeptKept
<1>15. RealInv'
  <2>1. UNCHANGED <<jobs, mail>> /\ mail \in SUBSET Messages
    BY <1>3 DEF storeVars, CaptureInv, RuntimeInv, RuntimeTypeOK
  <2>2. \A m \in mail : m.task # None => m.task \in Results /\ m.id # None
    BY <2>1, StoreAssumption DEF Messages
  <2>3. \A y \in Results : things[y].job # None => things'[y] = things[y]
    BY <1>4
  <2> QED BY <1>2, <2>1, <2>2, <2>3, StoreAssumption DEF RealInv
<1> QED BY <1>6, <1>10, <1>11, <1>12, <1>13, <1>14, <1>15 DEF CaptureInv

LEMMA ProcessKeeps ==
  ASSUME CaptureInv, NEW w \in Workers, Process(w)
  PROVE  CaptureInv'
<1>1. Stumble(w) => CaptureInv'
  BY FailureKeeps DEF Stumble
<1> QED BY <1>1, EnsureKeeps, FindKeeps, ClaimKeeps, DispatchKeeps, SaveKeeps, ReloadKeeps,
           RenameStepsKeep, SealKeeps, AcknowledgedKeeps DEF Process

-----------------------------------------------------------------------------
(* The steps of everybody else                                             *)

\* A step that leaves the store, the journal and the workers alone.
LEMMA Elsewhere ==
  ASSUME CaptureInv, UNCHANGED <<storeVars, workers, mail, counters>>
  PROVE  /\ RuntimeInv(Processing)' /\ LedgerInv' /\ RowsMove
         /\ \A id \in Ids : NobodyHas(id)' = NobodyHas(id)
         /\ \A v \in Workers : workers'[v] = workers[v]
<1>1. RuntimeInv(Processing) /\ LeaseShape /\ LedgerInv /\ StoreTypeOK
  BY DEF CaptureInv, RuntimeInv, RuntimeTypeOK
<1>2. RuntimeInv(Processing)'
  BY <1>1, StoreTicks
<1>3. RowsMove
  BY <1>1, RowsMoveWhen
<1>4. LedgerInv'
  BY <1>1, <1>3, LetGoLedger
<1> QED BY <1>2, <1>3, <1>4 DEF NobodyHas

\* What Things and its user may make of a title.
TitlesMove ==
  /\ things' \in [Results -> TaskStates]
  /\ renames' \in SUBSET Results /\ renames' \subseteq renames
  /\ \A y \in Results :
       /\ things'[y].job = things[y].job
       /\ things[y].title \in SettledTitles => things'[y].title \in SettledTitles
       /\ things'[y].title \in Unfinished => things[y].title \in Unfinished
       /\ things'[y].title = "none" <=> things[y].title = "none"

LEMMA TitleChanges ==
  ASSUME ThingsInv, NEW x \in Results, NEW title \in Titles,
         things' = [things EXCEPT ![x].title = title], renames' \subseteq renames,
         title # "none", things[x].title # "none",
         things[x].title \in SettledTitles => title \in SettledTitles,
         title \in Unfinished => things[x].title \in Unfinished
  PROVE  TitlesMove
<1>1. things \in [Results -> TaskStates] /\ renames \in SUBSET Results
  BY DEF ThingsInv
<1>2. /\ things'[x].job = things[x].job /\ things'[x].title = title
      /\ \A y \in Results \ {x} : things'[y] = things[y]
  BY <1>1 DEF TaskStates
<1>3. things' \in [Results -> TaskStates]
  BY <1>1 DEF TaskStates
<1> QED BY <1>1, <1>2, <1>3 DEF TitlesMove

LEMMA ThingsStepKeeps ==
  ASSUME CaptureInv, ThingsStep
  PROVE  CaptureInv'
<1>1. PICK x \in Results : AddArrives(x) \/ RenameArrives(x) \/ UserEdits(x)
  BY DEF ThingsStep
<1>2. UNCHANGED <<storeVars, workers, mail, counters>> /\ UNCHANGED <<deliveries, made, jobs>>
  BY <1>1 DEF AddArrives, RenameArrives, UserEdits, storeVars
<1>3. ThingsInv /\ RealInv /\ (\A id \in Ids : EntryOK(id)) /\ None \notin Ids
      /\ (\A v \in Workers : WorkOK(v)) /\ CaptureAlone /\ mail \in SUBSET Messages
  BY StoreAssumption DEF CaptureInv, RuntimeInv, RuntimeTypeOK
<1>4. TitlesMove
  <2>1. /\ renames \in SUBSET Results
        /\ x \in renames => things[x].title # "none"
    BY <1>3 DEF ThingsInv
  <2>2. CASE AddArrives(x)
    <3>1. PICK title \in {"pending", "trashed"} : things' = [things EXCEPT ![x].title = title]
      BY <2>2 DEF AddArrives
    <3> QED BY <1>3, <2>1, <2>2, <3>1, TitleChanges
            DEF AddArrives, Titles, SettledTitles, Unfinished
  <2>3. CASE UserEdits(x)
    <3>1. PICK title \in {"edited", "trashed"} : things' = [things EXCEPT ![x].title = title]
      BY <2>3 DEF UserEdits
    <3> QED BY <1>3, <2>1, <2>3, <3>1, TitleChanges
            DEF UserEdits, Titles, SettledTitles, Unfinished
  <2>4. CASE RenameArrives(x) /\ things' = [things EXCEPT ![x].title = "final"]
    BY <1>3, <2>1, <2>4, TitleChanges DEF RenameArrives, Titles, SettledTitles, Unfinished
  <2>5. CASE RenameArrives(x) /\ UNCHANGED things
    BY <1>3, <2>1, <2>5 DEF RenameArrives, ThingsInv, TitlesMove
  <2> QED BY <1>1, <2>2, <2>3, <2>4, <2>5 DEF RenameArrives
<1>5. ThingsKept /\ \A id \in Ids : LiveKept(id)
  BY <1>4 DEF ThingsKept, LiveKept, Live, TitlesMove
<1>6. \A id \in Ids : EntryKept(id) /\ InUse(id)
  BY <1>2 DEF EntryKept, InUse
<1>7. /\ RuntimeInv(Processing)' /\ LedgerInv' /\ RowsMove
      /\ \A id \in Ids : NobodyHas(id)' = NobodyHas(id)
      /\ \A v \in Workers : workers'[v] = workers[v]
  BY <1>2, Elsewhere
<1>8. ThingsInv'
  <2>1. \A y \in Results : things'[y].title = "none" <=> things'[y].job = None
    BY <1>3, <1>4 DEF ThingsInv, TitlesMove
  <2>2. \A y \in renames' : things'[y].job # None
    BY <1>3, <1>4 DEF ThingsInv, TitlesMove
  <2>3. \A id \in Ids : \A y, z \in Live(id)' : y = z
    BY <1>3, <1>5 DEF ThingsInv, LiveKept
  <2> QED BY <1>2, <1>3, <1>4, <2>1, <2>2, <2>3 DEF ThingsInv, TitlesMove
<1>9. \A v \in Workers : WorkOK(v)'
  <2> SUFFICES ASSUME NEW v \in Workers PROVE WorkOK(v)'
    OBVIOUS
  <2>1. workers[v].pc \in Processing \ {"ensure"} => workers[v].id \in Ids
    BY AtWork
  <2>2. workers[v].pc \in {"capture", "save"} => LiveKept(workers[v].id)
    BY <1>5, <1>7, <2>1 DEF LiveKept, Processing
  <2>3. At(v, "capture") => /\ deliveries'[workers[v].id].state = "creating"
                            /\ made'[workers[v].id] = {}
    BY <1>2, <1>3 DEF WorkOK
  <2>4. workers[v].pc \in Processing \ {"ensure"} => EntryKept(workers[v].id)
    BY <1>6, <2>1
  <2> QED BY <1>5, <1>7, <2>2, <2>3, <2>4, OthersOK
<1>10. CaptureAlone'
  BY <1>3, <1>7, AloneKept DEF Harmless
<1>11. \A id \in Ids : EntryOK(id)'
  <2> SUFFICES ASSUME NEW id \in Ids PROVE EntryOK(id)'
    OBVIOUS
  <2>1. EntryOK(id) /\ Live(id)' \subseteq Live(id) /\ deliveries'[id] = deliveries[id]
        /\ made'[id] = made[id]
    BY <1>2, <1>3, <1>5 DEF LiveKept
  <2>2. deliveries[id].state \in Located =>
          /\ things'[deliveries[id].task].job = id
          /\ things[deliveries[id].task].title \in SettledTitles =>
               things'[deliveries[id].task].title \in SettledTitles
    BY <1>4, <2>1 DEF EntryOK, TitlesMove
  <2> QED BY <2>1, <2>2 DEF EntryOK, Located
<1>12. \A id \in Ids : KeptOK(id)'
  <2>1. \A id \in Ids : made'[id] = made[id]
    BY <1>2
  <2> QED BY <1>6, <1>7, <2>1, KeptKept
<1>13. RealInv'
  <2>1. \A m \in mail : m.task # None => m.task \in Results
    BY <1>3 DEF Messages
  <2> QED BY <1>2, <1>3, <1>4, <2>1 DEF RealInv, TitlesMove
<1> QED BY <1>7, <1>8, <1>9, <1>10, <1>11, <1>12, <1>13 DEF CaptureInv

\* Polls, answers, crashes, lost reports and lapsing leases.
LEMMA RuntimeKeeps ==
  ASSUME CaptureInv, UNCHANGED captureVars,
         (\E w \in Workers : WorkerLoop(w)) \/ Serve \/ Failure \/ Lapse
  PROVE  CaptureInv'
<1>1. RuntimeInv(Processing) /\ LedgerInv /\ "ensure" \in Processing /\ RuntimeStep
  BY DEF CaptureInv, Processing, RuntimeStep
<1>2. UNCHANGED <<deliveries, things, made, renames>>
  BY DEF captureVars
<1>3. RuntimeInv(Processing)' /\ Framed /\ LedgerInv'
  BY <1>1, RuntimeStepKeeps, RuntimeStepLedger
<1>4. /\ RowsMove /\ mail' \subseteq mail
      /\ \A id \in Ids : NobodyHas(id) /\ SucceededIfThere(id) => NobodyHas(id)'
      /\ \A id \in Ids : jobs'[id].state = "succeeded" =>
           \/ jobs'[id] = jobs[id]
           \/ \E m \in mail : m.id = id /\ m.task \in Results /\ jobs'[id].result = m.task
  BY <1>1, RuntimeStepQuiet
<1>5. /\ ThingsInv' /\ \A id \in Ids : EntryKept(id) /\ InUse(id) /\ EntryOK(id)'
      /\ \A v \in Workers : At(v, "capture") => deliveries'[workers[v].id].state = "creating"
  BY <1>2, JournalSame
<1>6. \A v \in Workers : workers'[v] = workers[v] \/ WorkOK(v)'
  BY <1>3, IdleOK DEF Framed
<1>7. CaptureAlone'
  <2>1. \A v \in Workers : Harmless(v)
    BY <1>3 DEF Framed, Harmless, Between
  <2> QED BY <2>1, AloneKept DEF CaptureInv
<1>8. RealInv'
  <2>1. RealInv /\ None \notin Results
    BY StoreAssumption DEF CaptureInv
  <2>2. \A m \in mail' : m.task # None =>
          things'[m.task].job = m.id /\ things'[m.task].title \in SettledTitles
    BY <1>2, <1>4, <2>1 DEF RealInv
  <2>3. ASSUME NEW id \in Ids, jobs'[id].state = "succeeded"
        PROVE  /\ jobs'[id].result \in Results
               /\ things'[jobs'[id].result].job = id
               /\ things'[jobs'[id].result].title \in SettledTitles
    BY <1>2, <1>4, <2>1, <2>3 DEF RealInv
  <2> QED BY <2>2, <2>3 DEF RealInv
<1> QED BY <1>2, <1>3, <1>4, <1>5, <1>6, <1>7, <1>8, StillKeeps

\* A step of the tables that no worker and no report notices.
LEMMA TablesKeep ==
  ASSUME CaptureInv, UNCHANGED <<workers, mail, things, renames>>,
         RuntimeInv(Processing)', LedgerInv',
         deliveries' \in [Ids -> Entries], made' \in [Ids -> SUBSET Results],
         \A id \in Ids : made'[id] \in {{}, made[id]},
         \A v \in Workers : workers[v].pc \in Processing \ {"ensure"} =>
           deliveries'[workers[v].id] = deliveries[workers[v].id],
         \A id \in Ids : EntryOK(id)',
         \A id \in Ids : KeptOK(id)',
         \A id \in Ids : jobs'[id].state = "succeeded" =>
           jobs[id].state = "succeeded" /\ jobs'[id].result = jobs[id].result
  PROVE  CaptureInv'
<1>1. ThingsInv /\ RealInv /\ CaptureAlone /\ \A v \in Workers : WorkOK(v)
  BY DEF CaptureInv
<1>2. ThingsKept /\ \A id \in Ids : Live(id)' = Live(id)
  BY LiveSame
<1>3. ThingsInv'
  BY <1>1, <1>2 DEF ThingsInv
<1>4. \A v \in Workers : WorkOK(v)'
  <2> SUFFICES ASSUME NEW v \in Workers PROVE WorkOK(v)'
    OBVIOUS
  <2>1. workers[v].pc \in Processing \ {"ensure"} => workers[v].id \in Ids
    BY AtWork
  <2>2. workers[v].pc \in Processing \ {"ensure"} => EntryKept(workers[v].id)
    BY DEF EntryKept
  <2>3. workers[v].pc \in {"capture", "save"} => LiveKept(workers[v].id)
    BY <1>2, <2>1 DEF LiveKept, Processing
  <2>4. At(v, "capture") => /\ deliveries'[workers[v].id].state = "creating"
                            /\ made'[workers[v].id] = {}
    BY <1>1, <2>1 DEF WorkOK, At, Processing
  <2> QED BY <1>2, <2>2, <2>3, <2>4, OthersOK
<1>5. CaptureAlone'
  BY <1>1, AloneKept DEF Harmless
<1>6. RealInv'
  BY <1>1 DEF RealInv
<1> QED BY <1>3, <1>4, <1>5, <1>6 DEF CaptureInv

\* A row that is asked for again starts over.
LEMMA AskKeeps ==
  ASSUME CaptureInv, NEW id \in Ids, NEW p \in Payloads, Ask(id, p)
  PROVE  CaptureInv'
<1>1. /\ RuntimeInv(Processing) /\ LedgerInv /\ "ensure" \in Processing /\ RuntimeStep
      /\ ThingsInv /\ (\A i \in Ids : EntryOK(i) /\ KeptOK(i))
      /\ jobs \in [Ids -> Rows]
  BY DEF CaptureInv, Processing, RuntimeStep, Ask, RuntimeInv, RuntimeTypeOK, StoreTypeOK
<1>2. RuntimeInv(Processing)' /\ LedgerInv'
  BY <1>1, RuntimeStepKeeps, RuntimeStepLedger
<1>3. /\ UNCHANGED <<deliveries, things, renames, workers, mail>>
      /\ jobs' = [jobs EXCEPT ![id] = QueuedRow(p)]
      /\ made' = [made EXCEPT ![id] = {}]
  BY DEF Ask, Enqueue, Insert, thingsVars
<1>4. /\ jobs'[id].state = "queued" /\ \A i \in Ids \ {id} : jobs'[i] = jobs[i]
      /\ made'[id] = {} /\ \A i \in Ids \ {id} : made'[i] = made[i]
      /\ made' \in [Ids -> SUBSET Results]
  BY <1>1, <1>3 DEF QueuedRow, NoRow, ThingsInv
<1>5. \A i \in Ids : EntryOK(i)'
  BY <1>1, <1>3, <1>4, LiveSame DEF EntryOK
<1>6. \A i \in Ids : KeptOK(i)'
  BY <1>1, <1>3, <1>4 DEF KeptOK, SucceededIfThere, Present, NobodyHas
<1> QED BY <1>1, <1>2, <1>3, <1>4, <1>5, <1>6, TablesKeep DEF ThingsInv

LEMMA DaysPassKeeps ==
  ASSUME CaptureInv, DaysPass
  PROVE  CaptureInv'
<1>1. PICK id \in Ids :
        /\ Quiet(id)
        /\ \/ RetentionPasses(id) /\ UNCHANGED deliveries
           \/ EntryAges(id) /\ UNCHANGED storeVars
  BY DEF DaysPass
<1>2. /\ UNCHANGED <<workers, mail, counters>>
      /\ UNCHANGED <<workers, mail, things, renames, made>> /\ NobodyHas(id)
  BY <1>1 DEF DaysPass, Quiet, NobodyHas, thingsVars
<1>3. /\ RuntimeInv(Processing) /\ LedgerInv /\ ThingsInv
      /\ (\A i \in Ids : EntryOK(i) /\ KeptOK(i))
      /\ jobs \in [Ids -> Rows] /\ made \in [Ids -> SUBSET Results]
      /\ deliveries \in [Ids -> Entries]
  BY DEF CaptureInv, RuntimeInv, RuntimeTypeOK, StoreTypeOK, ThingsInv
<1>4. CASE RetentionPasses(id) /\ UNCHANGED deliveries
  <2>1. RuntimeInv(Processing)' /\ LedgerInv'
    BY <1>2, <1>3, <1>4, StoreTicks, TableLedger
  <2>2. \A i \in Ids : jobs'[i].state = jobs[i].state /\ jobs'[i].result = jobs[i].result
    BY <1>3, <1>4 DEF RetentionPasses, Rows
  <2>3. \A i \in Ids : EntryOK(i)'
    BY <1>2, <1>3, <1>4, LiveSame DEF EntryOK
  <2>4. \A i \in Ids : KeptOK(i)'
    BY <1>2, <1>3, <1>4, <2>2 DEF KeptOK, SucceededIfThere, Present, NobodyHas
  <2> QED BY <1>2, <1>3, <1>4, <2>1, <2>2, <2>3, <2>4, TablesKeep
<1>5. CASE EntryAges(id) /\ UNCHANGED storeVars
  <2> DEFINE e == [deliveries[id] EXCEPT !.aged = TRUE]
  <2>1. /\ deliveries' = [deliveries EXCEPT ![id] = e] /\ e \in Entries
        /\ e.state = deliveries[id].state /\ e.task = deliveries[id].task
        /\ e.state # "none"
    BY <1>3, <1>5 DEF EntryAges, Recorded, Entries
  <2> HIDE DEF e
  <2>2. /\ deliveries'[id] = e /\ deliveries' \in [Ids -> Entries]
        /\ \A i \in Ids \ {id} : deliveries'[i] = deliveries[i]
    BY <1>3, <2>1
  <2>3. RuntimeInv(Processing)' /\ LedgerInv' /\ UNCHANGED jobs
    BY <1>2, <1>5, Elsewhere DEF storeVars
  <2>4. \A i \in Ids : EntryOK(i)'
    BY <1>2, <1>3, <2>1, <2>2, LiveSame DEF EntryOK
  <2>5. \A i \in Ids : KeptOK(i)'
    <3> SUFFICES ASSUME NEW i \in Ids PROVE KeptOK(i)'
      OBVIOUS
    <3>1. /\ SucceededIfThere(i)' = SucceededIfThere(i) /\ NobodyHas(i)' = NobodyHas(i)
          /\ made'[i] = made[i] /\ KeptOK(i) /\ deliveries'[i].state = deliveries[i].state
      BY <1>2, <1>3, <2>1, <2>2, <2>3 DEF SucceededIfThere, Present, NobodyHas
    <3> QED BY <1>2, <2>2, <3>1 DEF KeptOK
  <2>6. \A v \in Workers : deliveries'[workers[v].id] = deliveries[workers[v].id]
                           \/ workers[v].pc \notin Processing
    BY <1>2, <2>2, AtWork DEF NobodyHas
  <2> QED BY <1>2, <1>3, <2>2, <2>3, <2>4, <2>5, <2>6, TablesKeep
<1> QED BY <1>1, <1>4, <1>5

LEMMA SweepKeeps ==
  ASSUME CaptureInv, Sweep
  PROVE  CaptureInv'
<1>2. /\ UNCHANGED <<workers, mail, counters>>
      /\ UNCHANGED <<workers, mail, things, renames, made>>
  BY DEF Sweep, thingsVars
<1>3. /\ RuntimeInv(Processing) /\ LedgerInv /\ ThingsInv
      /\ (\A i \in Ids : EntryOK(i) /\ KeptOK(i)) /\ (\A v \in Workers : WorkOK(v))
      /\ jobs \in [Ids -> Rows] /\ made \in [Ids -> SUBSET Results]
      /\ deliveries \in [Ids -> Entries]
  BY DEF CaptureInv, RuntimeInv, RuntimeTypeOK, StoreTypeOK, ThingsInv
<1>4. CASE PruneTerminal /\ UNCHANGED deliveries
  <2>1. RuntimeInv(Processing)' /\ LedgerInv'
    BY <1>2, <1>3, <1>4, StoreTicks, TableLedger
  <2>2. \A i \in Ids : jobs'[i] = jobs[i] \/ jobs'[i].state = "absent"
    BY <1>3, <1>4 DEF PruneTerminal, NoRow
  <2>3. \A i \in Ids : EntryOK(i)'
    BY <1>2, <1>3, <1>4, LiveSame DEF EntryOK
  <2>4. \A i \in Ids : KeptOK(i)'
    BY <1>2, <1>3, <1>4, <2>2 DEF KeptOK, SucceededIfThere, Present, NobodyHas
  <2> QED BY <1>2, <1>3, <1>4, <2>1, <2>2, <2>3, <2>4, TablesKeep
<1>5. CASE PruneReported /\ UNCHANGED storeVars
  <2>1. NoEntry \in Entries /\ NoEntry.state = "none"
    BY DEF NoEntry, Entry, Entries, DeliveryStates
  <2>2. /\ deliveries' \in [Ids -> Entries]
        /\ \A i \in Ids : \/ deliveries'[i] = deliveries[i]
                          \/ ReportedAndOld(deliveries[i]) /\ deliveries'[i] = NoEntry
    BY <1>3, <1>5, <2>1 DEF PruneReported
  <2>3. RuntimeInv(Processing)' /\ LedgerInv' /\ UNCHANGED jobs
    BY <1>2, <1>5, Elsewhere DEF storeVars
  <2>4. \A i \in Ids : EntryOK(i)'
    <3> SUFFICES ASSUME NEW i \in Ids PROVE EntryOK(i)'
      OBVIOUS
    <3>1. EntryOK(i) /\ Live(i)' = Live(i) /\ made'[i] = made[i] /\ UNCHANGED things
      BY <1>2, <1>3, LiveSame
    <3>2. CASE deliveries'[i] = deliveries[i]
      BY <3>1, <3>2 DEF EntryOK
    <3>3. CASE ReportedAndOld(deliveries[i]) /\ deliveries'[i] = NoEntry
      BY <2>1, <3>1, <3>3 DEF EntryOK, ReportedAndOld, Located
    <3> QED BY <2>2, <3>2, <3>3
  <2>5. \A i \in Ids : KeptOK(i)'
    <3> SUFFICES ASSUME NEW i \in Ids PROVE KeptOK(i)'
      OBVIOUS
    <3>1. /\ SucceededIfThere(i)' = SucceededIfThere(i) /\ NobodyHas(i)' = NobodyHas(i)
          /\ made'[i] = made[i] /\ KeptOK(i)
      BY <1>2, <1>3, <2>3 DEF SucceededIfThere, Present, NobodyHas
    <3> QED BY <2>1, <2>2, <3>1 DEF KeptOK, ReportedAndOld
\* Whoever works on a row saw to it that it is not an old, reported one.
  <2>6. \A v \in Workers : workers[v].pc \in Processing \ {"ensure"} =>
          deliveries'[workers[v].id] = deliveries[workers[v].id]
    BY <1>3, <2>2, AtWork DEF WorkOK, ReportedAndOld
  <2> QED BY <1>2, <1>3, <2>2, <2>3, <2>4, <2>5, <2>6, TablesKeep
<1> QED BY <1>4, <1>5 DEF Sweep

-----------------------------------------------------------------------------
(* The inductive invariant, and what follows from it                       *)

LEMMA CaptureInitInv == DeliveryInit => CaptureInv
<1> SUFFICES ASSUME DeliveryInit PROVE CaptureInv
  OBVIOUS
<1>1. RuntimeInv(Processing) /\ LedgerInv /\ None \notin Ids
  BY InitRuntimeInv, InitLedger, StoreAssumption DEF DeliveryInit
<1>2. /\ \A w \in Workers : workers[w].pc = "idle"
      /\ mail = {} /\ \A id \in Ids : jobs[id].state = "absent"
  BY DEF DeliveryInit, RuntimeInit, StoreInit, NoRow, IdleWorker, Worker
<1>3. NoEntry \in Entries /\ NoEntry.state = "none"
  BY DEF NoEntry, Entry, Entries, DeliveryStates
<1>4. /\ \A id \in Ids : deliveries[id] = NoEntry /\ made[id] = {}
      /\ \A x \in Results : things[x] = [job |-> None, title |-> "none"]
      /\ deliveries \in [Ids -> Entries] /\ made \in [Ids -> SUBSET Results]
      /\ renames = {}
  BY <1>3 DEF DeliveryInit, JournalInit
<1>5. things \in [Results -> TaskStates]
  BY DEF DeliveryInit, TaskStates, Titles
<1>6. \A id \in Ids : Live(id) = {}
  <2>1. \A x \in Results : things[x].job = None
    BY <1>4
  <2> QED BY <1>1, <2>1 DEF Live
<1>7. ThingsInv
  BY <1>4, <1>5, <1>6 DEF ThingsInv
<1>8. \A w \in Workers : WorkOK(w)
  BY <1>2 DEF WorkOK, At, Owning, Processing
<1>9. CaptureAlone /\ RealInv
  BY <1>2 DEF CaptureAlone, At, RealInv
<1>10. \A id \in Ids : EntryOK(id) /\ KeptOK(id)
  BY <1>3, <1>4, <1>6 DEF EntryOK, KeptOK, Located
<1> QED BY <1>1, <1>7, <1>8, <1>9, <1>10 DEF CaptureInv

LEMMA CaptureStepInv == CaptureInv /\ [DeliveryNext]_deliveryVars => CaptureInv'
<1> SUFFICES ASSUME CaptureInv, [DeliveryNext]_deliveryVars PROVE CaptureInv'
  OBVIOUS
<1>1. CASE \E id \in Ids, p \in Payloads : Ask(id, p)
  BY <1>1, AskKeeps
<1>2. CASE \E w \in Workers : WorkerStep(w)
  <2>1. PICK w \in Workers : Process(w) \/ (WorkerLoop(w) /\ UNCHANGED captureVars)
    BY <1>2 DEF WorkerStep
  <2> QED BY <2>1, ProcessKeeps, RuntimeKeeps
<1>3. CASE (Serve \/ Failure \/ Lapse) /\ UNCHANGED captureVars
  BY <1>3, RuntimeKeeps
<1>4. CASE ThingsStep
  BY <1>4, ThingsStepKeeps
<1>5. CASE DaysPass
  BY <1>5, DaysPassKeeps
<1>6. CASE Sweep
  BY <1>6, SweepKeeps
<1>7. CASE UNCHANGED deliveryVars
  <2>1. /\ UNCHANGED <<storeVars, workers, mail, counters>>
        /\ UNCHANGED <<deliveries, things, made>> /\ renames' = renames
        /\ UNCHANGED <<workers, mail, things, renames, jobs>>
    BY <1>7 DEF deliveryVars, runtimeVars, captureVars, storeVars, counters
  <2>2. /\ RuntimeInv(Processing)' /\ LedgerInv' /\ RowsMove
        /\ \A id \in Ids : NobodyHas(id)' = NobodyHas(id)
    BY <2>1, Elsewhere
  <2>3. /\ ThingsInv' /\ \A id \in Ids : EntryKept(id) /\ InUse(id) /\ EntryOK(id)'
        /\ \A v \in Workers : At(v, "capture") =>
             deliveries'[workers[v].id].state = "creating"
    BY <2>1, JournalSame
  <2>4. CaptureAlone' /\ RealInv'
    BY <2>1, AloneKept, RealKept DEF CaptureInv, Harmless
  <2> QED BY <2>1, <2>2, <2>3, <2>4, StillKeeps
<1> QED BY <1>1, <1>2, <1>3, <1>4, <1>5, <1>6, <1>7 DEF DeliveryNext

\* The invariant holds in every state of every behaviour.
THEOREM CaptureAlways == DeliverySpec => []CaptureInv
BY CaptureInitInv, CaptureStepInv, PTL DEF DeliverySpec

\* Every row, entry, message and worker of internal/queue, internal/journal and
\* internal/worker has its shape, and who is past the creation has an identifier.
THEOREM DeliveryTypes == DeliverySpec => []DeliveryTypeOK
<1>1. CaptureInv => DeliveryTypeOK
  <2> SUFFICES ASSUME CaptureInv PROVE DeliveryTypeOK
    OBVIOUS
  <2>1. /\ RuntimeTypeOK(Processing) /\ LeaseShape /\ LedgerInv /\ ThingsInv
        /\ None \notin Ids \cup Results /\ \A id \in Ids : EntryOK(id)
    BY StoreAssumption DEF CaptureInv, RuntimeInv
  <2>2. ASSUME NEW w \in Workers
        PROVE  /\ workers[w].id = None <=> workers[w].pc \in {"idle", "polling"}
               /\ workers[w].pc \in Identified => workers[w].task # None
    <3>1. workers[w].id = None <=> workers[w].pc \in {"idle", "polling"}
      BY <2>1 DEF LedgerInv, Holding, LeaseShape
    <3>2. workers[w].pc = "reported" => workers[w].task # None
      BY <2>1 DEF LedgerInv, At
    <3>3. workers[w].pc = "save" => workers[w].task # None
      BY <2>1 DEF CaptureInv, WorkOK, At
    <3>4. workers[w].pc \in Owning => workers[w].task # None
      <4> SUFFICES ASSUME workers[w].pc \in Owning PROVE workers[w].task # None
        OBVIOUS
      <4>1. WorkOK(w) /\ workers[w].id \in Ids
        BY AtWork DEF Owning, Processing
      <4> QED BY <2>1, <4>1 DEF WorkOK, EntryOK
    <3> QED BY <3>1, <3>2, <3>3, <3>4 DEF Identified, Owning
  <2> QED BY <2>1, <2>2 DEF DeliveryTypeOK, JournalTypeOK, ThingsInv
<1> QED BY <1>1, CaptureAlways, PTL

\* However many processes share the journal, wherever they stop and whatever is lost,
\* Things is asked for at most one task per row of the queue (internal/worker/processor.go).
THEOREM OneTaskIsMade == DeliverySpec => []OneTaskPerJob
<1>1. CaptureInv => OneTaskPerJob
  <2> SUFFICES ASSUME CaptureInv, NEW id \in Ids PROVE Cardinality(made[id]) <= 1
    BY DEF OneTaskPerJob
  <2>1. \A x, y \in made[id] : x = y
    BY DEF CaptureInv, ThingsInv
  <2>2. CASE made[id] = {}
    <3>1. Cardinality({}) = 0
      BY FS_EmptySet
    <3> QED BY <2>2, <3>1
  <2>3. CASE made[id] # {}
    <3>1. PICK x : made[id] = {x}
      BY <2>1, <2>3
    <3>2. Cardinality({x}) = 1
      BY FS_Singleton
    <3> QED BY <3>1, <3>2
  <2> QED BY <2>2, <2>3
<1> QED BY <1>1, CaptureAlways, PTL

\* A job that the server calls succeeded has its own task in Things, and the task its
\* title: complete (internal/server/handler.go) believes what a worker reports.
THEOREM SuccessesAreReal == DeliverySpec => []SuccessIsReal
<1>1. CaptureInv => SuccessIsReal
  BY DEF CaptureInv, RealInv, SuccessIsReal, SettledTitles
<1> QED BY <1>1, CaptureAlways, PTL

\* The journal forgets a delivery that made a task only after the server kept its success
\* (MarkReported and PruneReported of internal/journal/store.go).
THEOREM ReportsAreKept == DeliverySpec => []ReportedMeansKept
<1>1. CaptureInv => ReportedMeansKept
  BY DEF CaptureInv, KeptOK, SucceededIfThere, ReportedMeansKept
<1> QED BY <1>1, CaptureAlways, PTL

-----------------------------------------------------------------------------
(* The promise                                                             *)

\* The rest of the abstract state, as Promise is given it.
TheOwner == [x \in Results |-> things[x].job]
TheNamed == {x \in Results : things[x].title \in SettledTitles}
TheMemory == {id \in Ids : Recorded(id)}

TasksSame == UNCHANGED <<made, TheOwner, TheNamed>>

LEMMA PromiseInit == DeliveryInit => Promise!Init
<1> SUFFICES ASSUME DeliveryInit PROVE Promise!Init
  OBVIOUS
<1>1. /\ TheStatus = [id \in Ids |-> "absent"]
      /\ TheResult = [id \in Ids |-> None]
  BY DEF DeliveryInit, RuntimeInit, StoreInit, NoRow, TheStatus, TheResult, StatusOf
<1>2. /\ TheOwner = [x \in Results |-> None] /\ TheNamed = {}
      /\ made = [id \in Ids |-> {}]
  BY DEF DeliveryInit, TheOwner, TheNamed, SettledTitles
<1>3. TheMemory = {}
  BY DEF DeliveryInit, JournalInit, NoEntry, Entry, Recorded, TheMemory
<1> QED BY <1>1, <1>2, <1>3
        DEF Promise!Init, TheStatus, TheResult, TheOwner, TheNamed, TheMemory, SettledTitles

LEMMA PromiseStutters ==
  ASSUME NothingSeen, TasksSame, UNCHANGED TheMemory
  PROVE  UNCHANGED Promise!vars
BY DEF NothingSeen, TasksSame, TheStatus, TheResult, TheOwner, TheNamed, TheMemory,
       SettledTitles, Promise!vars

\* A job that somebody works on is in the queue.
LEMMA WorkedOnIsThere ==
  ASSUME CaptureInv, NEW w \in Workers, workers[w].pc \in Processing
  PROVE  workers[w].id \in Ids /\ TheStatus[workers[w].id] # "absent"
<1>1. workers[w].id \in Ids
  BY AtWork
<1>2. jobs[workers[w].id].state # "absent"
  BY <1>1 DEF CaptureInv, LedgerInv, NobodyHas, Present
<1> QED BY <1>1, <1>2 DEF TheStatus, StatusOf

\* The transitions of a row make no row and delete none.
LEMMA TransitionsRemember ==
  ASSUME deliveries \in [Ids -> Entries], NEW id \in Ids,
         \/ MarkCreating(id) \/ MarkFinalised(id) \/ MarkReported(id)
         \/ \E task \in Results \cup {None} : MarkCreated(id, task)
         \/ EntryAges(id)
         \/ UNCHANGED deliveries
  PROVE  UNCHANGED TheMemory
<1>1. ASSUME NEW from, NEW to \in DeliveryStates \ {"none"},
             "none" \notin from, Advance(id, from, to)
      PROVE  UNCHANGED TheMemory
  <2>1. deliveries[id].state # "none"
    BY <1>1 DEF Advance, In
  <2>2. /\ deliveries'[id].state = to
        /\ \A i \in Ids \ {id} : deliveries'[i] = deliveries[i]
    BY <1>1 DEF Advance, Entries
  <2> QED BY <1>1, <2>1, <2>2 DEF TheMemory, Recorded
<1>2. CASE MarkCreating(id) \/ MarkFinalised(id) \/ MarkReported(id)
  BY <1>1, <1>2 DEF MarkCreating, MarkFinalised, MarkReported, DeliveryStates
<1>3. CASE \E task \in Results \cup {None} : MarkCreated(id, task)
  BY <1>3 DEF MarkCreated, In, Entry, TheMemory, Recorded
<1>4. CASE EntryAges(id)
  <2>1. /\ deliveries'[id].state = deliveries[id].state
        /\ \A i \in Ids \ {id} : deliveries'[i] = deliveries[i]
    BY <1>4 DEF EntryAges, Entries
  <2> QED BY <2>1 DEF TheMemory, Recorded
<1>5. CASE UNCHANGED deliveries
  BY <1>5 DEF TheMemory, Recorded
<1> QED BY <1>2, <1>3, <1>4, <1>5

\* A worker's steps but for the two that concern the outside.
LEMMA MostStepsAreHidden ==
  ASSUME CaptureInv, NEW w \in Workers,
         \/ Find(w) \/ Claim(w) \/ VerifyAdd(w) \/ Save(w) \/ Reload(w)
         \/ FinaliseCapture(w) \/ DispatchRename(w) \/ Confirm(w) \/ Seal(w)
         \/ Stumble(w) \/ Acknowledged(w)
  PROVE  UNCHANGED Promise!vars
<1>1. UNCHANGED <<storeVars, things, made>>
  BY DEF Find, Claim, VerifyAdd, Save, Reload, FinaliseCapture, DispatchRename, Confirm, Seal,
         Stumble, Acknowledged, thingsVars
<1>2. NothingSeen /\ TasksSame
  BY <1>1, RowsUnseen DEF storeVars, TasksSame, TheOwner, TheNamed
<1>3. /\ workers[w].id \in Ids /\ workers[w].task \in Results \cup {None}
      /\ deliveries \in [Ids -> Entries]
  <2>1. workers[w].pc \notin {"idle", "polling"}
    BY DEF Find, Claim, VerifyAdd, Save, Reload, FinaliseCapture, DispatchRename, Confirm, Seal,
           Stumble, Acknowledged, At, Processing
  <2> QED BY <2>1 DEF CaptureInv, RuntimeInv, RuntimeTypeOK, LeaseShape, ThingsInv, WorkerStates
<1>4. UNCHANGED TheMemory
  <2>1. CASE UNCHANGED deliveries
    BY <1>3, <2>1, TransitionsRemember
  <2>2. CASE Claim(w) \/ Save(w) \/ Seal(w) \/ Acknowledged(w)
    BY <1>3, <2>1, <2>2, TransitionsRemember DEF Claim, Save, Seal, Acknowledged
  <2>3. UNCHANGED deliveries \/ Claim(w) \/ Save(w) \/ Seal(w) \/ Acknowledged(w)
    BY DEF Find, VerifyAdd, Reload, FinaliseCapture, DispatchRename, Confirm, Stumble
  <2> QED BY <2>1, <2>2, <2>3
<1> QED BY <1>2, <1>4, PromiseStutters

LEMMA EnsureRemembers ==
  ASSUME CaptureInv, NEW w \in Workers, Ensure(w)
  PROVE  Promise!Next
<1> DEFINE id == workers[w].id
<1>1. id \in Ids /\ TheStatus[id] # "absent" /\ deliveries \in [Ids -> Entries]
  BY WorkedOnIsThere DEF Ensure, At, Processing, CaptureInv, ThingsInv
<1>2. PICK job \in Ids : job = id
  BY <1>1
<1>3. NothingSeen /\ TasksSame
  BY RowsUnseen DEF Ensure, storeVars, thingsVars, TasksSame, TheOwner, TheNamed
<1>4. deliveries' = IF Recorded(job) THEN deliveries
                    ELSE [deliveries EXCEPT ![job] = Entry("received", workers[w].payload, None)]
  BY <1>2 DEF Ensure, EnsureDelivery
<1>5. TheMemory' = TheMemory \cup {job}
  BY <1>1, <1>4 DEF TheMemory, Recorded, Entry
<1>6. Promise!Remember(job)
  BY <1>1, <1>2, <1>3, <1>5
     DEF Promise!Remember, NothingSeen, TasksSame, TheStatus, TheResult, TheOwner, TheNamed,
         TheMemory, SettledTitles
<1> QED BY <1>6 DEF Promise!Next

LEMMA DispatchAsks ==
  ASSUME CaptureInv, NEW w \in Workers, NEW x \in Results, DispatchAdd(w, x)
  PROVE  Promise!Next
<1> DEFINE id == workers[w].id
<1>1. /\ id \in Ids /\ TheStatus[id] # "absent" /\ deliveries \in [Ids -> Entries]
      /\ things \in [Results -> TaskStates] /\ made \in [Ids -> SUBSET Results]
      /\ \A y \in Results : things[y].title = "none" <=> things[y].job = None
  BY WorkedOnIsThere DEF DispatchAdd, At, Processing, CaptureInv, ThingsInv
<1>2. PICK job \in Ids : job = id
  BY <1>1
<1>3. made[job] = {} /\ deliveries[job].state = "creating"
  BY <1>2 DEF DispatchAdd, CaptureInv, WorkOK
<1>4. /\ things[x].title = "none" /\ things[x].job = None
      /\ things' = [things EXCEPT ![x] = [job |-> job, title |-> "flying"]]
      /\ made' = [made EXCEPT ![job] = made[job] \cup {x}]
      /\ UNCHANGED <<storeVars, deliveries>>
  BY <1>1, <1>2 DEF DispatchAdd
<1>5. NothingSeen /\ UNCHANGED TheMemory
  BY <1>4, RowsUnseen DEF storeVars, TheMemory, Recorded
<1>6. TheOwner' = [TheOwner EXCEPT ![x] = job] /\ TheOwner[x] = None
  BY <1>1, <1>4 DEF TheOwner
<1>7. UNCHANGED TheNamed
  BY <1>1, <1>4 DEF TheNamed, SettledTitles
<1>8. made' = [made EXCEPT ![job] = {x}] /\ job \in TheMemory
  BY <1>3, <1>4 DEF TheMemory, Recorded
<1>9. Promise!AskForTask(job, x)
  BY <1>1, <1>2, <1>3, <1>5, <1>6, <1>7, <1>8
     DEF Promise!AskForTask, NothingSeen, TheStatus, TheResult, TheOwner, TheNamed,
         TheMemory, SettledTitles
<1> QED BY <1>9 DEF Promise!Next

\* What Things and its user do to a task takes it towards a title of its own.
LEMMA ThingsNames ==
  ASSUME CaptureInv, ThingsStep
  PROVE  Promise!Next \/ UNCHANGED Promise!vars
<1>1. PICK x \in Results : AddArrives(x) \/ RenameArrives(x) \/ UserEdits(x)
  BY DEF ThingsStep
<1>2. /\ things \in [Results -> TaskStates]
      /\ \A y \in Results : things[y].title = "none" <=> things[y].job = None
      /\ \A y \in renames : things[y].job # None
  BY DEF CaptureInv, ThingsInv
<1>3. UNCHANGED <<storeVars, deliveries, made>>
  BY <1>1 DEF AddArrives, RenameArrives, UserEdits
<1>4. NothingSeen /\ UNCHANGED TheMemory
  BY <1>3, RowsUnseen DEF storeVars, TheMemory, Recorded
<1>5. PICK title \in {"pending", "final", "edited", "trashed", things[x].title} :
        things' = [things EXCEPT ![x].title = title]
  <2>1. UNCHANGED things => things' = [things EXCEPT ![x].title = things[x].title]
    BY <1>2 DEF TaskStates
  <2> QED BY <1>1, <2>1 DEF AddArrives, RenameArrives, UserEdits
<1>6. UNCHANGED TheOwner
  BY <1>2, <1>5 DEF TheOwner, TaskStates
<1>7. things[x].job # None
  BY <1>1, <1>2 DEF AddArrives, RenameArrives, UserEdits
<1>8. /\ things'[x].title = title
      /\ \A y \in Results \ {x} : things'[y] = things[y]
  BY <1>2, <1>5 DEF TaskStates
<1>9. CASE title \in SettledTitles
  <2>1. TheNamed' = TheNamed \cup {x}
    BY <1>8, <1>9 DEF TheNamed
  <2>2. TheOwner[x] # None
    BY <1>7 DEF TheOwner
  <2>3. Promise!Name(x)
    BY <1>3, <1>4, <1>6, <2>1, <2>2
       DEF Promise!Name, NothingSeen, TheStatus, TheResult, TheOwner, TheNamed, TheMemory,
           SettledTitles
  <2> QED BY <2>3 DEF Promise!Next
<1>10. CASE title \notin SettledTitles
  <2>1. things[x].title \notin SettledTitles
    <3>1. \/ things[x].title = "flying" \/ UNCHANGED things
          \/ \E new \in SettledTitles : things' = [things EXCEPT ![x].title = new]
      BY <1>1 DEF AddArrives, RenameArrives, UserEdits, SettledTitles
    <3>2. \A new : things' = [things EXCEPT ![x].title = new] => things'[x].title = new
      BY <1>2 DEF TaskStates
    <3> QED BY <1>8, <1>10, <3>1, <3>2 DEF SettledTitles
  <2>2. UNCHANGED TheNamed
    BY <1>8, <1>10, <2>1 DEF TheNamed
  <2> QED BY <1>3, <1>4, <1>6, <2>2, PromiseStutters DEF TasksSame
<1> QED BY <1>9, <1>10

LEMMA RuntimeKeepsPromise ==
  ASSUME CaptureInv, UNCHANGED captureVars,
         (\E w \in Workers : WorkerLoop(w)) \/ Serve \/ Failure \/ Lapse
  PROVE  Promise!Next \/ UNCHANGED Promise!vars
<1>1. /\ RuntimeInv(Processing) /\ RealInv
      /\ UNCHANGED <<made, things, deliveries>> /\ TasksSame /\ UNCHANGED TheMemory
  BY DEF CaptureInv, captureVars, TasksSame, TheOwner, TheNamed, TheMemory, Recorded
<1>2. CASE NothingSeen
  BY <1>1, <1>2, PromiseStutters
<1>3. CASE \E failing \in SUBSET Ids : JobsFail(failing)
  <2>1. PICK failing \in SUBSET Ids : JobsFail(failing)
    BY <1>3
  <2>2. Promise!GiveUp(failing)
    BY <1>1, <2>1
       DEF Promise!GiveUp, JobsFail, TasksSame, TheStatus, TheResult, TheOwner, TheNamed,
           TheMemory, SettledTitles
  <2> QED BY <2>2 DEF Promise!Next
<1>4. CASE \E m \in mail : /\ m.id \in Ids /\ m.task \in Results
                           /\ HoldsLease(m.id, m.token) /\ JobSucceeds(m.id, m.task)
  <2>1. PICK m \in mail : m.id \in Ids /\ m.task \in Results /\ JobSucceeds(m.id, m.task)
    BY <1>4
  <2>2. TheOwner[m.task] = m.id /\ m.task \in TheNamed
    BY <1>1, <2>1, StoreAssumption DEF RealInv, TheOwner, TheNamed
  <2>3. PICK id \in Ids, x \in Results : id = m.id /\ x = m.task
    BY <2>1
  <2>4. Promise!Succeed(id, x)
    BY <1>1, <2>1, <2>2, <2>3
       DEF Promise!Succeed, JobSucceeds, TasksSame, TheStatus, TheResult, TheOwner, TheNamed,
           TheMemory, SettledTitles
  <2> QED BY <2>4 DEF Promise!Next
<1> QED BY <1>1, <1>2, <1>3, <1>4, RuntimeStepSeen

LEMMA TimeKeepsPromise ==
  ASSUME CaptureInv, DaysPass \/ Sweep
  PROVE  Promise!Next \/ UNCHANGED Promise!vars
<1>1. /\ StoreTypeOK /\ deliveries \in [Ids -> Entries] /\ UNCHANGED <<made, things>>
      /\ TasksSame
  BY DEF CaptureInv, RuntimeInv, RuntimeTypeOK, ThingsInv, DaysPass, Sweep, thingsVars,
         TasksSame, TheOwner, TheNamed
<1>2. UNCHANGED deliveries => UNCHANGED TheMemory
  BY DEF TheMemory, Recorded
<1>3. UNCHANGED storeVars => NothingSeen
  BY RowsUnseen DEF storeVars
<1>4. CASE DaysPass
  <2>1. PICK id \in Ids : \/ (RetentionPasses(id) /\ UNCHANGED deliveries)
                         \/ (EntryAges(id) /\ UNCHANGED storeVars)
    BY <1>4 DEF DaysPass
  <2>2. NothingSeen
    BY <1>1, <1>3, <2>1, AgeingUnseen
  <2>3. UNCHANGED TheMemory
    BY <1>1, <1>2, <2>1, TransitionsRemember
  <2> QED BY <1>1, <2>2, <2>3, PromiseStutters
<1>5. CASE PruneTerminal /\ UNCHANGED deliveries
  <2>1. PICK gone \in SUBSET Ids : JobsForgotten(gone)
    BY <1>1, <1>5, PruneSeen
  <2>2. Promise!Forget(gone)
    BY <1>1, <1>2, <1>5, <2>1
       DEF Promise!Forget, JobsForgotten, TasksSame, TheStatus, TheResult, TheOwner, TheNamed,
           TheMemory, SettledTitles
  <2> QED BY <2>2 DEF Promise!Next
<1>6. CASE PruneReported /\ UNCHANGED storeVars
  <2> DEFINE gone == {id \in Ids : ReportedAndOld(deliveries[id])}
  <2>1. gone \in SUBSET Ids /\ \A id \in gone : deliveries[id].state = "reported"
    BY DEF ReportedAndOld
  <2>2. TheMemory' = TheMemory \ gone
    BY <1>6 DEF PruneReported, TheMemory, Recorded, NoEntry, Entry
  <2>3. \A id \in gone : made[id] # {} => TheStatus[id] \in {"absent", "succeeded"}
    BY <2>1 DEF CaptureInv, KeptOK, SucceededIfThere, Present, TheStatus, StatusOf
  <2> HIDE DEF gone
  <2>4. PICK some \in SUBSET Ids : some = gone
    BY <2>1
  <2>5. Promise!LetGo(some)
    BY <1>1, <1>3, <1>6, <2>2, <2>3, <2>4
       DEF Promise!LetGo, NothingSeen, TasksSame, TheStatus, TheResult, TheOwner, TheNamed,
           TheMemory, SettledTitles
  <2> QED BY <2>5 DEF Promise!Next
<1> QED BY <1>4, <1>5, <1>6 DEF Sweep

LEMMA AskSubmits ==
  ASSUME CaptureInv, NEW id \in Ids, NEW p \in Payloads, Ask(id, p)
  PROVE  Promise!Next
<1>1. /\ StoreTypeOK /\ Insert(id, p) /\ UNCHANGED <<deliveries, things>>
      /\ made' = [made EXCEPT ![id] = {}]
  BY DEF CaptureInv, RuntimeInv, RuntimeTypeOK, Ask, Enqueue, thingsVars
<1>2. JobSubmitted(id, p)
  BY <1>1, InsertSeen
<1>3. UNCHANGED <<TheOwner, TheNamed, TheMemory>>
  BY <1>1 DEF TheOwner, TheNamed, TheMemory, Recorded
<1>4. Promise!Submit(id)
  BY <1>1, <1>2, <1>3
     DEF Promise!Submit, JobSubmitted, TheStatus, TheResult, TheOwner, TheNamed, TheMemory,
         SettledTitles
<1> QED BY <1>4 DEF Promise!Next

LEMMA NextKeepsPromise ==
  ASSUME CaptureInv, [DeliveryNext]_deliveryVars
  PROVE  [Promise!Next]_(Promise!vars)
<1>1. CASE \E id \in Ids, p \in Payloads : Ask(id, p)
  BY <1>1, AskSubmits
<1>2. CASE \E w \in Workers : WorkerStep(w)
  <2>1. PICK w \in Workers : Process(w) \/ (WorkerLoop(w) /\ UNCHANGED captureVars)
    BY <1>2 DEF WorkerStep
  <2>2. CASE Ensure(w)
    BY <2>2, EnsureRemembers
  <2>3. CASE \E x \in Results : DispatchAdd(w, x)
    BY <2>3, DispatchAsks
  <2>4. CASE \/ Find(w) \/ Claim(w) \/ VerifyAdd(w) \/ Save(w) \/ Reload(w)
             \/ FinaliseCapture(w) \/ DispatchRename(w) \/ Confirm(w) \/ Seal(w)
             \/ Stumble(w) \/ Acknowledged(w)
    BY <2>4, MostStepsAreHidden
  <2>5. CASE WorkerLoop(w) /\ UNCHANGED captureVars
    BY <2>5, RuntimeKeepsPromise
  <2> QED BY <2>1, <2>2, <2>3, <2>4, <2>5 DEF Process
<1>3. CASE (Serve \/ Failure \/ Lapse) /\ UNCHANGED captureVars
  BY <1>3, RuntimeKeepsPromise
<1>4. CASE ThingsStep
  BY <1>4, ThingsNames
<1>5. CASE DaysPass \/ Sweep
  BY <1>5, TimeKeepsPromise
<1>6. CASE UNCHANGED deliveryVars
  <2>1. NothingSeen /\ TasksSame /\ UNCHANGED TheMemory
    BY <1>6, RowsUnseen
       DEF deliveryVars, runtimeVars, captureVars, TasksSame, TheOwner, TheNamed, TheMemory,
           Recorded
  <2> QED BY <2>1, PromiseStutters
<1> QED BY <1>1, <1>2, <1>3, <1>4, <1>5, <1>6 DEF DeliveryNext

\* Queue, workers, journal and Things implement CapturePromise, for every number of each:
\* whatever is delivered again, lost, answered late or forgotten on the way looks from
\* outside like one request for a task that is remembered, named and then reported.
THEOREM CapturesKeepPromise == DeliverySpec => KeepsCapturePromise
<1> QED BY CaptureAlways, PromiseInit, NextKeepsPromise, PTL
        DEF DeliverySpec, KeepsCapturePromise, Promise!Spec

=============================================================================
