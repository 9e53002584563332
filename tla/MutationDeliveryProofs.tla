------------------------ MODULE MutationDeliveryProofs ------------------------
(***************************************************************************)
(* Theorems about MutationDelivery, for every number of workers, jobs,     *)
(* items and deliveries: whatever the workers do to each other, a write    *)
(* that must not be repeated is sent at most once, an update writes to one *)
(* item, a saved outcome is real, and one that was reported stands; all of *)
(* it together implements WritePromise.                                    *)
(*                                                                         *)
(* The argument: a row of the operations table only moves forward as long  *)
(* as a worker is about it (RowKept), so what each worker took from the    *)
(* row stays true of it (WorkOK) whatever the others do.  What a report    *)
(* says is on the row as long as the row cannot be let go and made again   *)
(* while the report is under way: because its key is not reused that soon  *)
(* (OutcomeInv), or because nobody else makes rows (SoleInv).              *)
(***************************************************************************)
EXTENDS MutationDelivery, WorkerRuntimeProofs

-----------------------------------------------------------------------------
(* The inductive invariant                                                 *)

Writing == Processing \ {"ensure", "capture"}
Sendable == {"dispatched"} \cup Settled

Row(w) == operations[workers[w].id]

\* What a worker in the middle of a write has from its row is so.
WorkOK(w) ==
  /\ At(w, "ensure") => About(w) = None
  /\ At(w, "capture") => Is(w, Captures)
  /\ workers[w].pc \in Writing =>
       /\ workers[w].payload \in Natives \cup Updates
       /\ Row(w).payload = workers[w].payload
       /\ Row(w).state = "reported" => ~Row(w).aged
  /\ workers[w].pc \in {"prepare", "check"} => Is(w, Updates)
  /\ At(w, "record") => IF Is(w, Updates) THEN About(w) \in Results ELSE About(w) = None
  /\ At(w, "dispatch") => Row(w).state \in Planned
  /\ workers[w].pc \in {"check", "look", "send", "poll", "finish", "reuse"} =>
       Row(w).state \in Sendable
  /\ workers[w].pc \in {"send", "poll", "finish", "reuse"} => About(w) \in Results
  /\ workers[w].pc \in {"dispatch", "check", "look", "send", "poll", "finish"} /\ Is(w, Updates)
       => About(w) = Row(w).plan
  /\ At(w, "finish") => About(w) \in changed
  /\ At(w, "reuse") => Is(w, Projects) /\ About(w) \in met

JournalInv ==
  /\ deliveries \in [Ids -> Entries]
  /\ operations \in [Ids -> Operations]
  /\ \A id \in Ids : operations[id].state \in Planned =>
       (operations[id].plan # None <=> operations[id].payload \in Updates)
  /\ OneKindPerIdentifier

\* An item that stands after the change got it; so did one a result is saved for,
\* unless the result says otherwise.
ItemsInv ==
  /\ items \in [Results -> Standings]
  /\ flying \in [Results -> Counts]
  /\ changed \in SUBSET Results /\ met \in SUBSET Results
  /\ \A x \in Results : items[x] = "after" => x \in changed
  /\ \A x \in Results : items[x] = "alike" => x \in met
  /\ SavedOutcomeIsReal

\* Nothing is sent before the row says so, and an update only to its plan's item.
SentInv ==
  /\ sent \in [Ids -> [Results -> Counts]]
  /\ \A id \in Ids, x \in Results : sent[id][x] > 0 =>
       /\ operations[id].state \in Sendable
       /\ operations[id].payload \in Updates => x = operations[id].plan

\* A worker that will send, unless it finds that it need not, or has found that an
\* item is to be left as it is.
Poised(w, id) == workers[w].id = id /\ workers[w].pc \in {"look", "send", "reuse"}

\* Of a write that must not be repeated at most one worker is about to send it, and
\* then nobody has, nor found that it is to be left.
UnsafeInv ==
  \A id \in Ids : operations[id].payload \in Unsafe =>
    /\ \A w, v \in Workers : Poised(w, id) /\ Poised(v, id) => w = v
    /\ \A w \in Workers : Poised(w, id) =>
         ~operations[id].differs /\ \A x \in Results : sent[id][x] = 0
    /\ \A x, y \in Results : sent[id][x] > 0 /\ sent[id][y] > 0 => x = y /\ sent[id][x] = 1

MutationInv ==
  /\ RuntimeInv(Processing)
  /\ JournalInv
  /\ ItemsInv
  /\ \A w \in Workers : WorkOK(w)
  /\ SentInv
  /\ UnsafeInv

-----------------------------------------------------------------------------
(* What a step does to a row                                               *)

\* A row that is there keeps its request, its place in the order, and what it saved.
RowKept(id) ==
  HasOperation(id) =>
    /\ operations'[id].payload = operations[id].payload
    /\ operations[id].state \in Planned =>
         operations'[id].state \in Planned /\ operations'[id].plan = operations[id].plan
    /\ operations[id].state \in Sendable => operations'[id].state \in Sendable

\* A row that is not old does not become so.
AgeKept(id) ==
  (operations[id].state = "reported" => ~operations[id].aged) =>
    (operations'[id].state = "reported" => ~operations'[id].aged)

\* No outcome is saved.
NoOutcome(id) ==
  operations'[id].state \in Settled =>
    /\ operations[id].state \in Settled
    /\ operations'[id].result = operations[id].result
    /\ operations'[id].differs = operations[id].differs

\* One is saved that is real: nobody will write for a row that says that an item was
\* left as it is.
RealOutcome(id) ==
  IF operations'[id].differs
    THEN /\ operations'[id].payload \in Projects
         /\ operations'[id].result \in met
         /\ \A x \in Results : sent[id][x] = 0
         /\ \A w \in Workers : ~Poised(w, id)'
    ELSE operations'[id].result \in changed

RowsKept == \A id \in Ids : RowKept(id) /\ AgeKept(id)

LEMMA RowsUnchanged ==
  ASSUME UNCHANGED operations
  PROVE  RowsKept /\ \A id \in Ids : NoOutcome(id)
BY DEF RowsKept, RowKept, AgeKept, NoOutcome, HasOperation

\* The rows that the transitions of a row lead to.
LEMMA OperationTypes ==
  ASSUME NEW row \in Operations
  PROVE  /\ \A p \in Payloads :
              /\ Received(p) \in Operations
              /\ Received(p).state = "received" /\ Received(p).payload = p
         /\ row.state = "prepared" =>
              LET new == [[row EXCEPT !.state = "dispatched"] EXCEPT !.aged = FALSE]
              IN  /\ new \in Operations
                  /\ new.state = "dispatched" /\ new.payload = row.payload
                  /\ new.plan = row.plan
         /\ row.state = "applied" =>
              LET new == [[row EXCEPT !.state = "reported"] EXCEPT !.aged = FALSE]
              IN  /\ new \in Operations
                  /\ new.state = "reported" /\ new.payload = row.payload /\ ~new.aged
                  /\ new.plan = row.plan /\ new.result = row.result
                  /\ new.differs = row.differs
         /\ row.state # "none" =>
              LET new == [row EXCEPT !.aged = TRUE]
              IN  /\ new \in Operations
                  /\ new.state = row.state /\ new.payload = row.payload
                  /\ new.plan = row.plan /\ new.result = row.result
                  /\ new.differs = row.differs
BY StoreAssumption
   DEF Operations, OperationStates, Planned, Settled, Received, NoOperation

LEMMA PreparedTypes ==
  ASSUME NEW row \in Operations, NEW plan \in Results \cup {None}, row.state = "received"
  PROVE  LET new == [[row EXCEPT !.state = "prepared", !.plan = plan] EXCEPT !.aged = FALSE]
         IN  /\ new \in Operations
             /\ new.state = "prepared" /\ new.payload = row.payload
             /\ new.plan = plan
BY StoreAssumption DEF Operations, OperationStates, Planned, Settled

\* Each statement on the operations table keeps the journal in order.
LEMMA EnsureOperationKeeps ==
  ASSUME JournalInv, NEW id \in Ids, NEW p \in Payloads,
         EnsureOperation(id, p), UNCHANGED deliveries
  PROVE  /\ JournalInv' /\ RowsKept /\ \A i \in Ids : NoOutcome(i)
         /\ operations'[id].state = "reported" => UNCHANGED operations
<1>1. CASE HasOperation(id)
  BY <1>1, RowsUnchanged DEF EnsureOperation, JournalInv, OneKindPerIdentifier,
     Recorded, HasOperation
<1>2. CASE ~HasOperation(id)
  <2>1. /\ Received(p) \in Operations
        /\ Received(p).state = "received" /\ Received(p).payload = p
    BY OperationTypes DEF JournalInv
  <2> HIDE DEF Received
  <2>2. operations' = [operations EXCEPT ![id] = Received(p)] /\ ~Recorded(id)
    BY <1>2 DEF EnsureOperation, KeptFromOperations
  <2>3. JournalInv'
    BY <2>1, <2>2 DEF JournalInv, OneKindPerIdentifier, Recorded, HasOperation, Planned,
       Settled
  <2> QED
    BY <1>2, <2>1, <2>2, <2>3
       DEF JournalInv, RowsKept, RowKept, AgeKept, NoOutcome, HasOperation, Settled
<1> QED BY <1>1, <1>2

LEMMA PrepareOperationKeeps ==
  ASSUME JournalInv, NEW id \in Ids, NEW plan \in Results \cup {None},
         plan # None <=> operations[id].payload \in Updates,
         PrepareOperation(id, plan), UNCHANGED deliveries
  PROVE  /\ JournalInv' /\ RowsKept /\ \A i \in Ids : NoOutcome(i)
         /\ operations'[id].state = "prepared" /\ operations'[id].plan = plan
<1> DEFINE row == operations[id]
           new == [[row EXCEPT !.state = "prepared", !.plan = plan] EXCEPT !.aged = FALSE]
<1>1. row \in Operations /\ row.state = "received"
  BY DEF JournalInv, PrepareOperation, Move, OperationIn
<1>2. /\ new \in Operations /\ new.state = "prepared"
      /\ new.payload = row.payload /\ new.plan = plan
  BY <1>1, PreparedTypes
<1>3. operations' = [operations EXCEPT ![id] = new]
  BY DEF PrepareOperation, Move
<1> HIDE DEF new
<1> QED
  BY <1>1, <1>2, <1>3 DEF JournalInv, OneKindPerIdentifier, Recorded, HasOperation,
     Planned, Settled, Sendable, RowsKept, RowKept, AgeKept, NoOutcome

LEMMA MarkOperationDispatchedKeeps ==
  ASSUME JournalInv, NEW id \in Ids, MarkOperationDispatched(id), UNCHANGED deliveries
  PROVE  /\ JournalInv' /\ RowsKept /\ \A i \in Ids : NoOutcome(i)
         /\ operations'[id].state = "dispatched"
<1> DEFINE row == operations[id]
           new == [[row EXCEPT !.state = "dispatched"] EXCEPT !.aged = FALSE]
<1>1. row \in Operations /\ row.state = "prepared"
  BY DEF JournalInv, MarkOperationDispatched, Move, OperationIn
<1>2. /\ new \in Operations /\ new.state = "dispatched"
      /\ new.payload = row.payload /\ new.plan = row.plan
  BY <1>1, OperationTypes
<1>3. operations' = [operations EXCEPT ![id] = new]
  BY DEF MarkOperationDispatched, Move
<1> HIDE DEF new
<1> QED
  BY <1>1, <1>2, <1>3 DEF JournalInv, OneKindPerIdentifier, Recorded, HasOperation,
     Planned, Settled, Sendable, RowsKept, RowKept, AgeKept, NoOutcome

LEMMA CompleteOperationKeeps ==
  ASSUME JournalInv, NEW id \in Ids, NEW x \in Results, NEW differs \in BOOLEAN,
         CompleteOperation(id, x, differs), UNCHANGED deliveries
  PROVE  /\ JournalInv' /\ RowsKept
         /\ \A i \in Ids \ {id} : NoOutcome(i)
         /\ operations'[id].result = x /\ operations'[id].differs = differs
         /\ operations'[id].payload = operations[id].payload
<1> DEFINE row == operations[id]
           new == [[row EXCEPT !.state = "applied", !.result = x, !.differs = differs]
                     EXCEPT !.aged = FALSE]
<1>1. row \in Operations /\ row.state = "dispatched"
  BY DEF JournalInv, CompleteOperation, Move, OperationIn
<1>2. /\ new \in Operations /\ new.state = "applied" /\ new.result = x
      /\ new.differs = differs /\ new.payload = row.payload /\ new.plan = row.plan
  BY <1>1, StoreAssumption DEF Operations, OperationStates, Planned, Settled
<1>3. operations' = [operations EXCEPT ![id] = new]
  BY DEF CompleteOperation, Move
<1> HIDE DEF new
<1> QED
  BY <1>1, <1>2, <1>3 DEF JournalInv, OneKindPerIdentifier, Recorded, HasOperation,
     Planned, Settled, Sendable, RowsKept, RowKept, AgeKept, NoOutcome

LEMMA MarkOperationReportedKeeps ==
  ASSUME JournalInv, NEW id \in Ids, MarkOperationReported(id), UNCHANGED deliveries
  PROVE  JournalInv' /\ RowsKept /\ \A i \in Ids : NoOutcome(i)
<1>1. CASE UNCHANGED operations
  BY <1>1, RowsUnchanged DEF JournalInv, OneKindPerIdentifier, Recorded, HasOperation
<1>2. CASE Move(id, "applied", [operations[id] EXCEPT !.state = "reported"])
  <2> DEFINE row == operations[id]
             new == [[row EXCEPT !.state = "reported"] EXCEPT !.aged = FALSE]
  <2>1. row \in Operations /\ row.state = "applied"
    BY <1>2 DEF JournalInv, Move, OperationIn
  <2>2. /\ new \in Operations /\ new.state = "reported" /\ new.result = row.result
        /\ new.differs = row.differs /\ new.payload = row.payload /\ new.plan = row.plan /\ ~new.aged
    BY <2>1, OperationTypes
  <2>3. operations' = [operations EXCEPT ![id] = new]
    BY <1>2 DEF Move
  <2> HIDE DEF new
  <2> QED
    BY <2>1, <2>2, <2>3 DEF JournalInv, OneKindPerIdentifier, Recorded, HasOperation,
       Planned, Settled, Sendable, RowsKept, RowKept, AgeKept, NoOutcome
<1> QED BY <1>1, <1>2 DEF MarkOperationReported

-----------------------------------------------------------------------------
(* What a step does to the worker that takes it, and to the others         *)

OthersSame(w) == \A v \in Workers \ {w} : workers'[v] = workers[v]

LEMMA Reports ==
  ASSUME RuntimeInv(Processing), NEW w \in Workers, workers[w].pc \in Processing,
         NEW task \in Results \cup {None}, NEW retryable \in BOOLEAN,
         Report(w, task, retryable), UNCHANGED <<storeVars, counters>>
  PROVE  RuntimeInv(Processing)' /\ OthersSame(w) /\ workers'[w].pc \in Between
<1>1. workers[w].pc \notin {"idle", "polling"}
  BY DEF Processing
<1>2. RuntimeInv(Processing)'
  BY <1>1, ReportTypes
<1>3. workers \in [Workers -> WorkerStates(Processing)]
  BY DEF RuntimeInv, RuntimeTypeOK
<1> QED BY <1>2, <1>3 DEF Report, OthersSame, WorkerStates, Between

LEMMA Moves ==
  ASSUME RuntimeInv(Processing), NEW w \in Workers, workers[w].pc \in Processing,
         NEW pc \in Processing, NEW task \in Results \cup {None},
         Aim(w, pc, task), UNCHANGED <<storeVars, mail, counters>>
  PROVE  /\ RuntimeInv(Processing)' /\ OthersSame(w)
         /\ workers'[w].pc = pc /\ workers'[w].task = task
         /\ workers'[w].id = workers[w].id /\ workers'[w].payload = workers[w].payload
<1>1. workers[w].pc \notin {"idle", "polling"}
  BY DEF Processing
<1>2. RuntimeInv(Processing)'
  BY <1>1, StepTypes DEF Aim
<1>3. workers \in [Workers -> WorkerStates(Processing)]
  BY DEF RuntimeInv, RuntimeTypeOK
<1> QED BY <1>2, <1>3 DEF Aim, Become, OthersSame, WorkerStates

LEMMA StepIsAim ==
  ASSUME RuntimeInv(Processing), NEW w \in Workers, NEW pc, Step(w, pc)
  PROVE  Aim(w, pc, About(w)) /\ About(w) \in Results \cup {None}
<1>1. workers \in [Workers -> WorkerStates(Processing)]
  BY DEF RuntimeInv, RuntimeTypeOK
<1> QED BY <1>1 DEF Step, Aim, Become, About, WorkerStates

\* A worker with no write in hand has nothing to be wrong about.
LEMMA BetweenOK ==
  ASSUME NEW v \in Workers,
         workers'[v].pc \in Between \/ (workers'[v].pc = "ensure" /\ workers'[v].task = None)
  PROVE  WorkOK(v)'
BY DEF WorkOK, Between, Writing, Processing, At, About

LEMMA ThingsSame ==
  ASSUME UNCHANGED thingsVars
  PROVE  items' = items /\ flying' = flying /\ changed' = changed /\ met' = met
BY DEF thingsVars

\* What a worker has from its row stays so while the row is kept.
LEMMA OthersKeep ==
  ASSUME RuntimeInv(Processing), JournalInv, NEW v \in Workers, WorkOK(v),
         workers'[v] = workers[v],
         workers[v].pc \in Writing => RowKept(workers[v].id) /\ AgeKept(workers[v].id),
         changed \subseteq changed', met \subseteq met'
  PROVE  WorkOK(v)'
<1>1. CASE workers[v].pc \in Writing
  <2>1. HasOperation(workers[v].id)
    <3>1. workers[v].id \in Ids
      BY <1>1 DEF RuntimeInv, LeaseShape, Writing, Processing
    <3>2. operations[workers[v].id].payload \in Payloads
      BY <1>1, KindAssumption DEF WorkOK, Row
    <3> QED BY <3>1, <3>2, StoreAssumption DEF JournalInv, Operations, HasOperation
  <2> QED
    BY <1>1, <2>1 DEF RowKept, AgeKept, WorkOK, At, About, Is, Row, Planned, Sendable,
       Settled
<1>2. CASE workers[v].pc \notin Writing
  BY <1>2 DEF WorkOK, Writing, Processing, At, About, Is
<1> QED BY <1>1, <1>2

LEMMA AllWorkOK ==
  ASSUME RuntimeInv(Processing), JournalInv, \A v \in Workers : WorkOK(v), RowsKept,
         changed \subseteq changed', met \subseteq met',
         \A v \in Workers : workers'[v] = workers[v] \/ WorkOK(v)'
  PROVE  \A v \in Workers : WorkOK(v)'
<1> SUFFICES ASSUME NEW v \in Workers, workers'[v] = workers[v]
             PROVE  WorkOK(v)'
  OBVIOUS
<1>1. workers[v].pc \in Writing => workers[v].id \in Ids
  BY DEF RuntimeInv, LeaseShape, Writing, Processing
<1> QED BY <1>1, OthersKeep DEF RowsKept

-----------------------------------------------------------------------------
(* What a step does to the history of writes                               *)

LEMMA SentKept ==
  ASSUME SentInv, JournalInv, RowsKept, UNCHANGED sent
  PROVE  SentInv'
<1> SUFFICES ASSUME NEW id \in Ids, NEW x \in Results, sent[id][x] > 0
             PROVE  /\ operations'[id].state \in Sendable
                    /\ operations'[id].payload \in Updates => x = operations'[id].plan
  BY DEF SentInv
<1>1. operations[id].state \in Sendable /\ HasOperation(id)
  BY DEF SentInv, Sendable, Settled, HasOperation
<1> QED BY <1>1 DEF SentInv, RowsKept, RowKept, Sendable, Planned, Settled

\* A row that somebody is poised to write for is there, and so is one written for.
LEMMA PoisedRow ==
  ASSUME RuntimeInv(Processing), JournalInv, NEW w \in Workers, WorkOK(w),
         NEW id \in Ids, Poised(w, id)
  PROVE  HasOperation(id) /\ operations[id].state \in Sendable
BY DEF Poised, WorkOK, Writing, Processing, Row, Sendable, Settled, HasOperation

LEMMA UnsafeKept ==
  ASSUME RuntimeInv(Processing), JournalInv, SentInv, UnsafeInv, RowsKept, UNCHANGED sent,
         \A w \in Workers : WorkOK(w),
         JournalInv', \A id \in Ids : NoOutcome(id) \/ RealOutcome(id),
         \A w \in Workers, id \in Ids :
           Poised(w, id)' /\ operations'[id].payload \in Unsafe => Poised(w, id)
  PROVE  UnsafeInv'
<1> SUFFICES ASSUME NEW id \in Ids, operations'[id].payload \in Unsafe
             PROVE  /\ \A w, v \in Workers : Poised(w, id)' /\ Poised(v, id)' => w = v
                    /\ \A w \in Workers : Poised(w, id)' =>
                         ~operations'[id].differs /\ \A x \in Results : sent'[id][x] = 0
                    /\ \A x, y \in Results : sent'[id][x] > 0 /\ sent'[id][y] > 0 =>
                         x = y /\ sent'[id][x] = 1
  BY DEF UnsafeInv
<1>1. CASE HasOperation(id)
  <2>1. operations[id].payload \in Unsafe
    BY <1>1 DEF RowsKept, RowKept
  <2>2. ASSUME NEW w \in Workers, Poised(w, id)', operations'[id].differs
        PROVE  FALSE
    <3>1. operations'[id].state \in Settled
      BY <2>2 DEF JournalInv, Operations
    <3>2. NoOutcome(id) /\ Poised(w, id)
      BY <2>2 DEF RealOutcome
    <3> QED BY <2>1, <2>2, <3>1, <3>2 DEF NoOutcome, UnsafeInv
  <2> QED BY <2>1, <2>2 DEF UnsafeInv
<1>2. CASE ~HasOperation(id)
  <2>1. \A w \in Workers : ~Poised(w, id)
    BY <1>2, PoisedRow
  <2>2. \A x \in Results : ~(sent[id][x] > 0)
    BY <1>2 DEF SentInv, Sendable, Settled, HasOperation
  <2> QED BY <2>1, <2>2
<1> QED BY <1>1, <1>2

\* What most steps have to show.
LEMMA StepKeeps ==
  ASSUME MutationInv, RuntimeInv(Processing)', JournalInv', RowsKept,
         \A id \in Ids : NoOutcome(id) \/ RealOutcome(id),
         \A v \in Workers : workers'[v] = workers[v] \/ WorkOK(v)',
         UNCHANGED <<thingsVars, sent>>
  PROVE  /\ ItemsInv' /\ \A w \in Workers : WorkOK(w)'
         /\ SentInv'
         /\ UnsafeInv' => MutationInv'
<1>1. \A w \in Workers : WorkOK(w)'
  BY AllWorkOK DEF MutationInv, thingsVars
<1>2. SentInv'
  BY SentKept DEF MutationInv
<1>3. SavedOutcomeIsReal'
  <2> SUFFICES ASSUME NEW id \in Ids, operations'[id].state \in Settled
               PROVE  IF operations'[id].differs
                        THEN /\ operations'[id].payload \in Projects
                             /\ operations'[id].result \in met
                             /\ \A x \in Results : sent[id][x] = 0
                        ELSE operations'[id].result \in changed
    BY DEF SavedOutcomeIsReal, thingsVars
  <2>1. CASE NoOutcome(id)
    <3>1. operations[id].state \in Settled /\ HasOperation(id)
      BY <2>1 DEF NoOutcome, Settled, HasOperation
    <3> QED BY <2>1, <3>1
            DEF NoOutcome, RowsKept, RowKept, MutationInv, ItemsInv, SavedOutcomeIsReal
  <2>2. CASE RealOutcome(id)
    BY <2>2 DEF RealOutcome
  <2> QED BY <2>1, <2>2
<1>4. ItemsInv'
  BY <1>3 DEF MutationInv, ItemsInv, thingsVars
<1> QED BY <1>1, <1>2, <1>4 DEF MutationInv

\* ... when nobody gets ready to write what must not be repeated.
LEMMA PlainStepKeeps ==
  ASSUME MutationInv, RuntimeInv(Processing)', JournalInv', RowsKept,
         \A id \in Ids : NoOutcome(id) \/ RealOutcome(id),
         \A v \in Workers : workers'[v] = workers[v] \/ WorkOK(v)',
         \A v \in Workers, id \in Ids :
           Poised(v, id)' /\ operations'[id].payload \in Unsafe => Poised(v, id),
         UNCHANGED <<thingsVars, sent>>
  PROVE  MutationInv'
BY StepKeeps, UnsafeKept DEF MutationInv

\* ... when the tables stay as they are, too.
LEMMA QuietStepKeeps ==
  ASSUME MutationInv, RuntimeInv(Processing)', UNCHANGED writeVars,
         \A v \in Workers : workers'[v] = workers[v] \/ WorkOK(v)',
         \A v \in Workers, id \in Ids :
           Poised(v, id)' /\ operations'[id].payload \in Unsafe => Poised(v, id)
  PROVE  MutationInv'
<1>1. JournalInv'
  BY DEF MutationInv, JournalInv, writeVars, journalVars, OneKindPerIdentifier, Recorded,
     HasOperation
<1>2. RowsKept /\ \A id \in Ids : NoOutcome(id)
  BY RowsUnchanged DEF writeVars, journalVars
<1> QED BY <1>1, <1>2, PlainStepKeeps DEF writeVars

-----------------------------------------------------------------------------
(* The steps of a worker that is about a write                             *)

\* A report, whatever it says, leaves nothing to be wrong about.
LEMMA ReportKeeps ==
  ASSUME MutationInv, NEW w \in Workers, workers[w].pc \in Processing,
         NEW task \in Results \cup {None}, NEW retryable \in BOOLEAN,
         Report(w, task, retryable), UNCHANGED <<storeVars, counters, thingsVars, sent>>,
         JournalInv', RowsKept,
         \A id \in Ids : NoOutcome(id) \/ RealOutcome(id)
  PROVE  MutationInv'
<1>1. RuntimeInv(Processing)' /\ OthersSame(w) /\ workers'[w].pc \in Between
  BY Reports DEF MutationInv
<1>2. \A v \in Workers : workers'[v] = workers[v] \/ WorkOK(v)'
  BY <1>1, BetweenOK DEF OthersSame
<1>3. \A v \in Workers, id \in Ids : Poised(v, id)' => Poised(v, id)
  BY <1>1 DEF OthersSame, Poised, Between
<1> QED BY <1>1, <1>2, <1>3, PlainStepKeeps

\* A move to a place from which nothing that must not be repeated is sent.
LEMMA MoveKeeps ==
  ASSUME MutationInv, NEW w \in Workers, workers[w].pc \in Processing,
         NEW pc \in Processing, NEW task \in Results \cup {None}, Aim(w, pc, task),
         UNCHANGED <<storeVars, mail, counters, thingsVars, sent>>,
         JournalInv', RowsKept, \A id \in Ids : NoOutcome(id),
         WorkOK(w)',
         \/ pc \notin {"look", "send", "reuse"}
         \/ workers[w].pc \in {"look", "send", "reuse"}
         \/ operations'[workers[w].id].payload \notin Unsafe
  PROVE  MutationInv'
<1>1. /\ RuntimeInv(Processing)' /\ OthersSame(w)
      /\ workers'[w].pc = pc /\ workers'[w].id = workers[w].id
  BY Moves DEF MutationInv
<1>2. \A v \in Workers : workers'[v] = workers[v] \/ WorkOK(v)'
  BY <1>1 DEF OthersSame
<1>3. \A v \in Workers, id \in Ids :
        Poised(v, id)' /\ operations'[id].payload \in Unsafe => Poised(v, id)
  BY <1>1 DEF OthersSame, Poised
<1> QED BY <1>1, <1>2, <1>3, PlainStepKeeps

LEMMA JournalUnchanged ==
  ASSUME MutationInv, UNCHANGED journalVars
  PROVE  JournalInv' /\ RowsKept /\ \A id \in Ids : NoOutcome(id)
BY RowsUnchanged
   DEF MutationInv, JournalInv, journalVars, OneKindPerIdentifier, Recorded, HasOperation

\* The facts about the worker's row that its steps start from.
LEMMA AtWork ==
  ASSUME MutationInv, NEW w \in Workers, workers[w].pc \in Processing
  PROVE  /\ workers[w].id \in Ids /\ workers[w].payload \in Payloads
         /\ workers[w].task \in Results \cup {None}
         /\ operations[workers[w].id] \in Operations
         /\ WorkOK(w)
<1>1. workers[w].id \in Ids /\ workers[w].payload \in Payloads
  BY DEF MutationInv, RuntimeInv, LeaseShape, Processing
<1>2. workers[w] \in WorkerStates(Processing)
  BY DEF MutationInv, RuntimeInv, RuntimeTypeOK
<1> QED BY <1>1, <1>2 DEF MutationInv, JournalInv, WorkerStates

LEMMA EnsureWriteKeeps ==
  ASSUME MutationInv, NEW w \in Workers, EnsureWrite(w)
  PROVE  MutationInv'
<1> DEFINE id == workers[w].id
           p == workers[w].payload
<1>1. workers[w].pc \in Processing /\ workers[w].pc = "ensure"
  BY DEF EnsureWrite, At, Processing
<1>2. /\ id \in Ids /\ p \in Payloads /\ p \in Natives \cup Updates /\ About(w) = None
      /\ WorkOK(w) /\ JournalInv
  BY <1>1, AtWork DEF EnsureWrite, Is, Captures, MutationInv, WorkOK, At
<1>3. UNCHANGED <<storeVars, counters, deliveries, thingsVars, sent>>
  BY DEF EnsureWrite
<1>4. CASE KeptFromOperations(id) /\ ReportFailure(w, FALSE) /\ UNCHANGED operations
  <2>1. JournalInv' /\ RowsKept /\ \A i \in Ids : NoOutcome(i)
    BY <1>3, <1>4, JournalUnchanged DEF journalVars
  <2> QED BY <1>1, <1>3, <1>4, <2>1, ReportKeeps DEF ReportFailure
<1>5. CASE EnsureOperation(id, p)
  <2>1. /\ JournalInv' /\ RowsKept /\ \A i \in Ids : NoOutcome(i)
        /\ operations'[id].state = "reported" => UNCHANGED operations
    BY <1>2, <1>3, <1>5, EnsureOperationKeeps
  <2>2. operations'[id] \in Operations
    BY <1>2, <2>1 DEF JournalInv
  <2> DEFINE op == operations'[id]
  <2>3. CASE ReportFailure(w, FALSE)
    BY <1>1, <1>3, <2>1, <2>3, ReportKeeps DEF ReportFailure
  <2>4. CASE op.state \in Settled /\ ReportOutcome(w, op.result)
    <3>1. op.result \in Results \cup {None}
      BY <2>2 DEF Operations
    <3> QED BY <1>1, <1>3, <2>1, <2>4, <3>1, ReportKeeps DEF ReportOutcome
  <2>5. CASE /\ op.payload = p /\ op.state = "received"
             /\ Step(w, IF Is(w, Updates) THEN "prepare" ELSE "record")
             /\ UNCHANGED mail
    <3> DEFINE pc == IF Is(w, Updates) THEN "prepare" ELSE "record"
    <3>1. Aim(w, pc, None) /\ pc \in Processing /\ pc \notin {"look", "send", "reuse"}
      BY <1>2, <2>5, StepIsAim DEF MutationInv, Processing
    <3>2. /\ workers'[w].pc = pc /\ workers'[w].task = None
          /\ workers'[w].id = id /\ workers'[w].payload = p
      BY <1>1, <1>3, <2>5, <3>1, Moves DEF MutationInv
    <3>3. WorkOK(w)'
      BY <1>2, <2>5, <3>2, KindAssumption
         DEF WorkOK, At, About, Is, Row, Writing, Processing
    <3> QED BY <1>1, <1>3, <2>1, <2>5, <3>1, <3>3, MoveKeeps
  <2>6. CASE op.payload = p /\ op.state = "prepared" /\ Aim(w, "dispatch", op.plan) /\ UNCHANGED mail
    <3>1. op.plan \in Results \cup {None} /\ "dispatch" \in Processing
      BY <2>2 DEF Operations, Processing
    <3>2. /\ workers'[w].pc = "dispatch" /\ workers'[w].task = op.plan
          /\ workers'[w].id = id /\ workers'[w].payload = p
      BY <1>1, <1>3, <2>6, <3>1, Moves DEF MutationInv
    <3>3. WorkOK(w)'
      BY <1>2, <2>6, <3>2 DEF WorkOK, At, About, Is, Row, Writing, Processing, Planned
    <3> QED BY <1>1, <1>3, <2>1, <2>6, <3>1, <3>3, MoveKeeps
  <2>7. CASE /\ op.payload = p /\ op.state = "dispatched" /\ Is(w, Updates)
             /\ Aim(w, "check", op.plan) /\ UNCHANGED mail
    <3>1. op.plan \in Results \cup {None} /\ "check" \in Processing
      BY <2>2 DEF Operations, Processing
    <3>2. /\ workers'[w].pc = "check" /\ workers'[w].task = op.plan
          /\ workers'[w].id = id /\ workers'[w].payload = p
      BY <1>1, <1>3, <2>7, <3>1, Moves DEF MutationInv
    <3>3. WorkOK(w)'
      BY <1>2, <2>7, <3>2
         DEF WorkOK, At, About, Is, Row, Writing, Processing, Sendable
    <3> QED BY <1>1, <1>3, <2>1, <2>7, <3>1, <3>3, MoveKeeps
  <2> QED BY <1>5, <2>3, <2>4, <2>5, <2>6, <2>7 DEF EnsureWrite
<1> QED BY <1>4, <1>5 DEF EnsureWrite

LEMMA PrepareKeeps ==
  ASSUME MutationInv, NEW w \in Workers, Prepare(w)
  PROVE  MutationInv'
<1>1. workers[w].pc \in Processing /\ workers[w].pc = "prepare"
  BY DEF Prepare, At, Processing
<1>2. /\ UNCHANGED <<storeVars, counters, thingsVars, sent>> /\ UNCHANGED operations
      /\ JournalInv' /\ RowsKept /\ \A i \in Ids : NoOutcome(i)
  BY JournalUnchanged DEF Prepare, writeVars, journalVars
<1>3. CASE ReportFailure(w, FALSE)
  BY <1>1, <1>2, <1>3, ReportKeeps DEF ReportFailure
<1>4. CASE \E x \in Results : Aim(w, "record", x) /\ UNCHANGED mail
  <2>1. PICK x \in Results : Aim(w, "record", x) /\ UNCHANGED mail
    BY <1>4
  <2>2. "record" \in Processing
    BY DEF Processing
  <2>3. /\ workers'[w].pc = "record" /\ workers'[w].task = x
        /\ workers'[w].id = workers[w].id /\ workers'[w].payload = workers[w].payload
    BY <1>1, <1>2, <2>1, <2>2, Moves DEF MutationInv
  <2>4. WorkOK(w)'
    BY <1>1, <1>2, <2>3, AtWork DEF WorkOK, At, About, Is, Row, Writing, Processing
  <2> QED BY <1>1, <1>2, <2>1, <2>2, <2>4, MoveKeeps
<1> QED BY <1>3, <1>4 DEF Prepare

LEMMA RecordKeeps ==
  ASSUME MutationInv, NEW w \in Workers, Record(w)
  PROVE  MutationInv'
<1> DEFINE id == workers[w].id
<1>1. workers[w].pc \in Processing /\ workers[w].pc = "record"
  BY DEF Record, At, Processing
<1>2. UNCHANGED <<storeVars, counters, deliveries, thingsVars, sent>>
  BY DEF Record
<1>3. CASE ReportFailure(w, TRUE) /\ UNCHANGED operations
  <2>1. JournalInv' /\ RowsKept /\ \A i \in Ids : NoOutcome(i)
    BY <1>2, <1>3, JournalUnchanged DEF journalVars
  <2> QED BY <1>1, <1>2, <1>3, <2>1, ReportKeeps DEF ReportFailure
<1>4. CASE PrepareOperation(id, About(w)) /\ Step(w, "dispatch") /\ UNCHANGED mail
  <2>1. /\ id \in Ids /\ WorkOK(w) /\ JournalInv
        /\ About(w) \in Results \cup {None}
    BY <1>1, AtWork DEF MutationInv, About
  <2>2. About(w) # None <=> operations[id].payload \in Updates
    BY <1>1, <2>1, StoreAssumption
       DEF WorkOK, At, Is, Row, Writing, Processing
  <2>3. /\ JournalInv' /\ RowsKept /\ \A i \in Ids : NoOutcome(i)
        /\ operations'[id].state = "prepared" /\ operations'[id].plan = About(w)
    BY <1>2, <1>4, <2>1, <2>2, PrepareOperationKeeps
  <2>4. Aim(w, "dispatch", About(w)) /\ "dispatch" \in Processing
    BY <1>4, StepIsAim DEF MutationInv, Processing
  <2>5. /\ workers'[w].pc = "dispatch" /\ workers'[w].task = workers[w].task
        /\ workers'[w].id = id /\ workers'[w].payload = workers[w].payload
    BY <1>1, <1>2, <1>4, <2>1, <2>4, Moves DEF MutationInv, About
  <2>6. operations'[id].payload = operations[id].payload
    BY <1>1, <2>1, <2>3, StoreAssumption, KindAssumption
       DEF RowsKept, RowKept, HasOperation, WorkOK, Writing, Processing, Row, JournalInv,
           Operations
  <2>7. WorkOK(w)'
    BY <1>1, <2>1, <2>3, <2>5, <2>6
       DEF WorkOK, At, About, Is, Row, Writing, Processing, Planned
  <2> QED BY <1>1, <1>2, <1>4, <2>1, <2>3, <2>4, <2>7, MoveKeeps
<1> QED BY <1>3, <1>4 DEF Record

LEMMA DispatchKeeps ==
  ASSUME MutationInv, NEW w \in Workers, Dispatch(w)
  PROVE  MutationInv'
<1> DEFINE id == workers[w].id
<1>1. workers[w].pc \in Processing /\ workers[w].pc = "dispatch"
  BY DEF Dispatch, At, Processing
<1>2. UNCHANGED <<storeVars, counters, deliveries, thingsVars, sent>>
  BY DEF Dispatch
<1>3. CASE ReportFailure(w, TRUE) /\ UNCHANGED operations
  <2>1. JournalInv' /\ RowsKept /\ \A i \in Ids : NoOutcome(i)
    BY <1>2, <1>3, JournalUnchanged DEF journalVars
  <2> QED BY <1>1, <1>2, <1>3, <2>1, ReportKeeps DEF ReportFailure
<1>4. CASE MarkOperationDispatched(id) /\ Step(w, "look") /\ UNCHANGED mail
  <2>1. id \in Ids /\ WorkOK(w) /\ JournalInv /\ RuntimeInv(Processing)
    BY <1>1, AtWork DEF MutationInv
  <2>2. /\ JournalInv' /\ RowsKept /\ \A i \in Ids : NoOutcome(i)
        /\ operations'[id].state = "dispatched"
    BY <1>2, <1>4, <2>1, MarkOperationDispatchedKeeps
  <2>3. Aim(w, "look", About(w)) /\ "look" \in Processing /\ About(w) \in Results \cup {None}
    BY <1>4, <2>1, StepIsAim DEF Processing
  <2>4. /\ RuntimeInv(Processing)' /\ OthersSame(w)
        /\ workers'[w].pc = "look" /\ workers'[w].task = workers[w].task
        /\ workers'[w].id = id /\ workers'[w].payload = workers[w].payload
    BY <1>1, <1>2, <1>4, <2>1, <2>3, Moves DEF About
  <2>5. operations[id].state = "prepared" /\ HasOperation(id)
    BY <1>4 DEF MarkOperationDispatched, Move, OperationIn, HasOperation
  <2>6. /\ operations'[id].payload = operations[id].payload
        /\ operations'[id].plan = operations[id].plan
    BY <2>1, <2>2, <2>5 DEF RowsKept, RowKept, Planned
  <2>7. WorkOK(w)'
    BY <1>1, <2>1, <2>2, <2>4, <2>6
       DEF WorkOK, At, About, Is, Row, Writing, Processing, Sendable
  <2>8. \A v \in Workers : workers'[v] = workers[v] \/ WorkOK(v)'
    BY <2>4, <2>7 DEF OthersSame
  \* Who finds the row prepared is the first: nothing was sent, and nobody else is about to.
  <2>9. UnsafeInv'
    <3> SUFFICES ASSUME NEW i \in Ids, operations'[i].payload \in Unsafe
                 PROVE  /\ \A u, v \in Workers : Poised(u, i)' /\ Poised(v, i)' => u = v
                        /\ \A v \in Workers : Poised(v, i)' =>
                             ~operations'[i].differs /\ \A x \in Results : sent'[i][x] = 0
                        /\ \A x, y \in Results : sent'[i][x] > 0 /\ sent'[i][y] > 0 =>
                             x = y /\ sent'[i][x] = 1
      BY DEF UnsafeInv
    <3>1. CASE i = id
      <4>1. \A v \in Workers : ~Poised(v, i)
        BY <2>1, <2>5, <3>1, PoisedRow DEF MutationInv, Sendable, Settled
      <4>2. \A v \in Workers : Poised(v, i)' => v = w
        BY <2>4, <4>1 DEF OthersSame, Poised
      <4>3. \A x \in Results : sent[i][x] = 0
        BY <2>5, <3>1 DEF MutationInv, SentInv, Sendable, Settled, Counts
      <4>4. ~operations'[i].differs
        BY <2>2, <3>1 DEF JournalInv, Operations, Settled
      <4> QED BY <1>2, <4>2, <4>3, <4>4
    <3>2. CASE i # id
      <4>1. \A v \in Workers : Poised(v, i)' => Poised(v, i)
        BY <2>4, <3>2 DEF OthersSame, Poised
      <4>2. operations[i].payload \in Unsafe /\ operations'[i] = operations[i]
        BY <1>4, <3>2 DEF MarkOperationDispatched, Move, MutationInv, JournalInv
      <4> QED BY <1>2, <4>1, <4>2 DEF MutationInv, UnsafeInv
    <3> QED BY <3>1, <3>2
  <2> QED BY <1>2, <2>2, <2>4, <2>8, <2>9, StepKeeps
<1> QED BY <1>3, <1>4 DEF Dispatch

LEMMA CheckKeeps ==
  ASSUME MutationInv, NEW w \in Workers, Check(w)
  PROVE  MutationInv'
<1> DEFINE id == workers[w].id
           x == About(w)
<1>1. workers[w].pc \in Processing /\ workers[w].pc = "check"
  BY DEF Check, At, Processing
<1>2. /\ UNCHANGED <<storeVars, counters, thingsVars, sent>> /\ UNCHANGED operations
      /\ JournalInv' /\ RowsKept /\ \A i \in Ids : NoOutcome(i)
  BY JournalUnchanged DEF Check, writeVars, journalVars
<1>3. /\ id \in Ids /\ WorkOK(w) /\ RuntimeInv(Processing) /\ JournalInv /\ ItemsInv
      /\ workers[w].payload \in Updates
  BY <1>1, AtWork DEF MutationInv, WorkOK, Is
<1>4. x \in Results
  BY <1>1, <1>3, StoreAssumption
     DEF WorkOK, At, About, Is, Row, Writing, Processing, JournalInv, Operations, Sendable,
         Planned, Settled
<1>5. CASE \E retryable \in BOOLEAN : ReportFailure(w, retryable)
  BY <1>1, <1>2, <1>5, ReportKeeps DEF ReportFailure
<1>6. CASE items[x] = "after" /\ Step(w, "finish") /\ UNCHANGED mail
  <2>1. Aim(w, "finish", x) /\ "finish" \in Processing
    BY <1>3, <1>6, StepIsAim DEF Processing
  <2>2. /\ workers'[w].pc = "finish" /\ workers'[w].task = x
        /\ workers'[w].id = id /\ workers'[w].payload = workers[w].payload
    BY <1>1, <1>2, <1>3, <1>4, <1>6, <2>1, Moves
  <2>3. x \in changed'
    BY <1>2, <1>3, <1>4, <1>6, ThingsSame DEF ItemsInv
  <2>4. WorkOK(w)'
    BY <1>1, <1>2, <1>3, <1>4, <2>2, <2>3 DEF WorkOK, At, About, Is, Row, Writing, Processing
  <2> QED BY <1>1, <1>2, <1>4, <1>6, <2>1, <2>4, MoveKeeps
<1>7. CASE ~Is(w, Appends) /\ Step(w, "look") /\ UNCHANGED mail
  <2>1. Aim(w, "look", x) /\ "look" \in Processing
    BY <1>3, <1>7, StepIsAim DEF Processing
  <2>2. /\ workers'[w].pc = "look" /\ workers'[w].task = x
        /\ workers'[w].id = id /\ workers'[w].payload = workers[w].payload
    BY <1>1, <1>2, <1>3, <1>4, <1>7, <2>1, Moves
  <2>3. WorkOK(w)'
    BY <1>1, <1>2, <1>3, <2>2 DEF WorkOK, At, About, Is, Row, Writing, Processing
  <2>4. operations'[id].payload \notin Unsafe
    BY <1>1, <1>2, <1>3, <1>7, KindAssumption
       DEF WorkOK, Row, Is, Writing, Processing, Unsafe
  <2> QED BY <1>1, <1>2, <1>4, <1>7, <2>1, <2>3, <2>4, MoveKeeps
<1> QED BY <1>5, <1>6, <1>7 DEF Check

LEMMA LookKeeps ==
  ASSUME MutationInv, NEW w \in Workers, Look(w)
  PROVE  MutationInv'
<1> DEFINE id == workers[w].id
<1>1. workers[w].pc \in Processing /\ workers[w].pc = "look"
  BY DEF Look, At, Processing
<1>2. /\ UNCHANGED <<storeVars, counters, thingsVars, sent>> /\ UNCHANGED operations
      /\ JournalInv' /\ RowsKept /\ \A i \in Ids : NoOutcome(i)
  BY JournalUnchanged DEF Look, writeVars, journalVars
<1>3. id \in Ids /\ WorkOK(w) /\ RuntimeInv(Processing) /\ ItemsInv
  BY <1>1, AtWork DEF MutationInv
<1>4. CASE ReportFailure(w, FALSE)
  BY <1>1, <1>2, <1>4, ReportKeeps DEF ReportFailure
<1>5. CASE \E x \in Results, pc \in {"finish", "send", "reuse"} :
             /\ Is(w, Updates) => x = About(w)
             /\ UNCHANGED mail
             /\ Aim(w, pc, x)
             /\ pc = "finish" => items[x] = "after"
             /\ pc = "reuse" => items[x] = "alike" /\ Is(w, Projects)
  <2>1. PICK x \in Results, pc \in {"finish", "send", "reuse"} :
          /\ Is(w, Updates) => x = About(w)
          /\ UNCHANGED mail
          /\ Aim(w, pc, x)
          /\ pc = "finish" => items[x] = "after"
          /\ pc = "reuse" => items[x] = "alike" /\ Is(w, Projects)
    BY <1>5
  <2>2. pc \in Processing
    BY DEF Processing
  <2>3. /\ workers'[w].pc = pc /\ workers'[w].task = x
        /\ workers'[w].id = id /\ workers'[w].payload = workers[w].payload
    BY <1>1, <1>2, <1>3, <2>1, <2>2, Moves
  <2>4. /\ pc = "finish" => x \in changed'
        /\ pc = "reuse" => x \in met' /\ Is(w, Projects)
    BY <1>2, <1>3, <2>1, ThingsSame DEF ItemsInv
  <2>5. WorkOK(w)'
    <3>1. CASE pc = "reuse"
      BY <1>1, <1>2, <1>3, <2>1, <2>3, <2>4, <3>1
         DEF WorkOK, At, About, Is, Row, Writing, Processing
    <3>2. CASE pc # "reuse"
      BY <1>1, <1>2, <1>3, <2>1, <2>3, <2>4, <3>2
         DEF WorkOK, At, About, Is, Row, Writing, Processing
    <3> QED BY <3>1, <3>2
  <2> QED BY <1>1, <1>2, <2>1, <2>2, <2>5, MoveKeeps
<1> QED BY <1>4, <1>5 DEF Look

LEMMA SendKeeps ==
  ASSUME MutationInv, NEW w \in Workers, Send(w)
  PROVE  MutationInv'
<1> DEFINE id == workers[w].id
           x == About(w)
<1>1. workers[w].pc \in Processing /\ workers[w].pc = "send"
  BY DEF Send, At, Processing
<1>2. /\ UNCHANGED <<storeVars, counters, mail, journalVars, items, changed, met>>
      /\ JournalInv' /\ RowsKept /\ \A i \in Ids : NoOutcome(i) /\ UNCHANGED operations
  BY JournalUnchanged DEF Send, journalVars
<1>3. /\ id \in Ids /\ WorkOK(w) /\ RuntimeInv(Processing) /\ ItemsInv /\ JournalInv
      /\ x \in Results /\ operations[id].state \in Sendable
  BY <1>1, AtWork DEF MutationInv, WorkOK, Row, At
<1>4. Aim(w, "poll", x) /\ "poll" \in Processing
  BY <1>3, StepIsAim DEF Send, Processing
<1>5. /\ RuntimeInv(Processing)' /\ OthersSame(w)
      /\ workers'[w].pc = "poll" /\ workers'[w].task = x
      /\ workers'[w].id = id /\ workers'[w].payload = workers[w].payload
  BY <1>1, <1>2, <1>3, <1>4, Moves
<1>6. WorkOK(w)'
  BY <1>1, <1>2, <1>3, <1>5 DEF WorkOK, At, About, Is, Row, Writing, Processing
<1>7. \A v \in Workers : WorkOK(v)'
  BY <1>2, <1>3, <1>5, <1>6, AllWorkOK DEF MutationInv, OthersSame
<1>8. /\ sent' \in [Ids -> [Results -> Counts]] /\ flying' \in [Results -> Counts]
      /\ \A i \in Ids, y \in Results :
           IF i = id /\ y = x THEN sent'[i][y] = OneMore(sent[i][y])
                              ELSE sent'[i][y] = sent[i][y]
  BY <1>3 DEF Send, MutationInv, SentInv, ItemsInv, Counts, OneMore
\* Nobody is about to write for a row that says that its item was left as it is.
<1>9. ItemsInv'
  <2>1. operations[id].state \in Settled => ~operations[id].differs
    BY <1>1, <1>3, KindAssumption
       DEF MutationInv, UnsafeInv, Poised, ItemsInv, SavedOutcomeIsReal, Unsafe
  <2> QED BY <1>2, <1>3, <1>8, <2>1 DEF ItemsInv, SavedOutcomeIsReal
<1>10. SentInv'
  <2>1. operations[id].payload \in Updates => x = operations[id].plan
    BY <1>1, <1>3 DEF WorkOK, Row, At, Is, Writing, Processing
  <2> QED BY <1>2, <1>3, <1>8, <2>1 DEF MutationInv, SentInv
<1>11. UnsafeInv'
  <2> SUFFICES ASSUME NEW i \in Ids, operations[i].payload \in Unsafe
               PROVE  /\ \A u, v \in Workers : Poised(u, i)' /\ Poised(v, i)' => u = v
                      /\ \A v \in Workers : Poised(v, i)' =>
                           ~operations'[i].differs /\ \A y \in Results : sent'[i][y] = 0
                      /\ \A y, z \in Results : sent'[i][y] > 0 /\ sent'[i][z] > 0 =>
                           y = z /\ sent'[i][y] = 1
    BY <1>2 DEF UnsafeInv
  <2>1. ~Poised(w, i)' /\ \A v \in Workers : Poised(v, i)' => Poised(v, i)
    BY <1>5 DEF OthersSame, Poised
  <2>2. CASE i = id
    <3>1. Poised(w, i)
      BY <1>1, <2>2 DEF Poised
    <3>2. \A v \in Workers : ~Poised(v, i)'
      BY <2>1, <3>1 DEF MutationInv, UnsafeInv
    <3>3. \A y \in Results : sent[i][y] = 0
      BY <3>1 DEF MutationInv, UnsafeInv
    <3>4. \A y \in Results : sent'[i][y] = IF y = x THEN 1 ELSE 0
      BY <1>3, <1>8, <2>2, <3>3 DEF OneMore
    <3> QED BY <3>2, <3>4
  <2>3. CASE i # id
    BY <1>2, <1>8, <2>1, <2>3 DEF MutationInv, UnsafeInv
  <2> QED BY <2>2, <2>3
<1> QED BY <1>2, <1>5, <1>7, <1>9, <1>10, <1>11 DEF MutationInv

LEMMA PollKeeps ==
  ASSUME MutationInv, NEW w \in Workers, PollWrite(w)
  PROVE  MutationInv'
<1> DEFINE id == workers[w].id
           x == About(w)
<1>1. workers[w].pc \in Processing /\ workers[w].pc = "poll"
  BY DEF PollWrite, At, Processing
<1>2. /\ UNCHANGED <<storeVars, counters, thingsVars, sent>> /\ UNCHANGED operations
      /\ JournalInv' /\ RowsKept /\ \A i \in Ids : NoOutcome(i)
  BY JournalUnchanged DEF PollWrite, writeVars, journalVars
<1>3. CASE ReportFailure(w, FALSE)
  BY <1>1, <1>2, <1>3, ReportKeeps DEF ReportFailure
<1>4. CASE items[x] = "after" /\ Step(w, "finish") /\ UNCHANGED mail
  <2>1. id \in Ids /\ WorkOK(w) /\ RuntimeInv(Processing) /\ ItemsInv /\ x \in Results
    BY <1>1, AtWork DEF MutationInv, WorkOK
  <2>2. Aim(w, "finish", x) /\ "finish" \in Processing
    BY <1>4, <2>1, StepIsAim DEF Processing
  <2>3. /\ workers'[w].pc = "finish" /\ workers'[w].task = x
        /\ workers'[w].id = id /\ workers'[w].payload = workers[w].payload
    BY <1>1, <1>2, <1>4, <2>1, <2>2, Moves
  <2>4. x \in changed'
    BY <1>2, <1>4, <2>1, ThingsSame DEF ItemsInv
  <2>5. WorkOK(w)'
    BY <1>1, <1>2, <2>1, <2>3, <2>4 DEF WorkOK, At, About, Is, Row, Writing, Processing
  <2> QED BY <1>1, <1>2, <1>4, <2>1, <2>2, <2>5, MoveKeeps
<1> QED BY <1>3, <1>4 DEF PollWrite

LEMMA FinishKeeps ==
  ASSUME MutationInv, NEW w \in Workers, Finish(w)
  PROVE  MutationInv'
<1> DEFINE x == About(w)
           differs == At(w, "reuse")
<1>1. workers[w].pc \in Processing /\ workers[w].pc \in {"finish", "reuse"}
  BY DEF Finish, Processing
<1>2. UNCHANGED <<storeVars, counters, deliveries, thingsVars, sent>>
  BY DEF Finish
<1>0. PICK id \in Ids : id = workers[w].id
  BY <1>1, AtWork
<1>3. CASE ReportFailure(w, TRUE) /\ UNCHANGED operations
  <2>1. JournalInv' /\ RowsKept /\ \A i \in Ids : NoOutcome(i)
    BY <1>2, <1>3, JournalUnchanged DEF journalVars
  <2> QED BY <1>1, <1>2, <1>3, <2>1, ReportKeeps DEF ReportFailure
<1>4. CASE CompleteOperation(id, x, differs) /\ ReportOutcome(w, x)
  <2>1. /\ JournalInv /\ RuntimeInv(Processing)
        /\ x \in Results /\ differs \in BOOLEAN /\ WorkOK(w)
    BY <1>1, AtWork DEF MutationInv, WorkOK, At
  <2>2. /\ JournalInv' /\ RowsKept /\ \A i \in Ids \ {id} : NoOutcome(i)
        /\ operations'[id].result = x /\ operations'[id].differs = differs
        /\ operations'[id].payload = operations[id].payload
    BY <1>2, <1>4, <2>1, CompleteOperationKeeps
  <2>3. CASE workers[w].pc = "finish"
    <3>1. x \in changed /\ ~differs
      BY <2>1, <2>3 DEF WorkOK, At
    <3>2. RealOutcome(id)
      BY <2>2, <3>1 DEF RealOutcome
    <3> QED BY <1>1, <1>2, <1>4, <2>1, <2>2, <3>2, ReportKeeps DEF ReportOutcome
  \* Who reuses a project was the only one poised to create it.
  <2>4. CASE workers[w].pc = "reuse"
    <3>1. x \in met /\ operations[id].payload \in Projects /\ differs
      BY <1>0, <2>1, <2>4 DEF WorkOK, At, Is, Row, Writing, Processing
    <3>2. /\ \A y \in Results : sent[id][y] = 0
          /\ \A v \in Workers : Poised(v, id) => v = w
      BY <1>0, <2>1, <2>4, <3>1, KindAssumption DEF MutationInv, UnsafeInv, Poised, Unsafe
    <3>3. OthersSame(w) /\ workers'[w].pc \in Between
      BY <1>1, <1>2, <1>4, <2>1, Reports DEF ReportOutcome
    <3>4. \A v \in Workers : ~Poised(v, id)'
      BY <3>2, <3>3 DEF OthersSame, Poised, Between
    <3>5. /\ operations'[id].differs /\ operations'[id].payload \in Projects
          /\ operations'[id].result \in met
      BY <2>2, <3>1
    <3>6. RealOutcome(id)
      BY <3>2, <3>4, <3>5 DEF RealOutcome
    <3> QED BY <1>1, <1>2, <1>4, <2>1, <2>2, <3>6, ReportKeeps DEF ReportOutcome
  <2> QED BY <1>1, <2>3, <2>4
<1> QED BY <1>0, <1>3, <1>4 DEF Finish

LEMMA StumbleKeeps ==
  ASSUME MutationInv, NEW w \in Workers, Stumble(w)
  PROVE  MutationInv'
<1>1. /\ UNCHANGED <<storeVars, counters, thingsVars, sent>>
      /\ JournalInv' /\ RowsKept /\ \A i \in Ids : NoOutcome(i)
  BY JournalUnchanged DEF Stumble, writeVars, journalVars
<1> QED BY <1>1, ReportKeeps DEF Stumble, ReportFailure

-----------------------------------------------------------------------------
(* The steps of a worker that is about a capture, and the acknowledgement  *)

\* A statement on the deliveries leaves the operations alone.
LEMMA DeliveriesChange ==
  ASSUME MutationInv, UNCHANGED operations, deliveries' \in [Ids -> Entries],
         \A i \in Ids : Recorded(i)' => Recorded(i) \/ ~HasOperation(i)
  PROVE  JournalInv' /\ RowsKept /\ \A i \in Ids : NoOutcome(i)
BY RowsUnchanged DEF MutationInv, JournalInv, OneKindPerIdentifier, HasOperation, Recorded

LEMMA EnsureCaptureKeeps ==
  ASSUME MutationInv, NEW w \in Workers, EnsureCapture(w)
  PROVE  MutationInv'
<1> DEFINE id == workers[w].id
           p == workers[w].payload
<1>1. workers[w].pc \in Processing /\ workers[w].pc = "ensure"
  BY DEF EnsureCapture, At, Processing
<1>2. UNCHANGED <<storeVars, counters, operations, thingsVars, sent>>
  BY DEF EnsureCapture
<1>3. id \in Ids /\ p \in Payloads /\ WorkOK(w) /\ RuntimeInv(Processing) /\ JournalInv
  BY <1>1, AtWork DEF MutationInv
<1>4. CASE KeptFromDeliveries(id) /\ ReportFailure(w, FALSE) /\ UNCHANGED deliveries
  <2>1. JournalInv' /\ RowsKept /\ \A i \in Ids : NoOutcome(i)
    BY <1>2, <1>4, JournalUnchanged DEF journalVars
  <2> QED BY <1>1, <1>2, <1>4, <2>1, ReportKeeps DEF ReportFailure
<1>5. CASE ~KeptFromDeliveries(id) /\ EnsureDelivery(id, p)
  <2>1. deliveries' \in [Ids -> Entries]
    BY <1>3, <1>5
       DEF EnsureDelivery, JournalInv, Entries, Entry, DeliveryStates
  <2>2. \A i \in Ids : Recorded(i)' => Recorded(i) \/ ~HasOperation(i)
    BY <1>3, <1>5 DEF EnsureDelivery, KeptFromDeliveries, Recorded, JournalInv
  <2>3. JournalInv' /\ RowsKept /\ \A i \in Ids : NoOutcome(i)
    BY <1>2, <2>1, <2>2, DeliveriesChange
  <2>4. CASE ReportFailure(w, FALSE)
    BY <1>1, <1>2, <2>3, <2>4, ReportKeeps DEF ReportFailure
  <2>5. CASE ReportOutcome(w, deliveries'[id].task)
    <3>1. deliveries'[id].task \in Results \cup {None}
      BY <1>3, <2>1 DEF Entries
    <3> QED BY <1>1, <1>2, <2>3, <2>5, <3>1, ReportKeeps DEF ReportOutcome
  <2>6. CASE Step(w, "capture") /\ UNCHANGED mail
    <3>1. Aim(w, "capture", About(w)) /\ About(w) \in Results \cup {None}
          /\ "capture" \in Processing
      BY <1>3, <2>6, StepIsAim DEF Processing
    <3>2. workers'[w].pc = "capture" /\ workers'[w].payload = p /\ p \in Captures
      BY <1>1, <1>2, <1>3, <2>6, <3>1, Moves DEF EnsureCapture, Is
    <3>3. WorkOK(w)'
      BY <3>2 DEF WorkOK, At, Is, Writing, Processing
    <3> QED BY <1>1, <1>2, <2>3, <2>6, <3>1, <3>3, MoveKeeps
  <2> QED BY <1>1, <1>3, <1>5, <2>4, <2>5, <2>6 DEF EnsureCapture, HasOperation, KeptFromDeliveries
<1> QED BY <1>4, <1>5 DEF EnsureCapture

LEMMA CaptureEndsKeeps ==
  ASSUME MutationInv, NEW w \in Workers, CaptureEnds(w)
  PROVE  MutationInv'
<1> DEFINE id == workers[w].id
<1>1. workers[w].pc \in Processing
  BY DEF CaptureEnds, At, Processing
<1>2. UNCHANGED <<storeVars, counters, operations, thingsVars, sent>>
  BY DEF CaptureEnds
<1>3. CASE \E retryable \in BOOLEAN : ReportFailure(w, retryable) /\ UNCHANGED deliveries
  <2>1. JournalInv' /\ RowsKept /\ \A i \in Ids : NoOutcome(i)
    BY <1>2, <1>3, JournalUnchanged DEF journalVars
  <2> QED BY <1>1, <1>2, <1>3, <2>1, ReportKeeps DEF ReportFailure
<1>4. CASE \E x \in Results :
             /\ In(id, {"received", "creating", "created"})
             /\ deliveries' = [deliveries EXCEPT ![id] = Entry("finalised", @.payload, x)]
             /\ ReportOutcome(w, x)
  <2>1. PICK x \in Results :
          /\ In(id, {"received", "creating", "created"})
          /\ deliveries' = [deliveries EXCEPT ![id] = Entry("finalised", @.payload, x)]
          /\ ReportOutcome(w, x)
    BY <1>4
  <2>2. id \in Ids /\ JournalInv
    BY <1>1, AtWork DEF MutationInv
  <2>3. deliveries' \in [Ids -> Entries]
    BY <2>1, <2>2 DEF JournalInv, Entries, Entry, DeliveryStates
  <2>4. \A i \in Ids : Recorded(i)' => Recorded(i)
    BY <2>1, <2>2 DEF JournalInv, Recorded, In
  <2>5. JournalInv' /\ RowsKept /\ \A i \in Ids : NoOutcome(i)
    BY <1>2, <2>3, <2>4, DeliveriesChange
  <2> QED BY <1>1, <1>2, <2>1, <2>5, ReportKeeps DEF ReportOutcome
<1> QED BY <1>3, <1>4 DEF CaptureEnds

LEMMA AcknowledgedKeeps ==
  ASSUME MutationInv, NEW w \in Workers, Acknowledged(w)
  PROVE  MutationInv'
<1> DEFINE id == workers[w].id
<1>1. /\ RuntimeInv(Processing) /\ RuntimeTypeOK(Processing) /\ LeaseShape /\ JournalInv
      /\ UNCHANGED <<storeVars, counters, mail, thingsVars, sent>> /\ Become(w, IdleWorker)
      /\ id \in Ids
  BY DEF Acknowledged, MutationInv, RuntimeInv, LeaseShape, At
<1>2. workers' \in [Workers -> WorkerStates(Processing)] /\ LeaseShape' /\ Framed
  BY <1>1, IdleTypes, IdleFramed
<1>3. StoreTypeOK' /\ RowShape'
  BY <1>1, StoreTypes, RowShapeKept DEF RuntimeInv, RuntimeTypeOK
<1>4. RuntimeInv(Processing)'
  BY <1>1, <1>2, <1>3 DEF RuntimeInv, RuntimeTypeOK, counters
<1>5. \A v \in Workers : workers'[v] = workers[v] \/ WorkOK(v)'
  BY <1>2, BetweenOK DEF Framed
<1>6. \A v \in Workers, i \in Ids : Poised(v, i)' => Poised(v, i)
  BY <1>2 DEF Framed, Poised, Between
<1>7. JournalInv' /\ RowsKept /\ \A i \in Ids : NoOutcome(i)
  <2>1. CASE MarkOperationReported(id) /\ UNCHANGED deliveries
    BY <1>1, <2>1, MarkOperationReportedKeeps
  <2>2. CASE MarkReported(id) /\ UNCHANGED operations
    <3>1. deliveries' \in [Ids -> Entries]
      BY <1>1, <2>2 DEF MarkReported, Advance, JournalInv, Entries, DeliveryStates
    <3>2. \A i \in Ids : Recorded(i)' => Recorded(i)
      BY <1>1, <2>2 DEF MarkReported, Advance, In, JournalInv, Recorded, Entries
    <3> QED BY <2>2, <3>1, <3>2, DeliveriesChange
  <2>3. CASE UNCHANGED journalVars
    BY <2>3, JournalUnchanged
  <2> QED BY <2>1, <2>2, <2>3 DEF Acknowledged
<1> QED BY <1>1, <1>4, <1>5, <1>6, <1>7, PlainStepKeeps

-----------------------------------------------------------------------------
(* The steps of the others                                                 *)

LEMMA RuntimeKeeps ==
  ASSUME MutationInv, RuntimeStep, UNCHANGED writeVars
  PROVE  MutationInv'
<1>1. RuntimeInv(Processing)' /\ Framed
  <2>1. "ensure" \in Processing
    BY DEF Processing
  <2> QED BY <2>1, RuntimeStepKeeps DEF MutationInv
<1>2. \A v \in Workers : workers'[v] = workers[v] \/ WorkOK(v)'
  BY <1>1, BetweenOK DEF Framed
<1>3. \A v \in Workers, id \in Ids : Poised(v, id)' => Poised(v, id)
  BY <1>1 DEF Framed, Poised, Between
<1> QED BY <1>1, <1>2, <1>3, QuietStepKeeps

LEMMA ThingsKeeps ==
  ASSUME MutationInv, ThingsStep
  PROVE  MutationInv'
<1>1. PICK x \in Results : WriteArrives(x) \/ UserEdits(x)
  BY DEF ThingsStep
<1>2. /\ UNCHANGED <<runtimeVars, journalVars, sent>> /\ UNCHANGED <<workers, operations>>
  BY <1>1 DEF WriteArrives, UserEdits, runtimeVars, journalVars
<1>3. RuntimeInv(Processing)' /\ JournalInv' /\ RowsKept /\ \A i \in Ids : NoOutcome(i)
  BY <1>2, RuntimeUnchanged, JournalUnchanged DEF MutationInv
<1>4. /\ items' \in [Results -> Standings] /\ flying' \in [Results -> Counts]
      /\ changed' \in SUBSET Results /\ changed \subseteq changed'
      /\ met' \in SUBSET Results /\ met \subseteq met'
      /\ \A y \in Results : items'[y] = "after" => y \in changed'
      /\ \A y \in Results : items'[y] = "alike" => y \in met'
  <2>1. CASE WriteArrives(x)
    BY <2>1 DEF WriteArrives, MutationInv, ItemsInv, Standings, Counts
  <2>2. CASE UserEdits(x)
    BY <2>2 DEF UserEdits, MutationInv, ItemsInv, Standings
  <2> QED BY <1>1, <2>1, <2>2
<1>5. ItemsInv'
  BY <1>2, <1>4 DEF MutationInv, ItemsInv, SavedOutcomeIsReal
<1>6. \A w \in Workers : WorkOK(w)'
  BY <1>2, <1>3, <1>4, AllWorkOK DEF MutationInv
<1>7. SentInv' /\ UnsafeInv'
  BY <1>2 DEF MutationInv, SentInv, UnsafeInv, Poised
<1> QED BY <1>3, <1>5, <1>6, <1>7 DEF MutationInv

LEMMA SamePlaces ==
  ASSUME UNCHANGED workers
  PROVE  /\ \A v \in Workers : workers'[v] = workers[v]
         /\ \A v \in Workers, i \in Ids : Poised(v, i)' => Poised(v, i)
BY DEF Poised

LEMMA DaysPassKeeps ==
  ASSUME MutationInv, DaysPass
  PROVE  MutationInv'
<1>1. PICK id \in Ids :
        /\ Quiet(id)
        /\ \/ RetentionPasses(id) /\ UNCHANGED journalVars
           \/ EntryAges(id) /\ UNCHANGED <<storeVars, operations>>
           \/ OperationAges(id) /\ UNCHANGED <<storeVars, deliveries>>
  BY DEF DaysPass
<1>2. UNCHANGED <<workers, mail, counters, thingsVars, sent>>
  BY DEF DaysPass
<1>3. RuntimeInv(Processing)' /\ JournalInv /\ RuntimeInv(Processing)
  BY <1>1, <1>2, StoreTicks DEF MutationInv
<1>4. CASE RetentionPasses(id) /\ UNCHANGED journalVars
  <2>1. JournalInv' /\ RowsKept /\ \A i \in Ids : NoOutcome(i)
    BY <1>4, JournalUnchanged
  <2> QED BY <1>2, <1>3, <2>1, SamePlaces, PlainStepKeeps
<1>5. CASE EntryAges(id) /\ UNCHANGED <<storeVars, operations>>
  <2>1. deliveries' \in [Ids -> Entries] /\ \A i \in Ids : Recorded(i)' => Recorded(i)
    BY <1>3, <1>5 DEF EntryAges, JournalInv, Entries, Recorded
  <2>2. JournalInv' /\ RowsKept /\ \A i \in Ids : NoOutcome(i)
    BY <1>5, <2>1, DeliveriesChange
  <2> QED BY <1>2, <1>3, <2>2, SamePlaces, PlainStepKeeps
\* Nobody is about the row that grows old.
<1>6. CASE OperationAges(id) /\ UNCHANGED <<storeVars, deliveries>>
  <2> DEFINE old == operations[id]
             new == [old EXCEPT !.aged = TRUE]
  <2>1. old \in Operations /\ old.state # "none"
    BY <1>3, <1>6 DEF JournalInv, OperationAges, HasOperation
  <2>2. /\ new \in Operations /\ new.state = old.state /\ new.payload = old.payload
        /\ new.plan = old.plan /\ new.result = old.result /\ new.differs = old.differs
    BY <2>1, OperationTypes
  <2>3. operations' = [operations EXCEPT ![id] = new]
    BY <1>3, <1>6 DEF OperationAges, JournalInv
  <2> HIDE DEF new
  <2>4. /\ JournalInv' /\ (\A i \in Ids : RowKept(i) /\ NoOutcome(i))
        /\ \A i \in Ids \ {id} : AgeKept(i)
    BY <1>3, <1>6, <2>1, <2>2, <2>3
       DEF JournalInv, OneKindPerIdentifier, Recorded, HasOperation, RowKept, NoOutcome, AgeKept
  <2>5. \A v \in Workers : WorkOK(v)'
    <3> SUFFICES ASSUME NEW v \in Workers PROVE WorkOK(v)'
      OBVIOUS
    <3>1. workers[v].pc \in Writing => workers[v].id \in Ids \ {id}
      BY <1>1, <1>3 DEF Quiet, RuntimeInv, LeaseShape, Writing, Processing
    <3> QED BY <1>2, <1>3, <2>4, <3>1, OthersKeep DEF MutationInv, thingsVars
  <2>6. \A i \in Ids : /\ operations'[i].state = operations[i].state
                       /\ operations'[i].payload = operations[i].payload
                       /\ operations'[i].plan = operations[i].plan
                       /\ operations'[i].differs = operations[i].differs
    BY <1>3, <2>2, <2>3 DEF JournalInv
  <2>7. SentInv' /\ UnsafeInv'
    BY <1>2, <2>6 DEF MutationInv, SentInv, UnsafeInv, Poised
  <2>8. ItemsInv'
    BY <1>2, <2>4, <2>6 DEF MutationInv, ItemsInv, thingsVars, SavedOutcomeIsReal, NoOutcome
  <2> QED BY <1>3, <2>4, <2>5, <2>7, <2>8 DEF MutationInv
<1> QED BY <1>1, <1>4, <1>5, <1>6

LEMMA SweepKeeps ==
  ASSUME MutationInv, Sweep
  PROVE  MutationInv'
<1>1. UNCHANGED <<workers, mail, counters, thingsVars>>
  BY DEF Sweep
<1>2. RuntimeInv(Processing)' /\ JournalInv /\ RuntimeInv(Processing)
  BY <1>1, StoreTicks DEF Sweep, MutationInv
<1>3. CASE PruneTerminal /\ UNCHANGED <<journalVars, sent>>
  <2>1. JournalInv' /\ RowsKept /\ \A i \in Ids : NoOutcome(i)
    BY <1>3, JournalUnchanged
  <2> QED BY <1>1, <1>2, <1>3, <2>1, SamePlaces, PlainStepKeeps
<1>4. CASE PruneReported /\ UNCHANGED <<storeVars, operations, sent>>
  <2>1. NoEntry \in Entries /\ NoEntry.state = "none"
    BY DEF NoEntry, Entry, Entries, DeliveryStates
  <2>2. deliveries' \in [Ids -> Entries] /\ \A i \in Ids : Recorded(i)' => Recorded(i)
    BY <1>2, <1>4, <2>1 DEF PruneReported, JournalInv, Recorded
  <2>3. JournalInv' /\ RowsKept /\ \A i \in Ids : NoOutcome(i)
    BY <1>4, <2>2, DeliveriesChange
  <2> QED BY <1>1, <1>2, <1>4, <2>3, SamePlaces, PlainStepKeeps
\* Nobody is about a row that is old, and with it goes what was sent for it.
<1>5. CASE /\ PruneOperations
           /\ sent' = [id \in Ids |-> IF AcknowledgedAndOld(id) THEN [x \in Results |-> 0]
                                                                ELSE sent[id]]
           /\ UNCHANGED <<storeVars, deliveries>>
  <2>1. /\ NoOperation \in Operations /\ NoOperation.state = "none"
        /\ NoOperation.payload = None
    BY DEF NoOperation, Operations, OperationStates, Planned, Settled
  <2>2. \A i \in Ids : IF AcknowledgedAndOld(i)
                         THEN operations'[i] = NoOperation
                         ELSE operations'[i] = operations[i]
    BY <1>5 DEF PruneOperations
  <2>3. operations' \in [Ids -> Operations]
    BY <1>2, <1>5, <2>1 DEF PruneOperations, JournalInv
  <2>4. JournalInv'
    BY <1>2, <1>5, <2>1, <2>2, <2>3
       DEF JournalInv, OneKindPerIdentifier, Recorded, HasOperation, Planned, Settled
  <2>5. \A v \in Workers : WorkOK(v)'
    <3> SUFFICES ASSUME NEW v \in Workers PROVE WorkOK(v)'
      OBVIOUS
    <3>1. WorkOK(v)
      BY DEF MutationInv
    <3>2. workers[v].pc \in Writing =>
            workers[v].id \in Ids /\ ~AcknowledgedAndOld(workers[v].id)
      BY <1>2, <3>1 DEF RuntimeInv, LeaseShape, Writing, Processing, WorkOK, Row,
         AcknowledgedAndOld, OperationIn
    <3>3. workers[v].pc \in Writing => RowKept(workers[v].id) /\ AgeKept(workers[v].id)
      BY <2>2, <3>2 DEF RowKept, AgeKept
    <3> QED BY <1>1, <1>2, <3>1, <3>3, OthersKeep DEF thingsVars
  <2>6. SentInv'
    <3>1. sent' \in [Ids -> [Results -> Counts]]
      BY <1>5 DEF MutationInv, SentInv, Counts
    <3>2. \A i \in Ids, x \in Results : sent'[i][x] > 0 =>
            sent[i][x] > 0 /\ operations'[i] = operations[i]
      BY <1>5, <2>2
    <3> QED BY <3>1, <3>2 DEF MutationInv, SentInv
  <2>7. UnsafeInv'
    <3>1. \A i \in Ids : operations'[i].payload \in Unsafe =>
            operations'[i] = operations[i] /\ sent'[i] = sent[i]
      BY <1>5, <2>1, <2>2, KindAssumption, StoreAssumption DEF Unsafe
    <3> QED BY <1>1, <3>1 DEF MutationInv, UnsafeInv, Poised
  <2>8. ItemsInv'
    <3>1. \A i \in Ids : operations'[i].state \in Settled =>
            operations'[i] = operations[i] /\ sent'[i] = sent[i]
      BY <1>5, <2>1, <2>2 DEF Settled
    <3> QED BY <1>1, <3>1 DEF MutationInv, ItemsInv, thingsVars, SavedOutcomeIsReal
  <2> QED BY <1>2, <2>4, <2>5, <2>6, <2>7, <2>8 DEF MutationInv
<1> QED BY <1>3, <1>4, <1>5 DEF Sweep

-----------------------------------------------------------------------------
(* The inductive invariant, and what follows from it                       *)

LEMMA MutationInitInv == MutationInit => MutationInv
<1> SUFFICES ASSUME MutationInit PROVE MutationInv
  OBVIOUS
<1>1. RuntimeInv(Processing)
  BY InitRuntimeInv DEF MutationInit
<1>2. \A w \in Workers : workers[w].pc = "idle"
  BY DEF MutationInit, RuntimeInit, IdleWorker, Worker
<1>3. /\ NoOperation \in Operations /\ NoOperation.state = "none"
      /\ NoOperation.payload = None
      /\ NoEntry \in Entries /\ NoEntry.state = "none"
  BY DEF NoOperation, Operations, OperationStates, Planned, Settled,
     NoEntry, Entry, Entries, DeliveryStates
<1>4. \A id \in Ids : operations[id] = NoOperation /\ deliveries[id] = NoEntry
  BY DEF MutationInit, OperationsInit, JournalInit
<1>5. JournalInv
  BY <1>3, <1>4
     DEF MutationInit, OperationsInit, JournalInit, JournalInv, OneKindPerIdentifier,
         Recorded, HasOperation, Planned, Settled
<1>6. ItemsInv
  BY <1>3, <1>4 DEF MutationInit, ItemsInv, Standings, Counts, SavedOutcomeIsReal, Settled
<1>7. SentInv /\ UnsafeInv
  BY <1>2 DEF MutationInit, SentInv, UnsafeInv, Counts, Poised
<1>8. \A w \in Workers : WorkOK(w)
  BY <1>2 DEF WorkOK, At, Writing, Processing
<1> QED BY <1>1, <1>5, <1>6, <1>7, <1>8 DEF MutationInv

LEMMA MutationStepInv == MutationInv /\ [MutationNext]_mutationVars => MutationInv'
<1> SUFFICES ASSUME MutationInv, [MutationNext]_mutationVars PROVE MutationInv'
  OBVIOUS
<1>1. CASE \E id \in Ids, p \in Payloads : Ask(id, p)
  BY <1>1, RuntimeKeeps DEF Ask, RuntimeStep
<1>2. CASE \E w \in Workers : WorkerStep(w)
  <2>1. PICK w \in Workers : WorkerStep(w)
    BY <1>2
  <2>2. CASE WorkerLoop(w) /\ UNCHANGED writeVars
    BY <2>2, RuntimeKeeps DEF RuntimeStep
  <2>3. CASE Process(w)
    BY <2>3, EnsureCaptureKeeps, CaptureEndsKeeps, EnsureWriteKeeps, PrepareKeeps,
       RecordKeeps, DispatchKeeps, CheckKeeps, LookKeeps, SendKeeps, PollKeeps, FinishKeeps,
       StumbleKeeps, AcknowledgedKeeps
       DEF Process
  <2> QED BY <2>1, <2>2, <2>3 DEF WorkerStep
<1>3. CASE (Serve \/ Failure \/ Lapse) /\ UNCHANGED writeVars
  BY <1>3, RuntimeKeeps DEF RuntimeStep
<1>4. CASE ThingsStep
  BY <1>4, ThingsKeeps
<1>5. CASE DaysPass
  BY <1>5, DaysPassKeeps
<1>6. CASE Sweep
  BY <1>6, SweepKeeps
<1>7. CASE UNCHANGED mutationVars
  <2>1. UNCHANGED <<runtimeVars, writeVars>> /\ UNCHANGED workers
    BY <1>7 DEF mutationVars, runtimeVars
  <2> QED BY <2>1, RuntimeUnchanged, SamePlaces, QuietStepKeeps DEF MutationInv
<1> QED BY <1>1, <1>2, <1>3, <1>4, <1>5, <1>6, <1>7 DEF MutationNext

\* The invariant holds in every state of every behaviour.
THEOREM MutationAlways == MutationSpec => []MutationInv
BY MutationInitInv, MutationStepInv, PTL DEF MutationSpec

\* Every row, message and worker of internal/worker and internal/journal has its shape,
\* and exactly the updates have a plan once their row is prepared.
THEOREM MutationTypes == MutationSpec => []MutationTypeOK
<1>1. MutationInv => MutationTypeOK
  BY DEF MutationInv, RuntimeInv, JournalInv, ItemsInv, SentInv, MutationTypeOK,
     OperationsTypeOK, JournalTypeOK
<1> QED BY <1>1, MutationAlways, PTL

\* However many processes work on one journal, and wherever each of them stops or is
\* overtaken, processMutation (internal/worker/mutations.go:39) hands a write that must
\* not be repeated to Things at most once while the journal remembers the job.
THEOREM UnsafeWritesAreSentOnce == MutationSpec => []UnsafeSentOnce
<1>1. MutationInv => UnsafeSentOnce
  BY DEF MutationInv, UnsafeInv, UnsafeSentOnce
<1> QED BY <1>1, MutationAlways, PTL

\* Every delivery of an update writes to the item of the plan that the row keeps, the one
\* that PrepareOperation saved first.
THEOREM UpdatesHaveOneTarget == MutationSpec => []OneTarget
<1>1. MutationInv => OneTarget
  BY DEF MutationInv, SentInv, OneTarget
<1> QED BY <1>1, MutationAlways, PTL

\* What CompleteOperation saves as the result of a write is an item that was seen as
\* the request wants it; or the result warns that it is not, and then it is a project of
\* the requested title that CreateProject reused without sending anything
\* (internal/helper/project_create.go:83).
THEOREM SavedOutcomesAreReal == MutationSpec => []SavedOutcomeIsReal
<1>1. MutationInv => SavedOutcomeIsReal
  BY DEF MutationInv, ItemsInv
<1> QED BY <1>1, MutationAlways, PTL

\* The two triggers of the journal keep an identifier in one table at a time.
THEOREM IdentifiersHaveOneKind == MutationSpec => []OneKindPerIdentifier
<1>1. MutationInv => OneKindPerIdentifier
  BY DEF MutationInv, JournalInv
<1> QED BY <1>1, MutationAlways, PTL
-----------------------------------------------------------------------------
(* What a worker does with its job, as far as outcomes are concerned       *)

\* The worker goes on with its job or reports on it; the queue is left alone.
WorksOn(w) ==
  /\ workers[w].pc \in Processing /\ UNCHANGED storeVars /\ OthersSame(w)
  /\ workers'[w].pc \in Processing \cup {"reporting"}
  /\ workers'[w].id = workers[w].id /\ workers'[w].token = workers[w].token
  /\ workers'[w].payload = workers[w].payload
  /\ \A m \in mail' : \/ m \in mail
                      \/ /\ m.id = workers[w].id /\ m.token = workers[w].token
                         /\ workers'[w].pc = "reporting" /\ m.task = workers'[w].task

\* Only the row of its job may change: one that is new has the worker's request, a write,
\* one that was there keeps its own, and one with an outcome is left alone.
RowTurns(w) ==
  LET id == workers[w].id IN
  /\ \A i \in Ids \ {id} : operations'[i] = operations[i]
  /\ HasOperation(id) =>
       /\ operations'[id].state # "none"
       /\ operations'[id].payload = operations[id].payload
  /\ ~HasOperation(id) /\ operations'[id].state # "none" =>
       ~Is(w, Captures) /\ operations'[id].payload = workers[w].payload
  /\ operations[id].state \in Settled \/ operations'[id].state = "reported" =>
       operations'[id] = operations[id]

\* A report of success names what the row has saved; that of a capture has no row.
NamesOutcome(w) ==
  LET id == workers[w].id IN
  workers'[w].pc = "reporting" /\ workers'[w].task # None =>
    IF Is(w, Captures)
      THEN operations'[id].state = "none"
      ELSE /\ operations'[id].state \in Settled
           /\ operations'[id].result = workers'[w].task
           /\ operations'[id].payload = workers[w].payload

LEMMA ReportWorks ==
  ASSUME MutationInv, NEW w \in Workers, workers[w].pc \in Processing,
         NEW task \in Results \cup {None}, NEW retryable \in BOOLEAN,
         Report(w, task, retryable), UNCHANGED storeVars
  PROVE  WorksOn(w) /\ workers'[w].pc = "reporting" /\ workers'[w].task = task
<1>1. workers \in [Workers -> WorkerStates(Processing)]
  BY DEF MutationInv, RuntimeInv, RuntimeTypeOK
<1>2. /\ workers'[w].pc = "reporting" /\ workers'[w].task = task
      /\ workers'[w].id = workers[w].id /\ workers'[w].token = workers[w].token
      /\ workers'[w].payload = workers[w].payload /\ OthersSame(w)
  BY <1>1 DEF Report, WorkerStates, OthersSame
<1> DEFINE new == [worker |-> w, id |-> workers[w].id, token |-> workers[w].token,
                   task |-> task, retryable |-> retryable]
<1>3. mail' = mail \cup {new}
  BY DEF Report
<1>4. new.id = workers[w].id /\ new.token = workers[w].token /\ new.task = task
  OBVIOUS
<1> HIDE DEF new
<1> QED BY <1>2, <1>3, <1>4 DEF WorksOn

LEMMA FailureWorks ==
  ASSUME MutationInv, NEW w \in Workers, workers[w].pc \in Processing,
         NEW retryable \in BOOLEAN, ReportFailure(w, retryable), UNCHANGED storeVars
  PROVE  WorksOn(w) /\ NamesOutcome(w)
<1>1. WorksOn(w) /\ workers'[w].task = None
  BY ReportWorks DEF ReportFailure
<1> QED BY <1>1 DEF NamesOutcome

LEMMA AimWorks ==
  ASSUME MutationInv, NEW w \in Workers, workers[w].pc \in Processing,
         NEW pc \in Processing, NEW task, Aim(w, pc, task), UNCHANGED <<storeVars, mail>>
  PROVE  WorksOn(w) /\ NamesOutcome(w)
<1>1. workers \in [Workers -> WorkerStates(Processing)]
  BY DEF MutationInv, RuntimeInv, RuntimeTypeOK
<1>2. /\ workers'[w].pc = pc
      /\ workers'[w].id = workers[w].id /\ workers'[w].token = workers[w].token
      /\ workers'[w].payload = workers[w].payload /\ OthersSame(w)
  BY <1>1 DEF Aim, Become, WorkerStates, OthersSame
<1>3. pc # "reporting"
  BY DEF Processing
<1> QED BY <1>2, <1>3 DEF WorksOn, NamesOutcome

LEMMA StepWorks ==
  ASSUME MutationInv, NEW w \in Workers, workers[w].pc \in Processing,
         NEW pc \in Processing, Step(w, pc), UNCHANGED <<storeVars, mail>>
  PROVE  WorksOn(w) /\ NamesOutcome(w)
BY StepIsAim, AimWorks DEF MutationInv

LEMMA RowStays ==
  ASSUME NEW w \in Workers, UNCHANGED operations
  PROVE  RowTurns(w)
BY DEF RowTurns, HasOperation

LEMMA EnsureWriteWorks ==
  ASSUME MutationInv, NEW w \in Workers, EnsureWrite(w)
  PROVE  WorksOn(w) /\ RowTurns(w) /\ NamesOutcome(w)
<1> DEFINE id == workers[w].id
           p == workers[w].payload
<1>1. workers[w].pc \in Processing /\ UNCHANGED storeVars /\ ~Is(w, Captures)
  BY DEF EnsureWrite, At, Processing
<1>2. id \in Ids /\ p \in Payloads /\ operations \in [Ids -> Operations]
  BY <1>1, AtWork DEF MutationInv, JournalInv
<1>3. CASE ReportFailure(w, FALSE) /\ UNCHANGED operations
  BY <1>1, <1>3, FailureWorks, RowStays
<1>4. CASE EnsureOperation(id, p)
  <2>1. Received(p) \in Operations /\ Received(p).state = "received" /\ Received(p).payload = p
    BY <1>2, OperationTypes
  <2> HIDE DEF Received
  <2>2. RowTurns(w) /\ operations'[id] \in Operations
    BY <1>1, <1>2, <1>4, <2>1 DEF EnsureOperation, RowTurns, HasOperation, Settled
  <2>3. CASE ReportFailure(w, FALSE)
    BY <1>1, <2>2, <2>3, FailureWorks
  <2> DEFINE op == operations'[id]
  <2>4. CASE op.payload = p /\ op.state \in Settled /\ ReportOutcome(w, op.result)
    <3>1. op.result \in Results \cup {None}
      BY <2>2 DEF Operations
    <3>2. WorksOn(w) /\ workers'[w].task = op.result
      BY <1>1, <2>4, <3>1, ReportWorks DEF ReportOutcome
    <3> QED BY <1>1, <2>2, <2>4, <3>2 DEF NamesOutcome
  <2>5. CASE Step(w, IF Is(w, Updates) THEN "prepare" ELSE "record") /\ UNCHANGED mail
    <3>1. (IF Is(w, Updates) THEN "prepare" ELSE "record") \in Processing
      BY DEF Processing
    <3> QED BY <1>1, <2>2, <2>5, <3>1, StepWorks
  <2>6. CASE (Aim(w, "dispatch", op.plan) \/ Aim(w, "check", op.plan)) /\ UNCHANGED mail
    <3>1. "dispatch" \in Processing /\ "check" \in Processing
      BY DEF Processing
    <3> QED BY <1>1, <2>2, <2>6, <3>1, AimWorks
  <2> QED BY <1>4, <2>3, <2>4, <2>5, <2>6 DEF EnsureWrite
<1> QED BY <1>3, <1>4 DEF EnsureWrite

LEMMA PlansWork ==
  ASSUME MutationInv, NEW w \in Workers,
         Prepare(w) \/ Check(w) \/ Look(w) \/ Send(w) \/ PollWrite(w) \/ Stumble(w)
  PROVE  WorksOn(w) /\ RowTurns(w) /\ NamesOutcome(w)
<1>1. workers[w].pc \in Processing /\ UNCHANGED storeVars /\ UNCHANGED operations
  BY DEF Prepare, Check, Look, Send, PollWrite, Stumble, At, Processing, writeVars,
     journalVars
<1>2. RowTurns(w)
  BY <1>1, RowStays
<1>3. CASE ReportFailure(w, FALSE) \/ ReportFailure(w, TRUE)
  BY <1>1, <1>2, <1>3, FailureWorks
<1>4. CASE \E pc \in Processing : Step(w, pc) /\ UNCHANGED mail
  BY <1>1, <1>2, <1>4, StepWorks
<1>5. CASE \E pc \in Processing, x \in Results : Aim(w, pc, x) /\ UNCHANGED mail
  BY <1>1, <1>2, <1>5, AimWorks
<1>6. {"record", "look", "finish", "reuse", "send", "poll"} \subseteq Processing
  BY DEF Processing
<1> QED
  BY <1>3, <1>4, <1>5, <1>6 DEF Prepare, Check, Look, Send, PollWrite, Stumble

LEMMA RowsWork ==
  ASSUME MutationInv, NEW w \in Workers, Record(w) \/ Dispatch(w) \/ Finish(w)
  PROVE  WorksOn(w) /\ RowTurns(w) /\ NamesOutcome(w)
<1> DEFINE id == workers[w].id
           row == operations[id]
<1>1. workers[w].pc \in Processing /\ UNCHANGED storeVars
  BY DEF Record, Dispatch, Finish, At, Processing
<1>2. /\ id \in Ids /\ row \in Operations /\ operations \in [Ids -> Operations]
      /\ About(w) \in Results \cup {None} /\ WorkOK(w)
  BY <1>1, AtWork DEF MutationInv, JournalInv, About
<1>3. CASE ReportFailure(w, TRUE) /\ UNCHANGED operations
  BY <1>1, <1>3, FailureWorks, RowStays
<1>4. CASE Record(w) /\ PrepareOperation(id, About(w)) /\ Step(w, "dispatch") /\ UNCHANGED mail
  <2> DEFINE new == [[row EXCEPT !.state = "prepared", !.plan = About(w)] EXCEPT !.aged = FALSE]
  <2>1. row.state = "received" /\ operations' = [operations EXCEPT ![id] = new]
    BY <1>4 DEF PrepareOperation, Move, OperationIn
  <2>2. new.state = "prepared" /\ new.payload = row.payload
    BY <1>2, <2>1, PreparedTypes
  <2> HIDE DEF new
  <2>3. RowTurns(w)
    BY <1>2, <2>1, <2>2 DEF RowTurns, HasOperation, Settled
  <2>4. "dispatch" \in Processing
    BY DEF Processing
  <2> QED BY <1>1, <1>4, <2>3, <2>4, StepWorks
<1>5. CASE Dispatch(w) /\ MarkOperationDispatched(id) /\ Step(w, "look") /\ UNCHANGED mail
  <2> DEFINE new == [[row EXCEPT !.state = "dispatched"] EXCEPT !.aged = FALSE]
  <2>1. row.state = "prepared" /\ operations' = [operations EXCEPT ![id] = new]
    BY <1>5 DEF MarkOperationDispatched, Move, OperationIn
  <2>2. new.state = "dispatched" /\ new.payload = row.payload
    BY <1>2, <2>1, OperationTypes
  <2> HIDE DEF new
  <2>3. RowTurns(w)
    BY <1>2, <2>1, <2>2 DEF RowTurns, HasOperation, Settled
  <2>4. "look" \in Processing
    BY DEF Processing
  <2> QED BY <1>1, <1>5, <2>3, <2>4, StepWorks
<1>6. CASE /\ Finish(w)
           /\ CompleteOperation(id, About(w), At(w, "reuse")) /\ ReportOutcome(w, About(w))
  <2>0. PICK x \in Results, differs \in BOOLEAN : x = About(w) /\ differs = At(w, "reuse")
    BY <1>2, <1>6 DEF Finish, WorkOK, At
  <2> DEFINE new == [[row EXCEPT !.state = "applied", !.result = x, !.differs = differs]
                       EXCEPT !.aged = FALSE]
  <2>1. row.state = "dispatched" /\ operations' = [operations EXCEPT ![id] = new]
    BY <1>6, <2>0 DEF CompleteOperation, Move, OperationIn
  <2>2. /\ row.payload = workers[w].payload
        /\ workers[w].payload \in Natives \cup Updates
    BY <1>2, <1>6 DEF Finish, WorkOK, Row, At, Writing, Processing
  <2>3. new.state = "applied" /\ new.payload = row.payload /\ new.result = x
    BY <1>2 DEF Operations
  <2> HIDE DEF new
  <2>4. RowTurns(w)
    BY <1>2, <2>1, <2>3 DEF RowTurns, HasOperation, Settled
  <2>5. WorksOn(w) /\ workers'[w].task = x
    BY <1>1, <1>2, <1>6, <2>0, ReportWorks DEF ReportOutcome
  <2>6. NamesOutcome(w)
    BY <1>2, <2>1, <2>2, <2>3, <2>5 DEF NamesOutcome, Is, Captures, Settled
  <2> QED BY <2>4, <2>5, <2>6
<1> QED BY <1>3, <1>4, <1>5, <1>6 DEF Record, Dispatch, Finish

LEMMA CapturesWork ==
  ASSUME MutationInv, NEW w \in Workers, EnsureCapture(w) \/ CaptureEnds(w)
  PROVE  WorksOn(w) /\ RowTurns(w) /\ NamesOutcome(w)
<1> DEFINE id == workers[w].id
<1>1. workers[w].pc \in Processing /\ UNCHANGED storeVars /\ UNCHANGED operations
  BY DEF EnsureCapture, CaptureEnds, At, Processing
<1>2. id \in Ids /\ RowTurns(w) /\ deliveries \in [Ids -> Entries]
  BY <1>1, AtWork, RowStays DEF MutationInv, JournalInv
<1>3. CASE \E retryable \in BOOLEAN : ReportFailure(w, retryable)
  BY <1>1, <1>2, <1>3, FailureWorks
<1>4. CASE Step(w, "capture") /\ UNCHANGED mail
  <2>1. "capture" \in Processing
    BY DEF Processing
  <2> QED BY <1>1, <1>2, <1>4, <2>1, StepWorks
<1>5. Is(w, Captures)
  BY <1>1, AtWork DEF EnsureCapture, CaptureEnds, WorkOK
<1>6. CASE \E x \in Results \cup {None} : ReportOutcome(w, x) /\ ~HasOperation(id)
  <2>1. PICK x \in Results \cup {None} : ReportOutcome(w, x) /\ ~HasOperation(id)
    BY <1>6
  <2>2. WorksOn(w)
    BY <1>1, <2>1, ReportWorks DEF ReportOutcome
  <2>3. operations'[id].state = "none"
    BY <1>1, <2>1 DEF HasOperation
  <2> QED BY <1>2, <1>5, <2>2, <2>3 DEF NamesOutcome
<1>7. CASE EnsureCapture(w)
  <2>1. CASE ReportOutcome(w, deliveries'[id].task) /\ ~KeptFromDeliveries(id)
             /\ EnsureDelivery(id, workers[w].payload)
    <3>1. deliveries'[id].task \in Results \cup {None}
      <4>1. Entry("received", workers[w].payload, None).task = None
        BY DEF Entry
      <4> QED BY <1>2, <2>1, <4>1 DEF EnsureDelivery, Entries
    <3> QED BY <1>6, <2>1, <3>1 DEF KeptFromDeliveries
  <2> QED BY <1>3, <1>4, <1>7, <2>1 DEF EnsureCapture
<1>8. CASE CaptureEnds(w)
  <2>1. In(id, {"received", "creating", "created"}) => ~HasOperation(id)
    BY <1>2 DEF In, MutationInv, JournalInv, OneKindPerIdentifier, Recorded
  <2> QED BY <1>3, <1>6, <1>8, <2>1 DEF CaptureEnds
<1> QED BY <1>7, <1>8

LEMMA ProcessWorks ==
  ASSUME MutationInv, NEW w \in Workers, Process(w), ~Acknowledged(w)
  PROVE  WorksOn(w) /\ RowTurns(w) /\ NamesOutcome(w)
BY EnsureWriteWorks, PlansWork, RowsWork, CapturesWork DEF Process

-----------------------------------------------------------------------------
(* Outcomes that were reported, when keys are not reused too soon          *)

Saved(id, x) == operations[id].state \in Settled /\ operations[id].result = x

\* A key that the server has forgotten comes back only when the journal has let go of the
\* write that it named.
ForgottenFirst == \A id \in Ids : ~Present(id) /\ Present(id)' => ~HasOperation(id)

\* A row is about the request of its job, a write; it is acknowledged only when the job succeeded,
\* with what the row has saved, and old only when nobody is about the job any more.
WriteOK(id) ==
  /\ HasOperation(id) => operations[id].payload \notin Captures
  /\ HasOperation(id) /\ Present(id) => operations[id].payload = jobs[id].payload
  /\ operations[id].state = "reported" => SucceededIfThere(id)
  /\ operations[id].state = "reported" /\ operations[id].aged => NobodyHas(id)
  /\ jobs[id].state = "succeeded" /\ jobs[id].payload \notin Captures =>
       Saved(id, jobs[id].result) \/ (~HasOperation(id) /\ NobodyHas(id))

\* A report of success names what is saved.
ReportOK(m) == m.task # None /\ jobs[m.id].payload \notin Captures => Saved(m.id, m.task)

OutcomeInv ==
  /\ LedgerInv
  /\ RequestsKnown
  /\ \A id \in Ids : WriteOK(id)
  /\ \A m \in mail : ReportOK(m)

\* A worker that has a job, and a report of one, find it in the table.
LEMMA JobsAreThere ==
  ASSUME RuntimeInv(Processing), LedgerInv
  PROVE  /\ \A w \in Workers : Holding(w) =>
              /\ workers[w].id \in Ids /\ Present(workers[w].id) /\ ~NobodyHas(workers[w].id)
              /\ ~jobs[workers[w].id].aged
         /\ \A m \in mail : /\ m.id \in Ids /\ Present(m.id) /\ ~NobodyHas(m.id)
                            /\ ~jobs[m.id].aged
<1>1. \A w \in Workers : Holding(w) => workers[w].id \in Ids /\ ~NobodyHas(workers[w].id)
  BY DEF RuntimeInv, LeaseShape, Holding, NobodyHas
<1>2. \A m \in mail : m.id \in Ids /\ ~NobodyHas(m.id)
  BY DEF RuntimeInv, RuntimeTypeOK, Messages, NobodyHas
<1> QED BY <1>1, <1>2 DEF LedgerInv

LEMMA InitOutcome ==
  ASSUME MutationInit
  PROVE  OutcomeInv
<1>1. LedgerInv /\ mail = {} /\ \A w \in Workers : workers[w].pc = "idle"
  BY InitLedger DEF MutationInit, RuntimeInit, IdleWorker, Worker
<1>2. \A id \in Ids : ~Present(id) /\ jobs[id].state = "absent"
                      /\ operations[id].state = "none"
  BY DEF MutationInit, RuntimeInit, StoreInit, NoRow, Present, OperationsInit, NoOperation
<1>3. RequestsKnown
  BY <1>1 DEF RequestsKnown, Holding
<1> QED BY <1>1, <1>2, <1>3 DEF OutcomeInv, WriteOK, HasOperation

\* A worker that goes on, or reports.
LEMMA WorkOutcome ==
  ASSUME MutationInv, OutcomeInv, NEW w \in Workers,
         WorksOn(w), RowTurns(w), NamesOutcome(w)
  PROVE  OutcomeInv'
<1> DEFINE id == workers[w].id
<1>1. /\ RuntimeInv(Processing) /\ LeaseShape /\ LedgerInv /\ Holding(w)
      /\ workers[w].pc \notin {"reporting", "reported"}
      /\ workers'[w].pc \notin {"idle", "polling", "reported"}
  BY DEF MutationInv, RuntimeInv, OutcomeInv, WorksOn, Processing, Holding
<1>2. /\ id \in Ids /\ Present(id) /\ ~NobodyHas(id) /\ ~jobs[id].aged
      /\ workers[w].payload = jobs[id].payload
  BY <1>1, JobsAreThere DEF OutcomeInv, RequestsKnown
<1>3. LedgerInv'
  BY <1>1, GoOnLedger DEF WorksOn, OthersSame
<1>4. UNCHANGED jobs /\ \A i \in Ids : Present(i)' <=> Present(i)
  BY DEF WorksOn, storeVars, Present
<1>5. RequestsKnown'
  BY <1>1, <1>4 DEF OutcomeInv, RequestsKnown, WorksOn, OthersSame, Holding
<1>6. \A i \in Ids : NobodyHas(i) => NobodyHas(i)'
  BY <1>2 DEF NobodyHas, WorksOn, OthersSame
<1>7. \A i \in Ids : \A x : Saved(i, x) => Saved(i, x)'
  BY <1>2 DEF Saved, RowTurns
<1>8. ASSUME NEW i \in Ids
      PROVE  WriteOK(i)'
  <2>1. CASE i = id
    <3>1. HasOperation(i)' => /\ operations'[i].payload = jobs[i].payload
                              /\ operations'[i].payload \notin Captures
      BY <1>2, <2>1 DEF RowTurns, HasOperation, OutcomeInv, WriteOK, Is
    <3>2. operations'[i].state = "reported" => operations'[i] = operations[i]
      BY <2>1 DEF RowTurns
    <3>3. ~(operations[i].state = "reported" /\ operations[i].aged)
      BY <1>2, <2>1 DEF OutcomeInv, WriteOK
    <3>4. jobs[i].state = "succeeded" /\ jobs[i].payload \notin Captures =>
            Saved(i, jobs[i].result)
      BY <1>2, <2>1 DEF OutcomeInv, WriteOK
    <3> QED
      BY <1>4, <1>7, <3>1, <3>2, <3>3, <3>4 DEF OutcomeInv, WriteOK, SucceededIfThere
  <2>2. CASE i # id
    <3>1. operations'[i] = operations[i]
      BY <2>2 DEF RowTurns
    <3> QED
      BY <1>4, <1>6, <1>7, <3>1 DEF OutcomeInv, WriteOK, SucceededIfThere, HasOperation
  <2> QED BY <2>1, <2>2
<1>9. ASSUME NEW m \in mail'
      PROVE  ReportOK(m)'
  <2>1. CASE m \in mail
    <3>1. m.id \in Ids
      BY <1>1, <2>1, JobsAreThere
    <3> QED BY <1>4, <1>7, <2>1, <3>1 DEF OutcomeInv, ReportOK
  <2>2. CASE /\ m.id = id /\ workers'[w].pc = "reporting" /\ m.task = workers'[w].task
    BY <1>2, <1>4, <2>2 DEF NamesOutcome, Is, ReportOK, Saved
  <2> QED BY <2>1, <2>2 DEF WorksOn
<1> QED BY <1>3, <1>5, <1>8, <1>9 DEF OutcomeInv

\* The loop, the answers and the faults: a job succeeds with what a report names.
LEMMA RuntimeOutcome ==
  ASSUME MutationInv, OutcomeInv, UNCHANGED operations,
         (\E w \in Workers : WorkerLoop(w)) \/ Serve \/ Failure \/ Lapse
  PROVE  OutcomeInv'
<1>1. RuntimeInv(Processing) /\ LedgerInv
  BY DEF MutationInv, OutcomeInv
<1>2. LedgerInv'
  BY <1>1, RuntimeStepLedger DEF RuntimeStep
<1>3. RequestsKnown'
  BY <1>1, RuntimeStepRequests DEF OutcomeInv
<1>4. /\ RowsMove /\ mail' \subseteq mail
      /\ \A id \in Ids : NobodyHas(id) /\ SucceededIfThere(id) => NobodyHas(id)'
      /\ \A id \in Ids : jobs'[id].state = "succeeded" =>
           \/ jobs'[id] = jobs[id]
           \/ \E m \in mail : /\ m.id = id /\ m.task \in Results /\ jobs'[id].result = m.task
  BY <1>1, RuntimeStepQuiet
<1>5. \A id \in Ids : \A x : Saved(id, x)' <=> Saved(id, x)
  BY DEF Saved
<1>6. ASSUME NEW id \in Ids
      PROVE  WriteOK(id)'
  <2>1. /\ Present(id)' <=> Present(id)
        /\ jobs'[id].payload = jobs[id].payload
        /\ SucceededIfThere(id) => SucceededIfThere(id)'
    BY <1>4, RowsMoveKeeps DEF SucceededIfThere, Present
  <2>2. jobs'[id].state = "succeeded" /\ jobs'[id].payload \notin Captures =>
          Saved(id, jobs'[id].result) \/ (~HasOperation(id) /\ NobodyHas(id)')
    <3>1. CASE jobs'[id] = jobs[id]
      BY <1>4, <3>1 DEF OutcomeInv, WriteOK, SucceededIfThere
    <3>2. CASE \E m \in mail : m.id = id /\ m.task \in Results /\ jobs'[id].result = m.task
      BY <2>1, <3>2, StoreAssumption DEF OutcomeInv, ReportOK
    <3> QED BY <1>4, <3>1, <3>2
  <2> QED BY <1>4, <1>5, <2>1, <2>2 DEF OutcomeInv, WriteOK, HasOperation
<1>7. ASSUME NEW m \in mail'
      PROVE  ReportOK(m)'
  <2>1. m \in mail /\ m.id \in Ids /\ jobs'[m.id].payload = jobs[m.id].payload
    BY <1>1, <1>4, RowsMoveKeeps, JobsAreThere
  <2> QED BY <1>5, <2>1 DEF OutcomeInv, ReportOK
<1> QED BY <1>2, <1>3, <1>6, <1>7 DEF OutcomeInv

\* A request: the journal has forgotten the key.
LEMMA AskOutcome ==
  ASSUME MutationInv, OutcomeInv, ForgottenFirst, NEW id \in Ids, NEW p \in Payloads,
         Ask(id, p)
  PROVE  OutcomeInv'
<1>1. /\ RuntimeInv(Processing) /\ LedgerInv /\ UNCHANGED <<workers, mail>>
      /\ UNCHANGED operations /\ Insert(id, p) /\ jobs \in [Ids -> Rows]
  BY DEF MutationInv, RuntimeInv, RuntimeTypeOK, StoreTypeOK, OutcomeInv, Ask, Enqueue,
     writeVars, journalVars
<1>2. LedgerInv'
  BY <1>1, TableLedger
<1>3. QueuedRow(p).state = "queued"
  BY DEF QueuedRow, NoRow
<1>4. /\ ~Present(id) /\ jobs'[id].state = "queued"
      /\ \A i \in Ids \ {id} : jobs'[i] = jobs[i]
  BY <1>1, <1>3 DEF Insert
<1>5. NobodyHas(id) /\ ~HasOperation(id)
  BY <1>1, <1>4 DEF LedgerInv, ForgottenFirst, Present
<1>6. \A w \in Workers : Holding(w) => workers[w].id \in Ids \ {id}
  BY <1>1, <1>4, JobsAreThere
<1>7. RequestsKnown'
  BY <1>1, <1>4, <1>6 DEF OutcomeInv, RequestsKnown, Holding
<1>8. ASSUME NEW i \in Ids
      PROVE  WriteOK(i)'
  <2>1. NobodyHas(i)' <=> NobodyHas(i)
    BY <1>1 DEF NobodyHas
  <2>2. CASE i = id
    BY <1>1, <1>4, <1>5, <2>2 DEF WriteOK, HasOperation
  <2>3. CASE i # id
    BY <1>1, <1>4, <2>1, <2>3
       DEF OutcomeInv, WriteOK, HasOperation, Present, SucceededIfThere, Saved
  <2> QED BY <2>2, <2>3
<1>9. \A m \in mail' : ReportOK(m)'
  <2>1. \A m \in mail : m.id \in Ids \ {id}
    BY <1>1, <1>4, JobsAreThere
  <2> QED BY <1>1, <1>4, <2>1 DEF OutcomeInv, ReportOK, Saved
<1> QED BY <1>2, <1>7, <1>8, <1>9 DEF OutcomeInv

\* A worker that is told its report was accepted acknowledges the row, and lets go.
LEMMA AcknowledgedOutcome ==
  ASSUME MutationInv, OutcomeInv, NEW w \in Workers, Acknowledged(w)
  PROVE  OutcomeInv'
<1> DEFINE id == workers[w].id
           row == operations[id]
           new == [[row EXCEPT !.state = "reported"] EXCEPT !.aged = FALSE]
<1>1. /\ RuntimeInv(Processing) /\ LeaseShape /\ LedgerInv /\ Holding(w)
      /\ UNCHANGED storeVars /\ UNCHANGED mail /\ workers \in [Workers -> WorkerStates(Processing)]
      /\ operations \in [Ids -> Operations] /\ At(w, "reported")
  BY DEF MutationInv, RuntimeInv, RuntimeTypeOK, OutcomeInv, JournalInv, Acknowledged, At,
     Holding
<1>2. /\ id \in Ids /\ Present(id) /\ ~NobodyHas(id) /\ jobs[id].state = "succeeded"
  BY <1>1, JobsAreThere DEF LedgerInv
<1>3. /\ \A v \in Workers : workers'[v] = IF v = w THEN IdleWorker ELSE workers[v]
      /\ IdleWorker.pc = "idle" /\ IdleWorker.id = None /\ IdleWorker.token = None
  BY <1>1 DEF Acknowledged, Become, IdleWorker, Worker
<1>4. RowsMove
  BY <1>1 DEF storeVars, RowsMove
<1>5. LedgerInv'
  BY <1>1, <1>3, <1>4, LetGoLedger
<1>6. UNCHANGED jobs /\ \A i \in Ids : Present(i)' <=> Present(i)
  BY <1>1 DEF storeVars, Present
<1>7. RequestsKnown'
  BY <1>3, <1>6 DEF OutcomeInv, RequestsKnown, Holding
<1>8. \A i \in Ids : NobodyHas(i) => NobodyHas(i)'
  BY <1>1, <1>3, StoreAssumption DEF NobodyHas
<1>9. \A i \in Ids :
        \/ operations'[i] = operations[i]
        \/ /\ i = id /\ row.state = "applied" /\ operations'[i].state = "reported"
           /\ operations'[i].payload = row.payload /\ operations'[i].result = row.result
           /\ ~operations'[i].aged
  <2>1. CASE Move(id, "applied", [row EXCEPT !.state = "reported"])
    <3>1. row \in Operations /\ row.state = "applied"
      BY <1>1, <1>2, <2>1 DEF Move, OperationIn
    <3>2. new.state = "reported" /\ new.payload = row.payload /\ new.result = row.result
          /\ ~new.aged
      BY <3>1, OperationTypes
    <3>3. operations' = [operations EXCEPT ![id] = new]
      BY <2>1 DEF Move
    <3> HIDE DEF new
    <3> QED BY <1>1, <1>2, <3>1, <3>2, <3>3
  <2>2. CASE UNCHANGED operations
    BY <2>2
  <2> QED BY <2>1, <2>2 DEF Acknowledged, MarkOperationReported, journalVars
<1>10. \A i \in Ids : \A x : Saved(i, x) => Saved(i, x)'
  BY <1>9 DEF Saved, Settled
<1>11. ASSUME NEW i \in Ids
       PROVE  WriteOK(i)'
  <2>1. CASE operations'[i] = operations[i]
    BY <1>6, <1>8, <1>10, <2>1 DEF OutcomeInv, WriteOK, HasOperation, SucceededIfThere
  <2>2. CASE /\ i = id /\ row.state = "applied" /\ operations'[i].state = "reported"
             /\ operations'[i].payload = row.payload /\ ~operations'[i].aged
    BY <1>2, <1>6, <1>10, <2>2 DEF OutcomeInv, WriteOK, HasOperation, SucceededIfThere
  <2> QED BY <1>9, <2>1, <2>2
<1>12. \A m \in mail' : ReportOK(m)'
  <2>1. \A m \in mail : m.id \in Ids
    BY <1>1, JobsAreThere
  <2> QED BY <1>1, <1>6, <1>10, <2>1 DEF OutcomeInv, ReportOK
<1> QED BY <1>5, <1>7, <1>11, <1>12 DEF OutcomeInv

\* Nothing that a report could be about changes.
LEMMA OutcomeUnchanged ==
  ASSUME OutcomeInv, UNCHANGED <<jobs, workers, mail, operations>>
  PROVE  OutcomeInv'
BY DEF OutcomeInv, LedgerInv, RequestsKnown, WriteOK, ReportOK, Saved, Holding, Present,
   Finished, NobodyHas, HasOperation, SucceededIfThere, At

\* A job or a row of which nothing is under way grows old.
LEMMA DaysPassOutcome ==
  ASSUME MutationInv, OutcomeInv, DaysPass
  PROVE  OutcomeInv'
<1>1. PICK id \in Ids :
        /\ Quiet(id)
        /\ \/ RetentionPasses(id) /\ UNCHANGED journalVars
           \/ EntryAges(id) /\ UNCHANGED <<storeVars, operations>>
           \/ OperationAges(id) /\ UNCHANGED <<storeVars, deliveries>>
  BY DEF DaysPass
<1>2. /\ RuntimeInv(Processing) /\ LedgerInv /\ UNCHANGED <<workers, mail>> /\ NobodyHas(id)
      /\ jobs \in [Ids -> Rows] /\ operations \in [Ids -> Operations]
      /\ \A i \in Ids : NobodyHas(i)' <=> NobodyHas(i)
  BY <1>1 DEF MutationInv, RuntimeInv, RuntimeTypeOK, StoreTypeOK, OutcomeInv, JournalInv,
     DaysPass, Quiet, NobodyHas
<1>3. CASE RetentionPasses(id) /\ UNCHANGED journalVars
  <2>1. LedgerInv'
    BY <1>2, <1>3, TableLedger
  <2> DEFINE new == [jobs[id] EXCEPT !.aged = TRUE]
  <2>2. new.state = jobs[id].state /\ new.payload = jobs[id].payload
        /\ new.result = jobs[id].result
    BY <1>2 DEF Rows
  <2>3. jobs' = [jobs EXCEPT ![id] = new]
    BY <1>2, <1>3 DEF RetentionPasses
  <2> HIDE DEF new
  <2>4. /\ \A i \in Ids : /\ jobs'[i].state = jobs[i].state
                          /\ jobs'[i].payload = jobs[i].payload
                          /\ jobs'[i].result = jobs[i].result
        /\ UNCHANGED operations
    BY <1>2, <1>3, <2>2, <2>3 DEF journalVars
  <2>5. RequestsKnown'
    BY <1>2, <2>4, JobsAreThere DEF OutcomeInv, RequestsKnown, Holding
  <2>6. \A i \in Ids : WriteOK(i)'
    BY <1>2, <2>4 DEF OutcomeInv, WriteOK, HasOperation, Present, SucceededIfThere, Saved
  <2>7. \A m \in mail' : ReportOK(m)'
    BY <1>2, <2>4, JobsAreThere DEF OutcomeInv, ReportOK, Saved
  <2> QED BY <2>1, <2>5, <2>6, <2>7 DEF OutcomeInv
<1>4. CASE EntryAges(id) /\ UNCHANGED <<storeVars, operations>>
  BY <1>2, <1>4, OutcomeUnchanged DEF storeVars
<1>5. CASE OperationAges(id) /\ UNCHANGED <<storeVars, deliveries>>
  <2> DEFINE new == [operations[id] EXCEPT !.aged = TRUE]
  <2>1. new.state = operations[id].state /\ new.payload = operations[id].payload
        /\ new.result = operations[id].result
    BY <1>2, <1>5, OperationTypes DEF OperationAges, HasOperation
  <2>2. operations' = [operations EXCEPT ![id] = new]
    BY <1>2, <1>5 DEF OperationAges
  <2> HIDE DEF new
  <2>3. /\ \A i \in Ids : /\ operations'[i].state = operations[i].state
                          /\ operations'[i].payload = operations[i].payload
                          /\ operations'[i].result = operations[i].result
                          /\ i # id => operations'[i] = operations[i]
        /\ UNCHANGED jobs
    BY <1>2, <1>5, <2>1, <2>2 DEF storeVars
  <2>4. LedgerInv' /\ RequestsKnown'
    BY <1>2, <2>3 DEF OutcomeInv, LedgerInv, RequestsKnown, Holding, Present, Finished,
       NobodyHas, At
  <2>5. \A i \in Ids : WriteOK(i)'
    BY <1>2, <2>3 DEF OutcomeInv, WriteOK, HasOperation, Present, SucceededIfThere, Saved
  <2>6. \A m \in mail' : ReportOK(m)'
    BY <1>2, <2>3, JobsAreThere DEF OutcomeInv, ReportOK, Saved
  <2> QED BY <2>4, <2>5, <2>6 DEF OutcomeInv
<1> QED BY <1>1, <1>3, <1>4, <1>5

\* What is swept away is old, and nobody is about it.
LEMMA SweepOutcome ==
  ASSUME MutationInv, OutcomeInv, Sweep
  PROVE  OutcomeInv'
<1>1. /\ RuntimeInv(Processing) /\ LedgerInv /\ UNCHANGED <<workers, mail>>
      /\ \A i \in Ids : NobodyHas(i)' <=> NobodyHas(i)
  BY DEF MutationInv, OutcomeInv, Sweep, NobodyHas
<1>2. CASE PruneTerminal /\ UNCHANGED <<journalVars, sent>>
  <2>1. LedgerInv' /\ UNCHANGED operations
    BY <1>1, <1>2, TableLedger DEF journalVars
  <2>2. NoRow.state = "absent"
    BY DEF NoRow
  <2>3. \A i \in Ids : jobs'[i] = jobs[i] \/ (jobs[i].aged /\ jobs'[i].state = "absent")
    BY <1>2, <2>2 DEF PruneTerminal, Prunable
  <2>4. RequestsKnown'
    BY <1>1, <2>3, JobsAreThere DEF OutcomeInv, RequestsKnown, Holding
  <2>5. \A i \in Ids : WriteOK(i)'
    BY <1>1, <2>1, <2>3
       DEF OutcomeInv, WriteOK, HasOperation, Present, SucceededIfThere, Saved
  <2>6. \A m \in mail' : ReportOK(m)'
    BY <1>1, <2>1, <2>3, JobsAreThere DEF OutcomeInv, ReportOK, Saved
  <2> QED BY <2>1, <2>4, <2>5, <2>6 DEF OutcomeInv
<1>3. CASE PruneReported /\ UNCHANGED <<storeVars, operations, sent>>
  BY <1>1, <1>3, OutcomeUnchanged DEF storeVars
<1>4. CASE PruneOperations /\ UNCHANGED <<storeVars, deliveries>>
  <2>1. NoOperation.state = "none"
    BY DEF NoOperation
  <2>2. /\ UNCHANGED jobs
        /\ \A i \in Ids :
             \/ operations'[i] = operations[i]
             \/ operations'[i].state = "none" /\ NobodyHas(i)
    BY <1>4, <2>1
       DEF PruneOperations, AcknowledgedAndOld, OperationIn, OutcomeInv, WriteOK, storeVars
  <2>3. LedgerInv' /\ RequestsKnown'
    BY <1>1, <2>2 DEF OutcomeInv, LedgerInv, RequestsKnown, Holding, Present, Finished,
       NobodyHas, At
  <2>4. \A i \in Ids : WriteOK(i)'
    BY <1>1, <2>2 DEF OutcomeInv, WriteOK, HasOperation, Present, SucceededIfThere, Saved
  <2>5. \A m \in mail' : ReportOK(m)'
    BY <1>1, <2>2, JobsAreThere DEF OutcomeInv, ReportOK, Saved
  <2> QED BY <2>3, <2>4, <2>5 DEF OutcomeInv
<1> QED BY <1>2, <1>3, <1>4 DEF Sweep

LEMMA OutcomeStep ==
  ASSUME MutationInv, OutcomeInv, [MutationNext]_mutationVars,
         [ForgottenFirst]_mutationVars
  PROVE  OutcomeInv'
<1>1. CASE \E id \in Ids, p \in Payloads : Ask(id, p)
  <2>1. PICK id \in Ids, p \in Payloads : Ask(id, p)
    BY <1>1
  <2>2. CASE ForgottenFirst
    BY <2>1, <2>2, AskOutcome
  <2>3. CASE UNCHANGED mutationVars
    BY <2>3, OutcomeUnchanged DEF mutationVars, runtimeVars, writeVars, journalVars
  <2> QED BY <2>2, <2>3
<1>2. CASE \E w \in Workers : WorkerStep(w)
  <2>1. PICK w \in Workers : WorkerStep(w)
    BY <1>2
  <2>2. CASE WorkerLoop(w) /\ UNCHANGED writeVars
    BY <2>2, RuntimeOutcome DEF writeVars, journalVars
  <2>3. CASE Process(w)
    BY <2>3, ProcessWorks, WorkOutcome, AcknowledgedOutcome
  <2> QED BY <2>1, <2>2, <2>3 DEF WorkerStep
<1>3. CASE (Serve \/ Failure \/ Lapse) /\ UNCHANGED writeVars
  BY <1>3, RuntimeOutcome DEF writeVars, journalVars
<1>4. CASE ThingsStep
  BY <1>4, OutcomeUnchanged
     DEF ThingsStep, WriteArrives, UserEdits, runtimeVars, journalVars
<1>5. CASE DaysPass
  BY <1>5, DaysPassOutcome
<1>6. CASE Sweep
  BY <1>6, SweepOutcome
<1>7. CASE UNCHANGED mutationVars
  BY <1>7, OutcomeUnchanged DEF mutationVars, runtimeVars, writeVars, journalVars
<1> QED BY <1>1, <1>2, <1>3, <1>4, <1>5, <1>6, <1>7 DEF MutationNext

\* What the invariant says of an outcome that was reported.
LEMMA OutcomesHold ==
  ASSUME MutationInv, OutcomeInv
  PROVE  /\ SavedOutcomeStands
         /\ \A id \in Ids : HasOperation(id) /\ jobs[id].state = "succeeded" =>
              Saved(id, jobs[id].result)
<1>1. ASSUME NEW id \in Ids, HasOperation(id), jobs[id].state = "succeeded"
      PROVE  Saved(id, jobs[id].result)
  <2>1. Present(id)
    BY <1>1 DEF Present
  <2>2. jobs[id].payload \notin Captures
    BY <1>1, <2>1 DEF OutcomeInv, WriteOK
  <2> QED BY <1>1, <2>2 DEF OutcomeInv, WriteOK
<1>2. ASSUME NEW id \in Ids, jobs[id].state = "succeeded",
             operations[id].payload = jobs[id].payload
      PROVE  HasOperation(id)
  <2>1. jobs[id].payload # None
    BY <1>2, StoreAssumption DEF MutationInv, RuntimeInv, RowShape, Present
  <2>2. operations[id] \in Operations
    BY DEF MutationInv, JournalInv
  <2> QED BY <1>2, <2>1, <2>2 DEF Operations, HasOperation
<1> QED BY <1>1, <1>2 DEF SavedOutcomeStands, Saved

\* A worker that acknowledges a row was told that the job succeeded.
LEMMA ReportedRows ==
  ASSUME MutationInv, LedgerInv, [MutationNext]_mutationVars, NEW id \in Ids,
         operations[id].state = "applied", operations'[id].state = "reported"
  PROVE  UNCHANGED jobs /\ \E w \in Workers : At(w, "reported") /\ workers[w].id = id
<1>1. operations' # operations
  OBVIOUS
<1>2. CASE \E w \in Workers : Process(w) /\ ~Acknowledged(w)
  <2>1. PICK w \in Workers : RowTurns(w)
    BY <1>2, ProcessWorks
  <2> QED BY <2>1 DEF RowTurns
<1>3. CASE \E w \in Workers : Acknowledged(w)
  <2>1. PICK w \in Workers : Acknowledged(w)
    BY <1>3
  <2>2. id = workers[w].id
    BY <2>1 DEF Acknowledged, MarkOperationReported, Move, journalVars, MutationInv,
       JournalInv
  <2> QED BY <2>1, <2>2 DEF Acknowledged, storeVars
<1>4. CASE DaysPass
  <2>1. ASSUME NEW i \in Ids, OperationAges(i)
        PROVE  operations'[id].state = operations[id].state
    <3> DEFINE new == [operations[i] EXCEPT !.aged = TRUE]
    <3>1. operations \in [Ids -> Operations] /\ new.state = operations[i].state
      BY <2>1, OperationTypes DEF OperationAges, HasOperation, MutationInv, JournalInv
    <3>2. operations' = [operations EXCEPT ![i] = new]
      BY <2>1, <3>1 DEF OperationAges
    <3> HIDE DEF new
    <3> QED BY <3>1, <3>2
  <2> QED BY <1>4, <2>1 DEF DaysPass, journalVars
<1>5. CASE Sweep
  <2>1. NoOperation.state = "none"
    BY DEF NoOperation
  <2> QED BY <1>5, <2>1 DEF Sweep, PruneOperations, journalVars
<1> QED
  BY <1>1, <1>2, <1>3, <1>4, <1>5
     DEF MutationNext, Ask, WorkerStep, ThingsStep, WriteArrives, UserEdits, mutationVars,
         writeVars, journalVars

\* Whoever marks a row as reported leaves what it saved in the server's hands.
KeepsWhatIsKept ==
  \A id \in Ids :
    operations[id].state = "applied" /\ operations'[id].state = "reported" =>
      jobs[id].state = "succeeded" /\ jobs[id].result = operations[id].result

LEMMA OutcomeAcknowledges ==
  ASSUME MutationInv, OutcomeInv, [MutationNext]_mutationVars
  PROVE  KeepsWhatIsKept
<1> SUFFICES ASSUME NEW id \in Ids, operations[id].state = "applied",
                    operations'[id].state = "reported"
             PROVE  jobs[id].state = "succeeded" /\ jobs[id].result = operations[id].result
  BY DEF KeepsWhatIsKept
<1>1. LedgerInv
  BY DEF OutcomeInv
<1>2. jobs[id].state = "succeeded" /\ HasOperation(id)
  BY <1>1, ReportedRows DEF LedgerInv, HasOperation
<1> QED BY <1>2, OutcomesHold DEF Saved

THEOREM OutcomeAlways ==
  MutationSpec /\ [][ForgottenFirst]_mutationVars => [](MutationInv /\ OutcomeInv)
<1>1. MutationInit => MutationInv /\ OutcomeInv
  BY MutationInitInv, InitOutcome
<1>2. /\ MutationInv /\ OutcomeInv
      /\ [MutationNext]_mutationVars /\ [ForgottenFirst]_mutationVars
      => (MutationInv /\ OutcomeInv)'
  BY MutationStepInv, OutcomeStep
<1> QED BY <1>1, <1>2, PTL DEF MutationSpec

\* However many processes work on one journal: as long as a key comes back only after the
\* journal has let go of it, as docs/write-recovery.md:34 bounds the promise, what the
\* server calls succeeded (internal/queue/store.go, Complete) is what the journal has saved.
THEOREM OutcomesStand ==
  MutationSpec /\ [][ForgottenFirst]_mutationVars => []SavedOutcomeStands
<1>1. MutationInv /\ OutcomeInv => SavedOutcomeStands
  BY OutcomesHold
<1> QED BY <1>1, OutcomeAlways, PTL

\* Under the same bound MarkReported (internal/worker/mutations.go) marks a row for
\* deletion only when the server keeps the outcome that it has.
THEOREM AcknowledgedWhenKept ==
  MutationSpec /\ [][ForgottenFirst]_mutationVars => ReportedWhenKept
<1>1. /\ MutationInv /\ OutcomeInv /\ [MutationNext]_mutationVars
      => [\A id \in Ids :
            operations[id].state = "applied" /\ operations'[id].state = "reported" =>
              jobs[id].state = "succeeded" /\ jobs[id].result = operations[id].result]_mutationVars
  BY OutcomeAcknowledges DEF KeepsWhatIsKept
<1> QED BY <1>1, OutcomeAlways, PTL DEF MutationSpec, ReportedWhenKept

-----------------------------------------------------------------------------
(* Outcomes that were reported, when one process has the journal to itself *)

\* One process, the one that `things-index setup` installs.
OneProcess == \A v, w \in Workers : v = w

\* A report that the server would still accept names what is saved for its request.
CurrentReportOK(m) ==
  m.task # None /\ HoldsLease(m.id, m.token) /\ operations[m.id].payload = jobs[m.id].payload
    => Saved(m.id, m.task)

\* The row that a worker reported on is still about its request, or gone.
ReporterOK(w) ==
  workers[w].pc \in {"reporting", "reported"} /\ workers[w].task # None
  /\ HasOperation(workers[w].id)
    => Row(w).payload = workers[w].payload

SoleInv ==
  /\ LedgerInv
  /\ RequestsKnown
  /\ Leases(Processing)
  /\ \A m \in mail : CurrentReportOK(m)
  /\ \A w \in Workers : ReporterOK(w)
  /\ SavedOutcomeStands

LEMMA InitSole ==
  ASSUME MutationInit
  PROVE  SoleInv
<1>1. LedgerInv /\ mail = {} /\ \A w \in Workers : workers[w].pc = "idle"
  BY InitLedger DEF MutationInit, RuntimeInit, IdleWorker, Worker
<1>2. \A id \in Ids : jobs[id].state = "absent"
  BY DEF MutationInit, RuntimeInit, StoreInit, NoRow
<1> QED
  BY <1>1, <1>2 DEF SoleInv, RequestsKnown, Leases, Processing, Holding, ReporterOK,
     SavedOutcomeStands

\* A row about the request of a job that is there is there itself.
LEMMA RowIsThere ==
  ASSUME MutationInv, NEW id \in Ids, Present(id), operations[id].payload = jobs[id].payload
  PROVE  HasOperation(id)
<1>1. jobs[id].payload # None
  BY StoreAssumption DEF MutationInv, RuntimeInv, RowShape
<1>2. operations[id] \in Operations
  BY DEF MutationInv, JournalInv
<1> QED BY <1>1, <1>2 DEF Operations, HasOperation

LEMMA WorkSole ==
  ASSUME OneProcess, MutationInv, MutationInv', SoleInv, NEW w \in Workers,
         WorksOn(w), RowTurns(w), NamesOutcome(w)
  PROVE  SoleInv'
<1> DEFINE id == workers[w].id
<1>1. /\ RuntimeInv(Processing) /\ LeaseShape /\ LedgerInv /\ Holding(w)
      /\ workers[w].pc \notin {"reporting", "reported"}
      /\ workers'[w].pc \notin {"idle", "polling", "reported"}
  BY DEF MutationInv, RuntimeInv, SoleInv, WorksOn, Processing, Holding
<1>2. /\ id \in Ids /\ Present(id) /\ workers[w].payload = jobs[id].payload
      /\ HoldsLease(id, workers[w].token)
  BY <1>1, JobsAreThere DEF SoleInv, RequestsKnown, Leases, HasLease, WorksOn
<1>3. LedgerInv'
  BY <1>1, GoOnLedger DEF WorksOn, OthersSame
<1>4. UNCHANGED jobs
  BY DEF WorksOn, storeVars
<1>5. RequestsKnown' /\ Leases(Processing)'
  BY <1>1, <1>2, <1>4
     DEF OneProcess, SoleInv, RequestsKnown, Leases, HasLease, HoldsLease, WorksOn, Holding
\* The current lease is the worker's, and it has not reported yet.
<1>6. ASSUME NEW m \in mail', HoldsLease(m.id, m.token)', m.task # None,
             operations'[m.id].payload = jobs'[m.id].payload
      PROVE  Saved(m.id, m.task)'
  <2>1. CASE m \in mail
    <3>1. m.id \in Ids /\ HoldsLease(m.id, m.token)
      BY <1>1, <1>4, <1>6, <2>1, JobsAreThere DEF HoldsLease
    <3>2. m.id # id
      BY <1>1, <1>2, <2>1, <3>1 DEF LedgerInv, HoldsLease
    <3>3. operations'[m.id] = operations[m.id]
      BY <3>1, <3>2 DEF RowTurns
    <3> QED BY <1>4, <1>6, <2>1, <3>1, <3>3 DEF SoleInv, CurrentReportOK, Saved
  <2>2. CASE /\ m.id = id /\ workers'[w].pc = "reporting" /\ m.task = workers'[w].task
    <3>1. operations'[id] \in Operations /\ operations'[id].payload # None
      BY <1>2, <1>4, <1>6, <2>2, StoreAssumption DEF MutationInv, RuntimeInv, RowShape,
         JournalInv
    <3>2. operations'[id].state # "none"
      BY <3>1 DEF Operations
    <3> QED BY <1>6, <2>2, <3>2 DEF NamesOutcome, Is, Saved
  <2> QED BY <2>1, <2>2 DEF WorksOn
<1>7. \A v \in Workers : ReporterOK(v)'
  <2>1. ReporterOK(w)'
    BY <1>1 DEF ReporterOK, NamesOutcome, Is, WorksOn, HasOperation, Row
  <2> QED BY <2>1 DEF OneProcess
<1>8. SavedOutcomeStands'
  <2>1. jobs[id].state # "succeeded"
    BY <1>2 DEF HoldsLease
  <2> QED BY <1>4, <2>1 DEF SoleInv, SavedOutcomeStands, RowTurns
<1> QED BY <1>3, <1>5, <1>6, <1>7, <1>8 DEF SoleInv, CurrentReportOK

LEMMA RuntimeSole ==
  ASSUME OneProcess, MutationInv, SoleInv, UNCHANGED operations,
         (\E w \in Workers : WorkerLoop(w)) \/ Serve \/ Failure \/ Lapse
  PROVE  SoleInv'
<1>1. RuntimeInv(Processing) /\ LedgerInv
  BY DEF MutationInv, SoleInv
<1>2. LedgerInv'
  BY <1>1, RuntimeStepLedger DEF RuntimeStep
<1>3. RequestsKnown' /\ Leases(Processing)'
  <2>1. Processing \cap Between = {}
    BY DEF Processing, Between
  <2> QED BY <1>1, <2>1, RuntimeStepRequests, RuntimeStepLeases DEF SoleInv, OneProcess
<1>4. /\ \A id \in Ids : jobs'[id].payload = jobs[id].payload
      /\ mail' \subseteq mail
      /\ \A id \in Ids : jobs'[id].state = "succeeded" =>
           \/ jobs'[id] = jobs[id]
           \/ \E m \in mail : /\ m.id = id /\ HoldsLease(id, m.token)
                              /\ m.task \in Results /\ jobs'[id].result = m.task
  BY <1>1, RuntimeStepQuiet, RowsMoveKeeps
<1>5. ASSUME NEW m \in mail'
      PROVE  CurrentReportOK(m)'
  <2>1. m \in mail /\ m.id \in Ids
    BY <1>1, <1>4, JobsAreThere
  <2>2. HoldsLease(m.id, m.token)' => HoldsLease(m.id, m.token)
    BY <1>1, <2>1, RuntimeStepTokens
  <2> QED BY <1>4, <2>1, <2>2 DEF SoleInv, CurrentReportOK, Saved
<1>6. ASSUME NEW v \in Workers
      PROVE  ReporterOK(v)'
  <2>1. CASE workers'[v] = workers[v]
    BY <2>1 DEF SoleInv, ReporterOK, HasOperation, Row
  <2>2. CASE /\ At(v, "reporting") /\ workers'[v].id = workers[v].id
             /\ workers'[v].payload = workers[v].payload /\ workers'[v].task = workers[v].task
    BY <2>2 DEF SoleInv, ReporterOK, HasOperation, Row, At
  <2>3. CASE workers'[v].pc = "ensure" \/ ~Holding(v)'
    BY <2>3 DEF ReporterOK, Holding
  <2> QED BY <1>1, <2>1, <2>2, <2>3, RuntimeStepHands
<1>7. SavedOutcomeStands'
  <2> SUFFICES ASSUME NEW id \in Ids, jobs'[id].state = "succeeded",
                      operations[id].payload = jobs[id].payload
               PROVE  Saved(id, jobs'[id].result)
    BY <1>4 DEF SavedOutcomeStands, Saved
  <2>1. CASE jobs'[id] = jobs[id]
    BY <2>1 DEF SoleInv, SavedOutcomeStands, Saved
  <2>2. CASE \E m \in mail : /\ m.id = id /\ HoldsLease(id, m.token)
                             /\ m.task \in Results /\ jobs'[id].result = m.task
    BY <2>2, StoreAssumption DEF SoleInv, CurrentReportOK
  <2> QED BY <1>4, <2>1, <2>2
<1> QED BY <1>2, <1>3, <1>5, <1>6, <1>7 DEF SoleInv

\* What a step may do to the tables while nobody's job is touched: a job comes, changes its
\* age or goes when nobody has it; a row keeps its request and its outcome, or goes.
LEMMA TablesSole ==
  ASSUME MutationInv, MutationInv', SoleInv, LedgerInv', UNCHANGED <<workers, mail>>,
         \A i \in Ids : \/ jobs'[i] = jobs[i]
                        \/ NobodyHas(i) /\ jobs'[i].state # "succeeded"
                        \/ /\ NobodyHas(i) /\ jobs'[i].payload = jobs[i].payload
                           /\ jobs'[i].state = jobs[i].state
                           /\ jobs'[i].result = jobs[i].result,
         \A i \in Ids : \/ operations'[i].state = "none"
                        \/ /\ operations'[i].payload = operations[i].payload
                           /\ operations'[i].state = operations[i].state
                           /\ operations'[i].result = operations[i].result
  PROVE  SoleInv'
<1>1. RuntimeInv(Processing) /\ LedgerInv
  BY DEF MutationInv, SoleInv
<1>2. /\ \A w \in Workers : Holding(w) =>
           workers[w].id \in Ids /\ jobs'[workers[w].id] = jobs[workers[w].id]
      /\ \A m \in mail : m.id \in Ids /\ jobs'[m.id] = jobs[m.id]
  BY <1>1, JobsAreThere
<1>3. RequestsKnown' /\ Leases(Processing)'
  BY <1>2 DEF SoleInv, RequestsKnown, Leases, HasLease, HoldsLease, Holding, Processing
<1>4. \A i \in Ids : operations'[i].state = "none" => operations'[i].payload = None
  BY DEF MutationInv, JournalInv, Operations
<1>5. \A i \in Ids : Present(i)' => jobs'[i].payload # None
  BY StoreAssumption DEF MutationInv, RuntimeInv, RowShape
<1>6. \A m \in mail' : CurrentReportOK(m)'
  BY <1>2, <1>4, <1>5 DEF SoleInv, CurrentReportOK, HoldsLease, Present, Saved
<1>7. \A w \in Workers : ReporterOK(w)'
  BY <1>1, <1>2 DEF SoleInv, ReporterOK, HasOperation, Row, Holding
<1>8. SavedOutcomeStands'
  BY <1>4, <1>5 DEF SoleInv, SavedOutcomeStands, Present
<1> QED BY <1>3, <1>6, <1>7, <1>8 DEF SoleInv

LEMMA AskSole ==
  ASSUME MutationInv, MutationInv', SoleInv, NEW id \in Ids, NEW p \in Payloads, Ask(id, p)
  PROVE  SoleInv'
<1>1. /\ RuntimeInv(Processing) /\ LedgerInv /\ UNCHANGED <<workers, mail, operations>>
      /\ Insert(id, p) /\ jobs \in [Ids -> Rows] /\ operations \in [Ids -> Operations]
  BY DEF MutationInv, RuntimeInv, RuntimeTypeOK, StoreTypeOK, SoleInv, JournalInv, Ask,
     Enqueue, writeVars, journalVars
<1>2. LedgerInv'
  BY <1>1, TableLedger
<1>3. QueuedRow(p).state = "queued"
  BY DEF QueuedRow, NoRow
<1>4. /\ NobodyHas(id) /\ jobs'[id].state # "succeeded"
      /\ \A i \in Ids \ {id} : jobs'[i] = jobs[i]
  BY <1>1, <1>3 DEF Insert, LedgerInv
<1> QED BY <1>1, <1>2, <1>4, TablesSole

\* The acknowledgement of a row that is about the worker's request.
LEMMA AcknowledgedSole ==
  ASSUME OneProcess, MutationInv, MutationInv', SoleInv, NEW w \in Workers, Acknowledged(w)
  PROVE  SoleInv'
<1> DEFINE id == workers[w].id
           row == operations[id]
           new == [[row EXCEPT !.state = "reported"] EXCEPT !.aged = FALSE]
<1>1. /\ RuntimeInv(Processing) /\ LeaseShape /\ LedgerInv /\ id \in Ids
      /\ UNCHANGED <<jobs, mail>> /\ workers \in [Workers -> WorkerStates(Processing)]
      /\ operations \in [Ids -> Operations]
  BY DEF MutationInv, RuntimeInv, RuntimeTypeOK, SoleInv, JournalInv, Acknowledged, At,
     LeaseShape, storeVars
<1>2. \A v \in Workers : /\ workers'[v].pc = "idle"
                         /\ workers'[v].id = None /\ workers'[v].token = None
  BY <1>1 DEF Acknowledged, Become, IdleWorker, Worker, OneProcess
<1>3. LedgerInv'
  BY <1>1, <1>2, LetGoLedger DEF RowsMove
<1>4. \A i \in Ids : /\ operations'[i].payload = operations[i].payload
                     /\ operations'[i].result = operations[i].result
                     /\ operations[i].state \in Settled => operations'[i].state \in Settled
  <2>1. CASE Move(id, "applied", [row EXCEPT !.state = "reported"])
    <3>1. row \in Operations /\ row.state = "applied"
      BY <1>1, <2>1 DEF Move, OperationIn
    <3>2. new.state = "reported" /\ new.payload = row.payload /\ new.result = row.result
      BY <3>1, OperationTypes
    <3>3. operations' = [operations EXCEPT ![id] = new]
      BY <2>1 DEF Move
    <3> HIDE DEF new
    <3> QED BY <1>1, <3>1, <3>2, <3>3 DEF Settled
  <2>2. CASE UNCHANGED operations
    BY <2>2
  <2> QED BY <2>1, <2>2 DEF Acknowledged, MarkOperationReported, journalVars
<1>5. RequestsKnown' /\ Leases(Processing)' /\ \A v \in Workers : ReporterOK(v)'
  BY <1>2 DEF RequestsKnown, Leases, ReporterOK, Holding, Processing
<1>6. \A m \in mail' : CurrentReportOK(m)'
  <2>1. \A m \in mail : m.id \in Ids
    BY <1>1, JobsAreThere
  <2> QED BY <1>1, <1>4, <2>1 DEF SoleInv, CurrentReportOK, HoldsLease, Saved
<1>7. SavedOutcomeStands'
  BY <1>1, <1>4 DEF SoleInv, SavedOutcomeStands
<1> QED BY <1>3, <1>5, <1>6, <1>7 DEF SoleInv

LEMMA DaysPassSole ==
  ASSUME MutationInv, MutationInv', SoleInv, DaysPass
  PROVE  SoleInv'
<1>1. PICK id \in Ids :
        /\ Quiet(id)
        /\ \/ RetentionPasses(id) /\ UNCHANGED journalVars
           \/ EntryAges(id) /\ UNCHANGED <<storeVars, operations>>
           \/ OperationAges(id) /\ UNCHANGED <<storeVars, deliveries>>
  BY DEF DaysPass
<1>2. /\ RuntimeInv(Processing) /\ LedgerInv /\ UNCHANGED <<workers, mail>> /\ NobodyHas(id)
      /\ jobs \in [Ids -> Rows] /\ operations \in [Ids -> Operations]
  BY <1>1 DEF MutationInv, RuntimeInv, RuntimeTypeOK, StoreTypeOK, SoleInv, JournalInv,
     DaysPass, Quiet, NobodyHas
<1>3. CASE RetentionPasses(id) /\ UNCHANGED journalVars
  <2>1. LedgerInv' /\ UNCHANGED operations
    BY <1>2, <1>3, TableLedger DEF journalVars
  <2> DEFINE new == [jobs[id] EXCEPT !.aged = TRUE]
  <2>2. new.state = jobs[id].state /\ new.payload = jobs[id].payload
        /\ new.result = jobs[id].result
    BY <1>2 DEF Rows
  <2>3. jobs' = [jobs EXCEPT ![id] = new]
    BY <1>2, <1>3 DEF RetentionPasses
  <2> HIDE DEF new
  <2>4. \A i \in Ids : \/ jobs'[i] = jobs[i]
                       \/ /\ NobodyHas(i) /\ jobs'[i].payload = jobs[i].payload
                          /\ jobs'[i].state = jobs[i].state
                          /\ jobs'[i].result = jobs[i].result
    BY <1>2, <2>2, <2>3
  <2> QED BY <1>2, <2>1, <2>4, TablesSole
<1>4. CASE UNCHANGED <<storeVars, operations>>
  <2>1. LedgerInv' /\ UNCHANGED jobs
    BY <1>2, <1>4 DEF storeVars, LedgerInv, Holding, Present, Finished, NobodyHas, At
  <2> QED BY <1>2, <1>4, <2>1, TablesSole
<1>5. CASE OperationAges(id) /\ UNCHANGED <<storeVars, deliveries>>
  <2>1. LedgerInv' /\ UNCHANGED jobs
    BY <1>2, <1>5 DEF storeVars, LedgerInv, Holding, Present, Finished, NobodyHas, At
  <2> DEFINE new == [operations[id] EXCEPT !.aged = TRUE]
  <2>2. new.state = operations[id].state /\ new.payload = operations[id].payload
        /\ new.result = operations[id].result
    BY <1>2, <1>5, OperationTypes DEF OperationAges, HasOperation
  <2>3. operations' = [operations EXCEPT ![id] = new]
    BY <1>2, <1>5 DEF OperationAges
  <2> HIDE DEF new
  <2>4. \A i \in Ids : /\ operations'[i].payload = operations[i].payload
                       /\ operations'[i].state = operations[i].state
                       /\ operations'[i].result = operations[i].result
    BY <1>2, <2>2, <2>3
  <2> QED BY <1>2, <2>1, <2>4, TablesSole
<1> QED BY <1>1, <1>3, <1>4, <1>5

LEMMA SweepSole ==
  ASSUME MutationInv, MutationInv', SoleInv, Sweep
  PROVE  SoleInv'
<1>1. RuntimeInv(Processing) /\ LedgerInv /\ UNCHANGED <<workers, mail>>
  BY DEF MutationInv, SoleInv, Sweep
<1>2. CASE PruneTerminal /\ UNCHANGED <<journalVars, sent>>
  <2>1. LedgerInv' /\ UNCHANGED operations
    BY <1>1, <1>2, TableLedger DEF journalVars
  <2>2. NoRow.state = "absent"
    BY DEF NoRow
  <2>3. \A i \in Ids : jobs'[i] = jobs[i] \/ (NobodyHas(i) /\ jobs'[i].state # "succeeded")
    BY <1>1, <1>2, <2>2 DEF PruneTerminal, Prunable, LedgerInv
  <2> QED BY <1>1, <2>1, <2>3, TablesSole
<1>3. CASE UNCHANGED storeVars /\ (PruneOperations \/ UNCHANGED operations)
  <2>1. LedgerInv' /\ UNCHANGED jobs
    BY <1>1, <1>3 DEF storeVars, LedgerInv, Holding, Present, Finished, NobodyHas, At
  <2>2. NoOperation.state = "none"
    BY DEF NoOperation
  <2>3. \A i \in Ids : operations'[i].state = "none" \/ operations'[i] = operations[i]
    BY <1>3, <2>2 DEF PruneOperations
  <2> QED BY <1>1, <2>1, <2>3, TablesSole
<1> QED BY <1>2, <1>3 DEF Sweep

LEMMA SoleUnchanged ==
  ASSUME MutationInv, MutationInv', SoleInv, UNCHANGED <<jobs, workers, mail, operations>>
  PROVE  SoleInv'
<1>1. LedgerInv'
  BY DEF SoleInv, LedgerInv, Holding, Present, Finished, NobodyHas, At
<1> QED BY <1>1, TablesSole

LEMMA SoleStep ==
  ASSUME OneProcess, MutationInv, SoleInv, [MutationNext]_mutationVars
  PROVE  SoleInv'
<1>0. MutationInv'
  BY MutationStepInv
<1>1. CASE \E id \in Ids, p \in Payloads : Ask(id, p)
  BY <1>0, <1>1, AskSole
<1>2. CASE \E w \in Workers : WorkerStep(w)
  <2>1. PICK w \in Workers : WorkerStep(w)
    BY <1>2
  <2>2. CASE WorkerLoop(w) /\ UNCHANGED writeVars
    BY <2>2, RuntimeSole DEF writeVars, journalVars
  <2>3. CASE Process(w)
    BY <1>0, <2>3, ProcessWorks, WorkSole, AcknowledgedSole
  <2> QED BY <2>1, <2>2, <2>3 DEF WorkerStep
<1>3. CASE (Serve \/ Failure \/ Lapse) /\ UNCHANGED writeVars
  BY <1>3, RuntimeSole DEF writeVars, journalVars
<1>4. CASE ThingsStep
  BY <1>0, <1>4, SoleUnchanged
     DEF ThingsStep, WriteArrives, UserEdits, runtimeVars, journalVars
<1>5. CASE DaysPass
  BY <1>0, <1>5, DaysPassSole
<1>6. CASE Sweep
  BY <1>0, <1>6, SweepSole
<1>7. CASE UNCHANGED mutationVars
  BY <1>0, <1>7, SoleUnchanged DEF mutationVars, runtimeVars, writeVars, journalVars
<1> QED BY <1>1, <1>2, <1>3, <1>4, <1>5, <1>6, <1>7 DEF MutationNext

LEMMA SoleAcknowledges ==
  ASSUME MutationInv, SoleInv, [MutationNext]_mutationVars
  PROVE  KeepsWhatIsKept
<1> SUFFICES ASSUME NEW id \in Ids, operations[id].state = "applied",
                    operations'[id].state = "reported"
             PROVE  jobs[id].state = "succeeded" /\ jobs[id].result = operations[id].result
  BY DEF KeepsWhatIsKept
<1>1. LedgerInv
  BY DEF SoleInv
<1>2. PICK w \in Workers : At(w, "reported") /\ workers[w].id = id
  BY <1>1, ReportedRows
<1>3. jobs[id].state = "succeeded" /\ workers[w].task # None /\ Holding(w)
  BY <1>1, <1>2 DEF LedgerInv, At, Holding
<1>4. operations[id].payload = jobs[id].payload
  BY <1>2, <1>3 DEF SoleInv, ReporterOK, RequestsKnown, HasOperation, Row, At
<1> QED BY <1>3, <1>4 DEF SoleInv, SavedOutcomeStands

THEOREM SoleAlways ==
  ASSUME OneProcess
  PROVE  MutationSpec => [](MutationInv /\ SoleInv)
<1>1. MutationInit => MutationInv /\ SoleInv
  BY MutationInitInv, InitSole
<1>2. MutationInv /\ SoleInv /\ [MutationNext]_mutationVars => (MutationInv /\ SoleInv)'
  BY MutationStepInv, SoleStep
<1> QED BY <1>1, <1>2, PTL DEF MutationSpec

\* With one process a key may come back at any time, also while the journal still has the
\* write that it named before: what the server calls succeeded (internal/queue/store.go,
\* Complete) is what the journal has saved for that request.
THEOREM OneProcessOutcomesStand ==
  ASSUME OneProcess
  PROVE  MutationSpec => []SavedOutcomeStands
<1>1. MutationInv /\ SoleInv => SavedOutcomeStands
  BY DEF SoleInv
<1> QED BY <1>1, SoleAlways, PTL

\* Neither does a key that comes back make MarkReported (internal/worker/mutations.go) give
\* up a row whose outcome the server does not keep.
THEOREM OneProcessAcknowledgesWhenKept ==
  ASSUME OneProcess
  PROVE  MutationSpec => ReportedWhenKept
<1>1. /\ MutationInv /\ SoleInv /\ [MutationNext]_mutationVars
      => [\A id \in Ids :
            operations[id].state = "applied" /\ operations'[id].state = "reported" =>
              jobs[id].state = "succeeded" /\ jobs[id].result = operations[id].result]_mutationVars
  BY SoleAcknowledges DEF KeepsWhatIsKept
<1> QED BY <1>1, SoleAlways, PTL DEF MutationSpec, ReportedWhenKept

-----------------------------------------------------------------------------
(* The promise                                                             *)

\* The rest of the abstract state, as Promise is given it.
TheStage == [id \in Ids |-> Stage(operations[id].state)]
TheRequest == [id \in Ids |-> operations[id].payload]
TheAim == [id \in Ids |-> operations[id].plan]
TheSaved == [id \in Ids |-> operations[id].result]
TheDiffers == [id \in Ids |-> operations[id].differs]

RecordsSame == UNCHANGED <<TheStage, TheRequest, TheAim, TheSaved, TheDiffers, sent>>

\* Who makes the row of a job finds that it has not succeeded yet.
MayTake(w) ==
  At(w, "ensure") /\ ~Is(w, Captures) /\ ~HasOperation(workers[w].id) =>
    jobs[workers[w].id].state # "succeeded"

\* What a step needs to keep the promise, besides what always holds: the reports under way
\* fit what is saved, and no row is made for a job that has succeeded.
PromiseInv ==
  /\ MutationInv /\ LedgerInv /\ RequestsKnown
  /\ \A m \in mail : CurrentReportOK(m)
  /\ \A w \in Workers : MayTake(w)

LEMMA Stages ==
  /\ Stage("none") = "none" /\ Stage("received") = "taken" /\ Stage("prepared") = "aimed"
  /\ Stage("dispatched") = "begun" /\ Stage("applied") = "saved" /\ Stage("reported") = "kept"
BY DEF Stage

LEMMA PromiseInit == MutationInit => Promise!Init
<1> SUFFICES ASSUME MutationInit PROVE Promise!Init
  OBVIOUS
<1>1. /\ TheStatus = [id \in Ids |-> "absent"]
      /\ ThePayload = [id \in Ids |-> None] /\ TheResult = [id \in Ids |-> None]
  BY DEF MutationInit, RuntimeInit, StoreInit, NoRow, TheStatus, ThePayload, TheResult, StatusOf
<1>2. /\ TheStage = [id \in Ids |-> "none"] /\ TheRequest = [id \in Ids |-> None]
      /\ TheAim = [id \in Ids |-> None] /\ TheSaved = [id \in Ids |-> None]
      /\ TheDiffers = [id \in Ids |-> FALSE]
  BY Stages
     DEF MutationInit, OperationsInit, NoOperation, TheStage, TheRequest, TheAim, TheSaved,
         TheDiffers
<1>3. sent = [id \in Ids |-> Promise!Unsent] /\ changed = {} /\ met = {}
  BY DEF MutationInit, Promise!Unsent
<1> QED BY <1>1, <1>2, <1>3
        DEF Promise!Init, TheStatus, ThePayload, TheResult, TheStage, TheRequest, TheAim,
            TheSaved, TheDiffers

LEMMA PromiseStutters ==
  ASSUME NothingSeen, RecordsSame, UNCHANGED <<changed, met>>
  PROVE  UNCHANGED Promise!vars
BY DEF NothingSeen, RecordsSame, TheStatus, ThePayload, TheResult, TheStage, TheRequest,
       TheAim, TheSaved, TheDiffers, Promise!vars

LEMMA TablesUnseen ==
  ASSUME UNCHANGED <<storeVars, operations, sent>>
  PROVE  NothingSeen /\ RecordsSame
BY RowsUnseen DEF storeVars, RecordsSame, TheStage, TheRequest, TheAim, TheSaved, TheDiffers

\* A statement that rewrites one row.
LEMMA RowSeen ==
  ASSUME JournalInv, NEW id \in Ids, NEW new, operations' = [operations EXCEPT ![id] = new]
  PROVE  /\ TheStage' = [TheStage EXCEPT ![id] = Stage(new.state)]
         /\ TheRequest' = [TheRequest EXCEPT ![id] = new.payload]
         /\ TheAim' = [TheAim EXCEPT ![id] = new.plan]
         /\ TheSaved' = [TheSaved EXCEPT ![id] = new.result]
         /\ TheDiffers' = [TheDiffers EXCEPT ![id] = new.differs]
         /\ new.state = operations[id].state => UNCHANGED TheStage
         /\ new.payload = operations[id].payload => UNCHANGED TheRequest
         /\ new.plan = operations[id].plan => UNCHANGED TheAim
         /\ new.result = operations[id].result => UNCHANGED TheSaved
         /\ new.differs = operations[id].differs => UNCHANGED TheDiffers
BY DEF JournalInv, TheStage, TheRequest, TheAim, TheSaved, TheDiffers

LEMMA EnsureTakes ==
  ASSUME PromiseInv, NEW w \in Workers, EnsureWrite(w)
  PROVE  Promise!Next \/ UNCHANGED Promise!vars
<1> DEFINE id == workers[w].id
           p == workers[w].payload
<1>1. /\ workers[w].pc \in Processing /\ Holding(w)
      /\ UNCHANGED <<storeVars, sent, changed, met>>
  BY DEF EnsureWrite, At, Processing, Holding, thingsVars
<1>2. /\ id \in Ids /\ p \in Payloads /\ p = jobs[id].payload /\ Present(id) /\ JournalInv
  BY <1>1, AtWork, JobsAreThere DEF PromiseInv, RequestsKnown, MutationInv
<1>3. CASE UNCHANGED operations
  BY <1>1, <1>3, TablesUnseen, PromiseStutters
<1>5. ~HasOperation(id) => jobs[id].state \in {"queued", "leased", "failed"}
  <2>1. ~HasOperation(id) => jobs[id].state # "succeeded"
    BY DEF PromiseInv, MayTake, EnsureWrite
  <2>2. jobs[id] \in Rows
    BY <1>2 DEF PromiseInv, MutationInv, RuntimeInv, RuntimeTypeOK, StoreTypeOK
  <2>3. jobs[id].state \in States
    BY <2>2 DEF Rows
  <2> QED BY <1>2, <2>1, <2>3 DEF Present, States
<1>4. CASE ~HasOperation(id) /\ operations' = [operations EXCEPT ![id] = Received(p)]
  <2>1. PICK job \in Ids, payload \in Payloads : job = id /\ payload = p
    BY <1>2
  <2>2. /\ TheStatus[job] \in {"pending", "failed"} /\ ThePayload[job] = payload
        /\ TheStage[job] = "none"
        /\ TheAim[job] = None /\ TheSaved[job] = None /\ TheDiffers[job] = FALSE
    BY <1>2, <1>4, <1>5, <2>1, Stages
       DEF Present, TheStatus, ThePayload, TheStage, TheAim, TheSaved, TheDiffers, StatusOf,
           HasOperation,
           JournalInv, Operations, Planned, Settled
  <2>3. PICK new : new = Received(p)
    OBVIOUS
  <2>4. /\ TheStage' = [TheStage EXCEPT ![job] = "taken"]
        /\ TheRequest' = [TheRequest EXCEPT ![job] = payload]
        /\ TheAim' = [TheAim EXCEPT ![job] = None]
        /\ TheSaved' = [TheSaved EXCEPT ![job] = None]
        /\ TheDiffers' = [TheDiffers EXCEPT ![job] = FALSE]
    <3>1. /\ new.state = "received" /\ new.payload = payload
          /\ new.plan = None /\ new.result = None /\ new.differs = FALSE
      BY <2>1, <2>3 DEF Received, NoOperation
    <3>2. operations' = [operations EXCEPT ![job] = new] /\ JournalInv
      BY <1>2, <1>4, <2>1, <2>3
    <3>3. /\ TheStage' = [TheStage EXCEPT ![job] = Stage(new.state)]
          /\ TheRequest' = [TheRequest EXCEPT ![job] = new.payload]
          /\ TheAim' = [TheAim EXCEPT ![job] = new.plan]
          /\ TheSaved' = [TheSaved EXCEPT ![job] = new.result]
          /\ TheDiffers' = [TheDiffers EXCEPT ![job] = new.differs]
      BY <3>2, RowSeen
    <3> QED BY <3>1, <3>3, Stages
  <2>5. UNCHANGED <<TheAim, TheSaved, TheDiffers>>
    BY <2>2, <2>4 DEF TheAim, TheSaved, TheDiffers
  <2>6. NothingSeen
    BY <1>1, RowsUnseen DEF storeVars
  <2>7. Promise!Take(job, payload)
    BY <1>1, <2>2, <2>4, <2>5, <2>6
       DEF Promise!Take, Promise!queueVars, Promise!itemVars, NothingSeen,
           TheStatus, ThePayload, TheResult, TheStage, TheRequest, TheAim, TheSaved, TheDiffers
  <2> QED BY <2>7 DEF Promise!Next
<1> QED BY <1>3, <1>4 DEF EnsureWrite, EnsureOperation

LEMMA RecordAims ==
  ASSUME PromiseInv, NEW w \in Workers, Record(w)
  PROVE  Promise!Next \/ UNCHANGED Promise!vars
<1> DEFINE id == workers[w].id
           row == operations[id]
<1>1. /\ workers[w].pc \in Processing /\ UNCHANGED <<storeVars, sent, changed, met>>
  BY DEF Record, At, Processing, thingsVars
<1>2. /\ id \in Ids /\ About(w) \in Results \cup {None} /\ WorkOK(w) /\ JournalInv
      /\ row \in Operations
  BY <1>1, AtWork DEF PromiseInv, MutationInv, About
<1>3. CASE UNCHANGED operations
  BY <1>1, <1>3, TablesUnseen, PromiseStutters
<1>4. CASE PrepareOperation(id, About(w))
  <2>1. PICK job \in Ids, x \in Results \cup {None} : job = id /\ x = About(w)
    BY <1>2
  <2>0. PICK new : new = [[operations[job] EXCEPT !.state = "prepared", !.plan = x]
                            EXCEPT !.aged = FALSE]
    OBVIOUS
  <2>2. row.state = "received" /\ operations' = [operations EXCEPT ![job] = new]
    BY <1>4, <2>0, <2>1 DEF PrepareOperation, Move, OperationIn
  <2>3. /\ new.state = "prepared" /\ new.payload = row.payload /\ new.plan = x
        /\ new.result = row.result /\ new.differs = row.differs
    BY <1>2, <2>0, <2>1, <2>2 DEF Operations
  <2>4. /\ TheStage' = [TheStage EXCEPT ![job] = "aimed"]
        /\ TheAim' = [TheAim EXCEPT ![job] = x]
        /\ UNCHANGED <<TheRequest, TheSaved, TheDiffers>>
    <3>1. operations' = [operations EXCEPT ![job] = new] /\ JournalInv
      BY <1>2, <2>2
    <3>2. TheStage' = [TheStage EXCEPT ![job] = Stage(new.state)]
      BY <3>1, RowSeen
    <3>3. TheAim' = [TheAim EXCEPT ![job] = new.plan]
      BY <3>1, RowSeen
    <3>4. UNCHANGED TheRequest /\ UNCHANGED TheSaved /\ UNCHANGED TheDiffers
      BY <2>1, <2>3, <3>1, RowSeen
    <3> QED BY <2>3, <3>2, <3>3, <3>4, Stages
  <2>5. TheStage[job] = "taken" /\ (x # None <=> TheRequest[job] \in Updates)
    BY <1>2, <2>1, <2>2, Stages, StoreAssumption
       DEF Record, WorkOK, At, Is, Row, Writing, Processing, TheStage, TheRequest
  <2>6. NothingSeen
    BY <1>1, RowsUnseen DEF storeVars
  <2>7. Promise!Aim(job, x)
    BY <1>1, <2>4, <2>5, <2>6
       DEF Promise!Aim, Promise!queueVars, Promise!itemVars, NothingSeen,
           TheStatus, ThePayload, TheResult, TheStage, TheRequest, TheAim, TheSaved, TheDiffers
  <2> QED BY <2>7 DEF Promise!Next
<1> QED BY <1>3, <1>4 DEF Record

LEMMA DispatchBegins ==
  ASSUME PromiseInv, NEW w \in Workers, Dispatch(w)
  PROVE  Promise!Next \/ UNCHANGED Promise!vars
<1> DEFINE id == workers[w].id
           row == operations[id]
<1>1. /\ workers[w].pc \in Processing /\ UNCHANGED <<storeVars, sent, changed, met>>
  BY DEF Dispatch, At, Processing, thingsVars
<1>2. /\ id \in Ids /\ JournalInv /\ row \in Operations
  BY <1>1, AtWork DEF PromiseInv, MutationInv
<1>3. CASE UNCHANGED operations
  BY <1>1, <1>3, TablesUnseen, PromiseStutters
<1>4. CASE MarkOperationDispatched(id)
  <2>1. PICK job \in Ids : job = id
    BY <1>2
  <2>0. PICK new : new = [[operations[job] EXCEPT !.state = "dispatched"] EXCEPT !.aged = FALSE]
    OBVIOUS
  <2>2. row.state = "prepared" /\ operations' = [operations EXCEPT ![job] = new]
    BY <1>4, <2>0, <2>1 DEF MarkOperationDispatched, Move, OperationIn
  <2>3. /\ new.state = "dispatched" /\ new.payload = row.payload /\ new.plan = row.plan
        /\ new.result = row.result /\ new.differs = row.differs
    BY <1>2, <2>0, <2>1, <2>2 DEF Operations
  <2>4. /\ TheStage' = [TheStage EXCEPT ![job] = "begun"]
        /\ UNCHANGED <<TheRequest, TheAim, TheSaved, TheDiffers>>
    <3>1. operations' = [operations EXCEPT ![job] = new] /\ JournalInv
      BY <1>2, <2>2
    <3>2. TheStage' = [TheStage EXCEPT ![job] = Stage(new.state)]
      BY <3>1, RowSeen
    <3> QED BY <2>1, <2>3, <3>1, <3>2, RowSeen, Stages
  <2>5. TheStage[job] = "aimed"
    BY <2>1, <2>2, Stages DEF TheStage
  <2>6. NothingSeen
    BY <1>1, RowsUnseen DEF storeVars
  <2>7. Promise!Begin(job)
    BY <1>1, <2>4, <2>5, <2>6
       DEF Promise!Begin, Promise!queueVars, Promise!itemVars, NothingSeen,
           TheStatus, ThePayload, TheResult, TheStage, TheRequest, TheAim, TheSaved, TheDiffers
  <2> QED BY <2>7 DEF Promise!Next
<1> QED BY <1>3, <1>4 DEF Dispatch

LEMMA SendHandsOver ==
  ASSUME PromiseInv, NEW w \in Workers, Send(w)
  PROVE  Promise!Next \/ UNCHANGED Promise!vars
<1>1. /\ workers[w].pc \in Processing /\ workers[w].pc = "send"
      /\ UNCHANGED <<storeVars, operations, changed, met>>
  BY DEF Send, At, Processing, journalVars
<1>2. /\ workers[w].id \in Ids /\ WorkOK(w) /\ SentInv /\ UnsafeInv /\ About(w) \in Results
      /\ operations[workers[w].id] \in Operations
  BY <1>1, AtWork DEF PromiseInv, MutationInv, WorkOK
<1>3. PICK job \in Ids, x \in Results : job = workers[w].id /\ x = About(w)
  BY <1>2
<1>4. sent \in [Ids -> [Results -> Counts]]
  BY <1>2 DEF SentInv
<1>5. sent' = [sent EXCEPT ![job][x] = IF @ = 0 THEN 1 ELSE 2]
  <2>1. OneMore(sent[job][x]) = IF sent[job][x] = 0 THEN 1 ELSE 2
    BY <1>4 DEF OneMore, Counts
  <2>2. sent' = [sent EXCEPT ![job][x] = OneMore(@)]
    BY <1>3 DEF Send
  <2> HIDE DEF OneMore
  <2> QED BY <2>1, <2>2
<1>6. TheStage[job] \in {"begun", "saved", "kept"}
  BY <1>1, <1>2, <1>3, Stages DEF WorkOK, Row, Sendable, Settled, TheStage
<1>7. TheRequest[job] \in Updates => x = TheAim[job]
  BY <1>1, <1>2, <1>3 DEF WorkOK, Row, Is, Writing, Processing, TheRequest, TheAim
<1>8. TheRequest[job] \in Unsafe => sent[job] = Promise!Unsent
  <2>1. Poised(w, job)
    BY <1>1, <1>3 DEF Poised
  <2>2. TheRequest[job] \in Unsafe => \A y \in Results : sent[job][y] = 0
    BY <1>2, <2>1 DEF UnsafeInv, TheRequest
  <2> QED BY <1>4, <2>2 DEF Promise!Unsent
<1>9. ~TheDiffers[job]
  <2>1. operations[job].differs =>
          operations[job].state \in Settled /\ operations[job].payload \in Projects
    BY <1>2, <1>3 DEF Operations, PromiseInv, MutationInv, ItemsInv, SavedOutcomeIsReal
  <2>2. Projects \subseteq Unsafe /\ Poised(w, job)
    BY <1>1, <1>3, KindAssumption DEF Unsafe, Poised
  <2> QED BY <1>2, <1>3, <2>1, <2>2 DEF UnsafeInv, TheDiffers
<1>10. NothingSeen /\ UNCHANGED <<TheStage, TheRequest, TheAim, TheSaved, TheDiffers>>
  BY <1>1, RowsUnseen DEF storeVars, TheStage, TheRequest, TheAim, TheSaved, TheDiffers
<1>11. Promise!HandOver(job, x)
  BY <1>1, <1>5, <1>6, <1>7, <1>8, <1>9, <1>10
     DEF Promise!HandOver, Promise!queueVars, Promise!itemVars, NothingSeen,
         TheStatus, ThePayload, TheResult, TheStage, TheRequest, TheAim, TheSaved, TheDiffers
<1> QED BY <1>11 DEF Promise!Next

LEMMA FinishSaves ==
  ASSUME PromiseInv, NEW w \in Workers, Finish(w)
  PROVE  Promise!Next \/ UNCHANGED Promise!vars
<1> DEFINE id == workers[w].id
           row == operations[id]
<1>1. /\ workers[w].pc \in Processing /\ UNCHANGED <<storeVars, sent, changed, met>>
  BY DEF Finish, At, Processing, thingsVars
<1>2. /\ id \in Ids /\ About(w) \in Results /\ WorkOK(w) /\ JournalInv
      /\ row \in Operations
  BY <1>1, AtWork DEF Finish, PromiseInv, MutationInv, WorkOK, At
<1>3. CASE UNCHANGED operations
  BY <1>1, <1>3, TablesUnseen, PromiseStutters
<1>4. CASE CompleteOperation(id, About(w), At(w, "reuse"))
  <2>1. PICK job \in Ids, x \in Results, left \in BOOLEAN :
          job = id /\ x = About(w) /\ left = At(w, "reuse")
    BY <1>2 DEF At
  <2>0. PICK new : new = [[operations[job] EXCEPT !.state = "applied", !.result = x,
                                                       !.differs = left] EXCEPT !.aged = FALSE]
    OBVIOUS
  <2>2. row.state = "dispatched" /\ operations' = [operations EXCEPT ![job] = new]
    BY <1>4, <2>0, <2>1 DEF CompleteOperation, Move, OperationIn
  <2>3. /\ new.state = "applied" /\ new.payload = row.payload /\ new.plan = row.plan
        /\ new.result = x /\ new.differs = left
    BY <1>2, <2>0, <2>1, <2>2 DEF Operations
  <2>4. /\ TheStage' = [TheStage EXCEPT ![job] = "saved"]
        /\ TheSaved' = [TheSaved EXCEPT ![job] = x]
        /\ TheDiffers' = [TheDiffers EXCEPT ![job] = left]
        /\ UNCHANGED <<TheRequest, TheAim>>
    <3>1. operations' = [operations EXCEPT ![job] = new] /\ JournalInv
      BY <1>2, <2>2
    <3>2. TheStage' = [TheStage EXCEPT ![job] = Stage(new.state)]
      BY <3>1, RowSeen
    <3>3. TheSaved' = [TheSaved EXCEPT ![job] = new.result]
      BY <3>1, RowSeen
    <3>4. UNCHANGED TheRequest /\ UNCHANGED TheAim
      BY <2>1, <2>3, <3>1, RowSeen
    <3>5. TheDiffers' = [TheDiffers EXCEPT ![job] = new.differs]
      BY <3>1, RowSeen
    <3> QED BY <2>3, <3>2, <3>3, <3>4, <3>5, Stages
  <2>5. TheStage[job] = "begun" /\ TheDiffers[job] = FALSE
    BY <1>2, <2>1, <2>2, Stages DEF TheStage, TheDiffers, Operations, Settled
  <2>6. \/ x \in changed /\ UNCHANGED TheDiffers
        \/ /\ TheRequest[job] \in Projects /\ x \in met
           /\ sent[job] = Promise!Unsent
           /\ TheDiffers' = [TheDiffers EXCEPT ![job] = TRUE]
    <3>1. CASE At(w, "reuse")
      <4>1. /\ row.payload = workers[w].payload
            /\ workers[w].payload \in Projects /\ x \in met
        BY <1>2, <2>1, <3>1 DEF WorkOK, At, Is, Row, Writing, Processing
      <4>2. \A y \in Results : sent[job][y] = 0
        BY <1>2, <2>1, <3>1, <4>1, KindAssumption
           DEF PromiseInv, MutationInv, UnsafeInv, Unsafe, Poised, At
      <4>3. sent[job] = Promise!Unsent
        <5>1. sent[job] \in [Results -> Counts]
          BY DEF PromiseInv, MutationInv, SentInv
        <5> QED BY <4>2, <5>1 DEF Promise!Unsent
      <4> QED BY <2>1, <2>4, <3>1, <4>1, <4>3 DEF TheRequest
    <3>2. CASE ~At(w, "reuse")
      <4>1. At(w, "finish") /\ left = FALSE
        BY <2>1, <3>2 DEF Finish, At
      <4>2. x \in changed
        BY <1>2, <2>1, <4>1 DEF WorkOK
      <4> QED BY <2>4, <2>5, <4>1, <4>2 DEF TheDiffers
    <3> QED BY <3>1, <3>2
  <2>7. NothingSeen
    BY <1>1, RowsUnseen DEF storeVars
  <2>8. Promise!Save(job, x)
    BY <1>1, <2>4, <2>5, <2>6, <2>7
       DEF Promise!Save, Promise!queueVars, Promise!itemVars, NothingSeen, TheStatus, ThePayload,
           TheResult, TheStage, TheRequest, TheAim, TheSaved, TheDiffers
  <2> QED BY <2>8 DEF Promise!Next
<1> QED BY <1>3, <1>4 DEF Finish

LEMMA AcknowledgedKeepsRecord ==
  ASSUME PromiseInv, KeepsWhatIsKept, NEW w \in Workers, Acknowledged(w)
  PROVE  Promise!Next \/ UNCHANGED Promise!vars
<1> DEFINE id == workers[w].id
           row == operations[id]
<1>1. UNCHANGED <<storeVars, sent, changed, met>>
  BY DEF Acknowledged, thingsVars
<1>2. /\ id \in Ids /\ JournalInv /\ row \in Operations
  BY DEF PromiseInv, MutationInv, RuntimeInv, LeaseShape, JournalInv, Acknowledged, At
<1>3. CASE UNCHANGED operations
  BY <1>1, <1>3, TablesUnseen, PromiseStutters
<1>4. CASE Move(id, "applied", [row EXCEPT !.state = "reported"])
  <2>1. PICK job \in Ids : job = id
    BY <1>2
  <2>0. PICK new : new = [[operations[job] EXCEPT !.state = "reported"] EXCEPT !.aged = FALSE]
    OBVIOUS
  <2>2. row.state = "applied" /\ operations' = [operations EXCEPT ![job] = new]
    BY <1>4, <2>0, <2>1 DEF Move, OperationIn
  <2>3. /\ new.state = "reported" /\ new.payload = row.payload /\ new.plan = row.plan
        /\ new.result = row.result /\ new.differs = row.differs
    BY <1>2, <2>0, <2>1, <2>2 DEF Operations
  <2>4. /\ TheStage' = [TheStage EXCEPT ![job] = "kept"]
        /\ UNCHANGED <<TheRequest, TheAim, TheSaved, TheDiffers>>
    <3>1. operations' = [operations EXCEPT ![job] = new] /\ JournalInv
      BY <1>2, <2>2
    <3>2. TheStage' = [TheStage EXCEPT ![job] = Stage(new.state)]
      BY <3>1, RowSeen
    <3> QED BY <2>1, <2>3, <3>1, <3>2, RowSeen, Stages
  <2>5. operations'[job].state = "reported"
    BY <1>2, <2>1, <2>2, <2>3 DEF JournalInv
  <2>6. TheStage[job] = "saved" /\ TheStatus[job] = "succeeded" /\ TheResult[job] = TheSaved[job]
    BY <2>1, <2>2, <2>5, Stages
       DEF KeepsWhatIsKept, TheStage, TheStatus, TheResult, TheSaved, StatusOf
  <2>7. NothingSeen
    BY <1>1, RowsUnseen DEF storeVars
  <2>8. Promise!Keep(job)
    BY <1>1, <2>4, <2>6, <2>7
       DEF Promise!Keep, Promise!queueVars, Promise!itemVars, NothingSeen,
           TheStatus, ThePayload, TheResult, TheStage, TheRequest, TheAim, TheSaved, TheDiffers
  <2> QED BY <2>8 DEF Promise!Next
<1> QED BY <1>3, <1>4 DEF Acknowledged, MarkOperationReported, journalVars

LEMMA ProcessKeepsPromise ==
  ASSUME PromiseInv, KeepsWhatIsKept, NEW w \in Workers, Process(w)
  PROVE  Promise!Next \/ UNCHANGED Promise!vars
<1>1. CASE \/ EnsureCapture(w) \/ CaptureEnds(w) \/ Prepare(w) \/ Check(w) \/ Look(w)
           \/ PollWrite(w) \/ Stumble(w)
  <2>1. UNCHANGED <<storeVars, operations, sent, changed, met>>
    BY <1>1 DEF EnsureCapture, CaptureEnds, Prepare, Check, Look, PollWrite, Stumble, writeVars,
       journalVars, thingsVars
  <2> QED BY <2>1, TablesUnseen, PromiseStutters
<1> QED
  BY <1>1, EnsureTakes, RecordAims, DispatchBegins, SendHandsOver, FinishSaves,
     AcknowledgedKeepsRecord DEF Process

LEMMA ThingsChange ==
  ASSUME ThingsStep
  PROVE  Promise!Next \/ UNCHANGED Promise!vars
<1>1. PICK x \in Results : WriteArrives(x) \/ UserEdits(x)
  BY DEF ThingsStep
<1>2. /\ UNCHANGED <<storeVars, operations, sent>>
      /\ \/ UNCHANGED <<changed, met>>
         \/ changed' = changed \cup {x} /\ met' = met
         \/ met' = met \cup {x} /\ changed' = changed
  BY <1>1 DEF WriteArrives, UserEdits, runtimeVars, storeVars, journalVars
<1>3. NothingSeen /\ RecordsSame
  BY <1>2, TablesUnseen
<1>4. CASE UNCHANGED <<changed, met>>
  BY <1>3, <1>4, PromiseStutters
<1>5. CASE \/ changed' = changed \cup {x} /\ met' = met
           \/ met' = met \cup {x} /\ changed' = changed
  <2>1. Promise!Change(x) \/ Promise!Meet(x)
    BY <1>3, <1>5
       DEF Promise!Change, Promise!Meet, Promise!queueVars, Promise!recordVars, NothingSeen,
           RecordsSame, TheStatus, ThePayload, TheResult, TheStage, TheRequest, TheAim, TheSaved,
           TheDiffers
  <2> QED BY <2>1 DEF Promise!Next
<1> QED BY <1>2, <1>4, <1>5

LEMMA RuntimeKeepsPromise ==
  ASSUME PromiseInv, UNCHANGED writeVars,
         (\E w \in Workers : WorkerLoop(w)) \/ Serve \/ Failure \/ Lapse
  PROVE  Promise!Next \/ UNCHANGED Promise!vars
<1>1. RuntimeInv(Processing) /\ UNCHANGED <<changed, met>> /\ RecordsSame
  BY DEF PromiseInv, MutationInv, writeVars, journalVars, thingsVars, RecordsSame, TheStage,
     TheRequest, TheAim, TheSaved, TheDiffers
<1>2. CASE NothingSeen
  BY <1>1, <1>2, PromiseStutters
<1>3. CASE \E failing \in SUBSET Ids : JobsFail(failing)
  <2>1. PICK failing \in SUBSET Ids : JobsFail(failing)
    BY <1>3
  <2>2. Promise!GiveUp(failing)
    BY <1>1, <2>1
       DEF Promise!GiveUp, Promise!recordVars, Promise!itemVars, JobsFail, RecordsSame,
           TheStatus, ThePayload, TheResult, TheStage, TheRequest, TheAim, TheSaved, TheDiffers
  <2> QED BY <2>2 DEF Promise!Next
<1>4. CASE \E m \in mail : /\ m.id \in Ids /\ m.task \in Results
                           /\ HoldsLease(m.id, m.token) /\ JobSucceeds(m.id, m.task)
  <2>1. PICK m \in mail : /\ m.id \in Ids /\ m.task \in Results
                         /\ HoldsLease(m.id, m.token) /\ JobSucceeds(m.id, m.task)
    BY <1>4
  <2>2. TheRequest[m.id] = ThePayload[m.id] => TheSaved[m.id] = m.task
    BY <2>1, StoreAssumption
       DEF PromiseInv, CurrentReportOK, Saved, TheRequest, ThePayload, TheSaved
  <2>3. PICK id \in Ids, x \in Results : id = m.id /\ x = m.task
    BY <2>1
  <2>4. Promise!Succeed(id, x)
    BY <1>1, <2>1, <2>2, <2>3
       DEF Promise!Succeed, Promise!recordVars, Promise!itemVars, JobSucceeds, RecordsSame,
           TheStatus, ThePayload, TheResult, TheStage, TheRequest, TheAim, TheSaved, TheDiffers
  <2> QED BY <2>4 DEF Promise!Next
<1> QED BY <1>1, <1>2, <1>3, <1>4, RuntimeStepSeen

LEMMA DaysPassUnseen ==
  ASSUME PromiseInv, DaysPass
  PROVE  UNCHANGED Promise!vars
<1>1. /\ StoreTypeOK /\ JournalInv /\ UNCHANGED <<sent, changed, met>>
  BY DEF PromiseInv, MutationInv, RuntimeInv, RuntimeTypeOK, DaysPass, thingsVars
<1>2. PICK id \in Ids : \/ (RetentionPasses(id) /\ UNCHANGED operations)
                       \/ (UNCHANGED storeVars /\ UNCHANGED operations)
                       \/ (UNCHANGED storeVars /\ OperationAges(id))
  BY DEF DaysPass, journalVars
<1>3. NothingSeen
  BY <1>1, <1>2, AgeingUnseen, RowsUnseen DEF storeVars
<1>4. UNCHANGED operations => RecordsSame
  BY <1>1 DEF RecordsSame, TheStage, TheRequest, TheAim, TheSaved, TheDiffers
<1>5. CASE OperationAges(id)
  <2>0. PICK new : new = [operations[id] EXCEPT !.aged = TRUE]
    OBVIOUS
  <2>1. operations[id] \in Operations /\ operations' = [operations EXCEPT ![id] = new]
    BY <1>1, <1>5, <2>0 DEF OperationAges, JournalInv
  <2>2. /\ new.state = operations[id].state /\ new.payload = operations[id].payload
        /\ new.plan = operations[id].plan /\ new.result = operations[id].result
        /\ new.differs = operations[id].differs
    BY <2>0, <2>1 DEF Operations
  <2>3. RecordsSame
    BY <1>1, <2>1, <2>2, RowSeen DEF RecordsSame
  <2> QED BY <1>1, <1>3, <2>3, PromiseStutters
<1> QED BY <1>1, <1>2, <1>3, <1>4, <1>5, PromiseStutters

LEMMA SweepKeepsPromise ==
  ASSUME PromiseInv, Sweep
  PROVE  Promise!Next \/ UNCHANGED Promise!vars
<1>1. StoreTypeOK /\ JournalInv /\ UNCHANGED <<changed, met>>
  BY DEF PromiseInv, MutationInv, RuntimeInv, RuntimeTypeOK, Sweep, thingsVars
<1>2. CASE PruneTerminal /\ UNCHANGED <<journalVars, sent>>
  <2>1. RecordsSame
    BY <1>2 DEF RecordsSame, journalVars, TheStage, TheRequest, TheAim, TheSaved, TheDiffers
  <2>2. PICK gone \in SUBSET Ids : JobsForgotten(gone)
    BY <1>1, <1>2, PruneSeen
  <2>3. Promise!Forget(gone)
    BY <1>1, <2>1, <2>2
       DEF Promise!Forget, Promise!recordVars, Promise!itemVars, JobsForgotten, RecordsSame,
           TheStatus, ThePayload, TheResult, TheStage, TheRequest, TheAim, TheSaved, TheDiffers
  <2> QED BY <2>3 DEF Promise!Next
<1>3. CASE UNCHANGED <<storeVars, operations, sent>>
  BY <1>1, <1>3, TablesUnseen, PromiseStutters
<1>4. CASE /\ PruneOperations /\ UNCHANGED storeVars
           /\ sent' = [id \in Ids |-> IF AcknowledgedAndOld(id) THEN [x \in Results |-> 0]
                                                                ELSE sent[id]]
  <2> DEFINE gone == {id \in Ids : AcknowledgedAndOld(id)}
  <2>1. /\ gone \in SUBSET Ids /\ \A id \in gone : TheStage[id] = "kept"
        /\ operations' = [id \in Ids |-> IF id \in gone THEN NoOperation ELSE operations[id]]
        /\ sent' = [id \in Ids |-> IF id \in gone THEN Promise!Unsent ELSE sent[id]]
    BY <1>4, Stages DEF AcknowledgedAndOld, OperationIn, PruneOperations, TheStage, Promise!Unsent
  <2> HIDE DEF gone
  <2>2. PICK some \in SUBSET Ids : some = gone
    BY <2>1
  <2>3. /\ NoOperation.state = "none" /\ NoOperation.payload = None
        /\ NoOperation.plan = None /\ NoOperation.result = None
        /\ NoOperation.differs = FALSE
    BY DEF NoOperation
  <2>4. /\ TheStage' = [id \in Ids |-> IF id \in some THEN "none" ELSE TheStage[id]]
        /\ TheRequest' = [id \in Ids |-> IF id \in some THEN None ELSE TheRequest[id]]
        /\ TheAim' = [id \in Ids |-> IF id \in some THEN None ELSE TheAim[id]]
        /\ TheSaved' = [id \in Ids |-> IF id \in some THEN None ELSE TheSaved[id]]
        /\ TheDiffers' = [id \in Ids |-> IF id \in some THEN FALSE ELSE TheDiffers[id]]
    BY <2>1, <2>2, <2>3, Stages DEF TheStage, TheRequest, TheAim, TheSaved, TheDiffers
  <2>5. NothingSeen
    BY <1>4, RowsUnseen DEF storeVars
  <2>6. Promise!LetGo(some)
    BY <1>1, <2>1, <2>2, <2>4, <2>5
       DEF Promise!LetGo, Promise!queueVars, Promise!itemVars, NothingSeen,
           TheStatus, ThePayload, TheResult, TheStage, TheRequest, TheAim, TheSaved, TheDiffers
  <2> QED BY <2>6 DEF Promise!Next
<1> QED BY <1>2, <1>3, <1>4 DEF Sweep

LEMMA AskSubmits ==
  ASSUME PromiseInv, NEW id \in Ids, NEW p \in Payloads, Ask(id, p)
  PROVE  Promise!Next
<1>1. /\ StoreTypeOK /\ Insert(id, p) /\ UNCHANGED <<changed, met>> /\ RecordsSame
  BY DEF PromiseInv, MutationInv, RuntimeInv, RuntimeTypeOK, Ask, Enqueue, writeVars,
     journalVars, thingsVars, RecordsSame, TheStage, TheRequest, TheAim, TheSaved, TheDiffers
<1>2. JobSubmitted(id, p)
  BY <1>1, InsertSeen
<1>3. Promise!Submit(id, p)
  BY <1>1, <1>2
     DEF Promise!Submit, Promise!recordVars, Promise!itemVars, JobSubmitted, RecordsSame,
         TheStatus, ThePayload, TheResult, TheStage, TheRequest, TheAim, TheSaved, TheDiffers
<1> QED BY <1>3 DEF Promise!Next

LEMMA NextKeepsPromise ==
  ASSUME PromiseInv, KeepsWhatIsKept, [MutationNext]_mutationVars
  PROVE  [Promise!Next]_(Promise!vars)
<1>1. CASE \E id \in Ids, p \in Payloads : Ask(id, p)
  BY <1>1, AskSubmits
<1>2. CASE \E w \in Workers : WorkerStep(w)
  BY <1>2, ProcessKeepsPromise, RuntimeKeepsPromise DEF WorkerStep
<1>3. CASE (Serve \/ Failure \/ Lapse) /\ UNCHANGED writeVars
  BY <1>3, RuntimeKeepsPromise
<1>4. CASE ThingsStep
  BY <1>4, ThingsChange
<1>5. CASE DaysPass \/ Sweep
  BY <1>5, DaysPassUnseen, SweepKeepsPromise
<1>6. CASE UNCHANGED mutationVars
  <2>1. UNCHANGED <<storeVars, operations, sent, changed, met>>
    BY <1>6 DEF mutationVars, runtimeVars, storeVars, writeVars, journalVars, thingsVars
  <2> QED BY <2>1, TablesUnseen, PromiseStutters
<1> QED BY <1>1, <1>2, <1>3, <1>4, <1>5, <1>6 DEF MutationNext

\* A report that the server would still accept fits its row: that of a capture has none of
\* its own, that of a write names what the row has saved.
LEMMA ReportsFit ==
  ASSUME MutationInv, OutcomeInv
  PROVE  PromiseInv
<1>1. /\ \A m \in mail : m.id \in Ids /\ Present(m.id)
      /\ \A w \in Workers : At(w, "ensure") =>
           /\ workers[w].id \in Ids /\ ~NobodyHas(workers[w].id)
           /\ workers[w].payload = jobs[workers[w].id].payload
  BY JobsAreThere DEF MutationInv, OutcomeInv, RequestsKnown, Holding, At
<1>2. ASSUME NEW m \in mail, m.task # None, operations[m.id].payload = jobs[m.id].payload
      PROVE  Saved(m.id, m.task)
  <2>1. HasOperation(m.id)
    BY <1>1, <1>2, RowIsThere
  <2>2. jobs[m.id].payload \notin Captures
    BY <1>1, <1>2, <2>1 DEF OutcomeInv, WriteOK
  <2> QED BY <1>2, <2>2 DEF OutcomeInv, ReportOK
<1>3. \A w \in Workers : MayTake(w)
  BY <1>1 DEF OutcomeInv, WriteOK, MayTake, Saved, HasOperation, Settled, Is
<1> QED BY <1>2, <1>3 DEF OutcomeInv, PromiseInv, CurrentReportOK

\* Queue, processes, journal and Things implement WritePromise, for every number of each, as
\* long as a key comes back only after the journal has let go of it: whatever is delivered
\* again, lost, answered late or forgotten on the way, a write is taken down, aimed, begun,
\* handed over, saved, reported and let go in that order (internal/worker/mutations.go,
\* processMutation).
THEOREM WritesKeepPromise ==
  MutationSpec /\ [][ForgottenFirst]_mutationVars => KeepsWritePromise
<1>1. MutationInv /\ OutcomeInv /\ [MutationNext]_mutationVars => [Promise!Next]_(Promise!vars)
  BY ReportsFit, OutcomeAcknowledges, NextKeepsPromise
<1> QED BY <1>1, OutcomeAlways, PromiseInit, PTL DEF MutationSpec, KeepsWritePromise, Promise!Spec

\* One process, the installed one, implements it whenever a key comes back.
THEOREM OneProcessKeepsPromise ==
  ASSUME OneProcess
  PROVE  MutationSpec => KeepsWritePromise
<1>1. MutationInv /\ SoleInv /\ [MutationNext]_mutationVars => [Promise!Next]_(Promise!vars)
  <2>1. MutationInv /\ SoleInv => \A w \in Workers : MayTake(w)
    BY DEF SoleInv, Leases, HasLease, HoldsLease, MayTake, At, Processing
  <2> QED BY <2>1, SoleAcknowledges, NextKeepsPromise DEF SoleInv, PromiseInv
<1> QED BY <1>1, SoleAlways, PromiseInit, PTL DEF MutationSpec, KeepsWritePromise, Promise!Spec

=============================================================================
