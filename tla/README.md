# ThingsIndex: a verification development

TLA+ specifications of ThingsIndex' delivery path and of the installation of its
worker, the TLC instances that check them and TLAPS proofs about them. Paths such as
`internal/queue/store.go` are relative to the repository's root (`src/`).

ThingsIndex lets a remote MCP client create and change tasks in Things 3 on a Mac
that is often asleep. A server keeps a durable queue; a worker on the Mac leases
jobs from it over HTTP, drives Things through URLs and AppleScript, and keeps a
durable journal so that a job that is delivered more than once is carried out at
most once. Every hop may crash, time out or repeat itself. That is what these
modules are about.

## 1. Inventory

| Part | State it keeps | Operations | Interacts with |
|---|---|---|---|
| Queue store (`internal/queue`) | table `jobs` in SQLite, one connection | Enqueue, ExpireLeases, Lease, Complete, Fail, Get, PruneTerminal | called by every server handler concurrently |
| MCP tool handlers (`internal/server/handler.go`) | one goroutine per call | Enqueue, waitForResult, things_capture_status | poll the row until it is finished or 20 s are over |
| Worker API (same file) | one goroutine per request | lease (long poll), complete, fail | HTTP requests of the worker |
| Server process (`internal/serverapp`, `internal/retention`) | none of its own | start, sweep, shutdown | prunes finished rows at start and every few hours |
| Worker runtime (`internal/workerapp`, `internal/worker/client.go`) | the lease it works on | lease, process, complete or fail, mark reported | server over HTTP; 45 s for a job, 10 s for its report, 90 s for a lease |
| Processor (`internal/worker`) | none of its own | Process for captures, mutations and queries | journal and Things client |
| Journal (`internal/journal`) | tables `deliveries` and `operations` in SQLite, shared by processes | guarded transitions, PruneReported | processor, stdio server |
| Things client (`internal/helper`) | none; reads Things' database | Capture, FindCapture, FinaliseCapture, task updates, projects, areas, tags, headings, archive, queries | Things, which acts asynchronously and has a user |
| Standalone binary (`cmd/things-index/main.go`) | queue and journal in one process | embedded loop instead of the worker API | queue store directly |
| Local stdio writer (`cmd/things-index/local_writes.go`) | a gate of one | write | processor directly, no queue |
| Setup, installation, update (`cmd/things-index`, `internal/workersetup`) | files and a launch agent | install, update, verify, test capture | launchd, codesign, GitHub |
| Dashboard, middleware, schemas, request model, project matching, signing, Shortcut, scripts | none that changes | | |

What is hard here: handlers interleave at every SQL statement; a worker's report
may be late, repeated or superseded; leases lapse while their holder still works;
either process may die between any two steps; Things is handed a URL and carries
it out later or never; retention deletes rows of one store that the other still
remembers. What makes each part correct:

- *queue and handlers*: an outcome is given once and stays; an acknowledged
  completion is kept; a key never joins different payloads; callers hear only the
  truth; deliveries are limited; every job is settled.
- *worker, processor, journal, Things client*: one task per job whatever happens;
  success means a real, finalised task; the journal forgets only what the server
  has kept.
- *mutations and updates*: a write that may not be repeated is sent at most once; a
  replayed update never overwrites a conflicting edit.
- *installation and setup*: a worker that could not be verified is not left running;
  no half-copied executable is put in place, and one is always left.

`PROJECT.json` lists every component with what is and is not modelled, and the
hazards, each at its line.

## 2. Modules

| Module | Models | Uses |
|---|---|---|
| `QueueStore` | the statements of `internal/queue/store.go` as operators on `jobs` | |
| `QueueServer` | the handlers around them, callers and arbitrary workers, sweep and restart | extends `QueueStore` |
| `JobLifecycle` | abstract: what the queue promises its callers | implemented by `QueueServer` |
| `StandaloneLoop` | the loop of the all-in-one binary | extends `QueueServer` |
| `WorkerRuntime` | the worker's side of the queue, whatever the job is about: `internal/workerapp` and `internal/worker/client.go`, the reports on their way, crashes, late answers, lapsing leases | extends `QueueStore` |
| `Journal` | the statements on `deliveries` of `internal/journal/store.go` as operators | |
| `OperationJournal` | the statements on `operations` of `internal/journal/operations.go`, and the triggers between the two tables | extends `Journal` |
| `CaptureDelivery` | `Processor.Process` for captures, the Things client's Capture, FindCapture and FinaliseCapture, and Things | extends `WorkerRuntime`, instantiates `Journal` |
| `CapturePromise` | abstract: what a capture promises the one who asked for it | implemented by `CaptureDelivery` |
| `MutationDelivery` | `processMutation` for native writes and updates, and captures as far as they compete for an identifier | extends `WorkerRuntime`, instantiates `OperationJournal` |
| `WritePromise` | abstract: what any other write promises | implemented by `MutationDelivery` |
| `TaskUpdate` | what one update is, field by field: plan, comparison, write, verification (`internal/helper/task_update.go`) | instantiates `OperationJournal` |
| `LaunchAgent` | launchd, `launchctl`, and the start of the worker with its log and its consent marker | |
| `WorkerSetup` | `workerSetupLifecycle` and its use by the wizard (`setup_permissions.go`, `main.go`) | extends `LaunchAgent` |
| `Installation` | `install-worker` around the wizard, and self-updates beside it (`worker_install.go`, `update.go`) | extends `WorkerSetup` |
| `QueueStoreProofs`, `QueueServerProofs`, `LifecycleProofs` | theorems about `QueueServer` | extend each other and `QueueServer` |
| `WorkerRuntimeProofs`, `CaptureDeliveryProofs`, `MutationDeliveryProofs` | theorems about the two compositions; the first holds what they share | extend `QueueStoreProofs` and the module they are about |
| `TaskUpdateProofs` | theorems about `TaskUpdate` | extends `TaskUpdate` |
| `InstallationProofs` | theorems about `Installation` | extends `Installation` |
| `MCQueueServer`, `MCStandaloneLoop`, `MCCaptureDelivery`, `MCMutationDelivery`, `MCTaskUpdate`, `MCInstallation` | symmetry and instances for TLC | |

### State and code

**Rows.** `jobs[id]` is a row; `"absent"` is no row. Time enters the statements only
through comparisons, so a row has `lapsed` (`lease_until <= now`) and `aged` (older
than the retention cutoff) instead of times, and `created` is a slow clock that only
orders rows (rows of the same millisecond tie, and SQLite may return either).
`attempts` stops one above the maximum since the code only compares it with the
maximum. Warnings and error texts decide nothing and are left out; a result is the
Things identifier, which is all that `Complete` compares. Lease tokens are random:
they are never drawn twice while anything still carries them.

**`QueueServer`.** A step is one SQL statement with the local code up to the next
one: `Enqueue` is `Submit`, `InsertJob` and `RereadJob`; `waitForResult` is
`PollJob` and `StopWaiting`; `Complete` is `ReportComplete` and `RecheckComplete`;
the fail handler is `ReportFail` (its look-up) and `FailJob`; the lease handler is
`StartPoll` (its one `ExpireLeases`), `GrantLease` and `EndPoll`. The look-up of the fail
handler may fail, and then nothing limits the retry (handler.go:816): `judged` remembers
of a report whether it was answered. A call without a
key draws a random identifier, named after the call. Workers are not described: any
token that was ever granted may come back in any report, any number of times. A
request with a token that was never granted matches no row and changes nothing.

**`WorkerRuntime`.** Here the workers are described and the handlers are one step
each, the interleavings within a handler being `QueueServer`'s. A worker leases,
processes and reports; a report is a message in `mail` whose sender may give up on it
before or after it is served. An answer to a lease request that gets lost has the
effect of a `Crash` right after `Grant`. `Failure` is a crash, a lost report or a late
answer and is counted, as is a failing look-up in the fail handler (`ServeFail`); `Lapse`
is a lease that lapses, at any time, and is not.

**`CaptureDelivery`.** A step is one journal statement, one reading of Things or one
command given to Things. `things[x]` is a task: its add URL is "flying" until Things
carries it out, then it has the pending marker, the requested title, or what the user
made of it. `Ensure` merges the journal's INSERT and the SELECT that follows, since an
entry disappears only through retention. A deadline of the job, a failing statement and
a failing command are `Stumble`: all of them are retryable errors (`IsRetryable`).
`made[id]` remembers which tasks an add URL was sent for, and starts anew when a row is
queued: a key that is used again after the server forgot it is a new job
(docs/write-recovery.md: "Server idempotency protection is bounded by retained queue and
journal history").

**`MutationDelivery`.** An item of Things stands `before` the change, `after` it, `alike`
or `elsewhere`; writes are handed over (`sent`) and carried out later or never (`flying`).
`alike` is an active project of the requested title and area with other fields.
`CreateProject` reuses it (project_create.go:83): nothing is sent, the result carries a
warning that the requested fields "differ and were not applied", and it is saved and
reported as a success. In the model that is the place `reuse` and the flag `differs` of
the saved result; `met` remembers which items were such a project. What is looked at and
found right is left alone, except headings, which are renamed and archived without a look
at how they are.
The three kinds of write differ in what `processMutation` does with a dispatched row: a
native write stops, an update is checked, and goes on only if its plan is replay-safe.
The title of an update may name another item at each attempt (`Prepare`), so what keeps
the target is the saved plan alone. A local call of the stdio server is a worker whose
report is never acknowledged.

**`CapturePromise`, `WritePromise`.** What the two compositions look like from outside,
without leases, processes, reports and retries. A job is absent, pending, succeeded or
failed. In `CapturePromise` a remembered capture asks for one task, the task gets a title
of its own, and a success names a task of the job; in `WritePromise` the worker's record
of a write goes from taken to aimed, begun, saved and kept, each step under the condition
that makes the next one safe. What is saved is an item that was changed, or, for the
creation of a project, one that was met with other fields; such a result says so, and
nothing is handed over for its record, before or after. `KeepsCapturePromise` and `KeepsWritePromise` map the rows,
the journal and Things onto their variables; `Promise` in each module is that mapping.

**`TaskUpdate`** opens up the item: fields with their values, and a schedule (start,
date, evening bucket, whether it shows in Today). `PrepareTaskUpdate` reads in two
halves, SQLite first (`ReadRows`) and AppleScript after it (`Prepare`, `Check`, `Apply`,
`Verify`), so that edits and writes fall between. A write with a token arrives as
a whole (`UrlArrives`), one without runs statement by statement and may stop anywhere
(`StatementRuns`, `WriteIsLost`). The day can change (`DayPasses`). How Things moves
a to-do when it is scheduled is external and taken from what `scheduleUpdateMatches`
expects. The user edits what the update looks at: the fields it asks for, and the deadline
where Today, this evening or anytime makes the comparison depend on it (`Watched`).

**`LaunchAgent`, `WorkerSetup`, `Installation`.** A process is a PID with its state, how
far its start has come and the file it runs. launchd restarts what dies while the agent
is loaded; `bootout` unloads at once and lets the process end when it ends. The clean-ups
that the code defers are run from the inside out: `caller` says on whose behalf `stop`
runs, `SetupFails` and `InstallFails` say which one is next. The two seconds for which
`waitReady` wants its evidence to stand are "the process has logged its start by then"
(`TwoSecondsOld`). That a `launchctl` command fails although it was carried out is the
same as the step after it failing. launchd handles requests in order; PIDs are not reused,
so the check against the previous PID never decides anything and is left out.

## 3. Runs

| Run | Instance | Shows |
|---|---|---|
| `reports` | 1 key, 2 calls, 2 tokens, 2 reports in flight, 2 results | `TypeOK`, `AckedCompletionSticks`, `RequeuedBelowMax`, `OutcomesAreFinal` |
| `callers` | 2 calls that may share a key, 2 payloads | `KeysNeverMixPayloads`, `AnswersStayTrue`, `RefinesLifecycle` |
| `captures` | 2 workers on one journal, a key asked for twice with 2 payloads, 1 fault | `DeliveryTypeOK`, `OneTaskPerJob`, `SuccessIsReal`, `ReportedMeansKept`, `KeepsCapturePromise` |
| `settles` | 1 worker, 2 faults, fairness | `JobsSettle` |
| `mutations` | 2 workers on one journal, 1 job that creates a project, updates or appends, 2 items | `MutationTypeOK`, `UnsafeSentOnce`, `OneTarget`, `SavedOutcomeIsReal`, `KeepsWritePromise` |
| `write_keys` | 1 worker, a key asked for twice with any of 4 kinds of request, 1 fault | `UnsafeSentOnce`, `SavedOutcomeStands`, `OneKindPerIdentifier`, `ReportedWhenKept` |
| `updates` | 2 sessions, 2 calls, 1 edit, 2 days, 8 requests on 3 to-dos | `UpdateTypeOK`, `NothingSeenIsOverwritten`, `AppendedOnce`, `DoneIsReal`, `NoSelfConflict`, `OneWriteSuffices` |
| `installation` | 3 processes, 1 self-update | `InstallTypeOK`, `FailureLeavesStopped`, `OnlyWholeBinariesRun`, `ABinaryIsKept`, `VerifiedIsReady` |
| `delivery_limit` | 1 job, 1 lease request | `AttemptsWithinMax` is **violated** |
| `standalone_retries` | 1 job, the embedded loop | `RetriesWithinMax` is **violated** |
| `two_updates` | 2 self-updates | `ABinaryIsKept` is **violated** |
| `own_deadline` | 1 call, nobody else | `OwnDeadlineIsNoConflict` is **violated** |

Every property has a mutant: a change of the model such as a bug in the code would make,
under which TLC finds the property violated in the same run. The mutants are kept beside
what they change, under a comment that says so.

### Bounds, and why they are enough

- `MaxAttempts = 2` (the binaries use five) is the least that tells a first, a last and
  an excessive delivery apart; two to four tokens give every one of them a lease. In
  `mutations` there are two, for the two workers that each have the job once.
- One key: rows influence each other only through the order in which they are leased.
  Two calls are needed for a race on it, and two payloads for a conflict.
- Two results tell a repeated completion from a contradicting one (`reports`); in
  `callers`, where no completion contradicts another, there is one. Two reports in flight
  put one between the two statements of the other.
- `MaxClock` is 0 where the order of rows plays no part, 1 in `callers`, where two rows
  can be told apart by age.
- `MaxAsks = 2` lets a key be used again after retention, on either side.
- `MaxFaults` counts crashes, lost reports, reports that are answered too late and failing
  look-ups of the fail handler; two, in `settles`, allow a fault during the recovery from another. With two workers one of
  them may stall for ever at any step, which is what a crash looks like to the other, so
  `captures` has one fault and `mutations` none. Lapses, failing commands and
  statements, and retention are not counted anywhere.
- In `mutations` the native write creates a project, the one kind that can end in three
  ways; in `write_keys`, which is about keys, it is any other. An item becomes `alike` only
  while such a write is dispatched (`CreatesProject`): nothing else tells it from
  `elsewhere`, and it looks no earlier.
- `write_keys` has one worker, the installed one. With two, `SavedOutcomeStands` and
  `ReportedWhenKept` depend on when a key comes back (section 4): one worker reports the
  outcome of an old row, retention removes the row, and the other, which holds the same
  job, begins a new one. In `mutations`, with two workers, no key comes back. The theorems
  cover both cases for any number of everything.
- `updates`: the requests together change every field, choose every schedule and include
  a token and none; the to-dos stand in the Inbox, in Today by a due deadline, and in
  Someday. Two calls are the first and the retry, or two sessions at once. One edit of
  the user and one midnight can each fall between any two steps.
- `installation`: three processes are one that ran before and one for each of the two
  starts, or one that launchd starts in between. One self-update; two break it.

Symmetry is used in the runs without liveness properties: tokens, results, payloads,
concurrent requests, sessions and workers are interchangeable. Deadlock is not checked:
calls, tokens, asks and processes are used up, and then the system stops.

### Fairness

`FairDeliverySpec`, run `settles`: a worker that can take a step takes one (its loop
polls for ever and every operation has a time-out, which is `Stumble` or `GiveUp`), the
server serves the messages it has received, and leases lapse. Nothing is assumed of
Things, its user or retention. A worker that crashed is started again by launchd. Faults
are finitely many in a run; without that no job would ever have to settle. A failing
look-up is such a fault: if it failed every time, a job that fails retryably would be put
back for ever. Without the limit that `MayRetry` applies when the look-up succeeds no job
would have to settle either, as the mutant shows.

### The four violations

`delivery_limit`: `lease` expires exhausted leases once (handler.go:756) and then
polls for up to 25 seconds. A lease that lapses in that window is granted by
`Store.Lease`, whose WHERE clause does not look at `attempts`, however many
deliveries the job has had. The row's error text (store.go:155) and
`TestQueueExpireLeasesCapsMaxAttempts` say that such a job is not delivered again.
The journal keeps the extra delivery harmless for Things (`OneTaskPerJob` and
`UnsafeSentOnce` hold in runs and proofs that include it). A failing look-up in the fail
handler (handler.go:816) is a second way past the maximum, which this run does not need:
`RequeuedBelowMax` says that of all reports only such a one takes it.

`standalone_retries`: the embedded loop gives `maxAttempts` to `ExpireLeases`
alone; a job that fails retryably is put back without the check of the server's
fail handler (handler.go:816), for ever. Because the oldest row is leased first, it
also keeps younger jobs waiting.

`two_updates`: two self-updates share the name `.old`. Between the two renames of one
(update.go:127 and :130) the other removes that file (update.go:126), which is then the
only copy of the executable; if the first is interrupted there, or its second rename
fails, neither file is left and the rollback has nothing to put back. With one update at
a time, and an installer beside it, the promise of the comment at update.go:123 holds.

`own_deadline`: a to-do without a start date that is in Today because its deadline is
due counts as scheduled for today (task_update.go:507). An update to today with a later
deadline therefore sends the deadline alone, which takes the to-do
out of Today; the verification fails, and every further try finds the membership changed
since the plan and reports a conflict. For anytime `ApplyTaskUpdate` looks at the deadline
as it is going to be (task_update.go:716) and sends the date along, which is what the
comment at task_update.go:528 asks for and what the mutant of `OneWriteSuffices` takes
away. The requests of the run `updates` do not combine today with a deadline.

### What the checked properties do not say

- `OneTaskPerJob`, `UnsafeSentOnce` and `ReportedMeansKept` speak of a job while the
  stores remember it. With two processes and a key that is used again after retention,
  `ReportedMeansKept` does not say that the kept result is the very same, and
  `CapturePromise` lets a success name an older task of the same key.
- `KeepsWritePromise` ties a success to the record that is about its request. Of a capture,
  and of a key whose record is about an earlier and different request, it says only that
  the job was pending.
- `SavedOutcomeIsReal` says of a reused project that the result warns; which fields differ
  is text.
- `OneWriteSuffices` leaves out a midnight between the look and the verification, on whose
  account only `DoneIsReal` is checked.
- `TaskUpdate` reads the dates and the membership in Today in one step, where the code runs
  two scripts one after the other.
- `NothingSeenIsOverwritten` leaves out edits made after the last look: Things offers no
  compare-and-swap, and docs/write-recovery.md accepts the race.
- `NoSelfConflict` is about fields. A call whose own URL of an earlier attempt arrives
  between the two halves of a reading may see a schedule that never was and be refused
  for it; and a half-and-half reading of a to-do that the user moves meanwhile can look
  as requested, which is why `DoneIsReal` speaks of what was met at some time, and of
  the schedule only if nobody moved the to-do.
- `FailureLeavesStopped` assumes that the clean-up itself did not fail or get killed
  (`clean`). In an interval between `status` and `bootout` launchd may have started
  another process, which `stop` does not wait for: it may still be ending when `stop`
  returns, and it is not "alive".
- `VerifiedIsReady` rests on two statements about time. One is `TwoSecondsOld`. The other is
  that a process that is told to end does not log that it is ready (`GetReady`): the start
  prunes the journal under the context that the signal cancels (workerapp.go:127), but does
  not look at it again before the log line (workerapp.go:146). A signal in the instant
  between the two would make the property false.
- `OnlyWholeBinariesRun` is about what is put in place and run. The backup that
  `install-worker` makes is not covered.

## 4. Proofs

The theorems hold for every value of the constants that satisfies the named assumptions
(`StoreAssumption`, `ServerAssumption`, `DeliveryAssumption`, `KindAssumption`,
`PidAssumption`, `UpdateAssumption`): any number of jobs, callers, workers, requests,
tokens, items, sessions and processes, any `MaxAttempts`, and no bound on faults but the
model's own counter.

**`QueueServerProofs`.**

- `TypeCorrect`: `Spec => []TypeOK`. `TypeInv` is `TypeOK` with two facts that make
  it inductive: a call beyond "idle" has an identifier and a payload, and a report under
  way holds a granted token.
- `OutcomesFinal`: each statement is guarded by a state of the row that is not terminal
  (`RowSteps`), so only ageing and pruning touch a finished one.
- `RetriesAreLimited`: `Spec => RequeuedBelowMax`. Between the handler's look-up and its
  UPDATE the row may be leased again, so that the step which puts a row back knows nothing
  of its attempts by itself. The invariant (`QueueInv`, lemma `NextFailFence`) says that as
  long as the token of a pending retryable failure whose look-up was answered still holds
  the row, the row's attempts are below the maximum; a lease granted meanwhile changes the
  token, and tokens are granted once. `RequeueStep` adds that only `FailJob` puts a row
  back.
- `AcknowledgementsHold`: from the types and from what each step does to finished rows.
- `KeysKeepPayloadsApart`, `AnswersAreTrue`: `CallInv` adds that an attached call waits,
  sleeps or is done and that its row is there (`AttachedShape`).

**`LifecycleProofs`.** `LifecycleIsKept`: `Spec => RefinesLifecycle`. Every step of
`QueueServer` is mapped to a step of `JobLifecycle` or to a stutter: a lease, a requeue, a
lapse and a look-up change nothing a caller could know; an expiry sweep is one `GiveUp` of
several jobs; a restart is one `Forget` that also drops the calls that wait. `LifeInv` adds
to the types that only a success carries a result and that an absent row has none.

What all compositions share is stated once. `QueueStoreProofs` says of each statement what
it does to a row's shape, and what of it a client can tell (`JobSubmitted`, `JobSucceeds`,
`JobsFail`, `JobsForgotten`, `NothingSeen`). `WorkerRuntimeProofs` says it of the steps of
the runtime, and has `LedgerInv`: who holds a lease, a token or a message of a job, and
that an acknowledgement means that the row succeeded.

**`MutationDeliveryProofs`.** `MutationInv` holds of any number of processes on one
journal. Its core is `UnsafeInv`: of a write that must not be repeated at most one worker
is poised to send, and then nobody has sent it. It is inductive because only
`MarkOperationDispatched` makes a worker poised, it succeeds on a prepared row alone, and
the row never goes back while it is there; `SentInv` says that nothing is sent before the
row says so. "Poised" includes a worker that has found a project to reuse: it will save a
result for a write of which nothing was sent, and no other may send it then. `WorkOK` says
of a worker in "finish" that its item got the change, of one in "reuse" that it met the
project, and `ItemsInv` carries both over to the saved results. From these follow
`UnsafeWritesAreSentOnce`, `UpdatesHaveOneTarget`,
`SavedOutcomesAreReal`, `IdentifiersHaveOneKind` and `MutationTypes`.

That what was reported stands, and is what the server keeps, needs more. A worker reads
its row when it begins, and what its report says has to be on the row still when the
server hears of it. Between the two the row may be reported by another process, grow old
and be swept, and a row of the same identifier be made anew, if the key comes back early
enough. Two conditions each exclude this, and the theorems are proved under each:

- `ForgottenFirst`, for any number of processes: a key that the server has forgotten comes
  back only when the journal has no row of it. This is the limit that
  docs/write-recovery.md:34 puts on the promise, as an action formula beside the
  specification. `OutcomeInv` says that a row is about the request of its job, that it is
  acknowledged only when the job succeeded and old only when nobody is about the job, and
  that every report of success names what is saved. Theorems: `OutcomesStand`,
  `AcknowledgedWhenKept`, `WritesKeepPromise`.
- `OneProcess`, with keys that come back at any time: nobody else makes or reports rows.
  `SoleInv` says that the worker has the current lease of its job (`Leases`), that a report
  which the server would still accept names what is saved for its request
  (`CurrentReportOK`), and that the row a worker reported on is about its request or gone.
  Theorems: `OneProcessOutcomesStand`, `OneProcessAcknowledgesWhenKept`,
  `OneProcessKeepsPromise`.

With neither, TLC has a counterexample of 26 states for `SavedOutcomeStands`: a second
process takes a lapsed lease, finds the old row of a key that came back and reports its
outcome, the sweep removes the row, and the first process, which is still at its
beginning, makes a new row for the job that has succeeded.

The refinement of `WritePromise` (`NextKeepsPromise`) takes one lemma per action that the
outside can tell: `EnsureWrite` is `Take`, `Record` is `Aim`, `Dispatch` is `Begin`, `Send`
is `HandOver`, `Finish` is `Save` of either kind, `Acknowledged` is `Keep`, the sweeps are `Forget` and
`LetGo`; all else stutters. That `HandOver` of an unsafe write finds nothing sent is
`UnsafeInv`, and so is that `Save` of a reused project finds nothing sent; that `Succeed`
agrees with the record is `CurrentReportOK`; that `Take` makes
no record for a job that has succeeded is `MayTake`.

**`CaptureDeliveryProofs`.** `CaptureInv` has three layers. `WorkOK`, `CaptureAlone` and
`EntryOK` tie what each worker has read to the journal's entry: whoever creates is alone
with the entry, no task is on its way that the entry does not know of, and a finalised
entry's task has its title. `KeptOK` says that an entry of a job whose task was made is
forgotten only when nobody holds the job and nobody can lease it again. Without it the
property would be lost after retention, and it needs `LedgerInv`. From it follow `OneTaskIsMade`,
`SuccessesAreReal`, `ReportsAreKept` and `DeliveryTypes`.

`CapturesKeepPromise`: `DeliverySpec => KeepsCapturePromise`, without any condition. Of the
worker's steps only two show: `Ensure` is `Remember`, `DispatchAdd` is `AskForTask`, which
asks for a job's first task because whoever creates has made none (`WorkOK`). What Things
and its user do is `Name`; a completion is `Succeed` of a task that `RealInv` says is the
job's and has its title; the journal's sweep is `LetGo`, which `KeptOK` allows.

**`TaskUpdateProofs`.** Any requests, to-dos, edits and schedules, and any number of
sessions, calls, edits and days. `PlanInv` says that there is one plan: whoever is past
the preparation goes by the one the journal keeps, and so does every write on its way.
`StepEffect` then reduces the actions to what they come to (`Effect` of a session's step,
`Disturbs` of an edit or a midnight, `Carries` of what Things does), and the other parts
are kept by these:

- `WriterInv`: a checklist is appended to by one writer, because such a plan is not
  replay-safe and `MarkOperationDispatched` lets one through.
- `ValueInv`: a field nobody else has touched since a sender looked at it is as it was
  before the change or, unless it is appended to, as it is after it (`NothingSeenIsLost`).
  For the checklist this needs `WriterInv`.
- `OwnInv`: a field nobody else has ever touched stands before or after the change,
  whatever was written late, twice or in part, also where only its first half has been
  read (`NoUpdateClashesWithItself`).
- `MetInv`: what has been seen has been so; a reading in two halves that looks as
  requested was so at one time, since only a write that moves the to-do to where it is to
  be, or somebody else, moves it (`DoneUpdatesAreReal`).
- `LineInv`: what is to be appended is not there before the dispatch, and there once
  after it (`AppendsOnce`). It assumes `FreshLines`: neither the to-do nor an edit of the
  user has the line; otherwise there could be two without any mistake.
- `OneWriteIsEnough`: a write that was carried out whole, with no edit and no midnight since
  the look it was made from, is all it takes. `CallsInv` and `SoloInv` tell whose write is
  on its way and that two of them agree; `EnoughInv` says what the look, the write to be
  sent, the write on its way and the one carried out each leave to be done: a field not
  written has its value already, and a schedule not written is in place (`InPlace`). It
  assumes `DeadlineApart`, that no request for today or this evening changes the deadline
  too: for today the property would be false (`own_deadline`).

**`InstallationProofs`.** `InstallInv` ties what the agent is like to where each command
is. `ControlInv` follows the commands through their clean-ups: the wizard has `touched`
whatever it has stopped, an error is on its way only where a clean-up runs, a `stop` that
is confirmed leaves the agent down, and only a checked copy is staged when the worker is
stopped for it. From it follow `FailuresLeaveStopped` and `WholeBinariesRun`.
`EvidenceInv` is about `waitReady`: since the log's length was taken before the agent was
loaded, the one start it has gained, once the process that runs has logged its own, is
that process's, and a "ready" after it is its own too, because a process that is ending
never gets that far. This is what the two seconds are for, and `VerifiedStartsAreReady`
follows. `OneUpdateKeepsABinary` assumes that no two updates run (`\A u, v \in Updates :
u = v`); the run `two_updates` shows that it must.

Only model-checked: liveness (`JobsSettle`), which is out of the prover's reach together
with ENABLED. Every other property of the passing runs is a theorem. Three theorems have a
condition that the run shows to be needed or that TLC has a counterexample without:
`OneUpdateKeepsABinary`, `OneWriteIsEnough`, and those about saved outcomes above;
`AppendsOnce` assumes fresh lines. The four violations are counterexamples of TLC.

## 5. Not modelled

Kept out for good, with the reason:

- *Setup page* (`internal/workersetup`): a page for one user, one record behind a lock and
  a disposable test task behind another; a second test task after a failure is expected.
- *Dashboard*, *HTTP middleware and authentication*, *tool schemas*, *capture request
  model*: reading, text and checks of single values; nothing that interleaves.
- *Project matching*: a function of one string and a list of names, decided character by
  character. Which item a name resolves to is a free choice in `MutationDelivery`.
- *Code signing checks*, *Shortcut helper*, *deployment scripts*: the output of other
  programs; what a failed check leads to is in `Installation`.
- *Query jobs* and the size limit on results: they change nothing in Things, and how they
  travel is `WorkerRuntime`'s business as that of any job.

What the models assume of the outside: one `Capture` call hands over one URL (its fallback
runs only when `open` failed cleanly, helper/client.go:336); Things carries a URL out at
most once; task identifiers are never reused; retention is counted in days and nothing of
a job is under way that long (`Quiet`); SQLite statements are atomic and durable.
