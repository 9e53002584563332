--------------------------- MODULE InstallationProofs -------------------------
(***************************************************************************)
(* Theorems about Installation, for any number of worker processes and of  *)
(* self-updates.                                                           *)
(*                                                                         *)
(* The invariant has one part for what is about the agent alone, one for   *)
(* how far the commands are and what that says of the agent, one for the   *)
(* evidence of a start, and one for the files.                             *)
(***************************************************************************)
EXTENDS Installation, TLAPS

Down == disabled /\ ~loaded

EarlyPlaces == {"install", "install.copy", "install.backup", "install.staged"}
ReplacePlaces == {"install.stopped", "install.replace", "install.recheck"}
InstallerCallers == {"install", "install-failed"}
WizardCallers == {"prepare", "restart", "start-failed", "setup-failed"}
FailedCallers == {"start-failed", "setup-failed", "install-failed"}
StopsFor(callers) == pc \in StopPlaces /\ caller \in callers

\* Only the process launchd knows of is alive.
AgentInv ==
  /\ AgentTypeOK
  /\ \A p \in Pids : procs[p].state = "alive" => p = pid

\* Where each command can be.
ModeInv ==
  /\ mode = "setup" =>
       \/ pc \in WizardPlaces \cup StartPlaces \cup {"setup.failed", "setup.done", "ended"}
       \/ StopsFor(WizardCallers)
  /\ mode = "install-no-setup" =>
       \/ pc \in EarlyPlaces \cup ReplacePlaces \cup {"ended"}
       \/ StopsFor(InstallerCallers)

\* What a place says of the agent.
PlaceInv ==
  /\ pc = "stop.confirm" => ~loaded
  /\ pc \in ReplacePlaces => Down
  /\ pc \in {"start.archive", "start.snapshot", "start.enable", "start.bootstrap"} => ~loaded
  /\ pc \in {"start.watch", "start.confirm"} => loaded /\ ~disabled

\* The wizard has touched whatever it has stopped.
BegunInv ==
  /\ pc \in EarlyPlaces => ~begun
  /\ mode = "setup" /\ begun /\ pc # "ended" => touched
  /\ pc \in StopPlaces \ {"stop.status"} /\ caller \notin InstallerCallers => touched

FailedInv == failed => pc \in {"setup.failed", "ended"} \/ StopsFor(FailedCallers)

\* A clean-up that succeeded has left the agent down.
CleanInv ==
  /\ pc = "setup.failed" /\ mode = "setup" /\ begun /\ clean => Down
  /\ pc = "ended" /\ begun /\ clean /\ (failed \/ mode = "install-no-setup") => Down

RoundInv ==
  /\ round \in 0 .. 2
  /\ pc \in EarlyPlaces \cup ReplacePlaces \cup {"setup", "setup.grant"} => round = 0
  /\ StopsFor({"install", "prepare"}) => round = 0
  /\ StopsFor({"restart"}) => round = 1
  /\ pc \in StartPlaces => round \in 0 .. 1

\* The staged copy has been checked before anything is stopped for it.
StagedInv ==
  /\ staged \in Binaries
  /\ staged # "none" =>
       \/ pc \in {"install.backup", "install.staged", "install.stopped", "install.replace",
                 "ended"}
       \/ StopsFor({"install"})
  /\ pc \in {"install.staged", "install.stopped", "install.replace"}
       \/ StopsFor({"install"}) => staged = "installed"

ControlInv ==
  /\ ModeInv /\ PlaceInv /\ BegunInv /\ FailedInv /\ CleanInv /\ RoundInv /\ StagedInv

Known(p) == p \in Pids /\ procs[p].state # "none"

\* The log since its length was taken, and the process that runs: one start in the log is
\* the start of that process, and a "ready" after it is its own.
EvidenceInv ==
  /\ found.pid = 0 \/ Known(found.pid)
  /\ watched = 0 \/ Known(watched)
  /\ stable => watched # 0
  /\ pc \in {"start.enable", "start.bootstrap", "start.watch", "start.confirm"} =>
       /\ log.starts = 0 => log.after = {}
       /\ pid # 0 /\ procs[pid].phase # "booting" => log.starts # 0
       /\ pid # 0 /\ procs[pid].phase # "booting" /\ log.starts = 1 /\ "ready" \in log.after
            => procs[pid].phase = "ready"
  /\ pc = "start.confirm" =>
       /\ watched # 0 /\ marker = "newer"
       /\ pid = watched => procs[pid].phase = "ready"

Whole == Binaries \ {"broken"}

FileInv ==
  /\ target \in Whole /\ old \in Whole
  /\ backup \in Binaries /\ existing \in Whole
  /\ \A p \in Pids : procs[p].binary \in Whole
  /\ updates \in [Updates -> UpdatePlaces]

InstallInv == AgentInv /\ ControlInv /\ EvidenceInv /\ FileInv

\* With one update: the copy it can go back to is there while the executable is away.
KeptInv ==
  \A u \in Updates :
    /\ updates[u] \in {"clear", "stage", "clean", "restart"} => target # "none"
    /\ updates[u] \in {"swap", "rollback"} => old # "none"
    /\ updates[u] = "ended" => {target, old} # {"none"}

-----------------------------------------------------------------------------
(* The agent alone                                                         *)

\* A process that starts is a new one, and then the only one that is alive.
LEMMA SpawnAgent ==
  ASSUME AgentInv, NEW b \in Binaries, Spawn(b)
  PROVE  /\ AgentInv' /\ UNCHANGED <<loaded, disabled, log, marker>>
         /\ pid = 0 /\ pid' \in Pids /\ procs[pid'].state = "none"
         /\ procs' = [procs EXCEPT ![pid'] = Process("alive", "booting", b)]
<1>1. PICK p \in Pids : /\ procs[p] = NoProcess /\ pid' = p
                        /\ procs' = [procs EXCEPT ![p] = Process("alive", "booting", b)]
  BY DEF Spawn
<1> QED
  BY <1>1 DEF Spawn, AgentInv, AgentTypeOK, Process, NoProcess, Phases, Pids

\* A process that reaches a phase is still the one it was, unless it was told to end.
LEMMA ReachAgent ==
  ASSUME AgentInv, NEW p \in Pids, NEW phase \in Phases, Running(p), Reach(p, phase),
         UNCHANGED <<loaded, disabled, pid>>,
         log' \in [starts : 0 .. 2, after : SUBSET {"database", "consent", "ready"}],
         marker' \in {"none", "older", "newer"}
  PROVE  /\ AgentInv'
         /\ \A q \in Pids : /\ procs[q].state # "none" => procs'[q].state # "none"
                            /\ procs'[q].binary \in {procs[q].binary, "none"}
                            /\ q # p => procs'[q] = procs[q]
         /\ p = pid => procs'[p].phase = phase
         /\ procs[p].state = "dying" => p # pid
<1>1. procs' \in [Pids -> [state : {"none", "alive", "dying", "dead"}, phase : Phases,
                           binary : Binaries]]
  BY DEF AgentInv, AgentTypeOK, Reach, DeadProcess, Process, Phases, Binaries
<1>2. \A q \in Pids : q # p => procs'[q] = procs[q]
  BY DEF AgentInv, AgentTypeOK, Reach
<1>3. CASE procs[p].state = "dying"
  <2>1. procs'[p] = DeadProcess
    BY <1>3 DEF AgentInv, AgentTypeOK, Reach
  <2>2. p # pid
    BY <1>3 DEF AgentInv, AgentTypeOK, Pids
  <2> QED
    BY <1>1, <1>2, <1>3, <2>1, <2>2 DEF AgentInv, AgentTypeOK, DeadProcess, Process
<1>4. CASE procs[p].state = "alive"
  <2>1. procs'[p] = [procs[p] EXCEPT !.phase = phase]
    BY <1>4 DEF AgentInv, AgentTypeOK, Reach
  <2>2. procs'[p].state = "alive" /\ procs'[p].phase = phase
        /\ procs'[p].binary = procs[p].binary
    BY <2>1, <1>4 DEF AgentInv, AgentTypeOK
  <2> QED
    BY <1>1, <1>2, <1>4, <2>2 DEF AgentInv, AgentTypeOK
<1> QED
  BY <1>3, <1>4 DEF Running

\* A process that dies is not the agent's any more.
LEMMA DieAgent ==
  ASSUME AgentInv, NEW p \in Pids, Die(p)
  PROVE  /\ AgentInv' /\ UNCHANGED <<loaded, disabled, log, marker>>
         /\ \A q \in Pids : /\ procs[q].state # "none" => procs'[q].state # "none"
                            /\ procs'[q].binary \in {procs[q].binary, "none"}
                            /\ q # p => procs'[q] = procs[q]
         /\ pid' = 0 \/ (pid' = pid /\ pid # p)
<1>1. /\ procs' \in [Pids -> [state : {"none", "alive", "dying", "dead"}, phase : Phases,
                              binary : Binaries]]
      /\ procs'[p] = DeadProcess
      /\ \A q \in Pids : q # p => procs'[q] = procs[q]
  BY DEF AgentInv, AgentTypeOK, Die, DeadProcess, Process, Phases, Binaries
<1>2. DeadProcess.state = "dead" /\ DeadProcess.binary = "none"
  BY DEF DeadProcess, Process
<1> QED
  BY <1>1, <1>2 DEF AgentInv, AgentTypeOK, Die, Pids

\* What the steps of the start-up do to the log and the marker.
LEMMA StartUpAgent ==
  ASSUME AgentInv, NEW p \in Pids, StartUp(p)
  PROVE  AgentInv' /\ UNCHANGED <<loaded, disabled>>
<1>1. CASE LogStart(p)
  BY <1>1, ReachAgent DEF LogStart, Phases, AgentInv, AgentTypeOK
<1>2. CASE DatabaseOK(p)
  BY <1>2, ReachAgent DEF DatabaseOK, LogLine, Phases, AgentInv, AgentTypeOK
<1>3. CASE HaveConsent(p)
  BY <1>3, ReachAgent DEF HaveConsent, LogLine, Phases, AgentInv, AgentTypeOK
<1>4. CASE GetReady(p)
  BY <1>4, ReachAgent DEF GetReady, LogLine, Phases, AgentInv, AgentTypeOK, Running
<1>5. CASE Die(p)
  BY <1>5, DieAgent
<1> QED
  BY <1>1, <1>2, <1>3, <1>4, <1>5 DEF StartUp

LEMMA BootoutAgent ==
  ASSUME AgentInv, Bootout
  PROVE  /\ AgentInv' /\ ~loaded' /\ pid' = 0 /\ UNCHANGED <<disabled, log, marker>>
         /\ \A q \in Pids : /\ procs[q].state # "none" => procs'[q].state # "none"
                            /\ procs'[q].binary = procs[q].binary
                            /\ procs'[q].phase = procs[q].phase
<1>1. \A q \in Pids :
        procs'[q] = IF q = pid THEN [procs[q] EXCEPT !.state = "dying"] ELSE procs[q]
  BY DEF Bootout
<1>2. procs' \in [Pids -> [state : {"none", "alive", "dying", "dead"}, phase : Phases,
                           binary : Binaries]]
  BY DEF Bootout, AgentInv, AgentTypeOK
<1>3. \A q \in Pids : /\ procs[q].state # "none" => procs'[q].state # "none"
                      /\ procs'[q].binary = procs[q].binary
                      /\ procs'[q].phase = procs[q].phase
                      /\ procs'[q].state # "alive"
  BY <1>1 DEF AgentInv, AgentTypeOK
<1> QED
  BY <1>2, <1>3 DEF Bootout, AgentInv, AgentTypeOK

\* Only launchd and the clean-ups stop or start anything.
LEMMA SetupAgent ==
  ASSUME AgentInv, SetupStep
  PROVE  AgentInv'
<1> USE DEF AgentInv, AgentTypeOK
<1>1. CASE UNCHANGED agentVars
  BY <1>1 DEF agentVars
<1>2. CASE StopDisable
  BY <1>2 DEF StopDisable, Disable
<1>3. CASE StopBootout
  BY <1>1, <1>3, BootoutAgent DEF StopBootout
<1>4. CASE ArchiveSetupMarker
  BY <1>4 DEF ArchiveSetupMarker
<1>5. CASE SetupLogSnapshot
  BY <1>5 DEF SetupLogSnapshot, EmptyLog
<1>6. CASE StartEnable
  BY <1>6 DEF StartEnable, Enable
<1>7. CASE StartBootstrap
  BY <1>7 DEF StartBootstrap, Bootstrap
<1>8. CASE \/ StopStatus \/ StopPoll \/ StopConfirm \/ StartCheck \/ WaitReady \/ ConfirmReady
           \/ PrepareFDA \/ ReviewAndInstallFiles \/ Verified \/ SetupFails
  <2> UNCHANGED agentVars
    BY <1>8 DEF StopStatus, StopPoll, StopConfirm, StartCheck, WaitReady, ConfirmReady, PrepareFDA,
                ReviewAndInstallFiles, Verified, SetupFails
  <2> QED
    BY <1>1
<1> QED
  BY <1>2, <1>3, <1>4, <1>5, <1>6, <1>7, <1>8 DEF SetupStep

LEMMA UpdateAgent ==
  ASSUME AgentInv, NEW u \in Updates, UpdateStep(u)
  PROVE  /\ AgentInv' /\ UNCHANGED <<loaded, disabled, log, marker>>
         /\ pid' = 0 \/ pid' = pid
         /\ \A q \in Pids : /\ procs[q].state # "none" => procs'[q].state # "none"
                            /\ procs'[q].binary \in {procs[q].binary, "none"}
                            /\ pid' = q => procs'[q] = procs[q]
<1>1. CASE UNCHANGED agentVars
  BY <1>1 DEF agentVars, AgentInv, AgentTypeOK
<1>2. CASE Die(pid) /\ pid # 0
  <2> pid \in Pids
    BY <1>2 DEF AgentInv, AgentTypeOK
  <2> QED
    BY <1>2, DieAgent DEF AgentInv, AgentTypeOK, Pids
<1> QED
  BY <1>1, <1>2 DEF UpdateStep, VerifyUpdate, RemoveOld, StageCurrent, Swap, Rollback, CleanUp,
    RestartWorkerAgent, UpdateStops

-----------------------------------------------------------------------------
(* How far the commands are                                                *)

\* launchd, the worker and the updates change nothing the invariant speaks of.
LEMMA ControlOfOthers ==
  ASSUME ControlInv, UNCHANGED <<runVars, mode, staged, loaded, disabled>>
  PROVE  ControlInv'
<1> USE DEF ControlInv, runVars, Down, StopsFor
<1>1. ModeInv'
  BY DEF ModeInv
<1>2. PlaceInv'
  BY DEF PlaceInv
<1>3. BegunInv'
  BY DEF BegunInv
<1>4. FailedInv'
  BY DEF FailedInv
<1>5. CleanInv'
  BY DEF CleanInv
<1>6. RoundInv'
  BY DEF RoundInv
<1>7. StagedInv'
  BY DEF StagedInv
<1> QED
  BY <1>1, <1>2, <1>3, <1>4, <1>5, <1>6, <1>7

LEMMA ControlOfStop ==
  ASSUME ControlInv, UNCHANGED <<mode, staged>>,
         StopStatus \/ StopDisable \/ StopBootout \/ StopPoll \/ StopConfirm
  PROVE  ControlInv'
<1> USE DEF ControlInv, ModeInv, PlaceInv, BegunInv, FailedInv, CleanInv, RoundInv, StagedInv,
        agentVars, Down, StopsFor, Go, Keep, Stop, End, Return, StopPlaces, StartPlaces,
        WizardPlaces, EarlyPlaces, ReplacePlaces, InstallerCallers, WizardCallers, FailedCallers
<1>1. CASE StopStatus
  BY <1>1 DEF StopStatus
<1>2. CASE StopDisable
  BY <1>2 DEF StopDisable, Disable
<1>3. CASE StopBootout
  BY <1>3 DEF StopBootout, Bootout
<1>4. CASE StopPoll
  BY <1>4 DEF StopPoll
<1>5. CASE StopConfirm
  BY <1>5 DEF StopConfirm
<1> QED
  BY <1>1, <1>2, <1>3, <1>4, <1>5

LEMMA ControlOfSetup ==
  ASSUME ControlInv, UNCHANGED <<mode, staged>>, SetupStep
  PROVE  ControlInv'
<1> USE DEF ControlInv, ModeInv, PlaceInv, BegunInv, FailedInv, CleanInv, RoundInv, StagedInv,
        agentVars, Down, StopsFor, Go, Keep, Stop, StopPlaces, StartPlaces,
        WizardPlaces, EarlyPlaces, ReplacePlaces, InstallerCallers, WizardCallers, FailedCallers
<1>1. CASE StartCheck \/ ArchiveSetupMarker \/ SetupLogSnapshot \/ StartEnable \/ StartBootstrap
  BY <1>1 DEF StartCheck, ArchiveSetupMarker, SetupLogSnapshot, StartEnable, Enable,
              StartBootstrap, Bootstrap
<1>2. CASE WaitReady \/ ConfirmReady
  BY <1>2 DEF WaitReady, ConfirmReady
<1>3. CASE PrepareFDA \/ ReviewAndInstallFiles \/ Verified
  BY <1>3 DEF PrepareFDA, ReviewAndInstallFiles, Verified
<1>4. CASE SetupFails
  BY <1>4 DEF SetupFails, TouchedNow
<1>5. CASE StopStatus \/ StopDisable \/ StopBootout \/ StopPoll \/ StopConfirm
  BY <1>5, ControlOfStop
<1> QED
  BY <1>1, <1>2, <1>3, <1>4, <1>5 DEF SetupStep

LEMMA ControlOfInstall ==
  ASSUME ControlInv, InstallStep \/ Killed
  PROVE  ControlInv'
<1> USE DEF ControlInv, ModeInv, PlaceInv, BegunInv, FailedInv, CleanInv, RoundInv, StagedInv,
        agentVars, fileVars, Alone, Down, StopsFor, Go, Keep, Stop, End, StopPlaces, StartPlaces,
        WizardPlaces, EarlyPlaces, ReplacePlaces, InstallerCallers, WizardCallers, FailedCallers
<1>1. CASE InstallBegin \/ StageCopy \/ BackUp \/ BeginStopping \/ CheckTargetAgain
  BY <1>1 DEF InstallBegin, StageCopy, BackUp, CheckCopy, BeginStopping, CheckTargetAgain, Binaries
<1>2. CASE Replace \/ CheckReplaced
  BY <1>2 DEF Replace, CheckReplaced, Binaries
<1>3. CASE InstallFails
  BY <1>3 DEF InstallFails, Stopping, Binaries
<1>4. CASE SetupEnds
  BY <1>4 DEF SetupEnds, WizardRuns, InstallerRuns
<1>5. CASE Killed
  BY <1>5 DEF Killed
<1> QED
  BY <1>1, <1>2, <1>3, <1>4, <1>5 DEF InstallStep

-----------------------------------------------------------------------------
(* The evidence of a start                                                 *)

\* What a command does that leaves the agent alone or only takes its process away.
LEMMA EvidenceOfOthers ==
  ASSUME AgentInv, EvidenceInv, UNCHANGED <<found, watched, stable, log, marker>>,
         pc' = pc \/ pc' \notin {"start.enable", "start.bootstrap", "start.watch",
                                 "start.confirm"},
         pid' = 0 \/ (pid' = pid /\ procs'[pid] = procs[pid]),
         \A q \in Pids : procs[q].state # "none" => procs'[q].state # "none"
  PROVE  EvidenceInv'
BY DEF EvidenceInv, Known, Pids

\* Setup forgets what it follows wherever it goes on to something else.
LEMMA EvidenceForgotten ==
  ASSUME AgentInv, EvidenceInv, UNCHANGED <<pid, procs, log, marker>>,
         UNCHANGED <<watched, stable>> \/ (watched' = 0 /\ ~stable'),
         found'.pid \in {found.pid, pid, 0},
         pc' \notin {"start.enable", "start.bootstrap", "start.watch", "start.confirm"}
  PROVE  EvidenceInv'
<1>1. pid # 0 => Known(pid)
  BY DEF AgentInv, AgentTypeOK, Known
<1> QED
  BY <1>1 DEF EvidenceInv, Known

LEMMA EvidenceOfAgent ==
  ASSUME AgentInv, EvidenceInv, UNCHANGED runVars,
         (\E b \in Binaries : Spawn(b)) \/ \E p \in Pids : StartUp(p)
  PROVE  EvidenceInv'
<1> USE DEF runVars
<1>1. CASE \E b \in Binaries : Spawn(b)
  <2> PICK b \in Binaries : Spawn(b)
    BY <1>1
  <2>1. /\ UNCHANGED <<log, marker>> /\ pid = 0 /\ pid' \in Pids /\ procs[pid'].state = "none"
        /\ procs' = [procs EXCEPT ![pid'] = Process("alive", "booting", b)]
    BY SpawnAgent
  <2>2. procs'[pid'].phase = "booting" /\ procs'[pid'].state = "alive"
    BY <2>1 DEF Process, AgentInv, AgentTypeOK
  <2>3. \A q \in Pids : q # pid' => procs'[q] = procs[q]
    BY <2>1 DEF AgentInv, AgentTypeOK
  <2> QED
    BY <2>1, <2>2, <2>3 DEF EvidenceInv, Known, Pids
<1>2. ASSUME NEW p \in Pids, LogStart(p)
      PROVE  EvidenceInv'
  <2>1. /\ log' \in [starts : 0 .. 2, after : SUBSET {"database", "consent", "ready"}]
        /\ log'.after = log.after
        /\ log'.starts = IF log.starts < 2 THEN log.starts + 1 ELSE log.starts
        /\ UNCHANGED <<loaded, disabled, pid, marker>>
        /\ Reach(p, "started") /\ Running(p) /\ procs[p].phase = "booting"
    BY <1>2 DEF LogStart, AgentInv, AgentTypeOK
  <2>2. /\ \A q \in Pids : /\ procs[q].state # "none" => procs'[q].state # "none"
                           /\ q # p => procs'[q] = procs[q]
        /\ p = pid => procs'[p].phase = "started"
    BY <2>1, ReachAgent DEF AgentInv, AgentTypeOK, Phases
  <2>3. pid \in Pids \cup {0} /\ log.starts \in 0 .. 2
    BY DEF AgentInv, AgentTypeOK
  <2> QED
    BY <2>1, <2>2, <2>3 DEF EvidenceInv, Known
<1>3. ASSUME NEW p \in Pids, DatabaseOK(p) \/ HaveConsent(p) \/ GetReady(p)
      PROVE  EvidenceInv'
  <2>1. PICK phase \in Phases, line \in {"none", "database", "consent", "ready"} :
          /\ Running(p) /\ Reach(p, phase) /\ UNCHANGED <<loaded, disabled, pid>>
          /\ log'.starts = log.starts
          /\ log'.after = IF log.starts = 0 \/ line = "none" THEN log.after
                                                             ELSE log.after \cup {line}
          /\ log' \in [starts : 0 .. 2, after : SUBSET {"database", "consent", "ready"}]
          /\ marker' \in {marker, "newer"}
          /\ procs[p].phase \notin {"booting", "ready"}
          /\ line = "ready" => phase = "ready" /\ procs[p].state = "alive"
    <3>1. CASE DatabaseOK(p)
      <4> "database" \in Phases
        BY DEF Phases
      <4> QED
        BY <3>1 DEF DatabaseOK, LogLine, AgentInv, AgentTypeOK
    <3>2. CASE HaveConsent(p)
      <4> "consented" \in Phases
        BY DEF Phases
      <4> QED
        BY <3>2 DEF HaveConsent, LogLine, AgentInv, AgentTypeOK
    <3>3. CASE GetReady(p)
      <4> "ready" \in Phases
        BY DEF Phases
      <4> QED
        BY <3>3 DEF GetReady, LogLine, AgentInv, AgentTypeOK, Running
    <3> QED
      BY <1>3, <3>1, <3>2, <3>3
  <2>2. marker' \in {"none", "older", "newer"}
    BY <2>1 DEF AgentInv, AgentTypeOK
  <2>3. /\ \A q \in Pids : /\ procs[q].state # "none" => procs'[q].state # "none"
                           /\ q # p => procs'[q] = procs[q]
        /\ p = pid => procs'[p].phase = phase
    BY <2>1, <2>2, ReachAgent
  <2>4. line = "ready" => p = pid
    BY <2>1 DEF AgentInv
  <2>5. pid \in Pids \cup {0}
    BY DEF AgentInv, AgentTypeOK
  <2> QED
    BY <2>1, <2>3, <2>4, <2>5 DEF EvidenceInv, Known
<1>4. ASSUME NEW p \in Pids, Die(p)
      PROVE  EvidenceInv'
  BY <1>4, DieAgent, EvidenceOfOthers DEF AgentInv, AgentTypeOK, Pids
<1> QED
  BY <1>1, <1>2, <1>3, <1>4 DEF StartUp

LEMMA EvidenceOfSetup ==
  ASSUME AgentInv, ControlInv, EvidenceInv, SetupStep
  PROVE  EvidenceInv'
<1>0. pid # 0 => loaded /\ Known(pid)
  BY DEF AgentInv, AgentTypeOK, Known
<1> USE DEF agentVars, Go, Keep, Stop, NotLoaded
<1>1. CASE StopStatus \/ StopPoll \/ StopConfirm \/ StartCheck
           \/ PrepareFDA \/ ReviewAndInstallFiles \/ Verified \/ SetupFails
  <2>1. /\ UNCHANGED <<pid, procs, log, marker>>
        /\ UNCHANGED <<watched, stable>> \/ (watched' = 0 /\ ~stable')
        /\ found' = found \/ found'.pid \in {pid, 0}
        /\ pc' \notin {"start.enable", "start.bootstrap", "start.watch", "start.confirm"}
    BY <1>1 DEF StopStatus, StopPoll, StopConfirm, StartCheck, PrepareFDA, ReviewAndInstallFiles,
                Verified, SetupFails, Return, End
  <2> QED
    BY <2>1, EvidenceForgotten
<1>2. CASE StopDisable
  <2>1. /\ UNCHANGED <<found, watched, stable, log, marker, pid, procs>>
        /\ pc' = "stop.bootout"
    BY <1>2 DEF StopDisable, Disable
  <2> QED
    BY <2>1, EvidenceOfOthers
<1>3. CASE StopBootout
  <2>1. CASE Bootout
    BY <1>3, <2>1, BootoutAgent, EvidenceOfOthers DEF StopBootout
  <2>2. CASE UNCHANGED agentVars
    BY <1>3, <2>2, EvidenceOfOthers DEF StopBootout
  <2> QED
    BY <1>3, <2>1, <2>2 DEF StopBootout
<1>4. CASE ArchiveSetupMarker
  BY <1>4 DEF ArchiveSetupMarker, EvidenceInv, Known
<1>5. CASE SetupLogSnapshot
  <2>1. ~loaded
    BY <1>5 DEF SetupLogSnapshot, ControlInv, PlaceInv
  <2> QED
    BY <1>0, <1>5, <2>1 DEF SetupLogSnapshot, EmptyLog, EvidenceInv, Known
<1>6. CASE StartEnable \/ StartBootstrap
  BY <1>6 DEF StartEnable, Enable, StartBootstrap, Bootstrap, EvidenceInv, Known
<1>7. CASE WaitReady
  <2>1. /\ pid # 0 /\ watched' = pid /\ UNCHANGED <<found, log, marker, pid, procs>>
        /\ pc = "start.watch" /\ log.starts < 2 /\ watched \in {0, pid}
        /\ \/ pc' = "start.watch"
           \/ /\ pc' = "start.confirm" /\ stable /\ FreshSetupEvidence
              /\ procs[watched].phase # "booting"
    BY <1>7 DEF WaitReady, TwoSecondsOld
  <2>2. CASE pc' = "start.watch"
    BY <1>0, <2>1, <2>2 DEF EvidenceInv, Known
  <2>3. CASE pc' = "start.confirm"
    <3>1. watched = pid /\ procs[pid].phase # "booting" /\ marker = "newer"
          /\ log.starts = 1 /\ "ready" \in log.after
      BY <2>1, <2>3 DEF EvidenceInv, FreshSetupEvidence
    <3>2. procs[pid].phase = "ready"
      BY <2>1, <3>1 DEF EvidenceInv
    <3> QED
      BY <1>0, <2>1, <2>3, <3>1, <3>2 DEF EvidenceInv, Known
  <2> QED
    BY <2>1, <2>2, <2>3
<1>8. CASE ConfirmReady
  BY <1>8 DEF ConfirmReady, EvidenceInv, Known
<1> QED
  BY <1>1, <1>2, <1>3, <1>4, <1>5, <1>6, <1>7, <1>8 DEF SetupStep

LEMMA EvidenceOfInstall ==
  ASSUME AgentInv, EvidenceInv, InstallStep \/ Killed
  PROVE  EvidenceInv'
<1>1. /\ UNCHANGED <<pid, procs, log, marker>>
      /\ UNCHANGED <<watched, stable>> \/ (watched' = 0 /\ ~stable')
      /\ found' = found \/ found'.pid = 0
      /\ pc' \notin {"start.enable", "start.bootstrap", "start.watch", "start.confirm"}
  BY DEF InstallStep, InstallBegin, StageCopy, BackUp, BeginStopping, CheckTargetAgain, Replace,
    CheckReplaced, InstallFails, SetupEnds, Killed, Alone, agentVars, Go, Keep, Stop, End, NotLoaded
<1> QED
  BY <1>1, EvidenceForgotten

-----------------------------------------------------------------------------
(* The files                                                               *)

\* What the start-up and the commands given to launchd leave of a process's file.
LEMMA FilesOfAgent ==
  ASSUME AgentInv, FileInv, SetupStep \/ AgentStep, UNCHANGED <<fileVars, existing, updates>>
  PROVE  FileInv'
<1>1. \A p \in Pids : procs'[p].binary \in Whole
  <2>1. CASE Spawn(target)
    <3>1. target \in Binaries
      BY DEF FileInv, Whole
    <3>2. pid' \in Pids /\ procs' = [procs EXCEPT ![pid'] = Process("alive", "booting", target)]
      BY <2>1, <3>1, SpawnAgent
    <3> QED
      BY <3>2 DEF FileInv, Process, AgentInv, AgentTypeOK
  <2>2. ASSUME NEW p \in Pids, StartUp(p)
        PROVE  \A q \in Pids : procs'[q].binary \in {procs[q].binary, "none"}
    <3>1. CASE Die(p)
      BY <3>1, DieAgent
    <3>2. CASE LogStart(p) \/ DatabaseOK(p) \/ HaveConsent(p) \/ GetReady(p)
      <4>1. AgentInv'
        BY <2>2, StartUpAgent
      <4>2. PICK phase \in Phases :
              Running(p) /\ Reach(p, phase) /\ UNCHANGED <<loaded, disabled, pid>>
        BY <3>2 DEF LogStart, DatabaseOK, HaveConsent, GetReady, Running, Phases
      <4> QED
        BY <4>1, <4>2, ReachAgent DEF AgentInv, AgentTypeOK
    <3> QED
      BY <2>2, <3>1, <3>2 DEF StartUp
  <2>3. CASE UNCHANGED procs
    BY <2>3 DEF FileInv
  <2>4. CASE Bootout
    BY <2>4, BootoutAgent DEF FileInv
  <2>5. SetupStep => Bootout \/ UNCHANGED procs
    BY DEF SetupStep, agentVars, StopStatus, StopDisable, Disable, StopBootout, StopPoll,
      StopConfirm, StartCheck, ArchiveSetupMarker, SetupLogSnapshot, StartEnable, Enable,
      StartBootstrap, Bootstrap, WaitReady, ConfirmReady, PrepareFDA, ReviewAndInstallFiles,
      Verified, SetupFails
  <2> QED
    BY <2>1, <2>2, <2>3, <2>4, <2>5 DEF AgentStep, FileInv, Whole, Binaries
<1> QED
  BY <1>1 DEF FileInv, fileVars

LEMMA FilesOfInstall ==
  ASSUME ControlInv, FileInv, InstallStep \/ Killed
  PROVE  FileInv'
<1> USE DEF FileInv, Whole, Binaries, Alone, agentVars, fileVars
<1>1. UNCHANGED <<procs, updates, old>>
  BY DEF InstallStep, InstallBegin, StageCopy, BackUp, BeginStopping, CheckTargetAgain, Replace,
    CheckReplaced, InstallFails, SetupEnds, Killed
<1>2. target' = target \/ (pc = "install.replace" /\ target' = staged)
  BY DEF InstallStep, InstallBegin, StageCopy, BackUp, BeginStopping, CheckTargetAgain, Replace,
    CheckReplaced, InstallFails, SetupEnds, Killed
<1>3. target' \in Whole
  BY <1>2 DEF ControlInv, StagedInv
<1>4. backup' \in {backup, target, "broken"} /\ existing' \in {existing, target}
  BY DEF InstallStep, InstallBegin, StageCopy, BackUp, BeginStopping, CheckTargetAgain, Replace,
    CheckReplaced, InstallFails, SetupEnds, Killed
<1> QED
  BY <1>1, <1>3, <1>4

LEMMA FilesOfUpdate ==
  ASSUME AgentInv, FileInv, NEW u \in Updates, UpdateStep(u)
  PROVE  FileInv'
<1>1. target' \in {target, old, "none", "updated"} /\ old' \in {old, target, "none"}
      /\ UNCHANGED <<backup, existing>>
  BY DEF UpdateStep, VerifyUpdate, RemoveOld, StageCurrent, Swap, Rollback, CleanUp,
    RestartWorkerAgent, UpdateStops, UpdateAlone
<1>2. PICK to \in UpdatePlaces : updates' = [updates EXCEPT ![u] = to]
  BY DEF UpdateStep, VerifyUpdate, RemoveOld, StageCurrent, Swap, Rollback, CleanUp,
    RestartWorkerAgent, UpdateStops, UpdateGoes, UpdatePlaces
<1>3. \A q \in Pids : procs'[q].binary \in {procs[q].binary, "none"}
  BY UpdateAgent
<1> QED
  BY <1>1, <1>2, <1>3 DEF FileInv, Whole, Binaries

-----------------------------------------------------------------------------
(* The invariant                                                           *)

LEMMA InstallInitInv ==
  ASSUME InstallInit
  PROVE  InstallInv
<1>1. 1 \in Pids
  BY PidAssumption DEF Pids
<1>2. AgentInv
  <2>1. /\ loaded \in BOOLEAN /\ disabled \in BOOLEAN /\ log = FullLog
        /\ marker \in {"none", "older"} /\ pid = IF loaded THEN 1 ELSE 0
        /\ procs = [p \in Pids |-> IF loaded /\ p = 1 THEN Process("alive", "booting", "original")
                                                     ELSE NoProcess]
    BY DEF InstallInit, AgentInit
  <2>2. \A p \in Pids : procs[p] \in [state : {"none", "alive"}, phase : {"booting"},
                                     binary : {"none", "original"}]
    BY <2>1 DEF NoProcess, Process
  <2>3. \A p \in Pids : procs[p].state = "alive" <=> loaded /\ p = 1
    BY <2>1 DEF NoProcess, Process
  <2>4. procs \in [Pids -> [state : {"none", "alive", "dying", "dead"}, phase : Phases,
                            binary : Binaries]]
    BY <2>1, <2>2 DEF Phases, Binaries
  <2>5. FullLog \in [starts : 0 .. 2, after : SUBSET {"database", "consent", "ready"}]
    BY DEF FullLog
  <2> QED
    BY <1>1, <2>1, <2>3, <2>4, <2>5 DEF AgentInv, AgentTypeOK
<1>3. ControlInv
  BY DEF InstallInit, RunInit, ControlInv, ModeInv, PlaceInv, BegunInv, FailedInv, CleanInv,
    RoundInv, StagedInv, StopsFor, StopPlaces, StartPlaces, WizardPlaces, EarlyPlaces,
    ReplacePlaces, Binaries
<1>4. EvidenceInv
  BY DEF InstallInit, RunInit, NotLoaded, EvidenceInv
<1>5. FileInv
  BY <1>1 DEF InstallInit, AgentInit, FileInv, Whole, Binaries, NoProcess, Process, UpdatePlaces
<1> QED
  BY <1>2, <1>3, <1>4, <1>5 DEF InstallInv

LEMMA InstallNextInv ==
  ASSUME InstallInv, [InstallNext]_installVars
  PROVE  InstallInv'
<1> USE DEF InstallInv
<1>1. CASE InstallStep \/ Killed
  <2>1. UNCHANGED agentVars
    BY <1>1 DEF InstallStep, InstallBegin, StageCopy, BackUp, BeginStopping, CheckTargetAgain,
      Replace, CheckReplaced, InstallFails, SetupEnds, Killed, Alone
  <2>2. AgentInv'
    BY <2>1 DEF agentVars, AgentInv, AgentTypeOK
  <2> QED
    BY <1>1, <2>2, ControlOfInstall, EvidenceOfInstall, FilesOfInstall
<1>2. CASE SetupStep /\ UNCHANGED <<fileVars, existing, mode, updates>>
  <2>1. UNCHANGED staged
    BY <1>2 DEF fileVars
  <2> QED
    BY <1>2, <2>1, SetupAgent, ControlOfSetup, EvidenceOfSetup, FilesOfAgent
<1>3. CASE AgentStep /\ UNCHANGED <<runVars, fileVars, existing, mode, updates>>
  <2>1. target \in Binaries
    BY DEF FileInv, Whole
  <2>2. (\E b \in Binaries : Spawn(b)) \/ \E p \in Pids : StartUp(p)
    BY <1>3, <2>1 DEF AgentStep
  <2>3. AgentInv' /\ UNCHANGED <<loaded, disabled>>
    BY <2>2, SpawnAgent, StartUpAgent
  <2>4. UNCHANGED <<runVars, staged>>
    BY <1>3 DEF fileVars
  <2> QED
    BY <1>3, <2>2, <2>3, <2>4, ControlOfOthers, EvidenceOfAgent, FilesOfAgent
<1>4. ASSUME NEW u \in Updates, UpdateStep(u)
      PROVE  InstallInv'
  <2>1. UNCHANGED <<runVars, staged, mode>>
    BY <1>4 DEF UpdateStep, VerifyUpdate, RemoveOld, StageCurrent, Swap, Rollback, CleanUp,
      RestartWorkerAgent, UpdateStops, UpdateAlone
  <2>2. /\ AgentInv' /\ UNCHANGED <<loaded, disabled, log, marker>>
        /\ pid' = 0 \/ pid' = pid
        /\ \A q \in Pids : /\ procs[q].state # "none" => procs'[q].state # "none"
                           /\ pid' = q => procs'[q] = procs[q]
    BY <1>4, UpdateAgent
  <2>3. pid' = 0 \/ (pid' = pid /\ procs'[pid] = procs[pid])
    BY <2>2 DEF AgentInv, AgentTypeOK
  <2>4. EvidenceInv'
    BY <2>1, <2>2, <2>3, EvidenceOfOthers DEF runVars
  <2> QED
    BY <1>4, <2>1, <2>2, <2>4, ControlOfOthers, FilesOfUpdate
<1>5. CASE UNCHANGED installVars
  <2>1. UNCHANGED <<agentVars, runVars, target, staged, backup, old, existing, mode, updates>>
    BY <1>5 DEF installVars, fileVars
  <2>2. AgentInv'
    BY <2>1 DEF agentVars, AgentInv, AgentTypeOK
  <2>3. FileInv'
    BY <2>1 DEF agentVars, FileInv
  <2>4. ControlInv'
    BY <2>1, ControlOfOthers DEF agentVars
  <2>5. EvidenceInv'
    BY <2>1 DEF agentVars, runVars, EvidenceInv, Known
  <2> QED
    BY <2>2, <2>3, <2>4, <2>5
<1> QED
  BY <1>1, <1>2, <1>3, <1>4, <1>5 DEF InstallNext

LEMMA InstallInvHolds == InstallSpec => []InstallInv
BY InstallInitInv, InstallNextInv, PTL DEF InstallSpec

-----------------------------------------------------------------------------
(* The theorems                                                            *)

\* Every variable keeps its type: a PID that is remembered was a process once, and no
\* staged copy is left behind but by an installer that was killed
\* (cmd/things-index/worker_install.go).
THEOREM InstallTypes == InstallSpec => []InstallTypeOK
<1>1. InstallInv => InstallTypeOK
  <2> SUFFICES ASSUME InstallInv PROVE InstallTypeOK
    OBVIOUS
  <2>1. staged # "none" =>
          pc \notin {"install", "install.copy", "install.recheck"} \cup WizardPlaces
    BY DEF InstallInv, ControlInv, StagedInv, StopsFor, StopPlaces, WizardPlaces
  <2> QED
    BY <2>1 DEF InstallInv, AgentInv, ControlInv, RoundInv, StagedInv, EvidenceInv, Known, FileInv,
      Whole, InstallTypeOK
<1> QED
  BY <1>1, InstallInvHolds, PTL

\* Whatever fails after a stop has begun, in the wizard or in the installer around it:
\* unless the clean-up itself failed, the agent ends disabled and unloaded and no worker
\* goes on (the deferred clean-ups of setup_permissions.go, main.go, worker_install.go).
THEOREM FailuresLeaveStopped == InstallSpec => []FailureLeavesStopped
<1>1. InstallInv => FailureLeavesStopped
  BY DEF InstallInv, AgentInv, AgentTypeOK, Pids, ControlInv, CleanInv, Down, FailureLeavesStopped
<1> QED
  BY <1>1, InstallInvHolds, PTL

\* No worker runs a file that is not whole, and none is put in place, whatever the copies
\* come out as (checkCopy in worker_install.go).
THEOREM WholeBinariesRun == InstallSpec => []OnlyWholeBinariesRun
<1>1. InstallInv => OnlyWholeBinariesRun
  BY DEF InstallInv, FileInv, Whole, OnlyWholeBinariesRun
<1> QED
  BY <1>1, InstallInvHolds, PTL

\* Only the process that has itself opened the database, has consent and is ready is
\* vouched for by a verified start (waitReady in setup_permissions.go).
THEOREM VerifiedStartsAreReady == InstallSpec => VerifiedIsReady
<1> DEFINE Enters == pc' = "setup.verified" /\ pc # pc'
           Shown == procs[watched].phase = "ready" /\ marker = "newer" /\ loaded /\ ~disabled
<1>1. InstallInv /\ [InstallNext]_installVars => (Enters => Shown)
  <2> SUFFICES ASSUME InstallInv, [InstallNext]_installVars, Enters
               PROVE  Shown
    OBVIOUS
  <2>1. pc' # pc => pc' # "setup.verified" \/ ConfirmReady
    <3>1. CASE InstallStep \/ Killed
      BY <3>1 DEF InstallStep, InstallBegin, StageCopy, BackUp, BeginStopping, CheckTargetAgain,
        Replace, CheckReplaced, InstallFails, SetupEnds, Killed, Go, Stop, End
    <3>2. CASE SetupStep
      BY <3>2 DEF SetupStep, StopStatus, StopDisable, StopBootout, StopPoll, StopConfirm,
        StartCheck, ArchiveSetupMarker, SetupLogSnapshot, StartEnable, StartBootstrap, WaitReady,
        PrepareFDA, ReviewAndInstallFiles, Verified, SetupFails, Go, Stop, End, Return
    <3>3. CASE UNCHANGED runVars
      BY <3>3 DEF runVars
    <3>4. ASSUME NEW u \in Updates, UpdateStep(u)
          PROVE  UNCHANGED runVars
      BY <3>4 DEF UpdateStep, VerifyUpdate, RemoveOld, StageCurrent, Swap, Rollback, CleanUp,
        RestartWorkerAgent, UpdateStops, UpdateAlone
    <3> QED
      BY <3>1, <3>2, <3>3, <3>4 DEF InstallNext, installVars
  <2> QED
    BY <2>1 DEF ConfirmReady, InstallInv, ControlInv, PlaceInv, EvidenceInv
<1>2. InstallInv /\ [InstallNext]_installVars => [Enters => Shown]_installVars
  BY <1>1
<1> QED
  BY <1>2, InstallInvHolds, PTL DEF InstallSpec, VerifiedIsReady

-----------------------------------------------------------------------------
(* One self-update at a time                                               *)

LEMMA KeptNext ==
  ASSUME \A u, v \in Updates : u = v, InstallInv, KeptInv, [InstallNext]_installVars
  PROVE  KeptInv'
<1>1. ASSUME UNCHANGED <<old, updates>>, target' = target \/ target' \notin {"none"}
      PROVE  KeptInv'
  BY <1>1 DEF KeptInv
<1>2. CASE InstallStep \/ Killed
  <2>1. /\ UNCHANGED <<old, updates>>
        /\ target' = target \/ (pc = "install.replace" /\ target' = staged)
    BY <1>2 DEF InstallStep, InstallBegin, StageCopy, BackUp, BeginStopping, CheckTargetAgain,
      Replace, CheckReplaced, InstallFails, SetupEnds, Killed, Alone, fileVars
  <2> QED
    BY <1>1, <2>1 DEF InstallInv, ControlInv, StagedInv
<1>3. CASE UNCHANGED <<fileVars, updates>>
  BY <1>1, <1>3 DEF fileVars
<1>4. ASSUME NEW u \in Updates, UpdateStep(u)
      PROVE  KeptInv'
  <2>1. updates \in [Updates -> UpdatePlaces]
    BY DEF InstallInv, FileInv
  <2>2. SUFFICES /\ updates'[u] \in {"clear", "stage", "clean", "restart"} => target' # "none"
                 /\ updates'[u] \in {"swap", "rollback"} => old' # "none"
                 /\ updates'[u] = "ended" => {target', old'} # {"none"}
    BY DEF KeptInv
  <2>3. /\ updates[u] \in {"clear", "stage", "clean", "restart"} => target # "none"
        /\ updates[u] \in {"swap", "rollback"} => old # "none"
    BY DEF KeptInv
  <2> QED
    BY <1>4, <2>1, <2>3 DEF UpdateStep, VerifyUpdate, RemoveOld, StageCurrent, Swap, Rollback,
      CleanUp, RestartWorkerAgent, UpdateStops, UpdateGoes, UpdatePlaces
<1> QED
  BY <1>2, <1>3, <1>4 DEF InstallNext, installVars

\* While no two self-updates run, there is at every instant a whole executable to run or
\* to go back to, whatever an installer does and wherever either is killed (update.go).
THEOREM OneUpdateKeepsABinary ==
  ASSUME \A u, v \in Updates : u = v
  PROVE  InstallSpec => []ABinaryIsKept
<1>1. InstallInit => KeptInv
  BY DEF InstallInit, KeptInv
<1>2. InstallInv /\ KeptInv /\ [InstallNext]_installVars => KeptInv'
  BY KeptNext
<1>3. InstallInv /\ KeptInv => ABinaryIsKept
  <2> SUFFICES ASSUME InstallInv, KeptInv, NEW u \in Updates, updates[u] # "verify"
               PROVE  {target, old} # {"none"}
    BY DEF ABinaryIsKept
  <2> QED
    BY DEF InstallInv, FileInv, UpdatePlaces, KeptInv
<1> QED
  BY <1>1, <1>2, <1>3, InstallInvHolds, PTL DEF InstallSpec

=============================================================================
