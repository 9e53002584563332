------------------------------ MODULE WorkerSetup -----------------------------
(***************************************************************************)
(* The setup wizard's way with the launch agent: workerSetupLifecycle of   *)
(* cmd/things-index/setup_permissions.go and its use by runWorkerSetup     *)
(* (main.go).  The wizard stops the worker, has its permissions reviewed,  *)
(* starts it and takes only fresh evidence for a start, twice; whatever    *)
(* fails, it leaves the agent stopped and disabled.                        *)
(*                                                                         *)
(* Every step may fail: a command, a check, a dialog, Ctrl-C, a deadline.  *)
(* That a launchctl command fails although it was carried out is the same  *)
(* as the step after it failing.                                           *)
(***************************************************************************)
EXTENDS LaunchAgent

VARIABLES
  pc,       \* where the wizard, or the installer around it, is
  caller,   \* on whose behalf stop runs
  found,    \* the agent's status as stop found it
  touched,  \* the wizard has begun to change the agent
  watched, stable,  \* waitReady: the PID it follows, and its evidence was there before
  round,    \* how many starts have been verified
  failed,   \* an error is on its way to the user
  begun,    \* history: some stop has disabled the agent
  clean     \* the last clean-up, if any, succeeded

runVars == <<pc, caller, found, touched, watched, stable, round, failed, begun, clean>>

NotLoaded == [loaded |-> FALSE, pid |-> 0]

StopPlaces == {"stop.status", "stop.disable", "stop.bootout", "stop.poll", "stop.confirm"}
StartPlaces ==
  {"start.check", "start.archive", "start.snapshot", "start.enable", "start.bootstrap",
   "start.watch", "start.confirm"}
WizardPlaces == {"setup", "setup.grant", "setup.verified"}
Callers == {"install", "prepare", "restart", "start-failed", "setup-failed", "install-failed"}

RunInit ==
  /\ caller = "install" /\ found = NotLoaded
  /\ touched = FALSE
  /\ watched = 0 /\ stable = FALSE /\ round = 0
  /\ failed = FALSE /\ begun = FALSE /\ clean = TRUE

Keep == UNCHANGED <<caller, found, touched, watched, stable, round, failed, begun, clean>>
Go(to) == pc' = to /\ Keep

Stop(for) ==
  /\ pc' = "stop.status" /\ caller' = for
  /\ found' = NotLoaded /\ watched' = 0 /\ stable' = FALSE
  /\ UNCHANGED <<touched, round, begun, clean>>

\* The process is gone, with what it knew.
End ==
  /\ pc' = "ended" /\ caller' = "install" /\ found' = NotLoaded /\ touched' = FALSE
  /\ watched' = 0 /\ stable' = FALSE /\ round' = 0
  /\ UNCHANGED begun

-----------------------------------------------------------------------------
(* stop                                                                    *)

StopStatus ==
  /\ pc = "stop.status"
  /\ pc' = "stop.disable"
  /\ found' = [loaded |-> loaded, pid |-> pid]
  /\ touched' = (touched \/ caller \notin {"install", "install-failed"})
  /\ UNCHANGED <<agentVars, caller, watched, stable, round, failed, begun, clean>>

StopDisable ==
  /\ pc = "stop.disable"
  /\ Disable
  /\ pc' = "stop.bootout" /\ begun' = TRUE
  /\ UNCHANGED <<caller, found, touched, watched, stable, round, failed, clean>>

StopBootout ==
  /\ pc = "stop.bootout"
  /\ IF found.loaded THEN Bootout ELSE UNCHANGED agentVars
  /\ Go("stop.poll")

\* Mutant: an agent that is gone counts as a worker that has ended.
StopPollUnloaded ==
  /\ pc = "stop.poll"
  /\ ~loaded
  /\ Go("stop.confirm")
  /\ UNCHANGED agentVars

StopPoll ==
  /\ pc = "stop.poll"
  /\ ~loaded
  /\ found.pid # 0 => procs[found.pid].state = "dead"
  /\ Go("stop.confirm")
  /\ UNCHANGED agentVars

\* stop returns without an error: its caller goes on.
Return(to) ==
  /\ pc' = to /\ found' = NotLoaded
  /\ UNCHANGED <<caller, touched, watched, stable, round, failed, begun>>

StopConfirm ==
  /\ pc = "stop.confirm" /\ disabled
  /\ \/ caller = "install" /\ Return("install.stopped") /\ UNCHANGED clean
     \/ caller = "prepare" /\ Return("setup.grant") /\ UNCHANGED clean
     \/ caller = "restart" /\ Return("start.check") /\ UNCHANGED clean
     \/ caller = "start-failed" /\ Stop("setup-failed") /\ UNCHANGED failed
     \/ caller = "setup-failed" /\ Return("setup.failed") /\ clean' = TRUE
     \/ caller = "install-failed" /\ End /\ clean' = TRUE /\ UNCHANGED failed
  /\ UNCHANGED agentVars

-----------------------------------------------------------------------------
(* startVerified                                                           *)

StartCheck ==
  /\ pc = "start.check" /\ ~loaded
  /\ Go("start.archive")
  /\ UNCHANGED agentVars

ArchiveSetupMarker ==
  /\ pc = "start.archive"
  /\ marker' = "none"
  /\ Go("start.snapshot")
  /\ UNCHANGED <<loaded, disabled, pid, procs, log>>

SetupLogSnapshot ==
  /\ pc = "start.snapshot"
  /\ log' = EmptyLog
  /\ marker' = IF marker = "newer" THEN "older" ELSE marker
  /\ pc' = "start.enable" /\ watched' = 0 /\ stable' = FALSE
  /\ UNCHANGED <<loaded, disabled, pid, procs, caller, found, touched, round, failed, begun,
                 clean>>

StartEnable == pc = "start.enable" /\ Enable /\ Go("start.bootstrap")
StartBootstrap == pc = "start.bootstrap" /\ Bootstrap /\ Go("start.watch")

\* Mutant: lines of two starts are taken together.
AnyFreshEvidence ==
  log.starts > 0 /\ log.after = {"database", "consent", "ready"} /\ marker = "newer"

FreshSetupEvidence ==
  log.starts = 1 /\ log.after = {"database", "consent", "ready"} /\ marker = "newer"

\* Mutant: the evidence need not stand for two seconds.
AtOnce == TRUE

\* What the two seconds are for: a process that has lived so long has logged its start.
TwoSecondsOld == procs[watched].phase # "booting"

\* One round of waitReady.  Another PID, and a second start in the log, are errors.
WaitReady ==
  /\ pc = "start.watch"
  /\ pid # 0 /\ watched \in {0, pid}
  /\ log.starts < 2
  /\ watched' = pid
  /\ stable' = FreshSetupEvidence
  /\ pc' = IF stable /\ FreshSetupEvidence /\ TwoSecondsOld THEN "start.confirm" ELSE pc
  /\ UNCHANGED <<agentVars, caller, found, touched, round, failed, begun, clean>>

ConfirmReady ==
  /\ pc = "start.confirm" /\ pid = watched
  /\ pc' = "setup.verified" /\ round' = round + 1
  /\ watched' = 0 /\ stable' = FALSE
  /\ UNCHANGED <<agentVars, caller, found, touched, failed, begun, clean>>

-----------------------------------------------------------------------------
(* runWorkerSetup                                                          *)

\* The prompts before prepareFDA change nothing.
PrepareFDA ==
  /\ pc = "setup"
  /\ Stop("prepare")
  /\ UNCHANGED <<agentVars, failed>>

\* The grant, the database, the test task, the Shortcut, the launcher and the plist.
ReviewAndInstallFiles ==
  /\ pc = "setup.grant"
  /\ Go("start.check")
  /\ UNCHANGED agentVars

Verified ==
  /\ pc = "setup.verified"
  /\ \/ round = 1 /\ Stop("restart") /\ UNCHANGED failed
     \/ round = 2 /\ Go("setup.done")
  /\ UNCHANGED agentVars

\* Mutant: a stop that fails half-way does not count as having touched the agent.
TouchedOnceStopped == touched /\ pc \notin StopPlaces

TouchedNow == touched

\* Something fails, and the deferred clean-ups run from the inside out.
SetupFails ==
  /\ \/ pc \in StartPlaces /\ Stop("start-failed") /\ failed' = TRUE
     \/ /\ pc \in WizardPlaces \cup
             (IF caller \in {"prepare", "restart"} THEN StopPlaces ELSE {})
        /\ failed' = TRUE
        /\ IF TouchedNow
             THEN Stop("setup-failed")
             ELSE pc' = "setup.failed" /\ UNCHANGED <<caller, found, touched, watched, stable, round,
                                                      begun, clean>>
     \/ pc \in StopPlaces /\ caller = "start-failed" /\ Stop("setup-failed") /\ UNCHANGED failed
     \/ /\ pc \in StopPlaces /\ caller = "setup-failed"
        /\ pc' = "setup.failed" /\ clean' = FALSE
        /\ UNCHANGED <<caller, found, touched, watched, stable, round, failed, begun>>
  /\ UNCHANGED agentVars

SetupStep ==
  \/ StopStatus \/ StopDisable \/ StopBootout \/ StopPoll \/ StopConfirm
  \/ StartCheck \/ ArchiveSetupMarker \/ SetupLogSnapshot \/ StartEnable \/ StartBootstrap
  \/ WaitReady \/ ConfirmReady
  \/ PrepareFDA \/ ReviewAndInstallFiles \/ Verified
  \/ SetupFails

=============================================================================
