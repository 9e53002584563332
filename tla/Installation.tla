------------------------------ MODULE Installation ----------------------------
(***************************************************************************)
(* Replacing the worker's executable under its launch agent: install-worker*)
(* (cmd/things-index/worker_install.go), which runs the setup wizard of    *)
(* WorkerSetup from the new file unless told not to, and the self-update   *)
(* (update.go), which may run at the same time.  The wizard may also be    *)
(* run alone.                                                              *)
(*                                                                         *)
(* A file is known by what it holds.  A copy may come out wrong.           *)
(***************************************************************************)
EXTENDS WorkerSetup

CONSTANT Updates    \* processes that run things-index update

VARIABLES
  target, staged, backup, old,   \* the executable, the two copies, and the .old file
  existing,                      \* what the installer found at the target
  mode,                          \* the command that was run
  updates                        \* where each update is

fileVars == <<target, staged, backup, old>>
installVars == <<agentVars, runVars, fileVars, existing, mode, updates>>

UpdatePlaces ==
  {"verify", "clear", "stage", "swap", "rollback", "clean", "restart", "ended"}

\* A .old file may be left by an update that was killed.
InstallInit ==
  /\ AgentInit /\ RunInit
  /\ target \in (IF loaded THEN {"original"} ELSE {"none", "original"})
  /\ staged = "none" /\ backup = "none" /\ old \in {"none", "original"} /\ existing = "none"
  /\ mode \in {"install", "install-no-setup"}
                \cup (IF target = "none" THEN {} ELSE {"setup"})
  /\ pc = IF mode = "setup" THEN "setup" ELSE "install"
  /\ updates = [u \in Updates |-> "verify"]

Alone == UNCHANGED <<agentVars, updates, mode>>

-----------------------------------------------------------------------------
(* workerInstaller.install                                                 *)

InstallBegin ==
  /\ pc = "install"
  /\ existing' = target
  /\ Go("install.copy")
  /\ UNCHANGED fileVars /\ Alone

StageCopy ==
  /\ pc = "install.copy"
  /\ staged' \in {"installed", "broken"}
  /\ Go("install.backup")
  /\ UNCHANGED <<target, backup, old, existing>> /\ Alone

\* Mutant: a copy is not checked.
Unchecked(file) == file # "none"

\* checkCopy: the hash of the source, its signature, no quarantine.
CheckCopy(file) == file = "installed"

BackUp ==
  /\ pc = "install.backup"
  /\ CheckCopy(staged)
  /\ backup' \in {target, "broken"} /\ backup' = existing
  /\ Go("install.staged")
  /\ UNCHANGED <<target, staged, old, existing>> /\ Alone

UnchangedTarget == target = existing

BeginStopping ==
  /\ pc = "install.staged" /\ UnchangedTarget
  /\ Stop("install")
  /\ UNCHANGED <<failed, existing, fileVars>> /\ Alone

CheckTargetAgain ==
  /\ pc = "install.stopped" /\ UnchangedTarget
  /\ Go("install.replace")
  /\ UNCHANGED <<existing, fileVars>> /\ Alone

\* Mutant: the staged copy is copied once more.
ReplaceByCopy ==
  /\ pc = "install.replace"
  /\ target' = staged
  /\ Go("install.recheck")
  /\ UNCHANGED <<staged, backup, old, existing>> /\ Alone

Replace ==
  /\ pc = "install.replace"
  /\ target' = staged /\ staged' = "none"
  /\ Go("install.recheck")
  /\ UNCHANGED <<backup, old, existing>> /\ Alone

CheckReplaced ==
  /\ pc = "install.recheck" /\ CheckCopy(target)
  /\ IF mode = "install" THEN Go("setup") ELSE End /\ UNCHANGED <<failed, clean>>
  /\ UNCHANGED <<existing, fileVars>> /\ Alone

InstallerRuns == mode # "setup"

\* Where the installer is once it has begun stopping: its clean-up runs from then on.
Stopping ==
  (IF caller = "install" THEN StopPlaces ELSE {})
    \cup {"install.stopped", "install.replace", "install.recheck"}

\* A copy, a check, a command fails, or the user interrupts.
InstallFails ==
  /\ \/ /\ pc \in Stopping
        /\ Stop("install-failed") /\ failed' = TRUE
     \/ /\ pc \in {"install", "install.copy", "install.backup", "install.staged"}
        /\ End /\ failed' = TRUE /\ UNCHANGED clean
     \/ /\ pc \in StopPlaces /\ caller = "install-failed"
        /\ End /\ clean' = FALSE /\ UNCHANGED failed
  /\ staged' = IF pc \in StopPlaces /\ caller = "install-failed" THEN staged ELSE "none"
  /\ UNCHANGED <<target, backup, old, existing>> /\ Alone

WizardRuns ==
  \/ pc \in WizardPlaces \cup StartPlaces
  \/ pc \in StopPlaces /\ caller \notin {"install", "install-failed"}

\* The wizard is done, or failed, or Ctrl-C made the installer kill it where it was.
SetupEnds ==
  /\ \/ pc = "setup.done" /\ End /\ UNCHANGED <<failed, clean>>
     \/ pc = "setup.failed" /\ mode = "setup" /\ End /\ UNCHANGED <<failed, clean>>
     \/ pc = "setup.failed" /\ InstallerRuns /\ Stop("install-failed") /\ UNCHANGED failed
     \/ WizardRuns /\ InstallerRuns /\ Stop("install-failed") /\ failed' = TRUE
  /\ UNCHANGED <<existing, fileVars>> /\ Alone

InstallStep ==
  \/ InstallBegin \/ StageCopy \/ BackUp \/ BeginStopping \/ CheckTargetAgain
  \/ Replace \/ CheckReplaced \/ InstallFails \/ SetupEnds

\* kill -9, or the Mac loses power: nothing is cleaned up.
Killed ==
  /\ pc # "ended"
  /\ End /\ failed' = TRUE /\ clean' = FALSE
  /\ UNCHANGED <<existing, fileVars>> /\ Alone

-----------------------------------------------------------------------------
(* runUpdate                                                               *)

UpdateGoes(u, from, to) == updates[u] = from /\ updates' = [updates EXCEPT ![u] = to]
UpdateAlone == UNCHANGED <<runVars, staged, backup, existing, mode>>

\* The update runs from the target, which it has found; the download has been verified.
VerifyUpdate(u) ==
  /\ UpdateGoes(u, "verify", "clear") /\ target # "none"
  /\ UNCHANGED <<target, old, agentVars>> /\ UpdateAlone

RemoveOld(u) ==
  /\ UpdateGoes(u, "clear", "stage")
  /\ old' = "none"
  /\ UNCHANGED <<target, agentVars>> /\ UpdateAlone

\* Mutant: the current executable is removed, not renamed.
RemoveCurrent(u) ==
  /\ UpdateGoes(u, "stage", "swap") /\ target # "none"
  /\ target' = "none"
  /\ UNCHANGED <<old, agentVars>> /\ UpdateAlone

StageCurrent(u) ==
  /\ UpdateGoes(u, "stage", "swap") /\ target # "none"
  /\ old' = target /\ target' = "none"
  /\ UNCHANGED agentVars /\ UpdateAlone

Swap(u) ==
  /\ \/ UpdateGoes(u, "swap", "clean") /\ target' = "updated"
     \/ UpdateGoes(u, "swap", "rollback") /\ UNCHANGED target
  /\ UNCHANGED <<old, agentVars>> /\ UpdateAlone

Rollback(u) ==
  /\ UpdateGoes(u, "rollback", "ended") /\ old # "none"
  /\ target' = old /\ old' = "none"
  /\ UNCHANGED agentVars /\ UpdateAlone

CleanUp(u) ==
  /\ UpdateGoes(u, "clean", "restart")
  /\ old' = "none"
  /\ UNCHANGED <<target, agentVars>> /\ UpdateAlone

\* kickstart -k ends the worker's process; launchd starts another.
RestartWorkerAgent(u) ==
  /\ UpdateGoes(u, "restart", "ended")
  /\ IF loaded /\ pid # 0 THEN Die(pid) ELSE UNCHANGED agentVars
  /\ UNCHANGED <<target, old>> /\ UpdateAlone

\* It fails or is killed where it is, once it has the download.
UpdateStops(u) ==
  /\ updates[u] \notin {"verify", "ended"} /\ UpdateGoes(u, updates[u], "ended")
  /\ UNCHANGED <<target, old, agentVars>> /\ UpdateAlone

UpdateStep(u) ==
  \/ VerifyUpdate(u) \/ RemoveOld(u) \/ StageCurrent(u) \/ Swap(u) \/ Rollback(u)
  \/ CleanUp(u) \/ RestartWorkerAgent(u) \/ UpdateStops(u)

-----------------------------------------------------------------------------
AgentStep == Spawn(target) \/ \E p \in Pids : StartUp(p)

InstallNext ==
  \/ InstallStep
  \/ Killed
  \/ SetupStep /\ UNCHANGED <<fileVars, existing, mode, updates>>
  \/ AgentStep /\ UNCHANGED <<runVars, fileVars, existing, mode, updates>>
  \/ \E u \in Updates : UpdateStep(u)

InstallSpec == InstallInit /\ [][InstallNext]_installVars

-----------------------------------------------------------------------------
(* Properties                                                              *)

\* Every variable has its type: a PID that is remembered was a process once, and the
\* staged copy is there until it has become the target, or the installer was killed.
InstallTypeOK ==
  /\ AgentTypeOK
  /\ {target, staged, backup, old, existing} \subseteq Binaries
  /\ staged # "none" => pc \notin {"install", "install.copy", "install.recheck"} \cup WizardPlaces
  /\ found.pid # 0 => procs[found.pid].state # "none"
  /\ watched # 0 => procs[watched].state # "none"
  /\ updates \in [Updates -> UpdatePlaces]
  /\ round \in 0 .. 2

\* What startVerified vouches for is so: the very process it followed has opened the
\* database, got consent of its own and become ready, and the agent is left enabled.
\* Lines of a process that is still ending, or of one launchd started in between, must
\* not be taken for its evidence (setup_permissions.go, waitReady, freshSetupEvidence).
VerifiedIsReady ==
  [][(pc' = "setup.verified" /\ pc # pc') =>
       /\ procs[watched].phase = "ready"
       /\ marker = "newer"
       /\ loaded /\ ~disabled]_installVars

\* Whatever fails once a stop has begun, wherever it fails, and whether the wizard or the
\* installer around it fails: unless the clean-up itself failed (and is reported), the
\* agent ends disabled and unloaded and no worker goes on (the clean-ups deferred by
\* startVerified, runWorkerSetup and install); so it does after install --no-setup.
FailureLeavesStopped ==
  (pc = "ended" /\ begun /\ clean /\ (failed \/ mode = "install-no-setup")) =>
    /\ disabled /\ ~loaded
    /\ \A p \in Pids : procs[p].state # "alive"

\* No worker ever runs, and no executable is ever put in place, that is not one of the
\* verified files, whole: whatever the copy made of it (install's checkCopy).
OnlyWholeBinariesRun ==
  /\ target # "broken"
  /\ \A p \in Pids : procs[p].binary # "broken"

\* There is at every instant a whole executable to run or to go back to ("keep the old
\* binary until the new one is in place, and restore it if the final rename fails",
\* update.go), whatever an installer does at the same time and wherever both are killed.
ABinaryIsKept ==
  (\E u \in Updates : updates[u] # "verify") => {target, old} # {"none"}

=============================================================================
