------------------------------ MODULE LaunchAgent -----------------------------
(***************************************************************************)
(* The worker's launch agent as setup sees it: launchd (external), which   *)
(* starts the worker when the agent is loaded and again whenever it dies,  *)
(* and of the worker process its start-up (internal/workerapp): the lines  *)
(* it logs and the marker it leaves once it has Automation consent.        *)
(*                                                                         *)
(* A process that is told to end may still finish the step it is in.       *)
(***************************************************************************)
EXTENDS Naturals

CONSTANT MaxPid    \* bound: worker processes launchd starts

ASSUME PidAssumption == MaxPid \in Nat \ {0}

VARIABLES
  loaded, disabled,   \* the agent: loaded into the session, disabled by override
  pid,                \* its process, 0 when there is none
  procs,              \* every process started so far
  log,                \* what the error log has gained since setup last took its length
  marker              \* automation-consent-granted: none, or older or newer than that

agentVars == <<loaded, disabled, pid, procs, log, marker>>

Pids == 1 .. MaxPid
Phases == {"booting", "started", "database", "consented", "ready"}
Binaries == {"none", "original", "installed", "updated", "broken"}

Process(state, phase, binary) == [state |-> state, phase |-> phase, binary |-> binary]
NoProcess == Process("none", "booting", "none")
DeadProcess == Process("dead", "booting", "none")

\* Of the log only the number of starts counts, and what came after the first.
EmptyLog == [starts |-> 0, after |-> {}]
\* Before setup takes its length, the log may hold anything; nobody reads it.
FullLog == [starts |-> 2, after |-> {"database", "consent", "ready"}]

AgentTypeOK ==
  /\ loaded \in BOOLEAN /\ disabled \in BOOLEAN
  /\ pid \in Pids \cup {0}
  /\ procs \in [Pids -> [state : {"none", "alive", "dying", "dead"}, phase : Phases,
                         binary : Binaries]]
  /\ log \in [starts : 0 .. 2, after : SUBSET {"database", "consent", "ready"}]
  /\ marker \in {"none", "older", "newer"}
  /\ pid # 0 => loaded /\ procs[pid].state = "alive"

\* The agent is not installed, or runs, or was left disabled by an earlier setup.
AgentInit ==
  /\ loaded \in BOOLEAN
  /\ disabled \in (IF loaded THEN {FALSE} ELSE BOOLEAN)
  /\ pid = IF loaded THEN 1 ELSE 0
  /\ procs = [p \in Pids |-> IF loaded /\ p = 1 THEN Process("alive", "booting", "original")
                                              ELSE NoProcess]
  /\ log = FullLog
  /\ marker \in {"none", "older"}

-----------------------------------------------------------------------------
(* launchctl                                                               *)

Disable == disabled' = TRUE /\ UNCHANGED <<loaded, pid, procs, log, marker>>
Enable == disabled' = FALSE /\ UNCHANGED <<loaded, pid, procs, log, marker>>

\* The service goes at once, its process when it has ended.
Bootout ==
  /\ loaded
  /\ loaded' = FALSE /\ pid' = 0
  /\ procs' = [p \in Pids |-> IF p = pid THEN [procs[p] EXCEPT !.state = "dying"] ELSE procs[p]]
  /\ UNCHANGED <<disabled, log, marker>>

Bootstrap ==
  /\ ~loaded /\ ~disabled
  /\ loaded' = TRUE
  /\ UNCHANGED <<disabled, pid, procs, log, marker>>

\* launchd starts the program that is in place.
Spawn(binary) ==
  /\ loaded /\ pid = 0 /\ binary # "none"
  /\ \E p \in Pids :
       /\ procs[p] = NoProcess
       /\ \A q \in Pids : q < p => procs[q] # NoProcess
       /\ pid' = p
       /\ procs' = [procs EXCEPT ![p] = Process("alive", "booting", binary)]
  /\ UNCHANGED <<loaded, disabled, log, marker>>

-----------------------------------------------------------------------------
(* The worker starting up                                                  *)

Running(p) == procs[p].state \in {"alive", "dying"}

Reach(p, phase) ==
  procs' = [procs EXCEPT ![p] = IF @.state = "dying" THEN DeadProcess ELSE [@ EXCEPT !.phase = phase]]

LogLine(line) ==
  log' = [log EXCEPT !.after = IF log.starts = 0 THEN @ ELSE @ \cup {line}]

LogStart(p) ==
  /\ Running(p) /\ procs[p].phase = "booting"
  /\ Reach(p, "started")
  /\ log' = [log EXCEPT !.starts = IF @ < 2 THEN @ + 1 ELSE @]
  /\ UNCHANGED <<loaded, disabled, pid, marker>>

DatabaseOK(p) ==
  /\ Running(p) /\ procs[p].phase = "started"
  /\ Reach(p, "database")
  /\ LogLine("database")
  /\ UNCHANGED <<loaded, disabled, pid, marker>>

\* ensureAutomationConsent: only without a marker is consent asked for, and logged.
HaveConsent(p) ==
  /\ Running(p) /\ procs[p].phase = "database"
  /\ Reach(p, "consented")
  /\ IF marker = "none" THEN LogLine("consent") /\ marker' = "newer"
                        ELSE UNCHANGED <<log, marker>>
  /\ UNCHANGED <<loaded, disabled, pid>>

\* With a cancelled context the journal cannot be pruned.  That the context is cancelled in
\* the instant between the pruning and this line is left out.
GetReady(p) ==
  /\ procs[p].state = "alive" /\ procs[p].phase = "consented"
  /\ Reach(p, "ready")
  /\ LogLine("ready")
  /\ UNCHANGED <<loaded, disabled, pid, marker>>

Die(p) ==
  /\ Running(p)
  /\ procs' = [procs EXCEPT ![p] = DeadProcess]
  /\ pid' = IF pid = p THEN 0 ELSE pid
  /\ UNCHANGED <<loaded, disabled, log, marker>>

StartUp(p) == LogStart(p) \/ DatabaseOK(p) \/ HaveConsent(p) \/ GetReady(p) \/ Die(p)

=============================================================================
