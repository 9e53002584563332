\* Two processes on one journal, one job of any of the three kinds of write.  A process
\* that stalls for ever stands for one that dies: faults are left to MCWriteKeys.
CONSTANTS
  Ids = {j1}
  Payloads = {prj, upd, app}
  Natives = {prj}
  Projects = {prj}
  Updates = {upd, app}
  Appends = {app}
  Results = {x1, x2}
  Tokens = {t1, t2}
  Workers = {w1, w2}
  None = None
  MaxAttempts = 2
  MaxClock = 0
  MaxAsks = 1
  MaxFaults = 0

SPECIFICATION MutationSpec
SYMMETRY Symmetry
CHECK_DEADLOCK FALSE

INVARIANTS
  MutationTypeOK
  UnsafeSentOnce
  OneTarget
  SavedOutcomeIsReal
PROPERTIES
  KeepsWritePromise
