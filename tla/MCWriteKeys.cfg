\* A key that comes back with another kind of request, with a retained or a pruned
\* journal; captures compete for the identifier.
CONSTANTS
  Ids = {j1}
  Payloads = {nat, upd, app, cap}
  Natives = {nat}
  Projects = {}
  Updates = {upd, app}
  Appends = {app}
  Results = {x1, x2}
  Tokens = {t1, t2, t3}
  Workers = {w1}
  None = None
  MaxAttempts = 2
  MaxClock = 0
  MaxAsks = 2
  MaxFaults = 1

SPECIFICATION MutationSpec
SYMMETRY Symmetry
CHECK_DEADLOCK FALSE

INVARIANTS
  UnsafeSentOnce
  SavedOutcomeStands
  OneKindPerIdentifier
PROPERTIES
  ReportedWhenKept
