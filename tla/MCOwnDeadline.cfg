\* Expected violation: a to-do in Today because its deadline is due is asked for in Today
\* with a later deadline; the deadline alone is written, the to-do leaves Today, and the
\* update is in conflict with itself.
CONSTANTS
  Sessions = {s1}
  Requests <- MCDeadlineRequests
  Tasks <- MCDueTasks
  Edits <- MCEdits
  Schedules <- MCSchedules
  LastDay = 2
  MaxCalls = 2
  MaxEdits = 0

SPECIFICATION UpdateSpec
CHECK_DEADLOCK FALSE

INVARIANT OwnDeadlineIsNoConflict
