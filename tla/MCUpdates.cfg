\* Two calls of update_things_task with the same request from two sessions, or one after
\* the other, while the user edits the task once and a day ends.  The requests and tasks
\* (MCTaskUpdate) cover a schedule, tags, a checklist and a text to append.
\* Every call is answered in the end, so runs stop.
CONSTANTS
  Sessions = {s1, s2}
  Requests <- MCRequests
  Tasks <- MCTasks
  Edits <- MCEdits
  Schedules <- MCSchedules
  LastDay = 2
  MaxCalls = 2
  MaxEdits = 1

SPECIFICATION UpdateSpec
SYMMETRY Symmetry
CHECK_DEADLOCK FALSE

INVARIANTS
  UpdateTypeOK
  NothingSeenIsOverwritten
  AppendedOnce
  DoneIsReal
  NoSelfConflict
  OneWriteSuffices
