\* One worker, one job, two faults, and fair scheduling.  Tokens are
\* drawn again once nothing carries them, so a job never waits for one for ever.
\* No symmetry: a liveness property is checked.
\* A settled job leaves nothing to do, so runs stop.
CONSTANTS
  Ids = {j1}
  Payloads = {p1}
  Results = {x1, x2}
  Tokens = {t1, t2, t3}
  Workers = {w1}
  None = None
  MaxAttempts = 2
  MaxClock = 0
  MaxAsks = 1
  MaxFaults = 2

SPECIFICATION FairDeliverySpec
CHECK_DEADLOCK FALSE

PROPERTIES
  JobsSettle
