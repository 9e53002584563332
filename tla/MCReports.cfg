\* One key whose row may be pruned and asked for again, two reports in flight:
\* late, duplicated and superseded reports against the row and its successor, the fail
\* handler's two statements with lapses, expiries and new leases between them.
\* Every identifier, token and call is used up in the end, so runs stop.
CONSTANTS
  Keys = {k1}
  Callers = {c1, c2}
  Ids = {k1, c1, c2}
  Payloads = {p1}
  Results = {r1, r2}
  Tokens = {t1, t2}
  Pollers = {h1}
  Reporters = {w1, w2}
  None = None
  MaxAttempts = 2
  MaxClock = 0

SPECIFICATION Spec
SYMMETRY Symmetry
CHECK_DEADLOCK FALSE

INVARIANTS
  TypeOK
  AckedCompletionSticks
PROPERTIES
  OutcomesAreFinal
  RequeuedBelowMax
