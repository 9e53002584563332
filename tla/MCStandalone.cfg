\* One job, one retryable failure after the other.  Tokens are used up in the end,
\* so runs stop.
CONSTANTS
  Keys = {}
  Callers = {c1}
  Ids = {c1}
  Payloads = {p1}
  Results = {r1}
  Tokens = {t1, t2, t3}
  Pollers = {}
  Reporters = {}
  None = None
  MaxAttempts = 2
  MaxClock = 0

SPECIFICATION StandaloneSpec
SYMMETRY Symmetry
CHECK_DEADLOCK FALSE

INVARIANTS
  RetriesWithinMax
