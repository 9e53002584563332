\* One job, one worker polling: the lease lapses while a lease request is in its
\* long poll, after the expiry sweep that request began with.
\* Tokens are used up in the end, so runs stop.
CONSTANTS
  Keys = {}
  Callers = {c1}
  Ids = {c1}
  Payloads = {p1}
  Results = {r1}
  Tokens = {t1, t2, t3, t4}
  Pollers = {h1}
  Reporters = {w1}
  None = None
  MaxAttempts = 2
  MaxClock = 0

SPECIFICATION Spec
SYMMETRY Symmetry
CHECK_DEADLOCK FALSE

INVARIANTS
  AttemptsWithinMax
