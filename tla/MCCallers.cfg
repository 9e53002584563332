\* Two calls that may share a key or carry different payloads, against a worker
\* that leases and reports: every interleaving of look-ups, inserts and waits.
\* The clock tells two rows apart, so the older one is leased first.
\* Every call is answered in the end, so runs stop.
CONSTANTS
  Keys = {k1}
  Callers = {c1, c2}
  Ids = {k1, c1, c2}
  Payloads = {p1, p2}
  Results = {r1}
  Tokens = {t1, t2}
  Pollers = {h1}
  Reporters = {w1}
  None = None
  MaxAttempts = 2
  MaxClock = 1

SPECIFICATION Spec
SYMMETRY Symmetry
CHECK_DEADLOCK FALSE

INVARIANTS
  KeysNeverMixPayloads
  AnswersStayTrue
PROPERTIES
  RefinesLifecycle
