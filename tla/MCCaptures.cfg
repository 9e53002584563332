\* Two worker processes on one journal and a key that may be asked for twice, with either
\* of two requests: the lease lapses and the second process takes the job while the first
\* is anywhere in it, or stalls there for ever, or is still in it when the key is asked
\* for again after retention on both sides; and one crash, lost or slow report.
\* Requests are bounded and jobs are settled, so runs stop.
CONSTANTS
  Ids = {j1}
  Payloads = {p1, p2}
  Results = {x1, x2}
  Tokens = {t1, t2, t3}
  Workers = {w1, w2}
  None = None
  MaxAttempts = 2
  MaxClock = 0
  MaxAsks = 2
  MaxFaults = 1

SPECIFICATION DeliverySpec
SYMMETRY Symmetry
CHECK_DEADLOCK FALSE

INVARIANTS
  DeliveryTypeOK
  OneTaskPerJob
  SuccessIsReal
  ReportedMeansKept
PROPERTIES
  KeepsCapturePromise
