\* Expected violation: of two self-updates the second removes, as its .old file, the only
\* copy the first has kept.  One worker process is enough: it plays no part.
SPECIFICATION InstallSpec
CONSTANTS
  MaxPid = 1
  Updates = {u1, u2}
SYMMETRY Symmetry
INVARIANT ABinaryIsKept
CHECK_DEADLOCK FALSE
