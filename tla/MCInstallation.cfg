\* An installer or the wizard alone, against launchd, a worker that may die at any
\* time, and one self-update.  Three processes: one for each of the two verified
\* starts, and one that ran before or that launchd starts in between.
SPECIFICATION InstallSpec
CONSTANTS
  MaxPid = 3
  Updates = {u1}
INVARIANTS
  InstallTypeOK
  FailureLeavesStopped
  OnlyWholeBinariesRun
  ABinaryIsKept
PROPERTY VerifiedIsReady
\* Everything ends: no worker can be started any more, or none is to be.
CHECK_DEADLOCK FALSE
