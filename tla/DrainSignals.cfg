\* A job waits behind the running one when the shutdown begins.
SPECIFICATION Spec
CONSTANTS
  Jobs = {j1, j2}
  NoJob = NoJob
  QueueMax = 2
  MaxSpreads = 1
  CleanupMayRaise = FALSE
INVARIANTS
  DrainSignalsRunningJobs
