\* Four ids, a queue of two: the queue fills up, jobs are refused, cancelled
\* and pruned while they wait, and the process dies and restarts.
SPECIFICATION Spec
CONSTANTS
  Jobs = {j1, j2, j3, j4}
  NoJob = NoJob
  QueueMax = 2
  MaxSpreads = 2
  CleanupMayRaise = TRUE
SYMMETRY Symmetry
INVARIANTS
  TypeOK
  QueueAccounts
  RunningHasOwner
  NoFlaggedJobWaits
  NoOvertaking
PROPERTIES
  JobsLiveOnce
  NoWorkAfterCancel
  ImplementsContract
