\* Three ids and a queue of two under fairness: the renderer and the storage
\* service may never answer, the process may be killed and restarted.
SPECIFICATION LiveSpec
CONSTANTS
  Jobs = {j1, j2, j3}
  NoJob = NoJob
  QueueMax = 2
  MaxSpreads = 2
  CleanupMayRaise = FALSE
PROPERTIES
  AcceptedJobsAreServed
  RunsEnd
  FullQueueDrains
  ShutdownCompletes
