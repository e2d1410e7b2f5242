\* The clean-up of an aborted capture may raise an exception of its own.
SPECIFICATION LiveSpec
CONSTANTS
  Jobs = {j1, j2}
  NoJob = NoJob
  QueueMax = 2
  MaxSpreads = 1
  CleanupMayRaise = TRUE
PROPERTIES
  ShutdownCompletes
