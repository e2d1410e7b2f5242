\* Requests of one spread are enough.
SPECIFICATION Spec
CONSTANTS
  MaxSpreads = 1
INVARIANTS
  ReportedIntentIsEmbedded
CHECK_DEADLOCK FALSE
