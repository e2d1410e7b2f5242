\* Three requests to /healthz, a time to live of two ticks and a clock of four:
\* verdicts expire, probes overlap and are overtaken.  No symmetry: the run
\* checks liveness too.
SPECIFICATION LiveSpec
CONSTANTS
  Requests = {r1, r2, r3}
  TTL = 2
  MaxTime = 4
INVARIANTS
  TypeOK
  ServedVerdictIsRecent
PROPERTIES
  StuckRenderEnds
