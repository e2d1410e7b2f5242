\* Two spreads; a token that outlives one slow capture by a tick and would not
\* outlive two; a retention of two polling periods; a prune period of two.
SPECIFICATION Spec
CONSTANTS
  MaxSpreads = 2
  TokenTtl = 8
  Leeway = 1
  StartLimit = 1
  NavTimeout = 1
  ReadyTimeout = 1
  Retention = 4
  PruneInterval = 2
  PollMax = 2
  Step = 1
  Lag = 1
  MaxTime = 13
INVARIANTS
  TypeOK
  TokenOutlivesRender
  KeptForRetention
  ForgottenInTime
  NoResultIsMissed
