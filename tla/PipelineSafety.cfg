\* Every request of up to three spreads, split or not, RGB, bundled or customer
\* profile, with every outcome of every stage and a cancel, a timeout and a
\* shutdown at every suspension.
SPECIFICATION WorkdirSpec
CONSTANTS
  MaxSpreads = 3
INVARIANTS
  TypeOK
  ResultAgreesWithProgress
  StagesInOrder
  CompletedIsFaithful
  CancelledStoresNothing
  SpreadFailuresAreIsolated
  NothingLeftBehind
PROPERTIES
  RunJobAdvances
  ImplementsRun
  UsesPutContract
\* One job: when it is over there is nothing left to do.
CHECK_DEADLOCK FALSE
