\* Every pair of distinct feasible target/baseline schedules, every oracle.
CONSTANTS
  Threads <- MCThreads
  Depth = 2
  MaxProbes = 6
  None = None
SPECIFICATION Spec
INVARIANT TypeOK
INVARIANT ReportedStacksAreRacingPair
PROPERTY ImplementsCriticalPair
CHECK_DEADLOCK FALSE
