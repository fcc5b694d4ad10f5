\* Every command line, every oracle under which the program needs a preemption to fail.
CONSTANTS
  Points <- MCPoints
  Verdicts <- VerdictsNeedingPreemption
  Configs <- AllConfigs
  Runtimes <- FixedPoint
  MaxRounds = 2
  NoFile = NoFile
SPECIFICATION Spec
INVARIANT TypeOK
INVARIANT TargetEndpointMatches
PROPERTY Termination
CHECK_DEADLOCK FALSE
