\* Every phase 4 branch against runtimes that miss the fixed point on one record.
CONSTANTS
  Points <- MCPoints
  Verdicts <- VerdictsNeedingPreemption
  Configs <- NoSelfcheckConfigs
  Runtimes <- OneDeviation
  MaxRounds = 2
  NoFile = NoFile
SPECIFICATION Spec
INVARIANT TargetEndpointMatches
CHECK_DEADLOCK FALSE
