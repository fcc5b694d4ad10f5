\* --selfcheck runs against runtimes that miss the fixed point on one record.
CONSTANTS
  Points <- MCPoints
  Verdicts <- VerdictsNeedingPreemption
  Configs <- SelfcheckConfigs
  Runtimes <- OneDeviation
  MaxRounds = 2
  NoFile = NoFile
SPECIFICATION Spec
INVARIANT TargetEndpointMatches
INVARIANT SelfcheckSound
CHECK_DEADLOCK FALSE
