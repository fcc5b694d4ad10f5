CONSTANTS
  Points <- MCPoints
  Verdicts <- VerdictsNeedingPreemption
  Configs <- Run2SeedConfigs
  Runtimes <- FixedPoint
  MaxRounds = 2
  NoFile = NoFile
SPECIFICATION Spec
INVARIANT BaselineEndpointFails
CHECK_DEADLOCK FALSE
