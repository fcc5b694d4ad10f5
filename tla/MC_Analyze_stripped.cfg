CONSTANTS
  Points <- MCPoints
  Verdicts <- AllVerdicts
  Configs <- StrippedBaselineConfigs
  Runtimes <- FixedPoint
  MaxRounds = 2
  NoFile = NoFile
SPECIFICATION Spec
INVARIANT BaselineEndpointFails
CHECK_DEADLOCK FALSE
