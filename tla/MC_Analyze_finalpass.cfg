CONSTANTS
  Points <- MCPoints
  Verdicts <- VerdictsNeedingPreemption
  Configs <- MinimizeConfigs
  Runtimes <- FixedPoint
  MaxRounds = 2
  NoFile = NoFile
SPECIFICATION Spec
INVARIANT FinalPassReproducerPasses
CHECK_DEADLOCK FALSE
