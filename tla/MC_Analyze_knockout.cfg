CONSTANTS
  Points <- MCPoints
  Verdicts <- AllVerdicts
  Configs <- MinimizeConfigs
  Runtimes <- FixedPoint
  MaxRounds = 2
  NoFile = NoFile
SPECIFICATION Spec
PROPERTY Termination
CHECK_DEADLOCK FALSE
