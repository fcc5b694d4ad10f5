CONSTANTS
  Points <- MCPoints
  Verdicts <- VerdictsNeedingPreemption
  Configs <- Run2PreemptsConfigs
  Runtimes <- FixedPoint
  MaxRounds = 2
  NoFile = NoFile
SPECIFICATION Spec
INVARIANT BaselineTraceRecorded
CHECK_DEADLOCK FALSE
