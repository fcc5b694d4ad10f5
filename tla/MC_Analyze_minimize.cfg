CONSTANTS
  Points <- MCPoints
  Verdicts <- VerdictsNeedingPreemption
  Configs <- MinimizeConfigs
  Runtimes <- FixedPoint
  MaxRounds = 2
  NoFile = NoFile
SPECIFICATION Spec
INVARIANT BaselineEndpointFails
INVARIANT EndpointsOneKnockoutApart
CHECK_DEADLOCK FALSE
