CONSTANTS
  MissPenalty = 2
  MaxCycles = 40
SPECIFICATION PredictorSpec
INVARIANT TwoBitsCompetitive
CHECK_DEADLOCK FALSE
