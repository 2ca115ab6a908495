SPECIFICATION RunSpec
CONSTANTS
  Shapes <- Renamed
  Input <- Uniform
  LeftOut <- AllLeftOut
  MaxRounds = 0
INVARIANT Distinct
CHECK_DEADLOCK FALSE
