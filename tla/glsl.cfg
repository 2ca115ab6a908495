SPECIFICATION RunSpec
CONSTANTS
  Shapes <- AllShapes
  Input <- Uniform
  LeftOut <- AllLeftOut
  MaxRounds = 2
INVARIANTS TypeOK Scoped Distinct Faithful
CHECK_DEADLOCK FALSE
