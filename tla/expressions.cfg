SPECIFICATION Spec
CONSTANTS
  Leaves <- MCLeaves
  Symbols <- MCSymbols
  Shaders <- MCShaders
  Counter = 1
INVARIANTS TypeOK Faithful OutputsWritten NeverAsserts
CHECK_DEADLOCK FALSE
