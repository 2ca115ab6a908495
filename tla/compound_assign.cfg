SPECIFICATION Spec
CONSTANTS
  Leaves <- MCLeaves
  Symbols <- MCSymbols
  Shaders <- Compound
  Counter = 1
INVARIANT Faithful
CHECK_DEADLOCK FALSE
