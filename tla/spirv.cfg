SPECIFICATION Spec
CONSTANTS
  Modules <- MCModules
  Ids <- MCIds
INVARIANTS TypeOK SameGraph WellFormed
PROPERTY Settled
CHECK_DEADLOCK FALSE
