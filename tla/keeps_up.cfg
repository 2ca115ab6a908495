SPECIFICATION LiveSpec
CONSTANTS
  MaxText = 5
  Statements = {"stmt", "discard", "break", "return"}
  LoopForms <- EveryLoop
  SwitchBodies <- EveryBody
  FlowInitializers = TRUE
  HelperFunctions = TRUE
PROPERTIES KeepsUp SealedBlocks
INVARIANTS FaithfulRun TypeOK StacksFollowTree NoBlockForgotten WellBuilt
