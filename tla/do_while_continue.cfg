SPECIFICATION RunSpec
CONSTANTS
  MaxText = 5
  Statements = {"stmt", "continue"}
  LoopForms <- DoWhileLoops
  SwitchBodies <- NoBodies
  FlowInitializers = FALSE
  HelperFunctions = FALSE
INVARIANT FaithfulRun
