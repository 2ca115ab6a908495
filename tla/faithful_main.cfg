SPECIFICATION RunSpec
CONSTANTS
  MaxText = 6
  Statements = {"stmt", "discard", "break", "continue", "return"}
  LoopForms <- TestFirst
  SwitchBodies <- MCBodies
  FlowInitializers = FALSE
  HelperFunctions = FALSE
INVARIANT FaithfulRun
