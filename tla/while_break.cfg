SPECIFICATION RunSpec
CONSTANTS
  MaxText = 4
  Statements = {"break"}
  LoopForms <- WhileLoops
  SwitchBodies <- NoBodies
  FlowInitializers = FALSE
  HelperFunctions = FALSE
  MaxLoops = 1
  Unroll = FALSE
  PlainTests = {TRUE}
  PlainBreaks = TRUE
INVARIANTS RunsAsGraph
