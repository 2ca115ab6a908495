SPECIFICATION RunSpec
CONSTANTS
  MaxText = 6
  Statements = {"stmt", "break"}
  LoopForms <- WhileLoops
  SwitchBodies <- NoBodies
  FlowInitializers = FALSE
  HelperFunctions = FALSE
  MaxLoops = 2
  Unroll = FALSE
  PlainTests = {FALSE, TRUE}
  PlainBreaks = FALSE
INVARIANTS RunsAsGraph KeepsBehaviour Supported NeverAsserts LoopsCanBeLeft
