SPECIFICATION ApartSpec
CONSTANTS
  MaxText = 6
  Statements = {"stmt", "discard", "break", "continue", "return"}
  LoopForms <- LoopKinds
  SwitchBodies <- NoBodies
  FlowInitializers = FALSE
  HelperFunctions = FALSE
  MaxLoops = 1
  Unroll = TRUE
  PlainTests = {FALSE}
  PlainBreaks = TRUE
INVARIANTS RunsAsGraph KeepsBehaviour Supported NeverAsserts
