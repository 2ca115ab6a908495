SPECIFICATION FairSpec
CONSTANTS
  NumShaders = 2
  w1 = w1
  w2 = w2
  Workers <- MCWorkers
  Stages = {1, 2}
  Fates = {"ok", "unreadable", "badParse", "needsRelaxed", "badLink", "unsupported"}
  MayNotStart = TRUE
INVARIANTS TypeOK OneTaker PrintsSettled CleanExit LinkFailureIsolated
PROPERTIES Terminates Implements
CHECK_DEADLOCK FALSE
