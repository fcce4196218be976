SPECIFICATION Spec
CONSTANTS
  Logs <- Plain
  Modes <- Replay
  BatchMax = 1
  Budgets = {1}
  Overtake = TRUE
  MaxContents = 2
  MaxFaults = 1
INVARIANT OneLinePerName
CHECK_DEADLOCK FALSE
