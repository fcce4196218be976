SPECIFICATION Spec
CONSTANTS
  Pasts <- All
  HourTicks = 2
  HoursPerDay = 3
  StretchDays = 1
  From = 1
  To = 2
  Listed <- OneThenTwo
  MaxCuts = 2
  CutAt <- Cuts
INVARIANTS
  CountedOnce
  DaysMatch
CHECK_DEADLOCK FALSE
