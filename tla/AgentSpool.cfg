SPECIFICATION Spec
CONSTANTS
  Logs <- Mixed
  Modes <- Both
  BatchMax = 2
  Budgets = {1, 3}
  Overtake = FALSE
  MaxContents = 2
  MaxFaults = 1
INVARIANTS
  CursorNeverLeads
  NamesAreLines
PROPERTIES
  NothingDropped
  OldestFirst
  EventsAreSpooled
  SpoolDrains
CHECK_DEADLOCK FALSE
