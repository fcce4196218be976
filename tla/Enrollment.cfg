SPECIFICATION Spec
CONSTANTS
  Pasts <- All
  MaxTx = 3
INVARIANTS
  InventoryIsRight
  CodeIsSpentOnce
  OneIdentity
  NothingLiveWhenCancelled
  OnlyKnownCircles
PROPERTIES
  HistoryStays
CHECK_DEADLOCK FALSE
