SPECIFICATION Spec
CONSTANTS
  Pasts <- All
  MaxBatch = 1
INVARIANTS
  UploadedOnce
  ShownIsLastReport
PROPERTY
  EverythingArrives
CHECK_DEADLOCK FALSE
