SPECIFICATION Spec
CONSTANTS
  good = good  bad = bad  other = other  worse = worse
  Silent = Silent
  Event = {good, bad}
  Sources <- OneSource
  Foreign <- BadKeys
  Invalid <- NoKeys
  ChunkLines = 2
  BatchSize = 2
  RunChunks = 2
  MaxRounds = 1
  MaxReported = 1
  QuarantineCap = 1
  ErrorAfter = 2
  MaxLines = 3
  MaxGens = 2
  MaxFaults = 1
INVARIANTS
  TypeOK
  DeliveryInv
  CommittedIsSettled
  CacheCoversCursor
  OnlyRefusableIsSkipped
  PendingHasNoData
PROPERTIES
  NeverGoesBack
  ImplementsQueue
