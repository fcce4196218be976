SPECIFICATION FairSpec
CONSTANTS
  good = good  bad = bad  other = other  worse = worse
  Silent = Silent
  Event = {good, bad, worse}
  Sources <- OneSource
  Foreign <- BadKeys
  Invalid <- WorseKeys
  ChunkLines = 3
  BatchSize = 2
  RunChunks = 1
  MaxRounds = 3
  MaxReported = 1
  QuarantineCap = 1
  ErrorAfter = 2
  MaxLines = 3
  MaxGens = 1
  MaxFaults = 1
PROPERTIES
  EverythingSettles
  EveryCursorCatchesUp
