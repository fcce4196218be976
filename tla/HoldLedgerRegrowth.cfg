SPECIFICATION Spec
CONSTANTS
  x = x  p = p  q = q  ill = ill
  Item = {x}
  Patron = {p}
  NoPatron = NoPatron
  Outcome <- Profiles2
  Static <- Plain
  ChunkLines = 2
  BatchSize = 1
  Regrowth = TRUE
  CursorIsLost = FALSE
  MaxLines = 4
  MaxTime = 2
  MaxFaults = 1
  MaxBoth = 5
INVARIANTS
  ReportMatches
