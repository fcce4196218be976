SPECIFICATION Spec
CONSTANTS
  x = x  p = p  q = q  ill = ill
  Item = {x}
  Patron = {p}
  NoPatron = NoPatron
  Outcome <- Profiles2
  Static <- Plain
  ChunkLines = 2
  BatchSize = 1
  Regrowth = FALSE
  CursorIsLost = TRUE
  MaxLines = 5
  MaxTime = 2
  MaxFaults = 3
  MaxBoth = 6
INVARIANTS
  StreamMatches
  LedgerIsLastSent
  LedgerFollowsProfiles
  RereadMatches
