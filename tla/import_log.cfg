CONSTANTS
  p1 = p1
  p2 = p2
  c1 = c1
  c2 = c2
  None = None
  Importers <- Two
  Records <- OneRecord
  Opened <- Opening
  Clock <- Clocks
  Day = 24
  Entries <- ThreeEntries
  Ranges <- AnyRange
  Cad <- TwoCads
  Logs <- Pairs
  Wanted <- OnlyC1
  MaxStarts = 3
SPECIFICATION Spec
INVARIANTS TypeOK RecordsWhole ScanFollowsLog
SYMMETRY Symmetric
CHECK_DEADLOCK FALSE
