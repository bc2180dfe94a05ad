CONSTANTS
  p1 = p1
  p2 = p2
  c1 = c1
  c2 = c2
  None = None
  Importers <- One
  Records <- NoRecords
  Opened <- NoOpening
  Clock <- NoClocks
  Day = 24
  Entries <- ThreeEntries
  Ranges <- WholeLog
  Cad <- OneCad
  Logs <- AllLogs
  Wanted <- OnlyC1
  MaxStarts = 2
SPECIFICATION Spec
INVARIANTS VerificationIsOfLog
CHECK_DEADLOCK FALSE
