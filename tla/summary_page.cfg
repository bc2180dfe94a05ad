CONSTANTS
  year = year
  month = month
  Queries <- BothQueries
  Default = year
  Tables <- SmallTables
  MaxAsks = 3
  None = None
SPECIFICATION FairSpec
INVARIANTS TypeOK StaleOnlyIfOvertaken StuckOnlyAfterFailure BarsTile
PROPERTIES Settles
CHECK_DEADLOCK FALSE
