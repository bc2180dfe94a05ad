CONSTANTS
  i1 = i1
  i2 = i2
  Incidents <- BothIncidents
  Analyzable <- BothIncidents
  Reach <- ShortLogs
  NumSections = 1
  PostWindow = 1
  UpstreamFallback = 2
  ComputeUpstream = TRUE
  ReplaceExisting = TRUE
  IgnoreUnprocessed = FALSE
  ReprocessExisting = FALSE
  SolverMayFail = FALSE
  MaxRecomputeLoops = 1
  TimeIncrement = 1
  SpaceIncrement = 1
  MaxRuns = 2
  Nobody = Nobody
  NoFile = NoFile
  NoRow = NoRow
SPECIFICATION Spec
INVARIANTS TypeOK OneAnalysis PostComputedIsSound PartialOnlyIfInterrupted RerunRepairs WindowIsOfListing
PROPERTIES EveryRoundWidens
CHECK_DEADLOCK FALSE
