CONSTANTS
  c1 = c1
  c2 = c2
  c3 = c3
  j1 = j1
  j2 = j2
  d1 = d1
  d2 = d2
  NoFile = NoFile
  Clients <- All
  Web <- OnlyC1
  Jobs <- BothJobs
  Places <- BothPlaces
  Job <- SharedJob
  Place <- OwnPlace
  CallsMayFail = TRUE
  SolverOutlives = TRUE
  Optimal <- OnlyWebOptimal
  MaxRounds = 1
SPECIFICATION FairSpec
INVARIANTS TypeOK AnswerIsOfJob
PROPERTIES EveryAskEnds
CHECK_DEADLOCK FALSE
