CONSTANTS
  c1 = c1
  c2 = c2
  c3 = c3
  j1 = j1
  j2 = j2
  d1 = d1
  d2 = d2
  NoFile = NoFile
  Clients <- OnlyC1
  Web <- OnlyC1
  Jobs <- BothJobs
  Places <- BothPlaces
  Job <- OwnJob
  Place <- OwnPlace
  CallsMayFail = FALSE
  SolverOutlives = FALSE
  Optimal <- OddOptimal
  MaxRounds = 2
SPECIFICATION FairSpec
PROPERTIES EveryAskEnds
CHECK_DEADLOCK FALSE
