CONSTANTS
  Analyses <- SmallAnalyses
  Steps <- OneStep
  T2Step = 1
  Percents <- TwoShares
  Minutes <- TwoDelays
  Values <- TwoRates
  Views <- TwoViews
  StartView = "start"
  SegmentsView = "segments"
  MaxResizes = 1
  None = None
SPECIFICATION Spec
INVARIANTS TypeOK ChartIsOfForm SavingsInLabelUnit ViewsAgree
CHECK_DEADLOCK FALSE
