SPECIFICATION Spec
CONSTANTS
  J = 3
  M = 4
  UseEq3 = TRUE
  UseEq4567 = TRUE
  UseEq8 = FALSE
  UseEq8b = FALSE
  LimitToStart = TRUE
  LoadReach = 2
  ClearReach = 2
  BoundStart = FALSE
  IncStart = 0
  TICKS = 8
  SegLen <- MixedLen
  SpeedFields <- LastingFields
  FreeFlow = 2
  North = FALSE
INVARIANTS
  TypeOK
  NoGaps
  OnePlume
  HeadNeverMovesDownstream
  NeverClearTooEarly
  StartIsHead
  StartIsProgramsStart
CHECK_DEADLOCK FALSE
