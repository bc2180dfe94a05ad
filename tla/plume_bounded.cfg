SPECIFICATION Spec
CONSTANTS
  J = 3
  M = 3
  UseEq3 = TRUE
  UseEq4567 = TRUE
  UseEq8 = FALSE
  UseEq8b = FALSE
  LimitToStart = FALSE
  LoadReach = 2
  ClearReach = 2
  BoundStart = FALSE
  IncStart = 0
  TICKS = 8
  SegLen <- EqualLen
  SpeedFields <- SlowFields
  FreeFlow = 2
  North = FALSE
INVARIANTS
  BoundedMeansBounded
CHECK_DEADLOCK FALSE
