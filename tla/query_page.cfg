CONSTANTS
  near = near
  far = far
  wide = wide
  N = 3
  Views <- ThreeTiles
  Zoom <- TwoLevels
  Delay <- Delays
  Home = near
  None = None
SPECIFICATION Spec
INVARIANTS TypeOK RowIsItem ButtonsMatch PanelIsOneCluster OneTileAgrees
CHECK_DEADLOCK FALSE
