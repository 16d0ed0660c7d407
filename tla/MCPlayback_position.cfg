\* A recording of five units, observed for seven.
SPECIFICATION Spec
CONSTANTS
  Duration = 5
  MaxClock = 7
  Seeks = {2, 6}
  MaxTarget = 7
CHECK_DEADLOCK FALSE
INVARIANTS
  PositionFollowsRecorder
  StateAgrees
PROPERTIES
  PauseKeepsGround
