\* Two cameras with up to three recordings each, in any of the modes.
SPECIFICATION Spec
CONSTANTS
  Cameras = 2
  MaxTime = 3
  MaxRecordings = 3
  ActiveTarget = 2
  PressurePairs = 2
CHECK_DEADLOCK FALSE
INVARIANTS
  WindowIsCommon
  SessionsAreAccountedFor
  OtherSessionsAreExplained
