CONSTANTS
  f1 = f1
  f2 = f2
  f3 = f3
  video = video
  audio = audio
  None = None
  Sources = {f1, f2, f3}
  First = f1
  Tracks = {video, audio}
  Coded = {video}
  ParameterSets = 2
  Capacity = 4
  HandoffLimit = 2
  SeqMod = 8
  TsMod = 24
  ClockRate = 1
  FirstSeq = 6
  FirstTs = 22
  FirstClock = 21
  Ahead = {1}
  Jumps <- MCJumps
  MaxPackets = 3
  MaxCommands = 2
SYMMETRY Incoming
SPECIFICATION Spec
CHECK_DEADLOCK FALSE
INVARIANTS
  IdentityIsStable
  InitializationPrecedesMedia
  ReportsMatchMedia
  PlaybacksAreOwned
