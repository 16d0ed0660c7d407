\* Two connections, one after the other.
SPECIFICATION FairSpec
CONSTANTS
  Clients <- MCClients
  MaxRequests = 3
  MaxCommands = 1
  MaxQueued = 1
CHECK_DEADLOCK FALSE
INVARIANTS
  ThreadsEndForAReason
  FramesOnlyToPlayers
PROPERTIES
  ServedAreAnswered
  AllThreadsEnd
