\* One playback of two tracks, started at most twice.
SPECIFICATION FairSpec
CONSTANTS
  Tracks = 2
  MaxStarts = 2
  MaxRequests = 7
  MaxNonces = 3
CHECK_DEADLOCK FALSE
INVARIANTS
  NonceCountIsFresh
  PendingIsOwned
  KeepaliveEndsWithSession
  SessionIsReleased
PROPERTIES
  CloseEnds
