\* Any cut of the bytes, with pauses anywhere.
SPECIFICATION FramingFairSpec
CONSTANTS
  Wires <- ShortWires
  MaxChunk = 3
  MaxMessage = 7
CHECK_DEADLOCK FALSE
INVARIANTS
  ReturnsWhatWasSent
  RejectionIsExplained
PROPERTIES
  AllReturnedOrFailed
