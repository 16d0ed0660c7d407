\* Responses arrive in parts; no junk.
SPECIFICATION FramingSpec
CONSTANTS
  Wires <- CleanWires
  MaxChunk = 16
  MaxMessage = 24
CHECK_DEADLOCK FALSE
INVARIANT OnlyMalformedIsRejected
