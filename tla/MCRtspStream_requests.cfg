\* Three concurrent requests, no media: the routing of responses and errors.
SPECIFICATION Spec
CONSTANTS
  r1 = r1
  r2 = r2
  r3 = r3
  Requests = {r1, r2, r3}
  None = None
  Capacity = 1
  MaxArrivals = 0
  Foreign <- NoForeign
SYMMETRY RequestSymmetry
CHECK_DEADLOCK FALSE
INVARIANTS
  CallersAreTracked
  OneAnswerOrFirstError
  UnexpectedIsExcused
  ReaderEndIsHonest
PROPERTIES
  FirstErrorIsKept
  ImplementsCallTable
