\* A construction that fails after its first call has logged in.
SPECIFICATION Spec
CONSTANTS
  s1 = s1
  Searches = {s1}
  p1 = p1
  l1 = l1
  Playbacks = {p1}
  Lives = {l1}
  Items = 3
  PageSize = 2
  MaxLogins = 3
CHECK_DEADLOCK FALSE
INVARIANTS
  FailedConstructionLeavesNothing
