\* One client alone, or two of which one ends the session; joins may expire.
SPECIFICATION FairSpec
CONSTANTS
  a = a
  b = b
  Clients <- TwoClients
  Programs <- Both
  MaxThreads = 3
CHECK_DEADLOCK FALSE
INVARIANTS
  NoSessionLeak
  NoErrorWithoutSession
  SessionIsMaintained
PROPERTIES
  ClientsEnd
