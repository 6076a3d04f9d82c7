SPECIFICATION FairSpec
CONSTANTS
  Attempts = {a1, a2}
  Children = {c1, c2, c3}
  Workers = {w1}
  NModules = 2
  Parts <- OneThenTwo
  Speaking = {1}
  Tidied = {2}
  FreeAccess = TRUE
  Caching = FALSE
  RpcOutcomes = {"answered", "lost", "unavailable"}
  MaxFaults = 1
  None = None
  a1 = a1
  a2 = a2
  c1 = c1
  c2 = c2
  c3 = c3
  w1 = w1
PROPERTIES
  DoneIsRecorded
  
