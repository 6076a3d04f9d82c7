SPECIFICATION Spec
CONSTANTS
  Attempts = {a1}
  Children = {c1, c2}
  Workers = {w1, w2}
  NModules = 2
  Parts <- OneEach
  Speaking = {}
  Tidied = {1}
  FreeAccess = FALSE
  Caching = TRUE
  RpcOutcomes = {"answered"}
  MaxFaults = 1
  None = None
  a1 = a1
  c1 = c1
  c2 = c2
  w1 = w1
  w2 = w2
SYMMETRY Ids
INVARIANTS TypeOK  
PROPERTY CompletedIsFinal
