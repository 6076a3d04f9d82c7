CONSTANTS
  w1 = w1 w2 = w2 s1 = s1
  None = None Old = Old Nobody = Nobody
  Sets = {s1}
  NumUsers = 2
  NumDays = 2
  Room <- MCRoom
  Practised <- MCPractised
  Workers = {w1, w2}
  PageSize = 1
  PersistAttempts = 2
  MaxAttempts = 2
  MaxChanges = 3
  MaxEdits = 1
  MaxFaults = 1
SPECIFICATION FairSpec
INVARIANTS
  TypeOK
  
  PlacedOnce
PROPERTIES
  FanOutOverwritesNothing
  JobsEnd
CHECK_DEADLOCK FALSE
