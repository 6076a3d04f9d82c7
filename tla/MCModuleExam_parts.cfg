SPECIFICATION FairSpec
CONSTANTS
  NumQuestions = 2
  Reqs = {r1, r2}
  Workers = {w1, w2}
  MaxSubmits = 2
  MaxFaults = 2
INVARIANTS
  TypeOK
  ScoreIsTheCount
PROPERTIES
  SubmittedStays
  SavedIsKept
  EventuallyAssessed
CHECK_DEADLOCK FALSE
