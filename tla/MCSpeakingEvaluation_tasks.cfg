SPECIFICATION FairSpec
CONSTANTS
  NumQuestions = 2
  Workers = {w1, w2}
  Reqs = {r1}
  MaxAsr = 1
  MaxLlm = 2
  MaxFaults = 1
  Nobody = Nobody
INVARIANTS
  CompletedHasReview
PROPERTIES
  SettledStays
  
CHECK_DEADLOCK FALSE
