CONSTANTS
  essay = essay talks = talks
  Hubs = {essay, talks}
  Skill <- HubSkill
  NumAttempts = 2
  Reqs = {r1, r2}
  MaxFaults = 1
  NoHub = NoHub
  Nobody = Nobody
SPECIFICATION FairSpec
INVARIANTS TypeOK 
PROPERTIES CompletedStays 
CHECK_DEADLOCK FALSE
