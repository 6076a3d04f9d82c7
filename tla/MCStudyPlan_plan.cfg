SPECIFICATION PlanSpec
CONSTANTS
  NumDays = 2
  NumHubs = 3
  Steady <- MCSteady
  Procs = {p1, p2}
  MaxAsks = 3
  MaxBuilds = 1
  MaxVersions = 2
  None = None
INVARIANTS
  PlanTypeOK
  PlannedIsClaimed
  NoNeedlessRepeat
PROPERTIES
  FillsUndoNothing
  TicksLostOnlyToOverlap
CHECK_DEADLOCK FALSE
