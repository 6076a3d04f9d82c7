CONSTANTS
  w1 = w1 w2 = w2 r1 = r1 d1 = d1
  Nobody = Nobody
  Reviews = {r1}
  Versions = 2
  Channels = {"whatsapp"}
  Reminders = {d1}
  Workers = {w1, w2}
  BatchSize = 2
  MaxAttempts = 2
  Refusing = {}
  MaxSends = 2
  MaxReports = 2
  MaxFaults = 1
SYMMETRY Symmetric
SPECIFICATION Spec
INVARIANTS
  OpenIsCurrent
  NoDuplicateSend
PROPERTY SettledIsFinal
CHECK_DEADLOCK FALSE
