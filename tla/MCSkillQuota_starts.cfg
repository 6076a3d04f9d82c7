SPECIFICATION Spec
CONSTANTS
  a1 = a1 a2 = a2 a3 = a3 r1 = r1 r2 = r2
  Attempts = {a1, a2, a3}
  Reqs = {r1, r2}
  Granted = 2
  MaxFaults = 1
  None = None
SYMMETRY Symmetric
INVARIANTS
  ChargedCanStart
  ChargedForNew
  UnpaidIsWithdrawn
