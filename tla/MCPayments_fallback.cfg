CONSTANTS
  o1 = o1 o2 = o2 w1 = w1 w2 = w2 w3 = w3 writing = writing speaking = speaking
  PlanSkills <- AllSkills
  Orders = {o1, o2}
  Workers = {w1, w2}
  Skills = {writing, speaking}
  WrongAmount = {o2}
  RpcOutcomes = {"answered", "lost", "unavailable"}
  MaxFaults = 1
SPECIFICATION Spec
CONSTRAINT WrongIsCaptured
SYMMETRY WorkerSymmetry
INVARIANTS
  EventLogTruthful
  PaidIsRepairable
PROPERTY ImplementsEntitlement
