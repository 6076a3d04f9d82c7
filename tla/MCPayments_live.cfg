CONSTANTS
  o1 = o1 o2 = o2 w1 = w1 w2 = w2 w3 = w3 writing = writing speaking = speaking
  PlanSkills <- AllSkills
  Orders = {o1}
  Workers = {w1, w2}
  Skills = {writing}
  WrongAmount = {}
  RpcOutcomes = {"answered"}
  MaxFaults = 1
SPECIFICATION FairSpec
INVARIANT RefundWindow
PROPERTIES
  NeverRefulfilled
  CaptureSettles
