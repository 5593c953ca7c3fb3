CONSTANTS
  Requests = {r1}
  Workers = {w1}
  Sweepers = {s1}
  MaxCharges = 1
  MaxFaults = 0
  MaxPolicyVersion = 1
SPECIFICATION Spec
INVARIANT FailedMeansNothingMoved
CHECK_DEADLOCK FALSE
