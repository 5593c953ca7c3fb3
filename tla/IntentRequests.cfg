CONSTANTS
  Requests = {r1, r2}
  Workers = {w1}
  Sweepers = {s1}
  MaxCharges = 2
  MaxFaults = 0
  MaxPolicyVersion = 1
SPECIFICATION Spec
SYMMETRY Symmetry
INVARIANTS
  PaymentFunded
  NoPaymentWithoutApproval
  DischargedOnce
PROPERTY
  AsksOnce
CHECK_DEADLOCK FALSE
