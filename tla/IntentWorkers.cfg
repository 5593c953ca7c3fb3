CONSTANTS
  Requests = {r1}
  Workers = {w1, w2}
  Sweepers = {s1}
  MaxCharges = 1
  MaxFaults = 1
  MaxPolicyVersion = 2
SPECIFICATION Spec
SYMMETRY Symmetry
INVARIANTS
  TypeOK
  PaidAtMostOnce
  PaymentOnRecord
  PaidNeverRefunded
  CompletedIsSettled
  OnlyFaultsStrand
  EndsAreBooked
PROPERTY
  KeepsPromise
CHECK_DEADLOCK FALSE
