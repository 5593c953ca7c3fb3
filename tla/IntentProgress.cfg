CONSTANTS
  Requests = {r1}
  Workers = {w1}
  Sweepers = {s1}
  MaxCharges = 1
  MaxFaults = 1
  MaxPolicyVersion = 1
SPECIFICATION FairSpec
PROPERTIES
  QueuedIsPickedUp
  DeliveryIsVerified
  LapsedIsExpired
  UndisturbedSettles
CHECK_DEADLOCK FALSE
