CONSTANTS
  Receipts = {r1}
  Leaked = {r1}
  Flushers = {f1}
  Recoverers = {p1}
  Reconcilers = {c1}
  BatchMaxSize = 1
  RetryMax = 1
  MaxBatches = 1
  Txs = {x1, x2}
  MaxDrops = 0
  MaxFaults = 0
SPECIFICATION FairSpec
PROPERTIES
  NeverAnchored
CHECK_DEADLOCK FALSE
