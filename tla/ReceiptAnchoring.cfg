CONSTANTS
  Receipts = {r1}
  Leaked = {r1}
  Flushers = {f1, f2}
  Recoverers = {p1}
  Reconcilers = {c1}
  BatchMaxSize = 1
  RetryMax = 2
  MaxBatches = 2
  Txs = {x1, x2}
  MaxDrops = 1
  MaxFaults = 1
SPECIFICATION FairSpec
INVARIANTS
  TypeOK
  ConfirmedIsFinal
  RecordedWasSent
PROPERTIES
  ClaimedOnce
  QuarantineIsKept
  KeepsReceiptPromise
  EnqueuedIsSettled
CHECK_DEADLOCK FALSE
