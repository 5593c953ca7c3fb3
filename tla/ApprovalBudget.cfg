CONSTANTS
  Intents = {s, r1}
  Escalating = {r1}
  Callers = {c1}
  Answerers = {a1}
  Finalizers = {f1}
  Sweeps = {e1}
  Daily = 1
  None = None
SPECIFICATION Spec
INVARIANT
  ExposureWithinDaily
CHECK_DEADLOCK FALSE
