CONSTANTS
  Intents = {s, r1, r2}
  Escalating = {r1, r2}
  Callers = {c1}
  Answerers = {a1, a2}
  Finalizers = {f1, f2}
  Sweeps = {e1}
  Daily = 1
  None = None
SPECIFICATION Spec
SYMMETRY Symmetry
INVARIANTS
  TypeOK
  PaidBeforeAsked
  SupersessionIsExact
  OvershootIsOne
  WaitsAreKnown
  PaidStaysListed
  AuthorityByConsent
  OneLivePerLineage
PROPERTIES
  OneOutcome
  KeepsGrantPromise
CHECK_DEADLOCK FALSE
