CONSTANTS
  Askers = {a1, a2}
  Handlers = {h1, h2}
  Guards = {g1}
  Intents = {}
  Channels = {"telegram", "dashboard"}
  Reachable = {"telegram"}
  Identity = {"dashboard"}
  Caps <- MCCaps
SPECIFICATION FairSpec
INVARIANTS
  TypeOK
  ApprovedByConsent
  HeardMatchesRow
PROPERTIES
  OnlyForward
  KeepsOperatorPromise
  GuardHearsDecision
CHECK_DEADLOCK FALSE
