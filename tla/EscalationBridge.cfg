CONSTANTS
  Askers = {a1}
  Handlers = {h1}
  Guards = {}
  Intents = {i1}
  Channels = {"telegram", "dashboard"}
  Reachable = {"telegram"}
  Identity = {"dashboard"}
  Caps <- MCCaps
SPECIFICATION FairSpec
PROPERTY IntentHearsDenial
CHECK_DEADLOCK FALSE
