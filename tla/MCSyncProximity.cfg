SPECIFICATION Spec
CONSTANTS
  MaxDepth = 2
  Target <- MCTarget
  Slot <- ProximitySlot
  Api <- ProximityApis
  Null = Null
  EventSlot = {"buttons"}
  MaxQueue = 2
  Reentrant = FALSE
  Refusals = FALSE
  Prompt = {}
INVARIANTS
  OwnAnswer
