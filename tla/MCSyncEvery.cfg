SPECIFICATION Spec
CONSTANTS
  MaxDepth = 3
  Target <- MCTarget
  Slot <- EverySlot
  Api <- EveryApi
  Null = Null
  EventSlot = {"buttons", "gpio"}
  MaxQueue = 2
  Reentrant = FALSE
  Refusals = TRUE
  Prompt = {}
INVARIANTS
  OwnAnswer
  NothingLeft
