SPECIFICATION ListenerSpec
CONSTANTS
  MaxDepth = 4
  Target <- MCTarget
  Slot <- ListenerSlot
  Api <- ButtonApis
  Null = Null
  EventSlot = {"buttons"}
  MaxQueue = 2
  Reentrant = FALSE
  Refusals = TRUE
  Prompt = {"console.write", "console.read", "alarm"}
INVARIANTS
  NoDanglingUpcall
  NoDanglingBuffer
  StuckWasReported
PROPERTIES
  EveryCallReturns
