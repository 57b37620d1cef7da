SPECIFICATION ApartSpec
CONSTANTS
  f1 = f1
  f2 = f2
  f3 = f3
  f4 = f4
  f5 = f5
  f6 = f6
  reads = reads
  edges = edges
  alarms = alarms
  Null = Null
  Slot = {reads, edges, alarms}
  Target = {f1, f2, f3, f4, f5, f6}
  EventSlot = {edges}
  Buffered = {reads}
  MaxQueue = 2
  SlotOf <- AllSlotOf
SYMMETRY Alike
PROPERTIES
  KeepsPromise
INVARIANTS
  NothingLost
  CompletionIsOwn
  BytesMatchArgs
  NoOrphan
