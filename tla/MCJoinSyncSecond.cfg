SPECIFICATION MCSpec
CONSTANTS
  A = A
  B = B
  Frame = Frame
  reads = reads
  other = other
  writes = writes
  pin = pin
  Null = Null
  Combinator = "join"
  SyncArm = {B}
  Prompt = {reads, other, writes}
  Slot = {reads, other, writes, pin}
  Target = {A, B, Frame}
  EventSlot = {pin}
  Buffered = {reads}
  MaxQueue = 3
  SlotOf <- MCSlotOf
INVARIANTS
  NoSleepOverReady
