SPECIFICATION Spec
CONSTANTS
  N = 3
  Byte = 4
  MaxFrames = 6
  Pin = {p1, p2}
  Missing = {p2}
  Handle = {h1, h2}
  MaxQueue = 2
  Driver = {"a", "b"}
  Taker = {"b"}
  Buffer <- Buffers
  MaxExpected = 1
  MaxUpcalls = 1
  p1 = p1
  p2 = p2
  Steps = 3
  Half = 8
  Word = 16
  Band <- Bands
  Rates = {1, 5, 6}
  Dividers = {0, 2, 3}
  Degrees = 6
  FormatCount = 5
  LedCount = 2
  Datum = {0, 1, 255}
  MaxLen = 2
  NumButtons = 2
  MaxChanges = 3
  Width = {3}
  Length = {0, 1}
  MaxDepth = 2
  MaxOut = 10
  MaxLeak = 1
  Capacity = 2
  MaxText = 3
  MaxBytes = 6
  MaxTokens = 5
  MaxTicks = 40
  Thousand = 4
  MaxWord = 3
INVARIANTS
  PinsAreTrue
  StopKeepsCount
  NoOverlap
  ReadingIsOwn
  DeviceIsHeard
  NumberIsPadded
  TextIsKept
  ConversionsAreTrue
PROPERTIES
  RingIsQueue
  LibraryGoesOn
  RecordIsTrue
  FormatterBalanced
CHECK_DEADLOCK FALSE
