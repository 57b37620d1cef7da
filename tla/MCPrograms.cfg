SPECIFICATION Spec
CONSTANTS
  DoomH = 2
  PanelH = 3
  Band = 2
  Level = {"high", "mid"}
  PollLimit = 1
  ReadyBudget = 1
  Timeout = 3
  MaxQueue = 3
  MaxSeen = 3
  Full = 2
  Silence = 2
  Steps = 2
  MaxAttempts = 3
  MaxOther = 1
  Ratio <- Ratios
  RpmDivisor = 2
  Idle = 1
  Redline = 4
  ShiftLight = 3
  RevRise = 2
  RevFall = 1
  ClutchBite = 2
  Torque <- FlatTorque
  DragRoll = 1
  DragLinear = 1
  DragSquare = 1
  LinearPer = 2
  SquarePer = 4
  Inertia = 4
  DrivePer = 1
  Pedal = {0, 1, 2}
  FullPedal = 2
  Lift = 2
  Clutch = 1
  Dt = {1, 2}
  KmhPer = 9
  Missed = 1
  MaxOut = 2
  MaxTyped = 2
  Pipe = 2
  Byte = 2
  Half = 3
  MaxSent = 7
  Notes = 3
  Patience = 2
  Ticks = 32
  Start = {0, 27, 30}
  Period = 2
  Samples = 3
  Buckets = 4
  PerMicro = 2
  MaxLate = 5
INVARIANTS
  MisreadOnlyAfterLeaving
  ConfirmedIsTrue
  BrakeHolds
  UnmarkedIsOwn
  EchoIsWhole
  ReportIsTrue
PROPERTIES
  CarIsTrue
  ProgramsGoOn
CHECK_DEADLOCK FALSE
