SPECIFICATION Spec
CONSTANTS
  Node = {n1, n2}
  RootNode = {}
  Firmware = {A}
  NoName = NoName
  Blank = Blank
  Junk = Junk
  PacketNum <- MCPacketNum
  MaxPacket = 2
  Kept <- MCKept
  Interval = 50
  Faults = {}
  StopAnyTime = FALSE
  AnyPacket = FALSE
  UpLimit = 1
  Modes = {"list"}
  Retry = 2
  Attempts = 1
  QueueLen = 2
  DownLimit = 1
  Prompt = FALSE
  Budget <- MCBudget
  Size = 2
  Sends = 1
  Losses = 1
  Repeats = 0
  Restarts = 0
  Halts = 0
  Stops = 1
CHECK_DEADLOCK FALSE
SYMMETRY Symmetry
INVARIANTS
  SkippedPacketsAreHeld
  SuccessIsInstalled
