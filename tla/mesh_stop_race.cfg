SPECIFICATION Spec
CONSTANTS
  Node = {n1}
  RootNode = {}
  Firmware = {A}
  NoName = NoName
  Blank = Blank
  Junk = Junk
  PacketNum <- MCPacketNum
  MaxPacket = 1
  Kept <- MCKept
  Interval = 50
  Faults = {}
  StopAnyTime = FALSE
  AnyPacket = FALSE
  UpLimit = 2
  Modes = {"list"}
  Retry = 1
  Attempts = 1
  QueueLen = 3
  DownLimit = 2
  Prompt = FALSE
  Budget <- MCBudget
  Size = 1
  Sends = 1
  Losses = 0
  Repeats = 0
  Restarts = 0
  Halts = 0
  Stops = 1
CHECK_DEADLOCK FALSE
PROPERTIES
  StopReturns
