SPECIFICATION Spec
CONSTANTS
  Node = {r1, n1, n2}
  RootNode = {r1}
  Firmware = {A}
  NoName = NoName
  Blank = Blank
  Junk = Junk
  PacketNum <- MCPacketNum
  MaxPacket = 2
  Kept <- MCKept
  Interval = 50
  Faults = {}
  StopAnyTime = FALSE
  AnyPacket = FALSE
  UpLimit = 2
  Modes = {"list", "any", "broadcast"}
  Retry = 4
  Attempts = 2
  QueueLen = 3
  DownLimit = 2
  Prompt = TRUE
  Budget <- MCBudget
  Size = 2
  Sends = 1
  Losses = 1
  Repeats = 1
  Restarts = 1
  Halts = 0
  Stops = 0
CHECK_DEADLOCK FALSE
SYMMETRY Symmetry
INVARIANTS
  MupgradeTypeOK
  EveryDeviceFinishes
