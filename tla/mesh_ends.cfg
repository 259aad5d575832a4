SPECIFICATION Spec
CONSTANTS
  Node = {n1, n2}
  RootNode = {}
  Firmware = {A}
  NoName = NoName
  Blank = Blank
  Junk = Junk
  PacketNum <- MCPacketNum
  MaxPacket = 1
  Kept <- MCKept
  Interval = 50
  Faults = {"partition_read", "ota_write", "ota_begin"}
  StopAnyTime = FALSE
  AnyPacket = FALSE
  UpLimit = 1
  Modes = {"list"}
  Retry = 2
  Attempts = 1
  QueueLen = 1
  DownLimit = 1
  Prompt = FALSE
  Budget <- MCBudget
  Size = 1
  Sends = 1
  Losses = 0
  Repeats = 0
  Restarts = 0
  Halts = 1
  Stops = 0
CHECK_DEADLOCK FALSE
PROPERTIES
  SendEnds
  KeepsPromise
  LeavesByReport
INVARIANTS
  ListsAgree
