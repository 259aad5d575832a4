SPECIFICATION NodeSpec
CONSTANTS
  Node = {n1}
  RootNode = {}
  A = A
  B = B
  Firmware = {A, B}
  NoName = NoName
  Blank = Blank
  Junk = Junk
  SizeOfA = 2
  SizeOfB = 2
  PacketNum <- MCPacketNum
  MaxPacket = 2
  Kept <- MCPacketSet
  Interval = 50
  Faults = {}
  StopAnyTime = FALSE
  AnyPacket = FALSE
  UpLimit = 1
INVARIANTS
  BitsAreFlashed
