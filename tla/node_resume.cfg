SPECIFICATION NodeSpec
CONSTANTS
  Node = {n1, r1}
  RootNode = {r1}
  A = A
  B = B
  Firmware = {A}
  NoName = NoName
  Blank = Blank
  Junk = Junk
  SizeOfA = 3
  SizeOfB = 3
  PacketNum <- MCPacketNum
  MaxPacket = 3
  Kept <- MCPacketSet
  Interval = 33
  Faults = {"partition_write"}
  StopAnyTime = FALSE
  AnyPacket = FALSE
  UpLimit = 1
INVARIANTS
  NodeTypeOK
  BitsAreFlashed
  NeverBootsPartial
  SavedPeriodically
  StoppedNeverSwitches
