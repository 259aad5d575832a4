SPECIFICATION NodeSpec
CONSTANTS
  Node = {n1}
  RootNode = {}
  A = A
  B = B
  Firmware = {A, B}
  NoName = NoName
  Blank = Blank
  Junk = Junk
  SizeOfA = 2
  SizeOfB = 3
  PacketNum <- MCPacketNum
  MaxPacket = 3
  Kept <- MCPacketSet
  Interval = 50
  Faults = {"info_save", "info_erase", "partition_write", "ota_begin"}
  StopAnyTime = FALSE
  AnyPacket = TRUE
  UpLimit = 1
INVARIANTS
  CountMatchesBits
