SPECIFICATION MwifiSpec

CONSTANTS
  Parts = {"transfer", "multicast", "mesh"}
  Writer = {w1}
  Sizes = {1, 2, 3}
  Messages = 4
  SeqMod = 8
  TotalMod = 8
  RootReads = FALSE
  WireLimit = 3
  Gaps = 1
  Repeats = 1
  r = r
  a = a
  b = b
  c = c
  Node = {r, a, b, c}
  Root = r
  Topology <- MCTopology
  Modes = {"list", "any", "broadcast"}
  Moves = 1
  Failures = 1
  MeshCalls = 4
  MeshEvents = 3
  MeshFails = 1

INVARIANTS
  MwifiTypeOK
  MessagesAreWhole
  ReadInOrder
  DamageIsLocal
  ReadAtMostOnce
  FlagsFollowTheMesh

PROPERTIES
  EverybodyReads
  TasksRest

\* All messages may be written and read, and all the failures used up.
CHECK_DEADLOCK FALSE
