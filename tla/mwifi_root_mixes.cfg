SPECIFICATION MwifiSpec

CONSTANTS
  Parts = {"transfer"}
  Writer = {w1, w2}
  Sizes = {1, 2, 3}
  Messages = 2
  SeqMod = 8
  TotalMod = 8
  RootReads = TRUE
  WireLimit = 3
  Gaps = 0
  Repeats = 0
  r = r
  a = a
  b = b
  c = c
  Node = {r, a, b, c}
  Root = r
  Topology <- MCTopology
  Modes = {"list", "any", "broadcast"}
  Moves = 1
  Failures = 1
  MeshCalls = 0
  MeshEvents = 0
  MeshFails = 0

INVARIANTS
  MessagesAreWhole

CHECK_DEADLOCK FALSE
