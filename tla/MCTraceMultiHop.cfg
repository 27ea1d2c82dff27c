SPECIFICATION Spec
CONSTANTS
  Nodes <- MCNodes
  Rust = {}
  Origin = "o"
  NoHop = "none"
  RouteTables <- StarOnly
  TraceTtl = 4
  MaxTraces = 1
  Lossy = FALSE
INVARIANTS
  EveryHopReplies
CHECK_DEADLOCK FALSE
