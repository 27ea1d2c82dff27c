SPECIFICATION Spec
CONSTANTS
  Nodes <- MCNodes
  Rust = {"r"}
  Origin = "o"
  NoHop = "none"
  RouteTables <- AllTables
  TraceTtl = 4
  MaxTraces = 2
  Lossy = TRUE
INVARIANT
  TableIsRight
PROPERTY
  ProbesDieOut
CHECK_DEADLOCK FALSE
