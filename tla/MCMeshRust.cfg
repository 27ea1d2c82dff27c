SPECIFICATION Spec
CONSTANTS
  Nodes <- MCNodes
  DotNet = {}
  Conns <- Triangle
  Connector <- TriangleConnector
  Listener <- TriangleListener
  Transport <- TriangleTransport
  Addrs <- MCAddrs
  Owns <- MCOwns
  Payloads = {}
  NoBody = NoBody
  NoConn = NoConn
  Window = 5
  SeenCap = 4
  IncomingCap = 4
  MaxClock <- OwnerTicks2
  MaxRestarts = 0
  MaxReads = 0
  InitUp = {"ac", "bc"}
  Fragile = {}
INVARIANTS
  LoopFree
  NextHopIsAhead
  TracersAreVouchedFor
  TracerPassedOnOnce
CHECK_DEADLOCK FALSE
