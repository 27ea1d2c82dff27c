SPECIFICATION RelinkedSpec
CONSTANTS
  Nodes <- MCNodes
  DotNet = {"b"}
  Conns <- Relinked
  Connector <- RelinkedConnector
  Listener <- RelinkedListener
  Transport <- RelinkedTransport
  Addrs <- MCAddrs
  Owns <- MCOwns
  Payloads = {}
  NoBody = NoBody
  NoConn = NoConn
  Window = 5
  SeenCap = 4
  IncomingCap = 1
  MaxClock <- OwnerTicks3
  MaxRestarts = 1
  MaxReads = 0
  InitUp = {"ab", "bc"}
  Fragile = {"ab", "bc"}
PROPERTY
  RoutesRecover
CHECK_DEADLOCK FALSE
