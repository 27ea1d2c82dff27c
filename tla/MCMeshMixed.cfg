SPECIFICATION TimedSpec
CONSTANTS
  Nodes <- MCNodes
  DotNet = {"b", "c"}
  Conns <- Line
  Connector <- LineConnector
  Listener <- LineListener
  Transport <- LineTransport
  Addrs <- MCAddrs
  Owns <- MCOwns
  Payloads = {"ip"}
  NoBody = NoBody
  NoConn = NoConn
  Window = 0
  SeenCap = 1
  IncomingCap = 1
  MaxClock <- SkewedTicks
  MaxRestarts = 0
  MaxReads = 2
  InitUp = {"ab", "bc"}
  Fragile = {"ab", "bc"}
INVARIANTS
  TypeOK
  NoDeadRoutes
  IpPacketsNotDuplicated
PROPERTY
  UsesSessions
  FloodsDieOut
CHECK_DEADLOCK FALSE
