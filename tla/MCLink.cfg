SPECIFICATION FairSpec
CONSTANTS
  Mixes <- EitherWay
  Keys = {"k", "other"}
  KeysL = {"k"}
  Size <- LongPackets
  LenMod = 2
  BufferSize = 4
  SockCap = 2
  MaxSessions = 2
  MaxFailures = 1
  MaxEnqueued = 2
INVARIANTS
  ReceivedIsPrefix
  StrangersExchangeNothing
PROPERTIES
  ImplementsSession
  LinkComesBack
  DeadSessionsGo
  PacketsArrive
CHECK_DEADLOCK FALSE
