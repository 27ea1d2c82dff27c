CONSTANTS
  Platforms <- MCPlatforms
  Own = {me}
  Others = {a, b}
  NoAddr = NoAddr
  QueueCap = 2
  MaxRequests = 3
SPECIFICATION FairSpec
PROPERTIES
  CommandsNotRepeated
  SetUpEnds
  AnnouncedIsRouted
CHECK_DEADLOCK FALSE
