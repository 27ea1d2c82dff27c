SPECIFICATION FairSpec
CONSTANTS
  Main = "main"
  Readers = {"reader"}
  Sleepers = {"cleaner"}
  Resolvers = {"resolver"}
  NoTask = NoTask
  MaxCalls = 2
  MaxData = 1
  ReadTimeout = 4
  SleepTime = 1
  MaxSleep = 2
  PerMs = 2
  Slack = 1
  PipeCap = 1
  MaxNow = 7
INVARIANTS
  QueuedOnce
  NoLostWakeup
  NobodyForgotten
  TimersAreOnTime
PROPERTY
  EventsAreHandled
CHECK_DEADLOCK FALSE
