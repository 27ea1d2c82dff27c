SPECIFICATION MCSpec
CONSTANTS
  Platform = "linux"
  NoTask = NoTask
  Endless <- MCAll
  Many = 1
  MaxWaiting = 1
  MaxConns = 1
  Waiters = {t, u}
  Numbers = {3, 4}
  NoFd = 99
INVARIANT
  NobodyLeftBehind
PROPERTIES
  OthersYield
  ListensInTheEnd
  ReadyIsServed
  StaleEntriesGoAway
CHECK_DEADLOCK FALSE
