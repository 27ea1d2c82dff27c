CONSTANT MaxConns = 1
SPECIFICATION FairLifeSpec
INVARIANTS
  NothingOutlivesTheDevice
  ExitCodeIsRight
PROPERTY
  EndsWhenItShould
CHECK_DEADLOCK FALSE
