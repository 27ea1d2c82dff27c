SPECIFICATION MCSpec
CONSTANTS
  Key <- SomeKey
  Message <- Dwarf
  Pieces = {3, 17}
INVARIANTS
  DecryptsToTheMessage
  HashesAreRight
PROPERTY
  FindsMeshAddress
CHECK_DEADLOCK FALSE
