SPECIFICATION Spec
CONSTANTS
  Packets <- MCPackets
  Hashes <- MCHashes
  Hash <- MCHash
  Capacity = 2
  MaxAccepted = 7
INVARIANTS
  SetMatchesQueue
  QueueIsRecent
PROPERTIES
  ImplementsDuplicateFilter
