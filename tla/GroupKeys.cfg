SPECIFICATION LiveSpec
CONSTANTS
  Flags = {"mls1"}
  Client = {a, b}
  Creator = a
  MaxKeys = 3
  MaxDeks = 3
  MaxMessages = 1
  MaxFaults = 1
INVARIANTS
  SealedWithKnownKey
  RemovedLockedOut
PROPERTIES
  CacheHeals
CHECK_DEADLOCK FALSE
