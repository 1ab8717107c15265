SPECIFICATION Spec
CONSTANTS
  Member = {u}
  Perm = {p}
  BackfillMax = 1
  StartupMin = 2
  MaxChain = 3
  MaxFaults = 2
INVARIANTS
  AnnouncementsKept
PROPERTIES
  StoreFollowsChain
  EventuallyInSync
CHECK_DEADLOCK FALSE
