SPECIFICATION Spec
CONSTANTS
  Device = {a, b}
  NoOne = NoOne
  Faults = {"timeout", "crash", "reject", "delivery"}
  MaxFaults = 2
  MaxLog = 3
INVARIANTS
  LogIsChain
  NoFork
  NothingSkipped
PROPERTIES
  ImplementsCommitLog
  RecoversFromInfo
  EventuallyInStep
CHECK_DEADLOCK FALSE
