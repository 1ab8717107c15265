SPECIFICATION Spec
CONSTANTS
  Device = {a, b}
  NoOne = NoOne
  Faults = {"reject"}
  MaxFaults = 1
  MaxLog = 2
INVARIANT TakenEpochsHaveRows
CHECK_DEADLOCK FALSE
