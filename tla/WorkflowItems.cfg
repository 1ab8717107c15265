SPECIFICATION LiveSpec
CONSTANTS
  Invitee = {x, y}
  Agent = {g}
  Bit = {b, c}
  max_rows = 1
  MaxTime = 1
  MaxRequests = 2
  MaxDecisions = 1
  MaxFaults = 2
INVARIANTS
  PendingShown
  OpenExplained
PROPERTIES
  ClosedForGood
  ExpiredSwept
CHECK_DEADLOCK FALSE
