SPECIFICATION Spec
CONSTANTS
    PollLimit = 1
    MaxRows = 3
    MaxFaults = 1
    PageSize = 1
    MaxPages = 2
    MaxCached = 2
INVARIANTS GapsExplained StubSettled
PROPERTIES PollingKeepsUp
CHECK_DEADLOCK FALSE
