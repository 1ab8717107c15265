SPECIFICATION PaymentsLiveSpec
CONSTANTS
  MaxTx = 2
  MaxFaults = 1
INVARIANTS
  LinkedSuccessSettles
PROPERTIES
  SettledForGood
  TransferResolved
  FailedTransferReopens
CHECK_DEADLOCK FALSE
