SPECIFICATION Spec
CONSTANTS
  a = a
  b = b
  g = g
  f = f
  k1 = k1
  k2 = k2
  k3 = k3
  n1 = n1
  n2 = n2
  Account <- MCAccount
  Creator = a
  Genesis <- MCGenesis
  Member = {b, g}
  Recipient = {b}
  Agent = {g}
  Principal <- MCPrincipal
  FeeAccount = {f}
  Key = {k1, k2, k3}
  Nonce = {n1, n2}
  Amount = {0, 41}
  MinCost = {40}
  BlockPair <- MCBlockPair
  FollowPair <- MCFollowPair
  Expiration = 1
  MinReplyChars = 6
  FeeBps = 250
  MaxSeq = 2
  MaxClock = 2
SYMMETRY Symmetry
INVARIANTS
  EscrowBacked
  Conservation
  OneKeyPerOperation
PROPERTIES
  SettlementIsFinal
  ImplementsLedger
CHECK_DEADLOCK FALSE
