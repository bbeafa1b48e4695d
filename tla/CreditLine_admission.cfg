SPECIFICATION ProtocolSpec
CONSTANTS
  Anchors = {alpha}
  Tokens = {cusdc}
  PositionIds = {p1}
  LockKeys = {k1}
  Nullifiers = {n1}
  None = None
  LedgersPerDay = 1
  MaxLedger = 3
  Expiries = {0, 2}
  Policies <- SeveralPolicies
  SetPrices = {0, 1, 2}
  StampLags <- AnyStamp
  FeedQuotes <- SomeQuotes
  PriceScale = 1
  MaxPrice = 2
  PriceDigits = 1
  BpsScale = 2
  Amounts = {0, 1, 2}
  CreditAmounts = {1, 2}
  TransferAmounts = {0}
  Tenors = {0, 1, 2}
  ClaimedPrices = {0, 1, 2}
  ClaimedHaircuts = {0, 1}
INVARIANTS TypeOK
PROPERTIES CoveredWhenOpened NoStalePriceAdmitted
