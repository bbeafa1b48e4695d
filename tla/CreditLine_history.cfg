SPECIFICATION HistorySpec
CONSTANTS
  Anchors = {alpha, beta}
  Tokens = {cusdc}
  PositionIds = {p1, p2}
  LockKeys = {k1, k2}
  Nullifiers = {n1, n2}
  None = None
  LedgersPerDay = 1
  MaxLedger = 3
  Expiries = {0}
  Policies <- OnePolicy
  SetPrices = {1}
  StampLags <- FreshStamp
  FeedQuotes <- NoQuotes
  PriceScale = 1
  MaxPrice = 20
  PriceDigits = 0
  BpsScale = 2
  Amounts = {0, 2}
  CreditAmounts = {1}
  TransferAmounts = {0}
  Tenors = {1}
  ClaimedPrices = {1}
  ClaimedHaircuts = {1}
SYMMETRY Symmetry
INVARIANTS LocksMatchPositions SecuredWhilePledgedOnce
PROPERTIES FreezeLiftedByRepaymentOnly
