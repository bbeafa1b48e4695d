SPECIFICATION Spec
CONSTANTS
  Anchors = {alpha}
  Tokens = {cusdc}
  PositionIds = {p1, p2}
  LockKeys = {k1}
  Nullifiers = {n1, n2}
  None = None
  LedgersPerDay = 1
  MaxLedger = 3
  Expiries = {0}
  Policies <- NoHaircut
  SetPrices = {1}
  StampLags <- FreshStamp
  FeedQuotes <- NoQuotes
  PriceScale = 1
  MaxPrice = 20
  PriceDigits = 0
  BpsScale = 2
  Amounts = {0, 1}
  CreditAmounts = {1}
  TransferAmounts = {0, 1}
  Tenors = {1}
  ClaimedPrices = {1}
  ClaimedHaircuts = {0}
SYMMETRY Symmetry
INVARIANTS NullifierSpentOnce WindDownStaysPossible
PROPERTIES LivesItsLifecycle
