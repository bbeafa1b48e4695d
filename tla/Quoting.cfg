SPECIFICATION Spec
CONSTANTS
  Accounts = {alpha}
  Customers = {c1, c2}
  Alpha = alpha
  Servers = {api, business}
  RefreshServer = api
  Loads = {l1, l2}
  MaxRequests = 3
  MaxMishaps = 2
  MaxLedger = 4
  MaxAge = 1
  None = None
INVARIANTS TypeOK EligibilityEarned ChainFollowsVerdict StampTellsAge QuoteShownUnderItsAsset
SYMMETRY Symmetry
CHECK_DEADLOCK FALSE
