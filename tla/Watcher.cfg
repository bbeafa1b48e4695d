SPECIFICATION FairSpec
CONSTANTS
  worker = worker
  api = api
  Processes = {worker, api}
  LEDGER_SAFETY_LAG = 1
  FirstLookback = 1
  PageLimit = 1
  NodeLag = 1
  MaxLedger = 3
  MaxBurst = 2
  MaxEvents = 2
  None = None
INVARIANTS NothingSkipped
PROPERTIES EventuallyStored
