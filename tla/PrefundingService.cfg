SPECIFICATION MCFairSpec
CONSTANTS
  Requests = {1, 2, 3}
  PositionIds = {p1}
  AnchorTxs = {a1}
  Callbacks = {c1}
  None = None
INVARIANTS StatusBackedByChain EvidenceBackedByChain SequenceNumbersDiffer
PROPERTIES RequestsAnswered
