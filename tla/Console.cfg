SPECIFICATION ConsoleSpec
CONSTANTS
  Clients = {c1, c2}
  PositionIds = {p1, p2}
  AnchorTxs = {a1}
  None = None
  MaxMishaps = 1
SYMMETRY Symmetry
INVARIANTS ConsoleTypeOK SnapshotBackedByChain SnapshotOfOnePosition SnapshotComplete PageClaimsHold
PROPERTIES ChainInOrder
