SPECIFICATION Spec
CONSTANTS
  p1 = p1
  p2 = p2
  PositionIds = {p1, p2}
  Leaves <- MCLeaves
  Dates <- MCDates
  ProofSecrets = {s1, s2}
  None = None
INVARIANTS LeavesFiledOnce VerifiedClaimsHold
PROPERTIES RootStable
CHECK_DEADLOCK FALSE
