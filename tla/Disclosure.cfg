SPECIFICATION Spec
CONSTANTS
  Clients = {page, c1}
  Observer = page
  Positions = {p1, p2}
  Grants = {g1}
  Lifetime = 1
  Fallback = 1
  MaxEvidence = 1
  MaxRequests = 3
  MaxLedger = 3
  MaxMishaps = 1
  None = None
SYMMETRY Symmetry
INVARIANTS TypeOK SaltKept VerifiedClaimsAreTrue RevokedNeverVerifies ChainAndTableAgree GoodLinkOpens
