SPECIFICATION FairSpec
CONSTANTS
  api = api
  prover_worker = prover_worker
  worker = worker
  Jobs = {r1, r2}
  Requests = {r1, r2}
  Workers = {worker}
  Hosts = {api, prover_worker}
  HostOf <- MCHostOf
  Tries = 2
  None = None
INVARIANTS OwnProofOnly TakenOncePerHost
PROPERTIES VerdictStands QueueDrains RequestsEnd
