SPECIFICATION FairSpec
CONSTANTS
  Jobs = {j1, j2}
  Workers = {w1, w2, w3}
  Requests = {r1, r2}
  Payloads = {p1}
  Budgets = {2}
  Registered = {j1}
  Crashable = {w1}
  Prompt = {w2, w3}
  StaleAfter = 2
  RenewEvery = 1
  TailTime = 0
  MaxBlips = 1
  BackoffUnit = 1
  Batch = 1
  None = None
INVARIANT PromptKeepsLease
PROPERTIES KeepsContract EveryJobSettles
