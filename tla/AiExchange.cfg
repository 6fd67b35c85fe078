SPECIFICATION FairSpec
CONSTANTS
  Calls = {c1, c2}
  Keys = {f1, a1}
  Nested = {a1}
  Agent = {a1}
  None = None
  Cost = 2
  Pack = 1
  Quota = 3
  Paid = {0}
  Crashable = {c2}
  Paused = FALSE
  MaxWindow = 1
  Budget = 4
INVARIANTS PaidOnce DebitedForAnAnswer BudgetRespected
PROPERTY EveryCallReturns
