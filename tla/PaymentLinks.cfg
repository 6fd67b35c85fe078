CONSTANTS
  Links = {k1, k2}
  Staff = {k1}
  MaxPosts = 2
  Manual = {m1}
  Procs = {p1, p2}
  None = None
  Total = 2
  Simulate = TRUE
  Retriable = TRUE
  Crashable = {p2}
SPECIFICATION FairSpec
CHECK_DEADLOCK FALSE
INVARIANTS OneOutstanding LedgerMatchesLinks ExcessNoted
 
