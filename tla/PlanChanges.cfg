SPECIFICATION FairSpec
CONSTANTS
    Ops = {k1, k2}
    Callers = {c1, c2}
    Plans = {1, 2, 3}
    FirstPlan = 2
    MaxPeriod = 1
CHECK_DEADLOCK FALSE
INVARIANTS PostedOnce PlansAgree
PROPERTY RememberedApplied
