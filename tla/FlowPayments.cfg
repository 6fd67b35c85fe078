SPECIFICATION Spec
CONSTANTS
  Orders = {o1}
  Refunds = {r1, r2}
  Procs = {p1, p2}
  None = None
  Amount = 2
  Credits = 1
CHECK_DEADLOCK FALSE
INVARIANTS SentAtMostOnce PaidIffGranted RefundsCovered MoneyOrCredits
