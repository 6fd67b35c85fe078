CONSTANTS
  Keys = {k1, k2}
  Watched = {k1}
  Workers = {w1, w2}
  None = None
  MaxAttempts = 3
  Deaths = 2
SPECIFICATION FairSpec
CHECK_DEADLOCK FALSE
INVARIANTS OneMailPerIntent StateIsOfAttempt DeliveredOnce
PROPERTY MailSettles
