SPECIFICATION SendingSpec
CONSTANTS
  a = a
  r1 = r1
  r2 = r2
  Sends = {a, r1, r2}
  RowNo <- MCRowNo
  MaxAttempts = 2
  MaxNonce = 2
  Networks = {m, n}
  Addresses = {x, y}
  CatchUps = 1
  MaxRefreshes = 2
  MaxSends = 1
  MaxChanges = 1
CHECK_DEADLOCK FALSE
INVARIANTS PaidOnceIfAnswered RowsPaidOnce FailedMeansUnsent RowsLeaveNoGap
PROPERTIES SentToWhatTheNameSays EverySendEnds BalanceComesRight
