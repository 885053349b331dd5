SPECIFICATION Spec
CONSTANTS
  a = a
  r1 = r1
  r2 = r2
  Sends = {a, r1, r2}
  RowNo <- MCRowNo
  MaxAttempts = 2
  MaxNonce = 2
CHECK_DEADLOCK FALSE
INVARIANT RetryIsSafe
