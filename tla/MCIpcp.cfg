SPECIFICATION FairSpec
CONSTANTS
  a = a
  b = b
  Zero = Zero
  None = None
  Addrs = {a, b}
  RequestDNS = {TRUE, FALSE}
  Feedbacks <- MCFeedbacks
  Requests <- MCRequests
  MaxRetries = 2
  RestartTicks = 2
  TimeoutTicks = 5
  MaxNoise = 1
INVARIANTS TypeOK OneMeaningPerId Agreement RetryBudget NotStarved
PROPERTIES Ends Implements
CHECK_DEADLOCK FALSE
