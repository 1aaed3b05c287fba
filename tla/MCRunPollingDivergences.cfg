CONSTANTS
  b1 = b1
  Sources = {1, 2}
  Browsers = {b1}
  MaxSubmissions = 2
  MaxTime = 1
SPECIFICATION FairPolling
CHECK_DEADLOCK FALSE
PROPERTY FinishedBatchIsCleared
