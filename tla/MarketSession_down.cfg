CONSTANTS
  MaxLogins = 2
  MaxAttempt = 1
  Overlap = TRUE
SPECIFICATION SessionSpec
CHECK_DEADLOCK FALSE
INVARIANT DownMeansDown
