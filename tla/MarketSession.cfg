CONSTANTS
  MaxLogins = 2
  MaxAttempt = 1
  Overlap = TRUE
SPECIFICATION SessionFair
CHECK_DEADLOCK FALSE
INVARIANTS ConnectedFlagIsBacked LateChecksDoNotSignIn
PROPERTIES StoppedSocketsEnd
