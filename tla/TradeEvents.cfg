CONSTANTS
  Event = {e1}
  NoEvent = NoEvent
  Task = {t1, t2}
  NItems = 2
  MaxFaults = 2
  MaxReviews = 2
SPECIFICATION FairSpec
CHECK_DEADLOCK FALSE
INVARIANT AutoAppliedOnce
PROPERTIES OneAttempt AlertedRowsStayQuiet UnappliedRowsSurface
