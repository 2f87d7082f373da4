CONSTANTS
  Event = {e1}
  NoEvent = NoEvent
  Task = {t1}
  NItems = 1
  MaxFaults = 2
  MaxReviews = 0
SPECIFICATION Spec
CHECK_DEADLOCK FALSE
INVARIANT InterruptedRowsAlerted
