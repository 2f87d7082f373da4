CONSTANTS
  Event = {e1}
  NoEvent = NoEvent
  Task = {t1, t2}
  NItems = 1
  MaxFaults = 0
  MaxReviews = 2
SPECIFICATION Spec
CHECK_DEADLOCK FALSE
PROPERTIES AppliedIsNotAppliedAgain
