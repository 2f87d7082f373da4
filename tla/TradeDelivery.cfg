CONSTANTS
  NEvents = 1
  Writes = {"nothing", "line"}
  MaxIo = 1
  NoEvent = NoEvent
  Task = {t1, t2}
  NItems = 1
  MaxFaults = 1
  MaxReviews = 0
  NoTask = NoTask
  MaxLost = 1
SPECIFICATION FairSpec
CHECK_DEADLOCK FALSE
INVARIANT DeliveredOnce
PROPERTY QueuedTradesArrive
