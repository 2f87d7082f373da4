CONSTANTS
  Client = {u1}
  Monitor = monitor
  Slot = {e1}
  None = none
  Session = {"good", "lacking", "failed"}
  Cancels = FALSE
  StatusFails = TRUE
SPECIFICATION FairSpec
INVARIANT IdleMeansStopped
PROPERTIES TriggerStopsTrading ExitIsNoticed
