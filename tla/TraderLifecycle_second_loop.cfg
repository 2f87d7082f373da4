CONSTANTS
  Client = {u1}
  Monitor = monitor
  Slot = {e1, e2}
  None = none
  Session = {"good", "failed"}
  Cancels = TRUE
  StatusFails = FALSE
SPECIFICATION Spec
INVARIANT IdleMeansLoopOver
