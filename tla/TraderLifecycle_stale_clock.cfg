CONSTANTS
  Client = {u1, u2}
  Monitor = monitor
  Slot = {e1, e2}
  None = none
  Session = {"good", "failed"}
  Cancels = FALSE
  StatusFails = FALSE
SPECIFICATION Spec
PROPERTY StartsWithFreshHeartbeat
