CONSTANTS
  NEvents = 2
  Writes = {"nothing", "part", "body", "line"}
  MaxIo = 2
SPECIFICATION Spec
INVARIANT QueuedTradesWait
