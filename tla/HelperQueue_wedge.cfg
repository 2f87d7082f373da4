CONSTANTS
  NEvents = 2
  Writes = {"nothing", "split", "line"}
  MaxIo = 2
SPECIFICATION FairSpec
PROPERTY QueueDrains
