CONSTANTS
  NEvents = 3
  Writes = {"nothing", "part", "body", "line"}
  MaxIo = 3
SPECIFICATION FairSpec
INVARIANT TradesKeepTheirPlace
PROPERTIES OnlySettledLinesLeave QueueDrains
