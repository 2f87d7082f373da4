CONSTANTS
  Items = {1, 2}
  COLD_CANDIDATES = 1
SPECIFICATION Spec
PROPERTY RemembersWhatItOverwrites
CHECK_DEADLOCK FALSE
