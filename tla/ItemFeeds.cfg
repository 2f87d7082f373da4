CONSTANTS
  Items = {1, 2, 3}
  hot = {1}
  PerHour = 2
SPECIFICATION FeedsSpec
PROPERTIES EveryItemIsTried BackfillEnds
