CONSTANTS
  Orders = {o1}
  Owner <- OneOwner
  OrderWindow = 2
  BulkWindow = 0
  BulkPulls = 2
  GapFactor = 1
  OrderRetention = 2
  Intervals = {1}
  MaxQuantity = 2
  MaxTime = 3
  MaxRows = 2
  MaxLeft = 2
  HeldKeys = {"k1", "k2"}
  KnownKeys = {"k1", "k2"}
  Closed <- ClosedDays
  Swept <- Quotes
  Thresholds <- Asked
  Steady <- Rising
  PriceNow <- HalfOfLast
  ExitLow <- PlusHorizon
  LastToday = 6
  WindowDays = 4
  MinWeeks = 2
  RetentionDays = 4
  Summaries = {s1, s2}
  Vanishes = {v1}
  Callers = {c1, c2}
  Used = {"GET:items", "GET:orders:item:slug", "POST:auctions:create"}
  Auctions = {"a1"}
  MaxCalls = 4
  MaxAuctions = 1
  LastHour = 9
  MaxOutage = 3
  DayHours = 2
  RollupHours = 4
  RollupDays = 2
  RelistWindow = 1
  SummaryRetention = 5
  VanishedRetention = 6
  LastDay = 7
  MaxCrashes = 1
  KEEP_DAILY = 2
  KEEP_WEEKLY = 1
  WeekDays = 2
  Releases = {4, 7, 13, 25}
  ClosedKeys <- SomeClosedKeys
  PagesAsked <- SomePages
  Watches <- SomeWatches
SPECIFICATION ServicesSpec
SYMMETRY Symmetry
INVARIANTS CountedTradesAreReal HoldsSeeTheCountedDay DeletedRowsWereRolledUp BackupsReachBack UpgradesKeepTheFile RefusedRoutesStaySlower SignedInKnowsItsOrders LedgersAddUp MarketFiguresAreWhole
CHECK_DEADLOCK FALSE
