CONSTANTS
  Requests = {t1, t2}
  DeskQuantities = {1, 2}
  DeskPrices = {0, 5}
  StartRows <- EmptyOrOne
  MaxDeskFaults = 1
  MayStock = {1, 2}
  MayWish = {3}
  MayBuy = {1}
  MayCool = {2}
  TradeModes = {"Buy", "Sell", "WishList"}
  LiveSettings <- AllOn
  BlacklistedKeys = {}
  OrderLimit = 3
  SellSlotMargin = 1
  OrderNumbers = {1, 2}
  MaxTraderFaults = 1
  Sales <- SomeSales
  Bids <- SomeBids
  Wishes <- SomeWishes
  Budgets <- SomeBudgets
  Markets <- SomeMarkets
  MarketItems <- SomeItems
  PartsOf <- SomeParts
  NameTable <- SomeNames
  OverrideTable <- SomeOverrides
  ItemLists <- SomeLists
  ReportedTrades <- SomeTrades
  AskedPrices = {0, 10, 30}
SPECIFICATION TradingSpec
SYMMETRY RequestsAlike
INVARIANT RemovedRowsAreTolerated
CHECK_DEADLOCK FALSE
