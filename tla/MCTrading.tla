------------------------------ MODULE MCTrading ------------------------------
(***************************************************************************)
(* The parts that decide and book a trade, side by side on small instances: *)
(* a behaviour is one of the desk (Desk), of the item trader (ItemTrader), of  *)
(* its price rules (TradeRules) or of the resolution of a reported trade       *)
(* (TradeResolve).  They share no state here; y1..y10 is that of the part     *)
(* the behaviour is about.                                                    *)
(***************************************************************************)
EXTENDS Integers, Sequences, FiniteSets, TLC

CONSTANTS
  Requests,             \* of the user and the helper, alike
  DeskQuantities, DeskPrices, StartRows, MaxDeskFaults, \* those of Desk
  MayStock, MayWish, MayBuy, MayCool, TradeModes, LiveSettings, BlacklistedKeys,
  OrderLimit, SellSlotMargin, OrderNumbers, MaxTraderFaults, \* those of ItemTrader
  Sales, Bids, Wishes, Budgets, Markets, \* the questions put to the rules
  MarketItems, PartsOf, NameTable, OverrideTable, ItemLists, ReportedTrades, AskedPrices \* TradeResolve's

VARIABLES subject, y1, y2, y3, y4, y5, y6, y7, y8, y9, y10

-----------------------------------------------------------------------------
(* The desk.                                                                 *)
DeskOps == {"create", "sell", "wish_create", "wish_bought", "sale", "purchase", "delete",
            "delete_multiple", "update", "entry", "ledger", "orders"}

ASSUME DeskAssumption ==
  /\ DeskQuantities \subseteq Nat /\ DeskPrices \subseteq Int
  /\ \A rows \in StartRows : rows \in Seq([count : Nat \ {0}, price : Int])

D == INSTANCE Desk WITH
  Task <- Requests, Ops <- DeskOps, Quantities <- DeskQuantities, Prices <- DeskPrices,
  MaxFaults <- MaxDeskFaults,
  lists <- y1, orders <- y2, ledger <- y3, report <- y4, task <- y5, trader <- y6,
  failures <- y7, paid <- y8, booked <- y9

\* On the small instance a list begins empty or with one row.
EmptyOrOne == {<<>>, <<[count |-> 2, price |-> 3]>>}

-----------------------------------------------------------------------------
(* The item trader.                                                          *)
I == INSTANCE ItemTrader WITH
  Modes <- TradeModes, Settings <- LiveSettings, Blacklisted <- BlacklistedKeys,
  Limit <- OrderLimit, SELL_SLOT_MARGIN <- SellSlotMargin, MaxFaults <- MaxTraderFaults,
  market <- y1, cache <- y2, sim <- y3, dry <- y4, rows <- y5, first_seen <- y6, cycle <- y7,
  asked <- y8, faults <- y9, doubt <- y10

ASSUME TraderAssumption ==
  /\ IsFiniteSet(MayStock \cup MayWish \cup MayBuy)
  /\ OrderNumbers \subseteq Nat /\ OrderLimit \in Nat /\ SellSlotMargin \in Nat

AllOn == [auto_delete |-> TRUE, delete_conflicting |-> TRUE, price_cap |-> TRUE]

-----------------------------------------------------------------------------
(* The price rules.                                                          *)
P == INSTANCE TradeRules WITH question <- y1, rule <- y2, answer <- y3

\* The questions' numbers are integers; an option is empty or holds one.  A key's
\* uuid tells it from the others, and a kind of statistics has one row a key.
Nothing == <<>>
Holding(v) == <<v>>
IsOption(o) == o = Nothing \/ o[1] \in Int
ASSUME QuestionsAssumption ==
  /\ \A q \in Sales :
       /\ q.row.bought \in Int /\ q.settings.wts.min_profit \in Int /\ q.settings.wts.min_sma \in Int
       /\ \A o \in {q.row.min_price, q.row.min_profit, q.row.min_sma, q.moving_avg} : IsOption(o)
       /\ q.order = Nothing \/ q.order[1].price \in Int
       /\ q.book.sell \in Seq(Int)
  /\ \A q \in Bids :
       /\ \A b \in q.settings.general.buy_list : b.max_price \in Int
       /\ q.settings.wtb.avg_price_cap \in Int /\ IsOption(q.moving_avg)
       /\ q.order = Nothing \/ q.order[1].price \in Int
       /\ q.book.buy \in Seq(Int)
  /\ \A q \in Budgets :
       q.cap \in Int /\ q.bids \in Seq([price : Int, profit : Int, wfm : STRING, id : STRING])
  /\ \A q \in Markets :
       /\ q.wtb.profit_threshold \in Int /\ q.wtb.max_buy_candidates \in Int
       /\ IsFiniteSet(q.inferred) /\ IsFiniteSet(q.closed)
       /\ \A r \in q.inferred \cup q.closed : r.volume \in Int /\ r.key.uuid \in Int
       /\ \A r \in q.inferred : IsOption(r.profit)
       /\ \A r \in q.closed : IsOption(r.range_profit)
       /\ \A r, s \in q.inferred \cup q.closed : r.key.uuid = s.key.uuid => r.key = s.key
       /\ \A r, s \in q.inferred : r.key = s.key => r = s
       /\ \A r, s \in q.closed : r.key = s.key => r = s

\* On the small instance: each limit off and on, prices at and around it.
Opt(S) == {Nothing} \cup {Holding(v) : v \in S}
General(max) == [blacklist |-> {[wfm |-> "b", sub |-> "", disabled_for |-> {"buy", "sell"}]},
                 buy_list |-> IF max = 0 THEN {} ELSE {[wfm |-> "a", max_price |-> max]}]
Key(w) == [wfm |-> w, sub |-> ""]
Book(b, s) == [buy |-> b, sell |-> s]
OwnOrders(S) == Opt([price : S])
PriceLists(S, n) == UNION {[1..m -> S] : m \in 0..n}

SomeSales ==
  {[settings |-> [general |-> General(0),
                  wts |-> [min_profit |-> mp, min_sma |-> ms, max_price_drop |-> d,
                           min_listings_below |-> l]],
    key |-> Key(w), moving_avg |-> avg, book |-> Book(<<>>, asks), order |-> o,
    row |-> [bought |-> 2, hidden |-> h, status |-> st, min_price |-> price,
             min_profit |-> Nothing, min_sma |-> Nothing, list_price |-> Nothing, history |-> <<>>]] :
   mp \in {-1, 5}, ms \in {-1, 1}, d \in {-1, 1}, l \in {-1, 1}, avg \in Opt({6}),
   asks \in PriceLists({1, 3, 5}, 2), o \in OwnOrders({2, 6}), h \in BOOLEAN,
   st \in {"live", "inactive"}, price \in Opt({4}), w \in {"a", "b"}}

Other == [price |-> 2, profit |-> 1, wfm |-> "c", id |-> "o2"]
SomeBids ==
  {[settings |-> [general |-> General(max),
                  wtb |-> [avg_price_cap |-> cap, max_total_price_cap |-> total,
                           profit_threshold |-> t, max_stock_quantity |-> stock,
                           max_price_drop |-> d, min_listings_below |-> l]],
    key |-> Key("a"), moving_avg |-> Holding(4), book |-> Book(offers, asks), order |-> o,
    owned |-> own, bids |-> bids] :
   max \in {0, 2}, cap \in {-1, 3}, total \in {-1, 4}, t \in {-1, 1}, stock \in {-1, 1},
   d \in {-1, 1}, l \in {-1, 1}, offers \in {<<>>, <<1>>, <<3>>, <<5>>, <<5, 3>>},
   asks \in PriceLists({4, 7}, 1), o \in OwnOrders({1, 4}), own \in Opt({1}),
   bids \in {<<>>, <<Other>>}}

SomeWishes ==
  {[settings |-> [general |-> General(0)], key |-> Key("a"), avg_price |-> avg,
    book |-> Book(offers, <<>>), order |-> o,
    row |-> [hidden |-> h, status |-> st, min_price |-> least, max_price |-> most,
             list_price |-> Nothing, history |-> <<>>]] :
   avg \in {0, 3}, offers \in PriceLists({1, 5}, 1), o \in OwnOrders({2}), h \in BOOLEAN,
   st \in {"live", "inactive"}, least \in Opt({2}), most \in Opt({3})}

OneBid == {[price |-> p, profit |-> v, wfm |-> "a", id |-> "o"] : p \in 0..3, v \in {-1, 1, 2}}
SomeBudgets == {[bids |-> b, cap |-> c] : b \in PriceLists(OneBid, 3), c \in {-1, 0, 2, 4}}

ItemKey(n) == [wfm |-> n, sub |-> "", rank |-> Nothing, uuid |-> n]
InferredRows(n) == {{}} \cup
  {{[key |-> ItemKey(n), volume |-> v, avg_price |-> Holding(5), moving_avg |-> Holding(6),
     profit |-> p, warm |-> TRUE]} : v \in {3, 60}, p \in Opt({2})}
ClosedRows(n) == {{}} \cup
  {{[key |-> ItemKey(n), volume |-> v, avg_price |-> Holding(6), moving_avg |-> Holding(8),
     range_profit |-> r, week_price_shift |-> s, warm |-> TRUE]} :
   v \in {3, 60}, r \in Opt({3}), s \in Opt({-2})}
SomeMarkets ==
  {[inferred |-> i1 \cup i2, closed |-> c1 \cup c2, mode |-> m, guard_pct |-> g, basis |-> b,
    items |-> [n \in {1, 2} |-> [trading_tax |-> n, max_rank |-> Nothing]],
    wtb |-> [volume_threshold |-> 2, profit_threshold |-> t, avg_price_cap |-> 6,
             price_shift_threshold |-> -3, trading_tax_cap |-> -1,
             max_buy_candidates |-> 1, candidate_ranking |-> "expected_profit"]] :
   i1 \in InferredRows(1), i2 \in InferredRows(2), c1 \in ClosedRows(1), c2 \in ClosedRows(2),
   m \in {"inferred", "closed"}, g \in {-1, 10}, b \in {"spread", "range"}, t \in {-1, 0}}

-----------------------------------------------------------------------------
(* Trade resolution.                                                         *)
R == INSTANCE TradeResolve WITH
  Items <- MarketItems, SetParts <- PartsOf, NameOf <- NameTable, OverrideOf <- OverrideTable,
  Trades <- ReportedTrades, UnitPrices <- AskedPrices, Indexes <- ItemLists,
  memory <- y1, file <- y2, pc <- y3, trade <- y4, index <- y5, roots <- y6, fetched <- y7,
  items <- y8, reason <- y9

\* A set needs some of each of its parts, which are no sets.  The names a trade window
\* shows are of parts, never of sets, and where an item list lacks the item of a name
\* no override gives that name another.
ASSUME ResolveAssumption ==
  /\ IsFiniteSet(DOMAIN PartsOf)
  /\ \A r \in DOMAIN PartsOf :
       /\ IsFiniteSet(DOMAIN PartsOf[r]) /\ DOMAIN PartsOf[r] \cap DOMAIN PartsOf = {}
       /\ PartsOf[r] \in [DOMAIN PartsOf[r] -> Nat \ {0}]
  /\ \A table \in {NameTable, OverrideTable} :
       \A n \in DOMAIN table : table[n] \in MarketItems \ (DOMAIN PartsOf \cup {"none"})
  /\ \A known \in ItemLists :
       /\ known \subseteq MarketItems
       /\ \A n \in DOMAIN NameTable \cap DOMAIN OverrideTable :
            NameTable[n] \in known \/ OverrideTable[n] \notin known
  /\ \A t \in ReportedTrades :
       /\ t.offered \in Seq([name : STRING, quantity : Nat])
       /\ t.received \in Seq([name : STRING, quantity : Nat])
  /\ AskedPrices \subseteq Nat

\* On the small instance: a set of two parts, one of them needed twice, a part the
\* item list may lack, a name only the overrides know and one nobody does.
SomeItems == {"bp", "chassis", "set", "mod"}
SomeParts == [x \in {"set"} |-> [bp |-> 1, chassis |-> 2]]
SomeNames == [Blueprint |-> "bp", Chassis |-> "chassis", Mod |-> "mod"]
SomeOverrides == [Odd |-> "mod", Mod |-> "bp"]
SomeLists == {{}, SomeItems, SomeItems \ {"chassis"}}
TradeLines == [name : {"Blueprint", "Chassis"}, quantity : 1..2]
            \cup {[name |-> n, quantity |-> 1] : n \in {"Chassis", "Odd", "Unknown"}}
ThreeLines == {<<a, b, c>> : a \in {l \in TradeLines : l.name = "Blueprint"}, b, c \in {l \in TradeLines : l.name /= "Blueprint"}}
Goods == UNION {[1..n -> TradeLines] : n \in 1..2} \cup ThreeLines
           \cup {<<[name |-> "Chassis", quantity |-> 3], [name |-> "Blueprint", quantity |-> 2],
                   [name |-> "Chassis", quantity |-> 2], [name |-> "Mod", quantity |-> 1]>>}
PlatinumPaid == {1, 10}
Paid(p) == <<[name |-> "Platinum", quantity |-> p]>>
SomeTrades == {[offered |-> g, received |-> Paid(p)] : g \in Goods, p \in PlatinumPaid}
            \cup {[offered |-> Paid(7), received |-> <<l>>] : l \in TradeLines}
            \cup {[offered |-> Paid(1), received |-> Paid(1)], [offered |-> <<>>, received |-> Paid(1)]}

-----------------------------------------------------------------------------
DeskPart    == subject = "desk" /\ D!DeskNext /\ UNCHANGED <<subject, y10>>
TraderPart  == subject = "trader" /\ I!TraderNext /\ UNCHANGED subject
RulesPart   == subject = "rules" /\ P!RulesNext /\ UNCHANGED <<subject, y4, y5, y6, y7, y8, y9, y10>>
ResolvePart == subject = "resolve" /\ R!Next /\ UNCHANGED <<subject, y10>>

TradingInit ==
  \/ subject = "desk" /\ D!DeskInit /\ y10 = 0
  \/ subject = "trader" /\ I!TraderInit
  \/ /\ subject = "rules" /\ P!RulesInit
     /\ y4 = 0 /\ y5 = 0 /\ y6 = 0 /\ y7 = 0 /\ y8 = 0 /\ y9 = 0 /\ y10 = 0
  \/ subject = "resolve" /\ R!Init /\ y10 = 0

TradingNext == DeskPart \/ TraderPart \/ RulesPart \/ ResolvePart

trading == <<subject, y1, y2, y3, y4, y5, y6, y7, y8, y9, y10>>

TradingSpec == TradingInit /\ [][TradingNext]_trading

RequestsAlike == Permutations(Requests)

-----------------------------------------------------------------------------
\* The desk: a request that ended well changed one row and wrote one transaction,
\* one that failed wrote none, however requests interleave (handle_transaction).
TradesAreBookedOnce == subject = "desk" => D!TradesAreBookedOnce

\* The desk: a stock row's average price lies between the prices paid, whichever
\* of several concurrent writes wins (add_stock).
AveragePriceIsPaid == subject = "desk" => D!AveragePriceIsPaid

\* The item trader: unless an answer was lost, the market never holds two of our
\* orders for one key and side (create, refresh, the two books).
OneOrderPerKey == subject = "trader" => I!OneOrderPerKey

\* The item trader: a sale that needs a slot takes neither the user's wish-list
\* bids nor a bid of the same cycle (lowest_profit_buy_order, can_create_buy).
BidsSurvive == subject = "trader" => I!WishBidsAreKept /\ I!FreshBidsSurvive

\* The rules: whatever the market makes of a price on the way, a sale is posted
\* at no less than its floors and a bid at no more than its caps
\* (progress_selling, progress_buying).
OrdersKeepTheirPrices == subject = "rules" => P!SalesKeepTheirFloors /\ P!BidsKeepTheirCaps

\* The rules: the bids the knapsack keeps are the best that fit the budget, by
\* its definition, and a key the collector has never seen takes no slot
\* (knapsack, merge).
SlotsGoToTheBest == subject = "rules" => P!KnapsackIsOptimal /\ P!UnseenKeysWinNoSlot

\* Resolution: a trade applied without review stands for exactly what changed
\* hands, sets for their parts, and its lines cost the platinum paid, whatever
\* fetches failed and whatever was remembered over a restart (assemble,
\* split_platinum).
LinesStandForTheTrade == subject = "resolve" => R!SetsStandForTheirParts /\ R!PlatinumIsSplit

\* What the design says and the code does not keep (H2): a trade that removes a row
\* while the trader works on it does not end the trader's cycle.
RemovedRowsAreTolerated == subject = "desk" => D!RemovedRowsAreTolerated
=============================================================================
