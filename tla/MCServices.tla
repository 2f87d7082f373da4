------------------------------ MODULE MCServices ------------------------------
(***************************************************************************)
(* The services around trading, side by side on small instances: a            *)
(* behaviour is one of the recorded order book (OrderBook), of the hold        *)
(* suggestions (Holds), of the collector's maintenance (Rollups), of the       *)
(* daily backup (Backups), of the database's upgrades (Schema), of the market  *)
(* client (MarketClient) or of the pages that show figures (Figures).  They    *)
(* share no state here; x1..x9 is that of the part the behaviour is about.     *)
(***************************************************************************)
EXTENDS Integers, Sequences, FiniteSets, TLC

CONSTANTS
  Orders, Owner(_),     \* orders of one item, whose they are
  OrderWindow, BulkWindow, BulkPulls, GapFactor, OrderRetention, Intervals,
  MaxQuantity, MaxTime, MaxRows, MaxLeft, \* those of OrderBook
  HeldKeys, KnownKeys, Closed, Swept, Thresholds, Steady(_), PriceNow(_), ExitLow(_, _),
  LastToday, WindowDays, MinWeeks, RetentionDays, \* those of Holds
  Summaries, Vanishes,  \* rows of the collector's tables
  Callers,              \* tasks, alike
  Used, Auctions, MaxCalls, MaxAuctions,  \* MarketClient's
  LastHour, MaxOutage, DayHours, RollupHours, RollupDays, RelistWindow,
  SummaryRetention, VanishedRetention,    \* those of Rollups
  LastDay, MaxCrashes, KEEP_DAILY, KEEP_WEEKLY, \* those of Backups
  WeekDays,                               \* 7
  Releases,             \* how many migrations each release of the program has
  ClosedKeys, PagesAsked, Watches        \* questions put to the collector's pages

VARIABLES part, x1, x2, x3, x4, x5, x6, x7, x8, x9

None == <<>>
Some(v) == <<v>>

-----------------------------------------------------------------------------
(* The order book.                                                           *)
ASSUME BookAssumption == OrderWindow \in Nat /\ MaxQuantity \in Nat

O == INSTANCE OrderBook WITH
  user_id <- Owner, relist_window <- OrderWindow, bulk_window <- BulkWindow,
  bulk_pull_threshold <- BulkPulls, gap_factor <- GapFactor, VANISHED_RETENTION <- OrderRetention,
  now <- x1, market <- x2, last_seen <- x3, vanished <- x4, state <- x5, sweep <- x6,
  book <- x7, uncounted <- x8, stale <- x9

\* On the small instance all orders are of one user.
OneOwner(o) == "user"

-----------------------------------------------------------------------------
(* Holds.  A market's closed days are naturals, with the median or 0.        *)
ASSUME HoldsAssumption ==
  /\ IsFiniteSet(HeldKeys)
  /\ \A m \in Closed : \A k \in HeldKeys : DOMAIN m[k] \subseteq Nat /\ \A d \in DOMAIN m[k] : m[k][d] \in Nat
  /\ WindowDays \in Nat \ {0} /\ MinWeeks \in Nat \ {0} /\ RetentionDays \in Nat

H == INSTANCE Holds WITH
  Keys <- HeldKeys, Names <- KnownKeys,
  market <- x1, quotes <- x2, today <- x3, table <- x4, FITS <- x5, call <- x6

\* On the small instance: weeks of two days, one key that trades on some days only.
ClosedDays == {[k1 |-> [d \in 1..4 |-> d], k2 |-> m] :
                 m \in {<<0, 2, 0, 2>>, <<2, 2, 2, 2>>, <<2, 0, 0, 0>>}}
Quotes == {[k1 |-> Some([ask |-> 2, bid |-> 1]), k2 |-> None]}
Asked == {[horizon_weeks |-> 40, min_volume |-> 1, min_margin_pct |-> 10, min_weeks |-> 2]}
LastWeek(w) == CHOOSE v \in DOMAIN w : \A x \in DOMAIN w : x <= v
HalfOfLast(w) == w[LastWeek(w)] \div 2
Rising(w) == \A v, x \in DOMAIN w : v < x => w[v] <= w[x]
PlusHorizon(w, h) == HalfOfLast(w) + h

-----------------------------------------------------------------------------
(* Maintenance.  No outage outlasts what a pass looks back, and rows are kept longer than that. *)
ASSUME RollupsAssumption ==
  /\ {LastHour, MaxOutage, DayHours, RollupHours, RollupDays, RelistWindow,
      SummaryRetention, VanishedRetention} \subseteq Nat
  /\ DayHours > 0 /\ RelistWindow > 0
  /\ MaxOutage < RollupHours /\ RollupHours <= SummaryRetention
  /\ MaxOutage + RelistWindow <= RollupDays * DayHours + 1
  /\ VanishedRetention + 1 >= (RollupDays + 1) * DayHours

M == INSTANCE Rollups WITH
  now <- x1, finished <- x2, pass <- x3, raw <- x4, vanished <- x5, hourly <- x6, daily <- x7,
  summaries_deleted <- x8, vanished_deleted <- x9

(* Backups.                                                                  *)
ASSUME BackupsAssumption ==
  {LastDay, MaxCrashes, KEEP_DAILY, KEEP_WEEKLY} \subseteq Nat /\ WeekDays \in Nat \ {0}

B == INSTANCE Backups WITH
  today <- x1, files <- x2, temps <- x3, torn <- x4, job <- x5, backup_failed_on <- x6,
  crashes <- x7, made <- x8

(* Upgrades.  A release has the first of the 25 migrations there are.         *)
ASSUME SchemaAssumption == Releases \subseteq 0..25

S == INSTANCE Schema WITH
  Releases <- Releases,
  version <- x1, phase <- x2, applied <- x3, at <- x4, db <- x5, backup <- x6, saved <- x7,
  interrupted <- x8, undone <- x9

(* The client: a route of each kind of limit, one auction.                   *)
C == INSTANCE MarketClient WITH
  limits <- x1, refused <- x2, tracking <- x3, calls <- x4, routes <- x5, cached <- x6,
  auctions <- x7, premium <- x8, login <- x9

\* A limit is kept under the endpoint's key; tasks call endpoints there are.
ASSUME EndpointsHaveTheirOwnLimits == \A e, f \in C!Endpoints : e.key = f.key => e = f
ASSUME ClientAssumption ==
  /\ Used \subseteq {e.key : e \in C!Endpoints}
  /\ "login" \notin Callers
  /\ MaxCalls \in Nat /\ MaxAuctions \in Nat

-----------------------------------------------------------------------------
(* Figures: rows at, before and after every boundary.                        *)
Ignore == <<"ignore">>
Value(v) == <<"value", v>>
Tx(i, item, kind, price, at, user) ==
  [id |-> i, item |-> item, sub |-> 0, kind |-> kind, price |-> price, quantity |-> i, at |-> at,
   profit |-> IF kind = "sale" THEN price - 1 ELSE 0, credits |-> price, user |-> user,
   item_type |-> "item", tags |-> {item}, wfm_url |-> {item}, item_name |-> {item}, user_name |-> {user}]
\* A year is 16 ticks: two months of two days of two hours of one second.
Times == {15, 16, 19, 31, 32}
Entries(i) == {Tx(i, item, kind, p, t, u) : item \in {"a", "b"}, kind \in {"sale", "purchase"},
                                           p \in {i, 2 * i + 1}, t \in Times, u \in {"", "ann"}}
Ledger == {<<>>} \cup {<<x>> : x \in Entries(1)}
             \cup {<<x, y>> : x \in {z \in Entries(1) : z.price = 1 /\ z.user = ""}, y \in {z \in Entries(2) : z.price = 5}}
Ledgers == {[ts |-> ts, now |-> n, days |-> 2, categories |-> {[tags |-> {"a"}, types |-> {}]}] :
                ts \in Ledger, n \in {19, 33}}

StockRow(i, item, bought, list) ==
  [id |-> i, item |-> item, owned |-> i - 1, bought |-> bought, list_price |-> list]
Stock == {<<StockRow(1, "a", b, 3), StockRow(2, "b", b, l)>> : b \in {0, 2}, l \in {0, 4}}
Ranges == {[ts |-> ts, from |-> 15, mid |-> m, to |-> 32, bucket |-> k, rows |-> s,
              median |-> [a |-> 0, b |-> 3]] :
                ts \in Ledger, m \in {16, 19}, k \in {"day", "week"},
                s \in {<<StockRow(1, "a", 2, 3), StockRow(2, "b", 2, 4)>>}}
            \cup {[ts |-> <<>>, from |-> 15, mid |-> 16, to |-> 32, bucket |-> "day", rows |-> s,
                   median |-> [a |-> 0, b |-> 3]] : s \in Stock}

Order(i, side, p) ==
  [id |-> i, item_name |-> {"a"}, order_type |-> side, operations |-> {}, platinum |-> p,
   quantity |-> 1, potential_profit |-> 1, created_at |-> i, updated_at |-> i]
OrderLists == UNION {{[i \in 1..n |-> Order(i, s[i], p[i])] : s \in [1..n -> {"buy", "sell"}], p \in [1..n -> {1, 2}]} :
                     n \in 0..3}
OrderQuery(side, l) ==
  [query |-> Ignore, order_type |-> side, operations |-> Ignore, sort_by |-> Value("platinum"),
   ascending |-> FALSE, page |-> 1, limit |-> l]
LedgerQuery(kind, l) ==
  [query |-> Ignore, transaction_type |-> kind, item_type |-> Ignore, from_date |-> Value(16), to_date |-> Value(31),
   wfm_id |-> Ignore, sub_type |-> <<"null">>, tags |-> Value({"a", "b"}), sort_by |-> Value("price"),
   ascending |-> TRUE, page |-> 1, limit |-> l]
ShelfRow(i, w, st) ==
  [id |-> i, wfm_url |-> {w}, item_name |-> {w}, unique_name |-> {}, weapon_name |-> {"c"}, mod_name |-> {w}, sub_type |-> {},
   status |-> st, tags |-> {w}, group |-> "g", price |-> i % 2, bought |-> i % 2, list_price |-> 1, owned |-> 3 - i]
Shelf == {<<>>} \cup {<<ShelfRow(1, "a", s), ShelfRow(2, w, "live"), ShelfRow(3, "a", s)>> : w \in {"a", "b"}, s \in {"live", "hidden"}}
ShelfQuery(w, st, col, l) ==
  [query |-> w, status |-> st, tags |-> Ignore, group |-> Value("g"), sort_by |-> col, ascending |-> FALSE, page |-> 1, limit |-> l]
Listing(o, q, ts, tq, shelf, sq) == [orders |-> o, q |-> q, rows |-> ts, tq |-> tq, shelf |-> shelf, sq |-> sq]
AnyShelf(l) == ShelfQuery(Ignore, Ignore, Ignore, l)
Lists ==
  {Listing(o, OrderQuery(s, l), <<>>, LedgerQuery(Ignore, l), <<>>, AnyShelf(l)) :
     o \in OrderLists, s \in {Ignore, Value("buy")}, l \in {-1, 1, 2}}
  \cup {Listing(<<>>, OrderQuery(Ignore, l), ts, LedgerQuery(k, l), <<>>, AnyShelf(l)) :
          ts \in Ledger, k \in {Ignore, Value("sale")}, l \in {-1, 1}}
  \cup {Listing(<<>>, OrderQuery(Ignore, l), <<>>, LedgerQuery(Ignore, l), shelf, ShelfQuery(w, st, col, l)) :
          shelf \in Shelf, w \in {Ignore, Value("a"), Value("c")}, st \in {Ignore, Value("live")},
          col \in {Ignore, Value("list_price"), Value("bought")}, l \in {-1, 1, 2}}

ClosedRow(d) == [day |-> d, volume |-> d % 3, median |-> IF d % 4 = 0 THEN None ELSE Some(d),
                   min_price |-> Some(1), max_price |-> IF d % 5 = 0 THEN None ELSE Some(3), wa_price |-> Some(2)]
SomeClosedKeys ==
  {[rows |-> {ClosedRow(d) : d \in (0..20) \ gap}, fetch |-> [at |-> f, outcome |-> o], now |-> f + later] :
     gap \in {{}, 8..9, 14..18, 5..20}, f \in 26..31, o \in {"ok", "failed"}, later \in 0..7}

TradesOf(n, at) == {[id |-> i, side |-> IF i % 2 = 0 THEN "sell" ELSE "buy", platinum |-> i, at |-> at] : i \in 1..n}
TradedKey(item, n, at, first) ==
  [item |-> item, trades |-> TradesOf(n, at), spread |-> [min_sell |-> Some(5), max_buy |-> Some(2)], first_swept_at |-> first]
\* Figures are written for a key once its item was swept.
SomePages ==
  {[keys |-> {TradedKey("a", n, at, f), TradedKey("b", 3, 20, Some(20))}, now |-> 20,
    daily |-> {[item |-> "a", day |-> d, median |-> IF d = 9 THEN None ELSE Some(d)] : d \in 1..9},
    names |-> {"a"}] :
     n \in {0, 1, 4, 9, 10, 11}, at \in {6, 7, 16, 20}, f \in {Some(t) : t \in {4, 6, 7, 13, 20}}}

Event == [at : 0..4, lane : {"hot", "cold"}, ok : BOOLEAN]
SomeWatches ==
  {[events |-> e, now |-> n] :
     e \in {s \in UNION {[1..n -> Event] : n \in 0..3} : \A i \in DOMAIN s : s[i].ok \/ s[i].lane = "hot"}, n \in {4, 5}}

\* A clock is never behind what was fetched, swept or recorded.  Figures are kept for an item that
\* was swept, and a row of them is its key's only one (`item' stands for item and variant).
ASSUME FiguresAssumption ==
  /\ \A q \in ClosedKeys :
       /\ q.fetch.at \in Nat /\ q.now \in Nat /\ q.fetch.at <= q.now
       /\ \A r \in q.rows : r.day \in Int
  /\ \A q \in PagesAsked :
       /\ q.now \in Nat /\ IsFiniteSet(q.keys)
       /\ \A k \in q.keys :
            /\ IsFiniteSet(k.trades)
            /\ k.trades \subseteq [id : Int, side : {"sell", "buy"}, platinum : Int, at : Int]
            /\ k.first_swept_at # None /\ k.first_swept_at[1] \in Nat /\ k.first_swept_at[1] <= q.now
       /\ \A k, l \in q.keys : k.item = l.item => k = l
  /\ \A q \in Watches :
       /\ q.now \in Int /\ q.events \in Seq([at : Int, lane : {"hot", "cold", "trader"}, ok : BOOLEAN])
       /\ \A i \in DOMAIN q.events : q.events[i].at <= q.now

F == INSTANCE Figures WITH
  SecondsPerHour <- 1, HoursPerDay <- 2, DaysPerMonth <- 2, MonthsPerYear <- 2,
  DaysPerWeek <- 3, LocalOffset <- 1, Top <- 1, WindowDays <- 7, FreshDays <- 3,
  WarmMinDays <- 5, WarmDays <- 7, WarmMinTrades <- 10, SideMinTrades <- 3, AvgDays <- 2,
  BulkThreshold <- 3, HistoryTrades <- 2, MoversPerSide <- 1,
  Ledgers <- Ledgers, Ranges <- Ranges, Lists <- Lists, ClosedKeys <- ClosedKeys,
  Markets <- PagesAsked, Watches <- Watches,
  asked <- x1, question <- x2, answer <- x3

-----------------------------------------------------------------------------
BookPart    == part = "book" /\ O!Next /\ UNCHANGED part
HoldsPart   == part = "holds" /\ H!Next /\ UNCHANGED <<part, x7, x8, x9>>
RollupsPart == part = "rollups" /\ M!Next /\ UNCHANGED part
BackupsPart == part = "backups" /\ B!Next /\ UNCHANGED <<part, x9>>
SchemaPart  == part = "schema" /\ S!Next /\ UNCHANGED part
ClientPart  == part = "client" /\ C!Next /\ UNCHANGED part
FiguresPart == part = "figures" /\ F!FiguresNext /\ UNCHANGED <<part, x4, x5, x6, x7, x8, x9>>

ServicesInit ==
  \/ part = "book" /\ O!Init
  \/ part = "holds" /\ H!Init /\ x7 = 0 /\ x8 = 0 /\ x9 = 0
  \/ part = "rollups" /\ M!Init
  \/ part = "backups" /\ B!Init /\ x9 = 0
  \/ part = "schema" /\ S!Init
  \/ part = "client" /\ C!Init
  \/ /\ part = "figures" /\ F!FiguresInit
     /\ x4 = 0 /\ x5 = 0 /\ x6 = 0 /\ x7 = 0 /\ x8 = 0 /\ x9 = 0

ServicesNext ==
  \/ BookPart \/ HoldsPart \/ RollupsPart \/ BackupsPart \/ SchemaPart \/ ClientPart
  \/ FiguresPart

ServicesSpec == ServicesInit /\ [][ServicesNext]_<<part, x1, x2, x3, x4, x5, x6, x7, x8, x9>>

Symmetry == Permutations(Callers)

-----------------------------------------------------------------------------
\* The order book: as long as no book older than a recorded one was recorded, the partial
\* trades counted of an order never exceed what really left the market of it; and a full vanish whose
\* order came back and vanished again, both within the relist window, is not resolved as a trade
\* (apply_sweep, resolve_vanish).
CountedTradesAreReal == part = "book" => O!PartialsAreReal /\ O!ReturnedOrdersAreNoTrades

\* Holds: an answer misses no row of the day it counted, whichever of several overlapping
\* calls made the fits it uses and whatever rows land between the count and the load,
\* unless the day was retired in between (holds).
HoldsSeeTheCountedDay == part = "holds" => H!HoldsSeeTheCountedDay

\* Maintenance: as long as no outage outlasts the reach of the rollups, retention
\* deletes no row that is not rolled up, although passes fail part way and rows
\* arrive late (rollup_hourly, rollup_daily, apply_retention).
DeletedRowsWereRolledUp == part = "rollups" => M!DeletedRowsWereRolledUp

\* Backups: however often copies fail, deletions stop half way or the server dies, the
\* last daily backups and the last Sundays before them are there, whole (to_delete).
BackupsReachBack == part = "backups" => B!BackupsReachBack

\* Upgrades: wherever a start dies, the user's limits are in the file; a start fails
\* only after one that died inside a migration or after the operator went back;
\* and a started server finds every column it reads (migrations).
UpgradesKeepTheFile ==
  part = "schema" => S!LimitsSurvive /\ S!OnlyInterruptedStartsFail /\ S!RowsFitTheTables

\* The client: a route once answered 429 never goes back to the common rate, in
\* whatever order overlapping calls read its limit, sleep and are answered
\* (clear_wait_time).
RefusedRoutesStaySlower == part = "client" => C!RefusedRoutesStaySlower

\* The client: a signed-in client knows its user and its orders, whatever the client
\* it was made from had cached (create_authenticated_client).
SignedInKnowsItsOrders == part = "client" => C!SignedInKnowsItsOrders

\* The dashboard: chart buckets add up to their totals, two adjacent ranges to the
\* whole, and the pages of a list to its rows, in order (fill_missing_date_keys,
\* the range filter, paginate).
LedgersAddUp == part = "figures" => F!ChartsAddUp /\ F!TabsAgree /\ F!PagesPartitionTheRows

\* The market pages: closed figures come from the seven days their fetch could see,
\* however far the clock has moved on; the warm-up page foretells what the collector
\* will say; the lane counts are the sweeps of the last hour (load_fresh, warmup,
\* HealthTracker::record).
MarketFiguresAreWhole ==
  part = "figures" => F!ClosedWindowIsWhole /\ F!WarmupProjects /\ F!LaneCountsAreTheLastHour
=============================================================================
