------------------------------ MODULE PriceRules ------------------------------
(***************************************************************************)
(* The trader's decisions that need no state: which statistics an item is   *)
(* priced by (trader/blend.rs), which items are worth a bid                 *)
(* (trader/price_source.rs), what price a bid, a sale and a wish-list bid   *)
(* is posted at (trader/item.rs), and which bids fit under the cap on their *)
(* total (trader/helpers.rs).                                               *)
(*                                                                          *)
(* Prices, volumes and profits are integers here; the code's f64 values are *)
(* only compared, added and multiplied.  An Option is a sequence of at most *)
(* one element.  A book is the prices asked (`sell') and offered (`buy') by *)
(* other players in game, for one sub-type.                                 *)
(***************************************************************************)
EXTENDS Integers, Sequences, FiniteSets, SequencesExt, FiniteSetsExt

None == <<>>
Some(v) == <<v>>
unwrap_or(o, default) == IF o = None THEN default ELSE o[1]
Larger(a, b) == IF a >= b THEN a ELSE b
Smaller(a, b) == IF a <= b THEN a ELSE b

is_disabled(v) == v <= -1

-----------------------------------------------------------------------------
(***************************************************************************)
(* Settings a decision reads.                                              *)
(***************************************************************************)

\* A key is an item and its sub-type; an entry without a sub-type stands for
\* every sub-type of the item.
is_item_blacklisted(general, key, mode) ==
  \E b \in general.blacklist :
     /\ b.wfm = key.wfm /\ mode \in b.disabled_for
     /\ b.sub \in {"", key.sub}

get_item_max_price(general, wfm) ==
  LET listed == {b \in general.buy_list : b.wfm = wfm}
  IN IF listed = {} THEN 0 ELSE (CHOOSE b \in listed : TRUE).max_price

\* OrderList: what a book says of its best prices; 0 stands for no order.
lowest_price(prices) == IF prices = <<>> THEN 0 ELSE Min(ToSet(prices))
highest_price(prices) == IF prices = <<>> THEN 0 ELSE Max(ToSet(prices))
price_range(book, side) ==
  LET gap == lowest_price(book.sell) - highest_price(book.buy)
  IN IF side = "sell" THEN -gap ELSE gap

ItemMarketInfo(book, side) ==
  [lowest |-> lowest_price(book[side]), highest |-> highest_price(book[side]),
   range |-> price_range(book, side), volume |-> Len(book[side])]

\* A list of at most five prices, the newest last and none repeated at once.
add_price_history(items, price) ==
  IF items # <<>> /\ Last(items) = price THEN items
  ELSE Append(IF Len(items) >= 5 THEN Tail(items) ELSE items, price)

-----------------------------------------------------------------------------
(***************************************************************************)
(* The statistics an item is priced by.  A row is one (item, sub-type):     *)
(* `inferred' rows are the collector's own, `closed' ones the market's.     *)
(***************************************************************************)
GUARD_MIN_WEEK_TRADES == 20

Plain(i) == [stats |-> i, shift |-> None, guarded |-> FALSE, closed |-> FALSE,
             inferred |-> TRUE]

\* The recent price when the collector saw it fall below the closed average.
FastDrop(i, c, guard_pct) ==
  IF /\ i # None /\ i[1].avg_price # None /\ c.moving_avg # None
     /\ ~is_disabled(guard_pct)
     /\ i[1].volume * 7 >= GUARD_MIN_WEEK_TRADES
     /\ i[1].avg_price[1] * 100 < c.moving_avg[1] * (100 - guard_pct)
  THEN i[1].avg_price ELSE None

merge(i, c, guard_pct, profit_basis) ==
  LET known == i # None
      fast_drop == FastDrop(i, c, guard_pct)
      profit == IF profit_basis = "range" /\ c.range_profit # None /\ known
                THEN c.range_profit
                ELSE IF known THEN i[1].profit ELSE None
  IN [stats |-> [key |-> c.key, volume |-> c.volume, avg_price |-> c.avg_price,
                 moving_avg |-> IF fast_drop # None THEN fast_drop ELSE c.moving_avg,
                 profit |-> profit, warm |-> c.warm /\ known],
      shift |-> c.week_price_shift, guarded |-> fast_drop # None,
      closed |-> TRUE, inferred |-> known]

\* Rows of each kind have distinct keys.
blend(inferred, closed, mode, guard_pct, profit_basis) ==
  IF mode = "inferred" THEN {Plain(i) : i \in inferred}
  ELSE LET Of(rows, key) == LET m == {r \in rows : r.key = key}
                            IN IF m = {} THEN None ELSE Some(CHOOSE r \in m : TRUE)
       IN {merge(Of(inferred, c.key), c, guard_pct, profit_basis) : c \in closed}
            \cup {Plain(i) : i \in {r \in inferred : Of(closed, r.key) = None}}

\* ItemPriceInfo of one effective row: absent numbers become 0.  `item' is what
\* the tradable cache and the tax table say of the item.
from_effective(e, item) ==
  [key |-> e.stats.key, volume |-> e.stats.volume,
   avg_price |-> unwrap_or(e.stats.avg_price, 0), moving_avg |-> e.stats.moving_avg,
   profit |-> unwrap_or(e.stats.profit, 0), warm |-> e.stats.warm,
   week_price_shift |-> unwrap_or(e.shift, 0), has_shift |-> e.shift # None,
   guarded |-> e.guarded, trading_tax |-> item.trading_tax, max_rank |-> item.max_rank]

-----------------------------------------------------------------------------
(***************************************************************************)
(* Which items are worth a bid.                                            *)
(***************************************************************************)
RANK_VOLUME_CAP == 50

filtered_items(wtb, prices) ==
  {i \in prices :
     /\ is_disabled(wtb.volume_threshold) \/ i.volume > wtb.volume_threshold
     /\ is_disabled(wtb.profit_threshold) \/ i.profit > wtb.profit_threshold
     /\ is_disabled(wtb.avg_price_cap) \/ i.avg_price <= wtb.avg_price_cap
     /\ \/ wtb.price_shift_threshold = -1 \/ ~i.has_shift
        \/ i.week_price_shift >= wtb.price_shift_threshold
     /\ is_disabled(wtb.trading_tax_cap) \/ i.trading_tax <= wtb.trading_tax_cap
     /\ i.key.rank = None \/ i.max_rank = None \/ i.key.rank[1] >= i.max_rank[1]}

rank_key(i, ranking) ==
  IF ranking = "volume" THEN i.volume ELSE i.profit * Smaller(i.volume, RANK_VOLUME_CAP)

\* a is listed before b; the last tie is broken by the uuid.
RanksBefore(a, b, ranking) ==
  LET ka == <<rank_key(a, ranking), a.volume>>
      kb == <<rank_key(b, ranking), b.volume>>
  IN \/ ka[1] > kb[1]
     \/ ka[1] = kb[1] /\ ka[2] > kb[2]
     \/ ka = kb /\ a.key.uuid < b.key.uuid

top_candidates(items, wtb, ranking) ==
  LET sorted == CHOOSE s \in SetToSeqs(items) :
                  \A i, j \in DOMAIN s : i < j => RanksBefore(s[i], s[j], ranking)
      limit == wtb.max_buy_candidates
  IN IF is_disabled(limit) THEN sorted ELSE SubSeq(sorted, 1, Smaller(limit, Len(sorted)))

get_interesting_items(wtb, prices) ==
  top_candidates(filtered_items(wtb, prices), wtb, wtb.candidate_ranking)

compare_rankings(wtb, prices) ==
  LET items == filtered_items(wtb, prices)
      new == ToSet(top_candidates(items, wtb, "expected_profit"))
      old == ToSet(top_candidates(items, wtb, "volume"))
      Expected(S) == MapThenSumSet(LAMBDA i : rank_key(i, "expected_profit"), S)
  IN [candidates |-> Cardinality(new), entered |-> Cardinality(new \ old),
      left |-> Cardinality(old \ new), new |-> Expected(new), old |-> Expected(old)]
=============================================================================
