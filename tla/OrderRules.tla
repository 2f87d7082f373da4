------------------------------ MODULE OrderRules ------------------------------
(***************************************************************************)
(* What the trader does with one item's orders (trader/item.rs, helpers.rs):*)
(* a decision is to leave them alone, to post a price (a create or an       *)
(* update) or to delete the order.                                          *)
(***************************************************************************)
EXTENDS PriceRules

Leave == [act |-> "leave", price |-> 0, profit |-> 0]
Delete == [act |-> "delete", price |-> 0, profit |-> 0]
Post(price, profit) == [act |-> "post", price |-> price, profit |-> profit]

\* A bid is [price, profit, wfm, id]; the knapsack fills a table of the best
\* profit per budget, bid by bid, and walks it back from the last bid.
Weight(bid) == Larger(bid.price, 0)

\* A mutated form: a later bid may use the budget of the row it fills.
Filled_SameRow(acc, bid, w_max) ==
  LET weight == Weight(bid)
      better == [w \in 0..w_max |-> weight <= w /\ bid.profit > 0]
  IN [dp |-> [w \in 0..w_max |->
                IF better[w] THEN acc.dp[w] + bid.profit ELSE acc.dp[w]],
      choice |-> Append(acc.choice, better)]

Filled(acc, bid, w_max) ==
  LET weight == Weight(bid)
      better == [w \in 0..w_max |->
                   weight <= w /\ acc.dp[w - weight] + bid.profit > acc.dp[w]]
  IN [dp |-> [w \in 0..w_max |->
                IF better[w] THEN acc.dp[w - weight] + bid.profit ELSE acc.dp[w]],
      choice |-> Append(acc.choice, better)]

\* The positions of the bids the knapsack selects.
knapsack(bids, max_weight) ==
  LET w_max == Larger(max_weight, 0)
      table == FoldLeft(LAMBDA acc, bid : Filled(acc, bid, w_max),
                        [dp |-> [w \in 0..w_max |-> 0], choice |-> <<>>], bids)
      Walk(acc, i) == IF table.choice[i][acc.w]
                      THEN [w |-> acc.w - Weight(bids[i]), taken |-> acc.taken \cup {i}]
                      ELSE acc
  IN FoldLeft(Walk, [w |-> w_max, taken |-> {}],
              [i \in 1..Len(bids) |-> Len(bids) + 1 - i]).taken

\* Whether a price move is held back, keeping the price of the order we have.
should_apply_max_price_drop(max_price_drop, min_listings_below, current, post, prices, side) ==
  LET change == IF side = "buy" THEN post - current ELSE current - post
      between == IF side = "buy" THEN Quantify(DOMAIN prices, LAMBDA n : prices[n] > current)
                 ELSE Quantify(DOMAIN prices, LAMBDA n : prices[n] < current)
  IN /\ ~(is_disabled(max_price_drop) /\ is_disabled(min_listings_below))
     /\ change >= 0
     /\ ~is_disabled(max_price_drop) /\ change > max_price_drop
     /\ is_disabled(min_listings_below) \/ between <= min_listings_below

\* The price to go on with: the market's, or our own where the drop is held.
Held(limits, current, post, prices, side) ==
  IF should_apply_max_price_drop(limits.max_price_drop, limits.min_listings_below,
                                 current, post, prices, side)
  THEN current ELSE post

-----------------------------------------------------------------------------
(***************************************************************************)
(* progress_buying for one entry.  `order' is our order on this route       *)
(* (None: there is none), `owned' the stock row's count (None: no row), and *)
(* `bids' every cached buy order.                                           *)
(***************************************************************************)
Wanted(settings, bids, bid) ==
  LET all == IF \E n \in DOMAIN bids : bids[n].wfm = bid.wfm THEN bids ELSE Append(bids, bid)
  IN \/ is_disabled(settings.wtb.max_total_price_cap)
     \/ \E n \in knapsack(all, settings.wtb.max_total_price_cap) : all[n].wfm = bid.wfm

progress_buying(settings, key, moving_avg, book, order, owned, bids) ==
  LET wtb == settings.wtb
      current == IF order = None THEN 0 ELSE order[1].price
      offered == Held(wtb, current, highest_price(book.buy), book.buy, "buy")
      metric == unwrap_or(moving_avg, 0) - offered
      max_price == get_item_max_price(settings.general, key.wfm)
      capped == IF max_price > 0 /\ offered > max_price THEN max_price ELSE offered
      unwanted == \/ ~is_disabled(wtb.avg_price_cap) /\ capped > wtb.avg_price_cap
                  \/ metric < 0
                  \/ price_range(book, "buy") < wtb.profit_threshold
      remove == IF order = None THEN Leave ELSE Delete
  IN IF is_item_blacklisted(settings.general, key, "buy") THEN Leave
     ELSE IF book.buy = <<>> \/ book.sell = <<>> THEN remove
     ELSE IF ~is_disabled(wtb.max_stock_quantity) /\ owned # None
               /\ owned[1] >= wtb.max_stock_quantity THEN remove
     ELSE IF ~Wanted(settings, bids,
                     [price |-> capped, profit |-> metric - 1, wfm |-> key.wfm, id |-> ""])
          THEN Leave
     ELSE IF unwanted THEN remove
     ELSE Post(Larger(capped, 1), metric - 1)

-----------------------------------------------------------------------------
(***************************************************************************)
(* progress_selling for one stock row [bought, hidden, status, min_price,   *)
(* min_profit, min_sma, list_price, history].  The decision also carries    *)
(* the row's new status and list price, which the first rule that locks the *)
(* row decides, and whether the row has to be saved (`dirty').              *)
(***************************************************************************)
SaleFields(row, settings) ==
  [min_profit |-> unwrap_or(row.min_profit, settings.wts.min_profit),
   min_sma |-> unwrap_or(row.min_sma, settings.wts.min_sma)]

\* A mutated form: the profit floor is taken before the average's.
SalePrice_FloorFirst(row, settings, moving_avg, lowest, held) ==
  LET f == SaleFields(row, settings)
      lifted == IF ~is_disabled(f.min_profit) /\ held - row.bought < f.min_profit
                THEN row.bought + f.min_profit ELSE held
      sma == ~is_disabled(f.min_sma) /\ moving_avg - f.min_sma > held /\ lowest > row.bought
  IN [price |-> IF sma THEN moving_avg ELSE lifted, sma |-> sma, low |-> lifted # held]

\* The price after the average's rule and the profit floor, and which applied.
SalePrice(row, settings, moving_avg, lowest, held) ==
  LET f == SaleFields(row, settings)
      sma == /\ ~is_disabled(f.min_sma) /\ held < moving_avg - f.min_sma
             /\ lowest > row.bought
      price == IF sma THEN moving_avg ELSE held
      low == ~is_disabled(f.min_profit) /\ price - row.bought < f.min_profit
  IN [price |-> IF low THEN row.bought + f.min_profit ELSE price, sma |-> sma, low |-> low]

progress_selling(settings, key, row, moving_avg, book, order) ==
  LET current == IF order = None THEN 0 ELSE order[1].price
      no_sellers == Len(book.sell) < 2 /\ row.min_price = None
      lowest == IF Len(book.sell) >= 2 THEN lowest_price(book.sell) ELSE 0
      floor == IF row.min_price = None THEN lowest ELSE Larger(lowest, row.min_price[1])
      held == Held(settings.wts, current, floor, book.sell, "sell")
      p == SalePrice(row, settings, unwrap_or(moving_avg, 0), lowest, held)
      delete == row.hidden \/ no_sellers
      status == CASE row.hidden -> "inactive"
                  [] ~row.hidden /\ no_sellers -> "no_sellers"
                  [] ~row.hidden /\ ~no_sellers /\ p.sma -> "sma_limit"
                  [] ~row.hidden /\ ~no_sellers /\ ~p.sma /\ p.low -> "to_low_profit"
                  [] OTHER -> "live"
      list == IF delete THEN None
              ELSE Some(IF p.sma THEN unwrap_or(moving_avg, 0) ELSE p.price)
      order_act == IF delete THEN (IF order = None THEN Leave ELSE Delete)
                   ELSE Post(Larger(p.price, 1), p.price - row.bought)
  IN IF \/ is_item_blacklisted(settings.general, key, "sell")
        \/ row.hidden /\ row.status = "inactive"
     THEN [order |-> Leave, row |-> row, dirty |-> FALSE]
     ELSE [order |-> order_act, dirty |-> status # row.status \/ list # row.list_price,
           row |-> [row EXCEPT !.status = status, !.list_price = list,
                               !.history = add_price_history(@, p.price)]]

-----------------------------------------------------------------------------
(***************************************************************************)
(* progress_wish_list for one wish-list row [hidden, status, min_price,     *)
(* max_price, list_price, history].                                         *)
(***************************************************************************)
progress_wish_list(settings, key, row, avg_price, book, order) ==
  LET market == IF book.buy = <<>> THEN avg_price ELSE highest_price(book.buy)
      most == unwrap_or(row.max_price, 0)
      least == unwrap_or(row.min_price, 0)
      below == IF most > 0 /\ market > most THEN most ELSE market
      price == Larger(IF least > 0 /\ below < least THEN least ELSE below, 1)
      order_act == IF row.hidden THEN (IF order = None THEN Leave ELSE Delete)
                   ELSE Post(price, 0)
  IN IF \/ is_item_blacklisted(settings.general, key, "wishlist")
        \/ row.hidden /\ row.status = "inactive"
     THEN [order |-> Leave, row |-> row, dirty |-> FALSE]
     ELSE LET new == [row EXCEPT !.status = IF row.hidden THEN "inactive" ELSE "live",
                                 !.list_price = IF row.hidden THEN None ELSE Some(price),
                                 !.history = add_price_history(@, price)]
          IN [order |-> order_act, row |-> new,
              dirty |-> \/ new.status # row.status \/ new.list_price # row.list_price
                        \/ book.buy = <<>> /\ ~row.hidden]

=============================================================================
