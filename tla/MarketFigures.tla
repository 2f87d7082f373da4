---------------------------- MODULE MarketFigures ----------------------------
(***************************************************************************)
(* The collector's figures, as functions of its tables: statistics of      *)
(* probable trades (collector/stats.rs, maintenance.rs), of closed trades  *)
(* (closed.rs), the market pages (market.rs, history.rs) and the health    *)
(* counters (health.rs).  Time counts half days: an odd tick is past the   *)
(* daily cutoff at 08:30.  Means are pairs <<sum, number>>, medians are    *)
(* doubled; a figure that is absent is <<>>.                               *)
(***************************************************************************)
EXTENDS Naturals, Integers, Sequences, FiniteSets, FiniteSetsExt, SequencesExt, Functions

CONSTANTS
  WindowDays, FreshDays, WarmMinDays,   \* closed.rs: 7, 3, 5
  WarmDays, WarmMinTrades, SideMinTrades, \* StatsConfig: 7, 10, 3
  AvgDays,                              \* StatsConfig: 48 h, in days
  BulkThreshold,                        \* StatsConfig: 3
  HistoryTrades, MoversPerSide          \* 50, 25

Ticks == 2
Day(t) == t \div Ticks
None == <<>>
Some(v) == <<v>>
Known(S, f(_)) == {r \in S : f(r) # None}
Mean(f) == IF DOMAIN f = {} THEN None ELSE Some(<<MapThenSumSet(LAMBDA x : f[x], DOMAIN f), Cardinality(DOMAIN f)>>)
Lowest(S) == IF S = {} THEN None ELSE Some(Min(S))
Highest(S) == IF S = {} THEN None ELSE Some(Max(S))

\* Twice the median of a sequence of prices.
median(values) ==
  LET s == SortSeq(values, LAMBDA a, b : a < b)
      mid == Len(s) \div 2
  IN  CASE s = <<>> -> None
        [] s # <<>> /\ Len(s) % 2 = 0 -> Some(s[mid] + s[mid + 1])
        [] OTHER -> Some(2 * s[mid + 1])

Listed(S, f(_)) == FoldSet(LAMBDA x, s : Append(s, f(x)), <<>>, S)
MedianOf(trades) == median(Listed(trades, LAMBDA t : t.platinum))

-----------------------------------------------------------------------------
(* Probable trades.                                                         *)

resolve_vanish(bulk, relisted) ==
  CASE bulk >= BulkThreshold -> "bulk"
    [] bulk < BulkThreshold /\ relisted -> "relist"
    [] OTHER -> "trade"

\* trades: [id, side, platinum, at]; spread: [min_sell, max_buy], each maybe absent.
compute_item_stats(trades, spread, first_swept_at, now) ==
  LET week == {t \in trades : t.at > now - WarmDays * Ticks /\ t.at <= now}
      recent == {t \in week : t.at > now - AvgDays * Ticks}
      days == {Day(t.at) : t \in week}
      sells == {t \in week : t.side = "sell"}
      buys == {t \in week : t.side = "buy"}
      history == IF first_swept_at = None \/ now < first_swept_at[1] THEN 0
                 ELSE Day(now - first_swept_at[1])
  IN  [trades |-> Cardinality(week),
       avg_price |-> Mean([t \in recent |-> t.platinum]),
       moving_avg |-> Mean([d \in days |-> MedianOf({t \in week : Day(t.at) = d})[1]]),
       profit |-> IF Cardinality(sells) >= SideMinTrades /\ Cardinality(buys) >= SideMinTrades
                  THEN Some(MedianOf(sells)[1] - MedianOf(buys)[1])
                  ELSE IF spread.min_sell # None /\ spread.max_buy # None
                       THEN Some(2 * (spread.min_sell[1] - spread.max_buy[1])) ELSE None,
       min_price |-> Lowest({t.platinum : t \in week}), max_price |-> Highest({t.platinum : t \in week}),
       median |-> MedianOf(week), history_days |-> history,
       warm |-> history >= WarmDays /\ Cardinality(week) >= WarmMinTrades]

daily_rollup(trades) ==
  [d \in {Day(t.at) : t \in trades} |->
     LET of == {t \in trades : Day(t.at) = d} IN
     [volume |-> Cardinality(of), median |-> MedianOf(of),
      min_price |-> Lowest({t.platinum : t \in of}), max_price |-> Highest({t.platinum : t \in of})]]

-----------------------------------------------------------------------------
(* Closed trades: rows [day, volume, median, min_price, max_price, wa_price]. *)

aggregate(rows, today, min_trades) ==
  LET days == {r \in rows : r.day >= today - WindowDays /\ r.day < today}
      priced == Known(days, LAMBDA r : r.median)
      sold == {r \in days : r.volume > 0 /\ r.wa_price # None}
      recent == {r \in sold : Cardinality({s \in sold : s.day > r.day}) < 2}
      first == CHOOSE r \in priced : \A s \in priced : r.day <= s.day
      last == CHOOSE r \in priced : \A s \in priced : s.day <= r.day
      ranged == {r \in days : r.max_price # None /\ r.min_price # None}
      trades == MapThenSumSet(LAMBDA r : r.volume, days)
      moving_avg == Mean([r \in priced |-> r.median[1]])
  IN  [window |-> {r.day : r \in days}, trades |-> trades, moving_avg |-> moving_avg,
       median |-> median(Listed(priced, LAMBDA r : r.median[1])),
       avg_price |-> IF recent = {} THEN moving_avg
                     ELSE Some(<<MapThenSumSet(LAMBDA r : r.wa_price[1] * r.volume, recent),
                                 MapThenSumSet(LAMBDA r : r.volume, recent)>>),
       min_price |-> Lowest({r.min_price[1] : r \in Known(days, LAMBDA r : r.min_price)}),
       max_price |-> Highest({r.max_price[1] : r \in Known(days, LAMBDA r : r.max_price)}),
       week_price_shift |-> IF Cardinality(priced) >= 2 THEN Some(last.median[1] - first.median[1]) ELSE None,
       range_profit |-> Mean([r \in ranged |-> r.max_price[1] - r.min_price[1]]),
       warm |-> Cardinality(days) >= WarmMinDays /\ trades >= min_trades]

\* Today's cutoff once it is past, else yesterday's.
cutoff(now) == IF now % Ticks = 1 THEN now ELSE now - 1

\* Plausible bug: the rows read reach back for the window and the freshness only.
Loaded_Short(rows, now) ==
  {r \in rows : r.day >= Day(now) - (WindowDays + FreshDays) /\ r.day < Day(now)}

\* Far enough back for the window of an item last fetched FreshDays ago.
Loaded(rows, now) ==
  {r \in rows : r.day >= Day(now) - (WindowDays + FreshDays + 1) /\ r.day < Day(now)}

\* The window ends at the cutoff of the fetch, not of the clock.
load_fresh(rows, fetch, now, min_trades) ==
  IF fetch.outcome = "ok" /\ fetch.at >= now - FreshDays * Ticks /\ Loaded(rows, now) # {}
  THEN Some(aggregate(Loaded(rows, now), Day(cutoff(fetch.at)), min_trades)) ELSE None

refresh_status(items, fetches) ==
  [active |-> Cardinality(items),
   outcomes |-> [o \in {"ok", "missing", "failed"} |->
                   Cardinality({i \in items \cap DOMAIN fetches : fetches[i].outcome = o})],
   oldest |-> Lowest({fetches[i].at : i \in items \cap DOMAIN fetches})]

-----------------------------------------------------------------------------
(* The market pages.                                                        *)

overview(stats, names) == {s \in stats : s.item \in names}

\* The thresholds of market.rs, its own copies of those of StatsConfig.
WARM_DAYS == 7
WARM_TRADES == 10

\* Warm keys now, and on the days ahead if trades stay as they are.
warmup(stats) ==
  LET bucket(n) == CASE n = 0 -> "0" [] n \in 1..4 -> "1-4" [] n \in 5..9 -> "5-9" [] OTHER -> "10+" IN
  [projected |-> [d \in 1..WARM_DAYS |->
     Cardinality({s \in stats : s.history_days + d >= WARM_DAYS /\ s.trades >= WARM_TRADES})],
   by_history |-> [d \in 0..WARM_DAYS |->
     Cardinality({s \in stats : IF d = WARM_DAYS THEN s.history_days >= d ELSE s.history_days = d})],
   by_trades |-> [b \in {"0", "1-4", "5-9", "10+"} |-> Cardinality({s \in stats : bucket(s.trades) = b})],
   warm |-> Cardinality({s \in stats : s.warm})]

\* The latest daily median against the latest one at least days_back older: rows
\* [item, day, median], stats [item, trades].
movers_for(daily, stats, days_back, min_volume, names) ==
  LET of(i) == {r \in daily : r.item = i /\ r.median # None}
      now(i) == CHOOSE r \in of(i) : \A s \in of(i) : s.day <= r.day
      older(i) == {r \in of(i) : r.day <= now(i).day - days_back}
      then(i) == CHOOSE r \in older(i) : \A s \in older(i) : s.day <= r.day
      judged == {s.item : s \in {t \in stats : t.trades >= min_volume /\ t.item \in names
                                               /\ of(t.item) # {} /\ older(t.item) # {}}}
      valid == {i \in judged : then(i).median[1] > 0}
      rise(i) == now(i).median[1] - then(i).median[1]
      ahead(i, j) == rise(i) * then(j).median[1] > rise(j) * then(i).median[1]
      best(S, better(_, _)) == {i \in S : Cardinality({j \in S : better(j, i)}) < MoversPerSide}
  IN  [up |-> best({i \in valid : rise(i) > 0}, ahead),
       down |-> best({i \in valid : rise(i) < 0}, LAMBDA i, j : ahead(j, i))]

\* One item's page: the variant asked for if it exists, else the first.
load_history(tables, sub_type, since) ==
  LET subs == {r.sub : r \in tables.stats} \cup {r.sub : r \in tables.hourly}
      chosen == IF sub_type # None /\ sub_type[1] \in subs THEN sub_type[1]
                ELSE IF subs = {} THEN 0 ELSE Min(subs)
      of(S) == {r \in S : r.sub = chosen}
      trades == {t \in of(tables.vanished) : t.status = "trade"}
  IN  [sub_types |-> subs, sub_type |-> chosen, stats |-> of(tables.stats),
       hourly |-> {r \in of(tables.hourly) : r.hour >= since},
       daily |-> {r \in of(tables.daily) : r.day >= Day(since)},
       trades |-> {t \in trades : Cardinality({u \in trades : u.at > t.at}) < HistoryTrades},
       book |-> Highest({r.at : r \in of(tables.sweeps)})]

-----------------------------------------------------------------------------
(* Health: events of the last hour, newest last; an hour is two ticks here. *)

Hour == 2

\* Events leave from the front until one is young enough.
Pruned(events, at) ==
  LET keep == {i \in DOMAIN events : events[i].at >= at - Hour}
  IN  IF keep = {} THEN <<>> ELSE SubSeq(events, Min(keep), Len(events))

record(events, e) == Pruned(Append(events, e), e.at)

Recorded(all) == FoldLeft(record, <<>>, all)

lane_health(events, lane, now) ==
  LET recent == {i \in DOMAIN events : events[i].lane = lane /\ events[i].at >= now - Hour} IN
  [swept_last_hour |-> Cardinality({i \in recent : events[i].ok}),
   errors_last_hour |-> Cardinality({i \in recent : ~events[i].ok})]

snapshot(events, now) == [lane \in {"hot", "cold", "trader"} |-> lane_health(events, lane, now)]
=============================================================================
