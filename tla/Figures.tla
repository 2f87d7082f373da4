------------------------------- MODULE Figures -------------------------------
(***************************************************************************)
(* The pages' figures as questions and answers: a question is put to the   *)
(* operators of Reports and MarketFigures, and the answers are held        *)
(* against one another.                                                    *)
(***************************************************************************)
EXTENDS Reports, MarketFigures

CONSTANTS
  Ledgers,    \* [ts, now, days, categories]: transactions and a moment
  Ranges,     \* [ts, from, mid, to, bucket, rows, median]
  Lists,      \* [orders, q, rows, tq, shelf, sq]: orders, transactions, stock, and a query of each
  ClosedKeys, \* [rows, fetch, now]: closed days of a key, its fetch, a moment
  Markets,    \* [keys, now, daily, names]: trades of each key and its first sweep
  Watches     \* [events, now]: sweeps and a moment after them

VARIABLES asked, question, answer

figures == <<asked, question, answer>>

Unanswered == [of |-> "none"]

FiguresInit ==
  /\ answer = Unanswered
  /\ \/ asked = "ledger" /\ question \in Ledgers
     \/ asked = "range" /\ question \in Ranges
     \/ asked = "list" /\ question \in Lists
     \/ asked = "closed" /\ question \in ClosedKeys
     \/ asked = "market" /\ question \in Markets
     \/ asked = "watch" /\ question \in Watches

Answer(kind, a) ==
  /\ asked = kind /\ answer = Unanswered
  /\ answer' = [of |-> kind, is |-> a]
  /\ UNCHANGED <<asked, question>>

dashboard_summary ==
  Answer("ledger", [total |-> get_total_summary(question.ts, question.now),
                    today |-> get_today_summary(question.ts, question.now),
                    recent_days |-> get_recent_days_summary(question.ts, question.now, question.days),
                    best_seller |-> get_best_selling_items(question.ts),
                    categories |-> get_category_summary(question.ts, question.categories)])

Analytics ==
  Answer("range", [whole |-> items(question.ts, question.from, question.to),
                   first |-> items(question.ts, question.from, question.mid),
                   second |-> items(question.ts, question.mid, question.to),
                   lines |-> timeline(question.ts, question.from, question.to, question.bucket),
                   partners |-> partners(question.ts, question.from, question.to),
                   stock |-> stock(question.rows, question.median),
                   reports |-> <<from_stock_items(question.rows), from_stock_rivens(question.rows),
                                 from_wish_list(question.rows)>>])

\* Each page is a query of its own: what it may be.
Pages(P(_)) ==
  LET total == (CHOOSE r \in P(1) : TRUE).total_pages IN [p \in 1..total |-> {r.results : r \in P(p)}]
Listing ==
  Answer("list",
    LET at(q, p) == [q EXCEPT !.page = p]
        row_page(p) == get_transaction_pagination(question.rows, at(question.tq, p))
    IN  [orders |-> Pages(LAMBDA p : {get_wfm_orders_pagination(question.orders, at(question.q, p))}),
         rows |-> Pages(row_page),
         shelf |-> <<Pages(LAMBDA p : get_stock_item_pagination(question.shelf, at(question.sq, p))),
                     Pages(LAMBDA p : get_stock_riven_pagination(question.shelf, at(question.sq, p))),
                     Pages(LAMBDA p : get_wish_list_pagination(question.shelf, at(question.sq, p))),
                     Pages(LAMBDA p : get_trade_entry_pagination(question.shelf, at(question.sq, p)))>>,
         counts |-> get_wfm_orders_status_counts(question.orders, question.q),
         reports |-> {get_transaction_financial_report(page.results) : page \in row_page(1)}])

ClosedOf(q) ==
  [stats |-> load_fresh(q.rows, q.fetch, q.now, WarmMinTrades),
   status |-> refresh_status({1, 2}, [i \in {1} |-> q.fetch])]
ClosedFigures == Answer("closed", ClosedOf(question))

\* The figures of every key as the collector last wrote them.
StatsOf(k, now) ==
  LET c == compute_item_stats(k.trades, k.spread, k.first_swept_at, now)
  IN  [column \in DOMAIN c \cup {"item"} |-> IF column = "item" THEN k.item ELSE c[column]]
KeyStats(keys, now) == {StatsOf(k, now) : k \in keys}

MarketOf(q) ==
  LET stats == KeyStats(q.keys, q.now) IN
  [warmup |-> warmup(stats), overview |-> overview(stats, q.names),
   movers |-> [d \in {1, 7} |-> movers_for(q.daily, stats, d, 1, q.names)],
   days |-> [k \in q.keys |-> daily_rollup(k.trades)],
   history |-> load_history([stats |-> {[sub |-> 1]}, hourly |-> {[sub |-> 2, hour |-> q.now]},
                             daily |-> {}, vanished |-> {}, sweeps |-> {}], None, q.now - Hour)]
MarketPages == Answer("market", MarketOf(question))

HealthOf(q) == snapshot(Recorded(q.events), q.now)
Health == Answer("watch", HealthOf(question))

FiguresNext == dashboard_summary \/ Analytics \/ Listing \/ ClosedFigures \/ MarketPages \/ Health
FiguresSpec == FiguresInit /\ [][FiguresNext]_figures

Told(kind) == answer.of = kind

-----------------------------------------------------------------------------
SumOver(f) == FoldFunction(+, 0, f)

\* A chart shows the profit its summary states: every transaction of the period
\* is under one label, also where the server's zone moves it to the label of
\* another day than the one UTC gives it (generate_transaction_summary, which
\* groups by local time and fills in the labels of UTC).
ChartsAddUp ==
  Told("ledger") =>
    \A s \in {answer.is.today, answer.is.recent_days, answer.is.total.present_year, answer.is.total.last_year} :
      SumOver(s.chart) = s.summary.report.total_profit

\* The analytics tabs agree with one another: the items of a range add up to its
\* timeline and to the last running total, and a range cut in two to its parts, so
\* no transaction is counted twice or dropped at the cut (RANGE of analytics/store.rs).
TabsAgree ==
  Told("range") =>
    LET add(f, part) == SumOver([k \in DOMAIN f |-> f[k].sums[part]])
        a == answer.is
    IN  \A part \in {"purchases", "spend", "sales", "revenue", "profit", "sold_qty", "bought_qty"} :
          /\ add(a.whole, part) = add(a.lines, part)
          /\ add(a.whole, part) = add(a.first, part) + add(a.second, part)
          /\ part = "profit" /\ a.lines # <<>> =>
               a.lines[Max(DOMAIN a.lines)].cumulative_profit = add(a.whole, part)

\* What the pages of a list come to, read one after the other.
Readings(pages) ==
  {FlattenSeq(r) : r \in {f \in [DOMAIN pages -> UNION Rows(pages)] : \A p \in DOMAIN pages : f[p] \in pages[p]}}

\* The pages follow one another in the order asked for, each value as often as
\* rows have it; no row twice on a page, and in the list where no two rows compare equal.
InOrder(pages, wanted, q, columns) ==
  LET with(s, r) == {i \in DOMAIN s : ~Follows(s[i], r, q) /\ ~Follows(r, s[i], q)}
      distinct == Sorted(q, columns) /\ \A r \in Rows(wanted) : Cardinality(with(wanted, r)) = 1
  IN  /\ \A p \in DOMAIN pages : \A s \in pages[p] : Cardinality(Ids(s)) = Len(s)
      /\ \A shown \in Readings(pages) :
           /\ Rows(shown) \subseteq Rows(wanted) /\ Len(shown) = Len(wanted)
           /\ Sorted(q, columns) =>
                /\ \A i, j \in DOMAIN shown : i < j => ~Follows(shown[j], shown[i], q)
                /\ \A r \in Rows(wanted) : Cardinality(with(shown, r)) = Cardinality(with(wanted, r))
           /\ distinct \/ Len(pages) = 1 => Rows(shown) = Rows(wanted)

\* Read page by page, a list comes in the order asked for and is as long as the rows
\* that pass its filter; each of them is shown exactly once if the order tells
\* them apart or the list was sorted in memory (paginate, paginate_query: each page
\* is a query with an ORDER BY of one column or none).
PagesPartitionTheRows ==
  Told("list") =>
    LET passing(rows, passes(_, _), q) == SelectSeq(rows, LAMBDA r : passes(r, q))
        a == answer.is
        orders == passing(question.orders, OrderFilter, question.q)
        ordered(k, passes(_, _), columns) ==
          InOrder(a.shelf[k], passing(question.shelf, passes, question.sq), question.sq, columns)
    IN  /\ InOrder(a.orders, orders, question.q, OrderColumns)
        /\ \A shown \in Readings(a.orders) : Rows(shown) = Rows(orders)
        /\ InOrder(a.rows, passing(question.rows, TransactionFilter, question.tq), question.tq, TransactionColumns)
        /\ ordered(1, StockItemFilter, StockItemColumns)
        /\ ordered(2, StockRivenFilter, StockRivenColumns)
        /\ ordered(3, WishListFilter, WishListColumns)
        /\ ordered(4, TradeEntryFilter, TradeEntryColumns)

\* As long as a key's fetch counts as fresh, its closed figures come from the
\* same days: the seven before the cutoff its fetch could see, however far the clock
\* has moved on (load_fresh: the rows it reads and the window it cuts are dated
\* by two different clocks).
ClosedWindowIsWhole ==
  Told("closed") /\ answer.is.stats # None =>
    LET anchor == Day(cutoff(question.fetch.at)) IN
    answer.is.stats[1].window = {r.day : r \in {s \in question.rows : s.day >= anchor - WindowDays /\ s.day < anchor}}

\* The warm-up page foretells what the collector will say: the keys projected warm in
\* d days are those compute_item_stats calls warm once d days have passed, if
\* each key's trades of the week are made again (market.rs and stats.rs keep their
\* own copies of the thresholds).  Its two histograms count every key once.
WarmupProjects ==
  Told("market") =>
    LET w == answer.is.warmup
        later(k, d) == compute_item_stats({[t EXCEPT !.at = @ + d * Ticks] : t \in k.trades},
                                          k.spread, k.first_swept_at, question.now + d * Ticks)
    IN  /\ \A d \in DOMAIN w.projected : w.projected[d] = Cardinality({k \in question.keys : later(k, d).warm})
        /\ SumOver(w.by_history) = Cardinality(question.keys)
        /\ SumOver(w.by_trades) = Cardinality(question.keys)

\* The health page counts the sweeps of the last hour, all of them, although older
\* events are dropped while newer ones are recorded (HealthTracker::record).
LaneCountsAreTheLastHour ==
  Told("watch") =>
    \A lane \in DOMAIN answer.is :
      answer.is[lane].swept_last_hour + answer.is[lane].errors_last_hour =
        Cardinality({i \in DOMAIN question.events :
                       question.events[i].lane = lane /\ question.events[i].at >= question.now - Hour})

-----------------------------------------------------------------------------
(* Why it holds.                                                            *)

\* An answer is the operators' to the question that was put.
FiguresInv ==
  /\ asked = "closed" => question \in ClosedKeys /\ answer \in {Unanswered, [of |-> asked, is |-> ClosedOf(question)]}
  /\ asked = "market" => question \in Markets /\ answer \in {Unanswered, [of |-> asked, is |-> MarketOf(question)]}
  /\ asked = "watch" => question \in Watches /\ answer \in {Unanswered, [of |-> asked, is |-> HealthOf(question)]}
  /\ asked \notin {"closed", "market", "watch"} => answer.of \notin {"closed", "market", "watch"}
=============================================================================
