------------------------------- MODULE Reports -------------------------------
(***************************************************************************)
(* What the pages show of the transactions and the stock: financial        *)
(* reports and their charts (entity/dto/financial_report.rs,               *)
(* financial_graph.rs, utils/grouping.rs, commands/dashboard.rs), the      *)
(* analytics tabs (analytics/store.rs), the filters of the lists and their *)
(* pages.  Averages are pairs <<sum, number>>; text columns are the sets   *)
(* of words they contain; time counts ticks of half a second in a calendar *)
(* whose units have the lengths of the constants.                          *)
(***************************************************************************)
EXTENDS Naturals, Integers, Sequences, FiniteSets, FiniteSetsExt, SequencesExt, Functions

CONSTANTS
  SecondsPerHour, HoursPerDay, DaysPerMonth, MonthsPerYear, \* the calendar
  DaysPerWeek,
  LocalOffset,    \* hours the server's clock zone is ahead of UTC
  Top             \* rows of a ranking that are shown

Rows(s) == {s[i] : i \in DOMAIN s}
Ids(s) == {r.id : r \in Rows(s)}
Total(s, f(_)) == FoldFunction(+, 0, [i \in DOMAIN s |-> f(s[i])])
Greatest(s, f(_)) == IF s = <<>> THEN 0 ELSE Max({f(r) : r \in Rows(s)})
Least(s, f(_)) == IF s = <<>> THEN 0 ELSE Min({f(r) : r \in Rows(s)})
Over(a, b) == IF b = 0 THEN <<0, 1>> ELSE <<a, b>>

-----------------------------------------------------------------------------
(* Financial reports.                                                       *)

FinancialReport(total, sale_count, revenue, purchases_count, expenses) ==
  [total_transactions |-> total,
   average_transaction |-> Over(revenue + expenses, total),
   total_profit |-> revenue - expenses,
   average_profit |-> Over(revenue - expenses, sale_count),
   profit_margin |-> Over(revenue - expenses, revenue),
   roi |-> Over(revenue - expenses, expenses),
   sale_count |-> sale_count, revenue |-> revenue, average_revenue |-> Over(revenue, sale_count),
   purchases_count |-> purchases_count, expenses |-> expenses,
   average_expense |-> Over(expenses, purchases_count)]

\* The items with the most units, most first; items with as many in any order.
most_items(ts) ==
  LET names == {t.item : t \in Rows(ts)}
      units(n) == Total(SelectSeq(ts, LAMBDA t : t.item = n), LAMBDA t : t.quantity)
  IN  {n \in names : Cardinality({m \in names : units(m) > units(n)}) < Top}

Bought(ts) == SelectSeq(ts, LAMBDA t : t.kind = "purchase")
Sold(ts) == SelectSeq(ts, LAMBDA t : t.kind = "sale")

from_transactions(ts) ==
  LET price(t) == t.price IN
  [report |-> FinancialReport(Len(ts), Len(Sold(ts)), Total(Sold(ts), price),
                              Len(Bought(ts)), Total(Bought(ts), price)),
   revenue |-> <<Least(Sold(ts), price), Greatest(Sold(ts), price)>>,
   expense |-> <<Least(Bought(ts), price), Greatest(Bought(ts), price)>>,
   total_credits |-> Total(ts, LAMBDA t : t.credits),
   most_purchased_items |-> most_items(Bought(ts)), most_sold_items |-> most_items(Sold(ts))]

\* Stock counts what was paid against what it is listed for, per unit owned.
from_stock_items(rows) ==
  LET purchases == SelectSeq(rows, LAMBDA r : r.bought > 0)
      sales == SelectSeq(rows, LAMBDA r : r.list_price > 0)
      paid(r) == r.bought * r.owned
      asked(r) == r.list_price * r.owned
  IN  [report |-> FinancialReport(Len(rows), Len(sales), Total(sales, asked), Len(purchases), Total(purchases, paid)),
       revenue |-> <<Least(sales, asked), Greatest(sales, asked)>>,
       expense |-> <<Least(purchases, paid), Greatest(purchases, paid)>>]

\* A riven is one of its kind.
from_stock_rivens(rows) == from_stock_items([i \in DOMAIN rows |-> [rows[i] EXCEPT !.owned = 1]])

\* A wish counts its price on both sides: its profit is nothing.
from_wish_list(rows) ==
  from_stock_items([i \in DOMAIN rows |-> [rows[i] EXCEPT !.owned = 1, !.bought = rows[i].list_price]])

-----------------------------------------------------------------------------
(* Periods and charts.                                                      *)

TicksPerSecond == 2
Length(g) ==
  LET hour == SecondsPerHour * TicksPerSecond IN
  CASE g = "hour"  -> hour
    [] g = "day"   -> hour * HoursPerDay
    [] g = "month" -> hour * HoursPerDay * DaysPerMonth
    [] g = "year"  -> hour * HoursPerDay * DaysPerMonth * MonthsPerYear

\* Both ends belong to the period; the end is its last whole second.
get_start_end_of(t, g) ==
  LET start == t - (t % Length(g)) IN [start |-> start, end |-> start + Length(g) - TicksPerSecond]

Finest(levels) == CHOOSE l \in levels : \A m \in levels : Length(l) <= Length(m)

generate_date_key(t, levels) ==
  LET part(l) == CASE l = "hour"  -> (t \div Length("hour")) % HoursPerDay
                   [] l = "day"   -> (t \div Length("day")) % DaysPerMonth
                   [] l = "month" -> (t \div Length("month")) % MonthsPerYear
                   [] l = "year"  -> t \div Length("year")
  IN  [l \in levels |-> part(l)]

group_by(s, key) == [k \in {key[r] : r \in Rows(s)} |-> SelectSeq(s, LAMBDA r : key[r] = k)]

\* Rows are grouped by the server's local time.
group_by_date(ts, levels) ==
  group_by(ts, [t \in Rows(ts) |-> generate_date_key(t.at + LocalOffset * Length("hour"), levels)])

\* The keys of the period, by UTC.
PeriodKeys(start, end, levels) ==
  {generate_date_key(t, levels) : t \in {u \in start..end : (u - start) % Length(Finest(levels)) = 0}}

fill_missing_date_keys(grouped, start, end, levels) ==
  [k \in DOMAIN grouped \cup PeriodKeys(start, end, levels) |->
     IF k \in DOMAIN grouped THEN grouped[k] ELSE <<>>]

\* One value per label: the profit of its group.
FinancialGraph(grouped) == [k \in DOMAIN grouped |-> from_transactions(grouped[k]).report.total_profit]

chart(ts, start, end, levels) ==
  FinancialGraph(fill_missing_date_keys(group_by_date(ts, levels), start, end, levels))

Within(ts, start, end) == SelectSeq(ts, LAMBDA t : t.at >= start /\ t.at <= end)

generate_transaction_summary(ts, date, g, levels) ==
  LET p == get_start_end_of(date, g)
      inside == Within(ts, p.start, p.end)
  IN  [summary |-> from_transactions(inside), chart |-> chart(inside, p.start, p.end, levels),
       start |-> p.start, end |-> p.end]

\* The year before is the year of the day 365 days back.
get_total_summary(ts, now) ==
  [all |-> from_transactions(ts),
   present_year |-> generate_transaction_summary(ts, now, "year", {"year", "month"}),
   last_year |-> generate_transaction_summary(ts, now - Length("year"), "year", {"year", "month"})]

get_today_summary(ts, now) == generate_transaction_summary(ts, now, "day", {"hour"})

get_recent_days_summary(ts, now, days) ==
  LET p == get_start_end_of(now, "day")
      start == p.start - days * Length("day")
      inside == Within(ts, start, p.end)
  IN  [summary |-> from_transactions(inside), start |-> start, end |-> p.end,
       chart |-> chart(inside, start, p.end, {"year", "month", "day"})]

\* The most profitable item; which of several is the order of a hash map.
get_best_selling_items(ts) ==
  LET groups == group_by(ts, [t \in Rows(ts) |-> t.item])
      profit(i) == from_transactions(groups[i]).report.total_profit
  IN  {i \in DOMAIN groups : \A j \in DOMAIN groups : profit(j) <= profit(i)}

get_category_summary(ts, categories) ==
  [c \in categories |->
     from_transactions(SelectSeq(ts, LAMBDA t : t.tags \cap c.tags # {} \/ t.item_type \in c.types))]

\* The report of the transactions page: the rows of one page, and its named partners.
get_transaction_financial_report(page) ==
  LET partners == group_by(SelectSeq(page, LAMBDA t : t.user # ""), [t \in Rows(page) |-> t.user])
      reports == [u \in DOMAIN partners |-> from_transactions(partners[u]).report]
  IN  [report |-> from_transactions(page),
       trading_partners |-> {u \in DOMAIN reports :
          Cardinality({v \in DOMAIN reports : reports[v].total_transactions > reports[u].total_transactions}) < Top}]

-----------------------------------------------------------------------------
(* The analytics tabs.                                                      *)

\* Plausible bug: both ends of the range belong to it.
InRange_Closed(ts, from, to) == SelectSeq(ts, LAMBDA t : t.at >= from /\ t.at <= to)

InRange(ts, from, to) == SelectSeq(ts, LAMBDA t : t.at >= from /\ t.at < to)

Sums(ts) ==
  [purchases |-> Len(Bought(ts)), bought_qty |-> Total(Bought(ts), LAMBDA t : t.quantity),
   spend |-> Total(Bought(ts), LAMBDA t : t.price),
   sales |-> Len(Sold(ts)), sold_qty |-> Total(Sold(ts), LAMBDA t : t.quantity),
   revenue |-> Total(Sold(ts), LAMBDA t : t.price), profit |-> Total(Sold(ts), LAMBDA t : t.profit)]

\* How long a sold row was held: since the last purchase of its item, in range or not.
days_held(all, t) ==
  LET before == {p.at : p \in {q \in Rows(Bought(all)) : q.item = t.item /\ q.sub = t.sub /\ q.at <= t.at}}
  IN  IF before = {} THEN {} ELSE {t.at - Max(before)}

items(all, from, to) ==
  LET groups == group_by(InRange(all, from, to), [t \in Rows(all) |-> <<t.item, t.sub>>])
      held(k) == {t \in Rows(Sold(groups[k])) : days_held(all, t) # {}}
  IN  [k \in DOMAIN groups |->
         [sums |-> Sums(groups[k]),
          avg_buy |-> Over(Sums(groups[k]).spend, Sums(groups[k]).bought_qty),
          avg_sell |-> Over(Sums(groups[k]).revenue, Sums(groups[k]).sold_qty),
          avg_days_held |-> Over(MapThenSumSet(LAMBDA t : Max(days_held(all, t)), held(k)),
                                 Cardinality(held(k)))]]

partners(all, from, to) ==
  LET groups == group_by(SelectSeq(InRange(all, from, to), LAMBDA t : t.user # ""), [t \in Rows(all) |-> t.user])
  IN  [u \in DOMAIN groups |-> [trades |-> Len(groups[u]), sums |-> Sums(groups[u]),
                                last_trade_at |-> Max({t.at : t \in Rows(groups[u])})]]

BucketStart(t, bucket) ==
  LET day == t \div Length("day") IN IF bucket = "day" THEN day ELSE day - (day % DaysPerWeek)

\* Buckets in order, each with the running total of the profit.
timeline(all, from, to, bucket) ==
  LET groups == group_by(InRange(all, from, to), [t \in Rows(all) |-> BucketStart(t.at, bucket)])
      profit(b) == Sums(groups[b]).profit
  IN  [b \in DOMAIN groups |->
         [sums |-> Sums(groups[b]),
          cumulative_profit |-> MapThenSumSet(profit, {c \in DOMAIN groups : c <= b})]]

\* Owned rows with the market's median, where it has one.
stock(rows, median) ==
  LET owned == SelectSeq(rows, LAMBDA r : r.owned > 0) IN
  [i \in DOMAIN owned |->
     [id |-> owned[i].id,
      unrealised |-> IF median[owned[i].item] > 0
                     THEN <<(median[owned[i].item] - owned[i].bought) * owned[i].owned>> ELSE <<>>,
      list_vs_median |-> IF median[owned[i].item] > 0 /\ owned[i].list_price > 0
                         THEN <<owned[i].list_price - median[owned[i].item]>> ELSE <<>>]]

-----------------------------------------------------------------------------
(* Lists: filters, order and pages.                                         *)

Ignore == <<"ignore">>
Value(v) == <<"value", v>>
\* A filter that is not given, or given as null, lets every row through.
Given(field) == field[1] = "value"

TransactionFilter(r, q) ==
  /\ Given(q.query) => q.query[2] \in r.wfm_url \cup r.item_name \cup r.user_name
  /\ Given(q.transaction_type) => r.kind = q.transaction_type[2]
  /\ Given(q.item_type) => r.item_type = q.item_type[2]
  /\ Given(q.from_date) => r.at >= q.from_date[2]
  /\ Given(q.to_date) => r.at <= q.to_date[2]
  /\ Given(q.wfm_id) => r.item = q.wfm_id[2]
  /\ Given(q.sub_type) => r.sub = q.sub_type[2]
  /\ Given(q.tags) => (q.tags[2] # {} => q.tags[2] \cap r.tags # {})

TradeEntryFilter(r, q) ==
  /\ Given(q.query) => q.query[2] \in r.item_name \cup r.sub_type
  /\ Given(q.tags) => (q.tags[2] # {} => q.tags[2] \cap r.tags # {})
  /\ Given(q.group) => r.group = q.group[2]

StockItemFilter(r, q) ==
  /\ Given(q.query) => q.query[2] \in r.wfm_url \cup r.item_name \cup r.unique_name
  /\ Given(q.status) => r.status = q.status[2]

StockRivenFilter(r, q) ==
  /\ Given(q.query) => q.query[2] \in r.weapon_name \cup r.wfm_url \cup r.mod_name
  /\ Given(q.status) => r.status = q.status[2]

WishListFilter(r, q) ==
  /\ Given(q.query) => q.query[2] \in r.wfm_url \cup r.item_name
  /\ Given(q.status) => r.status = q.status[2]

\* Live market orders, filtered in memory.
OrderFilter(o, q) ==
  /\ Given(q.query) => q.query[2] \in o.item_name
  /\ Given(q.order_type) => o.order_type = q.order_type[2]
  /\ Given(q.operations) => q.operations[2] \subseteq o.operations

\* Known columns only, of which the columns of numbers are kept.
Sorted(q, columns) == q.sort_by[1] = "value" /\ q.sort_by[2] \in columns
Follows(r, s, q) ==
  LET a == r[q.sort_by[2]]
      b == s[q.sort_by[2]]
  IN  IF q.ascending THEN a < b ELSE b < a

\* A query orders by one column or none: rows that compare equal come in any order,
\* and in another for the next page.
Sortings(rows, q, columns) ==
  {s \in SetToSeqs(Rows(rows)) :
     Sorted(q, columns) => \A i, j \in DOMAIN s : i < j => ~Follows(s[j], s[i], q)}

\* A list in memory is sorted stably.
StablySorted(rows, q, columns) ==
  LET before(i, j) ==
        IF Sorted(q, columns) /\ (Follows(rows[i], rows[j], q) \/ Follows(rows[j], rows[i], q))
        THEN Follows(rows[i], rows[j], q) ELSE i < j
      at == SetToSortSeq(DOMAIN rows, before)
  IN  [k \in DOMAIN rows |-> rows[at[k]]]

CeilDiv(a, b) == (a + b - 1) \div b

\* The pages of a list in memory; -1 asks for all of it.
paginate(rows, page, per_page) ==
  LET total == Len(rows)
      start == (page - 1) * per_page
      end   == Min({start + per_page, total})
  IN  [results |-> CASE start < total /\ end > 0 -> SubSeq(rows, start + 1, end)
                     [] ~(start < total /\ end > 0) /\ per_page = -1 -> rows
                     [] OTHER -> <<>>,
       total_pages |-> IF per_page = -1 THEN 1 ELSE CeilDiv(total, per_page)]

\* The pages of a query: a page past the last one is the last one.
paginate_query(rows, page, limit) ==
  LET pages == IF Len(rows) = 0 THEN 1 ELSE CeilDiv(Len(rows), limit)
      at    == Min({Max({page, 1}), pages})
  IN  IF limit = -1 THEN [results |-> rows, total_pages |-> 1]
      ELSE [results |-> SubSeq(rows, (at - 1) * limit + 1, Min({at * limit, Len(rows)})), total_pages |-> pages]

TransactionColumns == {"price", "at", "profit", "credits"}
TradeEntryColumns == {"price"}
StockItemColumns == {"bought", "list_price", "owned"}
StockRivenColumns == {"bought", "list_price"}
WishListColumns == {"list_price"}
OrderColumns == {"created_at", "platinum", "updated_at"}

\* What a page of the rows of a table that passed its filter may be.
get_all(rows, columns, q) == {paginate_query(s, q.page, q.limit) : s \in Sortings(rows, q, columns)}

get_transaction_pagination(rows, q) ==
  get_all(SelectSeq(rows, LAMBDA r : TransactionFilter(r, q)), TransactionColumns, q)
get_trade_entry_pagination(rows, q) ==
  get_all(SelectSeq(rows, LAMBDA r : TradeEntryFilter(r, q)), TradeEntryColumns, q)
get_stock_item_pagination(rows, q) ==
  get_all(SelectSeq(rows, LAMBDA r : StockItemFilter(r, q)), StockItemColumns, q)
get_stock_riven_pagination(rows, q) ==
  get_all(SelectSeq(rows, LAMBDA r : StockRivenFilter(r, q)), StockRivenColumns, q)
get_wish_list_pagination(rows, q) ==
  get_all(SelectSeq(rows, LAMBDA r : WishListFilter(r, q)), WishListColumns, q)

get_wfm_orders_pagination(orders, q) ==
  paginate(StablySorted(SelectSeq(orders, LAMBDA o : OrderFilter(o, q)), q, OrderColumns), q.page, q.limit)

\* Counts and platinum by side, of the page that was asked for.
get_wfm_orders_status_counts(orders, q) ==
  LET page == get_wfm_orders_pagination(orders, q).results IN
  [side \in {"buy", "sell"} |->
     LET s == SelectSeq(page, LAMBDA o : o.order_type = side) IN
     <<Len(s), Total(s, LAMBDA o : o.platinum * o.quantity), Total(s, LAMBDA o : o.potential_profit * o.quantity)>>]
=============================================================================
