-------------------------------- MODULE Holds --------------------------------
(***************************************************************************)
(* The hold projections (collector/trends.rs): every key's closed days are *)
(* fitted once per state of the latest day and the fits are kept in FITS,  *)
(* a static that concurrent calls of holds share.  A call counts the rows  *)
(* of the latest day, looks the fits up under that count, and, when they   *)
(* are not there, loads the days, fits them and stores the fits; between   *)
(* any two of these the closed pass may upsert an item or a day may be     *)
(* retired.  The least squares over logarithms is left to Steady, ExitLow  *)
(* and PriceNow; weeks, windows, thresholds and quotes are as in the code. *)
(***************************************************************************)
EXTENDS Integers, FiniteSets, FiniteSetsExt

CONSTANTS
  Callers, Keys,
  Closed,            \* what the market will have closed: a set of [Keys -> [Day -> median or 0]]
  Swept,             \* per key the quotes of its last sweep: a set of [Keys -> <<>> or [ask, bid]]
  Names,             \* keys whose item the cache knows
  LastToday,         \* bound: the last day of the model
  WeekDays, WindowDays, MinWeeks, RetentionDays, \* 7, 90, 11, 90
  Thresholds,        \* [horizon_weeks, min_volume, min_margin_pct, min_weeks] a caller may send
  Steady(_),         \* of weekly prices: r2, Durbin-Watson and trend_intact pass
  PriceNow(_),       \* of weekly prices: the mean of the last two
  ExitLow(_, _)      \* of weekly prices and a horizon: the pessimistic exit

VARIABLES
  market, quotes,    \* what the market has, fixed
  today, table,      \* closed_stats_daily: a set of [key, day, median]
  FITS,              \* None or [latest, n, fits, of, day]
  call               \* per caller [pc, latest, n, day, fits, of, t, rows]
  \* history in both: day, the keys of the latest day when they were counted; of, those when the days were loaded

vars == <<market, quotes, today, table, FITS, call>>

None == <<>>
Some(v) == <<v>>

-----------------------------------------------------------------------------
(* What a fit is made of.                                                   *)

LAST_WEEK == (WindowDays - 1) \div WeekDays
first_day(latest) == latest - (WindowDays - 1)

in_window(points, latest) == {p \in points : p.median > 0 /\ p.day >= first_day(latest) /\ p.day <= latest}
Week(p, latest) == LAST_WEEK - ((latest - p.day) \div WeekDays)

\* Twice the median of each scored week's daily medians.
weekly_prices(points, latest) ==
  LET scored == in_window(points, latest)
      of(w) == {p \in scored : Week(p, latest) = w}
      rank(w, k) == CHOOSE p \in of(w) :
        Cardinality({q \in of(w) : q.median < p.median \/ (q.median = p.median /\ q.day < p.day)}) = k
  IN  [w \in {Week(p, latest) : p \in scored} |->
         LET n == Cardinality(of(w)) IN rank(w, (n - 1) \div 2).median + rank(w, n \div 2).median]

fit(points, latest) ==
  LET weekly == weekly_prices(points, latest) IN
  IF Cardinality(DOMAIN weekly) < MinWeeks THEN None
  ELSE Some([weekly |-> weekly, weeks |-> Cardinality(DOMAIN weekly), last_week |-> Max(DOMAIN weekly),
             volume |-> Cardinality(in_window(points, latest))])

load_points(rows, latest) ==
  {r \in rows : r.day >= first_day(latest) /\ r.day <= latest /\ r.median > 0}

Fits(rows, latest) == [k \in Keys |-> fit({r \in load_points(rows, latest) : r.key = k}, latest)]

\* The ask is no lower than what the item traded for lately.
quote_or_closed(sweep, price_now) ==
  IF sweep # None THEN [ask |-> Max({sweep[1].ask, price_now}), bid |-> sweep[1].bid, source |-> "sweep"]
  ELSE [ask |-> price_now, bid |-> price_now, source |-> "closed"]

project(f, quote, horizon) ==
  LET exit == ExitLow(f.weekly, horizon) - Max({PriceNow(f.weekly) - quote.bid, 0})
  IN  [exit_low |-> exit, profit_low |-> exit - quote.ask]

qualifies(f, quote, p, t) ==
  /\ f.last_week = LAST_WEEK
  /\ Steady(f.weekly)
  /\ quote.ask >= 1
  /\ f.weeks >= t.min_weeks /\ f.volume >= t.min_volume
  /\ quote.source = "sweep"
  /\ p.profit_low * 100 >= t.min_margin_pct * quote.ask

hold_row(k, f, quote, t) ==
  LET p == project(f, quote, t.horizon_weeks)
  IN  [key |-> k, quote |-> quote, projection |-> p, weeks |-> f.weeks, qualified |-> qualifies(f, quote, p, t)]

Clamped(t) ==
  [t EXCEPT !.horizon_weeks = Max({1, Min({@, 12})}), !.min_margin_pct = Max({@, 0})]

-----------------------------------------------------------------------------
(* The table.                                                               *)

Latest(rows) == Max({r.day : r \in rows})
KeysOf(rows, d) == {r.key : r \in {s \in rows : s.day = d}}
OfLatest(rows) == KeysOf(rows, Latest(rows))
latest_day_rows(rows) == IF rows = {} THEN None ELSE Some([latest |-> Latest(rows), n |-> Cardinality(OfLatest(rows))])

\* A fetch answers with every closed day of the item, and one transaction writes them.
upsert_days(k) ==
  LET days == {[key |-> k, day |-> d, median |-> market[k][d]] :
                 d \in {e \in DOMAIN market[k] : market[k][e] > 0 /\ e >= today - RetentionDays /\ e < today}}
  IN  /\ table' = {r \in table : r.key # k \/ r.day \notin {d.day : d \in days}} \cup days
      /\ UNCHANGED <<market, quotes, today, FITS, call>>

apply_retention ==
  /\ table' = {r \in table : r.day >= today - RetentionDays}
  /\ UNCHANGED <<market, quotes, today, FITS, call>>

Tick == today < LastToday /\ today' = today + 1 /\ UNCHANGED <<market, quotes, table, FITS, call>>

-----------------------------------------------------------------------------
(* A call of holds.                                                         *)

Idle == [pc |-> "idle", latest |-> 0, n |-> 0, day |-> {}, t |-> None, fits |-> None, of |-> {}, rows |-> {}]

Init ==
  /\ market \in Closed /\ quotes \in Swept
  /\ today = 1 /\ table = {} /\ FITS = None
  /\ call = [c \in Callers |-> Idle]

Count(c) ==
  /\ call[c].pc = "idle"
  /\ \E t \in Thresholds :
       call' = [call EXCEPT ![c] =
         IF latest_day_rows(table) = None THEN Idle
         ELSE [Idle EXCEPT !.pc = "look", !.latest = latest_day_rows(table)[1].latest,
                           !.n = latest_day_rows(table)[1].n, !.day = OfLatest(table), !.t = Clamped(t)]]
  /\ UNCHANGED <<market, quotes, today, table, FITS>>

\* The lock is held for the comparison alone.
Hit(c) == FITS # None /\ FITS[1].latest = call[c].latest /\ FITS[1].n = call[c].n

Look(c) ==
  /\ call[c].pc = "look"
  /\ call' = [call EXCEPT ![c] =
       IF Hit(c) THEN [@ EXCEPT !.pc = "quote", !.fits = FITS[1].fits, !.of = FITS[1].of]
       ELSE [@ EXCEPT !.pc = "load"]]
  /\ UNCHANGED <<market, quotes, today, table, FITS>>

Load(c) ==
  /\ call[c].pc = "load"
  /\ call' = [call EXCEPT ![c] =
       [@ EXCEPT !.pc = "store", !.fits = Fits(table, call[c].latest), !.of = KeysOf(table, call[c].latest)]]
  /\ UNCHANGED <<market, quotes, today, table, FITS>>

\* Plausible bug: the rows are counted again when the fits are stored.
StoredUnder_Recounted(c) ==
  IF latest_day_rows(table) = None THEN [latest |-> call[c].latest, n |-> 0] ELSE latest_day_rows(table)[1]

\* The fits are stored under the count from before the load.
StoredUnder(c) == [latest |-> call[c].latest, n |-> call[c].n]

Store(c) ==
  /\ call[c].pc = "store"
  /\ FITS' = Some([latest |-> StoredUnder(c).latest, n |-> StoredUnder(c).n,
                   fits |-> call[c].fits, of |-> call[c].of, day |-> call[c].day])
  /\ call' = [call EXCEPT ![c].pc = "quote"]
  /\ UNCHANGED <<market, quotes, today, table>>

Answer(c) ==
  /\ call[c].pc = "quote"
  /\ LET f == call[c].fits
         fitted == {k \in Keys \cap Names : f[k] # None}
         row(k) == hold_row(k, f[k][1], quote_or_closed(quotes[k], PriceNow(f[k][1].weekly)), call[c].t)
     IN  call' = [call EXCEPT ![c] = [@ EXCEPT !.pc = "done", !.rows = {row(k) : k \in fitted}]]
  /\ UNCHANGED <<market, quotes, today, table, FITS>>

Again(c) ==
  /\ call[c].pc = "done"
  /\ call' = [call EXCEPT ![c] = Idle]
  /\ UNCHANGED <<market, quotes, today, table, FITS>>

Next ==
  \/ Tick \/ apply_retention
  \/ \E k \in Keys : upsert_days(k)
  \/ \E c \in Callers : Count(c) \/ Look(c) \/ Load(c) \/ Store(c) \/ Answer(c) \/ Again(c)

HoldsSpec == Init /\ [][Next]_vars

-----------------------------------------------------------------------------
\* An answer misses no day it counted: the fits a call answers with, its own or those
\* another call left in FITS, were made from every row of the latest day that was there
\* when the call asked, unless that day is past retention and was deleted meanwhile; and a key
\* that qualifies traded in the week of that day.  Calls that overlap store in any order, and
\* rows land between the count and the load (holds).
HoldsSeeTheCountedDay ==
  \A c \in Callers : call[c].pc = "done" =>
    /\ call[c].day \subseteq call[c].of \/ call[c].latest < today - RetentionDays
    /\ \A r \in call[c].rows : r.qualified =>
         \E d \in DOMAIN market[r.key] :
           market[r.key][d] > 0 /\ d <= call[c].latest /\ call[c].latest - d < WeekDays

-----------------------------------------------------------------------------
(* Why it holds: the inductive invariant.                                   *)

TypeOK ==
  /\ market \in Closed
  /\ today \in Nat
  /\ \A r \in table :
       /\ r.key \in Keys /\ r.day \in DOMAIN market[r.key] /\ r.day < today
       /\ r.median = market[r.key][r.day] /\ r.median > 0
  /\ DOMAIN call = Callers
  /\ \A c \in Callers : DOMAIN call[c] = DOMAIN Idle

\* What was counted and is still used: by the calls under way and by the fits in store.
Counts ==
  {[latest |-> call[c].latest, n |-> call[c].n, day |-> call[c].day] : c \in {b \in Callers : call[b].pc # "idle"}}
  \cup IF FITS = None THEN {} ELSE {[latest |-> FITS[1].latest, n |-> FITS[1].n, day |-> FITS[1].day]}

Retired(d) == d < today - RetentionDays

\* A day only gains keys, until it is deleted for good.
DaysGrow ==
  \A o \in Counts :
    /\ o.latest \in Nat /\ o.day \subseteq Keys /\ o.n = Cardinality(o.day)
    /\ o.day \subseteq KeysOf(table, o.latest) \/ (KeysOf(table, o.latest) = {} /\ Retired(o.latest))

\* So equal counts of a day are counts of the same keys.
CountsAreComparable ==
  \A o, p \in Counts : o.latest = p.latest => o.day \subseteq p.day \/ p.day \subseteq o.day

\* A key whose fit reaches the last week traded in it.
FitsAreOf(fits, latest) ==
  \A k \in Keys : fits[k] # None /\ fits[k][1].last_week = LAST_WEEK =>
    \E d \in DOMAIN market[k] : market[k][d] > 0 /\ d <= latest /\ latest - d < WeekDays

Whole(o) == (o.day \subseteq o.of \/ Retired(o.latest)) /\ FitsAreOf(o.fits, o.latest)

FitsAreWhole ==
  /\ \A c \in Callers : call[c].pc \in {"store", "quote", "done"} => Whole(call[c])
  /\ FITS # None => Whole(FITS[1])

HoldsInv == TypeOK /\ DaysGrow /\ CountsAreComparable /\ FitsAreWhole /\ HoldsSeeTheCountedDay
=============================================================================
