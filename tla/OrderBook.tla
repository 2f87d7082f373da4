------------------------------- MODULE OrderBook -------------------------------
(***************************************************************************)
(* What the collector records of one item's order book: apply_sweep         *)
(* compares a fetched book with the orders seen last (collector/diff.rs,     *)
(* store.rs), full vanishes wait for their relist window and are resolved    *)
(* (maintenance.rs, stats.rs), retention forgets old rows.                   *)
(*                                                                           *)
(* The market is the environment.  A sweep holds the item's claim from its   *)
(* start until it is recorded (SweepLoops); the trader's book is fetched     *)
(* ahead, without a claim, and recorded later.                               *)
(***************************************************************************)
EXTENDS Integers, FiniteSets, FiniteSetsExt

CONSTANTS
  Orders,               \* order ids of the item, all on one side
  user_id(_),           \* whose order it is
  relist_window,        \* StatsConfig, in ticks
  bulk_window,
  bulk_pull_threshold,
  gap_factor,
  VANISHED_RETENTION,   \* age at which vanished rows are deleted
  Intervals,            \* expected_interval_s of the lanes
  MaxQuantity, MaxTime,
  MaxRows,              \* bound: rows of an order there are at a time
  MaxLeft               \* bound: units of an order that left the market and are not counted

VARIABLES
  now,
  market,     \* units each order really offers (0: not visible)
  last_seen,  \* last_seen_orders: order -> [quantity, first_seen]
  vanished,   \* vanished_orders: id -> row; an id is the order and a number
  state,      \* the item's sweep_state row: last_swept_at, expected_interval_s
  sweep,      \* the sweep in progress: its start, or None
  book,       \* the book the trader has prefetched, or None (overtaken: a younger one was recorded since)
  \* history variables
  uncounted,  \* units per order that really left the market, less those counted as partial trades
  stale       \* whether a book older than one recorded before was recorded

vars == <<now, market, last_seen, vanished, state, sweep, book, uncounted, stale>>

None == [at |-> -1]
Quantity == 0..MaxQuantity

\* How many fewer there are afterwards.
Fewer(before, after) == IF before > after THEN before - after ELSE 0

Init ==
  /\ now = 0
  /\ market \in [Orders -> Quantity]
  /\ last_seen = <<>>
  /\ vanished = <<>>
  /\ state = [last_swept_at |-> -1, expected |-> 0]
  /\ sweep = None
  /\ book = None
  /\ uncounted = [o \in Orders |-> 0]
  /\ stale = FALSE

-----------------------------------------------------------------------------
(* The market and the clock *)

\* An order is listed, edited, traded in part, or gone.
Market(o, q) ==
  /\ q # market[o]
  /\ market' = [market EXCEPT ![o] = q]
  /\ uncounted' = [uncounted EXCEPT ![o] = @ + Fewer(market[o], q)]
  /\ uncounted'[o] <= MaxLeft
  /\ UNCHANGED <<now, last_seen, vanished, state, sweep, book, stale>>

Tick ==
  /\ now < MaxTime
  /\ now' = now + 1
  /\ UNCHANGED <<market, last_seen, vanished, state, sweep, book, uncounted, stale>>

-----------------------------------------------------------------------------
(* Recording a book *)

\* Visible orders as rows, first seen at the sweep.
to_seen(b, at) == [o \in {x \in Orders : b[x] > 0} |-> [quantity |-> b[o], first_seen |-> at]]

\* The diff of two live sets: an edit keeps the order id and its first_seen.
diff_orders(previous, current) ==
  [new      |-> DOMAIN current \ DOMAIN previous,
   changed  |-> {o \in DOMAIN current \cap DOMAIN previous : current[o].quantity # previous[o].quantity},
   vanished |-> DOMAIN previous \ DOMAIN current]

quantity_drop(o, previous, current) == Fewer(previous[o].quantity, current[o].quantity)

Row(o, before, quantity, at, kind, status) ==
  [order |-> o, quantity |-> quantity, first_seen |-> before[o].first_seen,
   vanished_at |-> at, kind |-> kind, status |-> status]

\* A vanish after too long a time without a sweep proves nothing.
Gap(at, expected) ==
  LET allowed == gap_factor * Max({state.expected, expected})
  IN  state.last_swept_at >= 0 /\ at - state.last_swept_at > allowed

\* The edited orders that lost units: partial trades, counted at once.
Drops(d, previous, current) == {o \in d.changed : quantity_drop(o, previous, current) > 0}

\* The row a sweep adds for each order that vanished or lost units.
NewRows(d, previous, current, at, expected) ==
  [o \in d.vanished \cup Drops(d, previous, current) |->
     IF o \in d.vanished
     THEN Row(o, previous, previous[o].quantity, at, "full", IF Gap(at, expected) THEN "gap" ELSE "pending")
     ELSE Row(o, previous, quantity_drop(o, previous, current), at, "partial", "trade")]

\* Rows get ids that no row has.
Free == {n \in 1..MaxRows : \A id \in DOMAIN vanished : id.nr # n}

insert_vanish(rows) ==
  \/ DOMAIN rows = {} /\ UNCHANGED vanished
  \/ \E n \in Free :
       /\ DOMAIN rows # {} /\ \A m \in Free : n <= m
       /\ LET ids == {[order |-> o, nr |-> n] : o \in DOMAIN rows}
          IN  vanished' = [id \in DOMAIN vanished \cup ids |->
                             IF id \in ids THEN rows[id.order] ELSE vanished[id]]

\* The live set after the sweep: vanished orders deleted, edited ones updated, new ones inserted.
Seen(previous, current) ==
  [o \in DOMAIN current |->
     IF o \in DOMAIN previous
     THEN [previous[o] EXCEPT !.quantity = current[o].quantity]
     ELSE current[o]]

apply_sweep(b, at, expected) ==
  LET current == to_seen(b, at)
      d == diff_orders(last_seen, current)
  IN  /\ insert_vanish(NewRows(d, last_seen, current, at, expected))
      /\ last_seen' = Seen(last_seen, current)
      /\ state' = [last_swept_at |-> at, expected |-> expected]
      /\ uncounted' = [o \in Orders |->
           uncounted[o] - IF o \in d.changed THEN quantity_drop(o, last_seen, current) ELSE 0]
      /\ UNCHANGED <<now, market>>

\* A loop claims the item and starts its sweep.
BeginSweep ==
  /\ sweep = None
  /\ sweep' = [at |-> now]
  /\ UNCHANGED <<now, market, last_seen, vanished, state, book, uncounted, stale>>

\* The market has answered with the book of this moment; the sweep is dated at its start.
RecordSweep(expected) ==
  /\ sweep # None
  /\ apply_sweep(market, sweep.at, expected)
  /\ sweep' = None
  /\ book' = IF book = None THEN None ELSE [book EXCEPT !.overtaken = TRUE]
  /\ UNCHANGED stale

\* A failed fetch records nothing.
SweepFails ==
  /\ sweep # None
  /\ sweep' = None
  /\ UNCHANGED <<now, market, last_seen, vanished, state, book, uncounted, stale>>

\* The trader fetches the next entry's book while it still works on another one.
Prefetch ==
  /\ book = None
  /\ book' = [at |-> now, orders |-> market, overtaken |-> FALSE]
  /\ UNCHANGED <<now, market, last_seen, vanished, state, sweep, uncounted, stale>>

\* The trader's book is dated when it is handed over, and dropped while the item is claimed.
ingest_book(expected) ==
  /\ book # None
  /\ \/ sweep = None /\ apply_sweep(book.orders, now, expected) /\ stale' = (stale \/ book.overtaken)
     \/ sweep # None /\ UNCHANGED <<now, market, last_seen, vanished, state, uncounted, stale>>
  /\ book' = None
  /\ UNCHANGED sweep

-----------------------------------------------------------------------------
(* Maintenance *)

SameUser(row, o) == user_id(o) = user_id(row.order)

\* Full vanishes of the user within half the window of this one, itself included.
BulkCount(row) ==
  Cardinality({k \in DOMAIN vanished :
    /\ SameUser(row, vanished[k].order) /\ vanished[k].kind = "full"
    /\ 2 * (vanished[k].vanished_at - row.vanished_at) \in (-bulk_window)..bulk_window})

\* The user listed the same thing again within the window, whether it is still listed or not.
Relisted_OnlyLive(id) ==
  LET row == vanished[id]
      InWindow(t) == t > row.vanished_at /\ t <= row.vanished_at + relist_window
  IN  \E o \in DOMAIN last_seen : SameUser(row, o) /\ InWindow(last_seen[o].first_seen)
Relisted(id) ==
  LET row == vanished[id]
      InWindow(t) == t > row.vanished_at /\ t <= row.vanished_at + relist_window
  IN  \/ \E o \in DOMAIN last_seen : SameUser(row, o) /\ InWindow(last_seen[o].first_seen)
      \/ \E k \in DOMAIN vanished \ {id} : SameUser(row, vanished[k].order) /\ InWindow(vanished[k].first_seen)
resolve_vanish(id) ==
  IF BulkCount(vanished[id]) >= bulk_pull_threshold THEN "bulk"
  ELSE IF Relisted(id) THEN "relist" ELSE "trade"

\* resolve_pending decides the rows whose window has closed, one at a time.
Due(row) == row.status = "pending" /\ row.vanished_at <= now - relist_window

resolve_pending(id) ==
  /\ Due(vanished[id])
  /\ vanished' = [vanished EXCEPT ![id].status = resolve_vanish(id)]
  /\ UNCHANGED <<now, market, last_seen, state, sweep, book, uncounted, stale>>

\* Old rows are deleted.
Old(row) == row.vanished_at < now - VANISHED_RETENTION

apply_retention ==
  /\ \E k \in DOMAIN vanished : Old(vanished[k])
  /\ vanished' = [id \in {k \in DOMAIN vanished : ~Old(vanished[k])} |-> vanished[id]]
  /\ UNCHANGED <<now, market, last_seen, state, sweep, book, uncounted, stale>>

Next ==
  \/ \E o \in Orders, q \in Quantity : Market(o, q)
  \/ Tick
  \/ BeginSweep
  \/ \E i \in Intervals : RecordSweep(i) \/ ingest_book(i)
  \/ SweepFails
  \/ Prefetch
  \/ \E id \in DOMAIN vanished : resolve_pending(id)
  \/ apply_retention

Spec == Init /\ [][Next]_vars

-----------------------------------------------------------------------------
(* Properties *)

\* Partial trades are counted as trades at once, without a window.  As long as no book was
\* recorded after a younger one, no more units are ever counted than really left the market; the
\* trader's prefetched book is the one that can be that late.
PartialsAreReal == ~stale => \A o \in Orders : uncounted[o] >= 0

\* A vanish whose order was back, and recorded, before its window closed is never counted as a
\* trade, even if the order vanished again meanwhile: a late book of the trader makes an order
\* vanish that never left the market, and this is what keeps it out of the statistics.
ReturnedOrdersAreNoTrades ==
  \A id, k \in DOMAIN vanished :
    LET row == vanished[id] again == vanished[k]
    IN  /\ row.kind = "full" /\ k # id /\ again.order = row.order
        /\ again.first_seen > row.vanished_at
        /\ again.vanished_at < row.vanished_at + relist_window
        => row.status # "trade"

-----------------------------------------------------------------------------
(* Why they hold: the inductive invariant.                                  *)

VanishedRow ==
  [order : Orders, quantity : Nat, first_seen : Nat, vanished_at : Nat, kind : {"full", "partial"},
   status : {"pending", "gap", "trade", "bulk", "relist"}]

TypeOK ==
  /\ now \in Nat
  /\ market \in [Orders -> Nat]
  /\ uncounted \in [Orders -> Int]
  /\ DOMAIN last_seen \subseteq Orders
  /\ \A o \in DOMAIN last_seen : last_seen[o] \in [quantity : Nat, first_seen : Nat]
  /\ \A id \in DOMAIN vanished : vanished[id] \in VanishedRow
  /\ sweep \in {None} \cup [at : Nat]
  /\ book \in {None} \cup [at : Nat, orders : [Orders -> Nat], overtaken : BOOLEAN]
  /\ stale \in BOOLEAN

\* A sweep in progress is dated after everything recorded: the book is not written under its claim.
SweepIsLatest ==
  /\ sweep # None => sweep.at <= now
  /\ \A o \in DOMAIN last_seen :
       /\ last_seen[o].first_seen <= now
       /\ sweep # None => last_seen[o].first_seen <= sweep.at
  /\ \A id \in DOMAIN vanished : vanished[id].first_seen <= vanished[id].vanished_at

\* What the next sweep, and a book that is not overtaken, would count really left the market.
DropsAreReal ==
  /\ ~stale => \A o \in DOMAIN last_seen : uncounted[o] >= last_seen[o].quantity - market[o]
  /\ ~stale /\ book # None /\ ~book.overtaken =>
       \A o \in Orders :
         /\ uncounted[o] >= book.orders[o] - market[o]
         /\ o \in DOMAIN last_seen =>
              LET drop == Fewer(last_seen[o].quantity, book.orders[o])
              IN  uncounted[o] >= drop /\ uncounted[o] >= drop + book.orders[o] - market[o]

\* A row that was found to be a trade has had its window, and no sweep that began within it
\* will record the order as vanished again.
TradesHadTheirWindow ==
  \A id \in DOMAIN vanished :
    LET row == vanished[id] IN
    row.kind = "full" /\ row.status = "trade" =>
      /\ row.vanished_at + relist_window <= now
      /\ sweep # None /\ sweep.at < row.vanished_at + relist_window =>
           \A o \in DOMAIN last_seen : o = row.order =>
             ~(last_seen[o].first_seen > row.vanished_at /\ last_seen[o].first_seen <= row.vanished_at + relist_window)

BookInv ==
  /\ TypeOK /\ SweepIsLatest /\ DropsAreReal /\ TradesHadTheirWindow
  /\ PartialsAreReal /\ ReturnedOrdersAreNoTrades
=============================================================================
