# A verification project for quantframe-server

TLA+ models of quantframe-server (Rust, `src/crates`), the TLC runs that check them and
TLAPS proofs about them. Every definition is translated from the source; the `map` of
`PROJECT.json` names the lines. Paths below are relative to `src/crates` unless they start
with `src/`.

    tlc -workers 2 -config TradeEvents.cfg TradeEvents      # one run
    tlapm TradeEventsProofs.tla                              # one module of proofs

## 1. Inventory

quantframe-server trades on warframe.market for one user. `qf-helper` runs on the gaming PC
next to Warframe, `qf-server` runs headless and does the rest.

| Component | State it keeps | Operations | Talks to |
| --- | --- | --- | --- |
| Trade queue and sender (`qf-helper/src/{trade,queue}.rs`) | the queue file, trades not yet written, the offset in EE.log, the backoff | poll, push, peek, pop, send | log tail; `POST /helper/trade` |
| Log tail and parser (`qf-helper/src/ee_log.rs`, `qf_log_parser`) | byte offset, a partial line, the scanner's buffered dialog | `start_at_end`, `poll`, `scan` | the queue |
| Heartbeats (`qf-helper/src/{heartbeat,process}.rs`) | whether Warframe runs | a heartbeat every 10 s | `POST /helper/heartbeat` |
| Trade events (`qf_core/src/helper_link/trades`) | table `helper_events` | handle_incoming, apply_reviewed, ignore, sweep_alerts, retention | handlers (stock, transactions, orders), alerts |
| Trade resolution and pricing (`trades/{resolve,sets,split,live}.rs`) | none | name resolution, set folding, price split | game data |
| Helper presence (`helper_link/presence.rs`) | the last heartbeat | record, state, age | trader rules |
| Device keys (`helper_link/keys.rs`) | key hashes | create, verify, revoke | web layer |
| Market limiter (`market/{limiter,gate}.rs`) | lane counters, last grant, breaker, its ladder and probe | acquire, try_acquire, report, set_rate | every warframe.market call |
| Trader lifecycle (`trader/{controller,lifecycle,engine}.rs`) | LifecycleState, the running loop, options, last stop | start, stop, set_options, tick, run_loop | session, presence, breaker, market status, orders |
| Trader session (`trader/session.rs`) | token and websocket state, bans, verification | sign-in, `/me`, ws events | trader rules |
| Orders, dry run (`trader/{orders,store}.rs`) | live order book, simulated book, warmth | create, update, delete by mode | limiter, database |
| Item trader (`trader/{item,item_entry,helpers,blend,price_source,compare}.rs`) | per-cycle decisions | prices, knapsack, order changes | orders, collector data |
| Collector (`collector/*.rs`) | claims in flight, attempts, snapshots | hot and cold loops, sweep, backfill, retention | limiter (lanes Hot and Cold), database |
| Handlers (`handlers/{stock_item,wish_list,base}.rs`) | stock and wish list rows | create, sell, bought, delete | orders, transactions |
| Housekeeping, backup (`housekeeping/*.rs`) | the last backup, the daily marks | alert sweep, retention, backup, prune | database, alerts |
| Web layer (`qf-server/src`, `qf_core/src/web_auth.rs`) | sessions, login limiter | login, rpc, helper routes | commands |
| wf-market client and websocket (`wf-market`) | connection, subscriptions | REST, reconnect with backoff | limiter, session |
| Commands (`qf_core/src/commands`), events broadcast (`events.rs`) | none | dispatch, push to browsers | everything |
| Entities, services, migrations (`entity`, `service`, `migration`) | the SQLite schema | queries | everything |
| Game data, cache, analytics, settings, utilities | lookup tables | read | everything |
| Web user interface (`src/web`) | browser state | rpc | web layer |

How they interact: a confirmed trade goes from EE.log through the queue file and an HTTP
request into `helper_events`, and from there into stock, transactions and orders. Heartbeats
feed the trader's checklist. Browser commands are HTTP requests whose handler future axum
drops when the connection closes, so *every await of a handler is a point where it may
end*. Background work (the monitor tick, housekeeping, the collector) runs on tasks of its own. All
market calls share one limiter.

What is hard, and what makes each part correct:

- **At-least-once delivery against side effects that cannot be undone.** The helper resends
  until it is answered; a handler may be dropped between two items. A trade must be booked at
  most once by itself, and one booked in part must reach the user.
- **A queue on a plain file** that a crash may tear: no trade that was written may be lost,
  and no line may block the rest.
- **Priority and a breaker under cancellation.** Counters that leak starve a lane for good;
  a missed wake-up hangs a caller; a second probe may prolong a ban.
- **A stop that waits** up to a whole trading cycle with the mutex held, while commands queue,
  their clients go, and the loop may end by itself. No two loops may trade, a cause to stop
  must stop, and the panel must not show idle while something trades.
- **Stale reads.** Statuses and clocks are read before an await and used after it.
- **Loops that choose for themselves.** The sweeps, the closed statistics, the trade tax and the
  backfill each pick the next item from what is due; an item must not be swept twice at once, and
  none may be forgotten behind others that fail.
- **One session, many reporters.** Sign-ins, sign-outs, `/me` answers and the socket loops they
  started all write the flags the trader reads.
- **Rows read, computed and written back** by requests and by the trader without a transaction, with
  the market called in between.
- **Arithmetic at limits.** Price floors and caps after several corrections, the split of platinum,
  the knapsack, periods and pages.
- **Files that outlive the process.** Migrations of several statements, backups, the queue.

`PROJECT.json` lists the hazards with their lines. Those without a property say why.

## 2. The modules

| Module | What it is |
| --- | --- |
| `HelperQueue` | qf-helper's loop: poll, persist, drain, with the queue file line by line |
| `TradeEvents` | `helper_events` and everything that writes it, await by await |
| `TradeOnce` | the promise of `TradeEvents`: at most one automatic attempt per trade |
| `TradeDelivery` | `HelperQueue` and `TradeEvents` joined by HTTP requests |
| `TradeResolve` | names, sets and the split of the platinum, with the set cache and its file |
| `Desk` | the requests that change stock, wish list, trade entries, transactions and orders |
| `MarketLimiter` | lanes, slots, breaker and probe |
| `ApiRoutes`, `MarketClient` | the endpoints, and a call's way through its route's limits and the client's caches |
| `MarketSession` | sign-in, sign-out, `/me` checks, the websocket loops and the flags they report |
| `TraderLifecycle` | `TraderController`, the trading loops, heartbeats and the checklist |
| `OrderLists`, `ItemTrader` | the client's orders and the calls on them; a run of the item trader, cycle by cycle |
| `PriceRules`, `OrderRules`, `TradeRules` | its prices, rankings and limits; what it does with one item's orders; both as questions and answers |
| `SweepLoops`, `OrderBook` | who sweeps which item when; what a sweep records of an item's book |
| `ItemFeeds` | closed statistics, trade tax, backfill |
| `Rollups`, `Holds` | the collector's periodic jobs; the hold suggestions and their cache |
| `Reports`, `MarketFigures`, `Figures` | dashboard, analytics and lists; the collector's figures; both as questions and answers |
| `Schema`, `Backups` | the database file across releases; the daily copy |
| `TradeEventsProofs`, `HelperQueueProofs`, `TradeDeliveryProofs`, `MarketLimiterProofs` | theorems about the module in their name |
| `TraderProofs` | theorems about `TraderLifecycle`, and about the prices of `TradeRules` and `Desk` in `MCTrading` |
| `MarketLimiterProofs` (second part) | theorems about `TradeRules` and `TradeResolve` in `MCTrading` |
| `MarketProofs` | theorems about `MarketSession`, and about `ItemTrader` in `MCTrading` |
| `CollectorProofs` | theorems about `SweepLoops`, and about `Rollups`, `OrderBook`, `Holds` and `Figures` in `MCServices` |
| `ServicesProofs` | theorems about `MarketClient`, `Backups` and `Schema` in `MCServices` |
| `MCMarketLimiter`, `MCTraderLifecycle` | instances for TLC; the other configurations give a module's constants directly |
| `MCTrading` | parameterised instances of `Desk`, `ItemTrader`, `TradeRules` and `TradeResolve` side by side |
| `MCServices` | instances of `OrderBook`, `Holds`, `Rollups`, `Backups`, `Schema`, `MarketClient` and `Figures` side by side |

Operators named `X_Y` beside a definition `X` (`KeyTaken_Replaces`, `Told_Nobody`) are mutated
forms: the way a plausible bug would change `X`. Nothing uses them; `PROJECT.json` pairs each
with a property that must fail when it takes the place of `X`.

*Side by side* means that a behaviour of `MCTrading` or `MCServices` is a behaviour of one of the
parts: `subject` (in `MCServices`: `part`) says of which, and `y1`, `y2`, ... (`x1`, `x2`, ...) are that
part's variables, renamed by `INSTANCE ... WITH`. The parts share no state there, so the run explores the sum of their state
spaces, and a property `subject = "desk" => D!P` says exactly that `P` is an invariant of `Desk`. Their parameters are
constants of `MCTrading` and `MCServices` in turn, to which a configuration gives a small value and a theorem none.

### HelperQueue

`hpc` is the place in `trade::run`'s loop, `file` the lines of `trade-queue.jsonl`, `open`
whether the last one lacks its newline, `pending` the trades not yet written, `backoff` whether
`wait_until` is set. A line is the trade it was written for plus *whole*, *corrupt* (does not
parse) or *split* (not UTF-8). One action per operation: `Poll`, `Push`, `PushFails`,
`PersistDone`, `SkipDrain`, `Peek`, `DropCorrupt`, `Outcome` (the answer), `Pop`, `QueueError`,
`Crash`, `StartAtEnd`. A failing write gets as far as the constant `Writes` allows. `joined`
and `retried` are history: trades pushed onto a line without newline, trades a push of which
failed. Bytes, JSON and sleeping times are abstracted; a corrupt first line is dropped in a
step of its own where `peek` loops, so that a crash may fall between two of them.

### TradeEvents

`rows` is the table by `event_id`; `pc`, `arg`, `by`, `done` are the requests under way (a *task*
is a request slot), `sweep` the housekeeping sweep. Each await is a step: `CheckExists`,
`ResolveEvent`, `InsertRow`, `ApplyItem`, `ApplyFails`, `Record` for a reported trade;
`GetReviewable`, `ApplyItem`, `Record`, `Ignore` for a review; `SweepRead`, `SweepNext`,
`SweepAlert`, `SweepMark` for the sweep; `Retention` and `GrowOld` for time. `Cancel`,
`DbError`, `SweepError`, `Restart` are the faults. The outcome of resolution is a choice; an
item applied is one step (the handler behind it is not opened up), so a cut inside one item's
handler is not represented. `auto` records the items applied by the *helper's* requests: items
the user applies in a review are a decision of the user and not counted. A trade whose row was
purged after 90 days is taken not to be sent again.

`TradeOnce` says what remains when rows, retries and faults are forgotten: an attempt per trade
is new, running or over, and items are applied one by one while it runs. `OneAttempt` is
`TradeOnce!Spec` under the mapping `Attempt` (recorded: has begun; a helper task at `apply`:
running; else over) and `applied <- Len(auto)`.

### TradeDelivery

Joins the two: `conn` is the task that serves the helper's current request. `Send`, `Refuse` (400, 404, 409, 413 or 422:
`handle_incoming` never ran, and `TradeClient::send` takes the answer for final and drops the trade), `Answer`, `Lose` (no
connection, reply lost, rejected key, another status), `TimeOut` (the closed connection drops the handler),
`Abandoned` (a handler whose client has gone goes on, or is dropped later), `ServerRestart`,
`HelperCrash`. Handlers of an earlier attempt therefore overlap those of the next. `refused` is history: the trades that were
answered so. Which of the five statuses comes, and why, is not modelled, so any request may be refused.

### MarketLimiter

`st` is where each caller stands inside `wait_for_slot`: `check` (about to take the state lock),
`timed` or `parked` (asleep with or without a deadline), `out` (granted, unanswered).
A pass under the lock is one action: `Refuse`, `Park`, `Sleep`, `Grant`. `Drop` is a dropped
future, whose guard leaves the lane and notifies. `Report`, `Abandon`, `Look`, `SetRate`
are the other entry points. `brk` is the breaker. Time is abstracted to
deadlines that have passed or have not: `slot`, `over`, `late`, `fresh`. The warframe.market
client has no request timeout, so an answer may come after the breaker's period (`PeriodEnds` does not wait
for it). A refused caller's notification is merged with its guard's drop; a timed sleeper may
wake early. `outcome_of` is a choice among the four outcomes.

### TraderLifecycle

`state`, `running`, `options` are `TraderController`'s `Inner`, `lock` its async mutex when held
across a wait, `call` the commands and the tick (`age` is the heartbeat's age at the `now` a
caller reads *before* it queues for the mutex), `loop` the spawned loops, `env` what the rules of
`lifecycle.rs` look at. `Start`, `StartRefused`, `Stop`, `SetOptions`, `TickIdle`,
`TickExited`, `TickChecks` run under the mutex; `TakeRunning`, `Join`, `DeleteBuys`, `Record`
are the stages of `finish`; `Cancel` drops a command where it waits. `Top`, `Checked`, `Panics`,
`WakesUp`, `WriteBids` are the loop: a cycle of a live loop places buy orders and deletes them, to the last one (overpriced
or unwanted items, the victim of a sell slot, the knapsack, orphans; which orders, is `ItemTrader`'s matter). `status` is `ingame`,
`invisible`, or `stuck`: still ingame because the last try to change that failed, which `finish` only logs. Left out: alerts on token expiry, the text of the stop reason, the database save in
`set_options` and errors of `record_stop`, the log of candidates when a loop starts, and restarts
of the server. The session is *good*, *lacking* or *failed*, as
the rules tell sessions apart.

### TradeResolve

From a reported trade to its lines: `resolve_event` (names through the overrides and the
item list, candidates for sets), one step per root looked up in the cache or fetched, the save of the cache,
`fold_sets` (all candidates whose parts are known, in any order where the code takes that of their slugs), `split_platinum`. Fetches fail, the item list may lack a part, and the server may stop
between two steps and start with the file. A trade it cannot resolve carries the reason for review.

### Desk

`task` is a request (create, sell, bought, delete, update, a reported sale or purchase, ...), one
step per database or market call as the handlers make them: row, order, transaction, report. There is no
transaction around them in the code, and none here. `trader` is a row the trader holds between
reading and `finalize`. `paid` and `booked` are history. One item is modelled; import and export,
and the fields a request does not compute with, are left out.

### OrderLists, ItemTrader

`market` is what warframe.market holds, `cache` the client's copy with the trader's properties,
`sim` the simulated book. A cycle reads rows and candidates, sweeps orphans, and goes through its
entries: a delete, create or update of each, by `route_for`. What is posted is any decision `OrderRules`
can come to. A call may fail, or succeed with its answer lost; orders close, rows change and a refresh is
asked for and answered while the cycle runs. `doubt` is history: a lost answer or a late refresh
has left the cache wrong, the only way two orders for one key come about. `kept`, `given_up`, `made` and `sold` of a cycle are history as
well: wish-list rows that stayed, bids given up, bids made, and sales that were closed unnoticed, those that
the cache still lists when the slots are read included (`Stale`).

### PriceRules, OrderRules, TradeRules

`progress_buying`, `progress_selling`, `progress_wish_list` as functions of settings, statistics, book
and own order; `knapsack` as its table (a recursive function); `merge` and the ranking of candidates, whose order is
the one sequence of them that is sorted as the code sorts.
`TradeRules` puts a question and keeps the answer. The code's `f64` values are integers here.

### MarketSession

`sock[g]` is the loop sign-in `g` started, with its stop flag, attempts and read task; `session` the
record of `trader/session.rs`, `app` the client in use, `me` a `/me` call on its way. `Overlap`
lets a second sign-in begin while one is active. Messages other than the state of
the connection are left out, and times are what the rules ask of them (`fresh`, `down`).

### ApiRoutes, MarketClient

`ApiRoutes` is the table of endpoints: the key of the limit, the API version, what an answer does to the
caches. A call in `MarketClient` reads its route's limit, waits, is sent and answered in separate
steps, so that calls overlap; 429 lowers the rate. `create_authenticated_client` is the sign-in:
`/me`, own orders, and the routes taken over from the client without account.

### SweepLoops, OrderBook

`SweepLoops` has the claims, the last attempts and both loops; the trader hands books over
(`ingest_book`). Times are stamps of which only the order matters, renumbered at every step, so that the
clock never stops in a finite model. `OrderBook` has what `apply_sweep` makes of two books: `last_seen`,
`vanished` rows by id, the windows after which a vanish is a trade, a relist or a bulk pull. The
market is the environment. `uncounted` is history: units per order that really left the market,
less those counted as partial trades; `stale` says that a book older than a recorded one was recorded.

### ItemFeeds, Rollups, Holds

`ItemFeeds` keeps of a fetch's time whether it is older than the daily cutoff or the retry delay,
and the order of the fetches. An hour has room for `PerHour` requests (at one in 10 s, 360 at most), and nothing says that these are enough for all that is due: a
full pass takes about eleven hours (design spec, line 793). `feed` says which loop is followed, since the two share nothing but the clock; `watch` reports a backfill whose task panicked. `Rollups` is a pass
statement by statement with the clock it began with; any statement may fail. `Holds` is the cache `FITS`
with calls that overlap, one step for each lock or database call of `holds`; the regression is three
parameters of the module. A call keeps, as history, the keys it counted (`day`) and those there when
the days were loaded (`of`).

### Reports, MarketFigures, Figures

Sums, charts, rankings, filters and pages as operators over sequences of rows. Averages are pairs
<<sum, number>> and so never rounded; the calendar's units have the lengths of the constants. A query orders by one column or none and
reads its pages one by one (`LIMIT`, `OFFSET`), so rows that compare equal come in any order, and in another for the next page: a page is one of a *set*
of possible pages (`Sortings`, `get_all`). Lists in memory are sorted stably (`StablySorted`). `Figures`
asks, and its properties hold answers against one another and against reference definitions. The questions to the
collector's pages are constants (`ClosedKeys`, `PagesAsked`, `Watches`), which `Services.cfg` gives rows at, before and after every boundary.

### Schema, Backups

`Schema` has all 25 migrations statement by statement: `db` maps a column to the limits of the user
whose value it holds. A start may die between two statements, a migration is noted after its last one.
`Backups` is copy, verify, rename, prune with a death between any two.

## 3. The runs

| Run | Shows |
| --- | --- |
| `events` | items are applied at most once, the table implements `TradeOnce`, rows left half-way or failed surface, and no alert follows `alerted_at` |
| `queue` | a trade with a line of its own waits until it is settled, only retried pushes are overtaken, only settled or corrupt heads leave, and the file runs empty |
| `delivery` | end to end: what left the queue is on record, or was refused for good by a 4xx to that very trade, and was applied at most once; queued trades arrive unless they are refused so |
| `limiter` | one probe per period, a probe that ends moves the ladder or closes, and no lane hangs |
| `lifecycle` | no command is dropped, setting the status may fail: idle means no loop, and ingame only after a failed try to change that; a lasting cause to stop takes the trader offline; an ended loop is noticed |
| `lifecycle_dropped` | commands dropped anywhere: the loop that goes on is the controller's, and buy orders leave the market only in a cycle of a live loop or in a live stop with the option on |
| `sweeps` | one sweep per item, claims given back, an item's sweep times never run backwards, and no active item is forgotten |
| `feeds` | every item is asked for again, hot or not, failing or not, also where an hour is not enough for all, as long as it has room for more requests than there are hot items (statistics) or failures (tax); a backfill ends although its task panics |
| `session` | the connected flag is backed by a socket, a late `/me` answer does not revive a signed-out session, a stopped socket's loop ends |
| `trading` | `Desk`: requests are booked once and the average price is between prices that were paid (over them only after a priced line of no pieces). `ItemTrader`: one order per key, the user's bids and fresh bids survive. `TradeRules`: floors and caps hold, the knapsack is optimal. `TradeResolve`: lines stand for what changed hands and cost what was paid |
| `services` | `OrderBook`: counted trades are real. `Holds`: suggestions use the day as counted. `Rollups`: nothing is deleted before it was rolled up. `Backups`: the copies reach back. `Schema`: upgrades keep the user's limits and fit the entities. `MarketClient`: refused routes stay slower, a signed-in client knows its orders. `Figures`: charts and tabs add up, pages follow the order asked for and, where it leaves no two rows equal, hold each row once; windows are whole |

`events_reapplied` shows where the code does not do what its documents say (`findings` quotes it):
`handle_incoming` keeps the row at *needs review* while it applies the trade, a `helper_trade_apply` of the user passes `reviewable` meanwhile, the
`POST /helper/trade` records *applied*, and the user's request then applies the items once more. Two reviews that overlap can do the same
(the configuration allows two); the shortest trace is the one described.

Further disagreements, each with a configuration that reproduces it (`tlc -config X.cfg <module>`
ends with a counterexample). They are kept out of the list of runs, which has one per question:

| Configuration (module) | Shows |
| --- | --- |
| `TradeEvents_alert_lost` (`TradeEvents`) | `sweep_alerts` rewrites the reason before it alerts; a stop in between leaves a row that `needing_alert` never selects again |
| `HelperQueue_lost` (`HelperQueue`) | a push onto a line left without its newline returns Ok, and the joined line is dropped as corrupt |
| `HelperQueue_wedge` (`HelperQueue`) | a line torn inside a multi-byte character makes `read_to_string` fail for good |
| `TraderLifecycle_second_loop` (`MCTraderLifecycle`) | a stop dropped while it awaits the loop leaves a loop behind while the panel says Ready or Offline |
| `TraderLifecycle_stale_clock` (`MCTraderLifecycle`) | a start that waited for the mutex judges the heartbeat by a clock read before the wait |
| `MarketSession_down` (`MarketSession`) | the disconnect of an old socket marks the session down while the new one is open (`qf_core/src/app/modules/ws.rs:78`; design spec line 257) |
| `SweepLoops_restore` (`SweepLoops`) | `restore_attempt` may put back an older time than the one the attempt overwrote (comment at `collector/store.rs:146`) |
| `Trading_removed_row` (`MCTrading`) | a trade that removes the row the trader works on ends the trader's cycle (the design's H2, spec line 700) |

Met while modelling, read in the code and without a configuration of their own:

- *Trades.* The helper drops a trade for good on 400, 404, 409, 413 and 422 (`qf-helper/src/trade.rs:78`), also when a proxy answers
  404 in the server's place for a while: the trade is then on record nowhere, and only the helper's log says so. Two reviews of one row that overlap may end with the later overwriting the earlier decision
  (`helper_link/trades/mod.rs:275`). A stop between alert and mark alerts again (`mod.rs:342`). A review
  of an `apply_failed` row applies the user's list from the start (`apply.rs:98`). A trade resent after
  retention purged its row, 90 days later, would be applied again (`events.rs:205`). Two concurrent
  saves of the set cache share one `.tmp` path (`sets.rs:160`).
- *Desk.* Two concurrent buys of a new item create two rows (`stock_item_mutation.rs:119`). The trader's
  `finalize` writes a quantity over one a trade has just changed (`item_entry.rs:182`). A request that
  fails after its row was changed leaves the row changed. `handle_transaction` divides by the quantity
  (`handlers/base.rs:174`). A purchase of quantity 0, which nothing refuses, adds its price to the stock row's cost and nothing to its
  count (`stock_item_mutation.rs:149`), so that the average may exceed every price paid; the run and the theorem cover it (`VoidLine`).
- *Orders.* `close_order` subtracts without looking, where its doc says that 0 closes the order. An
  older `my_orders` answer overwrites a newer cache. A key that cools keeps its live order; sell orders
  without a row are never swept. A sale that was closed on the market's page before the slots were read is in the cache, so the sell backlog
  does not count it (`trader/item.rs:54`); when a refresh within the cycle reveals it, its new posting lives off
  `SELL_SLOT_MARGIN`. More of them than the margin, and a bid of the same cycle is given up: hence the count `sold` in `FreshBidsSurvive`.
- *Limiter and client.* An answer to a request granted before a trip may be taken for the probe's
  (`market/limiter.rs:301`). `clear_wait_time` may erase a newer wait (`wf-market/src/client.rs:588`). A sign-in
  reports a network failure as wrong credentials (`authentication.rs:101`). That a sleeper is registered before it looks, so that no wake-up is lost
  between the two (`market/limiter.rs:243`), is taken from tokio's `enable` and cannot go wrong in the model: looking and parking are one step there.
- *Session.* A second `auth_login` while signed in does not disconnect the old socket
  (`commands/auth.rs:35`). A `/me` answer to the old token can mark the new session unauthorized
  (`trader/session.rs:141`): a late 401 is no subject of `LateChecksDoNotSignIn`, which is about answers that make a session valid.
- *Lifecycle.* A status that could not be set to invisible stays ingame until the next stop of a run; nothing tries again
  (`controller.rs:168`). A stop dropped while it awaits the loop also leaves the user `ingame`
  (`controller.rs:168`). The breaker may open between its check and the deletion of the orders
  (`controller.rs:157`). `set_options` dropped after its save leaves the saved options ahead of those in use (`controller.rs:253`).
- *Collector.* 360 hot items or more whose closed statistics keep failing come first again every hour and keep the rest from being asked for
  (`closed.rs:214`); so do as many failing tax items of low ids (`trade_tax.rs:144`). `EveryItemIsTried` states the number below which it cannot happen. An outage of more than 48 hours leaves hours that are never rolled up
  (`maintenance.rs:177`); `Rollups` is bounded by it. The fits change also when a row of an older day is
  replaced, which the comment at `trends.rs:344` excludes. A day retired between the count and the load of a call
  of `holds` is missing from its fits. A book the trader fetched earlier is recorded as of now (`runner.rs:160`).
- *Files.* A start that dies between an `ADD COLUMN` and the end of its migration makes every later start fail;
  `OnlyInterruptedStartsFail` says that nothing else does. `db.rs` copies over the previous backup at
  every start. A stale `.tmp` of a backup is never removed.
- *Figures.* A list sorted by a column with equal values, or by none, may show a row on two pages and another on none
  (`service/src/query/helper.rs:43`): the SQL has no second column to order by. `paginate` with page and limit −1 slices backwards (`qf_core/src/helper.rs:53`); order status counts
  count one page (`commands/order.rs:128`); charts group by local time and fill labels by UTC (`grouping.rs:40`, `:99`).

### Bounds

- `events`: one event, two requests, two items, two faults, two reviews. Rows of different trades
  meet only in the sweep's list and the shared fault budget, so one event shows what requests do
  to a row. Two requests are what a race needs, two items what a partial pass needs, two faults
  let a recovery be cut again. The proofs of section 5 have no such bounds.
- `queue`: three trades, so that a failed one, the next and one joined to a torn line may stand
  together; three faults. `Writes` leaves out *split* in the passing run, and `HelperQueue_wedge.cfg` shows
  what it does.
- `delivery`: one trade (the queue's order is `queue`'s matter), two server tasks so that an
  abandoned handler overlaps the next request, one fault of every kind (`MaxIo`, `MaxFaults`,
  `MaxLost`); refusals for good are not bounded, a trade can be refused once. `Writes` has *nothing* and *line*: torn lines are again `queue`'s matter.
- `limiter`: one trader, two hot and one cold caller: every pair of lanes, and two in one lane.
  `LastStep` 2 is the code's ladder of three rungs. `TripAfter` is 2 where the code has 5: errors
  may count without tripping, and trip; the counts in between do nothing else.
- `lifecycle`: one client, the monitor, one loop slot. With no command dropped, a
  second loop cannot exist while the first does, so a second slot adds nothing. `lifecycle_dropped` has two
  slots, since a loop left behind may then run beside a new one.
- `sweeps`: two items, and a cold query that returns one (`COLD_CANDIDATES` 1 of 2, where the code has
  many of thousands): the case where the hot items fill the list. The hot set and the active set change freely.
- `feeds`: three items, one of them hot, and two requests an hour: hot before cold, one cold item behind the other, and an hour that is not enough for all
  three. One hot item is fewer than the requests of an hour, which the first half of `EveryItemIsTried` asks for; the code's numbers are about 300 hot items
  (design spec, line 793) and 360 requests.
- `session`: two sign-ins, so that the loops, callbacks and answers of an old and a new session meet;
  backoff exponents 0 and 1, the second standing for all later ones.
- `trading` (all bounds are constants of `Trading.cfg`): two requests of every pair of kinds with quantities 0 and 2, a list that is empty or has a row,
  one fault; three keys (stocked, cooling, wished for) under a limit of three orders with a margin of
  one, two order numbers, one fault; each price rule with every limit off and on and prices
  below, at and above it, three bids under four budgets; a set of two parts, one needed twice, and trades of up
  to four lines.
- `services` (all bounds are constants of `Services.cfg`): one order, which shrinks, vanishes and
  returns in three ticks (two of one user meet only where a vanish is told a relist or a bulk pull from a trade; `CountedTradesAreRealHolds` is
  proved for any number of them); two keys over six days in weeks
  of two, the sixth so that a counted day can be retired before it is loaded; nine hours in days of
  two with at most three without a completed pass; seven days, one death, two daily and one weekly copy;
  three earlier releases and this one, with a death at any statement; two calls at a time, four in all, on a route of each kind of limit;
  ledgers of at most two transactions around every boundary of a short calendar, lists of three orders. Windows,
  retentions and weeks are shortened in proportion: the comparisons are the code's, and each side of them is reached.
- Deadlock is not checked where a bounded instance may use up its budget (reviews, faults, days,
  questions) and stop: `TradeEvents`, `TradeDelivery`, `MarketSession`, `MCTrading`, `MCServices`. It is checked in the other runs.

### Fairness

- `TradeEvents`: handlers run on (`TaskStep`), the housekeeping loop ticks every 60 s
  (`SweepStep`), time passes (`GrowOld`). No request needs to arrive and no fault to happen.
- `HelperQueue`: the loop runs and its waits end. Strong fairness on `Peek \/ DropCorrupt` says the
  drain is not in backoff at every turn (`wait_until` is a time that passes). Strong fairness
  on the answer *accepted* says that a server asked again and again accepts in the end; `delivery` does without it and
  derives the acceptance from the server's own steps.
- `TradeDelivery`: as above, the request at the head of the queue is sent or refused, replies are delivered, and resolution does not fail every time.
- `MarketLimiter`: callers that are awake run (tokio), deadlines pass, each request that is out is
  answered or dropped. Nobody has to call.
- `TraderLifecycle`: the monitor ticks every 5 s and tokio's mutex is FIFO, hence strong
  fairness on the tick once it asks; stages of `finish` and the loop's cycles end. Nobody has to send a command.

- `SweepLoops`: both loops run for ever (`supervise` restarts them), time passes, and the market answers
  some request of each loop (strong fairness on a recorded answer: a blocked attempt does not count). `EveryItemIsSwept`
  further assumes in its statement that the hot set settles.
- `ItemFeeds`: the loops go on and are not blocked for ever; a failing answer may be the only
  one an item ever gets. `EveryItemIsTried` assumes in its statement that restarts end, that an hour ends when its requests are made or nothing is due
  (`HoursHaveRoom`), and that an hour has room for more requests than there are hot items, or, for the tax, than failures are set aside for an hour. That an hour is enough for
  all that is due is not assumed, and not true of the code.
- `MarketSession`: a socket's own steps happen (connects return, reads end, waits end). No user
  acts and no check is made by force.
- `MCTrading` and `MCServices` state no fairness: their properties are invariants.

## 4. Properties worth reading first

- `AutoAppliedOnce` (`TradeEvents`), `DeliveredOnce` (`TradeDelivery`): three mechanisms together,
  `exists`, the primary key, and the row that a cut-off attempt leaves behind.
- `OneAttempt`: seen from outside, retries, races, reviews and restarts are one attempt.
- `TradesKeepTheirPlace`, `OnlySettledLinesLeave`, `QueuedTradesArrive`: the chain from a confirmed trade to its row.
- `OneProbePerPeriod`, `NoLaneIsStuck` (`MarketLimiter`); `OnlyTheKnownLoopGoesOn`,
  `TriggerStopsTrading`, `IdleMeansStopped` (`TraderLifecycle`).
- `ClaimsGuardSweeps`, `EveryItemIsSwept` (`SweepLoops`): claims, dates and a limited query that skips the hot items.
- `CountedTradesAreReal` (`OrderBook`): partial trades never exceed what left the market unless a book was
  recorded after a younger one, and a vanish whose order came back and vanished again within the window is not a trade.
- `OneOrderPerKey`, `BidsSurvive` (`ItemTrader`); `OrdersKeepTheirPrices` (`TradeRules`).
- `UpgradesKeepTheFile` (`Schema`): over every release, death and restart the user's limits stay in the columns the
  program reads them from.

## 5. The proofs

TLC checks a small instance; the theorems hold for every value of the constants that meets the
modules' `ASSUME`s. These are: an event is not `NoEvent`, a trade has at
least one item, and `NoTask` is no request slot; a write of the queue breaks off in one of five ways; callers of the
limiter are finitely many, each in one of three lanes, and a breaker trips after at least one error; clients, monitor and loop slots are distinct values; there is at
least one sign-in; items are finitely many numbers and the cold query returns at least one; budgets of faults are naturals. `MCServices` adds: no outage is longer than what a pass looks back, and
rows are kept longer than that (`RollupsAssumption`, which holds of the code's constants); each endpoint has a
limit of its own (evaluated on the real table); a release has between none and all 25 of the migrations; days, windows and quantities are naturals; in the questions to the collector's pages
no fetch, sweep or event is ahead of the clock, keys and trades are finitely many, keys were swept and have one row each (`FiguresAssumption`). `MCTrading`: quantities are naturals
and prices integers, a list begins with rows that hold something (`DeskAssumption`); keys are finitely many, order limit and margin naturals
(`TraderAssumption`); prices, floors, caps, profits and offers in the questions are integers, statistics are finitely many, one row
for a key and kind, and a key's uuid is its own (`QuestionsAssumption`); sets are finitely many, made of
some of each of finitely many parts that are no sets, the names a trade window shows are of items that are no sets, no override gives a name another item where
an item list lacks the one of that name, and quantities and unit prices are naturals (`ResolveAssumption`). TLC evaluates each
`ASSUME` in the runs.

Every invariant that a theorem states is `Spec => []Inv` by an inductive invariant that is written
at the end of the component's module, under "Why it holds", and was itself checked by TLC before it was proved.

**TradeEventsProofs** (`Invariance`: `Spec => []IInv`). "Items are applied at most once" is not
inductive. `IInv` adds why it holds: effects come only after the row is recorded
(`RecordedFirst`); among helper requests only the winner of the insert applies, and the length of `auto` is its progress
(`OneApplier`); a request on its way to the insert is fresh (`FreshBeforeInsert`); a row at `applied` is
reached only from a completed pass (`FinishedBeforeRecorded`); a parked row has no applier
(`ParkedAlone`). Most steps move one task and neither insert nor apply; one lemma treats them
together, the insert, the item and the record have their own. `AlertedRowsStayQuietHolds` is an action
property: a fresh alert is raised by `SweepAlert` only, and the sweep alerts for a row only when it selected it
without `alerted_at`, which nothing but the sweep sets (`SweepIsCurrent`). Neither says anything of a sweep that stops between the alert and
its mark, which repeats the alert.
`OneAttemptHolds` is the refinement: `Spec` implements `TradeOnce!Spec`. A step of the table that neither records a
trade nor moves a helper's request at `apply` leaves `Attempt` and `Len(auto)` alone; the insert
starts an attempt, an item is a step of the running one, by `OneApplier` the only one, and a record, cut or restart ends it.

**HelperQueueProofs** (`Invariance`). That a trade keeps its place needs to know where it may be: nothing
is queued that the tail has not seen (`SeenFirst`); a trade waits in one place to be written, and no longer once it is
pushed (`WrittenOnce`); what waits for its first write goes behind whatever is queued (`InOrder`); the line that the
next text may be joined to is not a pushed trade's (`OpenLineIsUnpushed`), which is where `joined` comes from; and the
line about to be popped is settled (`PoppedIsSettled`), from which `OnlySettledLinesLeaveHolds` follows as an action property.

**TradeDeliveryProofs.** `HalvesAreImplemented` says that the composition is faithful: dropping the server's variables
leaves a behaviour of `HelperQueue`, dropping the helper's one of `TradeEvents`. Hence both modules' invariants hold in it, and
their proofs are used as they are, through instances of the proof modules. `DeliveryInv` adds what joins the
halves: the request that is waited for carries the trade at the head of the file (`WaitsForItsHead`), and 200 is
answered only when the row exists (`AcceptedIsRecorded`). A trade is settled by the answer to its own request: 200, and then it is on record, or a refusal of that very trade
(`SettledTradesAreKnown`). `DeliveredOnceHolds` follows.

**MarketLimiterProofs** (`LimiterInvariance`: `Spec => []LimiterInv`). `LimiterInv` is `TypeOK`,
`WaitingIsExact` and `OneProbePerPeriod`. The counters need three lemmas about what a step does to
the *set* of callers in a lane (it stays, gains one, loses one) and the library's facts on
cardinalities. `PriorityHolds` is an action property: a grant requires all higher counters to be
zero, and by `WaitingIsExact` a zero counter is an empty lane. So is `ProbeEndsPeriodHolds`: only a
report or an abandoned probe takes the probe back, and each closes the breaker or trips it anew.

**MarketLimiterProofs, what folds and sums compute.** The module also holds two theorems about `TradingSpec`. What the code
computes in a loop is a fold or a sum here, for which the library has no rule that could be cited: the
induction theorems take operators. The proofs therefore take a least counterexample (`CountUp`), show that the function by which the library defines a
fold exists (`StepsExist`), and compare sums as functions on finite sets (`SumsAgree`, `SumsCompare`, `SumsAdd`, `SumScaled`, `SumChanged`,
`MovedSum`).

- *Knapsack* (`SlotsGoToTheBestHolds`), for any bids and any budget: an entry of the table is the most that the bids up to
  its row earn within its budget, and walking back from the last entry
  picks bids that earn it. *Candidates*: those that are listed have their keys from the statistics, a key that neither kind of
  statistics knows gets a profit of nothing from `merge`, and so none is kept while a profit is asked for.
- *Resolution* (`LinesStandForTheTradeHolds`), `ResolveInv`: what is remembered of a set, in memory or in the file, is what
  the market says of it (`Remembered`), and while names are all known the lines stand for what was traded at
  every point (`StandFor`). `ResolvedIs` has this of the names, `FoldKeeps` of one set folded and `FoldAllKeeps` of
  all candidates in any order: a fold takes from each part exactly what the set's line stands for, although a part may be
  spread over several lines (`LessenedIs`). `SplitIs` says that the shares, with the rest handed out in rounds, come to the platinum.

**TraderProofs, the life cycle** (`LifecycleInvariance`: `Spec => []LifecycleInv`). `LifecycleInv` is
`TypeOK`, `OnlyTheKnownLoopGoesOn`, `ModeIsKept`, `TradingMeansRunning` and `NothingIsLost`, which
speaks of runs in which no command is dropped: every loop is the controller's or awaited, the mutex
is held by a stop only, `ingame` is on its way out. It is proved with commands being dropped or not;
`StopIsComplete` and `StopIsSeen` assume `~Cancels`, which `TraderLifecycle_second_loop.cfg` shows to be needed; both hold also where setting the status
fails, `StopIsSeen` because `finish` has always tried before the trader is idle. `StopIsDone` puts the two together. `BuysOutliveDryRunsHolds` is an action property: real buy orders leave the market in a cycle of a loop started live, or
in the stop of a live run with the option on. It needs that the run being stopped is the one whose
options the controller still shows (`StopKnowsItsRun`).

**TraderProofs, rules and desk** (`DeskInvariance`). The theorems are about `TradingSpec`, the parts side by side.

- *`TradeRules`*, `RulesInv`: an answer is the rule's to the question put. `OrdersKeepTheirPricesHolds` is then about the rules
  as functions: `SalesAreRight` and `BidsAreRight` go through every correction of a price and show which of them come last. The best
  price of a book is an integer whatever the book (`BestPrices`); nothing needs induction.
- *`Desk`*, `BookingInv`: at each point of a request, the handler it runs is one of those there are, and what was booked for it is what
  that handler has done by then (`Booking`). A request is moved by its own steps only, so one lemma (`OneRequestMoves`) leaves to each step just the
  request that it moves, and `TradesAreBookedOnceHolds` needs no bound on requests, rows or failures, and holds for quantity 0.
- *`Desk`*, `PricesInv`: not only the rows but every *copy* of a row, held by a request between reading and writing or by
  the trader, has a price not below all that were paid, and not above all of them unless a priced line of no pieces was entered (`Between`), or a stale write would
  bring back another one. `AverageIsOver` and `AverageIsUnder` are the arithmetic of the rounded average. `AveragePriceIsPaidHolds` assumes nothing of the
  quantities: a line of 0 pieces can only raise the average, and such a line is named (`VoidLine`).

**MarketProofs, the session** (`Invariance`). The flag is backed by a socket because a socket is started once:
`StartedOnce` says that a sign-in under way is the latest and no loop runs for it yet, so no connected loop is
replaced by a new one that is not.

**MarketProofs, the item trader** (`ItemTraderInvariance`), for any keys, modes, settings, limits and any number of faults.

- `OrdersInv`: unless `doubt`, the cache knows every order of the market, and an id tells its key and side (`Identified`). `OneOrderPerKeyHolds` follows because
  a creation looks in the cache first; the sale that waits for a bid to go still finds none of its key, since a deletion
  and the refresh that a refusal leads to bring none.
- `KeptInv`: a wish-list row that stayed since the items were collected is in the entries, and in the wish list read with the slots, so
  neither the search for a bid to give up nor the sweep of orphans finds its bid, also where a refresh has dropped the property
  that marks it.
- `SlotsInv` is the count behind `can_create_buy`. `Pending` are the keys whose sale the cycle still has to post, `Stale` the sales in the cache
  that the market no longer has; `Load`, their number, never exceeds the backlog and the sales closed since. Once the cycle has made a bid, the cached orders,
  the load and the margin fit the limit and what was closed (`Weighed`). A sale that finds no room is itself pending, so as long as no more
  sales were closed than the margin, no bid was made in this cycle and the one given up is older. The lemmas `WeighUpdate`, `WeighRemoval`,
  `WeighRefresh`, `WeighBid`, `WeighSale`, `WeighClosedSale`, `WeighClosedBid` and `WeighLost` say what each write, refresh or closing does to these numbers.
  `FreshOrderId` takes the first unused number by the well-foundedness of the naturals.

**CollectorProofs, the sweeps** (`Invariance`). `ClaimsGuardSweeps` is inductive with the types. The work is in the
clock: every step renumbers the stamps, and the lemmas show that renumbering keeps order and equality, so the date of a
sweep stays its item's last attempt.

**CollectorProofs, its services** (`CollectorInvariance`). One theorem per part, under `part = "..."`, about `ServicesSpec`:

- *`Rollups`*, `RollupsInv`: everything older than two hours before the last whole pass is in its hour, alike for days
  (`HoursAreRolled`, `DaysAreRolled`); clocks are in order; what was deleted is older than what a pass writes again (`DeletedIsOld`), so no later pass
  replaces the row it is in. `Reach`, `Far` and `Mono` are the arithmetic of `RollupsAssumption`.
- *`OrderBook`*, `BookInv`: what the next sweep, or a book not overtaken, would count really left the market
  (`DropsAreReal`); a claimed sweep is dated after all that is recorded (`SweepIsLatest`); a row resolved as a trade
  has had its window, and no sweep that began within it will record its order as vanished again (`TradesHadTheirWindow`).
- *`Holds`*, `HoldsInv`: a day only gains keys until it is deleted for good (`DaysGrow`), so equal counts of a
  day are counts of the same keys (`CountsAreComparable`). That is why `(latest, count)` will do as the key of `FITS`.
- *`Figures`*, `FiguresInv`: an answer is what the operators say of its question, so the theorem is about these, for any
  rows, trades and events (the thresholds and windows are the code's). The window of a fetch that is fresh lies within the rows that are
  read (`WindowsAreWhole`). The week's trades, made again d days later, are in the week that has moved with them (`WeekMovesOn`), so the two copies of the
  thresholds agree (`WarmLater`), and `HistogramCountsAll` holds of any histogram with one label for each element. What is recorded is a tail of what
  happened, and what was dropped is over an hour older than some event, hence than the clock (`RecordKeepsTheTail`).
  Folds and sums are treated as in `MarketLimiterProofs`.

`HasLeast` derives the least-number principle from the library's well-foundedness of the
naturals, which stands in for induction where a greatest element is needed (`MaxIs`).

**ServicesProofs** (`ServicesInvariance`). The same for the services that are not the collector's:

- *`MarketClient`*, `ClientInv`: a refused route's limit is one of those refusals lead to (`Quotas`, in `TypeOK`), and no step leads
  from these back to the common rate, which a sleeping call with an older limit might otherwise restore. A sign-in has the call of its step under way
  (`LoginCallsInOrder`), and what `refresh` has passed is cached (`RefreshedSoFar`). The lemmas on the table of
  endpoints (`CachesOfLogin`, `LoginEndpoints`, `KeysHaveRoutes`) go through every route.
- *`Backups`*, `BackupsInv`: a job makes a date that is not there yet. The lemmas (`NewestOfFewer`, `KeptOfFewer`) say
  that what is kept of many copies is kept of any part that holds it, so deletions may stop anywhere.
- *`Schema`*, `SchemaInv`: what a file has to look like depends on how far the migrations got, so the invariant is stated by *position*,
  a hundred for each migration noted and, in a start, the statement that runs next (`Position`). For every table that migrations change, an operator
  (`StockItems`, `WishLists`, ...) says which columns are there from which position on, however often a start died; and, in a file whose starts never died within a migration, which are
  not there yet, so that its ADDs and DROPs succeed (`ColumnsAreThere`). A limit the user set is in its column, in the properties of its row or in
  the column about to take their place, and between the copies and the DROPs in both (`LimitsAreThere`). A start that died runs a migration
  again from its first statement, so the first reading must also fit a file further on than its position (`FitsBack`). `EachStatement`
  goes through the statements of all 25 migrations, and one lemma per table says what its own do (`ItemRun`, `RivenRun`, ...) and that
  no other moves it (`ItemPasses`, ...). `UpgradesKeepTheFileHolds` holds for any set of releases with up to 25 migrations, any number of installs, crashes and
  new limits; the operator's "down", after which the property promises nothing, ends the invariant.

Several theorems state invariants that no run lists any more, because the proof says more than a run
could: `TypeCorrect`, `LimiterTypes`, `LifecycleTypes`; `AppliedRowsFinished`, `ParkedNotApplied`;
`WaitingIsExact`, `PriorityRespected`; `ModeIsKept`, `TradingMeansRunning`.

Checked by TLC only:

- all liveness, because fairness and `ENABLED` are beyond TLAPS: `UnappliedRowsSurface`, `QueueDrains`, `QueuedTradesArrive`,
  `NoLaneIsStuck`, `TriggerStopsTrading`, `ExitIsNoticed`, `EveryItemIsSwept`, `EveryItemIsTried`, `BackfillEnds`, `StoppedSocketsEnd`;
- `LedgersAddUp`: it says what sorted and grouped sequences and their pages come to for every ledger. Rows are selected with `SelectSeq`, about
  which the installed library has no theorem and whose definition is recursive, and the calendar of `Reports` is fixed to short units.

## 6. What is not modelled

See `components` in `PROJECT.json`. In short:

- pure lookup and configuration (game data, cache, settings, logging, text helpers), the broadcast to the
  browsers and the web user interface: no protocol between actors;
- the bytes of EE.log: the tail's offset under truncation and the scanner's buffered dialog; what they yield is any sequence of
  confirmed trades;
- browser logins, their limiter, and device keys beyond an accepted or refused request;
- parsing and formatting, file import and export, rivens and chats, the price-source comparison page (`compare.rs`);
- numbers as `f64`: prices and means are integers or exact fractions, so rounding of floating point is not checked;
- the regression behind the hold suggestions, a parameter of `Holds`.

## 7. The plan

Done: the trade pipeline, the limiter, the trader's start and stop, with proofs; then the session and its sockets,
the collector's loops, book, feeds and jobs, orders and item trader with their rules, the desk, trade
resolution, the client, the figures, the schema and the backup.

Then proofs: the trade pipeline end to end with its refinement, the limiter, lifecycle, session and sweep loops, all
seven parts of `MCServices` and all four of `MCTrading`: every safety invariant and action property of the runs but
`LedgersAddUp` (section 5).

Next, in this order:

1. `EELog`: tail and scanner under truncation and partial lines, refining `HelperQueue`'s `Poll`.
2. `MarketSession` composed with `TraderLifecycle` in place of `SessionChanges`.
3. Browser sessions and the login limiter.
