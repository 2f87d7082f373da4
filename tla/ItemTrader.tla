------------------------------ MODULE ItemTrader ------------------------------
(***************************************************************************)
(* One run of the item trader (trader/item.rs, helpers.rs, orders.rs): the  *)
(* cycles that delete, create and update its orders, at the market or in    *)
(* the simulated book.  What is posted for an item is OrderRules' matter:   *)
(* here a decision is any of the three it can be.  While a cycle runs,      *)
(* trades close orders, rows come and go, calls fail, and the user          *)
(* refreshes the order list.                                                *)
(***************************************************************************)
EXTENDS OrderLists, FiniteSetsExt

CONSTANTS
  MayStock, MayWish, MayBuy, \* keys that can have a stock row, a wish-list row, be a candidate
  MayCool,          \* keys that are not always warm
  Modes,            \* the trade modes that are on
  Settings,         \* [auto_delete, delete_conflicting, price_cap : BOOLEAN]
  Blacklisted,      \* keys whose orders are left alone, for every mode
  Limit,            \* the market's limit on our orders
  SELL_SLOT_MARGIN,
  OrderNumbers,     \* bound: orders of one key and side in use at once
  MaxFaults         \* bound: failed calls, orders orders closed, rows and modes changed

VARIABLES
  market,     \* our orders at warframe.market
  cache,      \* the client's copy of them, with the trader's properties
  sim,        \* TradeOrders::book, the simulated orders
  dry,        \* TradeOrders::global_dry_run
  rows,       \* the stock and wish-list rows
  first_seen, \* orphans, and whether they have been for ORPHAN_GRACE
  cycle,      \* where the cycle is, and what it read
  asked,      \* the user's refresh: the answer on its way
  faults,
  doubt       \* a lost answer or a late refresh left the cache wrong (no part of the code)

trader == <<market, cache, sim, dry, rows, first_seen, cycle, asked, faults, doubt>>

Keys == MayStock \cup MayWish \cup MayBuy
Blank == [wish |-> FALSE]
NoAnswer == {<<>>}

\* The last four are no part of the code: the wish-list rows that were there
\* since the items were collected, the bids deleted for a sale or as orphans,
\* the bids created at the market, and how many sales were closed unnoticed
\* when the slots were read, or since.
Idle == [pc |-> "idle", warm |-> {}, entries |-> [k \in Keys |-> {}], left |-> {},
         ops |-> {}, at |-> {}, backlog |-> 0, wish_list |-> {}, existing |-> {},
         interrupted |-> FALSE, just_started |-> FALSE,
         kept |-> {}, given_up |-> {}, made |-> {}, sold |-> 0]
First == [Idle EXCEPT !.just_started = TRUE]

\* An id is the order's key and side and the first number nothing refers to.
Referred == {o.id : o \in market \cup cache \cup sim} \cup DOMAIN first_seen
              \cup (IF asked = NoAnswer THEN {} ELSE {o.id : o \in asked})
              \cup {o.id : o \in cycle.given_up} \cup cycle.made
FreeIds(k, side) == {n \in OrderNumbers : <<k, side, n>> \notin Referred}
NewId(k, side) == <<k, side, Min(FreeIds(k, side))>>

TraderInit ==
  /\ dry \in BOOLEAN
  /\ \E k \in MayBuy : market \in {{}, {[id |-> <<k, "buy", 1>>, key |-> k, side |-> "buy"]}}
  /\ cache = my_orders(market, Blank)
  /\ sim = IF dry THEN cache ELSE {}
  /\ rows \in [stock : {{}, MayStock}, wish : SUBSET MayWish]
  /\ first_seen = <<>> /\ cycle = First /\ asked = NoAnswer /\ faults = 0
  /\ doubt = FALSE

-----------------------------------------------------------------------------
(***************************************************************************)
(* TradeOrders: each call goes to the market or to the simulated book.      *)
(***************************************************************************)
Live == "live"
route_for(k) == IF dry THEN "global" ELSE IF k \notin cycle.warm THEN "not_warm" ELSE Live

cache_orders == IF dry THEN sim ELSE cache \cup sim
OrdersOf(route) == IF route = Live THEN cache ELSE sim
in_book(id) == dry \/ get_by_id(sim, id) # {}

CanCreate(route) == route = Live => can_create_order(cache, Limit)

\* A mutated form: only the margin is left free, not the sales of this cycle.
CanCreateBuy_Margin(route) == route = Live => total_orders(cache) + SELL_SLOT_MARGIN < Limit
CanCreateBuy(route) ==
  route = Live => total_orders(cache) + cycle.backlog + SELL_SLOT_MARGIN < Limit

Sacrificable == {o \in OfSide(cache, "buy") : o.key \notin cycle.wish_list /\ ~o.wish}

\* The bid with the lowest profit; which one that is, is left open.
lowest_profit_buy_order == Sacrificable

\* finish_live: what the market refuses makes the trader refresh its orders,
\* which may fail itself.
FinishLive(a) ==
  LET refused == a.answer = "refused"
  IN /\ market' = a.market
     /\ cache' \in IF refused THEN {a.cache, my_orders(a.market, Blank)} ELSE {a.cache}
     /\ faults' = faults + (IF a.answer \in {"lost", "failed"} THEN 1 ELSE 0)
     /\ faults' <= MaxFaults
     /\ sim' = sim

\* A write and what it leads to: `ok' and `failed' are the cycle's next state.
Delete(id, ok, failed) ==
  IF in_book(id)
  THEN /\ sim' = remove_by_id(sim, id) /\ cycle' = ok
       /\ UNCHANGED <<market, cache, faults>>
  ELSE \E a \in delete(market, cache, id) :
         FinishLive(a) /\ cycle' = IF a.answer = "ok" THEN ok ELSE failed

Create(route, k, side, props, ok, failed) ==
  LET order == [id |-> NewId(k, side), key |-> k, side |-> side]
  IN IF route # Live
     THEN /\ sim' = sim \cup {[f \in DOMAIN order \cup DOMAIN props |->
                                  IF f \in DOMAIN props THEN props[f] ELSE order[f]]}
          /\ cycle' = ok /\ UNCHANGED <<market, cache, faults, doubt>>
     ELSE \E a \in create(market, cache, order, props, Limit) :
            /\ FinishLive(a)
            /\ cycle' = IF a.answer # "ok" THEN failed
                        ELSE IF side = "buy" THEN [ok EXCEPT !.made = @ \cup {order.id}] ELSE ok
            /\ doubt' = (doubt \/ a.answer = "lost")

\* An update that would change nothing is applied to the cached order alone.
Update(o, props, ok, failed) ==
  \/ /\ in_book(o.id)
     /\ sim' = update(sim, o.id, props) /\ cycle' = ok
     /\ UNCHANGED <<market, cache, faults>>
  \/ /\ ~in_book(o.id)
     /\ cache' = update(cache, o.id, props) /\ cycle' = ok
     /\ UNCHANGED <<market, sim, faults>>
  \/ /\ ~in_book(o.id)
     /\ \E a \in update_order(market, cache, o.id, props) :
          FinishLive(a) /\ cycle' = IF a.answer = "ok" THEN ok ELSE failed

-----------------------------------------------------------------------------
(***************************************************************************)
(* A cycle: unwanted orders, the entries by priority, the cap on the bids'  *)
(* total, the orphans.  An error ends it.                                   *)
(***************************************************************************)
Outside == <<dry, rows, asked>>
At(pc) == cycle.pc = pc
Ended == Idle

orders_to_delete ==
  IF Settings.auto_delete /\ cycle.just_started
  THEN {o.id : o \in {x \in cache_orders : x.key \notin Blacklisted}}
  ELSE CASE Modes = {"Buy", "WishList"} -> order_ids(cache_orders, "sell")
         [] Modes = {"Sell"} -> order_ids(cache_orders, "buy")
         [] OTHER -> {}

BeginCycle ==
  /\ At("idle")
  /\ \E cool \in SUBSET MayCool :
       cycle' = [Idle EXCEPT !.pc = "unwanted", !.warm = Keys \ cool,
                   !.left = IF Settings.auto_delete \/ Settings.delete_conflicting
                            THEN orders_to_delete ELSE {}]
  /\ UNCHANGED <<market, cache, sim, first_seen, faults, doubt, Outside>>

\* Failed deletes are logged; a stop ends the list early.
delete_unwanted_orders ==
  /\ At("unwanted") /\ cycle.left # {}
  /\ \/ \E id \in cycle.left :
          LET on == [cycle EXCEPT !.left = @ \ {id}] IN Delete(id, on, on)
     \/ cycle' = [cycle EXCEPT !.left = {}] /\ UNCHANGED <<market, cache, sim, faults>>
  /\ UNCHANGED <<first_seen, doubt, Outside>>

Priority(ops) == IF "WishList" \in ops THEN 2 ELSE IF "Sell" \in ops THEN 1 ELSE 0

Entry(k, candidates) ==
  IF k \in Blacklisted THEN {}
  ELSE {m \in Modes : \/ m = "Buy" /\ k \in candidates
                      \/ m = "Sell" /\ k \in rows.stock
                      \/ m = "WishList" /\ k \in rows.wish}

collect_interesting_items ==
  /\ At("unwanted") /\ cycle.left = {}
  /\ \E candidates \in SUBSET MayBuy :
       cycle' = [cycle EXCEPT !.pc = "slots",
                              !.entries = [k \in Keys |-> Entry(k, candidates)],
                              !.kept = rows.wish]
  /\ UNCHANGED <<market, cache, sim, first_seen, faults, doubt, Outside>>

sell_backlog ==
  Quantify(Keys, LAMBDA k : /\ "Sell" \in cycle.entries[k] /\ route_for(k) = Live
                            /\ find_order(cache, k, "sell") = {})

\* Sales the cache lists and the market does not.
Stale == {id \in order_ids(cache, "sell") : get_by_id(market, id) = {}}

ReadSlots ==
  /\ At("slots")
  /\ cycle' = [cycle EXCEPT !.pc = "entries", !.backlog = sell_backlog,
                 !.wish_list = rows.wish, !.existing = order_ids(cache_orders, "buy"),
                 !.left = {k \in Keys : cycle.entries[k] # {}}, !.sold = Cardinality(Stale)]
  /\ UNCHANGED <<market, cache, sim, first_seen, faults, doubt, Outside>>

\* Entries of equal priority come in any order; an item the cache does not know
\* is skipped, a failed fetch of its book ends the cycle, a stop interrupts it.
NextEntry ==
  /\ At("entries") /\ cycle.ops = {} /\ cycle.left # {}
  /\ \/ \E k \in cycle.left :
          /\ \A j \in cycle.left : Priority(cycle.entries[j]) <= Priority(cycle.entries[k])
          /\ cycle' = [cycle EXCEPT !.left = @ \ {k}, !.at = {k}, !.ops =
                         IF "WishList" \in cycle.entries[k] THEN cycle.entries[k] \ {"Buy"}
                         ELSE cycle.entries[k]]
     \/ cycle' = Ended
     \/ cycle' = [cycle EXCEPT !.left = {}, !.at = {}, !.interrupted = TRUE]
  /\ UNCHANGED <<market, cache, sim, first_seen, faults, doubt, Outside>>

The(S) == CHOOSE x \in S : TRUE

\* The bid comes before the sale.
Current(op) ==
  /\ At("entries") /\ op \in cycle.ops
  /\ op = "Sell" => cycle.ops = {"Sell"}

\* progress_order for the decision `act'.  An order at its limit is skipped,
\* except that a live sale takes the slot of a bid (SellSlot).
progress_order(k, side, act, props, done) ==
  LET route == route_for(k)
      own == find_order(OrdersOf(route), k, side)
      room == IF side = "buy" THEN CanCreateBuy(route) ELSE CanCreate(route)
      blocked == act = "post" /\ own = {} /\ ~room
      slot == blocked /\ side = "sell" /\ route = Live /\ lowest_profit_buy_order # {}
      Skip == cycle' = done /\ UNCHANGED <<market, cache, sim, faults, doubt>>
  IN \/ /\ act = "post" /\ own = {} /\ room /\ FreeIds(k, side) # {}
        /\ Create(route, k, side, props, done, Ended)
     \/ /\ act = "post" /\ UNCHANGED doubt
        /\ \E o \in own : Update(o, props, done, Ended)
     \/ /\ act = "delete" /\ UNCHANGED doubt
        /\ \E o \in own : Delete(o.id, done, Ended)
     \/ slot /\ cycle' = [cycle EXCEPT !.pc = "slot"]
             /\ UNCHANGED <<market, cache, sim, faults, doubt>>
     \/ (act = "leave" \/ (act = "delete" /\ own = {}) \/ (blocked /\ ~slot)) /\ Skip

After(op) == [cycle EXCEPT !.ops = @ \ {op}]
Decisions == {"leave", "delete", "post"}

progress_buying ==
  /\ Current("Buy")
  /\ \E act \in Decisions :
       progress_order(The(cycle.at), "buy", act, Blank, After("Buy"))
  /\ UNCHANGED <<first_seen, Outside>>

\* A row gone since the items were collected is skipped.
progress_wish_list ==
  /\ Current("WishList")
  /\ \E act \in IF The(cycle.at) \in rows.wish THEN Decisions ELSE {"leave"} :
       progress_order(The(cycle.at), "buy", act, [wish |-> TRUE], After("WishList"))
  /\ UNCHANGED <<first_seen, Outside>>

progress_selling ==
  /\ Current("Sell")
  /\ \E act \in IF The(cycle.at) \in rows.stock THEN Decisions ELSE {"leave"} :
       progress_order(The(cycle.at), "sell", act, Blank, After("Sell"))
  /\ UNCHANGED <<first_seen, Outside>>

\* A row removed while its order was written fails the row's update, which ends
\* the cycle.
finalize_fails ==
  /\ At("entries") /\ cycle.ops = {} /\ cycle.at # {}
  /\ \/ "WishList" \in cycle.entries[The(cycle.at)] /\ The(cycle.at) \notin rows.wish
     \/ "Sell" \in cycle.entries[The(cycle.at)] /\ The(cycle.at) \notin rows.stock
  /\ cycle' = Ended
  /\ UNCHANGED <<market, cache, sim, first_seen, faults, doubt, Outside>>

\* The blocked sale deletes a bid and, when that worked, is created.
SellSlot ==
  /\ At("slot")
  /\ \E o \in lowest_profit_buy_order :
       Delete(o.id, [cycle EXCEPT !.pc = "sale", !.given_up = @ \cup {o}],
                    [cycle EXCEPT !.pc = "entries", !.ops = {}])
  /\ UNCHANGED <<first_seen, doubt, Outside>>

SlotGone ==
  /\ At("slot") /\ lowest_profit_buy_order = {}
  /\ cycle' = [cycle EXCEPT !.pc = "entries", !.ops = {}]
  /\ UNCHANGED <<market, cache, sim, first_seen, faults, doubt, Outside>>

SlotSale ==
  /\ At("sale") /\ FreeIds(The(cycle.at), "sell") # {}
  /\ Create(Live, The(cycle.at), "sell", Blank,
            [cycle EXCEPT !.pc = "entries", !.ops = {}], Ended)
  /\ UNCHANGED <<first_seen, Outside>>

\* The bids the knapsack leaves out, of those that were there before the cycle.
GlobalKnapsack ==
  /\ At("entries") /\ cycle.ops = {} /\ cycle.left = {}
  /\ \E unselected \in SUBSET order_ids(cache_orders, "buy") :
       /\ (~Settings.price_cap \/ Cardinality(OfSide(cache_orders, "buy")) <= 1) => unselected = {}
       /\ cycle' = [Idle EXCEPT !.pc = "cap", !.left = unselected \cap cycle.existing,
                       !.entries = cycle.entries, !.interrupted = cycle.interrupted,
                       !.kept = cycle.kept]
  /\ UNCHANGED <<market, cache, sim, first_seen, faults, doubt, Outside>>

DeleteUnselected ==
  /\ At("cap")
  /\ \E id \in cycle.left :
       LET on == [cycle EXCEPT !.left = @ \ {id}] IN Delete(id, on, on)
  /\ UNCHANGED <<first_seen, doubt, Outside>>

should_sweep == ~cycle.interrupted /\ \E k \in Keys : "Buy" \in cycle.entries[k]

orphan_buy_orders ==
  IF "Buy" \notin Modes THEN {}
  ELSE {o \in OfSide(cache_orders, "buy") :
          o.key \notin Blacklisted /\ cycle.entries[o.key] \cap {"Buy", "WishList"} = {}}

due_orphans(orphans) == {id \in orphans \cap DOMAIN first_seen : first_seen[id]}

sweep_orphans ==
  /\ At("cap") /\ cycle.left = {}
  /\ LET orphans == {o.id : o \in orphan_buy_orders}
     IN IF should_sweep
        THEN /\ first_seen' = [id \in orphans |-> IF id \in DOMAIN first_seen
                                                  THEN first_seen[id] ELSE FALSE]
             /\ cycle' = [cycle EXCEPT !.pc = "orphans", !.left = due_orphans(orphans)]
        ELSE first_seen' = first_seen /\ cycle' = Ended
  /\ UNCHANGED <<market, cache, sim, faults, doubt, Outside>>

DeleteOrphan ==
  /\ At("orphans")
  /\ \E id \in cycle.left :
       LET on == [cycle EXCEPT !.left = @ \ {id}]
       IN Delete(id, [on EXCEPT !.given_up = @ \cup get_by_id(cache_orders, id)], on)
  /\ UNCHANGED <<first_seen, doubt, Outside>>

EndCycle ==
  /\ At("orphans") /\ cycle.left = {}
  /\ cycle' = Ended
  /\ UNCHANGED <<market, cache, sim, first_seen, faults, doubt, Outside>>

-----------------------------------------------------------------------------
(***************************************************************************)
(* Everyone else.                                                          *)
(***************************************************************************)
Fault == faults < MaxFaults /\ faults' = faults + 1

\* The run ends between two cycles and another one starts; a change of mode
\* counts as a fault, to bound how often it happens.
NewRun ==
  /\ At("idle") /\ ~cycle.just_started
  /\ \/ dry' = dry /\ faults' = faults
     \/ dry' = ~dry /\ Fault
  /\ sim' = IF dry' THEN cache ELSE {}
  /\ first_seen' = <<>> /\ cycle' = First
  /\ UNCHANGED <<market, cache, rows, asked, doubt>>

GracePasses ==
  /\ \E id \in DOMAIN first_seen :
       ~first_seen[id] /\ first_seen' = [first_seen EXCEPT ![id] = TRUE]
  /\ UNCHANGED <<market, cache, sim, cycle, faults, doubt, Outside>>

\* A trade closes an order, and the desk notes it; or the order is deleted on
\* the market's own page, which the client does not hear of.
OrderCloses ==
  /\ Fault
  /\ \E o \in market :
       /\ market' = market \ {o}
       /\ cache' \in {cache, remove_by_id(cache, o.id)}
       /\ cycle' = IF At("idle") \/ o.side = "buy" THEN cycle ELSE [cycle EXCEPT !.sold = @ + 1]
  /\ UNCHANGED <<sim, first_seen, doubt, Outside>>

RowsChange ==
  /\ Fault
  /\ \/ \E k \in MayStock :
          rows' \in {[rows EXCEPT !.stock = @ \cup {k}], [rows EXCEPT !.stock = @ \ {k}]}
     \/ \E k \in MayWish :
          rows' \in {[rows EXCEPT !.wish = @ \cup {k}], [rows EXCEPT !.wish = @ \ {k}]}
  /\ rows' # rows
  /\ cycle' = [cycle EXCEPT !.kept = @ \cap rows'.wish]
  /\ UNCHANGED <<market, cache, sim, dry, asked, first_seen, doubt>>

RefreshAsked ==
  /\ asked = NoAnswer /\ Fault
  /\ asked' = market
  /\ UNCHANGED <<market, cache, sim, dry, rows, first_seen, cycle, doubt>>

RefreshAnswered ==
  /\ asked # NoAnswer
  /\ cache' = my_orders(asked, Blank) /\ asked' = NoAnswer
  /\ doubt' = (doubt \/ market # asked)
  /\ UNCHANGED <<market, sim, dry, rows, first_seen, cycle, faults>>

TraderNext ==
  \/ BeginCycle \/ delete_unwanted_orders \/ collect_interesting_items \/ ReadSlots
  \/ NextEntry \/ progress_buying \/ progress_wish_list \/ progress_selling \/ finalize_fails
  \/ SellSlot \/ SlotGone \/ SlotSale \/ GlobalKnapsack \/ DeleteUnselected
  \/ sweep_orphans \/ DeleteOrphan \/ EndCycle
  \/ NewRun \/ GracePasses \/ OrderCloses \/ RowsChange \/ RefreshAsked \/ RefreshAnswered

TraderSpec == TraderInit /\ [][TraderNext]_trader

-----------------------------------------------------------------------------
\* A wish-list bid is the user's own purchase: while its row has been there for
\* the whole cycle, neither a sale that needs its slot nor the orphan sweep
\* takes it, also after a refresh has dropped the properties that mark it
\* (lowest_profit_buy_order, orphan_buy_orders).
WishBidsAreKept == "WishList" \in Modes => \A o \in cycle.given_up : o.key \notin cycle.kept

\* A bid created in a cycle is not sacrificed to a sale of the same cycle: the
\* bids leave the slots free that the cycle's sales will need (can_create_buy
\* with the sell backlog), and the margin makes up for sales that were closed
\* and are posted again.  A cache that is wrong (doubt) voids the count.
FreshBidsSurvive ==
  doubt \/ cycle.sold > SELL_SLOT_MARGIN \/ \A o \in cycle.given_up : o.id \notin cycle.made

\* The market never holds two of our orders for one key and side, although
\* keys change between the market and the simulated book, orders are closed
\* behind the trader's back and refreshes replace the cache; only a create
\* whose answer was lost, or a refresh that overtook one, makes a second.
OneOrderPerKey ==
  doubt \/ \A o, p \in market : o.key = p.key /\ o.side = p.side => o = p

-----------------------------------------------------------------------------
\* Inductive: while nothing was lost the cache knows every order of the market,
\* and an id tells its order's key and side, also after a refresh.
Identified(o) == {"id", "key", "side"} \subseteq DOMAIN o /\ o.id[1] = o.key /\ o.id[2] = o.side
OrdersInv ==
  /\ doubt \in BOOLEAN /\ DOMAIN cycle = DOMAIN Idle
  /\ \A o \in market \cup cache \cup sim : Identified(o)
  /\ asked # NoAnswer => \A o \in asked : Identified(o)
  /\ doubt \/ \A o \in market : \E c \in cache : c.id = o.id
  /\ cycle.pc \in {"slot", "sale"} => doubt \/ find_order(cache, The(cycle.at), "sell") = {}
  /\ OneOrderPerKey

\* Inductive: what the cycle knows of the wish list covers the rows that stayed.
Collected == {"slots", "entries", "slot", "sale", "cap", "orphans"}
KeptInv ==
  /\ rows \in [stock : SUBSET MayStock, wish : SUBSET MayWish] /\ cycle.kept \subseteq rows.wish
  /\ cycle.pc \in Collected \cup {"idle", "unwanted"}
  /\ cycle.pc \in {"idle", "unwanted"} => cycle.given_up = {}
  /\ cycle.pc \in {"entries", "slot", "sale"} => cycle.kept \subseteq cycle.wish_list
  /\ "WishList" \in Modes =>
       /\ cycle.pc \in Collected => \A k \in cycle.kept \ Blacklisted : "WishList" \in cycle.entries[k]
       /\ cycle.pc = "orphans" => \A id \in cycle.left : id[1] \notin cycle.kept
  /\ WishBidsAreKept

\* Inductive: the keys whose sale the cycle still has to post take no more slots
\* than the backlog and what was closed meanwhile, and every bid left that many
\* slots and the margin.
Pending ==
  {k \in Keys : /\ "Sell" \in cycle.entries[k] /\ k \in cycle.warm
                /\ find_order(cache, k, "sell") = {}
                /\ \/ k \in cycle.left
                   \/ k \in cycle.at /\ ("Sell" \in cycle.ops \/ cycle.pc \in {"slot", "sale"})}
Load == Cardinality(Pending) + Cardinality(Stale)
SlotsInv ==
  /\ IsFiniteSet(market) /\ IsFiniteSet(cache) /\ IsFiniteSet(asked)
  /\ cycle.backlog \in Nat /\ cycle.sold \in Nat
  /\ cycle.pc \notin {"entries", "slot", "sale"} => cycle.ops = {} /\ cycle.at = {}
  /\ cycle.pc \notin {"entries", "slot", "sale"} \/ dry => cycle.made = {}
  /\ cycle.pc \in {"slot", "sale"} =>
       \E k \in Keys : cycle.at = {k} /\ "Sell" \in cycle.entries[k] /\ k \in cycle.warm /\ ~dry
  /\ cycle.pc = "entries" /\ cycle.ops # {} =>
       \E k \in Keys : cycle.at = {k} /\ cycle.ops \subseteq cycle.entries[k]
  /\ cycle.pc \in {"entries", "slot", "sale"} => cycle.left \subseteq Keys \ cycle.at
  /\ cycle.pc \in {"entries", "slot", "sale"} /\ ~dry =>
       \/ doubt
       \/ /\ Load <= cycle.backlog + cycle.sold
          /\ cycle.made # {} => Cardinality(cache) + Load + SELL_SLOT_MARGIN <= Limit + cycle.sold
  /\ cycle.pc = "slot" => doubt \/ cycle.sold > SELL_SLOT_MARGIN \/ cycle.made = {}
  /\ FreshBidsSurvive
=============================================================================
