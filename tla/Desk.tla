--------------------------------- MODULE Desk ---------------------------------
(***************************************************************************)
(* The user's books: stock, wish list, trade entries and transactions of    *)
(* one item (service/mutation, handlers, commands).  A trade that the       *)
(* helper reported and the user's commands run at the same time, each a     *)
(* sequence of separate database and market calls without a transaction     *)
(* around them; the trader reads a row and writes it back later.            *)
(*                                                                          *)
(* Stock rows, wish-list rows and trade entries are rows [count, price] of  *)
(* three lists: owned and bought; quantity; and the price entered.          *)
(***************************************************************************)
EXTENDS OrderLists, Sequences, FiniteSetsExt, SequencesExt

CONSTANTS
  Task,         \* requests, each served once
  Ops,          \* the kinds of request
  Quantities, Prices,   \* of a request; the price is that of the whole line
  StartRows,    \* rows a list may begin with
  MaxFaults     \* bound: calls that fail

VARIABLES
  lists,      \* [list -> [id -> row]]
  orders,     \* the client's cached orders of the item
  ledger,     \* the transactions
  report,     \* live_scraper.general.report_to_wfm
  task,       \* what each request is doing
  trader,     \* the row the trader holds
  failures,
  paid,       \* unit prices entered so far (no part of the code)
  booked      \* [task -> rows it changed, transactions it wrote] (no part of the code)

desk == <<lists, orders, ledger, report, task, trader, failures, paid, booked>>

Lists == {"stock", "wish", "entries"}
None == 0
Waiting == [pc |-> "waiting", op |-> "none", list |-> "stock", side |-> "buy", flags |-> {},
            quantity |-> 0, price |-> 0, row |-> None, seen |-> <<>>, ids |-> {}]
AtRest == [pc |-> "rest", list |-> "stock", row |-> None, seen |-> <<>>]
Item == "item"
Listed(side, quantity) == [id |-> side, key |-> Item, side |-> side, quantity |-> quantity]

\* Row ids ascend, as SQLite gives them.
FreshId(l) == IF DOMAIN lists[l] = {} THEN 1 ELSE Max(DOMAIN lists[l]) + 1
WithRow(l, id, row) == [lists EXCEPT ![l] = [i \in DOMAIN @ \cup {id} |-> IF i = id THEN row ELSE @[i]]]
WithoutRow(l, id) == [lists EXCEPT ![l] = [i \in DOMAIN @ \ {id} |-> @[i]]]

DeskInit ==
  /\ \E s, w \in StartRows :
       lists = [stock |-> s, wish |-> [i \in DOMAIN w |-> [w[i] EXCEPT !.price = 0]], entries |-> <<>>]
  /\ orders \in {{}, {Listed("sell", 1), Listed("buy", 2)}}
  /\ ledger = <<>> /\ report \in BOOLEAN
  /\ task = [t \in Task |-> Waiting] /\ trader = AtRest /\ failures = 0
  /\ paid = {lists.stock[i].price : i \in DOMAIN lists.stock}
  /\ booked = [t \in Task |-> [rows |-> 0, transactions |-> 0]]

-----------------------------------------------------------------------------
Go(t, pc) == task' = [task EXCEPT ![t].pc = pc]
Counts(t, field) == booked' = [booked EXCEPT ![t][field] = @ + 1]

\* Which handler a request runs: its list, the side and the flags.
wish_list_flags == {"ReturnOn:NotFound"}
item_flags(side) == IF side = "sell" THEN {"SkipWFMCheck:ItemSell_NotFound"} ELSE {}
handle_item(op, side, flags) == [op |-> op, list |-> "stock", side |-> side, flags |-> flags]
handle_wish_list(op, side, flags) == [op |-> op, list |-> "wish", side |-> side, flags |-> flags]

stock_item_create == handle_item("create", "buy", {})
stock_item_sell == handle_item("sell", "sell", {})
wish_list_create == handle_wish_list("wish_create", "sell", {})
wish_list_bought == handle_wish_list("wish_bought", "buy", {})
\* A list of items the user enters at once: each is one of the four.
handles_handle_items == {stock_item_create, stock_item_sell, wish_list_create, wish_list_bought}
\* A trade the helper reported: a purchase asks the wish list first.
apply_item ==
  {handle_item("sale", "sell", item_flags("sell")), handle_wish_list("purchase", "buy", wish_list_flags)}
Handlers == handles_handle_items \cup apply_item

Run(t, handler) == [t EXCEPT !.list = handler.list, !.side = handler.side,
                             !.flags = handler.flags, !.pc = "find", !.row = None]

Handled == {h.op : h \in Handlers}

\* A sale takes from the stock, a purchase from the wish list; otherwise a row is added.
Takes(t) == <<task[t].list, task[t].side>> \in {<<"stock", "sell">>, <<"wish", "buy">>}

\* to_model, add_price: what is added; validate has nothing against quantity 0.
UnitPrices(quantity, price) ==
  IF quantity <= 1 THEN {price} ELSE {price \div quantity, (price + quantity - 1) \div quantity}

\* A request comes in.
Handle(t) ==
  /\ task[t].pc = "waiting"
  /\ \E h \in {x \in Handlers : x.op \in Ops}, q \in Quantities, p \in Prices :
       /\ task' = [task EXCEPT ![t] = [Run(@, h) EXCEPT !.op = h.op, !.quantity = q, !.price = p]]
       /\ paid' = IF h.op \in {"create", "purchase"} THEN paid \cup UnitPrices(q, p) ELSE paid
  /\ UNCHANGED <<lists, orders, ledger, report, trader, failures, booked>>

\* find_by_url_name_and_sub_type: the first row of the item.
Find(t) ==
  LET l == task[t].list
      ids == DOMAIN lists[l]
  IN /\ task[t].pc = "find"
     /\ task' = [task EXCEPT ![t].row = IF ids = {} THEN None ELSE Min(ids),
                             ![t].seen = IF ids = {} THEN <<>> ELSE lists[l][Min(ids)],
                             ![t].pc = IF ~Takes(t) THEN "add" ELSE "take"]
     /\ UNCHANGED <<lists, orders, ledger, report, trader, failures, paid, booked>>

\* What a handler does once its list is changed, or had nothing to change: the
\* flags end it, or skip the market.  The trade pipeline gives a purchase that
\* no wish-list row was waiting for to the stock.
\* A mutated form: the flag that returns early is not looked at, so a purchase
\* is booked without a row.
NotFound_NoReturn(t) ==
  IF t.op = "purchase" /\ t.list = "wish" THEN [t EXCEPT !.pc = "sync"]
  ELSE [t EXCEPT !.pc = IF t.flags = {} THEN "sync" ELSE "book"]
NotFound(t) ==
  IF "ReturnOn:NotFound" \in t.flags
  THEN Run(t, handle_item(t.op, "buy", item_flags("buy")))
  ELSE [t EXCEPT !.pc = IF "SkipWFMCheck:ItemSell_NotFound" \in t.flags THEN "book" ELSE "sync"]

\* sold_by_id, bought_by_id: the row is read again by its id.
Reread(t) ==
  LET now == task[t]
      there == now.row \in DOMAIN lists[now.list]
  IN /\ now.pc = "take"
     /\ task' = [task EXCEPT ![t] =
          IF there THEN [now EXCEPT !.seen = lists[now.list][now.row], !.pc = "change"] ELSE NotFound(now)]
     /\ UNCHANGED <<lists, orders, ledger, report, trader, failures, paid, booked>>

\* What is left of a row; a quantity of 0 counts as 1.
sold_by_id(row, quantity) == row.count - (IF quantity = 0 THEN 1 ELSE quantity)
bought_by_id(row, quantity) == row.count - (IF quantity = 0 THEN 1 ELSE quantity)

\* delete_by_id fails on a row that is gone when it looks, and not on one that
\* goes before the DELETE; update_by_id fails on both.
Change(t) ==
  LET now == task[t]
      left == IF now.list = "stock" THEN sold_by_id(now.seen, now.quantity)
              ELSE bought_by_id(now.seen, now.quantity)
      there == now.row \in DOMAIN lists[now.list]
  IN /\ now.pc = "change"
     /\ \/ /\ there
           /\ lists' = IF left <= 0 THEN WithoutRow(now.list, now.row)
                       ELSE WithRow(now.list, now.row, [lists[now.list][now.row] EXCEPT !.count = left])
           /\ Counts(t, "rows") /\ Go(t, "sync")
        \/ ~there /\ left <= 0 /\ Go(t, "sync") /\ Counts(t, "rows") /\ UNCHANGED lists
        \/ ~there /\ Go(t, "failed") /\ UNCHANGED <<lists, booked>>
     /\ UNCHANGED <<orders, ledger, report, trader, failures, paid>>

\* A new row: the price of one, where the line has more.
to_model(quantity, price) == [count |-> quantity, price |-> IF quantity > 1 THEN price \div quantity ELSE price]
\* StockItemMutation::add_item: the average of what was paid.
\* A mutated form: the price of a new line is kept as the price of one.
add_stock_Line(seen, quantity, price) ==
  IF seen = <<>> THEN [count |-> quantity, price |-> price]
  ELSE [count |-> seen.count + quantity, price |-> (seen.price * seen.count + price) \div (seen.count + quantity)]
add_stock(seen, quantity, price) ==
  IF seen = <<>> THEN to_model(quantity, price)
  ELSE [count |-> seen.count + quantity,
        price |-> IF price > 0 THEN (seen.price * seen.count + price) \div (seen.count + quantity)
                  ELSE seen.price]
\* WishListMutation::add_item: a wish-list row only counts.
add_wish(seen, quantity) ==
  [count |-> IF seen = <<>> THEN quantity ELSE seen.count + quantity, price |-> 0]

\* A total of 0 is divided by: the handler panics.
Panics(seen, quantity, price, l) ==
  l = "stock" /\ seen # <<>> /\ price > 0 /\ seen.count + quantity = 0

Add(t) ==
  LET now == task[t]
      gone == now.row # None /\ now.row \notin DOMAIN lists[now.list]
      id == IF now.row = None THEN FreshId(now.list) ELSE now.row
  IN /\ now.pc = "add"
     /\ IF gone \/ Panics(now.seen, now.quantity, now.price, now.list)
        THEN Go(t, "failed") /\ UNCHANGED <<lists, booked>>
        ELSE /\ lists' = WithRow(now.list, id, 
                  IF now.list = "stock" THEN add_stock(now.seen, now.quantity, now.price)
                  ELSE add_wish(now.seen, now.quantity))
             /\ Counts(t, "rows") /\ Go(t, "sync")
     /\ UNCHANGED <<orders, ledger, report, trader, failures, paid>>

\* handle_wfm_item: the order of the item is closed, deleted or updated, or
\* there is nothing to do.
Synced(side, quantity, should_delete, force) ==
  LET of == find_order(orders, Item, side)
      order == CHOOSE o \in of : TRUE
      left == IF order.quantity > quantity THEN order.quantity - quantity ELSE 0
  IN IF (side = "buy" /\ ~report /\ ~force) \/ of = {} THEN orders
     ELSE IF report /\ ~should_delete THEN close_order(orders, order.id, quantity)
     ELSE IF should_delete \/ left = 0 THEN remove_by_id(orders, order.id)
     ELSE update(orders, order.id, [quantity |-> left])

Sync(t) ==
  LET now == task[t]
  IN /\ now.pc = "sync"
     /\ orders' = Synced(now.side, now.quantity, FALSE, now.list = "wish")
     /\ Go(t, "book")
     /\ UNCHANGED <<lists, ledger, report, trader, failures, paid, booked>>

\* handle_transaction: a sale's profit is against the item's last purchase; a
\* quantity of 0, here or there, is divided by.
Purchases == SelectSeq(ledger, LAMBDA x : x.type = "purchase")
Profit(quantity, price) ==
  IF Purchases = <<>> THEN 0
  ELSE (price \div quantity - Last(Purchases).price \div Last(Purchases).quantity) * quantity
Book(t) ==
  LET now == task[t]
      sale == now.side = "sell"
  IN /\ now.pc = "book"
     /\ IF now.price <= 0 THEN Go(t, "done") /\ UNCHANGED <<ledger, booked>>
        ELSE IF sale /\ Purchases # <<>> /\ (now.quantity = 0 \/ Last(Purchases).quantity = 0)
        THEN Go(t, "failed") /\ UNCHANGED <<ledger, booked>>
        ELSE /\ ledger' = Append(ledger, [type |-> IF sale THEN "sale" ELSE "purchase",
                                          quantity |-> now.quantity, price |-> now.price,
                                          profit |-> IF sale THEN Profit(now.quantity, now.price) ELSE 0])
             /\ Counts(t, "transactions") /\ Go(t, "done")
     /\ UNCHANGED <<lists, orders, report, trader, failures, paid>>

-----------------------------------------------------------------------------
(***************************************************************************)
(* The commands that change rows directly.                                  *)
(***************************************************************************)
\* A row is deleted: the market's order first, then the row.
DeleteRow(t, l) ==
  /\ task[t].pc = "waiting" /\ "delete" \in Ops
  /\ \E id \in DOMAIN lists[l] :
       task' = [task EXCEPT ![t].op = "delete", ![t].list = l, ![t].ids = {id}, ![t].pc = "unlist"]
  /\ UNCHANGED <<lists, orders, ledger, report, trader, failures, paid, booked>>
stock_item_delete(t) == DeleteRow(t, "stock")
wish_list_delete(t) == DeleteRow(t, "wish")

Unlist(t) ==
  /\ task[t].pc = "unlist"
  /\ orders' = Synced(IF task[t].list = "stock" THEN "sell" ELSE "buy", 1, TRUE, FALSE)
  /\ Go(t, "drop")
  /\ UNCHANGED <<lists, ledger, report, trader, failures, paid, booked>>

\* The *_delete_multiple commands leave the orders alone, and stop at the
\* first row that is gone.
DeleteRows(t, l) ==
  /\ task[t].pc = "waiting" /\ "delete_multiple" \in Ops
  /\ \E ids \in SUBSET DOMAIN lists[l] \ {{}} :
       task' = [task EXCEPT ![t].op = "delete_multiple", ![t].list = l, ![t].ids = ids, ![t].pc = "drop"]
  /\ UNCHANGED <<lists, orders, ledger, report, trader, failures, paid, booked>>
stock_item_delete_multiple(t) == DeleteRows(t, "stock")
wish_list_delete_multiple(t) == DeleteRows(t, "wish")
trade_entry_delete_multiple(t) == DeleteRows(t, "entries")

\* delete_by_id of the next row.
Drop(t) ==
  LET l == task[t].list
      id == Min(task[t].ids)
      rest == task[t].ids \ {id}
  IN /\ task[t].pc = "drop"
     /\ IF id \in DOMAIN lists[l]
        THEN /\ lists' = WithoutRow(l, id)
             /\ task' = [task EXCEPT ![t].ids = rest, ![t].pc = IF rest = {} THEN "done" ELSE "drop"]
        ELSE Go(t, "failed") /\ UNCHANGED lists
     /\ UNCHANGED <<orders, ledger, report, trader, failures, paid, booked>>

\* update_by_id: only the fields that were given are written.
apply_to(row, fields, q, p) ==
  [f \in DOMAIN row |-> IF f \in fields THEN (IF f = "count" THEN q ELSE p) ELSE row[f]]
UpdateRow(t, l) ==
  /\ task[t].pc = "waiting" /\ "update" \in Ops
  /\ \E fields \in SUBSET {"count", "price"} \ {{}}, q \in Quantities, p \in Prices :
     \E id \in DOMAIN lists[l] :
       /\ lists' = [lists EXCEPT ![l][id] = apply_to(@, fields, q, p)]
       /\ paid' = IF "price" \in fields THEN paid \cup {p} ELSE paid
  /\ Go(t, "done")
  /\ UNCHANGED <<orders, ledger, report, trader, failures, booked>>
stock_item_update(t) == UpdateRow(t, "stock")
wish_list_update(t) == UpdateRow(t, "wish")
trade_entry_update(t) == UpdateRow(t, "entries")

\* trade_entry_create: an entry of the same item and tags is replaced when the
\* user asked for it.
trade_entry_create(t) ==
  /\ task[t].pc = "waiting" /\ "entry" \in Ops
  /\ \E override \in BOOLEAN, p \in Prices :
       LET found == override /\ DOMAIN lists.entries # {}
       IN task' = [task EXCEPT ![t].op = "entry", ![t].list = "entries", ![t].price = p,
                               ![t].row = IF found THEN Min(DOMAIN lists.entries) ELSE None, ![t].pc = "enter"]
  /\ UNCHANGED <<lists, orders, ledger, report, trader, failures, paid, booked>>

Enter(t) ==
  LET now == task[t]
      gone == now.row # None /\ now.row \notin DOMAIN lists.entries
      id == IF now.row = None THEN FreshId("entries") ELSE now.row
  IN /\ now.pc = "enter"
     /\ IF gone THEN Go(t, "failed") /\ UNCHANGED lists
        ELSE lists' = WithRow("entries", id, [count |-> 1, price |-> now.price]) /\ Go(t, "done")
     /\ UNCHANGED <<orders, ledger, report, trader, failures, paid, booked>>

\* Later profits are against what the ledger says then.
transaction_update(t) ==
  /\ task[t].pc = "waiting" /\ "ledger" \in Ops
  /\ \E i \in DOMAIN ledger, q \in Quantities, p \in Prices :
       ledger' = [ledger EXCEPT ![i].quantity = q, ![i].price = p]
  /\ Go(t, "done")
  /\ UNCHANGED <<lists, orders, report, trader, failures, paid, booked>>

transaction_delete(t) ==
  /\ task[t].pc = "waiting" /\ "ledger" \in Ops
  /\ \E i \in DOMAIN ledger : ledger' = RemoveAt(ledger, i)
  /\ Go(t, "done")
  /\ UNCHANGED <<lists, orders, report, trader, failures, paid, booked>>

\* The orders of one side or both.
order_delete_all(t) ==
  /\ task[t].pc = "waiting" /\ "orders" \in Ops
  /\ \E sides \in SUBSET {"buy", "sell"} \ {{}} :
       orders' = orders \ UNION {OfSide(orders, side) : side \in sides}
  /\ Go(t, "done")
  /\ UNCHANGED <<lists, ledger, report, trader, failures, paid, booked>>

order_delete_by_id(t) ==
  /\ task[t].pc = "waiting" /\ "orders" \in Ops
  /\ \E o \in orders : orders' = remove_by_id(orders, o.id)
  /\ Go(t, "done")
  /\ UNCHANGED <<lists, ledger, report, trader, failures, paid, booked>>

\* Any call may fail; what was done stays done.
Fail(t) ==
  /\ task[t].pc \notin {"waiting", "done", "failed"} /\ failures < MaxFaults
  /\ failures' = failures + 1 /\ Go(t, "failed")
  /\ UNCHANGED <<lists, orders, ledger, report, trader, paid, booked>>

-----------------------------------------------------------------------------
(***************************************************************************)
(* The trader: progress_selling and progress_wish_list read a row, talk to  *)
(* the market and write the whole row back.                                 *)
(***************************************************************************)
ReadRow ==
  /\ trader.pc = "rest"
  /\ \E l \in {"stock", "wish"} : \E id \in DOMAIN lists[l] :
       trader' = [pc |-> "holds", list |-> l, row |-> id, seen |-> lists[l][id]]
  /\ UNCHANGED <<lists, orders, ledger, report, task, failures, paid, booked>>

\* finalize_*: the whole row is written back.  A row that is gone is an error,
\* which ends the cycle.
to_update(held) == held.seen
FinalizeRow(l) ==
  LET there == trader.row \in DOMAIN lists[l]
  IN /\ trader.pc = "holds" /\ trader.list = l
     /\ \/ trader' = AtRest /\ UNCHANGED lists                        \* nothing changed
        \/ /\ there /\ trader' = AtRest
           /\ lists' = WithRow(l, trader.row, to_update(trader))
        \/ ~there /\ trader' = [AtRest EXCEPT !.pc = "aborted"] /\ UNCHANGED lists
     /\ UNCHANGED <<orders, ledger, report, task, failures, paid, booked>>
finalize_stock_item == FinalizeRow("stock")
finalize_wishlist_item == FinalizeRow("wish")

NextCycle ==
  /\ trader.pc = "aborted" /\ trader' = AtRest
  /\ UNCHANGED <<lists, orders, ledger, report, task, failures, paid, booked>>

Serve(t) == Find(t) \/ Reread(t) \/ Change(t) \/ Add(t) \/ Sync(t) \/ Book(t)
Command(t) ==
  \/ stock_item_delete(t) \/ wish_list_delete(t) \/ Unlist(t) \/ Drop(t)
  \/ stock_item_delete_multiple(t) \/ wish_list_delete_multiple(t) \/ trade_entry_delete_multiple(t)
  \/ stock_item_update(t) \/ wish_list_update(t) \/ trade_entry_update(t)
  \/ trade_entry_create(t) \/ Enter(t) \/ transaction_update(t) \/ transaction_delete(t)
  \/ order_delete_all(t) \/ order_delete_by_id(t)
DeskNext ==
  \/ \E t \in Task : Handle(t) \/ Serve(t) \/ Command(t) \/ Fail(t)
  \/ ReadRow \/ finalize_stock_item \/ finalize_wishlist_item \/ NextCycle
DeskSpec == DeskInit /\ [][DeskNext]_desk

-----------------------------------------------------------------------------
\* However requests interleave, a request that ended well was booked once: one
\* row of one list was changed for it (or none, where the command takes from a
\* list that has no such row; a trade's purchase always finds its list), and one
\* transaction written if it had a price.  One that failed wrote no transaction,
\* whatever it had changed by then.
TradesAreBookedOnce ==
  \A t \in Task :
    /\ task[t].pc = "done" /\ task[t].op \in Handled =>
         /\ booked[t].rows <= 1
         /\ booked[t].transactions = (IF task[t].price > 0 THEN 1 ELSE 0)
         /\ task[t].op \in {"create", "wish_create", "purchase"} => booked[t].rows = 1
    /\ task[t].pc = "failed" => booked[t].rows <= 1 /\ booked[t].transactions = 0

\* A priced line of no pieces was entered, which nothing refuses: it is averaged
\* into the price of a row without adding to its count.
VoidLine ==
  \E t \in Task : task[t].op \in {"create", "purchase"} /\ task[t].quantity = 0 /\ task[t].price > 0

\* The average price of a stock row never falls under the lowest price one was
\* bought at (or that was entered by hand), whichever of several concurrent writes
\* wins: profits and price floors are computed from it.  It never rises over the
\* highest either, but by priced lines of no pieces.
AveragePriceIsPaid ==
  \A i \in DOMAIN lists.stock :
    /\ Min(paid) <= lists.stock[i].price
    /\ VoidLine \/ lists.stock[i].price <= Max(paid)

-----------------------------------------------------------------------------
\* Inductive: at each point of a request, the handler it runs and what was booked
\* for it so far.
Serving == {"find", "take", "change", "add", "sync", "book"}
HandlerOf(n) == [op |-> n.op, list |-> n.list, side |-> n.side, flags |-> n.flags]
Booking(n, b) ==
  /\ n.price \in Int
  /\ n.pc \in Serving \cup {"waiting", "unlist", "drop", "enter", "done", "failed"}
  /\ n.pc = "waiting" => n.op = "none"
  /\ n.pc \in {"unlist", "drop", "enter"} => n.op \in {"delete", "delete_multiple", "entry"}
  /\ n.pc \in Serving => HandlerOf(n) \in Handlers \cup {handle_item("purchase", "buy", {})}
  /\ n.pc \in {"take", "change"} => <<n.list, n.side>> \in {<<"stock", "sell">>, <<"wish", "buy">>}
  /\ n.pc = "add" => <<n.list, n.side>> \notin {<<"stock", "sell">>, <<"wish", "buy">>}
  /\ n.pc \notin {"sync", "book", "done", "failed"} => b = [rows |-> 0, transactions |-> 0]
  /\ n.pc \in {"sync", "book"} =>
       /\ b.rows <= 1 /\ b.transactions = 0
       /\ n.op \in {"create", "wish_create", "purchase"} => b.rows = 1
BookingInv ==
  /\ task = [t \in Task |-> task[t]] /\ booked \in [Task -> [rows : Nat, transactions : Nat]]
  /\ \A t \in Task : DOMAIN task[t] = DOMAIN Waiting /\ Booking(task[t], booked[t])
  /\ TradesAreBookedOnce

\* Inductive: every copy of a stock row, also those a request or the trader will
\* write, has a price that keeps the bounds.
Row == [count : Nat, price : Int]
Between(p) == (\E l \in paid : l <= p) /\ (VoidLine \/ \E g \in paid : p <= g)
ListsPriced ==
  /\ lists = [l \in Lists |-> lists[l]] /\ paid \subseteq Int /\ IsFiniteSet(paid)
  /\ \A l \in Lists :
       /\ DOMAIN lists[l] \subseteq Nat /\ IsFiniteSet(DOMAIN lists[l])
       /\ \A i \in DOMAIN lists[l] : lists[l][i] \in Row
  /\ \A i \in DOMAIN lists["stock"] : Between(lists["stock"][i].price)
RequestPriced(n) ==
  /\ n.list \in Lists
  /\ n.pc \in Serving => n.quantity \in Nat
  /\ n.pc \in {"find", "take", "add"} /\ n.op \in {"create", "purchase"} =>
       UnitPrices(n.quantity, n.price) \subseteq paid
  /\ n.pc = "change" => n.seen \in Row
  /\ n.pc = "add" =>
       n.seen = <<>> \/ (n.seen \in Row /\ (n.list = "stock" => Between(n.seen.price)))
PricesInv ==
  /\ ListsPriced
  /\ \A t \in Task : RequestPriced(task[t])
  /\ trader.pc = "holds" => trader.seen \in Row /\ (trader.list = "stock" => Between(trader.seen.price))

\* The design's H2: a trade that removes a row while the trader works on it
\* does not end the trader's cycle.
RemovedRowsAreTolerated == trader.pc # "aborted"
=============================================================================
