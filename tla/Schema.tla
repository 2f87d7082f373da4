------------------------------- MODULE Schema -------------------------------
(***************************************************************************)
(* The database file across releases: what every start of the server does  *)
(* to it (qf_core/src/db.rs) and the 25 migrations of crates/migration.    *)
(* sea-orm runs the statements of a migration on SQLite one by one, with   *)
(* no transaction around them, and notes the migration as applied after    *)
(* its last one: a process that dies in between leaves the statements it   *)
(* ran and runs the whole migration again at the next start.               *)
(*                                                                         *)
(* The file is a function from its columns, <<table, column>>, to the      *)
(* user's limits (minimum and maximum prices, profits, averages) whose     *)
(* value that column holds.  Tables written by hand in SQL list only the   *)
(* columns that some other migration changes; indexes are left out.        *)
(***************************************************************************)
EXTENDS Naturals, Sequences, Functions

CONSTANT Releases   \* how many of the migrations each release of the program has

VARIABLES
  version,     \* migrations known to the installed release
  phase,       \* off | starting | failed | ready | undoing
  applied,     \* migrations noted in seaql_migrations: always the first ones
  at,          \* the statement of the current migration that runs next
  db,          \* the file: <<table, column>> -> limits stored there
  backup,      \* its copy, quantframe.sqlite_backup
  saved,       \* the limits the user has set, in any release
  interrupted, \* a process died between two statements of a migration
  undone       \* the operator ran the migration tool's "down"

vars == <<version, phase, applied, at, db, backup, saved, interrupted, undone>>

-----------------------------------------------------------------------------
(* Statements: what each needs to succeed and what it makes of the file.    *)

Statement(op, t, c, d) == [op |-> op, table |-> t, column |-> c, to |-> d, tolerant |-> FALSE]
Create(t, cols) == Statement("create", t, cols, "none")
Add(t, c) == Statement("add", t, c, "none")
Drop(t, c) == Statement("drop", t, c, "none")
DropTable(t) == Statement("dropTable", t, "none", "none")
DropTableIfExists(t) == [DropTable(t) EXCEPT !.tolerant = TRUE]
Tolerant(s) == [s EXCEPT !.tolerant = TRUE]

Tables(f) == {x[1] : x \in DOMAIN f}
ColumnsOf(f, t) == {x[2] : x \in {y \in DOMAIN f : y[1] = t}}

\* ALTER, UPDATE and DROP fail on what is not there; ADD and RENAME on what already is.
Succeeds(f, s) ==
  CASE s.op = "create"    -> TRUE
    [] s.op = "several"   -> FALSE
    [] s.op = "add"       -> s.table \in Tables(f) /\ s.column \notin ColumnsOf(f, s.table)
    [] s.op = "drop"      -> s.column \in ColumnsOf(f, s.table)
    [] s.op = "dropTable" -> s.table \in Tables(f)
    [] s.op = "rename"    -> /\ s.column \in ColumnsOf(f, s.table)
                             /\ s.to \notin ColumnsOf(f, s.table)
    [] OTHER              -> {s.column, s.to} \subseteq ColumnsOf(f, s.table)

Without(f, xs) == Restrict(f, DOMAIN f \ xs)
With(f, xs, v) == [x \in DOMAIN f \cup xs |-> IF x \in DOMAIN f THEN f[x] ELSE v]

Run(f, s) ==
  LET here == <<s.table, s.column>> there == <<s.table, s.to>> IN
  CASE s.op = "create"    -> IF s.table \in Tables(f) THEN f   \* IF NOT EXISTS
                             ELSE With(f, {<<s.table, c>> : c \in s.column}, {})
    [] s.op = "add"       -> With(f, {here}, {})
    [] s.op = "drop"      -> Without(f, {here})
    [] s.op = "dropTable" -> Without(f, {x \in DOMAIN f : x[1] = s.table})
    [] s.op = "rename"    -> With(Without(f, {here}), {there}, f[here])
    [] s.op = "json_set"  -> [f EXCEPT ![there] = @ \cup f[here]]
    [] s.op = "copy"      -> [f EXCEPT ![there] = f[here]]

-----------------------------------------------------------------------------
(* The migrations, in the order of lib.rs.                                  *)

create_transaction_table ==
  [up   |-> <<Create("transaction", {"id", "wfm_id", "wfm_url", "item_name", "item_type",
                "item_unique_name", "sub_type", "tags", "transaction_type", "quantity",
                "user_name", "price", "properties", "created_at", "updated_at"})>>,
   down |-> <<DropTable("created_at")>>]   \* the table it names is a column's name

create_stock_item_table ==
  [up   |-> <<Create("stock_item", {"id", "wfm_id", "wfm_url", "item_name", "item_unique_name",
                "sub_type", "bought", "minimum_price", "list_price", "owned", "is_hidden",
                "created_at", "updated_at", "status", "price_history"})>>,
   down |-> <<DropTable("stock_item")>>]

create_stock_riven_table ==
  [up   |-> <<Create("stock_riven", {"id", "wfm_weapon_id", "wfm_weapon_url", "weapon_name",
                "weapon_type", "weapon_unique_name", "sub_type", "mod_name", "attributes",
                "mastery_rank", "re_rolls", "polarity", "bought", "minimum_price", "list_price",
                "filter", "is_hidden", "comment", "status", "price_history", "created_at",
                "updated_at"})>>,
   down |-> <<DropTable("stock_riven")>>]

create_wish_list_table ==
  [up   |-> <<Create("wish_list", {"id", "created_at", "updated_at", "wfm_id", "wfm_url",
                "item_name", "item_unique_name", "sub_type", "quantity", "maximum_price",
                "list_price", "price_history", "status"})>>,
   down |-> <<DropTable("wish_list")>>]

add_hide_wishlist ==
  [up |-> <<Add("wish_list", "is_hidden")>>, down |-> <<Drop("wish_list", "is_hidden")>>]

\* Plausible bug: the column only older files have must be there.
add_uuid_to_stock_riven_Strict ==
  [up   |-> <<Tolerant(Add("stock_riven", "uuid")), Drop("stock_riven", "wfm_order_id")>>,
   down |-> <<Drop("stock_riven", "uuid")>>]

add_uuid_to_stock_riven ==
  [up   |-> <<Tolerant(Add("stock_riven", "uuid")), Tolerant(Drop("stock_riven", "wfm_order_id"))>>,
   down |-> <<Drop("stock_riven", "uuid")>>]

\* The two ADDs are unwrapped: a failure panics instead of being returned.  The
\* two DROPs of "down" are one ALTER, which SQLite's builder refuses.
stock_add_min_profit_sma ==
  [up   |-> <<Add("stock_item", "minimum_profit"), Add("stock_item", "minimum_sma")>>,
   down |-> <<Statement("several", "stock_item", "minimum_profit", "minimum_sma")>>]

add_profit_to_transactions ==
  [up |-> <<Add("transaction", "profit")>>, down |-> <<Drop("transaction", "profit")>>]

create_trade_entry ==
  [up   |-> <<Create("trade_entry", {"id", "wfm_id", "name", "sub_type", "price", "tags",
                "group", "properties", "created_at", "updated_at"})>>,
   down |-> <<DropTable("trade_entry")>>]

create_settings ==
  [up   |-> <<Create("setting", {"id", "key", "value", "created_at", "updated_at"})>>,
   down |-> <<DropTable("setting")>>]

add_wish_minimum_price ==
  [up |-> <<Add("wish_list", "minimum_price")>>, down |-> <<Drop("wish_list", "minimum_price")>>]

add_tra_credits ==
  [up |-> <<Add("transaction", "credits")>>, down |-> <<Drop("transaction", "credits")>>]

add_properties ==
  [up   |-> <<Add("stock_item", "properties"), Add("stock_riven", "properties"),
              Add("wish_list", "properties")>>,
   down |-> <<Drop("stock_riven", "properties"), Drop("stock_item", "properties"),
              Drop("wish_list", "properties")>>]

\* Every limit is copied into the row's properties before any column goes.
ToProperties(t, c) == Statement("json_set", t, c, "properties")

drop_min_price_columns ==
  [up   |-> <<ToProperties("stock_item", "minimum_price"),
              ToProperties("stock_item", "minimum_profit"),
              ToProperties("stock_item", "minimum_sma"),
              ToProperties("wish_list", "maximum_price"),
              ToProperties("wish_list", "minimum_price"),
              ToProperties("stock_riven", "minimum_price"),
              Drop("stock_item", "minimum_price"), Drop("stock_item", "minimum_profit"),
              Drop("stock_item", "minimum_sma"), Drop("stock_riven", "minimum_price"),
              Drop("wish_list", "minimum_price"), Drop("wish_list", "maximum_price")>>,
   down |-> <<Add("stock_item", "minimum_price"), Add("stock_item", "minimum_profit"),
              Add("stock_item", "minimum_sma")>>]

recreate_properties_column(t) ==
  <<Add(t, "properties_new"), Statement("copy", t, "properties", "properties_new"),
    Drop(t, "properties"), Statement("rename", t, "properties_new", "properties")>>

make_properties_nullable ==
  LET both == recreate_properties_column("stock_riven") \o recreate_properties_column("wish_list")
  IN  [up |-> both, down |-> both]

create_wfm_account == [up |-> <<Create("wfm_account", {"id"})>>, down |-> <<DropTable("wfm_account")>>]

create_web_auth == [up |-> <<Create("web_auth", {"id"})>>, down |-> <<DropTable("web_auth")>>]

collector_tables == <<"sweep_state", "sweep_summary", "sweep_summary_hourly", "last_seen_orders",
                      "vanished_orders", "item_stats", "item_stats_daily">>

create_collector_tables ==
  [up   |-> [i \in 1..7 |-> Create(collector_tables[i], {"item_id"})],
   down |-> [i \in 1..7 |-> DropTableIfExists(collector_tables[8 - i])]]

create_trader_tables ==
  [up   |-> <<Create("trader_state", {"id", "helper_override"}), Create("dry_run_log", {"id"})>>,
   down |-> <<DropTableIfExists("dry_run_log"), DropTableIfExists("trader_state")>>]

create_helper_keys ==
  [up |-> <<Create("helper_keys", {"id"})>>, down |-> <<DropTableIfExists("helper_keys")>>]

drop_helper_override ==
  [up   |-> <<Drop("trader_state", "helper_override")>>,
   down |-> <<Add("trader_state", "helper_override")>>]

create_helper_events ==
  [up |-> <<Create("helper_events", {"id"})>>, down |-> <<DropTableIfExists("helper_events")>>]

add_helper_events_alerted_at ==
  [up   |-> <<Add("helper_events", "alerted_at")>>,
   down |-> <<Drop("helper_events", "alerted_at")>>]

create_closed_stats ==
  [up   |-> <<Create("closed_stats_daily", {"item_id"}), Create("closed_fetch_state", {"item_id"})>>,
   down |-> <<DropTableIfExists("closed_fetch_state"), DropTableIfExists("closed_stats_daily")>>]

create_item_trade_tax ==
  [up |-> <<Create("item_trade_tax", {"item_id"})>>, down |-> <<DropTableIfExists("item_trade_tax")>>]

migrations ==
  <<create_transaction_table, create_stock_item_table, create_stock_riven_table,
    create_wish_list_table, add_hide_wishlist, add_uuid_to_stock_riven,
    stock_add_min_profit_sma, add_profit_to_transactions, create_trade_entry, create_settings,
    add_wish_minimum_price, add_tra_credits, add_properties, drop_min_price_columns,
    make_properties_nullable, create_wfm_account, create_web_auth, create_collector_tables,
    create_trader_tables, create_helper_keys, drop_helper_override, create_helper_events,
    add_helper_events_alerted_at, create_closed_stats, create_item_trade_tax>>

-----------------------------------------------------------------------------
(* The columns the program's rows are read with.                            *)

stock_item_Model == {"id", "wfm_id", "wfm_url", "item_name", "item_unique_name", "sub_type",
  "bought", "list_price", "owned", "is_hidden", "status", "price_history", "updated_at",
  "created_at", "properties"}

stock_riven_Model == {"id", "wfm_weapon_id", "wfm_weapon_url", "weapon_name", "weapon_type",
  "weapon_unique_name", "sub_type", "mod_name", "attributes", "mastery_rank", "re_rolls",
  "polarity", "bought", "list_price", "filter", "is_hidden", "comment", "status", "uuid",
  "price_history", "updated_at", "created_at", "properties"}

wish_list_Model == {"id", "wfm_id", "wfm_url", "item_name", "item_unique_name", "sub_type",
  "quantity", "list_price", "price_history", "status", "updated_at", "created_at", "is_hidden",
  "properties"}

transaction_Model == {"id", "wfm_id", "wfm_url", "item_name", "item_type", "item_unique_name",
  "sub_type", "tags", "transaction_type", "quantity", "user_name", "price", "profit", "credits",
  "updated_at", "created_at", "properties"}

trade_entry_Model == {"id", "wfm_id", "name", "sub_type", "price", "group", "tags",
  "updated_at", "created_at", "properties"}

setting_Model == {"id", "key", "value", "updated_at", "created_at"}

Entities == [stock_item |-> stock_item_Model, stock_riven |-> stock_riven_Model,
             wish_list |-> wish_list_Model, transaction |-> transaction_Model,
             trade_entry |-> trade_entry_Model, setting |-> setting_Model]

-----------------------------------------------------------------------------
\* The limits a user can set on a row, named by the column that first held them.
Limits == {<<"stock_item", "minimum_price">>, <<"stock_item", "minimum_profit">>,
           <<"stock_item", "minimum_sma">>, <<"stock_riven", "minimum_price">>,
           <<"wish_list", "maximum_price">>, <<"wish_list", "minimum_price">>}

\* A file of the desktop program this one grew out of: its riven table had a
\* column that create_stock_riven_table no longer creates.
Legacy == With(Run(<<>>, create_stock_riven_table.up[1]), {<<"stock_riven", "wfm_order_id">>}, {})

Init ==
  /\ version \in Releases
  /\ phase = "off" /\ applied = 0 /\ at = 1
  /\ db \in {<<>>, Legacy} /\ backup = <<>>
  /\ saved = {} /\ interrupted = FALSE /\ undone = FALSE

Install == \* a newer release is put in place
  /\ phase = "off"
  /\ version' \in {r \in Releases : r > version}
  /\ UNCHANGED <<phase, applied, at, db, backup, saved, interrupted, undone>>

\* An existing file is copied over the previous copy before anything else.
connect ==
  /\ phase = "off"
  /\ phase' = "starting" /\ at' = 1 /\ backup' = db
  /\ UNCHANGED <<version, applied, db, saved, interrupted, undone>>

Statements ==
  IF phase = "undoing" THEN migrations[applied].down ELSE migrations[applied + 1].up

Busy == phase = "undoing" \/ (phase = "starting" /\ applied < version)

Execute ==
  /\ Busy /\ at <= Len(Statements)
  /\ LET s == Statements[at] IN
     IF Succeeds(db, s)
     THEN db' = Run(db, s) /\ at' = at + 1 /\ UNCHANGED phase
     ELSE /\ IF s.tolerant THEN at' = at + 1 /\ UNCHANGED phase
                           ELSE phase' = "failed" /\ UNCHANGED at
          /\ UNCHANGED db
  /\ UNCHANGED <<version, applied, backup, saved, interrupted, undone>>

Noted == \* the row of seaql_migrations, written after the last statement
  /\ Busy /\ at > Len(Statements)
  /\ at' = 1
  /\ IF phase = "undoing" THEN applied' = applied - 1 /\ phase' = "off"
                          ELSE applied' = applied + 1 /\ UNCHANGED phase
  /\ UNCHANGED <<version, db, backup, saved, interrupted, undone>>

Ready ==
  /\ phase = "starting" /\ applied = version
  /\ phase' = "ready"
  /\ UNCHANGED <<version, applied, at, db, backup, saved, interrupted, undone>>

\* The user sets limits: in their columns while the release has them, in the
\* properties of the row afterwards.
Home(l) == IF l \in DOMAIN db THEN l ELSE <<l[1], "properties">>
Save ==
  /\ phase = "ready"
  /\ LET kept == {l \in Limits : Home(l) \in DOMAIN db} IN
     /\ kept \ saved /= {}
     /\ saved' = saved \cup kept
     /\ db' = [x \in DOMAIN db |-> db[x] \cup {l \in kept : Home(l) = x}]
  /\ UNCHANGED <<version, phase, applied, at, backup, interrupted, undone>>

Stop ==
  /\ phase \in {"ready", "failed"}
  /\ phase' = "off"
  /\ UNCHANGED <<version, applied, at, db, backup, saved, interrupted, undone>>

Crash ==
  /\ phase \in {"starting", "undoing"}
  /\ phase' = "off"
  /\ interrupted' = (interrupted \/ at > 1)
  /\ UNCHANGED <<version, applied, at, db, backup, saved, undone>>

\* The migration tool (migration/src/main.rs) undoes the newest migration.
Down ==
  /\ phase = "off" /\ ~undone /\ applied > 0
  /\ phase' = "undoing" /\ at' = 1 /\ undone' = TRUE
  /\ UNCHANGED <<version, applied, db, backup, saved, interrupted>>

Next == Install \/ connect \/ Execute \/ Noted \/ Ready \/ Save \/ Stop \/ Crash \/ Down

Spec == Init /\ [][Next]_vars

-----------------------------------------------------------------------------
\* Whatever release the file comes from and wherever a start dies, the limits
\* the user set are still in it: moving them out of their columns never has a
\* moment when they are nowhere.
LimitsSurvive ==
  ~undone => \A l \in saved : \E x \in DOMAIN db : x[1] = l[1] /\ l \in db[x]

\* Every release upgrades every earlier one, and a file of the desktop program:
\* a start fails only where an earlier one died inside a migration (its ADDs and
\* DROPs cannot be run twice) or the operator went back.
OnlyInterruptedStartsFail ==
  phase = "failed" => interrupted \/ undone

\* A started server of the last release finds every column its rows are read with.
RowsFitTheTables ==
  phase = "ready" /\ version = Len(migrations) /\ ~undone
    => \A t \in DOMAIN Entities : Entities[t] \subseteq ColumnsOf(db, t)

-----------------------------------------------------------------------------
(* Why it holds.  A file f is at position p: a hundred for each migration noted, and in *)
(* a start the statement that runs next.  It is fresh as long as no start died inside   *)
(* a migration; cs are the columns of one of its tables.                                *)

Position == 100 * applied + (IF phase = "starting" THEN at ELSE 1)

\* Columns a table is made with and keeps.
Base == [stock_item |-> stock_item_Model \ {"properties"},
         stock_riven |-> stock_riven_Model \ {"properties", "uuid"},
         wish_list |-> wish_list_Model \ {"properties", "is_hidden"},
         transaction |-> transaction_Model \ {"profit", "credits"},
         trade_entry |-> trade_entry_Model, setting |-> setting_Model]

\* What was created or added is there, also after starts that died.  In a fresh file
\* columns to be added are not there yet, and those to be dropped still are.
Made(t, cs, p, from) == p > from \/ cs # {} => Base[t] \subseteq cs
Alive(c, cs, p, from, till) == from < p /\ p <= till => c \in cs
Unborn(c, cs, p, from) == p <= from => c \notin cs

StockItems(cs, p, fresh) ==
  /\ Made("stock_item", cs, p, 101)
  /\ p > 1201 => "properties" \in cs
  /\ fresh => /\ ((p > 101 \/ cs # {}) /\ p <= 1307 => "minimum_price" \in cs)
              /\ Alive("minimum_profit", cs, p, 601, 1308) /\ Unborn("minimum_profit", cs, p, 601)
              /\ Alive("minimum_sma", cs, p, 602, 1309) /\ Unborn("minimum_sma", cs, p, 602)
              /\ Unborn("properties", cs, p, 1201)

StockRivens(cs, p, fresh) ==
  /\ Made("stock_riven", cs, p, 201)
  /\ p > 501 => "uuid" \in cs
  /\ p > 1404 => "properties" \in cs
  /\ fresh => /\ ((p > 201 \/ cs # {}) /\ p <= 1310 => "minimum_price" \in cs)
              /\ Alive("properties", cs, p, 1202, 1403) /\ Unborn("properties", cs, p, 1202)
              /\ (p = 1404 => "properties" \notin cs)
              /\ Alive("properties_new", cs, p, 1401, 1404) /\ Unborn("properties_new", cs, p, 1401)

WishLists(cs, p, fresh) ==
  /\ Made("wish_list", cs, p, 301)
  /\ p > 401 => "is_hidden" \in cs
  /\ p > 1408 => "properties" \in cs
  /\ fresh => /\ ((p > 301 \/ cs # {}) /\ p <= 1312 => "maximum_price" \in cs)
              /\ Unborn("is_hidden", cs, p, 401)
              /\ Alive("minimum_price", cs, p, 1001, 1311) /\ Unborn("minimum_price", cs, p, 1001)
              /\ Alive("properties", cs, p, 1203, 1407) /\ Unborn("properties", cs, p, 1203)
              /\ (p = 1408 => "properties" \notin cs)
              /\ Alive("properties_new", cs, p, 1405, 1408) /\ Unborn("properties_new", cs, p, 1405)

Transactions(cs, p, fresh) ==
  /\ Made("transaction", cs, p, 1)
  /\ p > 701 => "profit" \in cs
  /\ p > 1101 => "credits" \in cs
  /\ fresh => Unborn("profit", cs, p, 701) /\ Unborn("credits", cs, p, 1101)

TraderStates(cs, p, fresh) ==
  fresh => ((p > 1801 \/ cs # {}) /\ p <= 2001 => "helper_override" \in cs)

HelperEvents(cs, p, fresh) ==
  fresh => (p > 2101 => cs # {}) /\ Unborn("alerted_at", cs, p, 2201)

TradeEntries(cs, p) == Made("trade_entry", cs, p, 801)

Settings(cs, p) == Made("setting", cs, p, 901)

ColumnsAreThere(f, p, fresh) ==
  /\ StockItems(ColumnsOf(f, "stock_item"), p, fresh)
  /\ StockRivens(ColumnsOf(f, "stock_riven"), p, fresh)
  /\ WishLists(ColumnsOf(f, "wish_list"), p, fresh)
  /\ Transactions(ColumnsOf(f, "transaction"), p, fresh)
  /\ TraderStates(ColumnsOf(f, "trader_state"), p, fresh)
  /\ HelperEvents(ColumnsOf(f, "helper_events"), p, fresh)
  /\ TradeEntries(ColumnsOf(f, "trade_entry"), p)
  /\ Settings(ColumnsOf(f, "setting"), p)

\* A limit the user set is in its own column, or in its row's properties, or in the
\* column that is about to take their place.
Properties(t) == <<t, "properties">>
Replacing(t) == <<t, "properties_new">>
StillThere(f, l) ==
  \E x \in {l, Properties(l[1]), Replacing(l[1])} : x \in DOMAIN f /\ l \in f[x]

\* From the statement that copies a limit on, the properties have what its column has.
CopiedAt(l) ==
  CASE l = <<"stock_item", "minimum_price">>  -> 1301
    [] l = <<"stock_item", "minimum_profit">> -> 1302
    [] l = <<"stock_item", "minimum_sma">>    -> 1303
    [] l = <<"wish_list", "maximum_price">>   -> 1304
    [] l = <<"wish_list", "minimum_price">>   -> 1305
    [] OTHER                                  -> 1306
Copied(f, l) == Properties(l[1]) \in DOMAIN f /\ f[l] \subseteq f[Properties(l[1])]
CopiedBeforeDropped(f, p) ==
  \A l \in Limits : CopiedAt(l) < p /\ p <= 1313 /\ l \in DOMAIN f => Copied(f, l)

\* A replacing column starts empty and takes over what the properties have before they go.
Replaces(f, t, p, from) ==
  /\ p = from + 1 => Replacing(t) \in DOMAIN f /\ f[Replacing(t)] = {}
  /\ p = from + 2 => /\ Replacing(t) \in DOMAIN f
                     /\ Properties(t) \in DOMAIN f => f[Properties(t)] \subseteq f[Replacing(t)]

LimitsAreThere(f, limits, p) ==
  /\ \A l \in limits : StillThere(f, l)
  /\ CopiedBeforeDropped(f, p)
  /\ Replaces(f, "stock_riven", p, 1401) /\ Replaces(f, "wish_list", p, 1405)

IsFile(f) == f = [x \in DOMAIN f |-> f[x]] /\ \A x \in DOMAIN f : x = <<x[1], x[2]>>

SchemaTypes ==
  /\ phase \in {"off", "starting", "failed", "ready"}
  /\ version \in 0..25 /\ applied \in 0..version
  /\ at \in 1..13
  /\ interrupted \in BOOLEAN
  /\ phase = "ready" => applied = version
  /\ phase = "starting" /\ applied = version => at = 1
  /\ phase = "starting" /\ applied < version => at <= Len(migrations[applied + 1].up) + 1
  /\ IsFile(db)
  /\ saved \subseteq Limits

\* Until the operator goes back, the file is what the migrations up to its position made of it.
SchemaInv ==
  ~undone =>
    /\ SchemaTypes
    /\ ColumnsAreThere(db, Position, ~interrupted)
    /\ LimitsAreThere(db, saved, Position)
    /\ OnlyInterruptedStartsFail
=============================================================================
