---------------------------- MODULE TradeResolve ----------------------------
(***************************************************************************)
(* From the names a trade window shows to lines the stock can be changed   *)
(* by (helper_link/trades: resolve.rs, sets.rs, split.rs and resolve_event *)
(* of mod.rs).  The names are looked up, complete sets of parts are folded *)
(* into the set item, and the platinum is split over the lines.  What a    *)
(* set is made of is fetched from the market once and kept in memory and   *)
(* in a file: fetches fail, the item list may be out of date, and the      *)
(* server may stop between two steps.                                      *)
(***************************************************************************)
EXTENDS Integers, Sequences, FiniteSets, FiniteSetsExt, SequencesExt

CONSTANTS
  Items,       \* the market's items, by slug
  SetParts,    \* set root -> (part -> how many the set needs), as the market has it
  NameOf,      \* in-game name -> slug of the item of that English name
  OverrideOf,  \* in-game name -> slug, the [names] table of overrides.toml
  Trades,      \* trades reported: [offered, received], lines of [name, quantity]
  UnitPrices,  \* unit prices an own order or the collector's median may give
  Indexes      \* item lists the cache may hold when a trade arrives

VARIABLES
  memory,      \* SetCache::parts: root -> (part -> quantity)
  file,        \* sets_v2.json
  pc,          \* idle | sets | save | fold | price
  trade,       \* the trade being resolved
  index,       \* the item list it is resolved with
  roots,       \* candidate sets not looked at yet
  fetched,     \* some list was fetched for this trade
  items,       \* its lines so far: [slug, quantity, price]
  reason       \* why it goes to review: None when it can be applied

vars == <<memory, file, pc, trade, index, roots, fetched, items, reason>>

Roots == DOMAIN SetParts

-----------------------------------------------------------------------------
(* Classification and names.                                                *)

PLATINUM == "Platinum"
Lines(s) == 1..Len(s)
SumAt(f, S) == MapThenSumSet(LAMBDA i : f[i], S)
Quantities(s) == [i \in Lines(s) |-> s[i].quantity]

\* The lines at the places J, in their order.
LinesAt(s, J) ==
  LET at == CHOOSE f \in SetToSeqs(J) : \A i, j \in DOMAIN f : i < j => f[i] < f[j]
  IN  [k \in DOMAIN at |-> s[at[k]]]

platinum_of(s) == SumAt(Quantities(s), {i \in Lines(s) : s[i].name = PLATINUM})
without_platinum(s) == LinesAt(s, {i \in Lines(s) : s[i].name /= PLATINUM})

\* Exactly one side pays; the goods are the other side's.
classify(t) ==
  LET offered == platinum_of(t.offered) received == platinum_of(t.received) IN
  CASE offered > 0 /\ received = 0 ->
         [direction |-> "purchase", platinum |-> offered, goods |-> without_platinum(t.received)]
    [] offered = 0 /\ received > 0 ->
         [direction |-> "sale", platinum |-> received, goods |-> without_platinum(t.offered)]
    [] OTHER -> [direction |-> "none", platinum |-> 0, goods |-> <<>>]

None == "none"
\* The English name first, then overrides.toml; both need the item in the list.
slug_of(name, known) ==
  CASE name \in DOMAIN NameOf /\ NameOf[name] \in known -> NameOf[name]
    [] ~(name \in DOMAIN NameOf /\ NameOf[name] \in known)
         /\ name \in DOMAIN OverrideOf /\ OverrideOf[name] \in known -> OverrideOf[name]
    [] OTHER -> None

resolved(raw, known) == [slug |-> slug_of(raw.name, known), quantity |-> raw.quantity, price |-> 0]

Unresolved(goods, known) == {i \in Lines(goods) : slug_of(goods[i].name, known) = None}
resolve_trade(goods, known) ==
  LinesAt([i \in Lines(goods) |-> resolved(goods[i], known)], Lines(goods) \ Unresolved(goods, known))

-----------------------------------------------------------------------------
(* Sets.                                                                    *)

\* Sets whose name begins the name of at least two lines: here, their parts'.
set_candidates(ls, known) ==
  {r \in Roots \cap known :
     Cardinality({i \in Lines(ls) : ls[i].slug \in DOMAIN SetParts[r]}) >= 2}

\* A part that is not in the item list, or whose quantity cannot be fetched, fails
\* the whole root.
parse_set_parts(r, known) == IF DOMAIN SetParts[r] \subseteq known THEN DOMAIN SetParts[r] ELSE {}

\* Plausible bug: a part whose quantity could not be fetched counts as one.
assemble_One(r, parts, failed) == {[p \in parts |-> IF p \in failed THEN 1 ELSE SetParts[r][p]]}

assemble(r, parts, failed) ==
  IF parts \cap failed = {} THEN {[p \in parts |-> SetParts[r][p]]} ELSE {}

UnitsOf(ls, slug) == SumAt(Quantities(ls), {i \in Lines(ls) : ls[i].slug = slug})

\* Complete sets leave their parts: from the first line of a part to the last.
TakenFrom(ls, i, n) ==
  LET before == SumAt(Quantities(ls), {j \in Lines(ls) : j < i /\ ls[j].slug = ls[i].slug})
      left   == IF n > before THEN n - before ELSE 0
  IN  Min({left, ls[i].quantity})

fold_root(ls, r, parts) ==
  LET sets == IF DOMAIN parts = {} THEN 0
              ELSE Min({UnitsOf(ls, p) \div parts[p] : p \in DOMAIN parts})
      less == [i \in Lines(ls) |->
                 IF ls[i].slug \in DOMAIN parts
                 THEN [ls[i] EXCEPT !.quantity = @ - TakenFrom(ls, i, sets * parts[ls[i].slug])]
                 ELSE ls[i]]
  IN  IF sets = 0 THEN ls
      ELSE Append(LinesAt(less, {i \in Lines(ls) : less[i].quantity > 0}),
                  [slug |-> r, quantity |-> sets, price |-> 0])

-----------------------------------------------------------------------------
(* The platinum of one trade over its lines.                                *)

Sum(s) == SumAt(s, DOMAIN s)

\* A weight that is missing or zero (0 here) counts as the mean of the others;
\* all weights are scaled by the number of known ones to stay whole.
Filled(weights) ==
  LET known == {i \in Lines(weights) : weights[i] > 0}
      total == SumAt(weights, known)
  IN  [i \in Lines(weights) |-> CASE known = {}     -> 1
                                  [] weights[i] > 0 -> weights[i] * Cardinality(known)
                                  [] OTHER          -> total]

\* Shares rounded down, the rest handed out one by one from the first line on.
split_platinum(total, weights) ==
  LET n      == Len(weights)
      filled == Filled(weights)
      floor  == [i \in 1..n |-> (total * filled[i]) \div Sum(filled)]
      rest   == total - Sum(floor)
  IN  [i \in 1..n |-> floor[i] + Cardinality({k \in 0..(rest - 1) : k % n = i - 1})]

\* A line weighs its unit price (own order, else median) times its quantity.
weights_for(ls, unit) == [i \in Lines(ls) |-> unit[i] * ls[i].quantity]

price_items(ls, total, weights) ==
  IF ls = <<>> THEN ls
  ELSE [i \in Lines(ls) |-> [ls[i] EXCEPT !.price = split_platinum(total, weights)[i]]]

\* What the user's own order or, failing that, item_stats says a line is worth: 0
\* when neither says anything.
unit_prices(ls) == [Lines(ls) -> UnitPrices]

\* The cached item list: empty when the cache cannot be read.
tradable_items == Indexes

-----------------------------------------------------------------------------
NoTrade == [offered |-> <<>>, received |-> <<>>]

Init ==
  /\ memory = <<>> /\ file = <<>> /\ pc = "idle"
  /\ trade = NoTrade /\ index = {} /\ roots = {} /\ fetched = FALSE
  /\ items = <<>> /\ reason = "none yet"

\* resolve_event up to its first await.
resolve_event(t, known) ==
  LET c == classify(t) ls == resolve_trade(c.goods, known) IN
  /\ pc = "idle" /\ reason = "none yet"
  /\ trade' = t /\ index' = known /\ fetched' = FALSE
  /\ IF c.direction = "none"
     THEN reason' = "no_platinum_side" /\ items' = <<>> /\ roots' = {} /\ pc' = "idle"
     ELSE /\ items' = ls /\ roots' = set_candidates(ls, known)
          /\ pc' = IF roots' = {} THEN "price" ELSE "sets"
          /\ reason' = "none yet"
  /\ UNCHANGED <<memory, file>>

\* One unknown root: its list, then the quantity of every part, each a request
\* that may fail; an empty list is not kept.
Fetch(r, listed, failed) ==
  /\ pc = "sets" /\ r \in roots /\ r \notin DOMAIN memory
  /\ roots' = roots \ {r}
  /\ LET parts == IF listed THEN parse_set_parts(r, index) ELSE {}
         whole == {m \in assemble(r, parts, failed) : parts /= {}}
     IN /\ memory' = [x \in DOMAIN memory \cup {y \in {r} : whole /= {}} |->
                        IF x = r THEN CHOOSE m \in whole : TRUE ELSE memory[x]]
        /\ fetched' = (fetched \/ whole /= {})
  /\ UNCHANGED <<file, pc, trade, index, items, reason>>

Known(r) ==
  /\ pc = "sets" /\ r \in roots /\ r \in DOMAIN memory
  /\ roots' = roots \ {r}
  /\ UNCHANGED <<memory, file, pc, trade, index, fetched, items, reason>>

\* The file is written beside and renamed over: it is the old or the new one.  A
\* failure to write is only logged.
save(written) ==
  /\ pc = "sets" /\ roots = {}
  /\ pc' = "fold"
  /\ file' = IF fetched /\ written THEN memory ELSE file
  /\ UNCHANGED <<memory, trade, index, roots, fetched, items, reason>>

\* The candidates whose parts are known are folded one after the other, in the order
\* of their slugs: here in any order.
fold_sets(order) ==
  /\ pc = "fold"
  /\ items' = FoldLeft(LAMBDA ls, r : fold_root(ls, r, memory[r]), items, order)
  /\ pc' = "price"
  /\ UNCHANGED <<memory, file, trade, index, roots, fetched, reason>>

price(unit, auto_trade) ==
  /\ pc = "price"
  /\ LET c == classify(trade) IN
     /\ items' = price_items(items, c.platinum, weights_for(items, unit))
     /\ reason' = CASE Unresolved(c.goods, index) /= {} -> "unresolved"
                    [] Unresolved(c.goods, index) = {} /\ items = <<>> -> "no_goods"
                    [] Unresolved(c.goods, index) = {} /\ items /= <<>> /\ ~auto_trade -> "auto_trade_off"
                    [] OTHER -> None
  /\ pc' = "idle"
  /\ UNCHANGED <<memory, file, trade, index, roots, fetched>>

\* What resolve_event returned is recorded; nothing of the trade is kept here.
Handed ==
  /\ pc = "idle" /\ reason /= "none yet"
  /\ trade' = NoTrade /\ index' = {} /\ fetched' = FALSE /\ items' = <<>> /\ reason' = "none yet"
  /\ UNCHANGED <<memory, file, pc, roots>>

Restart ==
  /\ memory' = file /\ pc' = "idle" /\ trade' = NoTrade /\ index' = {} /\ roots' = {}
  /\ fetched' = FALSE /\ items' = <<>> /\ reason' = "none yet"
  /\ UNCHANGED file

Next ==
  \/ \E t \in Trades, known \in tradable_items : resolve_event(t, known)
  \/ \E r \in Roots : Known(r) \/ \E listed \in BOOLEAN, failed \in SUBSET Items : Fetch(r, listed, failed)
  \/ \E written \in BOOLEAN : save(written)
  \/ \E order \in SetToSeqs({r \in set_candidates(items, index) : r \in DOMAIN memory}) : fold_sets(order)
  \/ \E unit \in unit_prices(items), auto_trade \in BOOLEAN : price(unit, auto_trade)
  \/ Handed
  \/ Restart

Spec == Init /\ [][Next]_vars

-----------------------------------------------------------------------------
\* The units of an item a trade moved, by the names the market knows.
Traded(t, slug) ==
  LET goods == classify(t).goods
  IN  SumAt(Quantities(goods), {i \in Lines(goods) : slug_of(goods[i].name, Items) = slug})

\* The units of an item its lines stand for, a set's lines for its parts.
Needed(r, slug) == IF slug \in DOMAIN SetParts[r] THEN SetParts[r][slug] ELSE 0
Unfolded(ls, slug) ==
  UnitsOf(ls, slug) + SumAt([r \in Roots |-> UnitsOf(ls, r) * Needed(r, slug)], Roots)

\* A trade that is applied without review changes the stock by exactly what was
\* traded: a set stands for all its parts, in the numbers the market says, whatever
\* fetches failed before and whatever the server remembered over a restart.
SetsStandForTheirParts ==
  reason = None => \A slug \in Items \ Roots : Unfolded(items, slug) = Traded(trade, slug)

\* The platinum paid is what the lines of the trade cost together, none less than nothing.
PlatinumIsSplit ==
  reason \in {None, "auto_trade_off", "unresolved"} /\ items /= <<>> =>
    /\ Sum([i \in Lines(items) |-> items[i].price]) = classify(trade).platinum
    /\ \A i \in Lines(items) : items[i].price >= 0
=============================================================================
