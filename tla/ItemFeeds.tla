------------------------------- MODULE ItemFeeds -------------------------------
(***************************************************************************)
(* The collector's slow feeds, one item at a time through the cold lane:     *)
(* closed-trade statistics, refreshed once a day (collector/closed.rs), and   *)
(* the trade tax, fetched once per item (trade_tax.rs); and the backfill a    *)
(* user starts by hand (backfill.rs).                                         *)
(*                                                                            *)
(* Times are kept as what the code asks of them: whether a fetch is older     *)
(* than the daily cutoff, whether a failure is older than the retry delay,    *)
(* and the order of the fetches.  An hour has room for PerHour requests of a  *)
(* feed (CLOSED_PACE_S, TAX_PACE_S and the retries); nothing says that this is *)
(* enough for all that is due.                                                *)
(***************************************************************************)
EXTENDS Integers, Sequences, FiniteSets

CONSTANTS
  Items,   \* active items, ordered by id (numbers)
  hot,     \* the collector's hot items
  PerHour  \* requests a feed has room for in an hour: at most 360, one in 10 s

ASSUME FeedsAssumption ==
  Items \subseteq Nat /\ IsFiniteSet(Items) /\ hot \subseteq Items /\ PerHour \in Nat \ {0}

VARIABLES
  fetch,    \* closed_fetch_state: outcome, since the cutoff?, since the retry delay?
  order,    \* items with a fetch, oldest fetch first
  closed,   \* the closed-statistics loop: the item it fetches, and whether it began since the cutoff
  tax,      \* items in item_trade_tax
  deferred, \* DEFERRED: until when an item is set aside
  taxing,   \* the item whose tax is being fetched
  backfill, \* BackfillStatus, the items the run has left, and its task
  feed,     \* the loop that is followed: the two share nothing but the clock (no part of the code)
  asked     \* its requests of this hour, up to PerHour (no part of the code)

feeds == <<fetch, order, closed, tax, deferred, taxing, backfill, feed, asked>>

Nothing == [item |-> 0, fresh |-> FALSE]
Unfetched == [outcome |-> "none", fresh |-> FALSE, rested |-> FALSE]

\* What a request ends with after its retries; "bad" is an answer that does not parse.
Answers == {"ok", "bad", "not_found", "blocked", "transient"}

FeedsInit ==
  /\ fetch = [i \in Items |-> Unfetched]
  /\ order = <<>>
  /\ closed = Nothing
  /\ tax = {}
  /\ deferred = [i \in Items |-> "no"]
  /\ taxing = 0
  /\ backfill = [state |-> "idle", left |-> {}, task |-> "none"]
  /\ feed \in {"closed", "tax"} /\ asked = 0

Asks == asked' = IF asked < PerHour THEN asked + 1 ELSE asked

-----------------------------------------------------------------------------
(* Closed statistics *)

\* Never fetched, fetched before the cutoff, or failed more than FAILED_RETRY ago.
Stale_FailedAtOnce(i) == ~fetch[i].fresh \/ fetch[i].outcome = "failed"
Stale(i) == ~fetch[i].fresh \/ (fetch[i].outcome = "failed" /\ fetch[i].rested)

\* Never fetched first, then the oldest fetch, then the id.
Position(i) == CHOOSE k \in DOMAIN order : order[k] = i
Before(i, j) ==
  IF fetch[i].outcome = "none" \/ fetch[j].outcome = "none"
  THEN fetch[i].outcome = "none" /\ (fetch[j].outcome # "none" \/ i < j)
  ELSE Position(i) < Position(j)

First(ids, Less(_, _)) == CHOOSE i \in ids : \A j \in ids \ {i} : Less(i, j)

\* The hot items of a list, if there are any: its first one is taken.
pick(ids) == IF ids \cap hot # {} THEN ids \cap hot ELSE ids

stale_items == {i \in Items : Stale(i)}

\* refresh_once up to its request: now is read before.
StartRefresh ==
  /\ feed = "closed" /\ closed = Nothing
  /\ stale_items # {}
  /\ closed' = [item |-> First(pick(stale_items), Before), fresh |-> TRUE]
  /\ UNCHANGED <<fetch, order, tax, deferred, taxing, backfill, feed, asked>>

\* set_fetch_state with the time at: the item moves behind all that were fetched before.
SetFetchState(i, outcome, fresh) ==
  /\ fetch' = [fetch EXCEPT ![i] = [outcome |-> outcome, fresh |-> fresh, rested |-> FALSE]]
  /\ order' = Append(SelectSeq(order, LAMBDA j : j # i), i)

OutcomeOf(answer) ==
  CASE answer = "ok" -> "ok" [] answer = "not_found" -> "missing" [] OTHER -> "failed"

\* A block is no attempt: nothing is written and the item stays stale.  What the
\* cutoff overtook is due again at once, and is not counted.
refresh_once(answer) ==
  /\ closed # Nothing
  /\ IF answer = "blocked" THEN UNCHANGED <<fetch, order>>
     ELSE SetFetchState(closed.item, OutcomeOf(answer), closed.fresh)
  /\ IF answer # "blocked" /\ closed.fresh THEN Asks ELSE UNCHANGED asked
  /\ closed' = Nothing
  /\ UNCHANGED <<tax, deferred, taxing, backfill, feed>>

-----------------------------------------------------------------------------
(* Trade tax *)

ById(i, j) == i < j
missing_items == {i \in Items \ tax : deferred[i] = "no"}

StartTax ==
  /\ feed = "tax" /\ taxing = 0
  /\ missing_items # {}
  /\ taxing' = First(pick(missing_items), ById)
  /\ UNCHANGED <<fetch, order, closed, tax, deferred, backfill, feed, asked>>

\* A 404 or an unparsable answer sets the item aside for the run, a transient failure for an hour.
SetAside(answer) ==
  CASE answer \in {"bad", "not_found"} -> "run" [] answer = "transient" -> "hour" [] OTHER -> "no"

fetch_once(answer) ==
  /\ taxing # 0
  /\ tax' = IF answer = "ok" THEN tax \cup {taxing} ELSE tax
  /\ deferred' = [deferred EXCEPT ![taxing] = SetAside(answer)]
  /\ IF answer # "blocked" THEN Asks ELSE UNCHANGED asked
  /\ taxing' = 0
  /\ UNCHANGED <<fetch, order, closed, backfill, feed>>

-----------------------------------------------------------------------------
(* The clock *)

\* What an hour makes of a failure: both feeds may ask again.
Later == deferred' = [i \in Items |-> IF deferred[i] = "hour" THEN "no" ELSE deferred[i]]

Hour ==
  /\ Later /\ asked' = 0
  /\ fetch' = [i \in Items |-> [fetch[i] EXCEPT !.rested = (fetch[i].outcome = "failed")]]
  /\ UNCHANGED <<order, closed, tax, taxing, backfill, feed>>

\* 08:30 UTC ends an hour too: every fetch so far, and the one under way, is before the cutoff.
Cutoff ==
  /\ \E i \in Items : fetch[i].fresh
  /\ Later /\ asked' = 0
  /\ fetch' = [i \in Items |-> [fetch[i] EXCEPT !.rested = (fetch[i].outcome = "failed"), !.fresh = FALSE]]
  /\ closed' = [closed EXCEPT !.fresh = FALSE]
  /\ UNCHANGED <<order, tax, taxing, backfill, feed>>

-----------------------------------------------------------------------------
(* Backfill *)

Rest == <<closed, tax, deferred, taxing, feed, asked>>

\* A start is refused while a run is on; the status says Running before the task exists.
Refused == backfill.state = "running"
start ==
  /\ feed = "closed" /\ ~Refused
  /\ \E items \in {Items, {}} : backfill' = [state |-> "running", left |-> items, task |-> "run"]
  /\ UNCHANGED <<fetch, order, Rest>>

\* One item of the run; the daily rows are inserted first, then the closed ones, then the fetch state.
BackfillItem(i, answer) ==
  /\ backfill.task = "run"
  /\ i \in backfill.left
  /\ IF answer = "ok" THEN SetFetchState(i, "ok", TRUE) ELSE UNCHANGED <<fetch, order>>
  /\ backfill' = [backfill EXCEPT !.left = @ \ {i}]
  /\ UNCHANGED Rest

\* The run ends: nothing left, or nothing to begin with (an empty item list fails).
RunEnds ==
  /\ backfill.task = "run"
  /\ backfill.left = {}
  /\ \E s \in {"done", "failed"} : backfill' = [backfill EXCEPT !.state = s, !.task = "none"]
  /\ UNCHANGED <<fetch, order, Rest>>

\* The run panics; watch, which awaits it, then says so.
RunPanics ==
  /\ backfill.task = "run"
  /\ backfill' = [backfill EXCEPT !.task = "dead", !.left = {}]
  /\ UNCHANGED <<fetch, order, Rest>>

Reported_OnlyLogs(b) == [b EXCEPT !.task = "none"]
Reported(b) == [b EXCEPT !.state = "failed", !.task = "none"]
watch ==
  /\ backfill.task = "dead"
  /\ backfill' = Reported(backfill)
  /\ UNCHANGED <<fetch, order, Rest>>

\* The server restarts: only the tables are left.
Restart ==
  /\ closed # Nothing \/ taxing # 0 \/ backfill.state = "running" \/ \E i \in Items : deferred[i] # "no"
  /\ closed' = Nothing
  /\ deferred' = [i \in Items |-> "no"]
  /\ taxing' = 0
  /\ backfill' = [state |-> "idle", left |-> {}, task |-> "none"]
  /\ UNCHANGED <<fetch, order, tax, feed, asked>>

FeedsNext ==
  \/ StartRefresh \/ StartTax \/ Cutoff \/ Hour \/ Restart
  \/ \E a \in Answers : refresh_once(a) \/ fetch_once(a)
  \/ start \/ RunEnds \/ RunPanics \/ watch
  \/ \E i \in Items, a \in Answers : BackfillItem(i, a)

Answered == Answers \ {"blocked"}

(***************************************************************************)
(* The loops go on for ever and are blocked at most for a while; every       *)
(* answer but a block may be the only one an item ever gets.                 *)
(***************************************************************************)
FeedsFairness ==
  /\ WF_feeds(StartRefresh) /\ WF_feeds(StartTax)
  /\ SF_feeds(\E a \in Answered : refresh_once(a))
  /\ SF_feeds(\E a \in Answered : fetch_once(a))
  /\ WF_feeds(\E i \in Items, a \in Answers : BackfillItem(i, a)) /\ WF_feeds(RunEnds) /\ WF_feeds(watch)

FeedsSpec == FeedsInit /\ [][FeedsNext]_feeds /\ FeedsFairness

-----------------------------------------------------------------------------
(* Properties *)

\* An hour ends when its requests are made or nothing is due; all that is due need not have been asked for.
HoursHaveRoom ==
  Hour \/ Cutoff => asked = PerHour \/ (feed = "closed" /\ stale_items = {}) \/ (feed = "tax" /\ missing_items = {})

\* However slow the pace, no item waits for ever behind others that keep failing, once the server is
\* no longer restarted: while an hour has room for one more request than there are hot items, which
\* come first, the closed statistics of each item are asked for after every cutoff (closed.rs,
\* stale_items and pick); and while an hour has room for more requests than fail in it, the tax of
\* each item is known or it is set aside (trade_tax.rs, fetch_once).
EveryItemIsTried ==
  <>[][~Restart /\ HoursHaveRoom]_feeds =>
    /\ feed = "closed" /\ Cardinality(hot) < PerHour =>
         \A i \in Items : []<>(fetch[i].fresh \/ closed.item = i)
    /\ feed = "tax" /\ <>[](Cardinality({j \in Items : deferred[j] = "hour"}) < PerHour) =>
         \A i \in Items : []<>(i \in tax \/ taxing = i \/ deferred[i] # "no")

\* A backfill that says Running ends: it is done, or watch reports that it died.  Otherwise every
\* later start would be refused until the server restarts (backfill.rs, watch).
BackfillEnds == backfill.state = "running" ~> backfill.state # "running"
=============================================================================
