------------------------------- MODULE Rollups -------------------------------
(***************************************************************************)
(* The collector's periodic jobs (collector/maintenance.rs and its loop in *)
(* runner.rs): vanishes are resolved, raw sweep summaries are rolled up by *)
(* the hour and trades by the day, and raw rows past their retention are   *)
(* deleted.  A pass uses the clock it began with; any statement may fail   *)
(* and ends its pass; the server may be down for a while.  Time is hours.  *)
(***************************************************************************)
EXTENDS Naturals, Integers, FiniteSets

CONSTANTS
  Summaries, Vanishes,    \* rows that may be written
  LastHour,               \* bound: the last hour of the model
  MaxOutage,              \* bound: hours without a completed pass
  DayHours,               \* 24
  RollupHours, RollupDays, \* rollup_hourly: 48; rollup_daily: 2
  RelistWindow,           \* 2
  SummaryRetention, VanishedRetention \* 30 and 90 days, in hours

VARIABLES
  now, finished,          \* the clock, and that of the last pass with no failure
  pass,                   \* [pc, now, whole]: the running pass, its clock, whether all was resolved
  raw,                    \* rows of sweep_summary: id -> hour
  vanished,               \* rows of vanished_orders: id -> [at, status]
  hourly, daily,          \* the rollups: hour or day -> ids its row was made from
  summaries_deleted, vanished_deleted \* history: rows retention removed

vars == <<now, finished, pass, raw, vanished, hourly, daily, summaries_deleted, vanished_deleted>>

Idle == [pc |-> "idle", now |-> 0, whole |-> TRUE]
Day(t) == t \div DayHours
Put(f, k, v) == [x \in DOMAIN f \cup {k} |-> IF x = k THEN v ELSE f[x]]
Without(f, S) == [x \in DOMAIN f \ S |-> f[x]]
Empty == [x \in {} |-> 0]

Init ==
  /\ now = 0 /\ finished = 0 /\ pass = Idle
  /\ raw = Empty /\ vanished = Empty /\ hourly = Empty /\ daily = Empty
  /\ summaries_deleted = Empty /\ vanished_deleted = Empty

\* Outages stay shorter than MaxOutage.
Tick ==
  /\ now < LastHour /\ now - finished < MaxOutage
  /\ now' = now + 1
  /\ UNCHANGED <<finished, pass, raw, vanished, hourly, daily, summaries_deleted, vanished_deleted>>

\* A sweep writes its summary with the time of the book, maybe of the hour before,
\* and the orders that left.
Sweep(s) ==
  /\ s \notin DOMAIN raw \cup DOMAIN summaries_deleted
  /\ \E at \in {now, now - 1} \cap Nat : raw' = Put(raw, s, at)
  /\ UNCHANGED <<now, finished, pass, vanished, hourly, daily, summaries_deleted, vanished_deleted>>

Vanish(v) ==
  /\ v \notin DOMAIN vanished \cup DOMAIN vanished_deleted
  /\ vanished' = Put(vanished, v, [at |-> now, status |-> "pending"])
  /\ UNCHANGED <<now, finished, pass, raw, hourly, daily, summaries_deleted, vanished_deleted>>

-----------------------------------------------------------------------------
\* A round of maintenance_loop; the hourly part is due.
maintenance_loop ==
  /\ pass = Idle
  /\ pass' = [pc |-> "resolve", now |-> now, whole |-> TRUE]
  /\ UNCHANGED <<now, finished, raw, vanished, hourly, daily, summaries_deleted, vanished_deleted>>

\* Row by row, so a failure leaves some pending; the hourly part runs all the same.
resolve_and_recompute ==
  /\ pass.pc = "resolve"
  /\ LET due == {v \in DOMAIN vanished : vanished[v].status = "pending" /\ vanished[v].at <= pass.now - RelistWindow}
     IN  \E some \in SUBSET due :
           /\ vanished' = [v \in DOMAIN vanished |->
                             IF v \in some THEN [vanished[v] EXCEPT !.status = "trade"] ELSE vanished[v]]
           /\ pass' = [pass EXCEPT !.pc = "hourly", !.whole = (some = due)]
  /\ UNCHANGED <<now, finished, raw, hourly, daily, summaries_deleted, vanished_deleted>>

\* Plausible bug: only the hour that just ended is rolled up.
RolledHours_Last(at) == {at - 1}

\* The whole hours before the pass began.
RolledHours(at) == (at - RollupHours)..(at - 1)

rollup_hourly ==
  /\ pass.pc = "hourly"
  /\ LET of(h) == {s \in DOMAIN raw : raw[s] = h}
         hours == {h \in RolledHours(pass.now) : of(h) # {}}
     IN  hourly' = [h \in DOMAIN hourly \cup hours |-> IF h \in hours THEN of(h) ELSE hourly[h]]
  /\ pass' = [pass EXCEPT !.pc = "daily"]
  /\ UNCHANGED <<now, finished, raw, vanished, daily, summaries_deleted, vanished_deleted>>

\* A row per day, written one after another; a failure leaves the rest for the next hour.
rollup_daily ==
  /\ pass.pc = "daily"
  /\ LET trades(d) == {v \in DOMAIN vanished : vanished[v].status = "trade" /\ Day(vanished[v].at) = d}
         days == {d \in (Day(pass.now) - RollupDays)..Day(now) : trades(d) # {}}
     IN  \E some \in SUBSET days :
           /\ daily' = [d \in DOMAIN daily \cup some |-> IF d \in some THEN trades(d) ELSE daily[d]]
           /\ pass' = IF some = days THEN [pass EXCEPT !.pc = "retain"] ELSE Idle
  /\ UNCHANGED <<now, finished, raw, vanished, hourly, summaries_deleted, vanished_deleted>>

apply_retention ==
  /\ pass.pc = "retain"
  /\ LET old == {s \in DOMAIN raw : raw[s] < pass.now - SummaryRetention}
         gone == {v \in DOMAIN vanished : vanished[v].at < pass.now - VanishedRetention}
     IN  /\ raw' = Without(raw, old)
         /\ summaries_deleted' = [s \in DOMAIN summaries_deleted \cup old |->
                                    IF s \in old THEN raw[s] ELSE summaries_deleted[s]]
         /\ \/ /\ vanished' = Without(vanished, gone)
               /\ vanished_deleted' = [v \in DOMAIN vanished_deleted \cup gone |->
                                         IF v \in gone THEN vanished[v] ELSE vanished_deleted[v]]
               /\ finished' = IF pass.whole THEN pass.now ELSE finished
            \/ UNCHANGED <<vanished, vanished_deleted, finished>>
  /\ pass' = Idle
  /\ UNCHANGED <<now, hourly, daily>>

\* A statement fails, or the server stops: what was written stays.
PassEnds ==
  /\ pass.pc \in {"hourly", "daily", "retain"}
  /\ pass' = Idle
  /\ UNCHANGED <<now, finished, raw, vanished, hourly, daily, summaries_deleted, vanished_deleted>>

Next ==
  \/ Tick \/ maintenance_loop \/ resolve_and_recompute \/ rollup_hourly \/ rollup_daily
  \/ apply_retention \/ PassEnds
  \/ \E s \in Summaries : Sweep(s)
  \/ \E v \in Vanishes : Vanish(v)

RollupsSpec == Init /\ [][Next]_vars

-----------------------------------------------------------------------------
\* Nothing is deleted before it was rolled up: a summary that retention removed is in the row
\* of its hour, and a trade in the row of its day, although passes fail part way, a summary
\* is written late and rows are replaced by later passes (rollup_hourly, rollup_daily,
\* apply_retention) - as long as no outage outlasts the 48 hours a pass looks back.
DeletedRowsWereRolledUp ==
  /\ \A s \in DOMAIN summaries_deleted :
       summaries_deleted[s] \in DOMAIN hourly /\ s \in hourly[summaries_deleted[s]]
  /\ \A v \in DOMAIN vanished_deleted : vanished_deleted[v].status = "trade" =>
       Day(vanished_deleted[v].at) \in DOMAIN daily /\ v \in daily[Day(vanished_deleted[v].at)]

-----------------------------------------------------------------------------
(* Why it holds: the inductive invariant.                                   *)

Vanished == [at : Nat, status : {"pending", "trade"}]

TypeOK ==
  /\ now \in Nat /\ finished \in Nat
  /\ pass \in [pc : {"idle", "resolve", "hourly", "daily", "retain"}, now : Nat, whole : BOOLEAN]
  /\ \A s \in DOMAIN raw : raw[s] \in Nat
  /\ \A v \in DOMAIN vanished : vanished[v] \in Vanished
  /\ \A s \in DOMAIN summaries_deleted : summaries_deleted[s] \in Nat
  /\ \A v \in DOMAIN vanished_deleted : vanished_deleted[v] \in Vanished

\* A pass begins after the last whole one, no outage is longer than the bound, no order vanishes ahead.
ClocksInOrder ==
  /\ finished <= now /\ now - finished <= MaxOutage
  /\ pass.pc # "idle" => finished <= pass.now /\ pass.now <= now
  /\ \A v \in DOMAIN vanished : vanished[v].at <= now

InHourly(s) == raw[s] \in DOMAIN hourly /\ s \in hourly[raw[s]]
InDaily(v) == Day(vanished[v].at) \in DOMAIN daily /\ v \in daily[Day(vanished[v].at)]
Traded(v) == vanished[v].status = "trade"

\* Summaries of an hour no sweep writes to any more are rolled up by the last whole pass, and by
\* the present one once it is past that.
HoursAreRolled ==
  /\ \A s \in DOMAIN raw : raw[s] <= finished - 2 => InHourly(s)
  /\ pass.pc \in {"daily", "retain"} => \A s \in DOMAIN raw : raw[s] <= pass.now - 2 => InHourly(s)

\* Alike for trades and their days; what is due is resolved first.
DaysAreRolled ==
  /\ \A v \in DOMAIN vanished : vanished[v].at <= finished - RelistWindow => Traded(v) /\ InDaily(v)
  /\ pass.pc \in {"hourly", "daily", "retain"} /\ pass.whole =>
       \A v \in DOMAIN vanished : vanished[v].at <= pass.now - RelistWindow => Traded(v)
  /\ pass.pc = "retain" => \A v \in DOMAIN vanished : Traded(v) => InDaily(v)

\* What was deleted is older than the hours and days a pass writes again.
DeletedIsOld ==
  /\ \A s \in DOMAIN summaries_deleted :
       /\ summaries_deleted[s] < now - SummaryRetention
       /\ pass.pc # "idle" => summaries_deleted[s] < pass.now - SummaryRetention
  /\ \A v \in DOMAIN vanished_deleted :
       /\ vanished_deleted[v].at < now - VanishedRetention
       /\ pass.pc # "idle" => vanished_deleted[v].at < pass.now - VanishedRetention

RollupsInv ==
  TypeOK /\ ClocksInOrder /\ HoursAreRolled /\ DaysAreRolled /\ DeletedIsOld /\ DeletedRowsWereRolledUp
=============================================================================
