------------------------------ MODULE SweepLoops ------------------------------
(***************************************************************************)
(* The sweep loops of the collector (collector/runner.rs): the hot loop and *)
(* the cold loop choose items by their last attempt, the trader hands over  *)
(* order books it fetched itself, and a set of claims keeps two of them off *)
(* the same item.  What a sweep writes besides its times is OrderBook's.    *)
(*                                                                          *)
(* Times are stamps that only their order matters for: 0 is NULL, and every *)
(* step renumbers the stamps still in use (Compressed), so that the model   *)
(* has finitely many states although its clock never stops.  `due' is the   *)
(* stamp of now - 5 min.                                                    *)
(***************************************************************************)
EXTENDS Integers, Sequences, FiniteSets

CONSTANTS
  Items,            \* item ids, ordered as SQLite orders them (numbers)
  COLD_CANDIDATES   \* how many items the cold query returns

ASSUME SweepAssumption ==
  /\ Items \subseteq Nat /\ IsFiniteSet(Items)
  /\ COLD_CANDIDATES \in Nat \ {0}

VARIABLES
  hot,       \* Collector::hot, the set read at the last refresh
  in_flight, \* Collector::in_flight
  active,    \* sweep_state.active = 1
  attempt,   \* sweep_state.last_attempt_at
  due,       \* now - HOT_INTERVAL_S
  task       \* where each loop is

vars == <<hot, in_flight, active, attempt, due, task>>

Loops == {"hot", "cold"}

\* A row of SweepTarget: the item and the last attempt the query read.
Target(i) == [item |-> i, last |-> attempt[i]]

\* A loop between two steps holds nothing.
Idle == [pc |-> "idle", list |-> <<>>, item |-> 0, last |-> 0,
         now |-> 0]

Claimed(t) == t.pc = "sweep"

-----------------------------------------------------------------------------
(* Stamps *)

TaskStamps(t) == {t.now, t.last} \cup {t.list[k].last : k \in DOMAIN t.list}

\* Every stamp some part of the state still compares with.
InUse(att, d, tsk) ==
  {att[i] : i \in Items} \cup (UNION {TaskStamps(tsk[l]) : l \in Loops}) \cup {d}

Top == LET used == InUse(attempt, due, task)
       IN  CHOOSE s \in used : \A u \in used : u <= s

\* The clock: later than every time that was written down.
Now == Top + 1

\* Keeps the order of the stamps and drops the gaps between them.
Compressed(att, d, tsk) ==
  \E used \in {InUse(att, d, tsk) \cup {0}} :
    LET Rank(s) == Cardinality({u \in used : u < s})
    IN  /\ attempt' = [i \in Items |-> Rank(att[i])]
        /\ due' = Rank(d)
        /\ task' = [l \in Loops |->
             [tsk[l] EXCEPT !.now = Rank(@), !.last = Rank(@),
               !.list = [k \in DOMAIN @ |-> [item |-> @[k].item, last |-> Rank(@[k].last)]]]]

Become(l, t) == [task EXCEPT ![l] = t]

-----------------------------------------------------------------------------
Init ==
  /\ hot \in SUBSET Items
  /\ in_flight = {}
  /\ active = Items
  /\ attempt = [i \in Items |-> 0]
  /\ due = 0
  /\ task = [l \in Loops |-> Idle]

\* ORDER BY last_attempt_at IS NOT NULL, last_attempt_at, item_id
Earlier_ById(a, b) == a < b
Earlier(a, b) ==
  \/ attempt[a] < attempt[b]
  \/ attempt[a] = attempt[b] /\ a < b

ByAttempt(ids) ==
  [k \in 1..Cardinality(ids) |-> CHOOSE i \in ids : Cardinality({j \in ids : Earlier(j, i)}) = k - 1]

Targets(ids) == LET s == ByAttempt(ids) IN [k \in DOMAIN s |-> Target(s[k])]

\* The query's rows before the loop filters them, as sets: Targets puts them in order.
hot_targets == hot \cap active
cold_candidates ==
  {i \in active : Cardinality({j \in active : Earlier(j, i)}) < COLD_CANDIDATES}

\* hot_loop reads the hot set again every minute, before a step: the items in stock, on the
\* wish list or worth buying by now.
refresh_hot_set ==
  /\ task["hot"].pc = "idle"
  /\ hot' \in SUBSET Items \ {hot}
  /\ UNCHANGED <<in_flight, active, attempt, due, task>>

\* hot_step up to its query: the hot items not attempted in the last 5 minutes.
ReadHot ==
  LET due_items == {i \in hot_targets : attempt[i] <= due}
  IN  /\ task["hot"].pc = "idle"
      /\ due_items # {}
      /\ task' = Become("hot", [Idle EXCEPT !.pc = "read", !.list = Targets(due_items)])
      /\ UNCHANGED <<hot, in_flight, active, attempt, due>>

\* cold_step up to its query: the candidates that are not hot.
ReadCold ==
  LET cold_items == cold_candidates \ hot
  IN  /\ task["cold"].pc = "idle"
      /\ cold_items # {}
      /\ task' = Become("cold", [Idle EXCEPT !.pc = "read", !.list = Targets(cold_items)])
      /\ UNCHANGED <<hot, in_flight, active, attempt, due>>

\* A claim is granted when the id was not in the set yet.
claim(i) == i \notin in_flight

\* The targets of a list whose claim would be granted.
Claimable_All(list) == DOMAIN list
Claimable(list) == {k \in DOMAIN list : claim(list[k].item)}

\* The rest of a step: the first target whose claim is granted is swept.  The attempt is
\* written before the request goes out.
Choose(l) ==
  LET list  == task[l].list
      takes == Claimable(list)
  IN  /\ task[l].pc = "read"
      /\ \/ /\ takes = {}
            /\ Compressed(attempt, due, Become(l, Idle))
            /\ UNCHANGED in_flight
         \/ \E k \in takes :
              LET t == [Idle EXCEPT !.pc = "sweep", !.item = list[k].item, !.last = list[k].last, !.now = Now]
              IN  /\ \A j \in takes : k <= j
                  /\ in_flight' = in_flight \cup {t.item}
                  /\ Compressed([attempt EXCEPT ![t.item] = t.now], due, Become(l, t))
      /\ UNCHANGED <<hot, active>>

\* ingest_book: a book the trader fetched is recorded as swept now, unless the item is claimed.
\* Its own claim spans one transaction, so claim, write and release are one step here.
ingest_book(i) ==
  /\ claim(i)
  /\ Compressed([attempt EXCEPT ![i] = Now], due, task)
  /\ UNCHANGED <<hot, in_flight, active>>

\* What fetch_with_retries returns in the end: a 404, a block or a 429 at once, a transient
\* failure or an unusable answer after MAX_RETRIES more tries.
Results == {"ok", "not_found", "blocked", "transient"}

\* The claim's guard is dropped with the step.
Release(t) == in_flight \ {t.item}

\* restore_attempt: the attempt the query had read is put back.
restore_attempt(t) == [attempt EXCEPT ![t.item] = t.last]

\* The market has answered: the book is applied (dated when the sweep started), a 404 makes the
\* item inactive, a block is no attempt, and every other failure leaves the attempt as it is.
record_sweep(l, result) ==
  LET t == task[l]
      Ends(att) == Compressed(att, due, Become(l, Idle))
  IN  /\ t.pc = "sweep"
      /\ \/ result = "ok"        /\ Ends([attempt EXCEPT ![t.item] = t.now]) /\ UNCHANGED active
         \/ result = "not_found" /\ Ends(attempt) /\ active' = active \ {t.item}
         \/ result = "blocked"   /\ Ends(restore_attempt(t)) /\ UNCHANGED active
         \/ result = "transient" /\ Ends(attempt) /\ UNCHANGED active
      /\ in_flight' = in_flight \ {t.item}
      /\ UNCHANGED hot

\* A database error ends the step at any of its awaits and the loop goes on after a pause; a
\* panic unwinds the loop's task and supervise starts it again after as long.
StepAborts(l) ==
  /\ Claimed(task[l])
  /\ in_flight' = Release(task[l])
  /\ Compressed(attempt, due, Become(l, Idle))
  /\ UNCHANGED <<hot, active>>

\* The daily item refresh: listed items become active, the others inactive.
sync_items ==
  /\ \E listed \in SUBSET Items : listed # active /\ active' = listed
  /\ UNCHANGED <<hot, in_flight, attempt, due, task>>

\* Time passes: stamps fall behind the due line.
Tick ==
  /\ \E d \in (due + 1)..Top : Compressed(attempt, d, task)
  /\ UNCHANGED <<hot, in_flight, active>>

Next ==
  \/ ReadHot
  \/ ReadCold
  \/ \E i \in Items : ingest_book(i)
  \/ \E l \in Loops : Choose(l) \/ StepAborts(l)
  \/ \E l \in Loops : \E r \in Results : record_sweep(l, r)
  \/ refresh_hot_set
  \/ sync_items
  \/ Tick

(***************************************************************************)
(* Both loops run for ever (supervise restarts them), time passes, and the  *)
(* market answers some of the requests of each loop: without the last one   *)
(* nothing could be promised, since a blocked attempt does not count.       *)
(***************************************************************************)
Fairness ==
  /\ WF_vars(Tick)
  /\ WF_vars(ReadHot \/ Choose("hot"))
  /\ SF_vars(ReadCold \/ Choose("cold"))
  /\ \A l \in Loops : SF_vars(record_sweep(l, "ok"))

Spec == Init /\ [][Next]_vars /\ Fairness

-----------------------------------------------------------------------------
(* Properties *)

\* Two loops never sweep one item at the same time, however the hot set changes under them
\* (InFlight, runner.rs: "Keeps two loops from sweeping the same item at once").
OneSweepPerItem ==
  \A l, m \in Loops : l # m /\ Claimed(task[l]) /\ Claimed(task[m]) => task[l].item # task[m].item

\* A claim lives exactly as long as its sweep: errors and panics give it back, so no item is
\* locked out for good.
ClaimsAreHeld == in_flight = {task[l].item : l \in {k \in Loops : Claimed(task[k])}}

\* A sweep is dated when it starts and recorded when the market has answered.  In between the
\* item's last attempt is the sweep's own: nothing younger is overwritten when it is recorded, so
\* the sweep times of an item never run backwards (apply_sweep takes the gap from them).
SweepOwnsItsItem == \A l \in Loops : Claimed(task[l]) => attempt[task[l].item] = task[l].now

\* The claims do their work: all of the above, whichever loop or book of
\* the trader comes in between (InFlight, record_sweep, ingest_book).
ClaimsGuardSweeps == ClaimsAreHeld /\ OneSweepPerItem /\ SweepOwnsItsItem

\* Once the hot set has settled no active item is forgotten: whenever its last attempt is five
\* minutes old it is taken up again some time, hot or cold, also when the cold query returns
\* fewer rows than there are items and the first ones are all hot.
EveryItemIsSwept ==
  <>[][hot' = hot]_vars => \A i \in Items : []<>(i \notin active \/ attempt[i] > due)

\* What restore_attempt's comment says ("Puts back the `last_attempt_at` an attempt that never
\* counted overwrote"): the attempt a loop remembers is the one its own attempt overwrites.
RemembersWhatItOverwrites ==
  [][\A l \in Loops : Claimed(task'[l]) /\ ~Claimed(task[l]) =>
       \E k \in DOMAIN task[l].list :
         task[l].list[k].item = task'[l].item /\ task[l].list[k].last = attempt[task'[l].item]]_vars

-----------------------------------------------------------------------------
(* Why it holds: the types, next to ClaimsGuardSweeps the whole invariant. *)

Stamp == Nat
TypeOK ==
  /\ hot \in SUBSET Items /\ in_flight \in SUBSET Items /\ active \in SUBSET Items
  /\ attempt \in [Items -> Stamp] /\ due \in Stamp
  /\ task \in [Loops -> [pc : {"idle", "read", "sweep"}, item : Items \cup {0}, last : Stamp,
                        now : Stamp, list : Seq([item : Items, last : Stamp])]]
  /\ \A l \in Loops : Claimed(task[l]) => task[l].item \in Items

IInv == TypeOK /\ ClaimsGuardSweeps
=============================================================================
