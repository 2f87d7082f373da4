--------------------------- MODULE MarketLimiter ---------------------------
(***************************************************************************)
(* The request budget every warframe.market call goes through: one slot at *)
(* a time, three lanes served in order of priority, and a circuit breaker  *)
(* that opens for a period after a block and then lets one probe out.      *)
(*                                                                         *)
(* A request is a caller of wait_for_slot.  Each pass of its loop is one   *)
(* step (the state lock is held throughout); between two passes it sleeps  *)
(* until a deadline or until notified.  Time is abstracted to what the     *)
(* code compares with it: a deadline has passed or has not.                *)
(***************************************************************************)
EXTENDS Integers, FiniteSets

CONSTANTS
  Req,         \* callers
  NoReq,       \* no caller
  LaneOf,      \* the lane each caller asks in
  TripAfter,   \* TRIP_AFTER_TRANSPORT_ERRORS
  LastStep     \* the last rung of BREAKER_STEPS, which repeats

Lane == 0..2                  \* Trader, Hot, Cold
FailFast(r) == LaneOf[r] = 0  \* the trader uses try_acquire, the others acquire

ASSUME MarketLimiterAssumption ==
  /\ IsFiniteSet(Req)
  /\ NoReq \notin Req
  /\ LaneOf \in [Req -> Lane]
  /\ TripAfter \in Nat \ {0}
  /\ LastStep \in Nat

VARIABLES
  st,         \* where each caller stands
  waiting,    \* callers per lane that are inside wait_for_slot
  slot,       \* last_grant + interval, compared with now
  brk,        \* the breaker, its ladder and the deadlines it waits for
  probeOf,    \* history: the caller whose grant was the probe
  openGrants  \* history: grants since the last trip while the breaker was open

vars == <<st, waiting, slot, brk, probeOf, openGrants>>

\* check: about to take the lock.  timed and parked: asleep, with or without a
\* deadline.  out: granted, its answer not reported yet.
State == {"idle", "check", "timed", "parked", "out"}
Asleep == {"timed", "parked"}
Inside == {"check"} \cup Asleep

\* ready: the interval of the current rate has passed, a lower rate may undo it.
\* past: so has that of the lowest rate set_rate_per_second allows (5 s).
Slot == {"early", "ready", "past"}

\* probe: the probe is out.  over, late: until, or the probe's 60 s, have passed.
\* step and fresh: the rung of the last trip, and whether it is under 24 h old.
Breaker == [open : BOOLEAN, probe : BOOLEAN, over : BOOLEAN, late : BOOLEAN,
            fresh : BOOLEAN, step : 0..LastStep, errs : 0..TripAfter - 1]

TypeOK ==
  /\ st \in [Req -> State]
  /\ waiting \in [Lane -> Nat]
  /\ slot \in Slot
  /\ brk \in Breaker
  /\ brk.probe => brk.open
  /\ probeOf \in Req \cup {NoReq}
  /\ openGrants \in Nat

Init ==
  /\ st = [r \in Req |-> "idle"]
  /\ waiting = [l \in Lane |-> 0]
  /\ slot = "past"
  /\ brk = [open |-> FALSE, probe |-> FALSE, over |-> FALSE, late |-> FALSE,
            fresh |-> FALSE, step |-> 0, errs |-> 0]
  /\ probeOf = NoReq
  /\ openGrants = 0

----------------------------------------------------------------------------
(* The breaker.                                                            *)

Higher(step) == IF step < LastStep THEN step + 1 ELSE LastStep

\* Mutated form: only the age of the last trip counts, not that the breaker is open.
Tripped_ByAge(b) ==
  [open |-> TRUE, probe |-> FALSE, over |-> FALSE, late |-> FALSE, fresh |-> TRUE, errs |-> 0,
   step |-> IF b.fresh THEN Higher(b.step) ELSE 0]

\* State::trip opens the breaker, or reopens it a step higher.
Tripped(b) ==
  [open |-> TRUE, probe |-> FALSE, over |-> FALSE, late |-> FALSE, fresh |-> TRUE, errs |-> 0,
   step |-> IF b.open \/ b.fresh THEN Higher(b.step) ELSE 0]

Closed(b) == [b EXCEPT !.open = FALSE, !.probe = FALSE, !.over = FALSE, !.late = FALSE, !.errs = 0]

\* expire_lost_probe: a probe without an answer for 60 s counts as failed.
Expired(b) == IF b.probe /\ b.late THEN Tripped(b) ELSE b

Blocked(b) == b.open /\ (b.probe \/ ~b.over)

\* The history of probes: forgotten when the breaker trips or closes.
NewBreaker(b) ==
  LET fresh == brk.open # b.open \/ (brk.probe /\ ~b.probe) IN
  /\ brk' = b
  /\ probeOf' = IF fresh THEN NoReq ELSE probeOf
  /\ openGrants' = IF fresh THEN 0 ELSE openGrants

----------------------------------------------------------------------------
(* wait_for_slot.                                                          *)

\* notify_waiters: every sleeper looks again.
Notified(s) == [r \in Req |-> IF s[r] \in Asleep THEN "check" ELSE s[r]]

Leave(r) == waiting' = [waiting EXCEPT ![LaneOf[r]] = @ - 1]

Enter(r) ==
  /\ st[r] = "idle"
  /\ st' = [st EXCEPT ![r] = "check"]
  /\ waiting' = [waiting EXCEPT ![LaneOf[r]] = @ + 1]
  /\ UNCHANGED <<slot, brk, probeOf, openGrants>>

HigherWaits(r) == \E l \in Lane : l < LaneOf[r] /\ waiting[l] > 0

\* try_acquire fails at once; the guard's drop takes the caller off its lane.
Refuse(r) ==
  LET b == Expired(brk) IN
  /\ st[r] = "check" /\ FailFast(r) /\ Blocked(b)
  /\ st' = Notified([st EXCEPT ![r] = "idle"])
  /\ Leave(r)
  /\ NewBreaker(b)
  /\ UNCHANGED slot

GoesOn(r) == st[r] = "check" /\ ~(FailFast(r) /\ Blocked(Expired(brk)))

Park(r) ==
  /\ GoesOn(r) /\ HigherWaits(r)
  /\ st' = [st EXCEPT ![r] = "parked"]
  /\ NewBreaker(Expired(brk))
  /\ UNCHANGED <<waiting, slot>>

Sleep(r) ==
  /\ GoesOn(r) /\ ~HigherWaits(r)
  /\ Blocked(Expired(brk)) \/ slot = "early"
  /\ st' = [st EXCEPT ![r] = "timed"]
  /\ NewBreaker(Expired(brk))
  /\ UNCHANGED <<waiting, slot>>

\* Mutated form: the probe is not written down.
Granted_NoProbe(b) == b

\* A grant through an open breaker is the period's probe.
Granted(b) == IF b.open THEN [b EXCEPT !.probe = TRUE] ELSE b

Grant(r) ==
  LET b == Expired(brk) IN
  /\ GoesOn(r) /\ ~HigherWaits(r)
  /\ ~Blocked(b) /\ slot # "early"
  /\ st' = Notified([st EXCEPT ![r] = "out"])
  /\ Leave(r)
  /\ slot' = "early"
  /\ brk' = Granted(b)
  /\ IF b.open THEN probeOf' = r /\ openGrants' = openGrants + 1
               ELSE UNCHANGED <<probeOf, openGrants>>

\* The deadline passed.
Wake(r) ==
  /\ st[r] = "timed"
  /\ st' = [st EXCEPT ![r] = "check"]
  /\ UNCHANGED <<waiting, slot, brk, probeOf, openGrants>>

\* Mutated form: the guard does not wake the other callers.
Woken_Nobody(s) == s

\* Waiting::drop.
Woken(s) == Notified(s)

\* The caller's future was dropped inside wait_for_slot.
Drop(r) ==
  /\ st[r] \in Inside
  /\ st' = Woken([st EXCEPT ![r] = "idle"])
  /\ Leave(r)
  /\ UNCHANGED <<slot, brk, probeOf, openGrants>>

----------------------------------------------------------------------------
(* report.                                                                 *)

Judged(b, outcome) ==
  CASE outcome = "ok" -> Closed(b)
    [] outcome \in {"challenge", "rate_limited"} -> Tripped(b)
    [] OTHER -> IF b.probe \/ b.errs + 1 >= TripAfter THEN Tripped(b)
                ELSE [b EXCEPT !.errs = @ + 1]

Outcome == {"ok", "challenge", "rate_limited", "transport_error"}

Report(r, outcome) ==
  LET b == Expired(brk) IN
  /\ st[r] = "out"
  /\ IF b.open /\ ~b.probe
     THEN NewBreaker(b) /\ st' = [st EXCEPT ![r] = "idle"]
     ELSE NewBreaker(Judged(b, outcome)) /\ st' = Notified([st EXCEPT ![r] = "idle"])
  /\ UNCHANGED <<waiting, slot>>

\* The caller's future was dropped after the grant: nothing is reported.
Abandon(r) ==
  /\ st[r] = "out"
  /\ st' = [st EXCEPT ![r] = "idle"]
  /\ UNCHANGED <<waiting, slot, brk, probeOf, openGrants>>

\* is_blocked and snapshot expire a lost probe as well.
Look ==
  /\ Expired(brk) # brk
  /\ NewBreaker(Expired(brk))
  /\ UNCHANGED <<st, waiting, slot>>

\* set_rate_per_second moves the next slot.
SetRate ==
  /\ slot # "past" /\ slot' \in {"early", "ready"}
  /\ st' = Notified(st)
  /\ UNCHANGED <<waiting, brk, probeOf, openGrants>>

----------------------------------------------------------------------------
(* Time.                                                                   *)

Later(b) == brk' = b /\ UNCHANGED <<st, waiting, slot, probeOf, openGrants>>

SlotOpens ==
  /\ slot = "early" /\ slot' = "ready"
  /\ UNCHANGED <<st, waiting, brk, probeOf, openGrants>>

SlotPasses ==
  /\ slot # "past" /\ slot' = "past"
  /\ UNCHANGED <<st, waiting, brk, probeOf, openGrants>>

\* A period lasts 15 minutes or more, and the client has no timeout: an answer
\* may take longer.
PeriodEnds ==
  /\ brk.open /\ ~brk.over
  /\ Later([brk EXCEPT !.over = TRUE])

ProbeGrowsLate ==
  /\ brk.probe /\ ~brk.late
  /\ Later([brk EXCEPT !.late = TRUE])

LadderResets ==
  /\ brk.fresh /\ (brk.open => brk.over)
  /\ Later([brk EXCEPT !.fresh = FALSE])

Time == SlotOpens \/ SlotPasses \/ PeriodEnds \/ ProbeGrowsLate \/ LadderResets

Pass(r) == Refuse(r) \/ Park(r) \/ Sleep(r) \/ Grant(r)

Next ==
  \/ \E r \in Req : Enter(r) \/ Pass(r) \/ Wake(r) \/ Drop(r) \/ Abandon(r)
  \/ \E r \in Req, outcome \in Outcome : Report(r, outcome)
  \/ Look \/ SetRate \/ Time

Spec == Init /\ [][Next]_vars

\* Callers that are awake run, deadlines pass, and every request that is out
\* is answered or dropped.  Nothing makes a caller arrive.
Fairness ==
  /\ \A r \in Req : WF_vars(Pass(r)) /\ WF_vars(Wake(r))
  /\ \A r \in Req : WF_vars(Abandon(r) \/ \E outcome \in Outcome : Report(r, outcome))
  /\ WF_vars(SlotPasses) /\ WF_vars(PeriodEnds) /\ WF_vars(ProbeGrowsLate)

FairSpec == Spec /\ Fairness

----------------------------------------------------------------------------
(* What must hold.                                                         *)

InLane(l) == {r \in Req : LaneOf[r] = l /\ st[r] \in Inside}

\* The per-lane counters agree with the callers that are inside wait_for_slot,
\* whatever is granted, refused or dropped: a counter too high would starve
\* every lane below it for good.
WaitingIsExact == \A l \in Lane : waiting[l] = Cardinality(InLane(l))

\* Between two trips an open breaker lets one request out, the probe, and it
\* knows that it did.
OneProbePerPeriod ==
  brk.open => openGrants = (IF brk.probe THEN 1 ELSE 0)

\* A slot never goes to a lane while a caller of a higher lane is inside.
PriorityRespected ==
  [][\A r, q \in Req :
       st[r] # "out" /\ st'[r] = "out" /\ LaneOf[q] < LaneOf[r] => st[q] \notin Inside]_vars

\* A failed, lost or blocked probe reopens the breaker, it never leaves the
\* probe's period running: the ladder goes up by one, or the breaker closes.
ProbeEndsPeriod ==
  [][brk.probe /\ ~brk'.probe =>
       ~brk'.open \/ (brk'.step = Higher(brk.step) /\ ~brk'.over)]_vars

\* A lane that higher lanes leave alone gets on: callers leave it, served or
\* refused, again and again for as long as there are any.  No wake-up is lost,
\* and no lane waits for a caller that has gone.
NoLaneIsStuck ==
  \A l \in Lane :
    <>[](\A k \in Lane : k < l => InLane(k) = {})
      => []<>(InLane(l) = {}) \/ []<><<\E r \in InLane(l) : st'[r] \notin Inside>>_vars
=============================================================================
