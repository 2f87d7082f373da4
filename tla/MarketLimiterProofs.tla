------------------------ MODULE MarketLimiterProofs ------------------------
(***************************************************************************)
(* The lanes and the probe of MarketLimiter, for any finite set of callers *)
(* in any lanes.  Then, of MCTrading, the rules of the trader that a fold  *)
(* or a sum computes, the knapsack and the candidates, for any bids,       *)
(* budgets and statistics; and the resolution of a trade into lines, for   *)
(* any names, sets and item lists.                                         *)
(***************************************************************************)
EXTENDS MarketLimiter, MCTrading, FiniteSetTheorems, SequenceTheorems,
        WellFoundedInduction, TLAPS

\* The inductive invariant.
LimiterInv ==
  /\ TypeOK
  /\ WaitingIsExact
  /\ OneProbePerPeriod

LEMMA InitLimiter == Init => LimiterInv
<1> SUFFICES ASSUME Init PROVE LimiterInv
  OBVIOUS
<1>1. TypeOK
  BY MarketLimiterAssumption DEF Init, TypeOK, State, Slot, Breaker
<1>2. ASSUME NEW l \in Lane PROVE InLane(l) = {}
  BY DEF Init, InLane, Inside, Asleep
<1>3. WaitingIsExact
  BY <1>2, FS_EmptySet DEF Init, WaitingIsExact
<1>4. OneProbePerPeriod
  BY DEF Init, OneProbePerPeriod
<1>5. QED
  BY <1>1, <1>3, <1>4 DEF LimiterInv

----------------------------------------------------------------------------
(* The lanes: what the set of callers inside a lane does in a step.        *)

LEMMA LaneFinite ==
  ASSUME NEW l \in Lane
  PROVE  IsFiniteSet(InLane(l))
<1>1. InLane(l) \subseteq Req
  BY DEF InLane
<1>2. QED
  BY <1>1, FS_Subset, MarketLimiterAssumption

\* Nobody comes or goes.
LEMMA LanesStay ==
  ASSUME WaitingIsExact, UNCHANGED waiting,
         \A q \in Req : st[q] \in Inside <=> st'[q] \in Inside
  PROVE  WaitingIsExact'
<1>1. ASSUME NEW l \in Lane PROVE InLane(l)' = InLane(l)
  BY DEF InLane
<1>2. QED
  BY <1>1 DEF WaitingIsExact

\* One caller comes in.
LEMMA LaneGains ==
  ASSUME WaitingIsExact, waiting \in [Lane -> Nat], NEW r \in Req, st[r] \notin Inside, st'[r] \in Inside,
         \A q \in Req \ {r} : st[q] \in Inside <=> st'[q] \in Inside,
         waiting' = [waiting EXCEPT ![LaneOf[r]] = @ + 1]
  PROVE  WaitingIsExact' /\ waiting' \in [Lane -> Nat]
<1>1. LaneOf[r] \in Lane
  BY MarketLimiterAssumption
<1>2. ASSUME NEW l \in Lane, l # LaneOf[r] PROVE InLane(l)' = InLane(l)
  BY <1>2 DEF InLane
<1>3. InLane(LaneOf[r])' = InLane(LaneOf[r]) \cup {r} /\ r \notin InLane(LaneOf[r])
  BY DEF InLane
<1>4. Cardinality(InLane(LaneOf[r])') = Cardinality(InLane(LaneOf[r])) + 1
  BY <1>1, <1>3, LaneFinite, FS_AddElement
<1>5. QED
  BY <1>1, <1>2, <1>4 DEF WaitingIsExact

\* One caller leaves.
LEMMA LaneLoses ==
  ASSUME WaitingIsExact, waiting \in [Lane -> Nat], NEW r \in Req, st[r] \in Inside, st'[r] \notin Inside,
         \A q \in Req \ {r} : st[q] \in Inside <=> st'[q] \in Inside,
         Leave(r)
  PROVE  WaitingIsExact' /\ waiting' \in [Lane -> Nat]
<1>1. LaneOf[r] \in Lane
  BY MarketLimiterAssumption
<1>2. ASSUME NEW l \in Lane, l # LaneOf[r] PROVE InLane(l)' = InLane(l)
  BY <1>2 DEF InLane
<1>3. InLane(LaneOf[r])' = InLane(LaneOf[r]) \ {r} /\ r \in InLane(LaneOf[r])
  BY DEF InLane
<1>4. Cardinality(InLane(LaneOf[r])') = Cardinality(InLane(LaneOf[r])) - 1
      /\ Cardinality(InLane(LaneOf[r])') \in Nat
  BY <1>1, <1>3, LaneFinite, FS_RemoveElement, FS_CardinalityType
<1>5. QED
  BY <1>1, <1>2, <1>4 DEF WaitingIsExact, Leave

\* Waking the sleepers moves nobody in or out.
LEMMA NotifiedKeeps ==
  ASSUME NEW s \in [Req -> State]
  PROVE  /\ Notified(s) \in [Req -> State]
         /\ \A q \in Req : Notified(s)[q] \in Inside <=> s[q] \in Inside
         /\ \A q \in Req : Notified(s)[q] = "out" <=> s[q] = "out"
BY DEF Notified, State, Inside, Asleep

----------------------------------------------------------------------------
(* The breaker.                                                            *)

LEMMA Breakers ==
  ASSUME NEW b \in Breaker
  PROVE  /\ Tripped(b) \in Breaker /\ Tripped(b).open /\ ~Tripped(b).probe
         /\ Closed(b) \in Breaker /\ ~Closed(b).open /\ ~Closed(b).probe
<1>1. Higher(b.step) \in 0..LastStep /\ 0 \in 0..LastStep /\ 0 \in 0..TripAfter - 1
  BY MarketLimiterAssumption DEF Breaker, Higher
<1>2. QED
  BY <1>1 DEF Breaker, Tripped, Closed

LEMMA ExpiredBreaker ==
  ASSUME TypeOK
  PROVE  /\ Expired(brk) \in Breaker /\ (Expired(brk).probe => Expired(brk).open)
         /\ Expired(brk) = brk \/ (brk.probe /\ Expired(brk).open /\ ~Expired(brk).probe)
BY Breakers DEF TypeOK, Expired

\* A new breaker that tripped, closed or kept its probe forgets or keeps the
\* history as OneProbePerPeriod wants.
LEMMA NewBreakerInv ==
  ASSUME TypeOK, OneProbePerPeriod, NEW b \in Breaker, b.probe => b.open, NewBreaker(b),
         b.open /\ brk.open => b.probe = brk.probe \/ (brk.probe /\ ~b.probe),
         b.open /\ ~brk.open => ~b.probe
  PROVE  /\ brk' \in Breaker /\ (brk'.probe => brk'.open)
         /\ probeOf' \in Req \cup {NoReq} /\ openGrants' \in Nat
         /\ OneProbePerPeriod'
BY DEF TypeOK, OneProbePerPeriod, NewBreaker, Breaker

\* What report makes of the breaker.
LEMMA JudgedBreaker ==
  ASSUME NEW b \in Breaker, b.probe => b.open, NEW outcome \in Outcome, ~(b.open /\ ~b.probe)
  PROVE  LET j == Judged(b, outcome) IN
         /\ j \in Breaker /\ (j.probe => j.open)
         /\ j.probe => b.probe
BY Breakers, MarketLimiterAssumption DEF Judged, Breaker, Outcome

\* Expired keeps the history in step, whoever looks.
LEMMA LookInv ==
  ASSUME TypeOK, OneProbePerPeriod, NewBreaker(Expired(brk))
  PROVE  /\ brk' \in Breaker /\ (brk'.probe => brk'.open)
         /\ probeOf' \in Req \cup {NoReq} /\ openGrants' \in Nat
         /\ OneProbePerPeriod'
<1>1. Expired(brk) \in Breaker /\ (Expired(brk).probe => Expired(brk).open)
      /\ (Expired(brk) = brk \/ (brk.probe /\ Expired(brk).open /\ ~Expired(brk).probe))
  BY ExpiredBreaker
<1>2. brk.probe => brk.open
  BY DEF TypeOK
<1>3. QED
  BY <1>1, <1>2, NewBreakerInv

LEMMA RefuseInv ==
  ASSUME LimiterInv, NEW r \in Req, Refuse(r)
  PROVE  LimiterInv'
<1> DEFINE s == [st EXCEPT ![r] = "idle"]
<1>1. st \in [Req -> State] /\ s \in [Req -> State] /\ st[r] = "check" /\ waiting \in [Lane -> Nat]
  BY DEF LimiterInv, TypeOK, State, Refuse
<1>2. st' \in [Req -> State] /\ \A q \in Req : st'[q] \in Inside <=> s[q] \in Inside
  BY <1>1, NotifiedKeeps DEF Refuse
<1>3. st[r] \in Inside /\ st'[r] \notin Inside /\ \A q \in Req \ {r} : st[q] \in Inside <=> st'[q] \in Inside
  BY <1>1, <1>2 DEF Inside, Asleep
<1>4. WaitingIsExact' /\ waiting' \in [Lane -> Nat]
  BY <1>1, <1>3, LaneLoses DEF Refuse, LimiterInv
<1>5. QED
  BY <1>2, <1>4, LookInv DEF Refuse, LimiterInv, TypeOK

\* A pass that ends asleep: the caller stays inside.
LEMMA AsleepInv ==
  ASSUME LimiterInv, NEW r \in Req, Park(r) \/ Sleep(r)
  PROVE  LimiterInv'
<1>1. st \in [Req -> State] /\ st[r] = "check" /\ UNCHANGED <<waiting, slot>>
      /\ st' \in {[st EXCEPT ![r] = "parked"], [st EXCEPT ![r] = "timed"]}
      /\ NewBreaker(Expired(brk))
  BY DEF LimiterInv, TypeOK, Park, Sleep, GoesOn
<1>2. st' \in [Req -> State]
  BY <1>1 DEF State
<1>3. \A q \in Req : st[q] \in Inside <=> st'[q] \in Inside
  BY <1>1 DEF Inside, Asleep
<1>4. WaitingIsExact'
  BY <1>1, <1>3, LanesStay DEF LimiterInv
<1>5. QED
  BY <1>1, <1>2, <1>4, LookInv DEF LimiterInv, TypeOK

\* A grant: through an open breaker, it is the probe and the only grant.
LEMMA GrantInv ==
  ASSUME LimiterInv, NEW r \in Req, Grant(r)
  PROVE  LimiterInv'
<1> DEFINE s == [st EXCEPT ![r] = "out"]
           b == Expired(brk)
<1>1. st \in [Req -> State] /\ s \in [Req -> State] /\ st[r] = "check" /\ waiting \in [Lane -> Nat]
  BY DEF LimiterInv, TypeOK, State, Grant, GoesOn
<1>2. st' \in [Req -> State] /\ \A q \in Req : st'[q] \in Inside <=> s[q] \in Inside
  BY <1>1, NotifiedKeeps DEF Grant
<1>3. st[r] \in Inside /\ st'[r] \notin Inside /\ \A q \in Req \ {r} : st[q] \in Inside <=> st'[q] \in Inside
  BY <1>1, <1>2 DEF Inside, Asleep
<1>4. WaitingIsExact' /\ waiting' \in [Lane -> Nat]
  BY <1>1, <1>3, LaneLoses DEF Grant, LimiterInv
<1>5. b \in Breaker /\ (b.probe => b.open) /\ ~Blocked(b)
      /\ (b = brk \/ (brk.probe /\ b.open /\ ~b.probe))
  BY ExpiredBreaker DEF Grant, LimiterInv
<1>6. b = brk
  <2>1. ASSUME brk.probe PROVE b = brk
    <3>1. brk.late => b.open /\ ~b.over
      BY <2>1 DEF Expired, Tripped
    <3>2. ~brk.late => b = brk
      BY <2>1 DEF Expired
    <3>3. QED
      BY <1>5, <3>1, <3>2 DEF Blocked
  <2>2. QED
    BY <1>5, <2>1
<1>7. brk' \in Breaker /\ (brk'.probe => brk'.open) /\ (brk'.open <=> brk.open) /\ (brk.open => brk'.probe)
  BY <1>5, <1>6 DEF Grant, Granted, Breaker
<1>8. brk.open => ~brk.probe
  BY <1>5, <1>6 DEF Blocked
<1>9. probeOf' \in Req \cup {NoReq} /\ openGrants' \in Nat
      /\ (brk.open => openGrants' = openGrants + 1)
  BY <1>6 DEF Grant, LimiterInv, TypeOK
<1>10. OneProbePerPeriod'
  BY <1>7, <1>8, <1>9 DEF LimiterInv, OneProbePerPeriod
<1>11. TypeOK'
  BY <1>2, <1>4, <1>7, <1>9 DEF Grant, TypeOK, Slot
<1>12. QED
  BY <1>4, <1>10, <1>11 DEF LimiterInv

LEMMA EnterInv ==
  ASSUME LimiterInv, NEW r \in Req, Enter(r)
  PROVE  LimiterInv'
<1>1. st \in [Req -> State] /\ waiting \in [Lane -> Nat]
  BY DEF LimiterInv, TypeOK
<1>2. st' \in [Req -> State] /\ st[r] \notin Inside /\ st'[r] \in Inside
      /\ \A q \in Req \ {r} : st'[q] = st[q]
  BY <1>1 DEF Enter, State, Inside, Asleep
<1>3. WaitingIsExact' /\ waiting' \in [Lane -> Nat]
  BY <1>1, <1>2, LaneGains DEF Enter, LimiterInv
<1>4. QED
  BY <1>2, <1>3 DEF Enter, LimiterInv, TypeOK, OneProbePerPeriod

LEMMA DropInv ==
  ASSUME LimiterInv, NEW r \in Req, Drop(r)
  PROVE  LimiterInv'
<1> DEFINE s == [st EXCEPT ![r] = "idle"]
<1>1. st \in [Req -> State] /\ s \in [Req -> State] /\ st[r] \in Inside /\ waiting \in [Lane -> Nat]
  BY DEF LimiterInv, TypeOK, State, Drop
<1>2. st' \in [Req -> State] /\ \A q \in Req : st'[q] \in Inside <=> s[q] \in Inside
  BY <1>1, NotifiedKeeps DEF Drop, Woken
<1>3. st'[r] \notin Inside /\ \A q \in Req \ {r} : st[q] \in Inside <=> st'[q] \in Inside
  BY <1>1, <1>2 DEF Inside, Asleep
<1>4. WaitingIsExact' /\ waiting' \in [Lane -> Nat]
  BY <1>1, <1>3, LaneLoses DEF Drop, LimiterInv
<1>5. QED
  BY <1>2, <1>4 DEF Drop, LimiterInv, TypeOK, OneProbePerPeriod

\* An answer: the breaker is judged, or left alone by a straggler.
LEMMA ReportInv ==
  ASSUME LimiterInv, NEW r \in Req, NEW outcome \in Outcome, Report(r, outcome)
  PROVE  LimiterInv'
<1> DEFINE s == [st EXCEPT ![r] = "idle"]
           b == Expired(brk)
<1>1. st \in [Req -> State] /\ s \in [Req -> State] /\ st[r] = "out" /\ s[r] = "idle"
      /\ UNCHANGED <<waiting, slot>>
  BY DEF LimiterInv, TypeOK, State, Report
<1>2. st' = s \/ st' = Notified(s)
  BY DEF Report
<1>3. st' \in [Req -> State] /\ \A q \in Req : st'[q] \in Inside <=> s[q] \in Inside
  BY <1>1, <1>2, NotifiedKeeps
<1>4. \A q \in Req : st[q] \in Inside <=> st'[q] \in Inside
  BY <1>1, <1>3 DEF Inside, Asleep
<1>5. WaitingIsExact'
  BY <1>1, <1>4, LanesStay DEF LimiterInv
<1>6. b \in Breaker /\ (b.probe => b.open) /\ (brk.probe => brk.open)
      /\ (b = brk \/ (brk.probe /\ b.open /\ ~b.probe))
  BY ExpiredBreaker DEF LimiterInv, TypeOK
<1>7. brk' \in Breaker /\ (brk'.probe => brk'.open)
      /\ probeOf' \in Req \cup {NoReq} /\ openGrants' \in Nat /\ OneProbePerPeriod'
  <2>1. CASE b.open /\ ~b.probe
    BY <2>1, LookInv DEF Report, LimiterInv
  <2>2. CASE ~(b.open /\ ~b.probe)
    <3> DEFINE j == Judged(b, outcome)
    <3>1. j \in Breaker /\ (j.probe => j.open) /\ (j.probe => b.probe)
      BY <1>6, <2>2, JudgedBreaker
    <3>2. NewBreaker(j)
      BY <2>2 DEF Report
    <3>3. b = brk
      BY <1>6, <2>2
    <3>4. j.open /\ brk.open => j.probe = brk.probe \/ (brk.probe /\ ~j.probe)
      BY <1>6, <2>2, <3>1, <3>3 DEF Breaker
    <3>5. j.open /\ ~brk.open => ~j.probe
      BY <1>6, <3>1, <3>3
    <3> HIDE DEF j
    <3>6. TypeOK /\ OneProbePerPeriod
      BY DEF LimiterInv
    <3>7. QED
      BY <3>1, <3>2, <3>4, <3>5, <3>6, NewBreakerInv
  <2>3. QED
    BY <2>1, <2>2
<1>8. QED
  BY <1>1, <1>3, <1>5, <1>7 DEF LimiterInv, TypeOK

\* What moves no breaker, no lane and no history.
LEMMA StillInv ==
  ASSUME LimiterInv, UNCHANGED <<waiting, probeOf, openGrants>>,
         slot' \in Slot, st' \in [Req -> State],
         \A q \in Req : st[q] \in Inside <=> st'[q] \in Inside,
         brk' \in Breaker, brk'.open = brk.open, brk'.probe = brk.probe
  PROVE  LimiterInv'
<1>1. WaitingIsExact'
  BY LanesStay DEF LimiterInv
<1>2. QED
  BY <1>1 DEF LimiterInv, TypeOK, OneProbePerPeriod

LEMMA RestInv ==
  ASSUME LimiterInv, (\E r \in Req : Wake(r) \/ Abandon(r)) \/ SetRate \/ Time \/ UNCHANGED vars
  PROVE  LimiterInv'
<1>1. st \in [Req -> State] /\ slot \in Slot /\ brk \in Breaker
  BY DEF LimiterInv, TypeOK
<1>2. CASE \E r \in Req : Wake(r) \/ Abandon(r)
  <2>1. PICK r \in Req : Wake(r) \/ Abandon(r)
    BY <1>2
  <2>2. st' \in [Req -> State] /\ \A q \in Req : st[q] \in Inside <=> st'[q] \in Inside
    BY <1>1, <2>1 DEF Wake, Abandon, State, Inside, Asleep
  <2>3. QED
    BY <1>1, <2>1, <2>2, StillInv DEF Wake, Abandon
<1>3. CASE SetRate
  <2>1. st' \in [Req -> State] /\ \A q \in Req : st[q] \in Inside <=> st'[q] \in Inside
    BY <1>1, <1>3, NotifiedKeeps DEF SetRate
  <2>2. QED
    BY <1>1, <1>3, <2>1, StillInv DEF SetRate, Slot
<1>4. CASE Time
  <2>1. UNCHANGED <<st, waiting, probeOf, openGrants>> /\ slot' \in Slot
    BY <1>1, <1>4 DEF Time, SlotOpens, SlotPasses, PeriodEnds, ProbeGrowsLate, LadderResets, Later, Slot
  <2>2. brk' \in Breaker /\ brk'.open = brk.open /\ brk'.probe = brk.probe
    BY <1>1, <1>4 DEF Time, SlotOpens, SlotPasses, PeriodEnds, ProbeGrowsLate, LadderResets, Later, Breaker
  <2>3. QED
    BY <1>1, <2>1, <2>2, StillInv
<1>5. CASE UNCHANGED vars
  BY <1>1, <1>5, StillInv DEF vars
<1>6. QED
  BY <1>2, <1>3, <1>4, <1>5

LEMMA NextLimiter == LimiterInv /\ [Next]_vars => LimiterInv'
<1> SUFFICES ASSUME LimiterInv, [Next]_vars PROVE LimiterInv'
  OBVIOUS
<1>1. ASSUME NEW r \in Req, Enter(r) \/ Pass(r) \/ Drop(r) PROVE LimiterInv'
  BY <1>1, EnterInv, RefuseInv, AsleepInv, GrantInv, DropInv DEF Pass
<1>2. ASSUME NEW r \in Req, NEW outcome \in Outcome, Report(r, outcome) PROVE LimiterInv'
  BY <1>2, ReportInv
<1>3. CASE Look
  <2>1. WaitingIsExact'
    BY <1>3, LanesStay DEF Look, LimiterInv
  <2>2. QED
    BY <1>3, <2>1, LookInv DEF Look, LimiterInv, TypeOK
<1>4. CASE (\E r \in Req : Wake(r) \/ Abandon(r)) \/ SetRate \/ Time \/ UNCHANGED vars
  BY <1>4, RestInv
<1>5. QED
  BY <1>1, <1>2, <1>3, <1>4 DEF Next

\* The inductive invariant, through every pass of wait_for_slot, every report
\* and every dropped caller.
THEOREM LimiterInvariance == Spec => []LimiterInv
<1>1. Init => LimiterInv
  BY InitLimiter
<1>2. LimiterInv /\ [Next]_vars => LimiterInv'
  BY NextLimiter
<1>3. QED
  BY <1>1, <1>2, PTL DEF Spec

\* The limiter's state is well formed: no lane's counter goes below zero, the
\* row of transport errors stays below the limit that trips the breaker.
THEOREM LimiterTypes == Spec => []TypeOK
BY LimiterInvariance, PTL DEF LimiterInv

\* Waiting::drop and the grants keep the lane counters exact.
THEOREM WaitingIsExactHolds == Spec => []WaitingIsExact
BY LimiterInvariance, PTL DEF LimiterInv

\* pass lets one request through an open breaker until it trips again or closes.
THEOREM OneProbePerPeriodHolds == Spec => []OneProbePerPeriod
BY LimiterInvariance, PTL DEF LimiterInv

\* Because the counters are exact, a grant never overtakes a caller of a higher
\* lane that is still waiting.
THEOREM PriorityHolds == Spec => PriorityRespected
<1>1. ASSUME LimiterInv, [Next]_vars, NEW r \in Req, NEW q \in Req,
             st[r] # "out", st'[r] = "out", LaneOf[q] < LaneOf[r]
      PROVE  st[q] \notin Inside
  <2>1. st \in [Req -> State]
    BY <1>1 DEF LimiterInv, TypeOK
  <2>2. Grant(r)
    <3>1. CASE \E p \in Req : Enter(p) \/ Wake(p) \/ Abandon(p) \/ Park(p) \/ Sleep(p)
      BY <1>1, <2>1, <3>1 DEF Enter, Wake, Abandon, Park, Sleep
    <3>2. CASE \E p \in Req : Refuse(p) \/ Drop(p) \/ \E outcome \in Outcome : Report(p, outcome)
      <4>1. PICK p \in Req : st' = [st EXCEPT ![p] = "idle"] \/ st' = Notified([st EXCEPT ![p] = "idle"])
        BY <3>2 DEF Refuse, Drop, Woken, Report
      <4>2. [st EXCEPT ![p] = "idle"] \in [Req -> State]
        BY <2>1 DEF State
      <4>3. QED
        BY <1>1, <2>1, <4>1, <4>2, NotifiedKeeps
    <3>3. CASE \E p \in Req : Grant(p)
      <4>1. PICK p \in Req : Grant(p)
        BY <3>3
      <4>2. [st EXCEPT ![p] = "out"] \in [Req -> State]
        BY <2>1 DEF State
      <4>3. \A o \in Req : st'[o] = "out" <=> [st EXCEPT ![p] = "out"][o] = "out"
        BY <4>1, <4>2, NotifiedKeeps DEF Grant
      <4>4. QED
        BY <1>1, <2>1, <4>1, <4>3
    <3>4. CASE Look \/ Time \/ UNCHANGED vars
      BY <1>1, <3>4 DEF Look, Time, SlotOpens, SlotPasses, PeriodEnds, ProbeGrowsLate, LadderResets, Later, vars
    <3>5. CASE SetRate
      BY <1>1, <2>1, <3>5, NotifiedKeeps DEF SetRate
    <3>6. QED
      BY <1>1, <3>1, <3>2, <3>3, <3>4, <3>5 DEF Next, Pass
  <2>3. LaneOf[q] \in Lane /\ LaneOf[r] \in Lane /\ ~(waiting[LaneOf[q]] > 0)
    BY <1>1, <2>2, MarketLimiterAssumption DEF Grant, HigherWaits
  <2>4. Cardinality(InLane(LaneOf[q])) = 0
    BY <1>1, <2>3 DEF LimiterInv, TypeOK, WaitingIsExact
  <2>5. InLane(LaneOf[q]) = {}
    BY <2>3, <2>4, LaneFinite, FS_EmptySet
  <2>6. QED
    BY <2>5 DEF InLane
<1>2. LimiterInv /\ [Next]_vars =>
        [\A r, q \in Req : st[r] # "out" /\ st'[r] = "out" /\ LaneOf[q] < LaneOf[r] => st[q] \notin Inside]_vars
  BY <1>1
<1>3. QED
  BY <1>2, LimiterInvariance, PTL DEF Spec, PriorityRespected

----------------------------------------------------------------------------
(* The end of a probe.                                                     *)

\* A rung higher with a new period, or closed.
Ended(b) == ~b.open \/ (b.step = Higher(brk.step) /\ ~b.over)

\* Whoever finds the probe late, and whatever is reported of it.
LEMMA ProbeIsJudged ==
  ASSUME TypeOK, brk.probe
  PROVE  /\ Expired(brk) = brk \/ Ended(Expired(brk))
         /\ \A outcome \in Outcome : Ended(Judged(brk, outcome))
<1>1. brk \in Breaker /\ brk.open
  BY DEF TypeOK
<1>2. Ended(Tripped(brk)) /\ Ended(Closed(brk))
  BY <1>1 DEF Ended, Tripped, Closed, Breaker
<1>3. ASSUME NEW outcome \in Outcome PROVE Ended(Judged(brk, outcome))
  BY <1>2, <1>3 DEF Judged, Outcome
<1>4. QED
  BY <1>2, <1>3 DEF Expired

LEMMA ProbeEnds ==
  ASSUME LimiterInv, [Next]_vars, brk.probe, ~brk'.probe
  PROVE  Ended(brk')
<1>1. TypeOK /\ brk \in Breaker /\ brk.open
  BY DEF LimiterInv, TypeOK
<1>2. brk' # brk
  BY <1>1
<1>3. CASE \E r \in Req : Refuse(r) \/ Park(r) \/ Sleep(r)
  BY <1>1, <1>2, <1>3, ProbeIsJudged DEF Refuse, Park, Sleep, NewBreaker
<1>4. CASE \E r \in Req : Grant(r)
  <2>1. Expired(brk).open
    BY <1>1, ExpiredBreaker
  <2>2. Granted(Expired(brk)).probe
    BY <1>1, <2>1, ExpiredBreaker DEF Granted, Breaker
  <2>3. QED
    BY <1>4, <2>2 DEF Grant
<1>5. CASE \E r \in Req, outcome \in Outcome : Report(r, outcome)
  <2>1. PICK r \in Req, outcome \in Outcome : Report(r, outcome)
    BY <1>5
  <2>2. brk' = Expired(brk) \/ brk' = Judged(Expired(brk), outcome)
    BY <2>1 DEF Report, NewBreaker
  <2>3. CASE Expired(brk) = brk
    BY <1>1, <1>2, <2>2, <2>3, ProbeIsJudged
  <2>4. CASE Expired(brk) # brk
    <3>1. Expired(brk).open /\ ~Expired(brk).probe
      BY <1>1, <2>4, ExpiredBreaker
    <3>2. brk' = Expired(brk)
      BY <2>1, <3>1 DEF Report, NewBreaker
    <3>3. QED
      BY <1>1, <2>4, <3>2, ProbeIsJudged
  <2>5. QED
    BY <2>3, <2>4
<1>6. CASE Look
  BY <1>1, <1>2, <1>6, ProbeIsJudged DEF Look, NewBreaker
<1>7. CASE Time
  BY <1>1, <1>7 DEF Time, SlotOpens, SlotPasses, PeriodEnds, ProbeGrowsLate, LadderResets, Later, Breaker
<1>8. CASE (\E r \in Req : Enter(r) \/ Wake(r) \/ Drop(r) \/ Abandon(r)) \/ SetRate \/ UNCHANGED vars
  BY <1>2, <1>8 DEF Enter, Wake, Drop, Abandon, SetRate, vars
<1>9. QED
  BY <1>3, <1>4, <1>5, <1>6, <1>7, <1>8 DEF Next, Pass

\* However a probe ends (answered, blocked, failed, lost, found late by whoever looks),
\* the breaker closes or a new period starts one rung higher.
THEOREM ProbeEndsPeriodHolds == Spec => ProbeEndsPeriod
<1>1. LimiterInv /\ [Next]_vars =>
        [brk.probe /\ ~brk'.probe => ~brk'.open \/ (brk'.step = Higher(brk.step) /\ ~brk'.over)]_vars
  BY ProbeEnds DEF Ended
<1>2. QED
  BY <1>1, LimiterInvariance, PTL DEF Spec, ProbeEndsPeriod

-----------------------------------------------------------------------------
(* Counting up, folds and sums over a finite set, by the least counterexample.   *)

\* A set of numbers that is not empty has a least one.
LEMMA HasLeastNumber ==
  ASSUME NEW T \in SUBSET Nat, T # {}
  PROVE  \E x \in T : \A y \in T : x <= y
<1> DEFINE Lt == OpToRel(<, Nat)
<1>1. IsWellFoundedOn(Lt, Nat)
  BY NatLessThanWellFounded, Zenon
<1>2. ASSUME NEW x \in Nat, NEW y \in Nat, x < y
      PROVE  <<x, y>> \in Lt
  <2>1. <<x, y>> \in Nat \X Nat /\ <<x, y>>[1] = x /\ <<x, y>>[2] = y
    OBVIOUS
  <2> QED BY <1>2, <2>1, Zenon DEF OpToRel
<1> HIDE DEF Lt
<1>3. PICK x \in T : \A y \in T : ~(<<y, x>> \in Lt)
  BY <1>1, WFMin
<1>4. \A y \in T : ~(y < x)
  BY <1>2, <1>3
<1> QED
  BY <1>4

\* A statement about numbers holds up to a bound when it holds at 0 and each
\* number passes it on: the statement is the set of the numbers it holds for.
LEMMA CountUp ==
  ASSUME NEW Good, 0 \in Good, NEW n \in Nat, \A k \in 0..(n - 1) : k \in Good => k + 1 \in Good
  PROVE  \A k \in 0..n : k \in Good
<1> DEFINE Bad == {k \in 0..n : k \notin Good}
<1> SUFFICES ASSUME Bad # {} PROVE FALSE
  OBVIOUS
<1>0. Bad \in SUBSET Nat
  OBVIOUS
<1> HIDE DEF Bad
<1>1. PICK k \in Bad : \A j \in Bad : k <= j
  BY <1>0, HasLeastNumber
<1> USE DEF Bad
<1>2. k # 0 /\ k - 1 \in 0..(n - 1) /\ k - 1 \notin Bad
  BY <1>1
<1>3. k - 1 \in Good
  BY <1>2
<1>4. (k - 1) + 1 \in Good
  BY <1>2, <1>3
<1> QED
  BY <1>1, <1>4

\* A fold over the subsets of a finite set has the values its equation says: the
\* element it takes next is ch's, and step is the step.
StepsOf(S, V) == [S -> [V -> V]]
Folds(f, V, step, base, ch, S) ==
  /\ f \in [SUBSET S -> V]
  /\ \A T \in SUBSET S : f[T] = IF T = {} THEN base ELSE step[ch[T]][f[T \ {ch[T]}]]

\* Whatever its steps, a fold over a finite set has values.
LEMMA FoldExists ==
  ASSUME NEW S, IsFiniteSet(S), NEW V, NEW base \in V,
         NEW step \in StepsOf(S, V), NEW ch,
         \A T \in SUBSET S : T # {} => ch[T] \in T
  PROVE  \E f : Folds(f, V, step, base, ch, S)
<1> DEFINE Holds(f, k) == \A T \in SUBSET S : Cardinality(T) <= k =>
             f[T] = IF T = {} THEN base ELSE step[ch[T]][f[T \ {ch[T]}]]
           Q == {k \in Nat : \E f \in [SUBSET S -> V] : Holds(f, k)}
           n == Cardinality(S)
<1>n. n \in Nat
  BY FS_CardinalityType
<1>f. \A T \in SUBSET S : IsFiniteSet(T) /\ Cardinality(T) \in Nat /\ Cardinality(T) <= n
  BY FS_Subset, FS_CardinalityType
<1>e. \A T \in SUBSET S : Cardinality(T) = 0 <=> T = {}
  BY <1>f, FS_EmptySet
<1>0. 0 \in Q
  <2> DEFINE f == [T \in SUBSET S |-> base]
  <2>1. f \in [SUBSET S -> V]
    OBVIOUS
  <2>2. Holds(f, 0)
    BY <1>e, <1>f
  <2> QED BY <2>1, <2>2
<1>1. ASSUME NEW k \in 0..(n - 1), k \in Q
      PROVE  k + 1 \in Q
  <2>1. PICK f \in [SUBSET S -> V] : Holds(f, k)
    BY <1>1
  <2> DEFINE g == [T \in SUBSET S |-> IF Cardinality(T) <= k THEN f[T]
                                      ELSE step[ch[T]][f[T \ {ch[T]}]]]
  <2>2. k \in Nat
    BY <1>n
  <2>3. ASSUME NEW T \in SUBSET S, T # {}
        PROVE  /\ ch[T] \in S /\ T \ {ch[T]} \in SUBSET S
               /\ Cardinality(T \ {ch[T]}) = Cardinality(T) - 1
    <3>1. ch[T] \in T
      BY <2>3
    <3> QED BY <3>1, <1>f, FS_RemoveElement
  <2>4. g \in [SUBSET S -> V]
    <3> SUFFICES ASSUME NEW T \in SUBSET S, ~(Cardinality(T) <= k)
                 PROVE  step[ch[T]][f[T \ {ch[T]}]] \in V
      BY <2>1
    <3>1. T # {}
      BY <1>e, <2>2
    <3>2. ch[T] \in S /\ f[T \ {ch[T]}] \in V
      BY <2>1, <2>3, <3>1
    <3>3. step[ch[T]] \in [V -> V]
      BY <3>2 DEF StepsOf
    <3> QED BY <3>2, <3>3
  <2>5. Holds(g, k + 1)
    <3> SUFFICES ASSUME NEW T \in SUBSET S, Cardinality(T) <= k + 1
                 PROVE  g[T] = IF T = {} THEN base ELSE step[ch[T]][g[T \ {ch[T]}]]
      OBVIOUS
    <3>1. CASE T = {}
      <4>1. Cardinality(T) <= k
        BY <1>e, <2>2, <3>1
      <4> QED BY <2>1, <3>1, <4>1
    <3>2. CASE T # {}
      <4>1. Cardinality(T \ {ch[T]}) <= k /\ T \ {ch[T]} \in SUBSET S
        BY <1>f, <2>2, <2>3, <3>2
      <4>2. g[T \ {ch[T]}] = f[T \ {ch[T]}]
        BY <4>1
      <4>3. CASE Cardinality(T) <= k
        <5>1. f[T] = step[ch[T]][f[T \ {ch[T]}]]
          BY <2>1, <3>2, <4>3
        <5> QED BY <3>2, <4>2, <4>3, <5>1
      <4>4. CASE ~(Cardinality(T) <= k)
        BY <3>2, <4>2, <4>4
      <4> QED BY <4>3, <4>4
    <3> QED BY <3>1, <3>2
  <2> HIDE DEF g, Holds
  <2> QED BY <2>2, <2>4, <2>5
<1> HIDE DEF Q
<1>2. n \in Q
  BY <1>0, <1>1, <1>n, CountUp
<1>3. PICK f \in [SUBSET S -> V] : Holds(f, n)
  BY <1>2 DEF Q
<1> QED
  BY <1>3, <1>f DEF Folds

\* A sum over the subsets of a finite set, whatever order it is taken in.
IsSum(f, g, S) ==
  /\ f[{}] = 0
  /\ \A T \in SUBSET S : f[T] \in Int /\ \A x \in T : f[T] = g[x] + f[T \ {x}]

\* Integers have a sum over a finite set.
LEMMA SumExists ==
  ASSUME NEW S, IsFiniteSet(S), NEW g \in [S -> Int]
  PROVE  \E f : IsSum(f, g, S)
<1> DEFINE Holds(U, f) == f[{}] = 0 /\ \A T \in SUBSET U : \A x \in T : f[T] = g[x] + f[T \ {x}]
           Q == {k \in Nat : \A U \in SUBSET S : Cardinality(U) = k =>
                               \E f \in [SUBSET U -> Int] : Holds(U, f)}
           n == Cardinality(S)
<1>n. n \in Nat
  BY FS_CardinalityType
<1>f. \A T \in SUBSET S : IsFiniteSet(T) /\ Cardinality(T) \in Nat
  BY FS_Subset, FS_CardinalityType
<1>0. 0 \in Q
  <2> SUFFICES ASSUME NEW U \in SUBSET S, Cardinality(U) = 0
               PROVE  \E f \in [SUBSET U -> Int] : Holds(U, f)
    OBVIOUS
  <2>1. U = {}
    BY <1>f, FS_EmptySet
  <2>2. [T \in SUBSET U |-> 0] \in [SUBSET U -> Int] /\ Holds(U, [T \in SUBSET U |-> 0])
    BY <2>1
  <2> QED BY <2>2
<1>1. ASSUME NEW k \in 0..(n - 1), k \in Q
      PROVE  k + 1 \in Q
  <2> SUFFICES ASSUME NEW U \in SUBSET S, Cardinality(U) = k + 1
               PROVE  \E f \in [SUBSET U -> Int] : Holds(U, f)
    <3> HIDE DEF Holds
    <3>1. k + 1 \in Nat
      BY <1>n
    <3> QED BY <3>1
  <2>1. U # {}
    <3>1. IsFiniteSet(U) /\ k + 1 # 0
      BY <1>f, <1>n
    <3> QED BY <3>1, FS_EmptySet
  <2>2. PICK d \in U : TRUE
    BY <2>1
  <2> DEFINE E == U \ {d}
  <2>3. E \in SUBSET S /\ Cardinality(E) = k
    <3>1. Cardinality(E) = Cardinality(U) - 1
      BY <1>f, FS_RemoveElement, Zenon
    <3> QED BY <1>n, <3>1
  <2>4. PICK f \in [SUBSET E -> Int] : Holds(E, f)
    BY <1>1, <2>3
  <2> DEFINE h == [T \in SUBSET U |-> f[T \ {d}] + IF d \in T THEN g[d] ELSE 0]
  <2>5. \A T \in SUBSET U : f[T \ {d}] \in Int
    <3> TAKE T \in SUBSET U
    <3>1. T \ {d} \in SUBSET E
      OBVIOUS
    <3> QED BY <2>4, <3>1
  <2>6. h \in [SUBSET U -> Int]
    <3>1. g[d] \in Int
      OBVIOUS
    <3> QED BY <2>5, <3>1
  <2>7. h[{}] = 0
    <3>1. {} \ {d} = {} /\ {} \in SUBSET U
      OBVIOUS
    <3> QED BY <2>4, <3>1
  <2>8. ASSUME NEW T \in SUBSET U, NEW x \in T
        PROVE  h[T] = g[x] + h[T \ {x}]
    <3>1. g[x] \in Int /\ T \ {x} \in SUBSET U
      OBVIOUS
    <3>2. CASE x = d
      <4>1. (T \ {x}) \ {d} = T \ {d}
        BY <3>2
      <4>2. h[T \ {x}] = f[(T \ {x}) \ {d}] + 0
        BY <3>1, <3>2
      <4>3. h[T] = f[T \ {d}] + g[d]
        BY <3>2
      <4> DEFINE u == f[T \ {d}]
      <4>4. h[T \ {x}] = u + 0 /\ h[T] = u + g[x] /\ u \in Int /\ g[x] \in Int
        BY <2>5, <3>1, <3>2, <4>1, <4>2, <4>3
      <4> HIDE DEF h, u
      <4> QED BY <4>4
    <3>3. CASE x # d
      <4>1. T \ {d} \in SUBSET E /\ x \in T \ {d}
        BY <3>3
      <4>2. f[T \ {d}] = g[x] + f[(T \ {d}) \ {x}]
        BY <2>4, <4>1
      <4>3. (T \ {d}) \ {x} = (T \ {x}) \ {d}
        OBVIOUS
      <4>4. f[(T \ {x}) \ {d}] \in Int
        BY <2>5, <3>1
      <4> DEFINE b == IF d \in T THEN g[d] ELSE 0
      <4>5. b \in Int /\ b = IF d \in T \ {x} THEN g[d] ELSE 0
        BY <3>3
      <4>6. h[T] = f[T \ {d}] + b /\ h[T \ {x}] = f[(T \ {x}) \ {d}] + b
        BY <3>1, <4>5
      <4> DEFINE u == f[(T \ {x}) \ {d}]
                 v == g[x]
      <4>7. h[T] = (v + u) + b /\ h[T \ {x}] = u + b /\ u \in Int /\ v \in Int
        BY <3>1, <4>2, <4>3, <4>4, <4>6
      <4> HIDE DEF b, h, u
      <4>8. (v + u) + b = v + (u + b)
        BY <4>5, <4>7
      <4> QED BY <4>7, <4>8
    <3> QED BY <3>2, <3>3
  <2> HIDE DEF h
  <2> QED BY <2>6, <2>7, <2>8
<1> HIDE DEF Q
<1>2. n \in Q
  BY <1>0, <1>1, <1>n, CountUp
<1>3. PICK f \in [SUBSET S -> Int] : Holds(S, f)
  BY <1>2 DEF Q
<1> QED
  BY <1>3 DEF IsSum

\* The sum of g over S, and of the subsets of S: what a sum's own iteration gives.
SumOf(g, S) == (CHOOSE f : IsSum(f, g, S))[S]

\* A sum is only one: over a part of the set, too.
LEMMA OneSum ==
  ASSUME NEW S, IsFiniteSet(S), NEW g, NEW U \in SUBSET S,
         NEW e, IsSum(e, g, S), NEW h, IsSum(h, g, U)
  PROVE  e[U] = h[U]
<1> DEFINE Q == {k \in Nat : \A T \in SUBSET U : Cardinality(T) = k => e[T] = h[T]}
<1>f. \A T \in SUBSET U : IsFiniteSet(T)
  BY FS_Subset
<1>0. 0 \in Q
  <2> SUFFICES ASSUME NEW T \in SUBSET U, Cardinality(T) = 0 PROVE e[T] = h[T]
    OBVIOUS
  <2>1. T = {}
    BY <1>f, FS_EmptySet
  <2> QED BY <2>1 DEF IsSum
<1>1. ASSUME NEW k \in Nat, k \in Q PROVE k + 1 \in Q
  <2> SUFFICES ASSUME NEW T \in SUBSET U, Cardinality(T) = k + 1 PROVE e[T] = h[T]
    OBVIOUS
  <2>1. T # {} /\ IsFiniteSet(T)
    BY <1>f, FS_EmptySet
  <2>2. PICK x \in T : TRUE
    BY <2>1
  <2>3. Cardinality(T \ {x}) = Cardinality(T) - 1
    BY <2>1, <2>2, FS_RemoveElement, Zenon
  <2>4. T \ {x} \in SUBSET U /\ Cardinality(T \ {x}) = k
    BY <2>3
  <2>5. e[T \ {x}] = h[T \ {x}]
    BY <1>1, <2>4
  <2>6. e[T] = g[x] + e[T \ {x}] /\ h[T] = g[x] + h[T \ {x}]
    BY DEF IsSum
  <2> QED BY <2>5, <2>6
<1> HIDE DEF Q
<1>2. Cardinality(U) \in Nat
  BY <1>f, FS_CardinalityType
<1>3. Cardinality(U) \in Q
  BY <1>0, <1>1, <1>2, CountUp
<1> QED BY <1>3 DEF Q

\* What adds up as a sum does is the sum.
LEMMA SumIs ==
  ASSUME NEW S, IsFiniteSet(S), NEW g \in [S -> Int], NEW f, IsSum(f, g, S), NEW U \in SUBSET S
  PROVE  f[U] = SumOf(g, U)
<1> DEFINE h == CHOOSE e : IsSum(e, g, U)
<1>1. IsSum(f, g, U)
  BY DEF IsSum
<1>2. IsSum(h, g, U)
  BY <1>1, Zenon
<1> HIDE DEF h
<1>3. f[U] = h[U]
  BY <1>2, OneSum
<1> QED BY <1>3 DEF SumOf, h

Sums(g, S) ==
  /\ SumOf(g, {}) = 0
  /\ \A T \in SUBSET S : SumOf(g, T) \in Int
  /\ \A T \in SUBSET S : \A x \in T : SumOf(g, T) = g[x] + SumOf(g, T \ {x})
  /\ \A T \in SUBSET S : \A x \in S \ T : SumOf(g, T \cup {x}) = SumOf(g, T) + g[x]

\* A sum of integers is one; an element put in or taken out changes it by its number.
LEMMA SumFacts ==
  ASSUME NEW S, IsFiniteSet(S), NEW g \in [S -> Int]
  PROVE  Sums(g, S)
<1>1. PICK f : IsSum(f, g, S)
  BY SumExists
<1>2. \A T \in SUBSET S : f[T] = SumOf(g, T)
  BY <1>1, SumIs
<1>3. {} \in SUBSET S /\ \A T \in SUBSET S : \A x \in T : T \ {x} \in SUBSET S
  OBVIOUS
<1>4. ASSUME NEW T \in SUBSET S, NEW x \in S \ T
      PROVE  SumOf(g, T \cup {x}) = SumOf(g, T) + g[x]
  <2>1. T \cup {x} \in SUBSET S /\ x \in T \cup {x} /\ (T \cup {x}) \ {x} = T
    OBVIOUS
  <2>2. f[T \cup {x}] = g[x] + f[T] /\ f[T] \in Int
    BY <1>1, <2>1 DEF IsSum
  <2> DEFINE a == f[T] b == g[x]
  <2>3. f[T \cup {x}] = b + a /\ a \in Int /\ b \in Int /\ SumOf(g, T) = a /\ SumOf(g, T \cup {x}) = f[T \cup {x}]
    BY <1>2, <2>1, <2>2
  <2> HIDE DEF a
  <2> QED BY <2>3
<1>5. \A T \in SUBSET S : SumOf(g, T) \in Int
  BY <1>1, <1>2 DEF IsSum
<1>6. \A T \in SUBSET S : \A x \in T : SumOf(g, T) = g[x] + SumOf(g, T \ {x})
  BY <1>1, <1>2, <1>3 DEF IsSum
<1>7. SumOf(g, {}) = 0
  BY <1>1, <1>2, <1>3 DEF IsSum
<1> QED
  BY <1>4, <1>5, <1>6, <1>7 DEF Sums

\* What the library's iteration over a set computes is that sum.
Adds(it, g, S) == \A s \in SUBSET S :
  it[s] = IF s = {} THEN 0 ELSE g[CHOOSE x \in s : TRUE] + it[s \ {CHOOSE x \in s : TRUE}]

\* The sums over the parts of a set obey the library's iteration.
LEMMA SumAdds ==
  ASSUME NEW S, IsFiniteSet(S), NEW g \in [S -> Int]
  PROVE  Adds([T \in SUBSET S |-> SumOf(g, T)], g, S)
<1>1. SumOf(g, {}) = 0
  BY SumFacts DEF Sums
<1>2. ASSUME NEW T \in SUBSET S, NEW x \in T
      PROVE  SumOf(g, T) = g[x] + SumOf(g, T \ {x})
  BY SumFacts DEF Sums
<1>3. \A T : T # {} => (CHOOSE x \in T : TRUE) \in T
  OBVIOUS
<1> QED BY <1>1, <1>2, <1>3 DEF Adds

\* The library's iteration, which picks its elements, computes the sum.
LEMMA IterationIsSum ==
  ASSUME NEW S, IsFiniteSet(S), NEW g \in [S -> Int], NEW it, Adds(it, g, S)
  PROVE  it[S] = SumOf(g, S)
<1> DEFINE Q == {k \in Nat : \A T \in SUBSET S : Cardinality(T) = k => it[T] = SumOf(g, T)}
<1>f. \A T \in SUBSET S : IsFiniteSet(T)
  BY FS_Subset
<1>0. 0 \in Q
  <2> SUFFICES ASSUME NEW T \in SUBSET S, Cardinality(T) = 0 PROVE it[T] = SumOf(g, T)
    OBVIOUS
  <2>1. T = {}
    BY <1>f, FS_EmptySet
  <2>2. it[T] = 0
    BY <2>1 DEF Adds
  <2> QED BY <2>1, <2>2, SumFacts DEF Sums
<1>1. ASSUME NEW k \in Nat, k \in Q PROVE k + 1 \in Q
  <2> SUFFICES ASSUME NEW T \in SUBSET S, Cardinality(T) = k + 1 PROVE it[T] = SumOf(g, T)
    OBVIOUS
  <2>1. T # {}
    BY <1>f, FS_EmptySet
  <2>2. PICK x : x = CHOOSE y \in T : TRUE
    BY Zenon
  <2>3. x \in T /\ it[T] = g[x] + it[T \ {x}]
    BY <2>1, <2>2 DEF Adds
  <2>4. Cardinality(T \ {x}) = k /\ T \ {x} \in SUBSET S
    <3>1. Cardinality(T \ {x}) = Cardinality(T) - 1
      BY <1>f, <2>3, FS_RemoveElement, Zenon
    <3> QED BY <3>1
  <2>5. it[T \ {x}] = SumOf(g, T \ {x})
    BY <1>1, <2>4
  <2>6. SumOf(g, T) = g[x] + SumOf(g, T \ {x})
    BY <2>3, SumFacts DEF Sums
  <2> QED BY <2>3, <2>5, <2>6
<1> HIDE DEF Q
<1>2. Cardinality(S) \in Nat
  BY FS_CardinalityType
<1>3. Cardinality(S) \in Q
  BY <1>0, <1>1, <1>2, CountUp
<1> QED BY <1>3 DEF Q

-----------------------------------------------------------------------------
(* The rules: the knapsack, its table and the walk back over it.               *)

\* A set of numbers up to n has the largest one the library picks.
LEMMA LargestIs ==
  ASSUME NEW n \in Nat, NEW T \in SUBSET (1..n), T # {}
  PROVE  P!Max(T) \in T /\ \A y \in T : y <= P!Max(T)
<1> DEFINE U == {m \in Nat : \A y \in T : y <= m}
<1>1. n \in U /\ U \in SUBSET Nat
  OBVIOUS
<1> HIDE DEF U
<1>2. PICK m \in U : \A k \in U : m <= k
  BY <1>1, HasLeastNumber
<1> USE DEF U
<1>3. m \in T
  <2> SUFFICES ASSUME m \notin T PROVE FALSE
    OBVIOUS
  <2>1. PICK y \in T : TRUE
    OBVIOUS
  <2>2. y \in Nat /\ y <= m /\ y # m
    BY <1>2
  <2>3. m - 1 \in U
    BY <1>2, <2>2
  <2> QED BY <1>2, <2>3
<1>4. \A y \in T : m >= y
  BY <1>2
<1> QED
  BY <1>3, <1>4 DEF P!Max

\* The largest of 1..k is k, and the rest is 1..k-1.
LEMMA LastOf ==
  ASSUME NEW n \in Nat, NEW k \in 1..n
  PROVE  P!Max(1..k) = k /\ (1..k) \ {k} = 1..(k - 1) /\ 1..k \in SUBSET (1..n) /\ 1..k # {}
<1>1. 1..k \in SUBSET (1..n) /\ 1..k # {} /\ k \in 1..k /\ (1..k) \ {k} = 1..(k - 1)
  OBVIOUS
<1>2. P!Max(1..k) \in 1..k /\ \A y \in 1..k : y <= P!Max(1..k)
  BY <1>1, LargestIs
<1> QED BY <1>1, <1>2

\* A fold from the left has a value: `it' is the iteration over the sets of positions.
Steps(it, V, step, base, n) == it \in [SUBSET (1..n) -> V] /\ \A s \in SUBSET (1..n) :
  it[s] = IF s = {} THEN base ELSE step[P!Max(s)][it[s \ {P!Max(s)}]]

\* A fold over 1..n in order has values.
LEMMA StepsExist ==
  ASSUME NEW n \in Nat, NEW V, NEW base \in V, NEW step \in StepsOf(1..n, V)
  PROVE  \E f : Steps(f, V, step, base, n)
<1> PICK ch : ch = [T \in SUBSET (1..n) |-> P!Max(T)]
  OBVIOUS
<1> PICK S : S = 1..n
  OBVIOUS
<1>1. \A T \in SUBSET S : T # {} => ch[T] \in T
  BY LargestIs
<1>2. IsFiniteSet(S)
  BY FS_Interval
<1>3. PICK f : Folds(f, V, step, base, ch, S)
  BY <1>1, <1>2, FoldExists
<1> QED BY <1>3 DEF Steps, Folds

Chain(f, V, step, base, n) == f \in [0..n -> V] /\ f[0] = base /\ \A k \in 1..n : f[k] = step[k][f[k - 1]]

\* Such a fold takes its steps one by one.
LEMMA StepByStep ==
  ASSUME NEW n \in Nat, NEW V, NEW base \in V, NEW step \in StepsOf(1..n, V),
         NEW it, Steps(it, V, step, base, n)
  PROVE  \E f : Chain(f, V, step, base, n)
<1> DEFINE f == [k \in 0..n |-> it[1..k]]
<1>1. f[0] = base
  <2>1. f[0] = it[{}] /\ {} \in SUBSET (1..n)
    OBVIOUS
  <2>2. it[{}] = base
    BY <2>1 DEF Steps
  <2> QED BY <2>1, <2>2
<1>2. ASSUME NEW k \in 1..n
      PROVE  f[k] = step[k][f[k - 1]]
  <2>1. k \in 0..n /\ k - 1 \in 0..n
    OBVIOUS
  <2>2. it[1..k] = step[k][it[1..(k - 1)]]
    BY LastOf DEF Steps
  <2> QED BY <2>1, <2>2
<1> DEFINE Q == {k \in 0..n : f[k] \in V}
<1> HIDE DEF f
<1>3. 0 \in Q
  BY <1>1
<1>4. ASSUME NEW k \in 0..(n - 1), k \in Q PROVE k + 1 \in Q
  <2>1. k + 1 \in 1..n /\ (k + 1) - 1 = k /\ f[k] \in V
    BY <1>4
  <2>2. f[k + 1] = step[k + 1][f[k]] /\ step[k + 1] \in [V -> V]
    BY <1>2, <2>1 DEF StepsOf
  <2> QED BY <2>1, <2>2
<1> HIDE DEF Q
<1>5. \A k \in 0..n : k \in Q
  BY <1>3, <1>4, CountUp
<1>6. f \in [0..n -> V]
  BY <1>5 DEF Q, f
<1> QED BY <1>1, <1>2, <1>6 DEF Chain

-----------------------------------------------------------------------------
Tables(w_max) == [dp : [0..w_max -> Int], choice : Seq([0..w_max -> BOOLEAN])]

\* The fold of a row of the table fills it bid by bid (Filled).
LEMMA FilledIs ==
  ASSUME NEW W \in Nat, NEW a \in Tables(W), NEW bid, bid.price \in Int, bid.profit \in Int
  PROVE  P!Filled(a, bid, W) \in Tables(W) /\ P!Weight(bid) \in Nat
<1>1. P!Weight(bid) \in Nat
  BY DEF P!Weight, P!Larger
<1> DEFINE better == [w \in 0..W |-> P!Weight(bid) <= w /\ a.dp[w - P!Weight(bid)] + bid.profit > a.dp[w]]
<1>2. better \in [0..W -> BOOLEAN]
  OBVIOUS
<1>3. Append(a.choice, better) \in Seq([0..W -> BOOLEAN])
  BY <1>2 DEF Tables
<1> DEFINE dp == [w \in 0..W |-> IF better[w] THEN a.dp[w - P!Weight(bid)] + bid.profit ELSE a.dp[w]]
<1>4. dp \in [0..W -> Int]
  <2> SUFFICES ASSUME NEW w \in 0..W PROVE dp[w] \in Int
    OBVIOUS
  <2>1. better[w] => w - P!Weight(bid) \in 0..W
    <3>1. better[w] => P!Weight(bid) <= w
      OBVIOUS
    <3> HIDE DEF better
    <3> QED BY <1>1, <3>1
  <2> HIDE DEF better
  <2>2. dp[w] = IF better[w] THEN a.dp[w - P!Weight(bid)] + bid.profit ELSE a.dp[w]
    OBVIOUS
  <2>3. a.dp[w] \in Int /\ (better[w] => a.dp[w - P!Weight(bid)] \in Int)
    BY <2>1 DEF Tables
  <2> QED BY <2>2, <2>3
<1>5. P!Filled(a, bid, W) = [dp |-> dp, choice |-> Append(a.choice, better)]
  BY DEF P!Filled
<1> HIDE DEF better, dp
<1> QED BY <1>1, <1>3, <1>4, <1>5 DEF Tables

TableOf(bids, W) == P!FoldLeft(LAMBDA acc, bid : P!Filled(acc, bid, W),
                             [dp |-> [w \in 0..W |-> 0], choice |-> <<>>], bids)

FilledUp(tab, bids, n, W) ==
  /\ tab \in [0..n -> Tables(W)]
  /\ tab[0] = [dp |-> [w \in 0..W |-> 0], choice |-> <<>>]
  /\ \A k \in 1..n : tab[k] = P!Filled(tab[k - 1], bids[k], W)

\* The table the knapsack reads is the last row filled (knapsack).
LEMMA TableIs ==
  ASSUME NEW bids, NEW n \in Nat, DOMAIN bids = 1..n, NEW W \in Nat,
         \A i \in 1..n : bids[i].price \in Int /\ bids[i].profit \in Int
  PROVE  \E tab : FilledUp(tab, bids, n, W) /\ tab[n] = TableOf(bids, W)
<1> PICK V : V = Tables(W)
  OBVIOUS
<1> PICK base : base = [dp |-> [w \in 0..W |-> 0], choice |-> <<>>]
  OBVIOUS
<1> PICK step : step = [i \in 1..n |-> [a \in V |-> P!Filled(a, bids[i], W)]]
  OBVIOUS
<1>1. base \in V
  BY DEF Tables
<1>2. step \in StepsOf(1..n, V)
  BY FilledIs DEF StepsOf
<1>3. \A i \in 1..n, a \in V : step[i][a] = P!Filled(a, bids[i], W)
  OBVIOUS
<1> DEFINE E(it) == [s \in SUBSET (1..n) |-> IF s = {} THEN base
                        ELSE LET x == P!Max(s) IN P!Filled(it[s \ {x}], bids[x], W)]
           iter == CHOOSE it : it = E(it)
<1>4. PICK f : Steps(f, V, step, base, n)
  BY <1>1, <1>2, StepsExist
<1>5. ASSUME NEW g, NEW s \in SUBSET (1..n), s # {}, g[s \ {P!Max(s)}] \in V
      PROVE  step[P!Max(s)][g[s \ {P!Max(s)}]] = P!Filled(g[s \ {P!Max(s)}], bids[P!Max(s)], W)
  BY <1>3, <1>5, LargestIs
<1>6. f = E(f)
  <2>1. ASSUME NEW s \in SUBSET (1..n)
        PROVE  f[s] = IF s = {} THEN base ELSE P!Filled(f[s \ {P!Max(s)}], bids[P!Max(s)], W)
    <3>1. s \ {P!Max(s)} \in SUBSET (1..n) /\ f[s \ {P!Max(s)}] \in V
      BY <1>4 DEF Steps
    <3>2. s # {} => f[s] = step[P!Max(s)][f[s \ {P!Max(s)}]]
      BY <1>4 DEF Steps
    <3>3. s = {} => f[s] = base
      BY <1>4 DEF Steps
    <3> QED BY <1>5, <3>1, <3>2, <3>3
  <2>2. f = [s \in SUBSET (1..n) |-> f[s]]
    BY <1>4 DEF Steps
  <2> QED BY <2>1, <2>2
<1>7. iter = E(iter)
  BY <1>6
<1>8. TableOf(bids, W) = iter[1..n]
  BY DEF TableOf, P!FoldLeft, P!MapThenFoldSet
<1> HIDE DEF iter
<1>9. PICK tab : Chain(tab, V, step, base, n)
  BY <1>1, <1>2, <1>4, StepByStep
<1>10. \A k \in 1..n : tab[k] = P!Filled(tab[k - 1], bids[k], W)
  <2> TAKE k \in 1..n
  <2>1. tab[k - 1] \in V
    BY <1>9 DEF Chain
  <2> QED BY <1>3, <1>9, <2>1 DEF Chain
<1> DEFINE Q == {k \in 0..n : iter[1..k] = tab[k]}
<1>11. 0 \in Q
  <2>1. 1..0 = {} /\ {} \in SUBSET (1..n) /\ 0 \in 0..n
    OBVIOUS
  <2>2. iter[{}] = base
    BY <1>7, <2>1
  <2> QED BY <1>9, <2>1, <2>2 DEF Chain
<1>12. ASSUME NEW k \in 0..(n - 1), k \in Q PROVE k + 1 \in Q
  <2>1. k + 1 \in 1..n /\ (k + 1) - 1 = k /\ iter[1..k] = tab[k]
    BY <1>12
  <2>2. PICK s : s = 1..(k + 1)
    OBVIOUS
  <2>3. s \in SUBSET (1..n) /\ s # {} /\ P!Max(s) = k + 1 /\ s \ {k + 1} = 1..k
    BY <2>1, <2>2, LastOf
  <2>4. iter[s] = P!Filled(iter[1..k], bids[k + 1], W)
    BY <1>7, <2>3
  <2>5. iter[s] = tab[k + 1]
    BY <1>10, <2>1, <2>4
  <2> QED BY <2>1, <2>2, <2>5
<1> HIDE DEF Q
<1>13. n \in Q
  <2>1. \A k \in 0..n : k \in Q
    BY <1>11, <1>12, CountUp, Zenon
  <2> QED BY <2>1
<1>14. tab[n] = iter[1..n]
  BY <1>13 DEF Q
<1> QED BY <1>8, <1>9, <1>10, <1>14 DEF Chain, FilledUp

WalkOf(bids, table, W) ==
  P!FoldLeft(LAMBDA acc, i : IF table.choice[i][acc.w]
                           THEN [w |-> acc.w - P!Weight(bids[i]), taken |-> acc.taken \cup {i}]
                           ELSE acc,
           [w |-> W, taken |-> {}], [i \in 1..Len(bids) |-> Len(bids) + 1 - i])

\* What the knapsack keeps is what the walk back over its table took (knapsack).
LEMMA KnapsackIs ==
  ASSUME NEW bids, NEW m, NEW W, W = P!Larger(m, 0), NEW table, table = TableOf(bids, W)
  PROVE  P!knapsack(bids, m) = WalkOf(bids, table, W).taken
BY DEF P!knapsack, TableOf, WalkOf, P!FoldLeft, P!MapThenFoldSet

Walked(table, bids, acc, i) ==
  IF table.choice[i][acc.w]
  THEN [w |-> acc.w - P!Weight(bids[i]), taken |-> acc.taken \cup {i}]
  ELSE acc
Walks(n) == [w : Int, taken : SUBSET (1..n)]

WalkedBack(walk, table, bids, n, W) ==
  /\ walk \in [0..n -> Walks(n)]
  /\ walk[0] = [w |-> W, taken |-> {}]
  /\ \A k \in 1..n : walk[k] = Walked(table, bids, walk[k - 1], n + 1 - k)

\* The walk back goes bid by bid, the last bid first (knapsack).
LEMMA WalkIs ==
  ASSUME NEW bids, NEW n \in Nat, Len(bids) = n, NEW W \in Nat, NEW table,
         \A i \in 1..n : P!Weight(bids[i]) \in Nat
  PROVE  \E walk : WalkedBack(walk, table, bids, n, W) /\ walk[n] = WalkOf(bids, table, W)
<1> PICK V : V = Walks(n)
  OBVIOUS
<1> PICK base : base = [w |-> W, taken |-> {}]
  OBVIOUS
<1> PICK step : step = [i \in 1..n |-> [a \in V |-> Walked(table, bids, a, n + 1 - i)]]
  OBVIOUS
<1>1. base \in V
  BY DEF Walks
<1>2. step \in StepsOf(1..n, V)
  <2> SUFFICES ASSUME NEW i \in 1..n, NEW a \in V
               PROVE  Walked(table, bids, a, n + 1 - i) \in V
    BY DEF StepsOf
  <2> PICK j \in 1..n : j = n + 1 - i
    OBVIOUS
  <2>1. a.w - P!Weight(bids[j]) \in Int /\ a.taken \cup {j} \in SUBSET (1..n)
    BY DEF Walks
  <2> QED BY <2>1 DEF Walked, Walks
<1>3. \A i \in 1..n, a \in V : step[i][a] = Walked(table, bids, a, n + 1 - i)
  OBVIOUS
<1> DEFINE E(it) == [s \in SUBSET (1..n) |-> IF s = {} THEN base
                        ELSE LET x == P!Max(s) IN Walked(table, bids, it[s \ {x}], n + 1 - x)]
           order == [i \in 1..n |-> n + 1 - i]
           B(it) == [s \in SUBSET (1..n) |-> IF s = {} THEN base
                        ELSE LET x == P!Max(s)
                             IN IF table.choice[order[x]][it[s \ {x}].w]
                                THEN [w |-> it[s \ {x}].w - P!Weight(bids[order[x]]),
                                      taken |-> it[s \ {x}].taken \cup {order[x]}]
                                ELSE it[s \ {x}]]
           iter == CHOOSE it : it = B(it)
<1>4. PICK f : Steps(f, V, step, base, n)
  BY <1>1, <1>2, StepsExist
<1>5. ASSUME NEW g, NEW s \in SUBSET (1..n), s # {}, g[s \ {P!Max(s)}] \in V
      PROVE  step[P!Max(s)][g[s \ {P!Max(s)}]] = Walked(table, bids, g[s \ {P!Max(s)}], n + 1 - P!Max(s))
  BY <1>3, <1>5, LargestIs
<1>6. f = E(f)
  <2>1. ASSUME NEW s \in SUBSET (1..n)
        PROVE  f[s] = IF s = {} THEN base ELSE Walked(table, bids, f[s \ {P!Max(s)}], n + 1 - P!Max(s))
    <3>1. s \ {P!Max(s)} \in SUBSET (1..n) /\ f[s \ {P!Max(s)}] \in V
      BY <1>4 DEF Steps
    <3>2. s # {} => f[s] = step[P!Max(s)][f[s \ {P!Max(s)}]]
      BY <1>4 DEF Steps
    <3>3. s = {} => f[s] = base
      BY <1>4 DEF Steps
    <3> QED BY <1>5, <3>1, <3>2, <3>3
  <2>2. f = [s \in SUBSET (1..n) |-> f[s]]
    BY <1>4 DEF Steps
  <2> QED BY <2>1, <2>2
<1>7. iter = E(iter)
  <2>1. ASSUME NEW it PROVE B(it) = E(it)
    BY LargestIs DEF Walked
  <2> HIDE DEF E
  <2>2. f = B(f)
    BY <1>6, <2>1
  <2> HIDE DEF B
  <2>3. iter = B(iter)
    BY <2>2
  <2> QED BY <2>1, <2>3
<1>8. WalkOf(bids, table, W) = iter[1..n]
  BY DEF WalkOf, P!FoldLeft, P!MapThenFoldSet
<1> HIDE DEF iter
<1>9. PICK walk : Chain(walk, V, step, base, n)
  BY <1>1, <1>2, <1>4, StepByStep
<1>10. \A k \in 1..n : walk[k] = Walked(table, bids, walk[k - 1], n + 1 - k)
  <2> TAKE k \in 1..n
  <2>1. walk[k - 1] \in V
    BY <1>9 DEF Chain
  <2> QED BY <1>3, <1>9, <2>1 DEF Chain
<1> DEFINE Q == {k \in 0..n : iter[1..k] = walk[k]}
<1>11. 0 \in Q
  <2>1. 1..0 = {} /\ {} \in SUBSET (1..n) /\ 0 \in 0..n
    OBVIOUS
  <2>2. iter[{}] = base
    BY <1>7, <2>1
  <2> QED BY <1>9, <2>1, <2>2 DEF Chain
<1>12. ASSUME NEW k \in 0..(n - 1), k \in Q PROVE k + 1 \in Q
  <2>1. k + 1 \in 1..n /\ (k + 1) - 1 = k /\ iter[1..k] = walk[k]
    BY <1>12
  <2>2. PICK s : s = 1..(k + 1)
    OBVIOUS
  <2>3. s \in SUBSET (1..n) /\ s # {} /\ P!Max(s) = k + 1 /\ s \ {k + 1} = 1..k
    BY <2>1, <2>2, LastOf
  <2>4. iter[s] = Walked(table, bids, iter[1..k], n + 1 - (k + 1))
    BY <1>7, <2>3
  <2>5. iter[s] = walk[k + 1]
    BY <1>10, <2>1, <2>4
  <2> QED BY <2>1, <2>2, <2>5
<1> HIDE DEF Q
<1>13. n \in Q
  <2>1. \A k \in 0..n : k \in Q
    BY <1>11, <1>12, CountUp, Zenon
  <2> QED BY <2>1
<1>14. walk[n] = iter[1..n]
  BY <1>13 DEF Q
<1> QED BY <1>8, <1>9, <1>10, <1>14 DEF Chain, WalkedBack

\* A sum of naturals is one.
LEMMA SumOfNats ==
  ASSUME NEW S, IsFiniteSet(S), NEW g \in [S -> Nat]
  PROVE  \A T \in SUBSET S : SumOf(g, T) \in Nat
<1>g. g \in [S -> Int]
  OBVIOUS
<1> DEFINE Q == {k \in Nat : \A T \in SUBSET S : Cardinality(T) = k => SumOf(g, T) \in Nat}
<1>f. \A T \in SUBSET S : IsFiniteSet(T) /\ Cardinality(T) \in Nat /\ Cardinality(T) <= Cardinality(S)
  BY FS_Subset, FS_CardinalityType
<1>0. 0 \in Q
  <2> SUFFICES ASSUME NEW T \in SUBSET S, Cardinality(T) = 0 PROVE SumOf(g, T) \in Nat
    OBVIOUS
  <2>1. T = {}
    BY <1>f, FS_EmptySet
  <2> QED BY <1>g, <2>1, SumFacts DEF Sums
<1>1. ASSUME NEW k \in Nat, k \in Q PROVE k + 1 \in Q
  <2> SUFFICES ASSUME NEW T \in SUBSET S, Cardinality(T) = k + 1 PROVE SumOf(g, T) \in Nat
    OBVIOUS
  <2>1. T # {} /\ IsFiniteSet(T)
    BY <1>f, FS_EmptySet
  <2>2. PICK x \in T : TRUE
    BY <2>1
  <2>3. Cardinality(T \ {x}) = Cardinality(T) - 1
    BY <2>1, <2>2, FS_RemoveElement, Zenon
  <2>4. T \ {x} \in SUBSET S /\ Cardinality(T \ {x}) = k
    BY <2>3
  <2>5. SumOf(g, T \ {x}) \in Nat
    BY <1>1, <2>4
  <2>6. SumOf(g, T) = g[x] + SumOf(g, T \ {x})
    BY <1>g, SumFacts DEF Sums
  <2> QED BY <2>5, <2>6
<1> HIDE DEF Q
<1>2. Cardinality(S) \in Nat
  BY <1>f
<1>3. \A k \in 0..Cardinality(S) : k \in Q
  BY <1>0, <1>1, <1>2, CountUp
<1>4. ASSUME NEW T \in SUBSET S PROVE SumOf(g, T) \in Nat
  <2>1. Cardinality(T) \in 0..Cardinality(S)
    BY <1>f
  <2> QED BY <1>3, <2>1 DEF Q
<1> QED BY <1>4

\* The table of the best profits, bid by bid (P!Filled), and what it is filled for.
Better(a, bid) == [w \in DOMAIN a.dp |-> P!Weight(bid) <= w /\ a.dp[w - P!Weight(bid)] + bid.profit > a.dp[w]]
Priced(bids, n, wt, pr) ==
  /\ wt \in [1..n -> Nat] /\ pr \in [1..n -> Int]
  /\ \A i \in 1..n : wt[i] = P!Weight(bids[i]) /\ pr[i] = bids[i].profit

\* One cell of a row, from the row before it (a): b is the row, c what was noted.
Cell(a, b, c, w, x, p) ==
  /\ a[w] \in Int /\ b[w] \in Int
  /\ x <= w => a[w - x] \in Int
  /\ c[w] = (x <= w /\ a[w - x] + p > a[w])
  /\ b[w] = IF x <= w /\ a[w - x] + p > a[w] THEN a[w - x] + p ELSE a[w]

NextRow(tab, bids, k, W, wt, pr) ==
  /\ tab[k].choice = Append(tab[k - 1].choice, Better(tab[k - 1], bids[k]))
  /\ \A w \in 0..W : Cell(tab[k - 1].dp, tab[k].dp, Better(tab[k - 1], bids[k]), w, wt[k], pr[k])

\* Each row is filled from the row before it and the bid (Filled).
LEMMA FilledRow ==
  ASSUME NEW bids, NEW n \in Nat, NEW W \in Nat, NEW tab, FilledUp(tab, bids, n, W),
         NEW wt, NEW pr, Priced(bids, n, wt, pr), NEW k \in 1..n
  PROVE  NextRow(tab, bids, k, W, wt, pr)
<1>1. k - 1 \in 0..n /\ k \in 0..n
  OBVIOUS
<1>2. tab[k - 1] \in Tables(W) /\ tab[k] \in Tables(W) /\ tab[k] = P!Filled(tab[k - 1], bids[k], W)
  BY <1>1 DEF FilledUp
<1>3. wt[k] = P!Weight(bids[k]) /\ pr[k] = bids[k].profit /\ wt[k] \in Nat /\ pr[k] \in Int
  BY DEF Priced
<1> PICK a, c : a = tab[k - 1] /\ c = Better(a, bids[k])
  OBVIOUS
<1>4. a.dp \in [0..W -> Int] /\ tab[k].dp \in [0..W -> Int]
  BY <1>2 DEF Tables
<1>5. c = [w \in 0..W |-> wt[k] <= w /\ a.dp[w - wt[k]] + pr[k] > a.dp[w]]
  BY <1>3, <1>4 DEF Better
<1>6. tab[k] = [dp |-> [w \in 0..W |-> IF c[w] THEN a.dp[w - wt[k]] + pr[k] ELSE a.dp[w]],
                choice |-> Append(a.choice, c)]
  BY <1>2, <1>3, <1>5 DEF P!Filled
<1>7. ASSUME NEW w \in 0..W PROVE Cell(a.dp, tab[k].dp, c, w, wt[k], pr[k])
  <2>1. wt[k] <= w => w - wt[k] \in 0..W
    BY <1>3
  <2>2. wt[k] <= w => a.dp[w - wt[k]] \in Int
    BY <1>4, <2>1
  <2>3. c[w] = (wt[k] <= w /\ a.dp[w - wt[k]] + pr[k] > a.dp[w])
    BY <1>5
  <2>4. tab[k].dp[w] = IF c[w] THEN a.dp[w - wt[k]] + pr[k] ELSE a.dp[w]
    BY <1>6
  <2> QED BY <1>4, <2>2, <2>3, <2>4 DEF Cell
<1> QED BY <1>6, <1>7 DEF NextRow

\* No choice of bids that fits earns more than the table says.
BestTable(tab, n, W, wt, pr) ==
  \A k \in 0..n : \A w \in 0..W : \A S \in SUBSET (1..k) :
     SumOf(wt, S) <= w => SumOf(pr, S) <= tab[k].dp[w]

\* Each cell is the best profit of the first bids within its budget.
LEMMA TableIsBest ==
  ASSUME NEW bids, NEW n \in Nat, NEW W \in Nat, NEW tab, FilledUp(tab, bids, n, W),
         NEW wt, NEW pr, Priced(bids, n, wt, pr)
  PROVE  BestTable(tab, n, W, wt, pr)
<1> DEFINE Best(k) == \A w \in 0..W : \A S \in SUBSET (1..k) :
                         SumOf(wt, S) <= w => SumOf(pr, S) <= tab[k].dp[w]
           Q == {k \in 0..n : Best(k)}
<1>f. IsFiniteSet(1..n)
  BY FS_Interval
<1>g. wt \in [1..n -> Nat] /\ wt \in [1..n -> Int] /\ pr \in [1..n -> Int]
  BY DEF Priced
<1>c. Sums(wt, 1..n) /\ Sums(pr, 1..n)
  BY <1>f, <1>g, SumFacts
<1>s. \A S \in SUBSET (1..n) : SumOf(wt, S) \in Nat /\ SumOf(pr, S) \in Int
  BY <1>f, <1>g, <1>c, SumOfNats DEF Sums
<1>r. ASSUME NEW S \in SUBSET (1..n), NEW x \in S
      PROVE  SumOf(wt, S) = wt[x] + SumOf(wt, S \ {x}) /\ SumOf(pr, S) = pr[x] + SumOf(pr, S \ {x})
  <2>1. SumOf(wt, S) = wt[x] + SumOf(wt, S \ {x})
    BY <1>c DEF Sums
  <2>2. SumOf(pr, S) = pr[x] + SumOf(pr, S \ {x})
    BY <1>c DEF Sums
  <2> QED BY <2>1, <2>2
<1>0. 0 \in Q
  <2>1. ASSUME NEW w \in 0..W, NEW S \in SUBSET (1..0)
        PROVE  SumOf(pr, S) <= tab[0].dp[w]
    <3>1. S = {} /\ SumOf(pr, {}) = 0
      BY <1>c DEF Sums
    <3>2. tab[0].dp[w] = 0
      BY DEF FilledUp
    <3> QED BY <3>1, <3>2
  <2> QED BY <2>1
<1>1. ASSUME NEW j \in 0..(n - 1), j \in Q PROVE j + 1 \in Q
  <2> SUFFICES ASSUME NEW w \in 0..W, NEW S \in SUBSET (1..(j + 1)), SumOf(wt, S) <= w
               PROVE  SumOf(pr, S) <= tab[j + 1].dp[w]
    OBVIOUS
  <2> PICK k \in 1..n : k = j + 1
    OBVIOUS
  <2>1. j = k - 1 /\ S \in SUBSET (1..n) /\ Best(j)
    BY <1>1
  <2> PICK a : a = tab[j].dp
    OBVIOUS
  <2>2. /\ a[w] \in Int /\ tab[k].dp[w] \in Int
        /\ wt[k] <= w => a[w - wt[k]] \in Int
        /\ tab[k].dp[w] = IF wt[k] <= w /\ a[w - wt[k]] + pr[k] > a[w] THEN a[w - wt[k]] + pr[k] ELSE a[w]
    <3>1. Cell(tab[k - 1].dp, tab[k].dp, Better(tab[k - 1], bids[k]), w, wt[k], pr[k])
      BY FilledRow DEF NextRow
    <3> QED BY <2>1, <3>1 DEF Cell
  <2>w. wt[k] \in Nat /\ pr[k] \in Int
    BY <1>g
  <2>3. CASE k \notin S
    <3>1. S \in SUBSET (1..j)
      BY <2>1, <2>3
    <3>2. SumOf(pr, S) <= a[w]
      BY <2>1, <3>1
    <3>3. a[w] <= tab[k].dp[w]
      BY <2>2, <2>w
    <3> QED BY <1>s, <2>1, <2>2, <3>2, <3>3
  <2>4. CASE k \in S
    <3> PICK T : T = S \ {k}
      OBVIOUS
    <3>1. T \in SUBSET (1..j) /\ T \in SUBSET (1..n)
      OBVIOUS
    <3>2. SumOf(wt, S) = wt[k] + SumOf(wt, T) /\ SumOf(pr, S) = pr[k] + SumOf(pr, T)
      BY <1>r, <2>1, <2>4
    <3> DEFINE u == SumOf(wt, T) v == SumOf(pr, T) x == wt[k] y == pr[k]
    <3>3. u \in Nat /\ v \in Int /\ x + u <= w
      BY <1>s, <3>1, <3>2
    <3>4. x <= w /\ w - x \in 0..W /\ u <= w - x
      BY <2>w, <3>3
    <3>5. v <= a[w - x]
      BY <2>1, <3>1, <3>4
    <3>6. a[w - x] + y <= tab[k].dp[w] /\ a[w - x] \in Int
      BY <2>2, <2>w, <3>4
    <3>7. SumOf(pr, S) = y + v
      BY <3>2
    <3> HIDE DEF v, x
    <3> QED BY <2>2, <2>w, <3>3, <3>5, <3>6, <3>7
  <2> QED BY <2>3, <2>4
<1> HIDE DEF Q
<1>2. \A k \in 0..n : k \in Q
  BY <1>0, <1>1, CountUp, Zenon
<1> QED BY <1>2 DEF Q, BestTable

\* The choices noted for a bid stay the ones its row was filled by.
LEMMA ChoicesStay ==
  ASSUME NEW bids, NEW n \in Nat, NEW W \in Nat, NEW tab, FilledUp(tab, bids, n, W),
         NEW wt, NEW pr, Priced(bids, n, wt, pr)
  PROVE  \A k \in 1..n : tab[n].choice[k] = Better(tab[k - 1], bids[k])
<1> DEFINE Q == {m \in 0..n : /\ tab[m].choice \in Seq([0..W -> BOOLEAN]) /\ Len(tab[m].choice) = m
                              /\ \A k \in 1..m : tab[m].choice[k] = Better(tab[k - 1], bids[k])}
<1>0. 0 \in Q
  <2>1. tab[0].choice = <<>> /\ 0 \in 0..n
    BY DEF FilledUp
  <2>2. <<>> \in Seq([0..W -> BOOLEAN]) /\ Len(<<>>) = 0
    OBVIOUS
  <2>3. 1..0 = {}
    OBVIOUS
  <2>4. \A k \in 1..0 : tab[0].choice[k] = Better(tab[k - 1], bids[k])
    BY <2>3
  <2>5. tab[0].choice \in Seq([0..W -> BOOLEAN]) /\ Len(tab[0].choice) = 0
    BY <2>1, <2>2
  <2> QED BY <2>1, <2>4, <2>5
<1>1. ASSUME NEW m \in 0..(n - 1), m \in Q PROVE m + 1 \in Q
  <2> PICK k \in 1..n : k = m + 1
    OBVIOUS
  <2> PICK s, b : s = tab[m].choice /\ b = Better(tab[m], bids[k])
    OBVIOUS
  <2>1. tab[k].choice = Append(s, b)
    <3>1. m = k - 1
      OBVIOUS
    <3>2. NextRow(tab, bids, k, W, wt, pr)
      BY FilledRow
    <3>3. tab[k].choice = Append(tab[k - 1].choice, Better(tab[k - 1], bids[k]))
      BY <3>2 DEF NextRow
    <3> QED BY <3>1, <3>3
  <2>2. s \in Seq([0..W -> BOOLEAN]) /\ Len(s) = m /\ \A i \in 1..m : s[i] = Better(tab[i - 1], bids[i])
    BY <1>1
  <2>3. tab[k].choice \in Seq([0..W -> BOOLEAN])
    <3>1. k \in 0..n
      OBVIOUS
    <3>2. tab[k] \in Tables(W)
      BY <3>1 DEF FilledUp
    <3> QED BY <3>2 DEF Tables
  <2>4. Len(tab[k].choice) = m + 1 /\ tab[k].choice[k] = b /\ \A i \in 1..m : tab[k].choice[i] = s[i]
    BY <2>1, <2>2
  <2>5. ASSUME NEW i \in 1..(m + 1) PROVE tab[k].choice[i] = Better(tab[i - 1], bids[i])
    <3>1. CASE i = k
      BY <2>4, <3>1
    <3>2. CASE i \in 1..m
      BY <2>2, <2>4, <3>2
    <3> QED BY <3>1, <3>2
  <2> QED BY <2>3, <2>4, <2>5
<1> HIDE DEF Q
<1>2. \A k \in 0..n : k \in Q
  BY <1>0, <1>1, CountUp, Zenon
<1>3. n \in Q
  <2>1. n \in 0..n
    OBVIOUS
  <2> QED BY <1>2, <2>1
<1> QED BY <1>3 DEF Q

\* The walk back finds bids that earn what the table says, within the budget.
Finds(kept, best, n, W, wt, pr) ==
  kept \in SUBSET (1..n) /\ SumOf(wt, kept) <= W /\ SumOf(pr, kept) = best

\* The walk back finds bids that earn what the table says (knapsack).
LEMMA WalkFinds ==
  ASSUME NEW bids, NEW n \in Nat, NEW W \in Nat, NEW tab, FilledUp(tab, bids, n, W),
         NEW wt, NEW pr, Priced(bids, n, wt, pr),
         NEW walk, WalkedBack(walk, tab[n], bids, n, W)
  PROVE  Finds(walk[n].taken, tab[n].dp[W], n, W, wt, pr)
<1> DEFINE Found(j) == /\ walk[j].w \in 0..W
                       /\ walk[j].taken \in SUBSET ((n + 1 - j)..n)
                       /\ SumOf(wt, walk[j].taken) + walk[j].w = W
                       /\ SumOf(pr, walk[j].taken) + tab[n - j].dp[walk[j].w] = tab[n].dp[W]
           Q == {j \in 0..n : Found(j)}
<1>f. IsFiniteSet(1..n)
  BY FS_Interval
<1>g. wt \in [1..n -> Nat] /\ wt \in [1..n -> Int] /\ pr \in [1..n -> Int]
  BY DEF Priced
<1>c. Sums(wt, 1..n) /\ Sums(pr, 1..n)
  BY <1>f, <1>g, SumFacts
<1>s. SumOf(wt, {}) = 0 /\ SumOf(pr, {}) = 0
  BY <1>c DEF Sums
<1>a. ASSUME NEW S \in SUBSET (1..n), NEW x \in (1..n) \ S
      PROVE  SumOf(wt, S \cup {x}) = SumOf(wt, S) + wt[x] /\ SumOf(pr, S \cup {x}) = SumOf(pr, S) + pr[x]
  <2>1. SumOf(wt, S \cup {x}) = SumOf(wt, S) + wt[x]
    BY <1>c DEF Sums
  <2>2. SumOf(pr, S \cup {x}) = SumOf(pr, S) + pr[x]
    BY <1>c DEF Sums
  <2> QED BY <2>1, <2>2
<1>t. \A S \in SUBSET (1..n) : SumOf(wt, S) \in Int /\ SumOf(pr, S) \in Int
  BY <1>c DEF Sums
<1>d. \A i \in 0..n, w \in 0..W : tab[i].dp[w] \in Int
  BY DEF FilledUp, Tables
<1>0. 0 \in Q
  <2>1. walk[0].w = W /\ walk[0].taken = {} /\ W \in 0..W /\ n - 0 = n /\ n \in 0..n /\ 0 \in 0..n
    BY DEF WalkedBack
  <2>2. tab[n].dp[W] \in Int
    BY <1>d, <2>1
  <2> PICK x : x = tab[n].dp[W]
    OBVIOUS
  <2>3. SumOf(wt, walk[0].taken) + walk[0].w = W
    BY <1>s, <2>1
  <2>4. SumOf(pr, walk[0].taken) + tab[n - 0].dp[walk[0].w] = x
    BY <1>s, <2>1, <2>2
  <2>5. Found(0)
    BY <2>1, <2>3, <2>4
  <2> QED BY <2>1, <2>5
<1>1. ASSUME NEW j \in 0..(n - 1), j \in Q PROVE j + 1 \in Q
  <2> PICK k \in 1..n : k = n - j
    OBVIOUS
  <2> PICK v, S, a, b, c : v = walk[j].w /\ S = walk[j].taken /\ a = tab[k - 1].dp /\ b = tab[k].dp
                           /\ c = Better(tab[k - 1], bids[k])
    OBVIOUS
  <2>1. /\ v \in 0..W /\ S \in SUBSET ((k + 1)..n) /\ SumOf(wt, S) + v = W
        /\ SumOf(pr, S) + b[v] = tab[n].dp[W]
    BY <1>1
  <2>2. Cell(a, b, c, v, wt[k], pr[k])
    BY <2>1, FilledRow DEF NextRow
  <2>3. tab[n].choice[k] = c
    BY ChoicesStay
  <2>4. j + 1 \in 1..n /\ (j + 1) - 1 = j /\ n + 1 - (j + 1) = k /\ n - (j + 1) = k - 1
    OBVIOUS
  <2>5. walk[j + 1] = IF c[v] THEN [w |-> v - P!Weight(bids[k]), taken |-> S \cup {k}] ELSE walk[j]
    BY <2>3, <2>4 DEF Walked, WalkedBack
  <2>6. wt[k] = P!Weight(bids[k]) /\ wt[k] \in Nat /\ pr[k] \in Int
    BY DEF Priced
  <2>7. S \in SUBSET (1..n) /\ k \in (1..n) \ S /\ SumOf(wt, S) \in Int /\ SumOf(pr, S) \in Int
    <3>1. S \in SUBSET (1..n) /\ k \notin S
      BY <2>1
    <3> QED BY <1>t, <3>1
  <2>8. CASE c[v]
    <3>1. walk[j + 1].w = v - wt[k] /\ walk[j + 1].taken = S \cup {k}
      BY <2>5, <2>6, <2>8
    <3>2. SumOf(wt, S \cup {k}) = SumOf(wt, S) + wt[k]
      BY <1>a, <2>7
    <3>3. SumOf(pr, S \cup {k}) = SumOf(pr, S) + pr[k]
      BY <1>a, <2>7
    <3>4. v - wt[k] \in 0..W /\ S \cup {k} \in SUBSET (k..n)
      <4>1. wt[k] <= v
        BY <2>2, <2>8 DEF Cell
      <4>2. k \in k..n /\ S \in SUBSET (k..n)
        BY <2>1
      <4>3. v - wt[k] \in 0..W
        BY <2>1, <2>6, <4>1
      <4> QED BY <4>2, <4>3
    <3>5. b[v] = a[v - wt[k]] + pr[k] /\ a[v - wt[k]] \in Int
      BY <2>2, <2>8 DEF Cell
    <3> DEFINE x == SumOf(wt, S) y == SumOf(pr, S) z == a[v - wt[k]]
    <3>6. (x + wt[k]) + (v - wt[k]) = W
      BY <2>1, <2>6, <2>7
    <3>7. (y + pr[k]) + z = tab[n].dp[W]
      <4>1. y + (z + pr[k]) = tab[n].dp[W] /\ y \in Int /\ z \in Int
        BY <2>1, <2>7, <3>5
      <4> HIDE DEF y, z
      <4> QED BY <2>6, <4>1
    <3> HIDE DEF x, y, z
    <3>8. SumOf(wt, S \cup {k}) = x + wt[k] /\ SumOf(pr, S \cup {k}) = y + pr[k] /\ z = a[v - wt[k]]
      BY <3>2, <3>3 DEF x, y, z
    <3>9. Found(j + 1)
      <4> PICK i, S2 : i = j + 1 /\ S2 = S \cup {k}
        OBVIOUS
      <4>1. walk[i].w = v - wt[k] /\ walk[i].taken = S2 /\ n + 1 - i = k /\ n - i = k - 1
        BY <2>4, <3>1
      <4>2. SumOf(wt, S2) + (v - wt[k]) = W
        BY <3>6, <3>8
      <4>3. SumOf(pr, S2) + a[v - wt[k]] = tab[n].dp[W]
        BY <3>7, <3>8
      <4>4. v - wt[k] \in 0..W /\ S2 \in SUBSET (k..n)
        BY <3>4
      <4> QED BY <4>1, <4>2, <4>3, <4>4
    <3> QED BY <2>4, <3>9
  <2>9. CASE ~c[v]
    <3>1. walk[j + 1].w = v /\ walk[j + 1].taken = S
      BY <2>5, <2>9
    <3>2. a[v] = b[v]
      BY <2>2, <2>9 DEF Cell
    <3>3. S \in SUBSET (k..n)
      BY <2>1
    <3> QED BY <2>1, <2>4, <3>1, <3>2, <3>3
  <2> QED BY <2>8, <2>9
<1> HIDE DEF Q
<1>2. \A k \in 0..n : k \in Q
  BY <1>0, <1>1, CountUp, Zenon
<1>3. n \in Q /\ n + 1 - n = 1 /\ n - n = 0
  BY <1>2
<1>4. /\ walk[n].w \in 0..W /\ walk[n].taken \in SUBSET (1..n)
      /\ SumOf(wt, walk[n].taken) + walk[n].w = W
      /\ SumOf(pr, walk[n].taken) + tab[0].dp[walk[n].w] = tab[n].dp[W]
  BY <1>3 DEF Q
<1>5. tab[0].dp[walk[n].w] = 0
  BY <1>4 DEF FilledUp
<1> PICK x, y, z : x = SumOf(wt, walk[n].taken) /\ y = SumOf(pr, walk[n].taken) /\ z = walk[n].w
  OBVIOUS
<1>6. x \in Int /\ y \in Int /\ z \in 0..W /\ x + z = W /\ y + 0 = tab[n].dp[W]
  BY <1>4, <1>5, <1>t
<1>7. x <= W /\ y = tab[n].dp[W]
  BY ONLY <1>6, W \in Nat
<1> QED BY <1>4, <1>7 DEF Finds

\* What is kept fits the cap and is worth at least what any other choice that fits is.
KeepsBest(kept, n, W, wt, pr) ==
  /\ kept \in SUBSET (1..n)
  /\ SumOf(wt, kept) <= W
  /\ \A S \in SUBSET (1..n) : SumOf(wt, S) <= W => SumOf(pr, S) <= SumOf(pr, kept)

\* What the knapsack keeps is the best that fits, for any bids and budget (knapsack).
LEMMA KnapsackIsBest ==
  ASSUME NEW bids, NEW n \in Nat, DOMAIN bids = 1..n, Len(bids) = n, NEW m \in Int,
         \A i \in 1..n : bids[i].price \in Int /\ bids[i].profit \in Int,
         NEW wt, NEW pr, Priced(bids, n, wt, pr)
  PROVE  KeepsBest(P!knapsack(bids, m), n, P!Larger(m, 0), wt, pr)
<1> PICK W \in Nat : W = P!Larger(m, 0)
  BY DEF P!Larger
<1>1. PICK tab : FilledUp(tab, bids, n, W) /\ tab[n] = TableOf(bids, W)
  BY TableIs
<1>2. PICK table : table = tab[n]
  OBVIOUS
<1>3. \A i \in 1..n : P!Weight(bids[i]) \in Nat
  BY DEF P!Weight, P!Larger
<1>4. PICK walk : WalkedBack(walk, table, bids, n, W) /\ walk[n] = WalkOf(bids, table, W)
  BY <1>3, WalkIs
<1>5. P!knapsack(bids, m) = walk[n].taken
  BY <1>1, <1>2, <1>4, KnapsackIs
<1>6. Finds(walk[n].taken, tab[n].dp[W], n, W, wt, pr)
  <2>1. WalkedBack(walk, tab[n], bids, n, W)
    BY <1>2, <1>4
  <2> QED BY <1>1, <2>1, WalkFinds
<1>7. BestTable(tab, n, W, wt, pr)
  BY <1>1, TableIsBest
<1>8. n \in 0..n /\ W \in 0..W
  OBVIOUS
<1>9. \A S \in SUBSET (1..n) : SumOf(wt, S) <= W => SumOf(pr, S) <= tab[n].dp[W]
  BY <1>7, <1>8 DEF BestTable
<1> QED BY <1>5, <1>6, <1>9 DEF KeepsBest, Finds


\* The sum over a part of a set is the sum of the numbers it has there.
LEMMA SumOver ==
  ASSUME NEW S, IsFiniteSet(S), NEW g \in [S -> Int], NEW T \in SUBSET S,
         NEW h \in [T -> Int], \A x \in T : h[x] = g[x]
  PROVE  SumOf(h, T) = SumOf(g, T)
<1>1. PICK f : IsSum(f, g, S)
  BY SumExists
<1>2. f[T] = SumOf(g, T)
  BY <1>1, SumIs
<1>3. IsSum(f, h, T)
  BY <1>1 DEF IsSum
<1>4. IsFiniteSet(T) /\ T \in SUBSET T
  BY FS_Subset
<1>5. f[T] = SumOf(h, T)
  BY <1>3, <1>4, SumIs
<1> QED
  BY <1>2, <1>5

\* A total the rules take of a choice of bids is the sum of the numbers.
LEMMA WeightTotalIs ==
  ASSUME NEW S, IsFiniteSet(S), NEW g \in [S -> Int], NEW bids, \A x \in S : g[x] = P!Weight(bids[x])
  PROVE  P!Total(bids, S, P!Weight) = SumOf(g, S)
<1> DEFINE E(it) == [s \in SUBSET S |-> IF s = {} THEN 0
                        ELSE LET x == CHOOSE x \in s : TRUE IN P!Weight(bids[x]) + it[s \ {x}]]
           iter == CHOOSE it : it = E(it)
           f == [T \in SUBSET S |-> SumOf(g, T)]
<1>1. f = E(f)
  <2>1. Adds(f, g, S)
    BY SumAdds
  <2> HIDE DEF f
  <2>2. ASSUME NEW T \in SUBSET S
        PROVE  f[T] = IF T = {} THEN 0
                      ELSE LET x == CHOOSE x \in T : TRUE IN P!Weight(bids[x]) + f[T \ {x}]
    BY <2>1 DEF Adds
  <2>3. f = [T \in SUBSET S |-> f[T]]
    BY DEF f
  <2> QED BY <2>2, <2>3
<1>2. iter = E(iter)
  BY <1>1
<1>3. P!Total(bids, S, P!Weight) = iter[S]
  BY DEF P!Total, P!MapThenSumSet, P!MapThenFoldSet
<1> HIDE DEF iter
<1>4. Adds(iter, g, S)
  BY <1>2 DEF Adds
<1> QED BY <1>3, <1>4, IterationIsSum

\* A total of profits is the sum of the profits.
LEMMA ProfitTotalIs ==
  ASSUME NEW S, IsFiniteSet(S), NEW g \in [S -> Int], NEW bids, \A x \in S : g[x] = bids[x].profit
  PROVE  P!Total(bids, S, LAMBDA b : b.profit) = SumOf(g, S)
<1> DEFINE E(it) == [s \in SUBSET S |-> IF s = {} THEN 0
                        ELSE LET x == CHOOSE x \in s : TRUE IN bids[x].profit + it[s \ {x}]]
           iter == CHOOSE it : it = E(it)
           f == [T \in SUBSET S |-> SumOf(g, T)]
<1>1. f = E(f)
  <2>1. Adds(f, g, S)
    BY SumAdds
  <2> HIDE DEF f
  <2>2. ASSUME NEW T \in SUBSET S
        PROVE  f[T] = IF T = {} THEN 0
                      ELSE LET x == CHOOSE x \in T : TRUE IN bids[x].profit + f[T \ {x}]
    BY <2>1 DEF Adds
  <2>3. f = [T \in SUBSET S |-> f[T]]
    BY DEF f
  <2> QED BY <2>2, <2>3
<1>2. iter = E(iter)
  BY <1>1
<1>3. P!Total(bids, S, LAMBDA b : b.profit) = iter[S]
  BY DEF P!Total, P!MapThenSumSet, P!MapThenFoldSet
<1> HIDE DEF iter
<1>4. Adds(iter, g, S)
  BY <1>2 DEF Adds
<1> QED BY <1>3, <1>4, IterationIsSum

\* The sums over a choice of the bids are the totals the rules take of it.
LEMMA TotalsAre ==
  ASSUME NEW bids, NEW n \in Nat, NEW wt, NEW pr, Priced(bids, n, wt, pr), NEW T \in SUBSET (1..n)
  PROVE  /\ P!Total(bids, T, P!Weight) = SumOf(wt, T)
         /\ P!Total(bids, T, LAMBDA b : b.profit) = SumOf(pr, T)
<1>0. PICK S : S = 1..n
  OBVIOUS
<1>f. IsFiniteSet(S)
  BY <1>0, FS_Interval
<1>1. IsFiniteSet(T) /\ T \in SUBSET S
  BY <1>0, <1>f, FS_Subset
<1>2. wt \in [S -> Int] /\ pr \in [S -> Int]
  BY <1>0 DEF Priced
<1> DEFINE u == [x \in T |-> wt[x]]
           v == [x \in T |-> pr[x]]
<1>3. u \in [T -> Int] /\ \A x \in T : u[x] = wt[x] /\ u[x] = P!Weight(bids[x])
  BY <1>0, <1>1, <1>2 DEF Priced
<1>4. v \in [T -> Int] /\ \A x \in T : v[x] = pr[x] /\ v[x] = bids[x].profit
  BY <1>0, <1>1, <1>2 DEF Priced
<1> HIDE DEF u, v
<1>5. P!Total(bids, T, P!Weight) = SumOf(u, T)
  BY <1>1, <1>3, WeightTotalIs
<1>6. P!Total(bids, T, LAMBDA b : b.profit) = SumOf(v, T)
  BY <1>1, <1>4, ProfitTotalIs
<1>8. SumOf(u, T) = SumOf(wt, T)
  <2>1. u \in [T -> Int] /\ \A x \in T : u[x] = wt[x]
    BY <1>3
  <2>2. u \in [T -> Int] /\ wt \in [S -> Int] /\ T \in SUBSET S
    BY <1>1, <1>2, <2>1
  <2> QED BY ONLY <1>f, <2>1, <2>2, SumOver
<1>9. SumOf(v, T) = SumOf(pr, T)
  <2>1. v \in [T -> Int] /\ \A x \in T : v[x] = pr[x]
    BY <1>4
  <2>3. v \in [T -> Int]
    BY <2>1
  <2>4. \A x \in T : v[x] = pr[x]
    BY <2>1
  <2>5. pr \in [S -> Int]
    BY <1>2
  <2>6. T \in SUBSET S
    BY <1>1
  <2> QED BY <1>f, <2>3, <2>4, <2>5, <2>6, SumOver, Zenon
<1> QED
  BY <1>5, <1>6, <1>8, <1>9

\* The bids the rules keep are the best that fit.
LEMMA KnapsackIsRight ==
  ASSUME P!RulesInv
  PROVE  P!KnapsackIsOptimal
<1> SUFFICES ASSUME P!Answered("fit") PROVE P!KnapsackIsOptimal
  BY DEF P!KnapsackIsOptimal
<1>1. y1 \in Budgets /\ y3[2] = P!knapsack(y1.bids, y1.cap)
  BY DEF P!Answered, P!RulesInv, P!FitOf
<1>2. y1.cap \in Int /\ y1.bids \in Seq([price : Int, profit : Int, wfm : STRING, id : STRING])
  BY <1>1, QuestionsAssumption
<1> PICK bids : bids = y1.bids
  OBVIOUS
<1> PICK m \in Int : m = y1.cap
  BY <1>2
<1> PICK kept : kept = y3[2]
  OBVIOUS
<1> PICK n \in Nat : n = Len(bids)
  BY <1>2
<1>3. DOMAIN bids = 1..n
  BY <1>2
<1>4. \A i \in 1..n : bids[i].price \in Int /\ bids[i].profit \in Int
  <2>0. PICK E : E = [price : Int, profit : Int, wfm : STRING, id : STRING]
    OBVIOUS
  <2>1. \A e \in E : e.price \in Int /\ e.profit \in Int
    BY <2>0
  <2>2. bids \in Seq(E)
    BY <1>2, <2>0
  <2>3. \A i \in 1..n : bids[i] \in E
    BY <2>2
  <2> QED BY <2>1, <2>3
<1> PICK wt, pr : wt = [i \in 1..n |-> P!Weight(bids[i])] /\ pr = [i \in 1..n |-> bids[i].profit]
  OBVIOUS
<1>5. Priced(bids, n, wt, pr)
  <2>1. \A i \in 1..n : P!Weight(bids[i]) \in Nat
    BY <1>4 DEF P!Weight, P!Larger
  <2> QED BY <1>4, <2>1 DEF Priced
<1>6. KeepsBest(kept, n, P!Larger(m, 0), wt, pr)
  BY <1>1, <1>3, <1>4, <1>5, KnapsackIsBest
<1>7. ASSUME NEW T \in SUBSET (1..n)
      PROVE  /\ P!Total(bids, T, P!Weight) = SumOf(wt, T)
             /\ P!Total(bids, T, LAMBDA b : b.profit) = SumOf(pr, T)
  BY <1>5, TotalsAre
<1> QED
  BY <1>3, <1>6, <1>7 DEF P!KnapsackIsOptimal, KeepsBest

-----------------------------------------------------------------------------
(* The rules: the order of the candidates, and the rows they come from.        *)

\* The rules' finite sets and their sizes are the library's.
LEMMA RulesFinite == \A Q : P!IsFiniteSet(Q) = IsFiniteSet(Q)
BY DEF P!IsFiniteSet, IsFiniteSet

\* The rules count sets as the library does.
LEMMA RulesCount ==
  ASSUME NEW Q
  PROVE  P!Cardinality(Q) = Cardinality(Q)
BY DEF P!Cardinality, Cardinality, P!IsFiniteSet, IsFiniteSet

\* The listings of a set are its injections from 1..size.
LEMMA SetsListed ==
  ASSUME NEW Q
  PROVE  P!SetToSeqs(Q) = {f \in [1..Cardinality(Q) -> Q] : \A i, j \in 1..Cardinality(Q) : i # j => f[i] # f[j]}
BY RulesCount DEF P!SetToSeqs

\* Candidates as they are listed: with numbers to rank them by, each its own uuid.
Ranked(items) ==
  /\ IsFiniteSet(items)
  /\ \A i \in items : i.profit \in Int /\ i.volume \in Int /\ i.key.uuid \in Int
  /\ \A i, j \in items : i.key.uuid = j.key.uuid => i = j

\* One of two candidates is listed before the other, and the order is one.
Listed(r, a, b) == <<a, b>> \in r
Orders(r, items) ==
  /\ \A a, b \in items : a # b => Listed(r, a, b) \/ Listed(r, b, a)
  /\ \A a, b, c \in items : Listed(r, a, b) /\ Listed(r, b, c) => Listed(r, a, c)
  /\ \A a \in items : ~Listed(r, a, a)

\* A rank is a number (rank_key).
LEMMA RanksAreInts ==
  ASSUME NEW i, i.profit \in Int, i.volume \in Int, NEW ranking
  PROVE  P!rank_key(i, ranking) \in Int
<1>1. P!Smaller(i.volume, 50) \in Int
  BY DEF P!Smaller
<1> QED BY <1>1 DEF P!rank_key, P!RANK_VOLUME_CAP

\* The ranks order the items (RanksBefore).
LEMMA RanksAreOrder ==
  ASSUME NEW items, Ranked(items), NEW ranking
  PROVE  LET B(a, b) == P!RanksBefore(a, b, ranking) IN
         /\ \A a, b \in items : a # b => B(a, b) \/ B(b, a)
         /\ \A a, b, c \in items : B(a, b) /\ B(b, c) => B(a, c)
         /\ \A a \in items : ~B(a, a)
<1>1. \A i \in items : P!rank_key(i, ranking) \in Int /\ i.volume \in Int /\ i.key.uuid \in Int
  BY RanksAreInts DEF Ranked
<1>2. \A a, b \in items : P!RanksBefore(a, b, ranking) <=>
        \/ P!rank_key(a, ranking) > P!rank_key(b, ranking)
        \/ P!rank_key(a, ranking) = P!rank_key(b, ranking) /\ a.volume > b.volume
        \/ P!rank_key(a, ranking) = P!rank_key(b, ranking) /\ a.volume = b.volume /\ a.key.uuid < b.key.uuid
  BY DEF P!RanksBefore
<1> QED BY <1>1, <1>2 DEF Ranked

\* A finite set that is ordered has a last member, and can be listed in order.
LEMMA HasLast ==
  ASSUME NEW items, IsFiniteSet(items), NEW r, Orders(r, items)
  PROVE  \A T \in SUBSET items : T # {} => \E m \in T : \A x \in T : x # m => Listed(r, x, m)
<1> DEFINE Latest(T, m) == m \in T /\ \A x \in T : x # m => Listed(r, x, m)
           Q == {k \in Nat : \A T \in SUBSET items : Cardinality(T) = k + 1 => \E m : Latest(T, m)}
<1>f. \A T \in SUBSET items : IsFiniteSet(T) /\ Cardinality(T) \in Nat /\ Cardinality(T) <= Cardinality(items)
  BY FS_Subset, FS_CardinalityType
<1>e. \A T \in SUBSET items : Cardinality(T) = 0 <=> T = {}
  BY <1>f, FS_EmptySet
<1>r. ASSUME NEW T \in SUBSET items, NEW x \in T
      PROVE  T \ {x} \in SUBSET items /\ Cardinality(T \ {x}) = Cardinality(T) - 1
  BY <1>f, FS_RemoveElement
<1>0. 0 \in Q
  <2> SUFFICES ASSUME NEW T \in SUBSET items, Cardinality(T) = 0 + 1 PROVE \E m : Latest(T, m)
    BY Zenon
  <2>1. PICK m \in T : TRUE
    BY <1>e
  <2>2. Cardinality(T \ {m}) = 0
    BY <1>r
  <2>3. T \ {m} = {}
    BY <1>e, <1>r, <2>2
  <2>4. Latest(T, m)
    BY <2>3
  <2> QED BY <2>4
<1>1. ASSUME NEW k \in Nat, k \in Q PROVE k + 1 \in Q
  <2> SUFFICES ASSUME NEW T \in SUBSET items, Cardinality(T) = (k + 1) + 1 PROVE \E m : Latest(T, m)
    <3> HIDE DEF Latest
    <3> QED OBVIOUS
  <2>1. PICK x \in T : TRUE
    BY <1>e
  <2>2. T \ {x} \in SUBSET items /\ Cardinality(T \ {x}) = k + 1
    BY <1>r
  <2>3. PICK m : Latest(T \ {x}, m)
    BY <1>1, <2>2
  <2>4. m \in items /\ x \in items /\ x # m
    BY <2>3
  <2>5. CASE Listed(r, x, m)
    <3>1. Latest(T, m)
      BY <2>3, <2>5
    <3> QED BY <3>1
  <2>6. CASE Listed(r, m, x)
    <3>1. Latest(T, x)
      BY <2>3, <2>4, <2>6 DEF Orders
    <3> QED BY <3>1
  <2> QED BY <2>4, <2>5, <2>6 DEF Orders
<1> HIDE DEF Q, Latest
<1>2. \A k \in 0..Cardinality(items) : k \in Q
  BY <1>0, <1>1, <1>f, CountUp
<1>3. ASSUME NEW T \in SUBSET items, T # {} PROVE \E m : Latest(T, m)
  <2>1. Cardinality(T) - 1 \in 0..Cardinality(items) /\ (Cardinality(T) - 1) + 1 = Cardinality(T)
    BY <1>e, <1>f, <1>3
  <2> QED BY <1>2, <2>1 DEF Q
<1> QED BY <1>3 DEF Latest

SortedBy(s, r, T) ==
  /\ s \in P!SetToSeqs(T)
  /\ \A i, j \in DOMAIN s : i < j => Listed(r, s[i], s[j])

\* A finite set that is ordered can be listed in order.
LEMMA SortExists ==
  ASSUME NEW items, IsFiniteSet(items), NEW r, Orders(r, items)
  PROVE  \E s : SortedBy(s, r, items)
<1> DEFINE Q == {k \in Nat : \A T \in SUBSET items : Cardinality(T) = k => \E s : SortedBy(s, r, T)}
<1>f. \A T \in SUBSET items : IsFiniteSet(T) /\ Cardinality(T) \in Nat /\ Cardinality(T) <= Cardinality(items)
  BY FS_Subset, FS_CardinalityType
<1>e. \A T \in SUBSET items : Cardinality(T) = 0 <=> T = {}
  BY <1>f, FS_EmptySet
<1>r. ASSUME NEW T \in SUBSET items, NEW x \in T
      PROVE  T \ {x} \in SUBSET items /\ Cardinality(T \ {x}) = Cardinality(T) - 1
  BY <1>f, FS_RemoveElement
<1>0. 0 \in Q
  <2> SUFFICES ASSUME NEW T \in SUBSET items, Cardinality(T) = 0 PROVE \E s : SortedBy(s, r, T)
    OBVIOUS
  <2>1. T = {} /\ 1..0 = {}
    BY <1>e
  <2>2. SortedBy([i \in 1..0 |-> i], r, T)
    BY <2>1, SetsListed DEF SortedBy
  <2> QED BY <2>2
<1>1. ASSUME NEW k \in Nat, k \in Q PROVE k + 1 \in Q
  <2> SUFFICES ASSUME NEW T \in SUBSET items, Cardinality(T) = k + 1 PROVE \E s : SortedBy(s, r, T)
    OBVIOUS
  <2>1. T # {}
    BY <1>e
  <2>2. PICK m \in T : \A x \in T : x # m => Listed(r, x, m)
    BY <2>1, HasLast
  <2>3. T \ {m} \in SUBSET items /\ Cardinality(T \ {m}) = k
    BY <1>r
  <2>4. PICK s : SortedBy(s, r, T \ {m})
    BY <1>1, <2>3
  <2>5. /\ s \in [1..k -> T \ {m}] /\ \A i, j \in 1..k : i # j => s[i] # s[j]
        /\ \A i, j \in 1..k : i < j => Listed(r, s[i], s[j])
    BY <2>3, <2>4, SetsListed DEF SortedBy
  <2> DEFINE t == [i \in 1..(k + 1) |-> IF i = k + 1 THEN m ELSE s[i]]
  <2>6. \A i \in 1..(k + 1) : i # k + 1 => i \in 1..k
    OBVIOUS
  <2>7. \A i \in 1..(k + 1) : t[i] = IF i = k + 1 THEN m ELSE s[i]
    OBVIOUS
  <2>8. t \in [1..(k + 1) -> T]
    BY <2>5, <2>6
  <2> HIDE DEF t
  <2>9. \A i, j \in 1..(k + 1) : i # j => t[i] # t[j]
    BY <2>5, <2>6, <2>7
  <2>10. \A i, j \in 1..(k + 1) : i < j => Listed(r, t[i], t[j])
    <3> SUFFICES ASSUME NEW i \in 1..(k + 1), NEW j \in 1..(k + 1), i < j
                 PROVE  Listed(r, t[i], t[j])
      OBVIOUS
    <3>1. i \in 1..k /\ t[i] = s[i] /\ s[i] \in T \ {m}
      BY <2>5, <2>7
    <3>2. CASE j = k + 1
      BY <2>2, <2>7, <3>1, <3>2
    <3>3. CASE j # k + 1
      BY <2>5, <2>6, <2>7, <3>1, <3>3
    <3> QED BY <3>2, <3>3
  <2>11. SortedBy(t, r, T)
    BY <2>8, <2>9, <2>10, SetsListed DEF SortedBy
  <2> QED BY <2>11
<1> HIDE DEF Q
<1>2. Cardinality(items) \in Nat
  BY <1>f
<1>3. \A k \in 0..Cardinality(items) : k \in Q
  BY <1>0, <1>1, <1>2, CountUp
<1>4. Cardinality(items) \in Q
  BY <1>2, <1>3
<1> QED BY <1>4 DEF Q

\* The candidates are items, the better ones first.
LEMMA CandidatesAre ==
  ASSUME NEW items, Ranked(items), NEW wtb, wtb.max_buy_candidates \in Int, NEW ranking
  PROVE  \A n \in DOMAIN P!top_candidates(items, wtb, ranking) :
            P!top_candidates(items, wtb, ranking)[n] \in items
<1> PICK r : r = {p \in items \X items : P!RanksBefore(p[1], p[2], ranking)}
  OBVIOUS
<1>1. \A a, b \in items : Listed(r, a, b) <=> P!RanksBefore(a, b, ranking)
  BY Zenon DEF Listed
<1>2. Orders(r, items)
  BY <1>1, RanksAreOrder DEF Orders
<1>3. PICK z : SortedBy(z, r, items)
  BY <1>2, SortExists DEF Ranked
<1> DEFINE sorted == CHOOSE s \in P!SetToSeqs(items) :
                       \A i, j \in DOMAIN s : i < j => P!RanksBefore(s[i], s[j], ranking)
<1>4. \A i \in DOMAIN z : z[i] \in items
  BY <1>3, SetsListed DEF SortedBy
<1>5. z \in P!SetToSeqs(items) /\ \A i, j \in DOMAIN z : i < j => P!RanksBefore(z[i], z[j], ranking)
  BY <1>1, <1>3, <1>4 DEF SortedBy
<1>6. sorted \in P!SetToSeqs(items)
  BY <1>5
<1>7. Cardinality(items) \in Nat
  BY FS_CardinalityType DEF Ranked
<1> PICK c \in Nat : c = Cardinality(items)
  BY <1>7
<1>8. sorted \in [1..c -> items]
  <2> HIDE DEF sorted
  <2>1. sorted \in {f \in [1..Cardinality(items) -> items] : \A i, j \in 1..Cardinality(items) : i # j => f[i] # f[j]}
    BY <1>6, SetsListed
  <2> QED BY <2>1
<1>9. P!top_candidates(items, wtb, ranking) =
        IF P!is_disabled(wtb.max_buy_candidates) THEN sorted
        ELSE SubSeq(sorted, 1, P!Smaller(wtb.max_buy_candidates, Len(sorted)))
  BY DEF P!top_candidates
<1> PICK s : s = sorted
  OBVIOUS
<1> HIDE DEF sorted
<1>10. s \in Seq(items) /\ Len(s) = c
  BY <1>8
<1> PICK l \in Int : l = P!Smaller(wtb.max_buy_candidates, c)
  BY DEF P!Smaller
<1>11. l <= c
  BY DEF P!Smaller
<1>12. \A n \in DOMAIN SubSeq(s, 1, l) : SubSeq(s, 1, l)[n] \in items
  BY <1>10, <1>11
<1> QED BY <1>9, <1>10, <1>12

\* What a function makes of a finite set is finite.
LEMMA ImageFinite ==
  ASSUME NEW S, IsFiniteSet(S), NEW f, DOMAIN f = S, f = [x \in S |-> f[x]]
  PROVE  IsFiniteSet({f[x] : x \in S})
<1> DEFINE T == {f[x] : x \in S}
<1>1. f \in Surjection(S, T)
  BY DEF Surjection
<1> QED
  BY <1>1, FS_Surjection

\* The statistics an item is priced by are a row of the collector's, or one of the
\* market's merged with it.
OfRow(stats, key) ==
  LET m == {r \in stats : r.key = key} IN IF m = {} THEN P!None ELSE P!Some(CHOOSE r \in m : TRUE)
Rows(q) == P!blend(q.inferred, q.closed, q.mode, q.guard_pct, q.basis)
Merged(q, c) == P!merge(OfRow(q.inferred, c.key), c, q.guard_pct, q.basis)
OwnRow(q, e) ==
  \E i \in q.inferred : e = P!Plain(i) /\ (q.mode = "inferred" \/ \A c \in q.closed : c.key # i.key)
MarketRow(q, e) == q.mode # "inferred" /\ \E c \in q.closed : e = Merged(q, c)

\* The rows an item may be priced by, kind by kind (blend).
LEMMA RowsAre ==
  ASSUME NEW q
  PROVE  Rows(q) = IF q.mode = "inferred" THEN {P!Plain(i) : i \in q.inferred}
                   ELSE {Merged(q, c) : c \in q.closed}
                        \cup {P!Plain(i) : i \in {r \in q.inferred : OfRow(q.closed, r.key) = P!None}}
BY DEF Rows, Merged, OfRow, P!blend

\* The row of a key is one with that key, if there is one (blend).
LEMMA OfRowIs ==
  ASSUME NEW stats, NEW key
  PROVE  /\ OfRow(stats, key) = P!None <=> \A r \in stats : r.key # key
         /\ OfRow(stats, key) # P!None => \E r \in stats : r.key = key /\ OfRow(stats, key) = P!Some(r)
<1> DEFINE m == {r \in stats : r.key = key}
<1>1. m # {} => (CHOOSE r \in m : TRUE) \in m
  OBVIOUS
<1> QED
  BY <1>1 DEF OfRow, P!None, P!Some

\* A row is the collector's own or the market's merged (blend).
LEMMA RowIs ==
  ASSUME NEW q, NEW e \in Rows(q)
  PROVE  OwnRow(q, e) \/ MarketRow(q, e)
<1>1. CASE q.mode = "inferred"
  BY <1>1, RowsAre DEF OwnRow
<1>2. CASE q.mode # "inferred"
  <2>1. CASE e \in {Merged(q, c) : c \in q.closed}
    BY <1>2, <2>1 DEF MarketRow
  <2>2. CASE e \in {P!Plain(i) : i \in {r \in q.inferred : OfRow(q.closed, r.key) = P!None}}
    <3>1. PICK i \in q.inferred : e = P!Plain(i) /\ OfRow(q.closed, i.key) = P!None
      BY <2>2
    <3>2. \A c \in q.closed : c.key # i.key
      BY <3>1, OfRowIs
    <3> QED BY <3>1, <3>2 DEF OwnRow
  <2> QED BY <1>2, <2>1, <2>2, RowsAre
<1> QED
  BY <1>1, <1>2

\* What the questions are assumed to be, of one of them.
LEMMA MarketRows ==
  ASSUME NEW q \in Markets
  PROVE  /\ q.wtb.profit_threshold \in Int /\ q.wtb.max_buy_candidates \in Int
         /\ IsFiniteSet(q.inferred) /\ IsFiniteSet(q.closed)
         /\ \A r \in q.inferred \cup q.closed : r.volume \in Int /\ r.key.uuid \in Int
         /\ \A r \in q.inferred : IsOption(r.profit)
         /\ \A r \in q.closed : IsOption(r.range_profit)
         /\ \A r, s \in q.inferred \cup q.closed : r.key.uuid = s.key.uuid => r.key = s.key
         /\ \A r, s \in q.inferred : r.key = s.key => r = s
         /\ \A r, s \in q.closed : r.key = s.key => r = s
BY QuestionsAssumption

\* A row has numbers to rank it by, and a profit only where the collector has one.
RowFacts(q, e) ==
  /\ e.stats.volume \in Int /\ e.stats.key.uuid \in Int /\ IsOption(e.stats.profit)
  /\ e.stats.profit # <<>> => \E i \in q.inferred : i.key = e.stats.key

\* A merged row has the market's key and volume, and a profit only with the collector's (merge).
LEMMA MergedIs ==
  ASSUME NEW q, NEW c
  PROVE  /\ Merged(q, c).stats.key = c.key /\ Merged(q, c).stats.volume = c.volume
         /\ Merged(q, c).stats.profit =
              IF OfRow(q.inferred, c.key) = P!None THEN <<>>
              ELSE IF q.basis = "range" /\ c.range_profit # <<>> THEN c.range_profit
              ELSE OfRow(q.inferred, c.key)[1].profit
BY DEF Merged, P!merge, P!None

\* A row of the collector's is listed as it is.
LEMMA PlainIs ==
  ASSUME NEW i
  PROVE  P!Plain(i).stats = i
BY DEF P!Plain

\* Each row an item is priced by has those numbers (merge).
LEMMA RowsHaveFacts ==
  ASSUME NEW q \in Markets, NEW e \in Rows(q)
  PROVE  RowFacts(q, e)
<1>1. CASE OwnRow(q, e)
  <2>1. PICK i \in q.inferred : e = P!Plain(i)
    BY <1>1 DEF OwnRow
  <2>2. e.stats = i
    BY <2>1, PlainIs
  <2> QED BY <2>2, MarketRows DEF RowFacts
<1>2. CASE MarketRow(q, e)
  <2>1. PICK c \in q.closed : e = Merged(q, c)
    BY <1>2 DEF MarketRow
  <2>2. e.stats.key = c.key /\ e.stats.volume = c.volume
    BY <2>1, MergedIs
  <2>3. c.volume \in Int /\ c.key.uuid \in Int /\ IsOption(c.range_profit)
    BY MarketRows
  <2>4. CASE OfRow(q.inferred, c.key) = P!None
    <3>1. e.stats.profit = <<>>
      BY <2>1, <2>4, MergedIs
    <3> QED BY <2>2, <2>3, <3>1 DEF RowFacts, IsOption, Nothing
  <2>5. CASE OfRow(q.inferred, c.key) # P!None
    <3>1. PICK r \in q.inferred : r.key = c.key /\ OfRow(q.inferred, c.key) = P!Some(r)
      BY <2>5, OfRowIs
    <3>2. OfRow(q.inferred, c.key)[1] = r
      BY <3>1 DEF P!Some
    <3>3. e.stats.profit = c.range_profit \/ e.stats.profit = r.profit
      BY <2>1, <2>5, <3>2, MergedIs
    <3>4. IsOption(r.profit)
      BY MarketRows
    <3> QED BY <2>2, <2>3, <3>1, <3>3, <3>4 DEF RowFacts
  <2> QED BY <2>4, <2>5
<1> QED
  BY <1>1, <1>2, RowIs

\* Two rows of one key are one.
LEMMA RowsDiffer ==
  ASSUME NEW q \in Markets, NEW e \in Rows(q), NEW f \in Rows(q),
         e.stats.key.uuid = f.stats.key.uuid
  PROVE  e = f
<1>1. ASSUME NEW a \in Rows(q)
      PROVE  \/ \E i \in q.inferred : /\ a = P!Plain(i) /\ a.stats.key = i.key
                                      /\ q.mode = "inferred" \/ \A c \in q.closed : c.key # i.key
             \/ \E c \in q.closed : q.mode # "inferred" /\ a = Merged(q, c) /\ a.stats.key = c.key
  <2>1. CASE OwnRow(q, a)
    BY <2>1, PlainIs DEF OwnRow
  <2>2. CASE MarketRow(q, a)
    BY <2>2, MergedIs DEF MarketRow
  <2> QED BY <2>1, <2>2, RowIs
<1>2. e.stats.key = f.stats.key
  <2>1. ASSUME NEW a \in Rows(q) PROVE \E r \in q.inferred \cup q.closed : a.stats.key = r.key
    BY <1>1
  <2> QED BY <2>1, MarketRows
<1>3. \A r, s \in q.inferred : r.key = s.key => r = s
  BY MarketRows
<1>4. \A r, s \in q.closed : r.key = s.key => r = s
  BY MarketRows
<1> QED
  BY <1>1, <1>2, <1>3, <1>4

\* There are finitely many rows.
LEMMA RowsAreFinite ==
  ASSUME NEW q \in Markets
  PROVE  IsFiniteSet(Rows(q))
<1>0. IsFiniteSet(q.inferred) /\ IsFiniteSet(q.closed)
  BY MarketRows
<1>0a. PICK A : A = q.inferred
  OBVIOUS
<1>0b. PICK B : B = q.closed
  OBVIOUS
<1>1. PICK f : f = [i \in A |-> P!Plain(i)]
  OBVIOUS
<1>2. PICK g : g = [c \in B |-> Merged(q, c)]
  OBVIOUS
<1>3. PICK S : S = {f[i] : i \in A}
  OBVIOUS
<1>4. PICK T : T = {g[c] : c \in B}
  OBVIOUS
<1>5. IsFiniteSet(S)
  <2>1. DOMAIN f = A /\ f = [i \in A |-> f[i]] /\ IsFiniteSet(A)
    BY <1>0, <1>0a, <1>1
  <2>2. IsFiniteSet({f[i] : i \in A})
    BY <2>1, ImageFinite
  <2> QED BY <1>3, <2>2
<1>6. IsFiniteSet(T)
  <2>1. DOMAIN g = B /\ g = [c \in B |-> g[c]] /\ IsFiniteSet(B)
    BY <1>0, <1>0b, <1>2
  <2>2. IsFiniteSet({g[c] : c \in B})
    BY <2>1, ImageFinite
  <2> QED BY <1>4, <2>2
<1>7. Rows(q) \subseteq S \cup T
  <2> SUFFICES ASSUME NEW e \in Rows(q) PROVE e \in S \cup T
    OBVIOUS
  <2>1. CASE OwnRow(q, e)
    <3>1. PICK i \in A : e = P!Plain(i)
      BY <2>1, <1>0a DEF OwnRow
    <3>2. e = f[i]
      BY <3>1, <1>1
    <3> QED BY <3>2, <1>3
  <2>2. CASE MarketRow(q, e)
    <3>1. PICK c \in B : e = Merged(q, c)
      BY <2>2, <1>0b DEF MarketRow
    <3>2. e = g[c]
      BY <3>1, <1>2
    <3> QED BY <3>2, <1>4
  <2> QED BY <2>1, <2>2, RowIs
<1>8. IsFiniteSet(S \cup T)
  BY <1>5, <1>6, FS_Union
<1> QED
  BY <1>7, <1>8, FS_Subset

\* What an item is listed as: its row, with the numbers that are missing made 0.
ListedAs(q, e) == P!from_effective(e, q.items[e.stats.key.wfm])

\* The items priced are the rows listed (from_effective).
LEMMA PricedIs ==
  ASSUME NEW q
  PROVE  P!Priced(q) = {ListedAs(q, e) : e \in Rows(q)}
BY DEF P!Priced, ListedAs, Rows

\* An item is listed with its row's key, and no profit as 0 (from_effective).
LEMMA ListedIs ==
  ASSUME NEW q \in Markets, NEW e \in Rows(q)
  PROVE  /\ ListedAs(q, e).key = e.stats.key
         /\ ListedAs(q, e).volume \in Int /\ ListedAs(q, e).profit \in Int
         /\ e.stats.profit = <<>> => ListedAs(q, e).profit = 0
<1>1. IsOption(e.stats.profit) /\ e.stats.volume \in Int
  BY RowsHaveFacts DEF RowFacts
<1>2. P!unwrap_or(e.stats.profit, 0) \in Int
  BY <1>1 DEF P!unwrap_or, IsOption, Nothing, P!None
<1>3. e.stats.profit = <<>> => P!unwrap_or(e.stats.profit, 0) = 0
  BY DEF P!unwrap_or, P!None
<1> QED
  BY <1>1, <1>2, <1>3 DEF ListedAs, P!from_effective

\* The items that are listed can be ranked.
LEMMA ListIsRanked ==
  ASSUME NEW q \in Markets, NEW items, items \subseteq P!Priced(q)
  PROVE  Ranked(items)
<1>1. \A i \in items : \E e \in Rows(q) : i = ListedAs(q, e)
  BY PricedIs
<1>2. IsFiniteSet(items)
  <2>0. PICK S : S = Rows(q)
    OBVIOUS
  <2>1. PICK f : f = [e \in S |-> ListedAs(q, e)]
    OBVIOUS
  <2>2. DOMAIN f = S /\ f = [e \in S |-> f[e]] /\ IsFiniteSet(S)
    BY <2>0, <2>1, RowsAreFinite
  <2>3. IsFiniteSet({f[e] : e \in S})
    BY <2>2, ImageFinite
  <2>4. items \subseteq {f[e] : e \in S}
    <3> SUFFICES ASSUME NEW i \in items PROVE i \in {f[e] : e \in S}
      OBVIOUS
    <3>1. PICK e \in Rows(q) : i = ListedAs(q, e)
      BY <1>1
    <3>2. e \in S /\ i = f[e]
      BY <2>0, <2>1, <3>1
    <3> QED BY <3>2
  <2> QED BY <2>3, <2>4, FS_Subset
<1>3. ASSUME NEW i \in items
      PROVE  i.profit \in Int /\ i.volume \in Int /\ i.key.uuid \in Int
  <2>1. PICK e \in Rows(q) : i = ListedAs(q, e)
    BY <1>1
  <2>2. e.stats.key.uuid \in Int
    BY RowsHaveFacts DEF RowFacts
  <2> QED BY <2>1, <2>2, ListedIs
<1>4. ASSUME NEW i \in items, NEW j \in items, i.key.uuid = j.key.uuid
      PROVE  i = j
  <2>1. PICK e \in Rows(q) : i = ListedAs(q, e)
    BY <1>1
  <2>2. PICK f \in Rows(q) : j = ListedAs(q, f)
    BY <1>1
  <2>3. e.stats.key.uuid = f.stats.key.uuid
    BY <1>4, <2>1, <2>2, ListedIs
  <2>4. e = f
    BY <2>3, RowsDiffer
  <2> QED BY <2>1, <2>2, <2>4
<1> QED
  BY <1>2, <1>3, <1>4 DEF Ranked

\* While a profit is asked for, the items that pass the filters are keys the collector
\* has seen.
LEMMA SeenKeysPass ==
  ASSUME NEW q \in Markets, ~P!is_disabled(q.wtb.profit_threshold),
         NEW i \in P!filtered_items(q.wtb, P!Priced(q))
  PROVE  \E r \in q.inferred : r.key = i.key
<1>1. i \in P!Priced(q) /\ i.profit > q.wtb.profit_threshold
  BY DEF P!filtered_items
<1>2. PICK e \in Rows(q) : i = ListedAs(q, e)
  BY <1>1, PricedIs
<1>3. q.wtb.profit_threshold \in Int
  BY MarketRows
<1>4. i.profit > 0 /\ i.profit \in Int
  BY <1>1, <1>2, <1>3, ListedIs DEF P!is_disabled
<1>5. e.stats.profit # <<>>
  BY <1>2, <1>4, ListedIs
<1> QED
  BY <1>2, <1>5, ListedIs, RowsHaveFacts DEF RowFacts

\* The candidates are keys the collector has seen.
LEMMA UnseenKeysAreOut ==
  ASSUME P!RulesInv
  PROVE  P!UnseenKeysWinNoSlot
<1> SUFFICES ASSUME P!Answered("rank"), ~P!is_disabled(y1.wtb.profit_threshold),
                    NEW n \in DOMAIN y3[2].candidates
             PROVE  \E i \in y1.inferred : i.key = y3[2].candidates[n].key
  BY DEF P!UnseenKeysWinNoSlot
<1>1. y1 \in Markets /\ y3[2] = P!RankOf(y1)
  BY DEF P!Answered, P!RulesInv
<1>2. y3[2].candidates = P!get_interesting_items(y1.wtb, P!Priced(y1))
  BY <1>1 DEF P!RankOf
<1>3. PICK items : items = P!filtered_items(y1.wtb, P!Priced(y1))
  OBVIOUS
<1>4. y3[2].candidates = P!top_candidates(items, y1.wtb, y1.wtb.candidate_ranking)
  BY <1>2, <1>3 DEF P!get_interesting_items
<1>5. Ranked(items)
  <2>1. items \subseteq P!Priced(y1)
    BY <1>3 DEF P!filtered_items
  <2> QED BY <1>1, <2>1, ListIsRanked
<1>6. y3[2].candidates[n] \in items
  <2>1. y1.wtb.max_buy_candidates \in Int
    BY <1>1, MarketRows
  <2> QED BY <1>4, <1>5, <2>1, CandidatesAre
<1> QED
  BY <1>1, <1>3, <1>6, SeenKeysPass

-----------------------------------------------------------------------------
(* Resolution: sums compared, added and moved.                                 *)

\* What holds of the empty set, and of a set when it holds without one of its
\* members, holds of every part of a finite set: Good is the sets it holds of.
LEMMA Dismantle ==
  ASSUME NEW S, IsFiniteSet(S), NEW Good, {} \in Good,
         \A T \in SUBSET S : \A x \in T : T \ {x} \in Good => T \in Good
  PROVE  \A T \in SUBSET S : T \in Good
<1> DEFINE Q == {k \in Nat : \A T \in SUBSET S : Cardinality(T) = k => T \in Good}
<1>f. \A T \in SUBSET S : IsFiniteSet(T) /\ Cardinality(T) \in Nat /\ Cardinality(T) <= Cardinality(S)
  BY FS_Subset, FS_CardinalityType
<1>0. 0 \in Q
  <2> SUFFICES ASSUME NEW T \in SUBSET S, Cardinality(T) = 0 PROVE T \in Good
    OBVIOUS
  <2>1. T = {}
    BY <1>f, FS_EmptySet
  <2> QED BY <2>1
<1>1. ASSUME NEW k \in Nat, k \in Q PROVE k + 1 \in Q
  <2> SUFFICES ASSUME NEW T \in SUBSET S, Cardinality(T) = k + 1 PROVE T \in Good
    OBVIOUS
  <2>1. T # {} /\ IsFiniteSet(T)
    BY <1>f, FS_EmptySet
  <2>2. PICK x \in T : TRUE
    BY <2>1
  <2>3. Cardinality(T \ {x}) = Cardinality(T) - 1
    BY <2>1, <2>2, FS_RemoveElement, Zenon
  <2>4. T \ {x} \in SUBSET S /\ Cardinality(T \ {x}) = k
    BY <2>3
  <2>5. T \ {x} \in Good
    BY <1>1, <2>4
  <2> QED BY <2>5
<1> HIDE DEF Q
<1>2. Cardinality(S) \in Nat
  BY <1>f
<1>3. \A k \in 0..Cardinality(S) : k \in Q
  BY <1>0, <1>1, <1>2, CountUp
<1>4. ASSUME NEW T \in SUBSET S PROVE T \in Good
  <2>1. Cardinality(T) \in 0..Cardinality(S)
    BY <1>f
  <2> QED BY <1>3, <2>1 DEF Q
<1> QED BY <1>4

\* A sum over a set is that over the set without one member and the member's number.
LEMMA SumWithout ==
  ASSUME NEW S, IsFiniteSet(S), NEW g \in [S -> Int], NEW T \in SUBSET S, NEW x \in T
  PROVE  /\ SumOf(g, T) \in Int /\ SumOf(g, T \ {x}) \in Int /\ g[x] \in Int
         /\ SumOf(g, T) = SumOf(g, T \ {x}) + g[x]
<1>1. T \ {x} \in SUBSET S /\ x \in S
  OBVIOUS
<1>2. SumOf(g, T) \in Int /\ SumOf(g, T \ {x}) \in Int
  BY <1>1, SumFacts DEF Sums
<1>3. SumOf(g, T) = g[x] + SumOf(g, T \ {x})
  BY SumFacts DEF Sums
<1>4. g[x] \in Int
  BY <1>1
<1> QED BY <1>2, <1>3, <1>4

\* The sum of no numbers is zero.
LEMMA SumOfNone ==
  ASSUME NEW S, IsFiniteSet(S), NEW g \in [S -> Int]
  PROVE  SumOf(g, {}) = 0
BY SumFacts DEF Sums

\* How the numbers of a finite set compare with others.
Numbers(g, S) == IsFiniteSet(S) /\ g \in [S -> Int]
Within(h, g, U, S) == U \in SUBSET S /\ \A x \in S : h[x] = IF x \in U THEN g[x] ELSE 0
Same(h, g, T) == \A x \in T : h[x] = g[x]
Below(g, h, S) == \A x \in S : g[x] <= h[x]
AddUp(e, g, h, S) == \A x \in S : e[x] = g[x] + h[x]
Scaled(h, c, g, S) == \A x \in S : h[x] = c * g[x]
Follows(h, g, at, K) == \A i \in K : h[i] = g[at[i]]

\* Numbers that are the same where they are added have the same sum, the zeros left out or not.
LEMMA SumsAgree ==
  ASSUME NEW S, NEW g, Numbers(g, S), NEW h, Numbers(h, S), NEW U, Within(h, g, U, S)
  PROVE  SumOf(h, S) = SumOf(g, U)
<1> IsFiniteSet(S)
  BY DEF Numbers
<1> g \in [S -> Int]
  BY DEF Numbers
<1> h \in [S -> Int]
  BY DEF Numbers
<1> U \in SUBSET S
  BY DEF Within
<1>0. \A x \in S : h[x] = IF x \in U THEN g[x] ELSE 0
  BY DEF Within
<1> DEFINE Good == {T \in SUBSET S : SumOf(h, T) = SumOf(g, T \cap U)}
<1>1. {} \in Good
  <2>1. {} \cap U = {} /\ {} \in SUBSET S
    OBVIOUS
  <2> QED BY <2>1, SumOfNone
<1>2. ASSUME NEW T \in SUBSET S, NEW x \in T, T \ {x} \in Good
      PROVE  T \in Good
  <2>1. SumOf(h, T) = SumOf(h, T \ {x}) + h[x] /\ SumOf(h, T \ {x}) \in Int /\ h[x] \in Int
    BY SumWithout
  <2>2. SumOf(h, T \ {x}) = SumOf(g, (T \ {x}) \cap U)
    BY <1>2
  <2>3. CASE x \in U
    <3>1. T \cap U \in SUBSET S /\ x \in T \cap U /\ (T \ {x}) \cap U = (T \cap U) \ {x}
      BY <2>3
    <3>2. SumOf(g, T \cap U) = SumOf(g, (T \cap U) \ {x}) + g[x]
      BY <3>1, SumWithout
    <3>3. h[x] = g[x]
      BY <1>0, <2>3
    <3> QED BY <2>1, <2>2, <3>1, <3>2, <3>3
  <2>4. CASE x \notin U
    <3>1. (T \ {x}) \cap U = T \cap U /\ h[x] = 0
      BY <1>0, <2>4
    <3>2. SumOf(h, T) = SumOf(h, T \ {x})
      BY <2>1, <3>1
    <3> QED BY <2>2, <3>1, <3>2
  <2> QED BY <2>3, <2>4
<1> HIDE DEF Good
<1>3. \A T \in SUBSET S : T \in Good
  BY <1>1, <1>2, Dismantle
<1>4. S \in SUBSET S /\ S \cap U = U
  OBVIOUS
<1>5. SumOf(h, S) = SumOf(g, S \cap U)
  BY <1>3, <1>4 DEF Good
<1> QED BY <1>4, <1>5

\* Numbers that are equal on the set have the same sum over it.
LEMMA SameSum ==
  ASSUME NEW S, NEW g, Numbers(g, S), NEW h, Numbers(h, S), NEW T, T \in SUBSET S, Same(h, g, T)
  PROVE  SumOf(h, T) = SumOf(g, T)
<1> IsFiniteSet(S)
  BY DEF Numbers
<1> DEFINE e == [x \in S |-> IF x \in T THEN g[x] ELSE 0]
<1>1. e \in [S -> Int] /\ \A x \in S : e[x] = IF x \in T THEN g[x] ELSE 0
  BY DEF Numbers
<1>2. \A x \in S : e[x] = IF x \in T THEN h[x] ELSE 0
  BY DEF Same
<1> HIDE DEF e
<1>3. Numbers(e, S) /\ Within(e, g, T, S) /\ Within(e, h, T, S)
  BY <1>1, <1>2 DEF Numbers, Within
<1> QED BY <1>3, SumsAgree

\* Smaller numbers have the smaller sum.
LEMMA SumsCompare ==
  ASSUME NEW S, NEW g, Numbers(g, S), NEW h, Numbers(h, S), Below(g, h, S)
  PROVE  SumOf(g, S) <= SumOf(h, S)
<1> IsFiniteSet(S)
  BY DEF Numbers
<1> g \in [S -> Int]
  BY DEF Numbers
<1> h \in [S -> Int]
  BY DEF Numbers
<1> DEFINE Good == {T \in SUBSET S : SumOf(g, T) <= SumOf(h, T)}
<1>1. {} \in Good
  BY SumOfNone
<1>2. ASSUME NEW T \in SUBSET S, NEW x \in T, T \ {x} \in Good
      PROVE  T \in Good
  <2>1. SumOf(h, T) = SumOf(h, T \ {x}) + h[x] /\ SumOf(h, T \ {x}) \in Int /\ h[x] \in Int
    BY SumWithout
  <2>2. SumOf(g, T) = SumOf(g, T \ {x}) + g[x] /\ SumOf(g, T \ {x}) \in Int /\ g[x] \in Int
    BY SumWithout
  <2>3. SumOf(g, T \ {x}) <= SumOf(h, T \ {x}) /\ g[x] <= h[x]
    BY <1>2 DEF Below
  <2> QED BY <2>1, <2>2, <2>3
<1> HIDE DEF Good
<1>3. \A T \in SUBSET S : T \in Good
  BY <1>1, <1>2, Dismantle
<1>4. S \in SUBSET S
  OBVIOUS
<1> QED BY <1>3, <1>4 DEF Good

\* The sum of the sums is the sum of the sums.
LEMMA SumsAdd ==
  ASSUME NEW S, NEW g, Numbers(g, S), NEW h, Numbers(h, S), NEW e, Numbers(e, S), AddUp(e, g, h, S)
  PROVE  SumOf(e, S) = SumOf(g, S) + SumOf(h, S)
<1> IsFiniteSet(S)
  BY DEF Numbers
<1> g \in [S -> Int]
  BY DEF Numbers
<1> h \in [S -> Int]
  BY DEF Numbers
<1> e \in [S -> Int]
  BY DEF Numbers
<1> DEFINE Good == {T \in SUBSET S : SumOf(e, T) = SumOf(g, T) + SumOf(h, T)}
<1>1. {} \in Good
  BY SumOfNone
<1>2. ASSUME NEW T \in SUBSET S, NEW x \in T, T \ {x} \in Good
      PROVE  T \in Good
  <2>1. SumOf(h, T) = SumOf(h, T \ {x}) + h[x] /\ SumOf(h, T \ {x}) \in Int /\ h[x] \in Int
    BY SumWithout
  <2>2. SumOf(g, T) = SumOf(g, T \ {x}) + g[x] /\ SumOf(g, T \ {x}) \in Int /\ g[x] \in Int
    BY SumWithout
  <2>3. SumOf(e, T) = SumOf(e, T \ {x}) + e[x]
    BY SumWithout
  <2>4. SumOf(e, T \ {x}) = SumOf(g, T \ {x}) + SumOf(h, T \ {x}) /\ e[x] = g[x] + h[x]
    BY <1>2 DEF AddUp
  <2> QED BY <2>1, <2>2, <2>3, <2>4
<1> HIDE DEF Good
<1>3. \A T \in SUBSET S : T \in Good
  BY <1>1, <1>2, Dismantle
<1>4. S \in SUBSET S
  OBVIOUS
<1> QED BY <1>3, <1>4 DEF Good

\* A sum of multiples is the multiple of the sum.
LEMMA SumScaled ==
  ASSUME NEW S, NEW g, Numbers(g, S), NEW h, Numbers(h, S), NEW c \in Int, Scaled(h, c, g, S)
  PROVE  SumOf(h, S) = c * SumOf(g, S)
<1> IsFiniteSet(S)
  BY DEF Numbers
<1> g \in [S -> Int]
  BY DEF Numbers
<1> h \in [S -> Int]
  BY DEF Numbers
<1> DEFINE Good == {T \in SUBSET S : SumOf(h, T) = c * SumOf(g, T)}
<1>1. {} \in Good
  BY SumOfNone
<1>2. ASSUME NEW T \in SUBSET S, NEW x \in T, T \ {x} \in Good
      PROVE  T \in Good
  <2>1. SumOf(h, T) = SumOf(h, T \ {x}) + h[x]
    BY SumWithout
  <2>2. SumOf(g, T) = SumOf(g, T \ {x}) + g[x] /\ SumOf(g, T \ {x}) \in Int /\ g[x] \in Int
    BY SumWithout
  <2>3. SumOf(h, T \ {x}) = c * SumOf(g, T \ {x}) /\ h[x] = c * g[x]
    BY <1>2 DEF Scaled
  <2> PICK a \in Int, b \in Int : a = SumOf(g, T \ {x}) /\ b = g[x]
    BY <2>2
  <2>4. c * a + c * b = c * (a + b)
    BY ONLY c \in Int, a \in Int, b \in Int
  <2> QED BY <2>1, <2>2, <2>3, <2>4
<1> HIDE DEF Good
<1>3. \A T \in SUBSET S : T \in Good
  BY <1>1, <1>2, Dismantle
<1>4. S \in SUBSET S
  OBVIOUS
<1> QED BY <1>3, <1>4 DEF Good

\* One number changed changes the sum by as much.
LEMMA SumChanged ==
  ASSUME NEW S, NEW g, Numbers(g, S), NEW h, Numbers(h, S), NEW a \in S, Same(h, g, S \ {a})
  PROVE  SumOf(h, S) = SumOf(g, S) + (h[a] - g[a])
<1> IsFiniteSet(S)
  BY DEF Numbers
<1> g \in [S -> Int]
  BY DEF Numbers
<1> h \in [S -> Int]
  BY DEF Numbers
<1>0. S \in SUBSET S /\ S \ {a} \in SUBSET S
  OBVIOUS
<1>1. SumOf(h, S \ {a}) = SumOf(g, S \ {a})
  BY <1>0, SameSum
<1>2. SumOf(h, S) = SumOf(h, S \ {a}) + h[a] /\ SumOf(h, S \ {a}) \in Int /\ h[a] \in Int
  BY <1>0, SumWithout
<1>3. SumOf(g, S) = SumOf(g, S \ {a}) + g[a] /\ SumOf(g, S \ {a}) \in Int /\ g[a] \in Int
  BY <1>0, SumWithout
<1> QED BY <1>1, <1>2, <1>3

\* at takes the places K to the places J, each to one.
Moves(at, K, J) ==
  /\ at \in [K -> J]
  /\ \A i, j \in K : i # j => at[i] # at[j]
  /\ {at[i] : i \in K} = J

\* Numbers moved to other places keep their sum.
LEMMA MovedSum ==
  ASSUME NEW S, NEW g, Numbers(g, S), NEW J, J \in SUBSET S, NEW K, NEW h, Numbers(h, K),
         NEW at, Moves(at, K, J), Follows(h, g, at, K)
  PROVE  SumOf(h, K) = SumOf(g, J)
<1> IsFiniteSet(S)
  BY DEF Numbers
<1> g \in [S -> Int]
  BY DEF Numbers
<1> IsFiniteSet(K)
  BY DEF Numbers
<1> h \in [K -> Int]
  BY DEF Numbers
<1> DEFINE Im(T) == {at[i] : i \in T}
           Good == {T \in SUBSET K : SumOf(h, T) = SumOf(g, Im(T))}
<1>0. at \in [K -> J] /\ (\A i, j \in K : i # j => at[i] # at[j]) /\ Im(K) = J
  BY DEF Moves
<1>1. {} \in Good
  <2>1. Im({}) = {}
    OBVIOUS
  <2> QED BY <2>1, SumOfNone
<1>2. ASSUME NEW T \in SUBSET K, NEW x \in T, T \ {x} \in Good
      PROVE  T \in Good
  <2>1. Im(T) \in SUBSET S /\ at[x] \in Im(T) /\ Im(T \ {x}) = Im(T) \ {at[x]}
    BY <1>0
  <2>2. SumOf(h, T \ {x}) = SumOf(g, Im(T \ {x})) /\ h[x] = g[at[x]]
    BY <1>2 DEF Follows
  <2> HIDE DEF Im
  <2>3. SumOf(h, T) = SumOf(h, T \ {x}) + h[x]
    BY SumWithout
  <2>4. SumOf(g, Im(T)) = SumOf(g, Im(T) \ {at[x]}) + g[at[x]]
    BY <2>1, SumWithout
  <2>5. SumOf(h, T) = SumOf(g, Im(T))
    BY <2>1, <2>2, <2>3, <2>4
  <2> QED BY <2>5
<1> HIDE DEF Good, Im
<1>3. \A T \in SUBSET K : T \in Good
  BY <1>1, <1>2, Dismantle
<1>4. K \in Good
  BY <1>3
<1> QED BY <1>0, <1>4 DEF Good

\* What the resolution adds up is the sum.
LEMMA SumAtIs ==
  ASSUME NEW S, NEW g, Numbers(g, S), NEW T, T \in SUBSET S
  PROVE  R!SumAt(g, T) = SumOf(g, T)
<1> IsFiniteSet(S)
  BY DEF Numbers
<1> g \in [S -> Int]
  BY DEF Numbers
<1> DEFINE E(it) == [s \in SUBSET T |-> IF s = {} THEN 0
                        ELSE LET x == CHOOSE x \in s : TRUE IN g[x] + it[s \ {x}]]
           iter == CHOOSE it : it = E(it)
           h == [x \in T |-> g[x]]
           f == [s \in SUBSET T |-> SumOf(h, s)]
<1>0. IsFiniteSet(T) /\ h \in [T -> Int] /\ \A x \in T : h[x] = g[x]
  BY FS_Subset
<1> HIDE DEF h
<1>1. f = E(f)
  <2>1. Adds(f, h, T)
    BY <1>0, SumAdds
  <2> HIDE DEF f
  <2>2. ASSUME NEW s \in SUBSET T
        PROVE  f[s] = IF s = {} THEN 0
                      ELSE LET x == CHOOSE x \in s : TRUE IN g[x] + f[s \ {x}]
    <3>1. s # {} => (CHOOSE x \in s : TRUE) \in T
      OBVIOUS
    <3> QED BY <1>0, <2>1, <3>1 DEF Adds
  <2>3. f = [s \in SUBSET T |-> f[s]]
    BY DEF f
  <2> QED BY <2>2, <2>3
<1>2. iter = E(iter)
  BY <1>1
<1>3. R!SumAt(g, T) = iter[T]
  BY DEF R!SumAt, R!MapThenSumSet, R!MapThenFoldSet
<1> HIDE DEF iter
<1>4. Adds(iter, h, T)
  <2>1. ASSUME NEW s \in SUBSET T
        PROVE  iter[s] = IF s = {} THEN 0 ELSE g[CHOOSE x \in s : TRUE] + iter[s \ {CHOOSE x \in s : TRUE}]
    BY <1>2
  <2>2. \A s \in SUBSET T : s # {} => (CHOOSE x \in s : TRUE) \in T
    OBVIOUS
  <2> QED BY <1>0, <2>1, <2>2 DEF Adds
<1>5. SumOf(h, T) = SumOf(g, T)
  BY <1>0, SumOver
<1> QED BY <1>0, <1>3, <1>4, <1>5, IterationIsSum

\* Naturals have a natural sum, no smaller than any of them.
Naturals(g, S) == IsFiniteSet(S) /\ g \in [S -> Nat]
LEMMA NaturalSum ==
  ASSUME NEW S, NEW g, Naturals(g, S)
  PROVE  Numbers(g, S) /\ SumOf(g, S) \in Nat /\ \A x \in S : g[x] <= SumOf(g, S)
<1> IsFiniteSet(S)
  BY DEF Naturals
<1> g \in [S -> Nat]
  BY DEF Naturals
<1> g \in [S -> Int]
  OBVIOUS
<1>1. S \in SUBSET S /\ \A x \in S : S \ {x} \in SUBSET S
  OBVIOUS
<1>2. \A T \in SUBSET S : SumOf(g, T) \in Nat
  BY SumOfNats
<1>3. ASSUME NEW x \in S PROVE g[x] <= SumOf(g, S)
  <2>1. SumOf(g, S) = SumOf(g, S \ {x}) + g[x] /\ SumOf(g, S \ {x}) \in Nat /\ g[x] \in Nat
    BY <1>1, <1>2, SumWithout
  <2> QED BY <2>1
<1> QED BY <1>1, <1>2, <1>3 DEF Numbers

-----------------------------------------------------------------------------
(* Resolution: lines kept, and the units lines have.                           *)

\* The listings the resolution picks from are those the rules pick from.
LEMMA ListedAlike ==
  ASSUME NEW T
  PROVE  R!SetToSeqs(T) = P!SetToSeqs(T)
<1>1. R!Cardinality(T) = Cardinality(T)
  BY DEF R!Cardinality, Cardinality, R!IsFiniteSet, IsFiniteSet
<1> QED BY <1>1, SetsListed DEF R!SetToSeqs

\* What is kept of lines: those at the places J, in some order.
Kept(kept, s, J, at) ==
  Moves(at, 1..Cardinality(J), J) /\ kept = [k \in 1..Cardinality(J) |-> s[at[k]]]

\* The lines at some places are these lines, each once (retain).
LEMMA LinesAtIs ==
  ASSUME NEW n \in Nat, NEW J \in SUBSET (1..n), NEW s
  PROVE  \E at : Kept(R!LinesAt(s, J), s, J, at)
<1>f. IsFiniteSet(J) /\ Cardinality(J) \in Nat
  <2> PICK S : S = 1..n
    OBVIOUS
  <2>1. IsFiniteSet(S) /\ J \in SUBSET S
    BY FS_Interval
  <2>2. IsFiniteSet(J)
    BY <2>1, FS_Subset
  <2> QED BY <2>2, FS_CardinalityType
<1> PICK r : r = {p \in J \X J : p[1] < p[2]}
  OBVIOUS
<1>1. \A a, b \in J : Listed(r, a, b) <=> a < b
  BY Zenon DEF Listed
<1>2. Orders(r, J)
  <2>1. J \in SUBSET Nat
    OBVIOUS
  <2>2. \A a, b \in J : a # b => a < b \/ b < a
    BY <2>1
  <2>3. \A a, b, c \in J : a < b /\ b < c => a < c
    BY <2>1
  <2>4. \A a \in J : ~(a < a)
    BY <2>1
  <2> QED BY <1>1, <2>2, <2>3, <2>4 DEF Orders
<1>3. PICK z : SortedBy(z, r, J)
  BY <1>f, <1>2, SortExists
<1>4. \A i \in DOMAIN z : z[i] \in J
  BY <1>3, SetsListed DEF SortedBy
<1>5. z \in R!SetToSeqs(J) /\ \A i, j \in DOMAIN z : i < j => z[i] < z[j]
  BY <1>1, <1>3, <1>4, ListedAlike DEF SortedBy
<1> DEFINE at == CHOOSE f \in R!SetToSeqs(J) : \A i, j \in DOMAIN f : i < j => f[i] < f[j]
<1>6. at \in R!SetToSeqs(J)
  BY <1>5
<1>7. R!LinesAt(s, J) = [k \in DOMAIN at |-> s[at[k]]]
  BY DEF R!LinesAt
<1> HIDE DEF at
<1> PICK m \in Nat : m = Cardinality(J)
  BY <1>f
<1>8. at \in [1..m -> J] /\ \A i, j \in 1..m : i # j => at[i] # at[j]
  <2>1. at \in {f \in [1..Cardinality(J) -> J] : \A i, j \in 1..Cardinality(J) : i # j => f[i] # f[j]}
    BY <1>6, ListedAlike, SetsListed
  <2> QED BY <2>1
<1>9. {at[i] : i \in 1..m} = J
  <2>1. at \in Injection(1..m, J)
    BY <1>8 DEF Injection, IsInjective
  <2>2. Cardinality(1..m) = m
    BY FS_Interval
  <2>3. at \in Surjection(1..m, J)
    BY <1>f, <2>1, <2>2, FS_Injection
  <2>4. \A y \in J : \E i \in 1..m : at[i] = y
    BY <2>3 DEF Surjection
  <2>5. \A i \in 1..m : at[i] \in J
    BY <1>8
  <2>6. J \subseteq {at[i] : i \in 1..m}
    BY <2>4, Zenon
  <2>7. {at[i] : i \in 1..m} \subseteq J
    BY <2>5, Zenon
  <2> QED BY <2>6, <2>7, Zenon
<1> QED BY <1>7, <1>8, <1>9 DEF Kept, Moves

\* A line of a resolved trade, or one on its way there, whose name the market may not know.
Slugs == MarketItems \cup DOMAIN PartsOf \cup {"none"}
ItemLine == [slug : Slugs, quantity : Nat, price : Int]
AreLines(ls) == ls \in Seq(ItemLine)

\* The units each line has of an item.
Amounts(ls, slug) == [i \in 1..Len(ls) |-> IF ls[i].slug = slug THEN ls[i].quantity ELSE 0]

\* A sequence of lines, line by line.
LEMMA LinesAre ==
  ASSUME NEW ls, AreLines(ls)
  PROVE  /\ Len(ls) \in Nat /\ DOMAIN ls = 1..Len(ls) /\ R!Lines(ls) = 1..Len(ls)
         /\ \A i \in 1..Len(ls) : /\ ls[i] \in ItemLine /\ ls[i].slug \in Slugs
                                  /\ ls[i].quantity \in Nat /\ ls[i].price \in Int
         /\ \A slug : Naturals(Amounts(ls, slug), 1..Len(ls))
<1>0. PICK L : L = ItemLine
  OBVIOUS
<1>1. Len(ls) \in Nat /\ DOMAIN ls = 1..Len(ls) /\ \A i \in 1..Len(ls) : ls[i] \in L
  BY <1>0 DEF AreLines
<1>2. \A l \in L : l.slug \in Slugs /\ l.quantity \in Nat /\ l.price \in Int
  BY <1>0 DEF ItemLine
<1>3. \A i \in 1..Len(ls) : ls[i].slug \in Slugs /\ ls[i].quantity \in Nat /\ ls[i].price \in Int
  BY <1>1, <1>2
<1>4. R!Lines(ls) = 1..Len(ls)
  BY DEF R!Lines
<1>5. IsFiniteSet(1..Len(ls))
  BY <1>1, FS_Interval
<1>6. ASSUME NEW slug PROVE Naturals(Amounts(ls, slug), 1..Len(ls))
  BY <1>3, <1>5 DEF Amounts, Naturals
<1> QED BY <1>0, <1>1, <1>3, <1>4, <1>6

\* The units of an item are the sum of what the lines have of it (UnitsOf).
LEMMA UnitsAre ==
  ASSUME NEW ls, AreLines(ls), NEW slug
  PROVE  /\ R!UnitsOf(ls, slug) = SumOf(Amounts(ls, slug), 1..Len(ls))
         /\ R!UnitsOf(ls, slug) \in Nat
<1>n. PICK n \in Nat : n = Len(ls)
  BY LinesAre
<1>s. PICK S : S = 1..n
  OBVIOUS
<1>q. PICK q : q = R!Quantities(ls)
  OBVIOUS
<1>u. PICK U : U = {i \in S : ls[i].slug = slug}
  OBVIOUS
<1>a. PICK a : a = Amounts(ls, slug)
  OBVIOUS
<1>1. Naturals(a, S)
  BY <1>a, <1>n, <1>s, LinesAre
<1>2. \A i \in S : q[i] = ls[i].quantity /\ q[i] \in Int
  BY <1>n, <1>q, <1>s, LinesAre DEF R!Quantities
<1>3. Numbers(q, S) /\ U \in SUBSET S
  <2>1. q \in [S -> Int]
    BY <1>2, <1>n, <1>q, <1>s, LinesAre DEF R!Quantities
  <2> QED BY <1>1, <1>u, <2>1 DEF Naturals, Numbers
<1>4. R!UnitsOf(ls, slug) = R!SumAt(q, U)
  BY <1>n, <1>q, <1>s, <1>u, LinesAre DEF R!UnitsOf
<1>5. R!SumAt(q, U) = SumOf(q, U)
  BY <1>3, SumAtIs
<1>6. Within(a, q, U, S)
  BY <1>2, <1>3, <1>a, <1>n, <1>s, <1>u DEF Amounts, Within
<1>7. SumOf(a, S) \in Nat /\ SumOf(a, S) = SumOf(q, U)
  BY <1>1, <1>3, <1>6, NaturalSum, SumsAgree
<1> QED BY <1>4, <1>5, <1>7, <1>a, <1>n, <1>s

\* Lines left out, if they have none of an item, take none of it (retain).
LEMMA UnitsKept ==
  ASSUME NEW ls, AreLines(ls), NEW J \in SUBSET (1..Len(ls)), NEW slug,
         \A i \in (1..Len(ls)) \ J : Amounts(ls, slug)[i] = 0
  PROVE  /\ AreLines(R!LinesAt(ls, J))
         /\ R!UnitsOf(R!LinesAt(ls, J), slug) = R!UnitsOf(ls, slug)
<1>n. PICK n \in Nat : n = Len(ls)
  BY LinesAre
<1>s. PICK S : S = 1..n
  OBVIOUS
<1>a. PICK at : Kept(R!LinesAt(ls, J), ls, J, at)
  <2>1. J \in SUBSET (1..n)
    BY <1>n
  <2> QED BY <1>n, <2>1, LinesAtIs
<1>f. IsFiniteSet(S) /\ J \in SUBSET S /\ S \in SUBSET S /\ S \cap J = J
  <2>1. IsFiniteSet(S)
    BY <1>s, FS_Interval
  <2> QED BY <1>n, <1>s, <2>1
<1>c. IsFiniteSet(J)
  BY <1>f, FS_Subset
<1>m. PICK m \in Nat : m = Cardinality(J)
  BY <1>c, FS_CardinalityType
<1>k. PICK K : K = 1..m
  OBVIOUS
<1>l. PICK kept : kept = R!LinesAt(ls, J)
  OBVIOUS
<1>1. Moves(at, K, J) /\ at \in [K -> J]
  BY <1>a, <1>k, <1>m DEF Kept, Moves
<1>2. kept = [k \in K |-> ls[at[k]]] /\ \A k \in K : at[k] \in S
  BY <1>1, <1>a, <1>f, <1>k, <1>l, <1>m DEF Kept
<1>3. AreLines(kept)
  <2>1. \A k \in K : ls[at[k]] \in ItemLine
    BY <1>2, <1>n, <1>s, LinesAre
  <2>2. PICK L : L = ItemLine
    OBVIOUS
  <2>3. kept \in [1..m -> L]
    BY <1>2, <1>k, <2>1, <2>2
  <2> QED BY <2>2, <2>3 DEF AreLines
<1>4. Len(kept) = m
  BY <1>2, <1>k
<1>g. PICK g : g = Amounts(ls, slug)
  OBVIOUS
<1>h. PICK h : h = Amounts(kept, slug)
  OBVIOUS
<1>5. Numbers(g, S)
  BY <1>g, <1>n, <1>s, LinesAre, NaturalSum
<1>6. Numbers(h, K)
  BY <1>3, <1>4, <1>h, <1>k, LinesAre, NaturalSum
<1>7. Follows(h, g, at, K)
  BY <1>2, <1>4, <1>g, <1>h, <1>k, <1>n, <1>s DEF Amounts, Follows
<1>8. SumOf(h, K) = SumOf(g, J)
  BY <1>1, <1>5, <1>6, <1>7, <1>f, MovedSum
<1>9. SumOf(g, S) = SumOf(g, J)
  <2>1. Within(g, g, J, S)
    BY <1>f, <1>g, <1>n, <1>s DEF Within
  <2> QED BY <1>5, <2>1, SumsAgree
<1>10. R!UnitsOf(ls, slug) = SumOf(g, S)
  BY <1>g, <1>n, <1>s, UnitsAre
<1>11. R!UnitsOf(kept, slug) = SumOf(h, K)
  BY <1>3, <1>4, <1>h, <1>k, UnitsAre
<1> QED BY <1>3, <1>8, <1>9, <1>10, <1>11, <1>l

-----------------------------------------------------------------------------
(* Resolution: complete sets leave their parts (fold_root).                    *)

\* Sums over the first places, place by place.
LEMMA PrefixSum ==
  ASSUME NEW n \in Nat, NEW g, Numbers(g, 1..n)
  PROVE  /\ SumOf(g, 1..0) = 0
         /\ \A k \in 0..n : SumOf(g, 1..k) \in Int
         /\ \A k \in 1..n : SumOf(g, 1..k) = SumOf(g, 1..(k - 1)) + g[k]
<1>s. PICK S : S = 1..n
  OBVIOUS
<1>1. IsFiniteSet(S) /\ g \in [S -> Int]
  BY <1>s DEF Numbers
<1>2. Sums(g, S)
  BY <1>1, SumFacts
<1>3. 1..0 = {}
  OBVIOUS
<1>4. SumOf(g, 1..0) = 0
  BY <1>2, <1>3 DEF Sums
<1>5. ASSUME NEW k \in 0..n PROVE SumOf(g, 1..k) \in Int
  <2>1. 1..k \in SUBSET S
    BY <1>s
  <2> QED BY <1>2, <2>1 DEF Sums
<1>6. ASSUME NEW k \in 1..n PROVE SumOf(g, 1..k) = SumOf(g, 1..(k - 1)) + g[k]
  <2>0. PICK T : T = 1..(k - 1)
    OBVIOUS
  <2>1. T \in SUBSET S /\ k \in S \ T /\ T \cup {k} = 1..k
    BY <1>s, <2>0
  <2>2. SumOf(g, T \cup {k}) = SumOf(g, T) + g[k]
    BY <1>2, <2>1 DEF Sums
  <2> QED BY <2>0, <2>1, <2>2
<1> QED BY <1>4, <1>5, <1>6

\* The units of a part in the lines before one of its lines (fold_root).
LEMMA BeforeIs ==
  ASSUME NEW ls, AreLines(ls), NEW i \in 1..Len(ls), NEW p, ls[i].slug = p
  PROVE  R!SumAt(R!Quantities(ls), {j \in R!Lines(ls) : j < i /\ ls[j].slug = ls[i].slug})
           = SumOf(Amounts(ls, p), 1..(i - 1))
<1>n. PICK n \in Nat : n = Len(ls)
  BY LinesAre
<1>s. PICK S : S = 1..n
  OBVIOUS
<1>q. PICK q : q = R!Quantities(ls)
  OBVIOUS
<1>u. PICK U : U = {j \in R!Lines(ls) : j < i /\ ls[j].slug = ls[i].slug}
  OBVIOUS
<1>g. PICK g : g = Amounts(ls, p)
  OBVIOUS
<1>t. PICK T : T = 1..(i - 1)
  OBVIOUS
<1>h. PICK h : h = [j \in S |-> IF j < i /\ ls[j].slug = p THEN ls[j].quantity ELSE 0]
  OBVIOUS
<1>i. i \in Int /\ i <= n
  BY <1>n
<1>1. \A j \in S : j \in Int /\ j >= 1 /\ ls[j].quantity \in Nat
  BY <1>n, <1>s, LinesAre
<1>2. U \in SUBSET S /\ T \in SUBSET S
  BY <1>i, <1>n, <1>s, <1>t, <1>u, LinesAre
<1>3. IsFiniteSet(S)
  BY <1>s, FS_Interval
<1>4. Numbers(q, S)
  BY <1>1, <1>3, <1>n, <1>q, <1>s, LinesAre DEF R!Quantities, Numbers
<1>5. Numbers(h, S)
  BY <1>1, <1>3, <1>h DEF Numbers
<1>6. Numbers(g, S)
  BY <1>g, <1>n, <1>s, LinesAre, NaturalSum
<1>7. Within(h, q, U, S)
  <2>1. \A j \in S : q[j] = ls[j].quantity
    BY <1>n, <1>q, <1>s, LinesAre DEF R!Quantities
  <2>2. \A j \in S : j \in U <=> j < i /\ ls[j].slug = p
    BY <1>n, <1>s, <1>u, LinesAre
  <2> QED BY <1>2, <1>h, <2>1, <2>2 DEF Within
<1>8. Within(h, g, T, S)
  <2>1. \A j \in S : g[j] = IF ls[j].slug = p THEN ls[j].quantity ELSE 0
    BY <1>g, <1>n, <1>s DEF Amounts
  <2>2. \A j \in S : j \in T <=> j < i
    BY <1>1, <1>i, <1>s, <1>t
  <2> QED BY <1>2, <1>h, <2>1, <2>2 DEF Within
<1>9. R!SumAt(q, U) = SumOf(q, U)
  BY <1>2, <1>4, SumAtIs
<1>10. SumOf(h, S) = SumOf(q, U)
  BY <1>4, <1>5, <1>7, SumsAgree
<1>11. SumOf(h, S) = SumOf(g, T)
  BY <1>5, <1>6, <1>8, SumsAgree
<1> QED BY <1>9, <1>10, <1>11, <1>g, <1>q, <1>t, <1>u

\* What each line of a part gives of the N units taken.
Takes(ls, p, N) == [i \in 1..Len(ls) |-> IF ls[i].slug = p THEN R!TakenFrom(ls, i, N) ELSE 0]

\* The lesser of two is the one the library picks.
LEMMA LesserIs ==
  ASSUME NEW a \in Int, NEW b \in Int
  PROVE  R!Min({a, b}) = IF a <= b THEN a ELSE b
BY DEF R!Min

\* The lines of a part give as many units as are taken, none more than it has (fold_root).
LEMMA TakesAre ==
  ASSUME NEW ls, AreLines(ls), NEW p, NEW N \in Nat, N <= R!UnitsOf(ls, p)
  PROVE  /\ Naturals(Takes(ls, p, N), 1..Len(ls))
         /\ Below(Takes(ls, p, N), Amounts(ls, p), 1..Len(ls))
         /\ SumOf(Takes(ls, p, N), 1..Len(ls)) = N
<1>n. PICK n \in Nat : n = Len(ls)
  BY LinesAre
<1>s. PICK S : S = 1..n
  OBVIOUS
<1>g. PICK g : g = Amounts(ls, p)
  OBVIOUS
<1>t. PICK t : t = Takes(ls, p, N)
  OBVIOUS
<1>1. Naturals(g, S) /\ Numbers(g, S)
  BY <1>g, <1>n, <1>s, LinesAre, NaturalSum
<1>2. /\ SumOf(g, 1..0) = 0
      /\ \A k \in 0..n : SumOf(g, 1..k) \in Int
      /\ \A k \in 1..n : SumOf(g, 1..k) = SumOf(g, 1..(k - 1)) + g[k]
  BY <1>1, <1>s, PrefixSum
<1>3. \A k \in 1..n : g[k] \in Nat /\ g[k] = IF ls[k].slug = p THEN ls[k].quantity ELSE 0
  BY <1>g, <1>n, LinesAre DEF Amounts
<1>4. ASSUME NEW k \in 1..n
      PROVE  t[k] = IF ls[k].slug = p
                    THEN IF (IF N > SumOf(g, 1..(k - 1)) THEN N - SumOf(g, 1..(k - 1)) ELSE 0) <= g[k]
                         THEN (IF N > SumOf(g, 1..(k - 1)) THEN N - SumOf(g, 1..(k - 1)) ELSE 0)
                         ELSE g[k]
                    ELSE 0
  <2>1. k \in 1..Len(ls)
    BY <1>n
  <2>2. t[k] = IF ls[k].slug = p THEN R!TakenFrom(ls, k, N) ELSE 0
    BY <1>t, <2>1 DEF Takes
  <2>3. CASE ls[k].slug = p
    <3>0. PICK b : b = SumOf(g, 1..(k - 1))
      OBVIOUS
    <3>1. R!SumAt(R!Quantities(ls), {j \in R!Lines(ls) : j < k /\ ls[j].slug = ls[k].slug}) = b
      BY <1>g, <2>1, <2>3, <3>0, BeforeIs
    <3>2. R!TakenFrom(ls, k, N) = R!Min({IF N > b THEN N - b ELSE 0, ls[k].quantity})
      BY <3>1 DEF R!TakenFrom
    <3>3. k - 1 \in 0..n
      OBVIOUS
    <3>4. b \in Int
      BY <1>2, <3>0, <3>3
    <3>5. g[k] = ls[k].quantity /\ g[k] \in Int
      BY <1>3, <2>3
    <3> QED BY <2>2, <2>3, <3>0, <3>2, <3>4, <3>5, LesserIs
  <2> QED BY <2>2, <2>3
<1>5. ASSUME NEW k \in 0..n PROVE SumOf(g, 1..k) \in Nat
  <2> DEFINE Q == {j \in 0..n : SumOf(g, 1..j) \in Nat}
  <2>1. 0 \in Q
    BY <1>2
  <2>2. ASSUME NEW j \in 0..(n - 1), j \in Q PROVE j + 1 \in Q
    <3>1. j + 1 \in 1..n /\ (j + 1) - 1 = j
      OBVIOUS
    <3>2. SumOf(g, 1..(j + 1)) = SumOf(g, 1..j) + g[j + 1] /\ g[j + 1] \in Nat
      BY <1>2, <1>3, <3>1
    <3> QED BY <2>2, <3>1, <3>2
  <2> HIDE DEF Q
  <2>3. k \in Q
    BY <2>1, <2>2, CountUp
  <2> QED BY <2>3 DEF Q
<1>6. ASSUME NEW k \in 1..n
      PROVE  /\ t[k] \in Nat /\ t[k] <= g[k]
             /\ t[k] + (IF N <= SumOf(g, 1..(k - 1)) THEN N ELSE SumOf(g, 1..(k - 1)))
                  = IF N <= SumOf(g, 1..k) THEN N ELSE SumOf(g, 1..k)
  <2>0. PICK a, b, c : a = SumOf(g, 1..(k - 1)) /\ b = SumOf(g, 1..k) /\ c = g[k]
    OBVIOUS
  <2>1. k - 1 \in 0..n /\ k \in 0..n
    OBVIOUS
  <2>2. a \in Nat /\ b \in Nat /\ c \in Nat /\ b = a + c
    BY <1>2, <1>3, <1>5, <2>0, <2>1
  <2>3. ls[k].slug # p => c = 0
    BY <1>3, <2>0
  <2>4. t[k] = IF ls[k].slug = p
               THEN IF (IF N > a THEN N - a ELSE 0) <= c THEN (IF N > a THEN N - a ELSE 0) ELSE c
               ELSE 0
    BY <1>4, <2>0
  <2>5. t[k] \in Nat /\ t[k] <= c /\ t[k] + (IF N <= a THEN N ELSE a) = IF N <= b THEN N ELSE b
    BY <2>2, <2>3, <2>4
  <2> QED BY <2>0, <2>5
<1>7. Naturals(t, S) /\ Below(t, g, S)
  <2>1. t = [i \in S |-> t[i]]
    BY <1>n, <1>s, <1>t DEF Takes
  <2>2. \A k \in S : t[k] \in Nat /\ t[k] <= g[k]
    BY <1>6, <1>s
  <2>3. t \in [S -> Nat]
    BY <2>1, <2>2
  <2> QED BY <1>1, <2>2, <2>3 DEF Naturals, Below
<1>8. /\ SumOf(t, 1..0) = 0
      /\ \A k \in 0..n : SumOf(t, 1..k) \in Int
      /\ \A k \in 1..n : SumOf(t, 1..k) = SumOf(t, 1..(k - 1)) + t[k]
  <2>1. Numbers(t, 1..n)
    BY <1>7, <1>s, NaturalSum
  <2> QED BY <2>1, PrefixSum
<1> DEFINE Q == {k \in 0..n : SumOf(t, 1..k) = IF N <= SumOf(g, 1..k) THEN N ELSE SumOf(g, 1..k)}
<1>9. 0 \in Q
  BY <1>2, <1>8
<1>10. ASSUME NEW k \in 0..(n - 1), k \in Q PROVE k + 1 \in Q
  <2>1. k + 1 \in 1..n /\ (k + 1) - 1 = k /\ k + 1 \in 0..n
    OBVIOUS
  <2>2. SumOf(t, 1..(k + 1)) = SumOf(t, 1..k) + t[k + 1]
    BY <1>8, <2>1
  <2>3. SumOf(t, 1..k) = IF N <= SumOf(g, 1..k) THEN N ELSE SumOf(g, 1..k)
    BY <1>10
  <2>4. t[k + 1] + (IF N <= SumOf(g, 1..k) THEN N ELSE SumOf(g, 1..k))
          = IF N <= SumOf(g, 1..(k + 1)) THEN N ELSE SumOf(g, 1..(k + 1))
    BY <1>6, <2>1
  <2>5. t[k + 1] \in Int /\ SumOf(t, 1..k) \in Int
    BY <1>6, <1>8, <2>1
  <2>6. SumOf(t, 1..(k + 1)) = IF N <= SumOf(g, 1..(k + 1)) THEN N ELSE SumOf(g, 1..(k + 1))
    BY <2>2, <2>3, <2>4, <2>5
  <2> QED BY <2>1, <2>6
<1> HIDE DEF Q
<1>11. n \in Q
  <2>1. \A k \in 0..n : k \in Q
    BY <1>9, <1>10, CountUp, Zenon
  <2> QED BY <2>1
<1>12. SumOf(t, 1..n) = N
  <2>1. R!UnitsOf(ls, p) = SumOf(g, 1..n)
    BY <1>g, <1>n, UnitsAre
  <2>2. SumOf(t, 1..n) = IF N <= SumOf(g, 1..n) THEN N ELSE SumOf(g, 1..n)
    BY <1>11 DEF Q
  <2> QED BY <2>1, <2>2
<1> QED BY <1>7, <1>12, <1>g, <1>n, <1>s, <1>t

\* As many sets as the scarcest part allows: there are units for them (fold_root).
LEMMA DivFits ==
  ASSUME NEW a \in Nat, NEW b \in Nat \ {0}, NEW s \in Nat, s <= a \div b
  PROVE  s * b <= a /\ a \div b \in Nat
<1>1. a \div b \in Nat /\ b * (a \div b) <= a
  OBVIOUS
<1>q. PICK q \in Nat : q = a \div b
  BY <1>1
<1>2. b * q <= a /\ s <= q
  BY <1>1, <1>q
<1>3. s * b <= b * q
  BY ONLY <1>2, b \in Nat, s \in Nat, q \in Nat
<1>4. s * b \in Nat /\ b * q \in Nat
  BY ONLY b \in Nat, s \in Nat, q \in Nat
<1> QED BY <1>1, <1>2, <1>3, <1>4

\* The least of some naturals is the one the library picks.
LEMMA LeastIs ==
  ASSUME NEW T \in SUBSET Nat, T # {}
  PROVE  R!Min(T) \in T /\ \A y \in T : R!Min(T) <= y
<1>1. PICK m \in T : \A y \in T : m <= y
  BY HasLeastNumber
<1> QED BY <1>1 DEF R!Min

\* A set's parts, and how many it needs of each.
LEMMA PartsAre ==
  ASSUME NEW r \in DOMAIN PartsOf
  PROVE  /\ \A p \in DOMAIN PartsOf[r] : PartsOf[r][p] \in Nat \ {0} /\ p \notin DOMAIN PartsOf
         /\ \A slug : R!Needed(r, slug) \in Nat
         /\ \A slug : slug \in DOMAIN PartsOf[r] => R!Needed(r, slug) = PartsOf[r][slug]
         /\ \A slug : slug \notin DOMAIN PartsOf[r] => R!Needed(r, slug) = 0
<1>1. PartsOf[r] \in [DOMAIN PartsOf[r] -> Nat \ {0}] /\ DOMAIN PartsOf[r] \cap DOMAIN PartsOf = {}
  BY ResolveAssumption DEF ResolveAssumption
<1>2. \A p \in DOMAIN PartsOf[r] : PartsOf[r][p] \in Nat \ {0} /\ p \notin DOMAIN PartsOf
  BY <1>1
<1> QED BY <1>2 DEF R!Needed

\* How many complete sets lines hold.
SetsIn(ls, parts) ==
  IF DOMAIN parts = {} THEN 0 ELSE R!Min({R!UnitsOf(ls, p) \div parts[p] : p \in DOMAIN parts})

\* There are units of every part for the sets that are folded.
LEMMA SetsFit ==
  ASSUME NEW ls, AreLines(ls), NEW r \in DOMAIN PartsOf
  PROVE  /\ SetsIn(ls, PartsOf[r]) \in Nat
         /\ \A p \in DOMAIN PartsOf[r] : /\ SetsIn(ls, PartsOf[r]) * PartsOf[r][p] <= R!UnitsOf(ls, p)
                                         /\ SetsIn(ls, PartsOf[r]) * PartsOf[r][p] \in Nat
<1>p. PICK parts : parts = PartsOf[r]
  OBVIOUS
<1>1. \A p \in DOMAIN parts : parts[p] \in Nat \ {0}
  BY <1>p, PartsAre
<1>2. \A p : R!UnitsOf(ls, p) \in Nat
  BY UnitsAre
<1>3. CASE DOMAIN parts = {}
  BY <1>3, <1>p DEF SetsIn
<1>4. CASE DOMAIN parts # {}
  <2>0. PICK T : T = {R!UnitsOf(ls, p) \div parts[p] : p \in DOMAIN parts}
    OBVIOUS
  <2>1. T \in SUBSET Nat /\ T # {}
    BY <1>1, <1>2, <1>4, <2>0
  <2>s. PICK s : s = SetsIn(ls, parts)
    OBVIOUS
  <2>2. s = R!Min(T)
    BY <1>4, <2>0, <2>s DEF SetsIn
  <2>3. s \in Nat /\ \A y \in T : s <= y
    BY <2>1, <2>2, LeastIs
  <2>4. ASSUME NEW p \in DOMAIN parts
        PROVE  s * parts[p] <= R!UnitsOf(ls, p) /\ s * parts[p] \in Nat
    <3>a. PICK a, b : a = R!UnitsOf(ls, p) /\ b = parts[p]
      OBVIOUS
    <3>1. a \in Nat /\ b \in Nat \ {0}
      BY <1>1, <1>2, <3>a
    <3>2. s <= a \div b
      BY <2>0, <2>3, <3>a
    <3>3. s * b <= a
      BY <2>3, <3>1, <3>2, DivFits
    <3>4. s * b \in Nat
      BY ONLY <2>3, <3>1
    <3> QED BY <3>3, <3>4, <3>a
  <2> QED BY <1>p, <2>3, <2>4, <2>s
<1> QED BY <1>3, <1>4

\* The lines after s sets left their parts.
Lessened(ls, parts, s) ==
  [i \in R!Lines(ls) |->
     IF ls[i].slug \in DOMAIN parts
     THEN [ls[i] EXCEPT !.quantity = @ - R!TakenFrom(ls, i, s * parts[ls[i].slug])]
     ELSE ls[i]]

\* The parts have left by as much as the sets need, the rest is as it was (fold_root).
LEMMA LessenedIs ==
  ASSUME NEW ls, AreLines(ls), NEW r \in DOMAIN PartsOf, NEW s \in Nat,
         \A p \in DOMAIN PartsOf[r] : /\ s * PartsOf[r][p] <= R!UnitsOf(ls, p)
                                      /\ s * PartsOf[r][p] \in Nat
  PROVE  /\ AreLines(Lessened(ls, PartsOf[r], s)) /\ Len(Lessened(ls, PartsOf[r], s)) = Len(ls)
         /\ \A slug : R!UnitsOf(Lessened(ls, PartsOf[r], s), slug)
                        = R!UnitsOf(ls, slug) - s * R!Needed(r, slug)
<1>p. PICK parts : parts = PartsOf[r]
  OBVIOUS
<1>n. PICK n \in Nat : n = Len(ls)
  BY LinesAre
<1>s. PICK S : S = 1..n
  OBVIOUS
<1>l. PICK less : less = Lessened(ls, parts, s)
  OBVIOUS
<1>1. \A i \in S : /\ ls[i] \in ItemLine /\ ls[i].slug \in Slugs
                   /\ ls[i].quantity \in Nat /\ ls[i].price \in Int
  BY <1>n, <1>s, LinesAre
<1>2. \A p \in DOMAIN parts : s * parts[p] <= R!UnitsOf(ls, p) /\ s * parts[p] \in Nat
  BY <1>p
<1>3. less = [i \in S |-> IF ls[i].slug \in DOMAIN parts
                          THEN [ls[i] EXCEPT !.quantity = @ - R!TakenFrom(ls, i, s * parts[ls[i].slug])]
                          ELSE ls[i]]
  BY <1>l, <1>n, <1>s, LinesAre DEF Lessened
<1>4. ASSUME NEW p \in DOMAIN parts
      PROVE  /\ Naturals(Takes(ls, p, s * parts[p]), S)
             /\ Below(Takes(ls, p, s * parts[p]), Amounts(ls, p), S)
             /\ SumOf(Takes(ls, p, s * parts[p]), S) = s * parts[p]
  <2>N. PICK N \in Nat : N = s * parts[p]
    BY <1>2
  <2>1. N <= R!UnitsOf(ls, p)
    BY <1>2, <2>N
  <2> QED BY <1>n, <1>s, <2>1, <2>N, TakesAre
<1>5. ASSUME NEW i \in S, ls[i].slug \in DOMAIN parts
      PROVE  /\ R!TakenFrom(ls, i, s * parts[ls[i].slug]) \in Nat
             /\ R!TakenFrom(ls, i, s * parts[ls[i].slug]) <= ls[i].quantity
  <2>p. PICK p : p = ls[i].slug
    OBVIOUS
  <2>t. PICK t : t = Takes(ls, p, s * parts[p])
    OBVIOUS
  <2>1. t[i] = R!TakenFrom(ls, i, s * parts[p])
    BY <1>n, <1>s, <2>p, <2>t DEF Takes
  <2>2. t[i] \in Nat /\ t[i] <= Amounts(ls, p)[i]
    BY <1>4, <1>5, <2>p, <2>t DEF Naturals, Below
  <2>3. Amounts(ls, p)[i] = ls[i].quantity
    BY <1>n, <1>s, <2>p DEF Amounts
  <2> QED BY <2>1, <2>2, <2>3, <2>p
<1>6. ASSUME NEW i \in S
      PROVE  /\ less[i].slug = ls[i].slug
             /\ less[i].quantity = IF ls[i].slug \in DOMAIN parts
                                   THEN ls[i].quantity - R!TakenFrom(ls, i, s * parts[ls[i].slug])
                                   ELSE ls[i].quantity
             /\ less[i] \in ItemLine
  <2>t. PICK t : t = R!TakenFrom(ls, i, s * parts[ls[i].slug])
    OBVIOUS
  <2>1. CASE ls[i].slug \in DOMAIN parts
    <3>1. less[i] = [ls[i] EXCEPT !.quantity = @ - t]
      BY <1>3, <2>1, <2>t
    <3>2. ls[i].quantity - t \in Nat
      BY <1>1, <1>5, <2>1, <2>t
    <3>3. less[i] \in ItemLine /\ less[i].slug = ls[i].slug /\ less[i].quantity = ls[i].quantity - t
      BY <1>1, <3>1, <3>2 DEF ItemLine
    <3> QED BY <2>1, <2>t, <3>3
  <2>2. CASE ls[i].slug \notin DOMAIN parts
    <3>1. less[i] = ls[i]
      BY <1>3, <2>2
    <3> QED BY <1>1, <2>2, <3>1
  <2> QED BY <2>1, <2>2
<1>7. AreLines(less) /\ Len(less) = n
  <2>L. PICK L : L = ItemLine
    OBVIOUS
  <2>1. less = [i \in 1..n |-> less[i]] /\ \A i \in 1..n : less[i] \in L
    BY <1>3, <1>6, <1>s, <2>L
  <2>2. less \in [1..n -> L]
    BY <2>1
  <2>3. less \in Seq(L) /\ Len(less) = n
    BY <2>2
  <2> QED BY <2>3, <2>L DEF AreLines
<1>8. ASSUME NEW slug
      PROVE  R!UnitsOf(less, slug) = R!UnitsOf(ls, slug) - s * R!Needed(r, slug)
  <2>a. PICK a, b : a = Amounts(ls, slug) /\ b = Amounts(less, slug)
    OBVIOUS
  <2>1. Numbers(a, S) /\ Numbers(b, S)
    BY <1>7, <1>n, <1>s, <2>a, LinesAre, NaturalSum
  <2>2. R!UnitsOf(ls, slug) = SumOf(a, S) /\ R!UnitsOf(less, slug) = SumOf(b, S)
    BY <1>7, <1>n, <1>s, <2>a, UnitsAre
  <2>3. R!UnitsOf(ls, slug) \in Int /\ R!UnitsOf(less, slug) \in Int
    BY <1>7, UnitsAre
  <2>4. \A i \in S : a[i] = IF ls[i].slug = slug THEN ls[i].quantity ELSE 0
    BY <1>n, <1>s, <2>a DEF Amounts
  <2>5. \A i \in S : b[i] = IF less[i].slug = slug THEN less[i].quantity ELSE 0
    BY <1>7, <1>n, <1>s, <2>a DEF Amounts
  <2>6. CASE slug \in DOMAIN parts
    <3>t. PICK t : t = Takes(ls, slug, s * parts[slug])
      OBVIOUS
    <3>1. Naturals(t, S) /\ SumOf(t, S) = s * parts[slug]
      BY <1>4, <2>6, <3>t
    <3>2. \A i \in S : t[i] = IF ls[i].slug = slug THEN R!TakenFrom(ls, i, s * parts[slug]) ELSE 0
      BY <1>n, <1>s, <3>t DEF Takes
    <3>3. AddUp(a, b, t, S)
      <4> SUFFICES ASSUME NEW i \in S PROVE a[i] = b[i] + t[i]
        BY DEF AddUp
      <4>1. CASE ls[i].slug = slug
        <5>1. t[i] \in Nat /\ t[i] = R!TakenFrom(ls, i, s * parts[slug])
          BY <3>1, <3>2, <4>1 DEF Naturals
        <5>2. b[i] = ls[i].quantity - t[i]
          BY <1>6, <2>5, <2>6, <4>1, <5>1
        <5>3. a[i] = ls[i].quantity /\ ls[i].quantity \in Nat
          BY <1>1, <2>4, <4>1
        <5> QED BY <5>1, <5>2, <5>3
      <4>2. CASE ls[i].slug # slug
        <5>1. a[i] = 0 /\ t[i] = 0 /\ b[i] = 0
          BY <1>6, <2>4, <2>5, <3>2, <4>2
        <5> QED BY <5>1
      <4> QED BY <4>1, <4>2
    <3>4. SumOf(a, S) = SumOf(b, S) + SumOf(t, S)
      BY <2>1, <3>1, <3>3, NaturalSum, SumsAdd
    <3>5. R!Needed(r, slug) = parts[slug] /\ s * parts[slug] \in Nat
      BY <1>2, <1>p, <2>6, PartsAre
    <3> QED BY <2>2, <2>3, <3>1, <3>4, <3>5
  <2>7. CASE slug \notin DOMAIN parts
    <3>1. Same(b, a, S)
      BY <1>6, <2>4, <2>5, <2>7 DEF Same
    <3>2. SumOf(b, S) = SumOf(a, S)
      <4>1. S \in SUBSET S
        OBVIOUS
      <4> QED BY <2>1, <3>1, <4>1, SameSum
    <3>3. R!Needed(r, slug) = 0
      BY <1>p, <2>7, PartsAre
    <3> QED BY <2>2, <2>3, <3>2, <3>3
  <2> QED BY <2>6, <2>7
<1> QED BY <1>7, <1>8, <1>l, <1>n, <1>p

\* A line put to the end adds its units.
LEMMA AppendIs ==
  ASSUME NEW ls, AreLines(ls), NEW line \in ItemLine
  PROVE  /\ AreLines(Append(ls, line))
         /\ \A slug : R!UnitsOf(Append(ls, line), slug)
                        = R!UnitsOf(ls, slug) + IF line.slug = slug THEN line.quantity ELSE 0
<1>n. PICK n \in Nat : n = Len(ls)
  BY LinesAre
<1>m. PICK more : more = Append(ls, line)
  OBVIOUS
<1>1. AreLines(more) /\ Len(more) = n + 1 /\ more[n + 1] = line /\ \A i \in 1..n : more[i] = ls[i]
  <2>L. PICK L : L = ItemLine
    OBVIOUS
  <2>1. ls \in Seq(L) /\ line \in L
    BY <2>L DEF AreLines
  <2>2. more \in Seq(L) /\ Len(more) = n + 1 /\ more[n + 1] = line /\ \A i \in 1..n : more[i] = ls[i]
    BY <1>m, <1>n, <2>1
  <2> QED BY <2>2, <2>L DEF AreLines
<1>2. ASSUME NEW slug
      PROVE  R!UnitsOf(more, slug) = R!UnitsOf(ls, slug) + IF line.slug = slug THEN line.quantity ELSE 0
  <2>a. PICK a, b : a = Amounts(ls, slug) /\ b = Amounts(more, slug)
    OBVIOUS
  <2>1. Numbers(a, 1..n) /\ Numbers(b, 1..(n + 1))
    BY <1>1, <1>n, <2>a, LinesAre, NaturalSum
  <2>2. R!UnitsOf(ls, slug) = SumOf(a, 1..n) /\ R!UnitsOf(more, slug) = SumOf(b, 1..(n + 1))
    BY <1>1, <1>n, <2>a, UnitsAre
  <2>3. \A i \in 1..n : b[i] = a[i]
    BY <1>1, <1>n, <2>a DEF Amounts
  <2>4. b[n + 1] = IF line.slug = slug THEN line.quantity ELSE 0
    BY <1>1, <2>a DEF Amounts
  <2>5. SumOf(b, 1..(n + 1)) = SumOf(b, 1..n) + b[n + 1]
    <3>1. n + 1 \in Nat /\ n + 1 \in 1..(n + 1) /\ (n + 1) - 1 = n
      OBVIOUS
    <3> QED BY <2>1, <3>1, PrefixSum
  <2>6. SumOf(b, 1..n) = SumOf(a, 1..n)
    <3>t. PICK T : T = 1..n
      OBVIOUS
    <3>s. PICK S : S = 1..(n + 1)
      OBVIOUS
    <3>1. T \in SUBSET S /\ T \in SUBSET T
      BY <3>s, <3>t
    <3>2. IsFiniteSet(S) /\ b \in [S -> Int] /\ a \in [T -> Int]
      BY <2>1, <3>s, <3>t DEF Numbers
    <3>3. \A i \in T : a[i] = b[i]
      BY <2>3, <3>t
    <3>4. SumOf(a, T) = SumOf(b, T)
      BY <3>1, <3>2, <3>3, SumOver
    <3> QED BY <3>4, <3>t
  <2> QED BY <2>2, <2>4, <2>5, <2>6
<1> QED BY <1>1, <1>2, <1>m

\* One set folded: its parts have left, its own line came (fold_root).
LEMMA FoldRootIs ==
  ASSUME NEW ls, AreLines(ls), NEW r \in DOMAIN PartsOf
  PROVE  /\ AreLines(R!fold_root(ls, r, PartsOf[r]))
         /\ \E s \in Nat : \A slug : R!UnitsOf(R!fold_root(ls, r, PartsOf[r]), slug)
              = R!UnitsOf(ls, slug) - s * R!Needed(r, slug) + IF slug = r THEN s ELSE 0
<1>p. PICK parts : parts = PartsOf[r]
  OBVIOUS
<1>s. PICK s \in Nat : s = SetsIn(ls, parts)
  BY <1>p, SetsFit
<1>l. PICK less : less = Lessened(ls, parts, s)
  OBVIOUS
<1>m. PICK more : more = R!fold_root(ls, r, parts)
  OBVIOUS
<1>k. PICK kept : kept = R!LinesAt(less, {i \in R!Lines(ls) : less[i].quantity > 0})
  OBVIOUS
<1>b. PICK line : line = [slug |-> r, quantity |-> s, price |-> 0]
  OBVIOUS
<1>1. more = IF s = 0 THEN ls ELSE Append(kept, line)
  BY <1>b, <1>k, <1>l, <1>m, <1>s DEF R!fold_root, SetsIn, Lessened
<1>2. \A slug : R!UnitsOf(ls, slug) \in Nat /\ R!Needed(r, slug) \in Nat
  BY PartsAre, UnitsAre
<1>3. CASE s = 0
  <2>1. \A slug : R!UnitsOf(more, slug) = R!UnitsOf(ls, slug) - 0 * R!Needed(r, slug) + IF slug = r THEN 0 ELSE 0
    BY <1>1, <1>2, <1>3
  <2>2. AreLines(more)
    BY <1>1, <1>3
  <2> QED BY <1>m, <1>p, <2>1, <2>2
<1>4. CASE s # 0
  <2>1. /\ AreLines(less) /\ Len(less) = Len(ls)
        /\ \A slug : R!UnitsOf(less, slug) = R!UnitsOf(ls, slug) - s * R!Needed(r, slug)
    <3>1. \A p \in DOMAIN PartsOf[r] : /\ s * PartsOf[r][p] <= R!UnitsOf(ls, p)
                                       /\ s * PartsOf[r][p] \in Nat
      BY <1>p, <1>s, SetsFit
    <3> QED BY <1>l, <1>p, <3>1, LessenedIs
  <2>2. PICK J : J = {i \in R!Lines(ls) : less[i].quantity > 0}
    OBVIOUS
  <2>3. J \in SUBSET (1..Len(less))
    BY <2>1, <2>2, LinesAre
  <2>4. ASSUME NEW slug
        PROVE  \A i \in (1..Len(less)) \ J : Amounts(less, slug)[i] = 0
    <3>n. PICK n : n = Len(less)
      OBVIOUS
    <3>1. R!Lines(ls) = 1..n
      BY <2>1, <3>n, LinesAre
    <3>2. \A i \in 1..n : less[i].quantity \in Nat
      BY <2>1, <3>n, LinesAre
    <3>3. \A i \in (1..n) \ J : less[i].quantity = 0
      BY <2>2, <3>1, <3>2
    <3> QED BY <3>3, <3>n DEF Amounts
  <2>5. AreLines(kept) /\ \A slug : R!UnitsOf(kept, slug) = R!UnitsOf(less, slug)
    BY <1>k, <2>1, <2>2, <2>3, <2>4, UnitsKept
  <2>6. line \in ItemLine /\ line.slug = r /\ line.quantity = s
    BY <1>b DEF ItemLine, Slugs
  <2>7. AreLines(more)
    BY <1>1, <1>4, <2>5, <2>6, AppendIs
  <2>8. ASSUME NEW slug
        PROVE  R!UnitsOf(more, slug) = R!UnitsOf(ls, slug) - s * R!Needed(r, slug) + IF slug = r THEN s ELSE 0
    <3>1. R!UnitsOf(more, slug) = R!UnitsOf(kept, slug) + IF line.slug = slug THEN line.quantity ELSE 0
      BY <1>1, <1>4, <2>5, <2>6, AppendIs
    <3> QED BY <2>1, <2>5, <2>6, <3>1
  <2> QED BY <1>m, <1>p, <2>7, <2>8
<1> QED BY <1>3, <1>4

\* What the lines of each set stand for of an item.
InSets(ls, slug) == [r \in DOMAIN PartsOf |-> R!UnitsOf(ls, r) * R!Needed(r, slug)]

\* The units lines stand for, the sets' in one sum (Unfolded).
LEMMA UnfoldedIs ==
  ASSUME NEW ls, AreLines(ls), NEW slug
  PROVE  /\ Naturals(InSets(ls, slug), DOMAIN PartsOf)
         /\ R!Unfolded(ls, slug) = R!UnitsOf(ls, slug) + SumOf(InSets(ls, slug), DOMAIN PartsOf)
<1>d. PICK Sets : Sets = DOMAIN PartsOf
  OBVIOUS
<1>g. PICK g : g = InSets(ls, slug)
  OBVIOUS
<1>1. IsFiniteSet(Sets)
  BY <1>d, ResolveAssumption DEF ResolveAssumption
<1>2. g = [r \in Sets |-> g[r]] /\ \A r \in Sets : g[r] = R!UnitsOf(ls, r) * R!Needed(r, slug)
  BY <1>d, <1>g DEF InSets
<1>3. \A r \in Sets : g[r] \in Nat
  <2> TAKE r \in Sets
  <2>a. PICK a, b : a = R!UnitsOf(ls, r) /\ b = R!Needed(r, slug)
    OBVIOUS
  <2>1. a \in Nat /\ b \in Nat
    BY <1>d, <2>a, PartsAre, UnitsAre
  <2>2. a * b \in Nat
    BY ONLY <2>1
  <2> QED BY <1>2, <2>2, <2>a
<1>4. g \in [Sets -> Nat]
  BY <1>2, <1>3
<1>5. Naturals(g, Sets)
  BY <1>1, <1>4 DEF Naturals
<1>6. R!SumAt(g, Sets) = SumOf(g, Sets)
  <2>1. Sets \in SUBSET Sets
    OBVIOUS
  <2> QED BY <1>5, <2>1, NaturalSum, SumAtIs
<1>7. R!Unfolded(ls, slug) = R!UnitsOf(ls, slug) + R!SumAt(g, Sets)
  BY <1>d, <1>g DEF R!Unfolded, R!Roots, InSets
<1> QED BY <1>5, <1>6, <1>7, <1>d, <1>g

\* Folding a set changes the lines, and not what they stand for (fold_root).
LEMMA FoldKeeps ==
  ASSUME NEW ls, AreLines(ls), NEW r \in DOMAIN PartsOf, NEW slug, slug \notin DOMAIN PartsOf
  PROVE  R!Unfolded(R!fold_root(ls, r, PartsOf[r]), slug) = R!Unfolded(ls, slug)
<1>d. PICK Sets : Sets = DOMAIN PartsOf
  OBVIOUS
<1>m. PICK more : more = R!fold_root(ls, r, PartsOf[r])
  OBVIOUS
<1>1. AreLines(more)
  BY <1>m, FoldRootIs
<1>2. PICK s \in Nat : \A x : R!UnitsOf(more, x)
              = R!UnitsOf(ls, x) - s * R!Needed(r, x) + IF x = r THEN s ELSE 0
  BY <1>m, FoldRootIs
<1>g. PICK g, h : g = InSets(ls, slug) /\ h = InSets(more, slug)
  OBVIOUS
<1>3. Numbers(g, Sets) /\ Numbers(h, Sets)
  BY <1>1, <1>d, <1>g, NaturalSum, UnfoldedIs
<1>4. \A x \in Sets : g[x] = R!UnitsOf(ls, x) * R!Needed(x, slug) /\ h[x] = R!UnitsOf(more, x) * R!Needed(x, slug)
  BY <1>d, <1>g DEF InSets
<1>5. \A x : R!UnitsOf(ls, x) \in Nat /\ R!UnitsOf(more, x) \in Nat
  BY <1>1, UnitsAre
<1>6. \A x \in Sets : R!UnitsOf(more, x) = R!UnitsOf(ls, x) + IF x = r THEN s ELSE 0
  <2> TAKE x \in Sets
  <2>1. R!Needed(r, x) = 0
    BY <1>d, PartsAre
  <2>2. R!UnitsOf(more, x) = R!UnitsOf(ls, x) - s * 0 + IF x = r THEN s ELSE 0
    BY <1>2, <2>1
  <2> QED BY <1>5, <2>2
<1>7. Same(h, g, Sets \ {r})
  BY <1>4, <1>5, <1>6 DEF Same
<1>8. SumOf(h, Sets) = SumOf(g, Sets) + (h[r] - g[r])
  BY <1>3, <1>7, <1>d, SumChanged
<1>9. R!UnitsOf(more, slug) = R!UnitsOf(ls, slug) - s * R!Needed(r, slug)
  <2>1. slug # r
    OBVIOUS
  <2>2. R!UnitsOf(more, slug) = R!UnitsOf(ls, slug) - s * R!Needed(r, slug) + 0
    BY <1>2, <2>1
  <2>a. PICK a, b : a = R!UnitsOf(more, slug) /\ b = s * R!Needed(r, slug)
    OBVIOUS
  <2>3. R!Needed(r, slug) \in Nat
    BY PartsAre
  <2>4. b \in Int
    BY <2>3, <2>a
  <2> QED BY <1>5, <2>2, <2>4, <2>a
<1>10. h[r] - g[r] = s * R!Needed(r, slug)
  <2>a. PICK a, b, c : a = R!UnitsOf(ls, r) /\ b = R!Needed(r, slug) /\ c = R!UnitsOf(more, r)
    OBVIOUS
  <2>1. a \in Nat /\ b \in Nat
    BY <1>5, <2>a, PartsAre
  <2>2. c = a + s /\ h[r] = c * b /\ g[r] = a * b
    BY <1>4, <1>6, <1>d, <2>a
  <2>3. (a + s) * b - a * b = s * b
    BY ONLY <2>1, s \in Nat
  <2> QED BY <2>2, <2>3, <2>a
<1>11. SumOf(g, Sets) \in Int
  BY <1>d, <1>g, NaturalSum, UnfoldedIs
<1>12. R!Unfolded(ls, slug) = R!UnitsOf(ls, slug) + SumOf(g, Sets) /\ R!Unfolded(more, slug) = R!UnitsOf(more, slug) + SumOf(h, Sets)
  BY <1>1, <1>d, <1>g, UnfoldedIs
<1>13. s * R!Needed(r, slug) \in Int
  <2>1. R!Needed(r, slug) \in Nat
    BY PartsAre
  <2> QED BY <2>1
<1>14. R!UnitsOf(ls, slug) \in Int
  BY <1>5
<1>m2. PICK a, b, c : a = R!UnitsOf(ls, slug) /\ b = SumOf(g, Sets) /\ c = s * R!Needed(r, slug)
  OBVIOUS
<1>15. (a - c) + (b + c) = a + b
  BY ONLY <1>11, <1>13, <1>14, <1>m2
<1> QED BY <1>8, <1>9, <1>10, <1>12, <1>15, <1>m, <1>m2

-----------------------------------------------------------------------------
(* Resolution: every candidate folded, one after the other (fold_sets).        *)

FoldAll(ls, order, map) == R!FoldLeft(LAMBDA acc, r : R!fold_root(acc, r, map[r]), ls, order)

\* Lines that stand for the same parts as ls do.
Alike(ls) == {s \in Seq(ItemLine) : \A slug \in MarketItems \ DOMAIN PartsOf : R!Unfolded(s, slug) = R!Unfolded(ls, slug)}

\* A set folded, the lines stand for what they stood for (fold_root).
LEMMA FoldStaysAlike ==
  ASSUME NEW ls, NEW s \in Alike(ls), NEW r \in DOMAIN PartsOf
  PROVE  R!fold_root(s, r, PartsOf[r]) \in Alike(ls)
<1>m. PICK more : more = R!fold_root(s, r, PartsOf[r])
  OBVIOUS
<1>1. AreLines(s) /\ \A slug \in MarketItems \ DOMAIN PartsOf : R!Unfolded(s, slug) = R!Unfolded(ls, slug)
  BY DEF Alike, AreLines
<1>2. AreLines(more)
  BY <1>1, <1>m, FoldRootIs
<1>3. \A slug \in MarketItems \ DOMAIN PartsOf : R!Unfolded(more, slug) = R!Unfolded(s, slug)
  BY <1>1, <1>m, FoldKeeps
<1> QED BY <1>1, <1>2, <1>3, <1>m DEF Alike, AreLines

\* Sets folded one by one leave what the lines stand for as it was (fold_sets).
LEMMA FoldAllKeeps ==
  ASSUME NEW ls, AreLines(ls), NEW n \in Nat, NEW order, order \in [1..n -> DOMAIN PartsOf], NEW map,
         \A k \in 1..n : map[order[k]] = PartsOf[order[k]]
  PROVE  FoldAll(ls, order, map) \in Alike(ls)
<1>v. PICK V : V = Alike(ls)
  OBVIOUS
<1>t. PICK step : step = [i \in 1..n |-> [a \in V |-> R!fold_root(a, order[i], map[order[i]])]]
  OBVIOUS
<1>1. ls \in V
  BY <1>v DEF Alike, AreLines
<1>2. \A i \in 1..n, a \in V : R!fold_root(a, order[i], map[order[i]]) \in V
  BY <1>v, FoldStaysAlike
<1>3. step \in StepsOf(1..n, V)
  BY <1>2, <1>t DEF StepsOf
<1>4. \A i \in 1..n, a \in V : step[i][a] = R!fold_root(a, order[i], map[order[i]])
  BY <1>t
<1>5. \A s : P!Max(s) = R!Max(s)
  BY DEF P!Max, R!Max
<1>6. \A s \in SUBSET (1..n) : s # {} => R!Max(s) \in 1..n
  BY <1>5, LargestIs
<1>7. DOMAIN order = 1..n
  OBVIOUS
<1> DEFINE E(it) == [s \in SUBSET (DOMAIN order) |-> IF s = {} THEN ls
                        ELSE LET x == R!Max(s) IN R!fold_root(it[s \ {x}], order[x], map[order[x]])]
           iter == CHOOSE it : it = E(it)
<1>8. PICK f : Steps(f, V, step, ls, n)
  BY <1>1, <1>3, StepsExist
<1>9. f = E(f)
  <2>1. ASSUME NEW s \in SUBSET (1..n)
        PROVE  f[s] = IF s = {} THEN ls ELSE R!fold_root(f[s \ {R!Max(s)}], order[R!Max(s)], map[order[R!Max(s)]])
    <3>1. s \ {R!Max(s)} \in SUBSET (1..n) /\ f[s \ {R!Max(s)}] \in V
      BY <1>8 DEF Steps
    <3>2. s # {} => f[s] = step[R!Max(s)][f[s \ {R!Max(s)}]]
      BY <1>5, <1>8 DEF Steps
    <3>3. s = {} => f[s] = ls
      BY <1>8 DEF Steps
    <3> QED BY <1>4, <1>6, <3>1, <3>2, <3>3
  <2>2. f = [s \in SUBSET (1..n) |-> f[s]]
    BY <1>8 DEF Steps
  <2> QED BY <1>7, <2>1, <2>2
<1>10. iter = E(iter)
  BY <1>9
<1>11. FoldAll(ls, order, map) = iter[DOMAIN order]
  BY DEF FoldAll, R!FoldLeft, R!MapThenFoldSet
<1> HIDE DEF iter
<1> DEFINE Q == {k \in 0..n : iter[1..k] \in V}
<1>12. 0 \in Q
  <2>1. 1..0 = {} /\ {} \in SUBSET (1..n) /\ 0 \in 0..n
    OBVIOUS
  <2>2. iter[{}] = ls
    BY <1>7, <1>10, <2>1
  <2> QED BY <1>1, <2>1, <2>2
<1>13. ASSUME NEW k \in 0..(n - 1), k \in Q PROVE k + 1 \in Q
  <2>1. k + 1 \in 1..n /\ (k + 1) - 1 = k /\ iter[1..k] \in V
    BY <1>13
  <2>2. PICK s : s = 1..(k + 1)
    OBVIOUS
  <2>3. s \in SUBSET (1..n) /\ s # {} /\ R!Max(s) = k + 1 /\ s \ {k + 1} = 1..k
    BY <1>5, <2>1, <2>2, LastOf
  <2>4. iter[s] = R!fold_root(iter[1..k], order[k + 1], map[order[k + 1]])
    BY <1>7, <1>10, <2>3
  <2>5. iter[s] \in V
    BY <1>2, <2>1, <2>4
  <2> QED BY <2>1, <2>2, <2>5
<1> HIDE DEF Q
<1>14. n \in Q
  <2>1. \A k \in 0..n : k \in Q
    BY <1>12, <1>13, CountUp, Zenon
  <2> QED BY <2>1
<1> QED BY <1>7, <1>11, <1>14, <1>v DEF Q

-----------------------------------------------------------------------------
(* Resolution: a trade's goods, and the lines their names make.                *)

\* Goods of a trade: their names and quantities.
AreGoods(s) ==
  Len(s) \in Nat /\ s = [i \in 1..Len(s) |-> s[i]] /\ \A i \in 1..Len(s) : s[i].quantity \in Nat

\* A side of a trade that was reported.
LEMMA SidesAre ==
  ASSUME NEW t \in ReportedTrades
  PROVE  AreGoods(t.offered) /\ AreGoods(t.received)
<1>e. PICK E : E = [name : STRING, quantity : Nat]
  OBVIOUS
<1>1. t.offered \in Seq(E) /\ t.received \in Seq(E)
  BY <1>e, ResolveAssumption DEF ResolveAssumption
<1>2. \A e \in E : e.quantity \in Nat
  BY <1>e
<1>3. ASSUME NEW s \in Seq(E) PROVE AreGoods(s)
  <2>1. Len(s) \in Nat /\ s = [i \in 1..Len(s) |-> s[i]] /\ \A i \in 1..Len(s) : s[i] \in E
    OBVIOUS
  <2> QED BY <1>2, <2>1 DEF AreGoods
<1> QED BY <1>1, <1>3

\* The quantities of goods are naturals.
LEMMA QuantitiesAre ==
  ASSUME NEW s, AreGoods(s)
  PROVE  R!Lines(s) = 1..Len(s) /\ Naturals(R!Quantities(s), 1..Len(s))
<1>1. R!Lines(s) = 1..Len(s) /\ IsFiniteSet(1..Len(s))
  BY FS_Interval DEF R!Lines, AreGoods
<1>2. R!Quantities(s) \in [1..Len(s) -> Nat]
  BY <1>1 DEF AreGoods, R!Quantities
<1> QED BY <1>1, <1>2 DEF Naturals

\* A side pays no less than nothing, and what else it gives is goods (classify).
LEMMA SideIs ==
  ASSUME NEW s, AreGoods(s)
  PROVE  R!platinum_of(s) \in Nat /\ AreGoods(R!without_platinum(s))
<1>n. PICK n \in Nat : n = Len(s)
  BY DEF AreGoods
<1>s. PICK S : S = 1..n
  OBVIOUS
<1>q. PICK q : q = R!Quantities(s)
  OBVIOUS
<1>1. Naturals(q, S) /\ R!Lines(s) = S
  BY <1>n, <1>q, <1>s, QuantitiesAre
<1>2. R!platinum_of(s) \in Nat
  <2>u. PICK U : U = {i \in S : s[i].name = R!PLATINUM}
    OBVIOUS
  <2>1. U \in SUBSET S
    BY <2>u
  <2>2. R!platinum_of(s) = R!SumAt(q, U)
    BY <1>1, <1>q, <2>u DEF R!platinum_of
  <2>3. R!SumAt(q, U) = SumOf(q, U)
    BY <1>1, <2>1, NaturalSum, SumAtIs
  <2>4. SumOf(q, U) \in Nat
    BY <1>1, <2>1, SumOfNats DEF Naturals
  <2> QED BY <2>2, <2>3, <2>4
<1>3. AreGoods(R!without_platinum(s))
  <2>j. PICK J : J = {i \in S : s[i].name # R!PLATINUM}
    OBVIOUS
  <2>k. PICK kept : kept = R!LinesAt(s, J)
    OBVIOUS
  <2>1. R!without_platinum(s) = kept
    BY <1>1, <2>j, <2>k DEF R!without_platinum
  <2>2. J \in SUBSET (1..n)
    BY <1>s, <2>j
  <2>3. PICK at : Kept(kept, s, J, at)
    BY <2>2, <2>k, LinesAtIs
  <2>4. IsFiniteSet(J)
    <3>1. IsFiniteSet(S) /\ J \in SUBSET S
      BY <1>1, <2>j DEF Naturals
    <3> QED BY <3>1, FS_Subset
  <2>m. PICK m \in Nat : m = Cardinality(J)
    BY <2>4, FS_CardinalityType
  <2>5. kept = [k \in 1..m |-> s[at[k]]] /\ \A k \in 1..m : at[k] \in 1..n
    BY <2>2, <2>3, <2>m DEF Kept, Moves
  <2>6. Len(kept) = m /\ kept = [k \in 1..m |-> kept[k]]
    BY <2>5
  <2>7. \A k \in 1..m : kept[k].quantity \in Nat
    BY <1>n, <2>5 DEF AreGoods
  <2> QED BY <2>1, <2>6, <2>7 DEF AreGoods
<1> QED BY <1>2, <1>3

\* What a trade is classified as: platinum, and goods (classify).
LEMMA ClassifiedIs ==
  ASSUME NEW t \in ReportedTrades
  PROVE  R!classify(t).platinum \in Nat /\ AreGoods(R!classify(t).goods)
<1>1. /\ R!platinum_of(t.offered) \in Nat /\ R!platinum_of(t.received) \in Nat
      /\ AreGoods(R!without_platinum(t.offered)) /\ AreGoods(R!without_platinum(t.received))
  BY SidesAre, SideIs
<1>2. AreGoods(<<>>)
  BY DEF AreGoods
<1>a. PICK a, b : a = R!platinum_of(t.offered) /\ b = R!platinum_of(t.received)
  OBVIOUS
<1>3. CASE a > 0 /\ b = 0
  <2>1. R!classify(t) = [direction |-> "purchase", platinum |-> a, goods |-> R!without_platinum(t.received)]
    BY <1>1, <1>3, <1>a DEF R!classify
  <2> QED BY <1>1, <1>a, <2>1
<1>4. CASE a = 0 /\ b > 0
  <2>1. R!classify(t) = [direction |-> "sale", platinum |-> b, goods |-> R!without_platinum(t.offered)]
    BY <1>1, <1>4, <1>a DEF R!classify
  <2> QED BY <1>1, <1>a, <2>1
<1>5. CASE ~(a > 0 /\ b = 0) /\ ~(a = 0 /\ b > 0)
  <2>1. R!classify(t) = [direction |-> "none", platinum |-> 0, goods |-> <<>>]
    BY <1>1, <1>5, <1>a DEF R!classify
  <2> QED BY <1>2, <2>1
<1> QED BY <1>3, <1>4, <1>5

\* A name means the same in every item list that has its item, and never a set (slug_of).
LEMMA SlugOfIs ==
  ASSUME NEW known \in ItemLists, NEW name
  PROVE  /\ R!slug_of(name, known) \in Slugs
         /\ R!slug_of(name, known) # R!None =>
              /\ R!slug_of(name, known) = R!slug_of(name, MarketItems)
              /\ R!slug_of(name, known) \notin DOMAIN PartsOf
<1>1. \A n \in DOMAIN NameTable : NameTable[n] \in MarketItems \ (DOMAIN PartsOf \cup {"none"})
  BY ResolveAssumption DEF ResolveAssumption
<1>2. \A n \in DOMAIN OverrideTable : OverrideTable[n] \in MarketItems \ (DOMAIN PartsOf \cup {"none"})
  BY ResolveAssumption DEF ResolveAssumption
<1>3. known \subseteq MarketItems
  BY ResolveAssumption DEF ResolveAssumption
<1>4. \A n \in DOMAIN NameTable \cap DOMAIN OverrideTable :
            NameTable[n] \in known \/ OverrideTable[n] \notin known
  BY ResolveAssumption DEF ResolveAssumption
<1>5. CASE name \in DOMAIN NameTable /\ NameTable[name] \in known
  <2>1. R!slug_of(name, known) = NameTable[name] /\ R!slug_of(name, MarketItems) = NameTable[name]
    BY <1>3, <1>5 DEF R!slug_of
  <2> QED BY <1>1, <1>5, <2>1 DEF Slugs
<1>6. CASE /\ ~(name \in DOMAIN NameTable /\ NameTable[name] \in known)
           /\ name \in DOMAIN OverrideTable /\ OverrideTable[name] \in known
  <2>1. name \notin DOMAIN NameTable
    BY <1>4, <1>6
  <2>2. R!slug_of(name, known) = OverrideTable[name] /\ R!slug_of(name, MarketItems) = OverrideTable[name]
    BY <1>3, <1>6, <2>1 DEF R!slug_of
  <2> QED BY <1>2, <1>6, <2>2 DEF Slugs
<1>7. CASE /\ ~(name \in DOMAIN NameTable /\ NameTable[name] \in known)
           /\ ~(name \in DOMAIN OverrideTable /\ OverrideTable[name] \in known)
  BY <1>7 DEF R!slug_of, R!None, Slugs
<1> QED BY <1>5, <1>6, <1>7

\* The sum of zeros is zero.
LEMMA ZeroSum ==
  ASSUME NEW S, NEW g, Numbers(g, S), \A x \in S : g[x] = 0
  PROVE  SumOf(g, S) = 0
<1>1. Within(g, g, {}, S)
  BY DEF Within
<1>2. SumOf(g, S) = SumOf(g, {})
  BY <1>1, SumsAgree
<1> QED BY <1>2, SumOfNone DEF Numbers

\* The lines of a trade whose names are all known stand for what was traded (resolve_trade).
LEMMA ResolvedIs ==
  ASSUME NEW t \in ReportedTrades, NEW known \in ItemLists
  PROVE  LET goods == R!classify(t).goods IN
         /\ AreLines(R!resolve_trade(goods, known))
         /\ R!Unresolved(goods, known) = {} =>
              \A slug \in MarketItems \ DOMAIN PartsOf :
                 R!Unfolded(R!resolve_trade(goods, known), slug) = R!Traded(t, slug)
<1>g. PICK goods : goods = R!classify(t).goods
  OBVIOUS
<1>0. AreGoods(goods)
  BY <1>g, ClassifiedIs
<1>n. PICK n \in Nat : n = Len(goods)
  BY <1>0 DEF AreGoods
<1>s. PICK S : S = 1..n
  OBVIOUS
<1>w. PICK raw : raw = [i \in S |-> R!resolved(goods[i], known)]
  OBVIOUS
<1>u. PICK lost : lost = R!Unresolved(goods, known)
  OBVIOUS
<1>j. PICK J : J = S \ lost
  OBVIOUS
<1>l. PICK ls : ls = R!resolve_trade(goods, known)
  OBVIOUS
<1>1. R!Lines(goods) = S
  BY <1>0, <1>n, <1>s, QuantitiesAre
<1>2. ls = R!LinesAt(raw, J)
  BY <1>1, <1>j, <1>l, <1>u, <1>w DEF R!resolve_trade
<1>3. \A i \in S : /\ raw[i].slug = R!slug_of(goods[i].name, known)
                   /\ raw[i].quantity = goods[i].quantity /\ goods[i].quantity \in Nat
                   /\ raw[i] \in ItemLine
  <2> TAKE i \in S
  <2>1. goods[i].quantity \in Nat
    BY <1>0, <1>n, <1>s DEF AreGoods
  <2>2. raw[i] = [slug |-> R!slug_of(goods[i].name, known), quantity |-> goods[i].quantity, price |-> 0]
    BY <1>w DEF R!resolved
  <2>3. R!slug_of(goods[i].name, known) \in Slugs
    BY SlugOfIs
  <2> QED BY <2>1, <2>2, <2>3 DEF ItemLine
<1>4. AreLines(raw) /\ Len(raw) = n
  <2>L. PICK L : L = ItemLine
    OBVIOUS
  <2>1. raw \in [1..n -> L]
    BY <1>3, <1>s, <1>w, <2>L
  <2> QED BY <2>1, <2>L DEF AreLines
<1>5. \A i \in S : i \in lost <=> raw[i].slug = "none"
  BY <1>1, <1>3, <1>u DEF R!Unresolved, R!None
<1>6. J \in SUBSET (1..Len(raw))
  BY <1>4, <1>j, <1>s
<1>7. AreLines(ls)
  <2>1. \A i \in (1..Len(raw)) \ J : Amounts(raw, "Platinum")[i] = 0
    <3>1. \A i \in S \ J : raw[i].slug = "none"
      BY <1>5, <1>j
    <3>2. "none" # "Platinum"
      OBVIOUS
    <3> QED BY <1>4, <1>s, <3>1, <3>2 DEF Amounts
  <2> QED BY <1>2, <1>4, <1>6, <2>1, UnitsKept
<1>8. ASSUME lost = {}, NEW slug \in MarketItems \ DOMAIN PartsOf
      PROVE  R!Unfolded(ls, slug) = R!Traded(t, slug)
  <2>1. \A x : R!UnitsOf(ls, x) = R!UnitsOf(raw, x)
    <3>1. (1..Len(raw)) \ J = {}
      BY <1>4, <1>8, <1>j, <1>s
    <3> QED BY <1>2, <1>4, <1>6, <3>1, UnitsKept
  <2>2. \A i \in S : raw[i].slug = R!slug_of(goods[i].name, MarketItems) /\ raw[i].slug \notin DOMAIN PartsOf
    <3>1. \A i \in S : R!slug_of(goods[i].name, known) # R!None
      BY <1>3, <1>5, <1>8 DEF R!None
    <3> QED BY <1>3, <3>1, SlugOfIs
  <2>3. \A x \in DOMAIN PartsOf : R!UnitsOf(ls, x) = 0
    <3> TAKE x \in DOMAIN PartsOf
    <3>a. PICK a : a = Amounts(raw, x)
      OBVIOUS
    <3>1. Numbers(a, S)
      BY <1>4, <1>s, <3>a, LinesAre, NaturalSum
    <3>2. \A i \in S : a[i] = 0
      BY <1>4, <1>s, <2>2, <3>a DEF Amounts
    <3>3. SumOf(a, S) = 0
      BY <3>1, <3>2, ZeroSum
    <3> QED BY <1>4, <1>s, <2>1, <3>3, <3>a, UnitsAre
  <2>4. R!Unfolded(ls, slug) = R!UnitsOf(ls, slug)
    <3>d. PICK Sets : Sets = DOMAIN PartsOf
      OBVIOUS
    <3>g. PICK g : g = InSets(ls, slug)
      OBVIOUS
    <3>1. Numbers(g, Sets) /\ R!Unfolded(ls, slug) = R!UnitsOf(ls, slug) + SumOf(g, Sets)
      BY <1>7, <3>d, <3>g, NaturalSum, UnfoldedIs
    <3>2. \A x \in Sets : g[x] = 0
      <4> TAKE x \in Sets
      <4>1. g[x] = R!UnitsOf(ls, x) * R!Needed(x, slug)
        BY <3>d, <3>g DEF InSets
      <4>2. R!UnitsOf(ls, x) = 0 /\ R!Needed(x, slug) \in Nat
        BY <2>3, <3>d, PartsAre
      <4> QED BY <4>1, <4>2
    <3>3. SumOf(g, Sets) = 0
      BY <3>1, <3>2, ZeroSum
    <3>4. R!UnitsOf(ls, slug) \in Nat
      BY <1>7, UnitsAre
    <3> QED BY <3>1, <3>3, <3>4
  <2>5. R!UnitsOf(raw, slug) = R!Traded(t, slug)
    <3>1. R!Quantities(raw) = R!Quantities(goods)
      <4>1. R!Lines(raw) = S
        BY <1>4, <1>s, LinesAre
      <4> QED BY <1>1, <1>3, <4>1 DEF R!Quantities
    <3>2. {i \in R!Lines(raw) : raw[i].slug = slug}
            = {i \in R!Lines(goods) : R!slug_of(goods[i].name, MarketItems) = slug}
      <4>1. R!Lines(raw) = S
        BY <1>4, <1>s, LinesAre
      <4> QED BY <1>1, <2>2, <4>1
    <3> QED BY <1>g, <3>1, <3>2 DEF R!Traded, R!UnitsOf
  <2> QED BY <2>1, <2>4, <2>5
<1> QED BY <1>7, <1>8, <1>g, <1>l, <1>u

-----------------------------------------------------------------------------
(* Resolution: the platinum split over the lines (split_platinum).             *)

\* The resolution counts sets as the library does.
LEMMA CountedAlike == \A T : R!Cardinality(T) = Cardinality(T)
BY DEF R!Cardinality, Cardinality, R!IsFiniteSet, IsFiniteSet

\* How many of the first m units of a rest, handed out in rounds, each of n lines gets.
Rounds(n, m) == [i \in 1..n |-> Cardinality({k \in 0..(m - 1) : k % n = i - 1})]

\* Nothing is left of the rest, nor handed out twice.
LEMMA RoundsAre ==
  ASSUME NEW n \in Nat \ {0}, NEW m \in Nat
  PROVE  Naturals(Rounds(n, m), 1..n) /\ SumOf(Rounds(n, m), 1..n) = m
<1>s. PICK S : S = 1..n
  OBVIOUS
<1>f. IsFiniteSet(S)
  BY <1>s, FS_Interval
<1> DEFINE Gets(j, i) == {k \in 0..(j - 1) : k % n = i - 1}
<1>1. ASSUME NEW j \in Nat, NEW i
      PROVE  IsFiniteSet(Gets(j, i)) /\ Cardinality(Gets(j, i)) \in Nat
  <2>t. PICK T : T = 0..(j - 1)
    OBVIOUS
  <2>1. IsFiniteSet(T)
    BY <2>t, FS_Interval
  <2>2. Gets(j, i) \in SUBSET T
    BY <2>t
  <2>3. IsFiniteSet(Gets(j, i))
    BY <2>1, <2>2, FS_Subset
  <2> QED BY <2>3, FS_CardinalityType
<1>2. \A j, i : i \in S => Rounds(n, j)[i] = Cardinality(Gets(j, i))
  BY <1>s DEF Rounds
<1>3. \A j \in Nat : Naturals(Rounds(n, j), S) /\ Numbers(Rounds(n, j), S)
  <2> TAKE j \in Nat
  <2>1. Rounds(n, j) = [i \in S |-> Rounds(n, j)[i]]
    BY <1>s DEF Rounds
  <2>2. \A i \in S : Rounds(n, j)[i] \in Nat
    <3> HIDE DEF Gets
    <3> TAKE i \in S
    <3>1. Rounds(n, j)[i] = Cardinality(Gets(j, i))
      BY <1>2
    <3>2. Cardinality(Gets(j, i)) \in Nat
      BY <1>1
    <3> QED BY <3>1, <3>2
  <2>3. Rounds(n, j) \in [S -> Nat]
    BY <2>1, <2>2
  <2>4. Naturals(Rounds(n, j), S)
    BY <1>f, <2>3 DEF Naturals
  <2> QED BY <2>4, NaturalSum
<1>4. ASSUME NEW j \in Nat, NEW i \in S
      PROVE  Rounds(n, j + 1)[i] = Rounds(n, j)[i] + IF i = (j % n) + 1 THEN 1 ELSE 0
  <2>1. j \notin Gets(j, i) /\ j % n \in Int /\ i \in Int
    BY <1>s
  <2>2. \A k : k \in 0..((j + 1) - 1) <=> k \in 0..(j - 1) \/ k = j
    OBVIOUS
  <2>3. CASE i = (j % n) + 1
    <3>1. j % n = i - 1
      BY <2>1, <2>3
    <3>2. Gets(j + 1, i) = Gets(j, i) \cup {j}
      BY <2>2, <3>1
    <3> HIDE DEF Gets
    <3>3. Cardinality(Gets(j, i) \cup {j}) = Cardinality(Gets(j, i)) + 1
      BY <1>1, <2>1, FS_AddElement
    <3> QED BY <1>2, <2>3, <3>2, <3>3
  <2>4. CASE i # (j % n) + 1
    <3>1. j % n # i - 1
      BY <2>1, <2>4
    <3>2. Gets(j + 1, i) = Gets(j, i)
      BY <2>2, <3>1
    <3>3. Cardinality(Gets(j, i)) \in Nat
      BY <1>1
    <3> HIDE DEF Gets
    <3> QED BY <1>2, <2>4, <3>2, <3>3
  <2> QED BY <2>3, <2>4
<1> DEFINE Q == {j \in Nat : SumOf(Rounds(n, j), S) = j}
<1>5. 0 \in Q
  <2>1. \A i \in S : Rounds(n, 0)[i] = 0
    <3> TAKE i \in S
    <3>1. Gets(0, i) = {}
      OBVIOUS
    <3> HIDE DEF Gets
    <3>2. Cardinality({}) = 0
      BY FS_EmptySet
    <3>3. Rounds(n, 0)[i] = Cardinality(Gets(0, i))
      BY <1>2
    <3> QED BY <3>1, <3>2, <3>3
  <2>2. SumOf(Rounds(n, 0), S) = 0
    BY <1>3, <2>1, ZeroSum
  <2> QED BY <2>2
<1>6. ASSUME NEW j \in Nat, j \in Q PROVE j + 1 \in Q
  <2>a. PICK a : a = (j % n) + 1
    OBVIOUS
  <2>1. a \in S
    BY <1>s, <2>a
  <2>g. PICK g, h : g = Rounds(n, j) /\ h = Rounds(n, j + 1)
    OBVIOUS
  <2>2. Numbers(g, S) /\ Numbers(h, S) /\ Naturals(g, S)
    <3>1. j + 1 \in Nat
      OBVIOUS
    <3> QED BY <1>3, <2>g, <3>1
  <2>3. \A i \in S : g[i] \in Nat
    BY <2>2 DEF Naturals
  <2>4. \A i \in S : h[i] = g[i] + IF i = a THEN 1 ELSE 0
    BY <1>4, <2>a, <2>g
  <2>5. Same(h, g, S \ {a})
    BY <2>3, <2>4 DEF Same
  <2>6. SumOf(h, S) = SumOf(g, S) + (h[a] - g[a])
    BY <2>1, <2>2, <2>5, SumChanged
  <2>7. h[a] - g[a] = 1
    BY <2>1, <2>3, <2>4
  <2>8. SumOf(g, S) = j
    BY <1>6, <2>g
  <2>9. SumOf(h, S) = j + 1
    BY <2>6, <2>7, <2>8
  <2> QED BY <2>9, <2>g
<1> HIDE DEF Q
<1>7. \A j \in 0..m : j \in Q
  BY <1>5, <1>6, CountUp
<1>8. m \in Q
  BY <1>7
<1> QED BY <1>3, <1>8, <1>s DEF Q

\* Every line has some weight to be paid by (Filled).
LEMMA WeightsAre ==
  ASSUME NEW n \in Nat \ {0}, NEW w, w = [i \in 1..n |-> w[i]], \A i \in 1..n : w[i] \in Nat
  PROVE  /\ Naturals(R!Filled(w), 1..n) /\ SumOf(R!Filled(w), 1..n) \in Nat \ {0}
         /\ R!Sum(R!Filled(w)) = SumOf(R!Filled(w), 1..n)
         /\ \A i \in 1..n : R!Filled(w)[i] \in Nat \ {0}
<1>s. PICK S : S = 1..n
  OBVIOUS
<1>f. PICK f : f = R!Filled(w)
  OBVIOUS
<1>k. PICK known : known = {i \in S : w[i] > 0}
  OBVIOUS
<1>t. PICK total : total = R!SumAt(w, known)
  OBVIOUS
<1>1. Naturals(w, S) /\ Numbers(w, S) /\ 1 \in S
  <2>1. IsFiniteSet(S)
    BY <1>s, FS_Interval
  <2>2. w \in [S -> Nat] /\ 1 \in S
    BY <1>s
  <2> QED BY <2>1, <2>2, NaturalSum DEF Naturals
<1>2. known \in SUBSET S /\ R!Lines(w) = S
  <2>1. Len(w) = n
    OBVIOUS
  <2> QED BY <1>k, <1>s, <2>1 DEF R!Lines
<1>3. IsFiniteSet(known) /\ Cardinality(known) \in Nat
  <2>1. IsFiniteSet(S)
    BY <1>1 DEF Naturals
  <2>2. IsFiniteSet(known)
    BY <1>2, <2>1, FS_Subset
  <2> QED BY <2>2, FS_CardinalityType
<1>4. total = SumOf(w, known)
  BY <1>1, <1>2, <1>t, SumAtIs
<1>5. known # {} => total \in Nat \ {0} /\ Cardinality(known) \in Nat \ {0}
  <2> SUFFICES ASSUME known # {} PROVE total \in Nat \ {0} /\ Cardinality(known) \in Nat \ {0}
    OBVIOUS
  <2>1. PICK x \in known : TRUE
    OBVIOUS
  <2>2. SumOf(w, known) = SumOf(w, known \ {x}) + w[x] /\ w[x] \in Int
    BY <1>1, <1>2, <2>1, SumWithout DEF Numbers
  <2>3. SumOf(w, known \ {x}) \in Nat
    <3>1. known \ {x} \in SUBSET S
      BY <1>2
    <3> QED BY <1>1, <3>1, SumOfNats DEF Naturals
  <2>4. w[x] > 0
    BY <1>k, <2>1
  <2>5. Cardinality(known) # 0
    BY <1>3, <2>1, FS_EmptySet
  <2> QED BY <1>3, <1>4, <2>2, <2>3, <2>4, <2>5
<1>6. f = [i \in S |-> CASE known = {}  -> 1
                         [] w[i] > 0    -> w[i] * R!Cardinality(known)
                         [] OTHER       -> total]
  BY <1>2, <1>f, <1>k, <1>t DEF R!Filled
<1>7. \A i \in S : f[i] \in Nat \ {0}
  <2> TAKE i \in S
  <2>1. CASE known = {}
    <3>1. ~(w[i] > 0)
      BY <1>k, <2>1
    <3> QED BY <1>6, <2>1, <3>1
  <2>2. CASE known # {} /\ w[i] > 0
    <3>c. PICK c : c = Cardinality(known)
      OBVIOUS
    <3>1. f[i] = w[i] * c
      BY <1>6, <2>2, <3>c, CountedAlike
    <3>2. w[i] \in Nat \ {0} /\ c \in Nat \ {0}
      BY <1>1, <1>5, <2>2, <3>c DEF Naturals
    <3>3. w[i] * c \in Nat \ {0}
      BY ONLY <3>2
    <3> QED BY <3>1, <3>3
  <2>3. CASE known # {} /\ ~(w[i] > 0)
    BY <1>5, <1>6, <2>3
  <2> QED BY <2>1, <2>2, <2>3
<1>8. Naturals(f, S) /\ Numbers(f, S)
  <2>1. f = [i \in S |-> f[i]]
    BY <1>6
  <2>2. f \in [S -> Nat]
    BY <1>7, <2>1
  <2> QED BY <1>1, <2>2, NaturalSum DEF Naturals
<1>9. SumOf(f, S) \in Nat \ {0}
  <2>1. SumOf(f, S) \in Nat /\ f[1] <= SumOf(f, S)
    BY <1>1, <1>8, NaturalSum
  <2>2. f[1] \in Nat \ {0}
    BY <1>1, <1>7
  <2> QED BY <2>1, <2>2
<1>10. R!Sum(f) = SumOf(f, S)
  <2>1. DOMAIN f = S /\ S \in SUBSET S
    BY <1>6
  <2>2. R!SumAt(f, S) = SumOf(f, S)
    BY <1>8, <2>1, SumAtIs
  <2> QED BY <2>1, <2>2 DEF R!Sum
<1> QED BY <1>7, <1>8, <1>9, <1>10, <1>f, <1>s

\* A share rounded down is no more than the share.
LEMMA ShareIs ==
  ASSUME NEW a \in Nat, NEW b \in Nat \ {0}
  PROVE  a \div b \in Nat /\ b * (a \div b) <= a
OBVIOUS

\* A product that is no larger than another by the same factor has the smaller factor.
LEMMA FactorIs ==
  ASSUME NEW a \in Nat, NEW b \in Nat, NEW f \in Nat \ {0}, f * a <= b * f
  PROVE  a <= b
<1> SUFFICES ASSUME b + 1 <= a PROVE FALSE
  OBVIOUS
<1>1. f * (b + 1) <= f * a
  OBVIOUS
<1>2. f * (b + 1) = b * f + f
  OBVIOUS
<1> QED BY <1>1, <1>2

\* The shares of the platinum are no less than nothing and add up to it (split_platinum).
LEMMA SplitIs ==
  ASSUME NEW total \in Nat, NEW n \in Nat \ {0}, NEW w, w = [i \in 1..n |-> w[i]], \A i \in 1..n : w[i] \in Nat
  PROVE  /\ Naturals(R!split_platinum(total, w), 1..n)
         /\ SumOf(R!split_platinum(total, w), 1..n) = total
<1>s. PICK S : S = 1..n
  OBVIOUS
<1>f. PICK f : f = R!Filled(w)
  OBVIOUS
<1>F. PICK F : F = R!Sum(f)
  OBVIOUS
<1>w. PICK fl : fl = [i \in S |-> (total * f[i]) \div F]
  OBVIOUS
<1>r. PICK rest : rest = total - R!Sum(fl)
  OBVIOUS
<1>1. Naturals(f, S) /\ F \in Nat \ {0} /\ F = SumOf(f, S) /\ \A i \in S : f[i] \in Nat
  BY <1>F, <1>f, <1>s, WeightsAre
<1>2. \A i \in S : fl[i] \in Nat /\ F * fl[i] <= total * f[i]
  <2> TAKE i \in S
  <2>a. PICK a : a = total * f[i]
    OBVIOUS
  <2>1. f[i] \in Nat
    BY <1>1
  <2>2. a \in Nat
    BY ONLY <2>1, <2>a, total \in Nat
  <2>3. fl[i] = a \div F
    BY <1>w, <2>a
  <2>4. a \div F \in Nat /\ F * (a \div F) <= a
    BY <1>1, <2>2, ShareIs
  <2> QED BY <2>3, <2>4, <2>a
<1>3. Naturals(fl, S) /\ Numbers(fl, S) /\ Numbers(f, S)
  <2>1. fl \in [S -> Nat]
    BY <1>2, <1>w
  <2>2. IsFiniteSet(S)
    BY <1>1 DEF Naturals
  <2> QED BY <1>1, <2>1, <2>2, NaturalSum DEF Naturals
<1>4. R!Sum(fl) = SumOf(fl, S) /\ SumOf(fl, S) \in Nat
  <2>1. DOMAIN fl = S /\ S \in SUBSET S
    BY <1>w
  <2>2. R!SumAt(fl, S) = SumOf(fl, S)
    BY <1>3, <2>1, SumAtIs
  <2> QED BY <1>3, <2>1, <2>2, NaturalSum DEF R!Sum
<1>5. SumOf(fl, S) <= total
  <2>a. PICK a : a = [i \in S |-> F * fl[i]]
    OBVIOUS
  <2>b. PICK b : b = [i \in S |-> total * f[i]]
    OBVIOUS
  <2>1. \A i \in S : F * fl[i] \in Int /\ total * f[i] \in Int
    <3> TAKE i \in S
    <3>1. fl[i] \in Nat /\ f[i] \in Nat /\ F \in Nat
      BY <1>1, <1>2
    <3> QED BY ONLY <3>1, total \in Nat
  <2>2. Numbers(a, S) /\ Numbers(b, S)
    BY <1>3, <2>1, <2>a, <2>b DEF Numbers
  <2>3. Scaled(a, F, fl, S) /\ Scaled(b, total, f, S) /\ Below(a, b, S)
    BY <1>2, <2>a, <2>b DEF Scaled, Below
  <2>4. SumOf(a, S) = F * SumOf(fl, S)
    BY <1>1, <1>3, <2>2, <2>3, SumScaled
  <2>5. SumOf(b, S) = total * F
    BY <1>1, <1>3, <2>2, <2>3, SumScaled
  <2>6. SumOf(a, S) <= SumOf(b, S)
    BY <2>2, <2>3, SumsCompare
  <2> QED BY <1>1, <1>4, <2>4, <2>5, <2>6, FactorIs
<1>6. rest \in Nat /\ rest = total - SumOf(fl, S)
  BY <1>4, <1>5, <1>r
<1>e. PICK e : e = Rounds(n, rest)
  OBVIOUS
<1>7. Naturals(e, S) /\ SumOf(e, S) = rest
  BY <1>6, <1>e, <1>s, RoundsAre
<1>p. PICK p : p = R!split_platinum(total, w)
  OBVIOUS
<1>8. p = [i \in S |-> fl[i] + e[i]]
  <2>1. Len(w) = n
    OBVIOUS
  <2>2. p = [i \in S |-> fl[i] + R!Cardinality({k \in 0..(rest - 1) : k % n = i - 1})]
    BY <1>F, <1>f, <1>p, <1>r, <1>s, <1>w, <2>1 DEF R!split_platinum
  <2>3. \A i \in S : e[i] = R!Cardinality({k \in 0..(rest - 1) : k % n = i - 1})
    BY <1>e, <1>s, CountedAlike DEF Rounds
  <2> QED BY <2>2, <2>3
<1>9. Naturals(p, S) /\ AddUp(p, fl, e, S)
  <2>1. \A i \in S : fl[i] \in Nat /\ e[i] \in Nat
    BY <1>2, <1>7 DEF Naturals
  <2>2. p \in [S -> Nat]
    BY <1>8, <2>1
  <2> QED BY <1>3, <1>8, <2>2 DEF Naturals, AddUp
<1>10. SumOf(p, S) = SumOf(fl, S) + SumOf(e, S)
  BY <1>3, <1>7, <1>9, NaturalSum, SumsAdd
<1>11. SumOf(p, S) = total
  BY <1>4, <1>6, <1>7, <1>10
<1> QED BY <1>9, <1>11, <1>p, <1>s


-----------------------------------------------------------------------------
(* Resolution: the lines priced (price_items), and every step of a trade.      *)

\* Lines with prices are the same lines, and cost what was paid (price_items).
LEMMA PricedAre ==
  ASSUME NEW ls, AreLines(ls), NEW total \in Nat, NEW unit \in [R!Lines(ls) -> AskedPrices],
         NEW more, more = R!price_items(ls, total, R!weights_for(ls, unit))
  PROVE  /\ AreLines(more) /\ \A slug : R!Unfolded(more, slug) = R!Unfolded(ls, slug)
         /\ more # <<>> => /\ R!Sum([i \in R!Lines(more) |-> more[i].price]) = total
                           /\ \A i \in R!Lines(more) : more[i].price >= 0
<1>1. CASE ls = <<>>
  BY <1>1 DEF R!price_items
<1>2. CASE ls # <<>>
  <2>n. PICK n \in Nat : n = Len(ls)
    BY LinesAre
  <2>s. PICK S : S = 1..n
    OBVIOUS
  <2>w. PICK w : w = R!weights_for(ls, unit)
    OBVIOUS
  <2>p. PICK p : p = R!split_platinum(total, w)
    OBVIOUS
  <2>1. n # 0 /\ R!Lines(ls) = S /\ DOMAIN ls = S
    <3>1. R!Lines(ls) = S /\ DOMAIN ls = S
      BY <2>n, <2>s, LinesAre
    <3>2. n # 0
      BY <1>2, <2>n DEF AreLines
    <3> QED BY <3>1, <3>2
  <2>2. w = [i \in 1..n |-> w[i]] /\ \A i \in 1..n : w[i] \in Nat
    <3>1. w = [i \in S |-> unit[i] * ls[i].quantity]
      BY <2>1, <2>w DEF R!weights_for
    <3>2. \A i \in S : unit[i] \in Nat
      BY <2>1, ResolveAssumption DEF ResolveAssumption
    <3>3. \A i \in S : ls[i].quantity \in Nat
      BY <2>n, <2>s, LinesAre
    <3>4. \A i \in S : w[i] \in Nat
      <4> TAKE i \in S
      <4>a. PICK a, b : a = unit[i] /\ b = ls[i].quantity
        OBVIOUS
      <4>1. a \in Nat /\ b \in Nat
        BY <3>2, <3>3, <4>a
      <4>2. a * b \in Nat
        BY ONLY <4>1
      <4> QED BY <3>1, <4>2, <4>a
    <3> QED BY <2>s, <3>1, <3>4
  <2>3. Naturals(p, S) /\ SumOf(p, S) = total
    BY <2>1, <2>2, <2>p, <2>s, SplitIs
  <2>4. p \in [S -> Nat]
    BY <2>3 DEF Naturals
  <2>5. more = [i \in S |-> [ls[i] EXCEPT !.price = p[i]]]
    BY <1>2, <2>1, <2>p, <2>w DEF R!price_items
  <2>6. \A i \in S : /\ more[i] \in ItemLine /\ more[i].slug = ls[i].slug
                     /\ more[i].quantity = ls[i].quantity /\ more[i].price = p[i] /\ p[i] \in Nat
    <3> TAKE i \in S
    <3>1. ls[i] \in ItemLine
      BY <2>n, <2>s, LinesAre
    <3>2. more[i] = [ls[i] EXCEPT !.price = p[i]] /\ p[i] \in Nat
      BY <2>4, <2>5
    <3> QED BY <3>1, <3>2 DEF ItemLine
  <2>7. AreLines(more)
    <3>L. PICK L : L = ItemLine
      OBVIOUS
    <3>1. more \in [1..n -> L]
      BY <2>5, <2>6, <2>s, <3>L
    <3> QED BY <3>1, <3>L DEF AreLines
  <2>8. R!Lines(more) = S
    <3>1. Len(more) = n
      BY <2>5, <2>s
    <3> QED BY <2>s, <3>1 DEF R!Lines
  <2>9. ASSUME NEW x PROVE R!UnitsOf(more, x) = R!UnitsOf(ls, x)
    <3>1. R!Quantities(more) = R!Quantities(ls)
      BY <2>1, <2>6, <2>8 DEF R!Quantities
    <3>2. {i \in R!Lines(more) : more[i].slug = x} = {i \in R!Lines(ls) : ls[i].slug = x}
      BY <2>1, <2>6, <2>8
    <3> QED BY <3>1, <3>2 DEF R!UnitsOf
  <2>10. ASSUME NEW slug PROVE R!Unfolded(more, slug) = R!Unfolded(ls, slug)
    <3>1. InSets(more, slug) = InSets(ls, slug)
      BY <2>9 DEF InSets
    <3>2. R!UnitsOf(more, slug) = R!UnitsOf(ls, slug)
      BY <2>9
    <3>3. R!Unfolded(more, slug) = R!UnitsOf(more, slug) + SumOf(InSets(more, slug), DOMAIN PartsOf)
      BY <2>7, UnfoldedIs
    <3>4. R!Unfolded(ls, slug) = R!UnitsOf(ls, slug) + SumOf(InSets(ls, slug), DOMAIN PartsOf)
      BY UnfoldedIs
    <3> QED BY <3>1, <3>2, <3>3, <3>4
  <2>11. R!Sum([i \in R!Lines(more) |-> more[i].price]) = total
    <3>1. [i \in R!Lines(more) |-> more[i].price] = p
      BY <2>4, <2>6, <2>8
    <3>2. DOMAIN p = S /\ S \in SUBSET S
      BY <2>4
    <3>3. R!SumAt(p, S) = SumOf(p, S)
      BY <2>3, <3>2, NaturalSum, SumAtIs
    <3> QED BY <2>3, <3>1, <3>2, <3>3 DEF R!Sum
  <2>12. \A i \in R!Lines(more) : more[i].price >= 0
    BY <2>6, <2>8
  <2> QED BY <2>7, <2>10, <2>11, <2>12
<1> QED BY <1>1, <1>2

\* What is remembered of sets is what the market says of them.
Remembered(map) == DOMAIN map \subseteq DOMAIN PartsOf /\ \A r \in DOMAIN map : map[r] = PartsOf[r]

\* Lines that stand for a trade, if its names are all known.
StandFor(ls, t, known) ==
  R!Unresolved(R!classify(t).goods, known) = {} =>
    \A slug \in MarketItems \ DOMAIN PartsOf : R!Unfolded(ls, slug) = R!Traded(t, slug)

ResolveInv ==
  /\ Remembered(y1) /\ Remembered(y2) /\ y6 \subseteq DOMAIN PartsOf
  /\ y3 \in {"idle", "sets", "fold", "price"}
  /\ y3 # "idle" => /\ y4 \in ReportedTrades /\ y5 \in ItemLists /\ y9 = "none yet"
                    /\ AreLines(y8) /\ StandFor(y8, y4, y5)
  /\ y3 = "idle" => R!SetsStandForTheirParts /\ R!PlatinumIsSplit

\* Where nothing was decided on yet nothing is promised.
LEMMA NothingPromised ==
  ASSUME y9 \notin {"none", "auto_trade_off", "unresolved"}
  PROVE  R!SetsStandForTheirParts /\ R!PlatinumIsSplit
BY DEF R!SetsStandForTheirParts, R!PlatinumIsSplit, R!None

\* A trade arrives: its lines stand for it (resolve_event).
LEMMA EventKeeps ==
  ASSUME ResolveInv, NEW t \in ReportedTrades, NEW known \in ItemLists, R!resolve_event(t, known)
  PROVE  ResolveInv'
<1>l. PICK ls : ls = R!resolve_trade(R!classify(t).goods, known)
  OBVIOUS
<1>r. PICK c : c = R!set_candidates(ls, known)
  OBVIOUS
<1>1. AreLines(ls) /\ StandFor(ls, t, known)
  BY <1>l, ResolvedIs DEF StandFor
<1>2. c \subseteq DOMAIN PartsOf
  BY <1>r DEF R!set_candidates, R!Roots
<1>3. y1' = y1 /\ y2' = y2 /\ y4' = t /\ y5' = known
  BY DEF R!resolve_event
<1>4. CASE R!classify(t).direction = "none"
  <2>1. y9' = "no_platinum_side" /\ y6' = {} /\ y3' = "idle"
    BY <1>4 DEF R!resolve_event
  <2>2. (R!SetsStandForTheirParts)' /\ (R!PlatinumIsSplit)'
    BY <2>1 DEF R!SetsStandForTheirParts, R!PlatinumIsSplit, R!None
  <2> QED BY <1>3, <2>1, <2>2 DEF ResolveInv, Remembered
<1>5. CASE R!classify(t).direction # "none"
  <2>1. y8' = ls /\ y6' = c /\ y9' = "none yet" /\ y3' \in {"price", "sets"}
    BY <1>5, <1>l, <1>r DEF R!resolve_event
  <2>2. AreLines(y8') /\ StandFor(y8', y4', y5')
    BY <1>1, <1>3, <2>1
  <2>3. AreLines(y8)' /\ StandFor(y8, y4, y5)'
    BY <2>2 DEF AreLines, StandFor
  <2> QED BY <1>2, <1>3, <2>1, <2>3 DEF ResolveInv, Remembered
<1> QED BY <1>4, <1>5

\* A list fetched is the market's, or none at all (assemble, set_parts).
LEMMA FetchKeeps ==
  ASSUME ResolveInv, NEW r \in DOMAIN PartsOf, NEW listed, NEW failed, R!Fetch(r, listed, failed)
  PROVE  ResolveInv'
<1>p. PICK parts : parts = IF listed THEN R!parse_set_parts(r, y5) ELSE {}
  OBVIOUS
<1>w. PICK whole : whole = {m \in R!assemble(r, parts, failed) : parts # {}}
  OBVIOUS
<1>1. /\ y3 = "sets" /\ y6' = y6 \ {r} /\ UNCHANGED <<y2, y3, y4, y5, y8, y9>>
      /\ y1' = [x \in DOMAIN y1 \cup {y \in {r} : whole # {}} |->
                  IF x = r THEN CHOOSE m \in whole : TRUE ELSE y1[x]]
  BY <1>p, <1>w DEF R!Fetch
<1>2. ASSUME NEW m \in whole PROVE m = PartsOf[r]
  <2>1. parts = DOMAIN PartsOf[r] /\ m = [q \in parts |-> PartsOf[r][q]]
    BY <1>p, <1>w DEF R!parse_set_parts, R!assemble
  <2>2. PartsOf[r] = [q \in DOMAIN PartsOf[r] |-> PartsOf[r][q]]
    BY ResolveAssumption DEF ResolveAssumption
  <2> QED BY <2>1, <2>2
<1>m. PICK got : got = CHOOSE m \in whole : TRUE
  OBVIOUS
<1>3. whole # {} => got = PartsOf[r]
  BY <1>2, <1>m
<1>4. ASSUME NEW x \in DOMAIN y1' PROVE x \in DOMAIN PartsOf /\ y1'[x] = PartsOf[x]
  <2>1. x \in DOMAIN y1 \/ (x = r /\ whole # {})
    BY <1>1
  <2>2. y1'[x] = IF x = r THEN got ELSE y1[x]
    BY <1>1, <1>m
  <2>3. r \notin DOMAIN y1
    BY DEF R!Fetch
  <2> QED BY <1>3, <2>1, <2>2, <2>3 DEF ResolveInv, Remembered
<1>5. Remembered(y1)'
  BY <1>4 DEF Remembered
<1>6. AreLines(y8)' <=> AreLines(y8)
  BY <1>1 DEF AreLines
<1>7. StandFor(y8, y4, y5)' <=> StandFor(y8, y4, y5)
  BY <1>1 DEF StandFor
<1> QED BY <1>1, <1>5, <1>6, <1>7 DEF ResolveInv, Remembered

\* The candidates folded in any order: the lines stand for the trade (fold_sets).
LEMMA FoldSetsKeeps ==
  ASSUME ResolveInv,
         NEW order \in R!SetToSeqs({r \in R!set_candidates(y8, y5) : r \in DOMAIN y1}), R!fold_sets(order)
  PROVE  ResolveInv'
<1>t. PICK T : T = {r \in R!set_candidates(y8, y5) : r \in DOMAIN y1}
  OBVIOUS
<1>1. T \subseteq DOMAIN PartsOf /\ T \subseteq DOMAIN y1
  BY <1>t DEF R!set_candidates, R!Roots
<1>2. IsFiniteSet(T)
  <2>1. IsFiniteSet(DOMAIN PartsOf)
    BY ResolveAssumption DEF ResolveAssumption
  <2> QED BY <1>1, <2>1, FS_Subset
<1>n. PICK n \in Nat : n = Cardinality(T)
  BY <1>2, FS_CardinalityType
<1>3. order \in [1..n -> T]
  <2>1. order \in P!SetToSeqs(T)
    BY <1>t, ListedAlike
  <2> QED BY <1>n, <2>1, SetsListed
<1>4. /\ y3 = "fold" /\ y3' = "price" /\ UNCHANGED <<y1, y2, y4, y5, y6, y9>>
      /\ y8' = FoldAll(y8, order, y1)
  BY DEF R!fold_sets, FoldAll
<1>5. AreLines(y8) /\ StandFor(y8, y4, y5) /\ y4 \in ReportedTrades /\ y5 \in ItemLists /\ y9 = "none yet"
  BY <1>4 DEF ResolveInv
<1>6. order \in [1..n -> DOMAIN PartsOf] /\ \A k \in 1..n : y1[order[k]] = PartsOf[order[k]]
  BY <1>1, <1>3 DEF ResolveInv, Remembered
<1>l. PICK ls : ls = FoldAll(y8, order, y1)
  OBVIOUS
<1>7. ls \in Alike(y8)
  BY <1>5, <1>6, <1>l, FoldAllKeeps
<1>8. AreLines(ls) /\ \A slug \in MarketItems \ DOMAIN PartsOf : R!Unfolded(ls, slug) = R!Unfolded(y8, slug)
  BY <1>7 DEF Alike, AreLines
<1>9. StandFor(ls, y4, y5)
  BY <1>5, <1>8 DEF StandFor
<1>10. AreLines(y8)' /\ StandFor(y8, y4, y5)'
  <2>1. y8' = ls /\ y4' = y4 /\ y5' = y5
    BY <1>4, <1>l
  <2> QED BY <1>8, <1>9, <2>1 DEF AreLines, StandFor
<1> QED BY <1>4, <1>5, <1>10 DEF ResolveInv, Remembered

\* The lines priced: what they stand for is the trade's, what they cost was paid (price_items).
LEMMA PriceKeeps ==
  ASSUME ResolveInv, NEW unit \in R!unit_prices(y8), NEW auto_trade, R!price(unit, auto_trade)
  PROVE  ResolveInv'
<1>c. PICK c : c = R!classify(y4)
  OBVIOUS
<1>m. PICK more : more = R!price_items(y8, c.platinum, R!weights_for(y8, unit))
  OBVIOUS
<1>1. /\ y3 = "price" /\ y3' = "idle" /\ UNCHANGED <<y1, y2, y4, y5, y6>> /\ y8' = more
  BY <1>c, <1>m DEF R!price
<1>2. AreLines(y8) /\ StandFor(y8, y4, y5) /\ y4 \in ReportedTrades
  BY <1>1 DEF ResolveInv
<1>3. c.platinum \in Nat /\ unit \in [R!Lines(y8) -> AskedPrices]
  BY <1>2, <1>c, ClassifiedIs DEF R!unit_prices
<1>4. /\ \A slug : R!Unfolded(more, slug) = R!Unfolded(y8, slug)
      /\ more # <<>> => /\ R!Sum([i \in R!Lines(more) |-> more[i].price]) = c.platinum
                        /\ \A i \in R!Lines(more) : more[i].price >= 0
  BY <1>2, <1>3, <1>m, PricedAre
<1>5. y9' = "none" => R!Unresolved(c.goods, y5) = {}
  BY <1>c DEF R!price, R!None
<1>6. (R!SetsStandForTheirParts)'
  <2>1. SUFFICES ASSUME y9' = "none", NEW slug \in MarketItems \ DOMAIN PartsOf
                 PROVE  R!Unfolded(y8', slug) = R!Traded(y4', slug)
    BY DEF R!SetsStandForTheirParts, R!None, R!Roots
  <2>2. R!Unfolded(y8, slug) = R!Traded(y4, slug)
    BY <1>2, <1>5, <1>c, <2>1 DEF StandFor
  <2> QED BY <1>1, <1>4, <2>2
<1>7. (R!PlatinumIsSplit)'
  BY <1>1, <1>4, <1>c DEF R!PlatinumIsSplit
<1> QED BY <1>1, <1>6, <1>7 DEF ResolveInv, Remembered

\* A step of a resolution: the lines stand for the trade (resolve_event).
LEMMA ResolveKeeps ==
  ASSUME ResolveInv, R!Next
  PROVE  ResolveInv'
<1>1. ASSUME NEW r, R!Known(r) PROVE ResolveInv'
  <2>1. y3 = "sets" /\ y6' = y6 \ {r} /\ UNCHANGED <<y1, y2, y3, y4, y5, y8, y9>>
    BY <1>1 DEF R!Known
  <2>2. AreLines(y8)' <=> AreLines(y8)
    BY <2>1 DEF AreLines
  <2>3. StandFor(y8, y4, y5)' <=> StandFor(y8, y4, y5)
    BY <2>1 DEF StandFor
  <2> QED BY <2>1, <2>2, <2>3 DEF ResolveInv, Remembered
<1>2. ASSUME NEW written, R!save(written) PROVE ResolveInv'
  <2>1. y3 = "sets" /\ y3' = "fold" /\ y2' \in {y1, y2} /\ UNCHANGED <<y1, y4, y5, y6, y8, y9>>
    BY <1>2 DEF R!save
  <2>2. AreLines(y8)' <=> AreLines(y8)
    BY <2>1 DEF AreLines
  <2>3. StandFor(y8, y4, y5)' <=> StandFor(y8, y4, y5)
    BY <2>1 DEF StandFor
  <2> QED BY <2>1, <2>2, <2>3 DEF ResolveInv, Remembered
<1>3. CASE R!Handed
  <2>1. y9' = "none yet" /\ y3 = "idle" /\ UNCHANGED <<y1, y2, y3, y6>>
    BY <1>3 DEF R!Handed
  <2>2. (R!SetsStandForTheirParts)' /\ (R!PlatinumIsSplit)'
    BY <2>1 DEF R!SetsStandForTheirParts, R!PlatinumIsSplit, R!None
  <2> QED BY <2>1, <2>2 DEF ResolveInv, Remembered
<1>4. CASE R!Restart
  <2>1. y9' = "none yet" /\ y3' = "idle" /\ y1' = y2 /\ y2' = y2 /\ y6' = {}
    BY <1>4 DEF R!Restart
  <2>2. (R!SetsStandForTheirParts)' /\ (R!PlatinumIsSplit)'
    BY <2>1 DEF R!SetsStandForTheirParts, R!PlatinumIsSplit, R!None
  <2> QED BY <2>1, <2>2 DEF ResolveInv, Remembered
<1> QED
  BY <1>1, <1>2, <1>3, <1>4, EventKeeps, FetchKeeps, FoldSetsKeeps, PriceKeeps
     DEF R!Next, R!Roots, R!tradable_items

ResolveHold == subject = "resolve" => ResolveInv

\* A step of any part keeps the resolution's state as its own steps would.
LEMMA ResolveHoldOn ==
  ASSUME ResolveHold, [TradingNext]_trading
  PROVE  ResolveHold'
<1>1. CASE ResolvePart
  BY <1>1, ResolveKeeps DEF ResolvePart, ResolveHold
<1>2. CASE DeskPart \/ TraderPart \/ RulesPart
  BY <1>2 DEF DeskPart, TraderPart, RulesPart, ResolveHold
<1>3. CASE UNCHANGED trading
  <2>1. UNCHANGED <<subject, y1, y2, y3, y4, y5, y6, y7, y8, y9>>
    BY <1>3 DEF trading
  <2>2. (R!SetsStandForTheirParts)' <=> R!SetsStandForTheirParts
    BY <2>1 DEF R!SetsStandForTheirParts
  <2>3. (R!PlatinumIsSplit)' <=> R!PlatinumIsSplit
    BY <2>1 DEF R!PlatinumIsSplit
  <2>4. AreLines(y8)' <=> AreLines(y8)
    BY <2>1 DEF AreLines
  <2>5. StandFor(y8, y4, y5)' <=> StandFor(y8, y4, y5)
    BY <2>1 DEF StandFor
  <2> QED BY <2>1, <2>2, <2>3, <2>4, <2>5 DEF ResolveHold, ResolveInv, Remembered
<1> QED BY <1>1, <1>2, <1>3 DEF TradingNext

\* A trade applied without review changes the stock by what was traded, sets standing for their
\* parts, and its lines cost the platinum paid: for any market, names, overrides, item lists and
\* prices, whatever fetches fail and over restarts (resolve_event, fold_sets, split_platinum).
THEOREM LinesStandForTheTradeHolds == TradingSpec => []LinesStandForTheTrade
<1>1. TradingInit => ResolveHold
  <2> SUFFICES ASSUME TradingInit, subject = "resolve" PROVE ResolveInv
    BY DEF ResolveHold
  <2>1. R!Init
    BY DEF TradingInit
  <2>2. y1 = <<>> /\ y2 = <<>> /\ y3 = "idle" /\ y6 = {} /\ y9 = "none yet"
    BY <2>1 DEF R!Init
  <2>3. DOMAIN <<>> = {}
    OBVIOUS
  <2>4. Remembered(y1) /\ Remembered(y2)
    BY <2>2, <2>3 DEF Remembered
  <2>5. R!SetsStandForTheirParts /\ R!PlatinumIsSplit
    BY <2>2, NothingPromised
  <2> QED BY <2>2, <2>4, <2>5 DEF ResolveInv
<1>2. ResolveHold /\ [TradingNext]_trading => ResolveHold'
  BY ResolveHoldOn
<1>3. ResolveHold => LinesStandForTheTrade
  <2> SUFFICES ASSUME ResolveHold, subject = "resolve" PROVE R!SetsStandForTheirParts /\ R!PlatinumIsSplit
    BY DEF LinesStandForTheTrade
  <2>1. CASE y3 = "idle"
    BY <2>1 DEF ResolveHold, ResolveInv
  <2>2. CASE y3 # "idle"
    BY <2>2, NothingPromised DEF ResolveHold, ResolveInv
  <2> QED BY <2>1, <2>2
<1> QED
  BY <1>1, <1>2, <1>3, PTL DEF TradingSpec

-----------------------------------------------------------------------------
(* The rules' answers, of the parts side by side.                             *)

RulesHold == subject = "rules" => P!RulesInv

\* A step of any part keeps the answers the rules'.
LEMMA RulesHoldOn ==
  ASSUME RulesHold, [TradingNext]_trading
  PROVE  RulesHold'
<1>1. CASE RulesPart
  <2>1. P!RulesInv /\ P!RulesNext /\ subject' = subject
    BY <1>1 DEF RulesPart, RulesHold
  <2>2. (P!RulesInv)'
    BY <2>1 DEF P!RulesNext, P!RulesInv, P!Ask, P!AskSale, P!AskBid, P!AskWish, P!AskFit, P!AskRank
  <2> QED BY <2>2 DEF RulesHold
<1>2. CASE DeskPart \/ TraderPart \/ ResolvePart
  BY <1>2 DEF DeskPart, TraderPart, ResolvePart, RulesHold
<1>3. CASE UNCHANGED trading
  <2>1. (P!RulesInv)' <=> P!RulesInv
    BY <1>3 DEF trading, P!RulesInv
  <2> QED BY <1>3, <2>1 DEF RulesHold, trading
<1> QED
  BY <1>1, <1>2, <1>3 DEF TradingNext

\* The bids the knapsack keeps fit the budget and no other bids that fit earn more, and while a
\* profit is asked for a key the collector has never seen takes no slot: for any bids, budget,
\* statistics and settings (knapsack, merge, filtered_items).
THEOREM SlotsGoToTheBestHolds == TradingSpec => []SlotsGoToTheBest
<1>1. TradingInit => RulesHold
  BY DEF TradingInit, RulesHold, P!RulesInit, P!RulesInv
<1>2. RulesHold /\ [TradingNext]_trading => RulesHold'
  BY RulesHoldOn
<1>3. RulesHold => SlotsGoToTheBest
  BY KnapsackIsRight, UnseenKeysAreOut DEF RulesHold, SlotsGoToTheBest
<1> QED
  BY <1>1, <1>2, <1>3, PTL DEF TradingSpec
=============================================================================
