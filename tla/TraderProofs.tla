---------------------------- MODULE TraderProofs ----------------------------
(***************************************************************************)
(* The trader: its life cycle (TraderLifecycle) for any number of clients   *)
(* and loops; then, of MCTrading, the rules its prices come from and the    *)
(* desk that books its trades, for any questions, requests and rows.        *)
(***************************************************************************)
EXTENDS TraderLifecycle, MCTrading, FiniteSetTheorems, SequenceTheorems, TLAPS

\* The parts of the types that the steps below use.
LEMMA Types ==
  ASSUME TypeOK
  PROVE  /\ \A c \in Caller : call[c] \in Call
         /\ \A i \in Slot : loop[i] \in Loop
         /\ running # None => running \in Slot /\ loop[running].pc # "none"
         /\ \A c \in Caller : call[c].run # None => call[c].run \in Slot /\ lock = c
BY TraderLifecycleAssumption DEF TypeOK, Call, Caller

\* The invariant holds at the start.
LEMMA InitInv == Init => LifecycleInv
<1> SUFFICES ASSUME Init PROVE LifecycleInv
  OBVIOUS
<1>1. TypeOK
  BY TraderLifecycleAssumption
  DEF Init, TypeOK, Idle, NoLoop, Call, Loop, Env, Age, Health, LifecycleState, Exit, Reason
<1>2. OnlyTheKnownLoopGoesOn
  BY DEF Init, OnlyTheKnownLoopGoesOn, Alive, NoLoop
<1>3. ModeIsKept /\ TradingMeansRunning
  BY DEF Init, ModeIsKept, TradingMeansRunning
<1>4. NothingIsLost
  BY DEF Init, NothingIsLost, NoLoop
<1>5. QED
  BY <1>1, <1>2, <1>3, <1>4 DEF LifecycleInv

\* A step that moves no loop, no lock and no wait of finish.
LEMMA QuietInv ==
  ASSUME LifecycleInv,
         UNCHANGED <<options, state, running, lock, loop, status>>,
         env' \in Env, buys' \in BOOLEAN,
         call' \in [Caller -> Call],
         \A c \in Caller : call'[c].run = call[c].run,
         \A c \in Caller : call[c].pc \in {"idle", "queued"} <=> call'[c].pc \in {"idle", "queued"},
         \A c \in Caller : call[c].pc = "join" <=> call'[c].pc = "join"
  PROVE  LifecycleInv'
<1>1. TypeOK'
  BY DEF TypeOK, LifecycleInv
<1>2. OnlyTheKnownLoopGoesOn' /\ ModeIsKept' /\ TradingMeansRunning'
  BY DEF LifecycleInv, OnlyTheKnownLoopGoesOn, Alive, ModeIsKept, TradingMeansRunning
<1>3. NothingIsLost'
  BY DEF LifecycleInv, NothingIsLost, Owned
<1>4. QED
  BY <1>1, <1>2, <1>3 DEF LifecycleInv

\* A caller that has queued awaits no loop.
LEMMA Queued ==
  ASSUME LifecycleInv, NEW c \in Caller, call[c].pc \in {"idle", "queued"}
  PROVE  call[c] \in Call /\ call[c].run = None
BY DEF LifecycleInv, TypeOK

\* A command queues.
LEMMA BeginInv ==
  ASSUME LifecycleInv, NEW c \in Caller, NEW op \in {"start", "stop", "options", "tick"}, Begin(c, op)
  PROVE  LifecycleInv'
<1>1. call[c] \in Call /\ env.helper \in Age /\ call \in [Caller -> Call]
  BY Queued DEF LifecycleInv, TypeOK, Begin, Env
<1>2. call' \in [Caller -> Call]
  BY <1>1 DEF Begin, Call
<1>3. \A d \in Caller : call'[d].run = call[d].run /\ (d # c => call'[d] = call[d])
  BY <1>1 DEF Begin, Call
<1>4. call[c].pc = "idle" /\ call'[c].pc = "queued"
  BY <1>1 DEF Begin, Call
<1>5. env' \in Env /\ buys' \in BOOLEAN
  BY DEF LifecycleInv, TypeOK, Begin
<1>6. QED
  BY <1>2, <1>3, <1>4, <1>5, QuietInv DEF Begin

\* A command or a tick that returns without touching anything.
LEMMA ReturnInv ==
  ASSUME LifecycleInv, NEW c \in Caller, call[c].pc \in {"idle", "queued"}, Returned(c),
         UNCHANGED <<env, options, state, running, lock, loop, status, buys>>
  PROVE  LifecycleInv'
<1>1. call[c].run = None /\ call \in [Caller -> Call]
  BY Queued DEF LifecycleInv, TypeOK
<1>2. Idle \in Call
  BY DEF Idle, Call, Age, Reason
<1>3. call' \in [Caller -> Call]
  BY <1>1, <1>2 DEF Returned
<1>4. call'[c].pc = "idle" /\ call'[c].run = None /\ \A d \in Caller \ {c} : call'[d] = call[d]
  BY <1>1 DEF Returned, Idle
<1>5. env' \in Env /\ buys' \in BOOLEAN
  BY DEF LifecycleInv, TypeOK
<1>6. \A d \in Caller : /\ call'[d].run = call[d].run
                        /\ call[d].pc \in {"idle", "queued"} <=> call'[d].pc \in {"idle", "queued"}
                        /\ call[d].pc = "join" <=> call'[d].pc = "join"
  <2> TAKE d \in Caller
  <2>1. CASE d = c
    BY <1>1, <1>4, <2>1
  <2>2. CASE d # c
    <3>1. call'[d] = call[d]
      BY <1>4, <2>2
    <3>2. QED
      BY <3>1
  <2>3. QED
    BY <2>1, <2>2
<1>7. QED
  BY <1>3, <1>5, <1>6, QuietInv

\* The world moves: heartbeats, ages, the session, the breaker, the settings.
LEMMA WorldInv ==
  ASSUME LifecycleInv, World
  PROVE  LifecycleInv'
<1>1. CASE Heartbeat
  <2>1. call \in [Caller -> Call] /\ env \in Env /\ \A c \in Caller : call[c] \in Call
    BY DEF LifecycleInv, TypeOK
  <2>2. call' \in [Caller -> Call]
    BY <1>1, <2>1 DEF Heartbeat, Call, Age
  <2>3. \A c \in Caller : call'[c].run = call[c].run /\ call'[c].pc = call[c].pc
    BY <1>1, <2>1 DEF Heartbeat, Call
  <2>4. env' \in Env /\ buys' \in BOOLEAN
    BY <1>1, <2>1 DEF Heartbeat, Env, Age, LifecycleInv, TypeOK
  <2>5. QED
    BY <1>1, <2>2, <2>3, <2>4, QuietInv DEF Heartbeat
<1>2. CASE HelperAges \/ SessionChanges \/ BreakerChanges \/ SettingChanges
  <2>1. env' \in Env /\ UNCHANGED <<options, state, running, lock, call, loop, status, buys>>
    <3>1. env \in Env
      BY DEF LifecycleInv, TypeOK
    <3>2. CASE HelperAges
      BY <3>1, <3>2 DEF HelperAges, Becomes, Env, Age
    <3>3. CASE SessionChanges
      BY <3>1, <3>3, TraderLifecycleAssumption DEF SessionChanges, Becomes, Env
    <3>4. CASE BreakerChanges \/ SettingChanges
      BY <3>1, <3>4 DEF BreakerChanges, SettingChanges, Becomes, Env
    <3>5. QED
      BY <1>2, <3>2, <3>3, <3>4
  <2>2. call' \in [Caller -> Call] /\ buys' \in BOOLEAN
    BY <2>1 DEF LifecycleInv, TypeOK
  <2>3. QED
    BY <2>1, <2>2, QuietInv
<1>3. QED
  BY <1>1, <1>2 DEF World

\* A free mutex: no caller is in finish.
LEMMA FreeLock ==
  ASSUME LifecycleInv, lock = None
  PROVE  \A c \in Caller : call[c].pc \in {"idle", "queued"} /\ call[c].run = None
BY TraderLifecycleAssumption DEF LifecycleInv, TypeOK, Caller, Call

\* A tick of an idle trader and set_options: the badge, and the options while
\* no loop runs or the mode stays.
LEMMA BadgeInv ==
  ASSUME LifecycleInv, NEW c \in Caller, lock = None, Returned(c),
         options' \in Options, options'.dry = options.dry \/ running = None,
         state' = state \/ (running = None /\ state' \in {"Ready", "Offline"}),
         UNCHANGED <<env, running, lock, loop, status, buys>>
  PROVE  LifecycleInv'
<1>1. call \in [Caller -> Call] /\ \A d \in Caller : call[d].pc \in {"idle", "queued"} /\ call[d].run = None
  BY FreeLock DEF LifecycleInv, TypeOK
<1>2. call' \in [Caller -> Call]
  BY <1>1 DEF Returned, Idle, Call, Age, Reason
<1>3. \A d \in Caller : call'[d].pc \in {"idle", "queued"} /\ call'[d].run = None
  BY <1>1 DEF Returned, Idle
<1>4. TypeOK'
  BY <1>2, <1>3 DEF LifecycleInv, TypeOK, LifecycleState
<1>5. OnlyTheKnownLoopGoesOn' /\ ModeIsKept'
  BY DEF LifecycleInv, OnlyTheKnownLoopGoesOn, ModeIsKept, Alive
<1>6. TradingMeansRunning'
  BY DEF LifecycleInv, TradingMeansRunning
<1>7. NothingIsLost'
  BY <1>1, <1>3 DEF LifecycleInv, NothingIsLost, Owned, TradingMeansRunning
<1>8. QED
  BY <1>4, <1>5, <1>6, <1>7 DEF LifecycleInv

\* A tick that finds no loop.
LEMMA TickIdleInv ==
  ASSUME LifecycleInv, TickIdle
  PROVE  LifecycleInv'
BY BadgeInv DEF TickIdle, Runs, IdleState, Caller, LifecycleInv, TypeOK

\* The options change under the lock.
LEMMA SetOptionsInv ==
  ASSUME LifecycleInv, NEW c \in Client, SetOptions(c)
  PROVE  LifecycleInv'
<1>1. PICK next \in Options :
        IF ModeRefused(next) THEN UNCHANGED <<options, state>>
        ELSE options' = next /\ state' = Badge(next.dry)
  BY DEF SetOptions
<1>2. options' \in Options /\ (options'.dry = options.dry \/ running = None)
  BY <1>1 DEF ModeRefused, LifecycleInv, TypeOK
<1>3. state' = state \/ (running = None /\ state' \in {"Ready", "Offline"})
  BY <1>1 DEF Badge, IdleState
<1>4. QED
  BY <1>2, <1>3, BadgeInv DEF SetOptions, Runs, Caller

\* A new loop, in a slot nobody refers to.
LEMMA StartInv ==
  ASSUME LifecycleInv, NEW c \in Client, Start(c)
  PROVE  LifecycleInv'
<1>1. PICK i \in Slot : /\ loop[i].pc = "none"
                        /\ loop' = [loop EXCEPT ![i] = [pc |-> "top", flag |-> TRUE, dry |-> options.dry,
                                                        exit |-> "Stopped"]]
                        /\ running' = i
  BY DEF Start
<1>2. c \in Caller /\ lock = None /\ running = None /\ call \in [Caller -> Call]
  BY DEF Start, Runs, Caller, LifecycleInv, TypeOK
<1>3. \A d \in Caller : call[d].pc \in {"idle", "queued"} /\ call[d].run = None
  BY <1>2, FreeLock
<1>4. call' \in [Caller -> Call] /\ \A d \in Caller : call'[d].pc \in {"idle", "queued"} /\ call'[d].run = None
  BY <1>2, <1>3 DEF Start, Returned, Idle, Call, Age, Reason
<1>5. loop \in [Slot -> Loop] /\ options \in Options
  BY DEF LifecycleInv, TypeOK
<1>6. loop' \in [Slot -> Loop] /\ loop'[i].pc = "top" /\ loop'[i].dry = options.dry
      /\ \A j \in Slot \ {i} : loop'[j] = loop[j]
  BY <1>1, <1>5 DEF Loop, Options, Exit
<1>7. i # None
  BY TraderLifecycleAssumption
<1>8. TypeOK'
  BY <1>1, <1>4, <1>6 DEF Start, LifecycleInv, TypeOK, LifecycleState
<1>9. OnlyTheKnownLoopGoesOn'
  BY <1>1, <1>2, <1>6, <1>7, TraderLifecycleAssumption DEF LifecycleInv, OnlyTheKnownLoopGoesOn, Alive
<1>10. ModeIsKept' /\ TradingMeansRunning'
  BY <1>1, <1>6, <1>7 DEF Start, ModeIsKept, TradingMeansRunning
<1>11. NothingIsLost'
  <2>1. \A j \in Slot : ~Cancels /\ loop[j].pc # "none" => FALSE
    BY <1>2, <1>3, TraderLifecycleAssumption DEF LifecycleInv, NothingIsLost, Owned
  <2>2. QED
    BY <1>1, <1>2, <1>6, <2>1 DEF Start, NothingIsLost, Owned
<1>12. QED
  BY <1>8, <1>9, <1>10, <1>11 DEF LifecycleInv

\* finish begins: the loop is told, and awaited by the new holder of the mutex.
LEMMA TakeRunningInv ==
  ASSUME LifecycleInv, NEW c \in Caller, NEW reason \in Reason, lock = None, TakeRunning(c, reason)
  PROVE  LifecycleInv'
<1>1. running # None /\ running \in Slot /\ loop[running].pc # "none" /\ loop \in [Slot -> Loop]
      /\ call \in [Caller -> Call] /\ call[c] \in Call
  BY DEF TakeRunning, LifecycleInv, TypeOK
<1>2. \A d \in Caller : call[d].pc \in {"idle", "queued"} /\ call[d].run = None
  BY FreeLock
<1>3. call' \in [Caller -> Call] /\ call'[c].pc = "join" /\ call'[c].run = running
      /\ \A d \in Caller \ {c} : call'[d] = call[d]
  BY <1>1 DEF TakeRunning, Call
<1>4. loop' \in [Slot -> Loop] /\ ~loop'[running].flag
      /\ \A i \in Slot : loop'[i].pc = loop[i].pc /\ (i # running => loop'[i] = loop[i])
  BY <1>1 DEF TakeRunning, Told, Loop
<1>5. c # None
  BY TraderLifecycleAssumption DEF Caller
<1>6. TypeOK'
  BY <1>1, <1>2, <1>3, <1>4 DEF TakeRunning, LifecycleInv, TypeOK, LifecycleState
<1>7. OnlyTheKnownLoopGoesOn' /\ ModeIsKept' /\ TradingMeansRunning'
  BY <1>1, <1>4 DEF TakeRunning, LifecycleInv, OnlyTheKnownLoopGoesOn, ModeIsKept, TradingMeansRunning, Alive
<1>8. NothingIsLost'
  BY <1>1, <1>2, <1>3, <1>4, <1>5 DEF TakeRunning, LifecycleInv, NothingIsLost, Owned
<1>9. QED
  BY <1>6, <1>7, <1>8 DEF LifecycleInv

\* A stop sets the loop's flag and waits, or finds nothing to stop.
LEMMA StopInv ==
  ASSUME LifecycleInv, NEW c \in Client, Stop(c)
  PROVE  LifecycleInv'
<1>1. c \in Caller /\ lock = None /\ call[c].pc = "queued" /\ "UserStop" \in Reason
  BY DEF Stop, Runs, Caller, Reason
<1>2. CASE TakeRunning(c, "UserStop")
  BY <1>1, <1>2, TakeRunningInv
<1>3. CASE Returned(c) /\ UNCHANGED <<env, options, state, running, lock, loop, status, buys>>
  BY <1>1, <1>3, ReturnInv
<1>4. QED
  BY <1>2, <1>3 DEF Stop

\* A tick of the monitor that finds a loop.
LEMMA TicksInv ==
  ASSUME LifecycleInv, Ticks
  PROVE  LifecycleInv'
<1>1. Monitor \in Caller /\ lock = None /\ call[Monitor].pc = "queued"
  BY DEF Ticks, TickIdle, TickExited, TickChecks, Runs, Caller
<1>2. CASE TickIdle
  BY <1>2, TickIdleInv
<1>3. CASE TickExited
  BY <1>1, <1>3, TakeRunningInv DEF TickExited, Reason
<1>4. CASE TickChecks
  <2>1. CASE StopTrigger(call[Monitor].age) = "none"
    BY <1>1, <1>4, <2>1, ReturnInv DEF TickChecks
  <2>2. CASE StopTrigger(call[Monitor].age) # "none"
    <3>1. StopTrigger(call[Monitor].age) \in Reason
      BY DEF StopTrigger, Reason, Exit
    <3>2. TakeRunning(Monitor, StopTrigger(call[Monitor].age))
      BY <1>4, <2>2 DEF TickChecks
    <3>3. QED
      BY <1>1, <3>1, <3>2, TakeRunningInv
  <2>3. QED
    BY <2>1, <2>2
<1>5. QED
  BY <1>2, <1>3, <1>4 DEF Ticks

\* The awaited loop is over: its slot is free again.
LEMMA JoinInv ==
  ASSUME LifecycleInv, NEW c \in Caller, Join(c)
  PROVE  LifecycleInv'
<1> DEFINE i == call[c].run
           reason == IF call[c].reason = "none" THEN loop[i].exit ELSE call[c].reason
<1>1. lock = c /\ call[c].pc = "join" /\ call[c] \in Call /\ call \in [Caller -> Call]
      /\ loop \in [Slot -> Loop] /\ c # None
  BY TraderLifecycleAssumption DEF Join, LifecycleInv, TypeOK, Caller
<1>2. \A d \in Caller \ {c} : call[d].pc \in {"idle", "queued"} /\ call[d].run = None
  BY <1>1 DEF LifecycleInv, TypeOK, Call
<1>3. call' = [call EXCEPT ![c].pc = IF Deletes(i, reason) THEN "delete" ELSE "record",
                           ![c].reason = "none", ![c].run = None]
  BY DEF Join
<1>4. call' \in [Caller -> Call]
  BY <1>1, <1>3 DEF Call, Reason
<1>5. call'[c].pc \in {"delete", "record"} /\ call'[c].run = None
      /\ \A d \in Caller \ {c} : call'[d] = call[d]
  BY <1>1, <1>3 DEF Call
<1>6. i # running \/ running = None
  BY <1>1 DEF LifecycleInv, TypeOK
<1>7. loop' = Dropped(i) /\ (i \in Slot => loop[i].pc = "over")
  BY DEF Join, Finished
<1>8. loop' \in [Slot -> Loop]
      /\ \A j \in Slot : loop'[j] = IF j = i THEN NoLoop ELSE loop[j]
  BY <1>1, <1>7 DEF Dropped, NoLoop, Loop, Exit
<1>9. status' \in {"invisible", "stuck"}
  <2>1. status' \in StatusAfter
    BY DEF Join
  <2>2. QED
    BY <2>1, Zenon DEF StatusAfter, Untouched
<1>10. TypeOK'
  BY <1>1, <1>2, <1>4, <1>5, <1>6, <1>8, <1>9 DEF Join, LifecycleInv, TypeOK
<1>11. OnlyTheKnownLoopGoesOn'
  BY <1>8 DEF Join, LifecycleInv, OnlyTheKnownLoopGoesOn, Alive, NoLoop
<1>12. ModeIsKept' /\ TradingMeansRunning'
  BY <1>6, <1>8 DEF Join, LifecycleInv, TypeOK, ModeIsKept, TradingMeansRunning
<1>13. NothingIsLost'
  BY <1>1, <1>2, <1>5, <1>8, <1>9, TraderLifecycleAssumption
  DEF Join, LifecycleInv, NothingIsLost, Owned, NoLoop
<1>14. QED
  BY <1>10, <1>11, <1>12, <1>13 DEF LifecycleInv

\* finish deletes the bids, or does not.
LEMMA DeleteBuysInv ==
  ASSUME LifecycleInv, NEW c \in Caller, DeleteBuys(c)
  PROVE  LifecycleInv'
<1>1. call[c].pc = "delete" /\ call \in [Caller -> Call] /\ call[c] \in Call
  BY DEF DeleteBuys, LifecycleInv, TypeOK
<1>2. call' \in [Caller -> Call] /\ call'[c].pc = "record" /\ call'[c].run = call[c].run
      /\ \A d \in Caller \ {c} : call'[d] = call[d]
  BY <1>1 DEF DeleteBuys, Call
<1>3. \A d \in Caller : /\ call'[d].run = call[d].run
                        /\ call[d].pc \in {"idle", "queued"} <=> call'[d].pc \in {"idle", "queued"}
                        /\ call[d].pc = "join" <=> call'[d].pc = "join"
  <2> TAKE d \in Caller
  <2>1. CASE d = c
    BY <1>1, <1>2, <2>1
  <2>2. CASE d # c
    <3>1. call'[d] = call[d]
      BY <1>2, <2>2
    <3>2. QED
      BY <3>1
  <2>3. QED
    BY <2>1, <2>2
<1>4. env' \in Env /\ buys' \in BOOLEAN
  BY DEF DeleteBuys, LifecycleInv, TypeOK
<1>5. QED
  BY <1>2, <1>3, <1>4, QuietInv DEF DeleteBuys

\* The holder of the mutex lets it go, at its end or because it is dropped, or
\* a caller that only queued is dropped.  A loop it awaited may stay alive.
LEMMA ReleaseInv ==
  ASSUME LifecycleInv, NEW c \in Caller, Returned(c),
         lock' = IF lock = c THEN None ELSE lock,
         loop' = Dropped(call[c].run),
         UNCHANGED <<env, options, running, status, buys>>,
         state' = state \/ (running = None /\ state' \in {"Ready", "Offline"} /\ call[c].pc = "record"),
         ~Cancels => call[c].pc = "record"
  PROVE  LifecycleInv'
<1> DEFINE i == call[c].run
<1>1. call[c] \in Call /\ call \in [Caller -> Call] /\ loop \in [Slot -> Loop] /\ c # None
  BY TraderLifecycleAssumption DEF LifecycleInv, TypeOK, Caller
<1>2. i # running \/ running = None
  BY <1>1 DEF LifecycleInv, TypeOK
<1>3. call' \in [Caller -> Call] /\ call'[c].pc = "idle" /\ call'[c].run = None
      /\ \A d \in Caller \ {c} : call'[d] = call[d]
  BY <1>1 DEF Returned, Idle, Call, Age, Reason
<1>4. loop' \in [Slot -> Loop]
      /\ \A j \in Slot : loop'[j] = loop[j] \/ (j = i /\ loop'[j] = NoLoop)
  BY <1>1 DEF Dropped, NoLoop, Loop, Exit
<1>5. \A d \in Caller \ {c} : call[d].run # None => call[d].run # i
  BY <1>1 DEF LifecycleInv, TypeOK
<1>6. \A d \in Caller \ {c} : call[d].pc \notin {"idle", "queued"} => lock' = d
  BY <1>1 DEF LifecycleInv, TypeOK
<1>7. TypeOK'
  <2>1. running # None => loop'[running].pc # "none"
    BY <1>2, <1>4 DEF LifecycleInv, TypeOK
  <2>2. \A d \in Caller : call'[d].run # None =>
          call'[d].pc = "join" /\ call'[d].run # running /\ loop'[call'[d].run].pc # "none"
    <3> TAKE d \in Caller
    <3>1. CASE d = c
      BY <1>3, <3>1
    <3>2. CASE d # c
      <4>1. call'[d] = call[d] /\ call[d] \in Call
        BY <1>1, <1>3, <3>2
      <4>2. QED
        BY <1>4, <1>5, <3>2, <4>1 DEF LifecycleInv, TypeOK, Call
    <3>3. QED
      BY <3>1, <3>2
  <2>3. \A d \in Caller : call'[d].pc \notin {"idle", "queued"} => lock' = d /\ running = None
    BY <1>3, <1>6 DEF LifecycleInv, TypeOK
  <2>4. QED
    BY <1>1, <1>3, <1>4, <2>1, <2>2, <2>3 DEF LifecycleInv, TypeOK, LifecycleState, Caller
<1>8. OnlyTheKnownLoopGoesOn'
  BY <1>4 DEF LifecycleInv, OnlyTheKnownLoopGoesOn, Alive, NoLoop
<1>9. ModeIsKept' /\ TradingMeansRunning'
  BY <1>2, <1>4 DEF LifecycleInv, TypeOK, ModeIsKept, TradingMeansRunning
<1>10. NothingIsLost'
  <2> SUFFICES ASSUME ~Cancels PROVE NothingIsLost'
    BY DEF NothingIsLost
  <2>1. call[c].pc = "record" /\ lock = c /\ lock' = None /\ i = None
    BY <1>1 DEF LifecycleInv, TypeOK
  <2>2. \A j \in Slot : loop'[j] = loop[j]
    BY <1>4, <2>1, TraderLifecycleAssumption
  <2>3. \A d \in Caller : call[d].pc # "join" /\ call[d].run = None
    BY <2>1 DEF LifecycleInv, TypeOK, Call
  <2>4. QED
    BY <2>1, <2>2, <2>3, TraderLifecycleAssumption
    DEF LifecycleInv, NothingIsLost, Owned, TradingMeansRunning
<1>11. QED
  BY <1>7, <1>8, <1>9, <1>10 DEF LifecycleInv

\* finish records how the loop ended.
LEMMA RecordInv ==
  ASSUME LifecycleInv, NEW c \in Caller, Record(c)
  PROVE  LifecycleInv'
<1>1. call[c].pc = "record" /\ lock = c /\ call[c].run = None /\ loop \in [Slot -> Loop]
  BY DEF Record, LifecycleInv, TypeOK
<1>2. loop' = Dropped(call[c].run)
  BY <1>1, TraderLifecycleAssumption DEF Record, Dropped
<1>3. running = None
  BY <1>1 DEF LifecycleInv, TypeOK
<1>4. QED
  BY <1>1, <1>2, <1>3, ReleaseInv DEF Record, IdleState

\* A client that goes leaves its command where it stands.
LEMMA CancelInv ==
  ASSUME LifecycleInv, NEW c \in Client, Cancel(c)
  PROVE  LifecycleInv'
BY ReleaseInv DEF Cancel, Caller

\* A loop moves on, from one live point to another.
LEMMA GoesInv ==
  ASSUME LifecycleInv, NEW i \in Slot, NEW pc \in {"top", "check", "sleep"}, Alive(i), Goes(i, pc)
  PROVE  LifecycleInv'
<1>1. loop \in [Slot -> Loop]
  BY DEF LifecycleInv, TypeOK
<1>2. loop' \in [Slot -> Loop]
      /\ \A j \in Slot : loop'[j].flag = loop[j].flag /\ loop'[j].dry = loop[j].dry
                         /\ (loop'[j].pc = loop[j].pc \/ (j = i /\ loop'[j].pc = pc))
  BY <1>1 DEF Goes, Loop
<1>3. TypeOK'
  BY <1>2 DEF Goes, LifecycleInv, TypeOK
<1>4. OnlyTheKnownLoopGoesOn'
  BY <1>2 DEF Goes, LifecycleInv, OnlyTheKnownLoopGoesOn, Alive
<1>5. ModeIsKept' /\ TradingMeansRunning'
  BY <1>2 DEF Goes, LifecycleInv, TypeOK, ModeIsKept, TradingMeansRunning
<1>6. NothingIsLost'
  BY <1>2 DEF Goes, Alive, LifecycleInv, NothingIsLost, Owned
<1>7. QED
  BY <1>3, <1>4, <1>5, <1>6 DEF LifecycleInv

\* A loop is over: its owner keeps its exit, and no owner keeps nothing.
LEMMA EndsInv ==
  ASSUME LifecycleInv, NEW i \in Slot, NEW flag \in BOOLEAN, NEW exit \in Exit, Ends(i, flag, exit)
  PROVE  LifecycleInv'
<1>1. loop \in [Slot -> Loop]
  BY DEF LifecycleInv, TypeOK
<1>2. loop' \in [Slot -> Loop]
      /\ (Owned(i) => loop'[i].pc = "over" /\ loop'[i].dry = loop[i].dry)
      /\ (~Owned(i) => loop'[i].pc = "none")
      /\ loop'[i].pc \in {"over", "none"}
      /\ \A j \in Slot \ {i} : loop'[j] = loop[j]
  BY <1>1 DEF Ends, Loop, NoLoop, Exit
<1>3. TypeOK'
  BY <1>2 DEF Ends, Owned, LifecycleInv, TypeOK
<1>4. OnlyTheKnownLoopGoesOn'
  <2>1. running' = running
    BY DEF Ends
  <2>2. ASSUME NEW j \in Slot, Alive(j)', loop'[j].flag PROVE j = running
    <3>1. j # i
      BY <1>2, <2>2 DEF Alive
    <3>2. loop'[j] = loop[j]
      BY <1>2, <3>1
    <3>3. QED
      BY <2>2, <3>2 DEF LifecycleInv, OnlyTheKnownLoopGoesOn, Alive
  <2>3. QED
    BY <2>1, <2>2 DEF OnlyTheKnownLoopGoesOn
<1>5. ModeIsKept' /\ TradingMeansRunning'
  BY <1>2 DEF Ends, Owned, LifecycleInv, TypeOK, ModeIsKept, TradingMeansRunning
<1>6. NothingIsLost'
  <2>1. \A j \in Slot : Owned(j)' <=> Owned(j)
    BY DEF Ends, Owned
  <2>2. \A j \in Slot : ~Cancels /\ loop'[j].pc # "none" => Owned(j)
    <3> TAKE j \in Slot
    <3>1. CASE j = i
      BY <1>2, <3>1 DEF Owned
    <3>2. CASE j # i
      <4>1. loop'[j] = loop[j]
        BY <1>2, <3>2
      <4>2. QED
        BY <4>1 DEF LifecycleInv, NothingIsLost
    <3>3. QED
      BY <3>1, <3>2
  <2>3. QED
    BY <2>1, <2>2 DEF Ends, LifecycleInv, NothingIsLost
<1>7. QED
  BY <1>3, <1>4, <1>5, <1>6 DEF LifecycleInv

\* A loop's turns.
LEMMA CyclesInv ==
  ASSUME LifecycleInv, NEW i \in Slot, Cycles(i)
  PROVE  LifecycleInv'
<1>1. CASE \E pc \in {"top", "check", "sleep"} : Alive(i) /\ Goes(i, pc)
  BY <1>1, GoesInv
<1>2. CASE \E flag \in BOOLEAN, exit \in Exit : Ends(i, flag, exit)
  BY <1>2, EndsInv
<1>3. CASE Top(i)
  <2>1. CASE \E exit \in Exit : Exits(i, exit)
    BY <1>2, <2>1 DEF Exits
  <2>2. CASE Goes(i, "check")
    BY <1>1, <1>3, <2>2 DEF Top, Alive
  <2>3. QED
    BY <1>3, <2>1, <2>2 DEF Top, Exit
<1>4. CASE WakesUp(i)
  BY <1>1, <1>4 DEF WakesUp, Alive
<1>5. CASE Panics(i)
  BY <1>2, <1>5 DEF Panics, Exit, LifecycleInv, TypeOK, Loop
<1>6. CASE \E result \in Cycle, failing \in BOOLEAN : Checked(i, result, failing)
  <2>1. CASE \E exit \in Exit : Exits(i, exit)
    BY <1>2, <2>1 DEF Exits
  <2>2. CASE Alive(i) /\ Goes(i, "sleep")
    BY <1>1, <2>2
  <2>3. QED
    BY <1>6, <2>1, <2>2 DEF Checked, Exit, Alive
<1>7. QED
  BY <1>3, <1>4, <1>5, <1>6 DEF Cycles

\* A live loop posts and deletes bids.
LEMMA BuyInv ==
  ASSUME LifecycleInv, NEW i \in Slot, WriteBids(i)
  PROVE  LifecycleInv'
<1>1. env' \in Env /\ buys' \in BOOLEAN /\ call' \in [Caller -> Call]
  BY DEF WriteBids, LifecycleInv, TypeOK
<1>2. QED
  BY <1>1, QuietInv DEF WriteBids

\* Every step keeps the invariant.
LEMMA NextInv == LifecycleInv /\ [Next]_vars => LifecycleInv'
<1> SUFFICES ASSUME LifecycleInv, [Next]_vars PROVE LifecycleInv'
  OBVIOUS
<1>1. ASSUME NEW c \in Client, Command(c) PROVE LifecycleInv'
  BY <1>1, BeginInv DEF Command, Caller
<1>2. ASSUME NEW c \in Client, StartRefused(c) PROVE LifecycleInv'
  BY <1>2, ReturnInv DEF StartRefused, Runs, Caller
<1>3. ASSUME NEW c \in Client, Start(c) \/ Stop(c) \/ SetOptions(c) \/ Cancel(c) PROVE LifecycleInv'
  BY <1>3, StartInv, StopInv, SetOptionsInv, CancelInv
<1>4. CASE Tick
  BY <1>4, BeginInv DEF Tick, Caller
<1>5. CASE Ticks
  BY <1>5, TicksInv
<1>6. ASSUME NEW c \in Caller, Finishes(c) PROVE LifecycleInv'
  BY <1>6, JoinInv, DeleteBuysInv, RecordInv DEF Finishes
<1>7. ASSUME NEW i \in Slot, Cycles(i) \/ WriteBids(i) PROVE LifecycleInv'
  BY <1>7, CyclesInv, BuyInv
<1>8. CASE World
  BY <1>8, WorldInv
<1>9. CASE UNCHANGED vars
  <2>1. env' \in Env /\ buys' \in BOOLEAN /\ call' \in [Caller -> Call]
    BY <1>9 DEF vars, LifecycleInv, TypeOK
  <2>2. QED
    BY <1>9, <2>1, QuietInv DEF vars
<1>10. QED
  BY <1>1, <1>2, <1>3, <1>4, <1>5, <1>6, <1>7, <1>8, <1>9 DEF Next

\* The inductive invariant, for any number of clients and loops: commands and
\* ticks of TraderController and the cycles of run_loop, in any order.
THEOREM LifecycleInvariance == Spec => []LifecycleInv
<1>1. Init => LifecycleInv
  BY InitInv
<1>2. LifecycleInv /\ [Next]_vars => LifecycleInv'
  BY NextInv
<1>3. QED
  BY <1>1, <1>2, PTL DEF Spec

\* The state of TraderController is well formed: a loop is awaited by at most
\* one finish, the one that holds the mutex, and is then not the running one.
THEOREM LifecycleTypes == Spec => []TypeOK
BY LifecycleInvariance, PTL DEF LifecycleInv

\* Two loops never both go on trading, dropped commands or not (finish clears
\* the flag before its first wait).
THEOREM OneLoopGoesOn == Spec => []OnlyTheKnownLoopGoesOn
BY LifecycleInvariance, PTL DEF LifecycleInv

\* The mode that set_options and the panel show is the mode of the running loop.
THEOREM ModeIsKeptHolds == Spec => []ModeIsKept
BY LifecycleInvariance, PTL DEF LifecycleInv

\* The Trading badge says that a loop runs, through every command and tick.
THEOREM BadgeIsTrue == Spec => []TradingMeansRunning
BY LifecycleInvariance, PTL DEF LifecycleInv

\* As long as no command is dropped at a wait, finish has stopped the loop
\* before the trader is Ready or Offline again.
THEOREM StopIsComplete ==
  ASSUME ~Cancels
  PROVE  Spec => []IdleMeansLoopOver
<1>1. LifecycleInv => IdleMeansLoopOver
  <2> SUFFICES ASSUME LifecycleInv, state \in {"Ready", "Offline"}, NEW i \in Slot
               PROVE  loop[i].pc = "none"
    BY DEF IdleMeansLoopOver
  <2>1. running = None /\ lock = None
    BY DEF LifecycleInv, TradingMeansRunning, NothingIsLost
  <2>2. ~Owned(i)
    BY <2>1, FreeLock, TraderLifecycleAssumption DEF Owned
  <2>3. QED
    BY <2>2 DEF LifecycleInv, NothingIsLost
<1>2. QED
  BY <1>1, LifecycleInvariance, PTL

\* As long as no command is dropped at a wait, an idle trader is shown as ingame only when
\* finish tried to set it invisible and that failed: no way to stop forgets the status.
THEOREM StopIsSeen ==
  ASSUME ~Cancels
  PROVE  Spec => []IdleMeansInvisible
<1>1. LifecycleInv => IdleMeansInvisible
  <2> SUFFICES ASSUME LifecycleInv, state \in {"Ready", "Offline"} PROVE status # "ingame"
    BY DEF IdleMeansInvisible
  <2>1. lock = None
    BY DEF LifecycleInv, NothingIsLost
  <2>2. QED
    BY <2>1, FreeLock DEF LifecycleInv, NothingIsLost, TypeOK
<1>2. QED
  BY <1>1, LifecycleInvariance, PTL

\* As long as no command is dropped at a wait, finish is through before the trader is Ready or
\* Offline: its loop is over and the status set, unless setting it failed.
THEOREM StopIsDone ==
  ASSUME ~Cancels
  PROVE  Spec => []IdleMeansStopped
BY StopIsComplete, StopIsSeen, PTL DEF IdleMeansStopped

----------------------------------------------------------------------------
(* The buy orders a stop deletes.                                          *)

\* A step that enters neither wait, and keeps the options and the mode of awaited loops.
LEMMA StopsKept ==
  ASSUME LifecycleInv, StopKnowsItsRun,
         UNCHANGED options \/ \A c \in Caller : call[c].pc \notin {"join", "delete"},
         \A c \in Caller : call'[c].pc \in {"join", "delete"} =>
           call[c].pc = call'[c].pc /\ call[c].run = call'[c].run,
         \A c \in Caller : call[c].pc = "join" /\ call'[c].pc = "join" =>
           loop'[call[c].run].dry = loop[call[c].run].dry
  PROVE  StopKnowsItsRun'
  BY DEF StopKnowsItsRun

\* While the mutex is free no stop is under way.
LEMMA NoStopUnderWay ==
  ASSUME LifecycleInv, lock = None, NEW c \in Caller
  PROVE  call[c].pc \in {"idle", "queued"}
  BY TraderLifecycleAssumption DEF LifecycleInv, TypeOK, Caller

\* What is known of stops: finish takes the running loop.
LEMMA TakeRunningKnows ==
  ASSUME LifecycleInv, StopKnowsItsRun, lock = None, NEW c \in Caller, NEW reason \in Reason,
         TakeRunning(c, reason)
  PROVE  StopKnowsItsRun'
<1>1. running \in Slot /\ loop[running].dry = options.dry /\ loop \in [Slot -> Loop]
      /\ call \in [Caller -> Call]
  BY DEF TakeRunning, LifecycleInv, TypeOK, ModeIsKept
<1>2. call'[c].pc = "join" /\ call'[c].run = running /\ \A d \in Caller \ {c} : call'[d] = call[d]
  BY <1>1 DEF TakeRunning, Call
<1>3. loop'[running].dry = loop[running].dry
  BY <1>1 DEF TakeRunning, Told, Loop
<1>4. \A d \in Caller \ {c} : call[d].pc \notin {"join", "delete"}
  BY NoStopUnderWay
<1>5. UNCHANGED options
  BY DEF TakeRunning
<1>6. QED
  BY <1>1, <1>2, <1>3, <1>4, <1>5 DEF StopKnowsItsRun

\* The steps of a command or a tick that holds the free mutex for a moment.
LEMMA CommandsKnow ==
  ASSUME LifecycleInv, StopKnowsItsRun,
         \/ \E c \in Client : Command(c) \/ StartRefused(c) \/ Start(c) \/ Stop(c) \/ SetOptions(c)
         \/ Tick \/ Ticks
  PROVE  StopKnowsItsRun'
<1>1. call \in [Caller -> Call] /\ loop \in [Slot -> Loop]
  BY DEF LifecycleInv, TypeOK
<1>2. ASSUME NEW c \in Caller, NEW op, Begin(c, op) PROVE StopKnowsItsRun'
  <2>1. call'[c].pc = "queued" /\ \A d \in Caller \ {c} : call'[d] = call[d]
    BY <1>1, <1>2 DEF Begin, Call
  <2>2. UNCHANGED <<options, loop>>
    BY <1>2 DEF Begin
  <2>3. QED
    BY <2>1, <2>2 DEF StopKnowsItsRun
<1>3. ASSUME NEW c \in Caller, lock = None, Returned(c) PROVE StopKnowsItsRun'
  <2>1. \A d \in Caller : call'[d].pc \in {"idle", "queued"}
    BY <1>1, <1>3, NoStopUnderWay DEF Returned, Idle
  <2>2. QED
    BY <2>1 DEF StopKnowsItsRun
<1>4. CASE \E c \in Client : Command(c)
  BY <1>2, <1>4 DEF Command, Caller
<1>5. CASE \E c \in Client : StartRefused(c) \/ Start(c) \/ SetOptions(c)
  BY <1>3, <1>5 DEF StartRefused, Start, SetOptions, Runs, Caller
<1>6. CASE \E c \in Client : Stop(c)
  <2>1. PICK c \in Client : Stop(c)
    BY <1>6
  <2>2. lock = None /\ c \in Caller /\ "UserStop" \in Reason
    BY <2>1 DEF Stop, Runs, Caller, Reason
  <2>3. QED
    BY <1>3, <2>1, <2>2, TakeRunningKnows DEF Stop
<1>7. CASE Tick
  BY <1>2, <1>7 DEF Tick, Caller
<1>8. CASE Ticks
  <2>1. lock = None /\ Monitor \in Caller
    BY <1>8 DEF Ticks, TickIdle, TickExited, TickChecks, Runs, Caller
  <2>2. "none" \in Reason /\ StopTrigger(call[Monitor].age) \in Reason
    BY DEF StopTrigger, Reason, Exit
  <2>3. Returned(Monitor) \/ \E reason \in Reason : TakeRunning(Monitor, reason)
    BY <1>8, <2>2 DEF Ticks, TickIdle, TickExited, TickChecks
  <2>4. QED
    BY <1>3, <2>1, <2>3, TakeRunningKnows
<1>9. QED
  BY <1>4, <1>5, <1>6, <1>7, <1>8

\* The waits of finish: a live run's orders are deleted, no other's.
LEMMA FinishesKnow ==
  ASSUME LifecycleInv, StopKnowsItsRun, NEW c \in Caller, Finishes(c) \/ Cancel(c)
  PROVE  StopKnowsItsRun'
<1>1. call \in [Caller -> Call] /\ loop \in [Slot -> Loop] /\ call[c] \in Call /\ UNCHANGED options
  BY DEF LifecycleInv, TypeOK, Finishes, Join, DeleteBuys, Record, Cancel
<1>2. \A d \in Caller \ {c} : call'[d] = call[d]
  BY <1>1 DEF Finishes, Join, DeleteBuys, Record, Cancel, Returned
<1>3. \A d \in Caller \ {c} : call[d].pc = "join" => call[c].pc \in {"idle", "queued"}
  BY DEF LifecycleInv, TypeOK
<1>4. CASE Join(c)
  <2> DEFINE i == call[c].run
             reason == IF call[c].reason = "none" THEN loop[i].exit ELSE call[c].reason
  <2>1. call[c].pc = "join" /\ loop[i].dry = options.dry
    BY <1>4 DEF Join, StopKnowsItsRun
  <2>2. call'[c].pc = (IF Deletes(i, reason) THEN "delete" ELSE "record")
    BY <1>1, <1>4 DEF Join, Call
  <2>3. call'[c].pc = "delete" => options.deleteBuys /\ ~options.dry
    BY <2>1, <2>2 DEF Deletes
  <2>4. \A d \in Caller \ {c} : call'[d].pc # "join"
    BY <1>2, <1>3, <2>1
  <2>5. call'[c].pc # "join"
    BY <2>2
  <2>6. QED
    BY <1>1, <1>2, <2>3, <2>4, <2>5 DEF StopKnowsItsRun
<1>5. CASE DeleteBuys(c) \/ Record(c)
  <2>1. UNCHANGED loop
    BY <1>5 DEF DeleteBuys, Record
  <2>2. CASE DeleteBuys(c)
    <3>1. call'[c].pc = "record"
      BY <1>1, <2>2 DEF DeleteBuys
    <3>2. QED
      BY <1>1, <1>2, <2>1, <3>1 DEF StopKnowsItsRun
  <2>3. CASE Record(c)
    <3>1. call'[c].pc = "idle"
      BY <1>1, <2>3 DEF Record, Returned, Idle
    <3>2. QED
      BY <1>1, <1>2, <2>1, <3>1 DEF StopKnowsItsRun
  <2>4. QED
    BY <1>5, <2>2, <2>3
<1>6. CASE Cancel(c)
  <2>1. call'[c].pc = "idle"
    BY <1>1, <1>6 DEF Cancel, Returned, Idle
  <2>2. \A d \in Caller \ {c} : call[d].pc = "join" => call[c].run = None
    BY <1>1, <1>3, Queued
  <2>3. \A d \in Caller \ {c} : call[d].pc = "join" => loop'[call[d].run] = loop[call[d].run]
    BY <1>1, <1>6, <2>2, TraderLifecycleAssumption DEF Cancel, Dropped, StopKnowsItsRun
  <2>4. QED
    BY <1>1, <1>2, <2>1, <2>3 DEF StopKnowsItsRun
<1>7. QED
  BY <1>4, <1>5, <1>6 DEF Finishes

\* A loop never changes its mode, and what is left of an awaited one tells it.
LEMMA LoopsKnow ==
  ASSUME LifecycleInv, StopKnowsItsRun, NEW i \in Slot, Cycles(i) \/ WriteBids(i)
  PROVE  StopKnowsItsRun'
<1>1. loop \in [Slot -> Loop] /\ UNCHANGED <<options, call>>
  BY DEF LifecycleInv, TypeOK, Cycles, Top, WakesUp, Panics, Checked, Exits, Ends, Goes, WriteBids
<1>2. \/ UNCHANGED loop
      \/ \E pc \in {"top", "check", "sleep"} : Goes(i, pc)
      \/ \E flag \in BOOLEAN, exit \in Exit : Ends(i, flag, exit)
  BY <1>1 DEF Cycles, Top, WakesUp, Panics, Checked, Exits, Exit, WriteBids, Loop
<1>3. \A c \in Caller : call[c].pc = "join" => loop'[call[c].run].dry = loop[call[c].run].dry
  <2> TAKE c \in Caller
  <2>1. CASE UNCHANGED loop \/ \E pc \in {"top", "check", "sleep"} : Goes(i, pc)
    BY <1>1, <2>1 DEF Goes, Loop, StopKnowsItsRun
  <2>2. CASE \E flag \in BOOLEAN, exit \in Exit : Ends(i, flag, exit)
    BY <1>1, <2>2 DEF Ends, Owned, Loop, StopKnowsItsRun
  <2>3. QED
    BY <1>2, <2>1, <2>2
<1>4. QED
  BY <1>1, <1>3 DEF StopKnowsItsRun

\* What is known of stops: the world around changes.
LEMMA WorldKnows ==
  ASSUME LifecycleInv, StopKnowsItsRun, World \/ UNCHANGED vars
  PROVE  StopKnowsItsRun'
<1>1. UNCHANGED <<options, loop>>
  BY DEF World, Heartbeat, HelperAges, SessionChanges, BreakerChanges, SettingChanges, Becomes, vars
<1>2. \A c \in Caller : call'[c].pc = call[c].pc /\ call'[c].run = call[c].run
  <2>1. CASE Heartbeat
    BY <2>1 DEF Heartbeat, LifecycleInv, TypeOK, Call
  <2>2. CASE UNCHANGED call
    BY <2>2
  <2>3. QED
    BY <2>1, <2>2 DEF World, HelperAges, SessionChanges, BreakerChanges, SettingChanges, Becomes, vars
<1>3. QED
  BY <1>1, <1>2 DEF StopKnowsItsRun

\* What is known of stops: every step keeps it.
LEMMA NextKnows ==
  ASSUME LifecycleInv, StopKnowsItsRun, [Next]_vars
  PROVE  StopKnowsItsRun'
<1>1. \A c \in Client : c \in Caller
  BY DEF Caller
<1>2. QED
  BY <1>1, CommandsKnow, FinishesKnow, LoopsKnow, WorldKnows DEF Next

\* Only a live cycle and DeleteBuys take buy orders off the market.
LEMMA BuysLeave ==
  ASSUME StopKnowsItsRun, [Next]_vars, buys, ~buys'
  PROVE  \/ UNCHANGED <<call, loop>> /\ \E i \in Slot : LiveCycle(i)
         \/ options.deleteBuys /\ ~options.dry /\ \E c \in Caller : call[c].pc = "delete"
<1>1. CASE \E c \in Caller : DeleteBuys(c)
  BY <1>1 DEF DeleteBuys, StopKnowsItsRun
<1>2. CASE \E i \in Slot : WriteBids(i)
  <2>1. PICK i \in Slot : WriteBids(i)
    BY <1>2
  <2>2. LiveCycle(i) /\ UNCHANGED <<call, loop>>
    BY <2>1, Zenon DEF WriteBids
  <2>3. QED
    BY <2>2, Zenon
<1>3. CASE ~(\E c \in Caller : DeleteBuys(c)) /\ ~(\E i \in Slot : WriteBids(i))
  BY <1>3 DEF Next, Command, Begin, StartRefused, Start, Stop, TakeRunning, SetOptions, Cancel,
     Tick, Ticks, TickIdle, TickExited, TickChecks, Finishes, Join, Record, Cycles, Top, WakesUp,
     Panics, Checked, Exits, Ends, Goes, World, Heartbeat, HelperAges, SessionChanges,
     BreakerChanges, SettingChanges, Becomes, vars
<1>4. QED
  BY <1>1, <1>2, <1>3

\* Whatever commands are dropped where, a dry run, its stop, and the stop of a live run whose
\* option is off leave the real buy orders on the market.
THEOREM BuysOutliveDryRunsHolds == Spec => BuysOutliveDryRuns
<1>1. Init => StopKnowsItsRun
  BY DEF Init, StopKnowsItsRun, Idle
<1>2. LifecycleInv /\ StopKnowsItsRun /\ [Next]_vars => StopKnowsItsRun'
  BY NextKnows
<1>3. LifecycleInv /\ StopKnowsItsRun /\ [Next]_vars
        => [buys /\ ~buys' =>
              \/ UNCHANGED <<call, loop>> /\ \E i \in Slot : LiveCycle(i)
              \/ options.deleteBuys /\ ~options.dry /\ \E c \in Caller : call[c].pc = "delete"]_vars
  BY BuysLeave
<1>4. QED
  BY <1>1, <1>2, <1>3, LifecycleInvariance, PTL DEF Spec, BuysOutliveDryRuns
-----------------------------------------------------------------------------
(* The prices of a book.                                                     *)

\* A finite set of integers that is not empty has a least and a greatest one.
LEMMA FiniteHasBounds ==
  ASSUME NEW T \in SUBSET Int, IsFiniteSet(T), T # {}
  PROVE  \E l, g \in T : \A y \in T : l <= y /\ y <= g
<1> DEFINE Bounded(Q) == \E l, g \in Q : \A y \in Q : l <= y /\ y <= g
           Bad == {n \in Nat : \E Q \in SUBSET Int :
                     IsFiniteSet(Q) /\ Q # {} /\ Cardinality(Q) = n /\ ~Bounded(Q)}
           Lt == OpToRel(<, Nat)
<1> SUFFICES ASSUME Bad # {} PROVE FALSE
  BY FS_CardinalityType DEF Bad
<1>1. IsWellFoundedOn(Lt, Nat)
  BY NatLessThanWellFounded, Zenon
<1>2. ASSUME NEW x \in Nat, NEW y \in Nat, x < y
      PROVE  <<x, y>> \in Lt
  <2>1. <<x, y>> \in Nat \X Nat /\ <<x, y>>[1] = x /\ <<x, y>>[2] = y
    OBVIOUS
  <2> QED BY <1>2, <2>1, Zenon DEF OpToRel
<1> HIDE DEF Lt
<1>3. Bad \subseteq Nat
  BY DEF Bad
<1> HIDE DEF Bad
<1>4. PICK n \in Bad : \A m \in Bad : ~(<<m, n>> \in Lt)
  BY <1>1, <1>3, WFMin
<1>5. \A m \in Bad : ~(m < n)
  BY <1>2, <1>3, <1>4
<1>6. PICK Q \in SUBSET Int : IsFiniteSet(Q) /\ Q # {} /\ Cardinality(Q) = n /\ ~Bounded(Q)
  BY DEF Bad
<1>7. PICK x \in Q : TRUE
  BY <1>6
<1> DEFINE W == Q \ {x}
<1>8. IsFiniteSet(W) /\ Cardinality(W) = n - 1
  BY <1>6, <1>7, FS_RemoveElement
<1>9. W = {} \/ Bounded(W)
  <2>1. Cardinality(W) \in Nat /\ n \in Nat
    BY <1>3, <1>8, FS_CardinalityType
  <2>2. n - 1 \notin Bad
    BY <1>5, <1>8, <2>1
  <2>3. W \in SUBSET Int
    OBVIOUS
  <2> QED BY <1>8, <2>1, <2>2, <2>3 DEF Bad
<1>10. CASE W = {}
  BY <1>6, <1>7, <1>10
<1>11. CASE Bounded(W)
  <2>1. PICK l, g \in W : \A y \in W : l <= y /\ y <= g
    BY <1>11
  <2>2. \E a, b \in Q : \A y \in W \cup {x} : a <= y /\ y <= b
    <3>1. l \in Int /\ g \in Int /\ x \in Int /\ l \in Q /\ g \in Q
      BY <1>6, <1>7
    <3>2. CASE x < l
      BY <1>7, <2>1, <3>1, <3>2
    <3>3. CASE x > g
      BY <1>7, <2>1, <3>1, <3>3
    <3>4. CASE ~(x < l) /\ ~(x > g)
      BY <1>7, <2>1, <3>1, <3>4
    <3> QED BY <3>2, <3>3, <3>4
  <2>3. W \cup {x} = Q
    BY <1>7
  <2> QED BY <1>6, <2>2, <2>3
<1> QED
  BY <1>9, <1>10, <1>11

\* The best prices of a book are its own, or 0.
LEMMA BestPrices ==
  ASSUME NEW prices \in Seq(Int)
  PROVE  P!lowest_price(prices) \in Int /\ P!highest_price(prices) \in Int
<1> DEFINE T == {prices[n] : n \in DOMAIN prices}
<1>1. P!ToSet(prices) = T
  BY DEF P!ToSet
<1>2. CASE prices = <<>>
  BY <1>2 DEF P!lowest_price, P!highest_price
<1>3. CASE prices # <<>>
  <2>1. T \in SUBSET Int /\ T # {}
    BY <1>3
  <2>2. IsFiniteSet(T)
    <3>1. IsFiniteSet(1..Len(prices)) /\ DOMAIN prices = 1..Len(prices)
      BY FS_Interval
    <3>2. prices \in Surjection(1..Len(prices), T)
      BY <3>1 DEF Surjection
    <3> QED BY <3>1, <3>2, FS_Surjection
  <2>3. PICK l, g \in T : \A y \in T : l <= y /\ y <= g
    BY <2>1, <2>2, FiniteHasBounds
  <2> HIDE DEF T
  <2>4. P!Min(T) \in T /\ P!Max(T) \in T
    BY <2>1, <2>3 DEF P!Min, P!Max
  <2> QED BY <1>1, <1>3, <2>1, <2>4 DEF P!lowest_price, P!highest_price
<1> QED
  BY <1>2, <1>3

\* A sale's price after the rules, for a question of the right shape.
LEMMA SalesAreRight ==
  ASSUME NEW q \in Sales,
         NEW a, a = P!progress_selling(q.settings, q.key, q.row, q.moving_avg, q.book, q.order),
         a.order.act = "post"
  PROVE  /\ a.order.price >= 1
         /\ q.row.min_price # P!None => a.order.price >= q.row.min_price[1]
         /\ LET profit == P!SaleFields(q.row, q.settings).min_profit
            IN  ~P!is_disabled(profit) => a.order.price >= q.row.bought + profit
<1> DEFINE current == IF q.order = P!None THEN 0 ELSE q.order[1].price
           lowest == IF Len(q.book.sell) >= 2 THEN P!lowest_price(q.book.sell) ELSE 0
           floor == IF q.row.min_price = P!None THEN lowest ELSE P!Larger(lowest, q.row.min_price[1])
           held == P!Held(q.settings.wts, current, floor, q.book.sell, "sell")
           avg == P!unwrap_or(q.moving_avg, 0)
           p == P!SalePrice(q.row, q.settings, avg, lowest, held)
           f == P!SaleFields(q.row, q.settings)
<1>1. a.order.price = P!Larger(p.price, 1)
  BY DEF P!progress_selling, P!Leave, P!Delete, P!Post
<1>2. current \in Int /\ lowest \in Int /\ avg \in Int /\ q.row.bought \in Int
  BY QuestionsAssumption, BestPrices DEF IsOption, Nothing, P!None, P!unwrap_or
<1>3. f.min_profit \in Int /\ f.min_sma \in Int
  BY QuestionsAssumption DEF IsOption, Nothing, P!None, P!unwrap_or, P!SaleFields
<1>4. floor \in Int /\ (q.row.min_price # P!None => q.row.min_price[1] \in Int /\ floor >= q.row.min_price[1])
  BY <1>2, QuestionsAssumption DEF IsOption, Nothing, P!None, P!Larger
<1> HIDE DEF current, lowest, floor, avg, f
<1>5. held \in Int /\ held >= floor
  BY <1>2, <1>4 DEF P!Held, P!should_apply_max_price_drop
<1> HIDE DEF held
<1>6. /\ p.price \in Int /\ p.price >= held
      /\ ~P!is_disabled(f.min_profit) => p.price >= q.row.bought + f.min_profit
  BY <1>2, <1>3, <1>5 DEF P!SalePrice, P!is_disabled, f
<1> HIDE DEF p
<1> QED
  BY <1>1, <1>2, <1>3, <1>4, <1>5, <1>6 DEF P!Larger, f

\* A bid's price after the rules.
LEMMA BidsAreRight ==
  ASSUME NEW q \in Bids,
         NEW a, a = P!progress_buying(q.settings, q.key, q.moving_avg, q.book, q.order, q.owned, q.bids),
         a.act = "post"
  PROVE  LET max_price == P!get_item_max_price(q.settings.general, q.key.wfm)
             cap == q.settings.wtb.avg_price_cap
         IN  /\ a.price >= 1
             /\ max_price > 0 => a.price <= max_price
             /\ ~P!is_disabled(cap) => a.price <= P!Larger(cap, 1)
             /\ a.price <= P!Larger(P!unwrap_or(q.moving_avg, 0), 1)
<1> DEFINE current == IF q.order = P!None THEN 0 ELSE q.order[1].price
           offered == P!Held(q.settings.wtb, current, P!highest_price(q.book.buy), q.book.buy, "buy")
           avg == P!unwrap_or(q.moving_avg, 0)
           max_price == P!get_item_max_price(q.settings.general, q.key.wfm)
           capped == IF max_price > 0 /\ offered > max_price THEN max_price ELSE offered
           cap == q.settings.wtb.avg_price_cap
<1>1. current \in Int /\ avg \in Int /\ cap \in Int
  BY QuestionsAssumption DEF IsOption, Nothing, P!None, P!unwrap_or
<1>2. offered \in Int
  BY <1>1, QuestionsAssumption, BestPrices DEF P!Held
<1>3. max_price \in Int
  <2> DEFINE listed == {b \in q.settings.general.buy_list : b.wfm = q.key.wfm}
  <2>1. CASE listed = {}
    BY <2>1 DEF P!get_item_max_price
  <2>2. CASE listed # {}
    <3>1. (CHOOSE b \in listed : TRUE) \in listed
      BY <2>2
    <3>2. \A b \in listed : b.max_price \in Int
      BY QuestionsAssumption
    <3> QED BY <2>2, <3>1, <3>2 DEF P!get_item_max_price
  <2> QED BY <2>1, <2>2
<1>4. /\ a.price = P!Larger(capped, 1)
      /\ ~(~P!is_disabled(cap) /\ capped > cap)
      /\ ~(avg - offered < 0)
  BY DEF P!progress_buying, P!Leave, P!Delete, P!Post
<1> HIDE DEF current, offered, avg, max_price, cap
<1>5. capped \in Int /\ capped <= avg /\ (max_price > 0 => capped <= max_price)
  BY <1>1, <1>2, <1>3, <1>4
<1> HIDE DEF capped
<1> QED
  BY <1>1, <1>3, <1>4, <1>5 DEF P!Larger, P!is_disabled, max_price, cap, avg

\* The rules' questions are of their kinds.
LEMMA RulesInit ==
  ASSUME P!RulesInit
  PROVE  P!RulesInv
BY DEF P!RulesInit, P!RulesInv

\* An answer is the rule's.
LEMMA RulesNext ==
  ASSUME P!RulesInv, P!RulesNext
  PROVE  P!RulesInv'
BY DEF P!RulesNext, P!RulesInv, P!Ask, P!AskSale, P!AskBid, P!AskWish, P!AskFit, P!AskRank

\* A rule's answer keeps the floors and the caps.
LEMMA PricesAreKept ==
  ASSUME P!RulesInv
  PROVE  P!SalesKeepTheirFloors /\ P!BidsKeepTheirCaps
<1>1. P!SalesKeepTheirFloors
  <2> SUFFICES ASSUME P!Answered("sale"), y3[2].order.act = "post"
               PROVE  P!SalesKeepTheirFloors
    BY DEF P!SalesKeepTheirFloors
  <2>1. y1 \in Sales /\ y3[2] = P!SaleOf(y1)
    BY DEF P!Answered, P!RulesInv
  <2> QED BY <2>1, SalesAreRight DEF P!SalesKeepTheirFloors, P!SaleOf
<1>2. P!BidsKeepTheirCaps
  <2> SUFFICES ASSUME P!Answered("bid"), y3[2].act = "post"
               PROVE  P!BidsKeepTheirCaps
    BY DEF P!BidsKeepTheirCaps
  <2>1. y1 \in Bids /\ y3[2] = P!BidOf(y1)
    BY DEF P!Answered, P!RulesInv
  <2> QED BY <2>1, BidsAreRight DEF P!BidsKeepTheirCaps, P!BidOf
<1> QED
  BY <1>1, <1>2

-----------------------------------------------------------------------------
(* The desk: what a request has booked.                                      *)

\* Which handlers there are, one by one.
LEMMA HandlersAre ==
  /\ D!Handlers = {[op |-> "create", list |-> "stock", side |-> "buy", flags |-> {}],
                   [op |-> "sell", list |-> "stock", side |-> "sell", flags |-> {}],
                   [op |-> "wish_create", list |-> "wish", side |-> "sell", flags |-> {}],
                   [op |-> "wish_bought", list |-> "wish", side |-> "buy", flags |-> {}],
                   [op |-> "sale", list |-> "stock", side |-> "sell",
                    flags |-> {"SkipWFMCheck:ItemSell_NotFound"}],
                   [op |-> "purchase", list |-> "wish", side |-> "buy", flags |-> {"ReturnOn:NotFound"}]}
  /\ D!handle_item("purchase", "buy", {})
       = [op |-> "purchase", list |-> "stock", side |-> "buy", flags |-> {}]
  /\ D!Handled = {"create", "sell", "wish_create", "wish_bought", "sale", "purchase"}
<1>1. /\ D!stock_item_create = [op |-> "create", list |-> "stock", side |-> "buy", flags |-> {}]
      /\ D!stock_item_sell = [op |-> "sell", list |-> "stock", side |-> "sell", flags |-> {}]
      /\ D!wish_list_create = [op |-> "wish_create", list |-> "wish", side |-> "sell", flags |-> {}]
      /\ D!wish_list_bought = [op |-> "wish_bought", list |-> "wish", side |-> "buy", flags |-> {}]
  BY DEF D!stock_item_create, D!stock_item_sell, D!wish_list_create, D!wish_list_bought,
         D!handle_item, D!handle_wish_list
<1>2. D!apply_item = {[op |-> "sale", list |-> "stock", side |-> "sell",
                       flags |-> {"SkipWFMCheck:ItemSell_NotFound"}],
                      [op |-> "purchase", list |-> "wish", side |-> "buy", flags |-> {"ReturnOn:NotFound"}]}
  BY DEF D!apply_item, D!handle_item, D!handle_wish_list, D!item_flags, D!wish_list_flags
<1>3. D!Handlers = {[op |-> "create", list |-> "stock", side |-> "buy", flags |-> {}],
                    [op |-> "sell", list |-> "stock", side |-> "sell", flags |-> {}],
                    [op |-> "wish_create", list |-> "wish", side |-> "sell", flags |-> {}],
                    [op |-> "wish_bought", list |-> "wish", side |-> "buy", flags |-> {}],
                    [op |-> "sale", list |-> "stock", side |-> "sell",
                     flags |-> {"SkipWFMCheck:ItemSell_NotFound"}],
                    [op |-> "purchase", list |-> "wish", side |-> "buy", flags |-> {"ReturnOn:NotFound"}]}
  BY <1>1, <1>2 DEF D!Handlers, D!handles_handle_items
<1>4. D!Handled = {"create", "sell", "wish_create", "wish_bought", "sale", "purchase"}
  BY <1>3 DEF D!Handled
<1>5. D!handle_item("purchase", "buy", {})
        = [op |-> "purchase", list |-> "stock", side |-> "buy", flags |-> {}]
  BY DEF D!handle_item
<1> QED
  BY <1>3, <1>4, <1>5

\* What the property says of one request.
BookedOnce(n, b) ==
  /\ n.pc = "done" /\ n.op \in D!Handled =>
       /\ b.rows <= 1
       /\ b.transactions = (IF n.price > 0 THEN 1 ELSE 0)
       /\ n.op \in {"create", "wish_create", "purchase"} => b.rows = 1
  /\ n.pc = "failed" => b.rows <= 1 /\ b.transactions = 0

Counters == [rows : Nat, transactions : Nat]

\* A step that moves one request and its counts, rightly, keeps the invariant.
LEMMA OneRequestMoves ==
  ASSUME D!BookingInv, NEW t \in Requests, NEW n, NEW b \in Counters,
         y5' = [y5 EXCEPT ![t] = n], y9' = [y9 EXCEPT ![t] = b],
         DOMAIN n = DOMAIN y5[t], D!Booking(n, b), BookedOnce(n, b)
  PROVE  (D!BookingInv)'
<1>1. \A s \in Requests : y5'[s] = (IF s = t THEN n ELSE y5[s]) /\ y9'[s] = (IF s = t THEN b ELSE y9[s])
  BY DEF D!BookingInv
<1>2. y5' = [s \in Requests |-> y5'[s]] /\ y9' \in [Requests -> Counters]
  BY DEF D!BookingInv, Counters
<1>3. \A s \in Requests : DOMAIN y5'[s] = DOMAIN D!Waiting /\ D!Booking(y5'[s], y9'[s])
  BY <1>1 DEF D!BookingInv
<1>4. \A s \in Requests : BookedOnce(y5[s], y9[s])
  BY DEF D!BookingInv, D!TradesAreBookedOnce, BookedOnce
<1>5. \A s \in Requests : BookedOnce(y5'[s], y9'[s])
  BY <1>1, <1>4
<1>6. (D!TradesAreBookedOnce)'
  BY <1>5 DEF D!TradesAreBookedOnce, BookedOnce
<1> QED
  BY <1>2, <1>3, <1>6 DEF D!BookingInv, Counters

\* What the invariant says of one request.
LEMMA RequestFacts ==
  ASSUME D!BookingInv, NEW t \in Requests
  PROVE  /\ DOMAIN y5[t] = {"pc", "op", "list", "side", "flags", "quantity", "price", "row", "seen", "ids"}
         /\ D!Booking(y5[t], y9[t]) /\ BookedOnce(y5[t], y9[t])
         /\ y9[t] \in Counters /\ y9 = [y9 EXCEPT ![t] = y9[t]]
         /\ DOMAIN y5 = Requests /\ DOMAIN y9 = Requests
BY DEF D!BookingInv, D!Waiting, D!TradesAreBookedOnce, BookedOnce, Counters

\* Nothing is booked at the start.
LEMMA DeskBooksInit ==
  ASSUME D!DeskInit
  PROVE  D!BookingInv
BY DEF D!DeskInit, D!BookingInv, D!Booking, D!Waiting, D!Serving, D!TradesAreBookedOnce

\* A request comes in.
LEMMA HandleBooks ==
  ASSUME D!BookingInv, NEW t \in Requests, D!Handle(t)
  PROVE  (D!BookingInv)'
<1>1. PICK h \in D!Handlers, q \in DeskQuantities, p \in DeskPrices :
        y5' = [y5 EXCEPT ![t] = [D!Run(y5[t], h) EXCEPT !.op = h.op, !.quantity = q, !.price = p]]
  BY DEF D!Handle
<1> DEFINE n == [D!Run(y5[t], h) EXCEPT !.op = h.op, !.quantity = q, !.price = p]
<1>2. /\ DOMAIN n = DOMAIN y5[t] /\ n.pc = "find" /\ n.op = h.op /\ n.price = p
      /\ n.list = h.list /\ n.side = h.side /\ n.flags = h.flags
  BY RequestFacts DEF D!Run
<1>3. y5[t].pc = "waiting" /\ y9' = y9 /\ p \in Int
  BY DeskAssumption DEF D!Handle
<1> HIDE DEF n
<1>4. D!HandlerOf(n) = h
  BY <1>2, HandlersAre DEF D!HandlerOf
<1>5. y9[t] = [rows |-> 0, transactions |-> 0]
  BY <1>3, RequestFacts DEF D!Booking, D!Serving
<1>6. D!Booking(n, y9[t]) /\ BookedOnce(n, y9[t])
  BY <1>2, <1>3, <1>4, <1>5 DEF D!Booking, D!Serving, BookedOnce
<1>7. y5' = [y5 EXCEPT ![t] = n]
  BY <1>1 DEF n
<1> QED
  BY <1>2, <1>3, <1>6, <1>7, RequestFacts, OneRequestMoves

\* A step that only moves a request on, and what it may book.
LEMMA MovesOn ==
  ASSUME D!BookingInv, NEW t \in Requests, NEW pc, NEW b \in Counters,
         D!Go(t, pc), y9' = [y9 EXCEPT ![t] = b],
         D!Booking([y5[t] EXCEPT !.pc = pc], b), BookedOnce([y5[t] EXCEPT !.pc = pc], b)
  PROVE  (D!BookingInv)'
<1> DEFINE n == [y5[t] EXCEPT !.pc = pc]
<1>1. DOMAIN n = DOMAIN y5[t] /\ y5' = [y5 EXCEPT ![t] = n]
  BY RequestFacts DEF D!Go
<1> HIDE DEF n
<1> QED
  BY <1>1, OneRequestMoves DEF n

\* How a request that is being served may be moved on.
LEMMA MovedRequest ==
  ASSUME D!BookingInv, NEW t \in Requests, NEW pc, NEW n, n = [y5[t] EXCEPT !.pc = pc]
  PROVE  /\ n.pc = pc /\ n.op = y5[t].op /\ n.price = y5[t].price
         /\ n.list = y5[t].list /\ n.side = y5[t].side /\ n.flags = y5[t].flags
         /\ D!HandlerOf(n) = D!HandlerOf(y5[t])
BY RequestFacts DEF D!HandlerOf

\* It looks for the first row of the item.
LEMMA FindBooks ==
  ASSUME D!BookingInv, NEW t \in Requests, D!Find(t)
  PROVE  (D!BookingInv)'
<1> DEFINE row == IF DOMAIN y1[y5[t].list] = {} THEN D!None ELSE D!Min(DOMAIN y1[y5[t].list])
           seen == IF DOMAIN y1[y5[t].list] = {} THEN <<>> ELSE y1[y5[t].list][D!Min(DOMAIN y1[y5[t].list])]
           pc == IF ~D!Takes(t) THEN "add" ELSE "take"
           n == [y5[t] EXCEPT !.row = row, !.seen = seen, !.pc = pc]
<1>1. /\ y5[t].pc = "find" /\ y9' = y9
      /\ y5' = [y5 EXCEPT ![t].row = row, ![t].seen = seen, ![t].pc = pc]
  BY DEF D!Find
<1> HIDE DEF row, seen
<1>2. y5' = [y5 EXCEPT ![t] = n]
  BY <1>1, RequestFacts
<1>3. /\ DOMAIN n = DOMAIN y5[t] /\ n.pc = pc /\ n.op = y5[t].op /\ n.price = y5[t].price
      /\ n.list = y5[t].list /\ n.side = y5[t].side /\ n.flags = y5[t].flags
  BY RequestFacts
<1> HIDE DEF n
<1>4. D!HandlerOf(n) = D!HandlerOf(y5[t])
  BY <1>3 DEF D!HandlerOf
<1>5. D!Booking(n, y9[t]) /\ BookedOnce(n, y9[t])
  BY <1>1, <1>3, <1>4, RequestFacts DEF D!Booking, D!Serving, BookedOnce, D!Takes
<1> QED
  BY <1>1, <1>2, <1>3, <1>5, RequestFacts, OneRequestMoves

\* It reads the row again by its id.
LEMMA RereadBooks ==
  ASSUME D!BookingInv, NEW t \in Requests, D!Reread(t)
  PROVE  (D!BookingInv)'
<1> DEFINE now == y5[t]
           seen == y1[now.list][now.row]
           found == [now EXCEPT !.seen = seen, !.pc = "change"]
<1>1. now.pc = "take" /\ y9' = y9 /\ D!Booking(now, y9[t]) /\ BookedOnce(now, y9[t])
  BY RequestFacts DEF D!Reread
<1>2. /\ D!HandlerOf(now) \in D!Handlers \cup {D!handle_item("purchase", "buy", {})}
      /\ y9[t] = [rows |-> 0, transactions |-> 0] /\ now.price \in Int
      /\ <<now.list, now.side>> \in {<<"stock", "sell">>, <<"wish", "buy">>}
  BY <1>1 DEF D!Booking, D!Serving
<1>3. CASE y5' = [y5 EXCEPT ![t] = found]
  <2>1. /\ DOMAIN found = DOMAIN now /\ found.pc = "change" /\ found.op = now.op /\ found.price = now.price
        /\ found.list = now.list /\ found.side = now.side /\ found.flags = now.flags
    BY RequestFacts
  <2> HIDE DEF found, seen
  <2>2. D!HandlerOf(found) = D!HandlerOf(now)
    BY <2>1 DEF D!HandlerOf
  <2>3. D!Booking(found, y9[t]) /\ BookedOnce(found, y9[t])
    BY <1>2, <2>1, <2>2 DEF D!Booking, D!Serving, BookedOnce
  <2> QED BY <1>1, <1>3, <2>1, <2>3, RequestFacts, OneRequestMoves
<1>4. CASE y5' = [y5 EXCEPT ![t] = D!NotFound(now)]
  <2>1. CASE "ReturnOn:NotFound" \in now.flags
    <3> DEFINE h == D!handle_item(now.op, "buy", D!item_flags("buy"))
               n == D!Run(now, h)
    <3>1. now.op = "purchase" /\ h = D!handle_item("purchase", "buy", {})
      <4>1. now.op = "purchase"
        BY <1>2, <2>1, HandlersAre DEF D!HandlerOf
      <4>2. D!item_flags("buy") = {}
        BY DEF D!item_flags
      <4> QED BY <4>1, <4>2
    <3>2. /\ DOMAIN n = DOMAIN now /\ n.pc = "find" /\ n.op = now.op /\ n.price = now.price
          /\ D!HandlerOf(n) = h
      BY <3>1, RequestFacts DEF D!Run, D!HandlerOf, D!handle_item
    <3> HIDE DEF n, h
    <3>3. D!Booking(n, y9[t]) /\ BookedOnce(n, y9[t])
      BY <1>2, <3>1, <3>2 DEF D!Booking, D!Serving, BookedOnce
    <3>4. y5' = [y5 EXCEPT ![t] = n]
      BY <1>4, <2>1 DEF n, h, D!NotFound
    <3> QED BY <1>1, <3>2, <3>3, <3>4, RequestFacts, OneRequestMoves
  <2>2. CASE "ReturnOn:NotFound" \notin now.flags
    <3> DEFINE pc == IF "SkipWFMCheck:ItemSell_NotFound" \in now.flags THEN "book" ELSE "sync"
    <3>1. D!Go(t, pc)
      BY <1>4, <2>2, RequestFacts DEF D!Go, D!NotFound
    <3>2. now.op \notin {"create", "wish_create", "purchase"}
      BY <1>2, <2>2, HandlersAre DEF D!HandlerOf
    <3>3. PICK n : n = [now EXCEPT !.pc = pc]
      OBVIOUS
    <3>4. D!Booking(n, y9[t]) /\ BookedOnce(n, y9[t])
      <4>1. pc \in {"sync", "book"}
        OBVIOUS
      <4> HIDE DEF pc
      <4>2. n.pc = pc /\ n.op = now.op /\ n.price = now.price /\ D!HandlerOf(n) = D!HandlerOf(now)
        BY <3>3, MovedRequest
      <4> QED BY <1>2, <3>2, <4>1, <4>2 DEF D!Booking, D!Serving, BookedOnce
    <3> HIDE DEF pc
    <3> QED BY <1>1, <3>1, <3>3, <3>4, RequestFacts, MovesOn
  <2> QED BY <2>1, <2>2
<1> QED
  BY <1>3, <1>4 DEF D!Reread

\* The counts after a change of one field.
LEMMA CountsIs ==
  ASSUME D!BookingInv, NEW t \in Requests
  PROVE  /\ D!Counts(t, "rows") =>
              y9' = [y9 EXCEPT ![t] = [rows |-> y9[t].rows + 1, transactions |-> y9[t].transactions]]
         /\ D!Counts(t, "transactions") =>
              y9' = [y9 EXCEPT ![t] = [rows |-> y9[t].rows, transactions |-> y9[t].transactions + 1]]
<1>1. y9[t] \in [rows : Nat, transactions : Nat] /\ DOMAIN y9 = Requests
  BY RequestFacts DEF Counters
<1> DEFINE F == {"rows", "transactions"}
           b == y9[t]
<1>2. [b EXCEPT !["rows"] = b["rows"] + 1] = [rows |-> b.rows + 1, transactions |-> b.transactions]
  <2>1. [b EXCEPT !["rows"] = b["rows"] + 1] = [f \in F |-> IF f = "rows" THEN b.rows + 1 ELSE b[f]]
    BY <1>1
  <2>2. [rows |-> b.rows + 1, transactions |-> b.transactions]
          = [f \in F |-> IF f = "rows" THEN b.rows + 1 ELSE b.transactions]
    OBVIOUS
  <2>3. \A f \in F : f # "rows" => b[f] = b.transactions
    OBVIOUS
  <2> QED BY <2>1, <2>2, <2>3
<1>3. [b EXCEPT !["transactions"] = b["transactions"] + 1] = [rows |-> b.rows, transactions |-> b.transactions + 1]
  <2>1. [b EXCEPT !["transactions"] = b["transactions"] + 1]
          = [f \in F |-> IF f = "transactions" THEN b.transactions + 1 ELSE b[f]]
    BY <1>1
  <2>2. [rows |-> b.rows, transactions |-> b.transactions + 1]
          = [f \in F |-> IF f = "transactions" THEN b.transactions + 1 ELSE b.rows]
    OBVIOUS
  <2>3. \A f \in F : f # "transactions" => b[f] = b.rows
    OBVIOUS
  <2> QED BY <2>1, <2>2, <2>3
<1> QED
  BY <1>1, <1>2, <1>3 DEF D!Counts

\* A sale or a purchase changes its row, or fails on it.
LEMMA ChangeBooks ==
  ASSUME D!BookingInv, NEW t \in Requests, D!Change(t)
  PROVE  (D!BookingInv)'
<1>1. y5[t].pc = "change" /\ D!Booking(y5[t], y9[t])
  BY RequestFacts DEF D!Change
<1>2. /\ y9[t] = [rows |-> 0, transactions |-> 0] /\ y5[t].price \in Int
      /\ D!HandlerOf(y5[t]) \in D!Handlers \cup {D!handle_item("purchase", "buy", {})}
  BY <1>1 DEF D!Booking, D!Serving
<1>3. CASE D!Go(t, "sync") /\ D!Counts(t, "rows")
  <2> DEFINE b == [rows |-> 1, transactions |-> 0]
  <2>1. b \in Counters /\ y9' = [y9 EXCEPT ![t] = b]
    BY <1>2, <1>3, CountsIs DEF Counters
  <2>2. PICK n : n = [y5[t] EXCEPT !.pc = "sync"]
    OBVIOUS
  <2>3. D!Booking(n, b) /\ BookedOnce(n, b)
    BY <1>2, <2>2, MovedRequest DEF D!Booking, D!Serving, BookedOnce
  <2> QED BY <1>3, <2>1, <2>2, <2>3, MovesOn
<1>4. CASE D!Go(t, "failed") /\ y9' = y9
  <2>1. PICK n : n = [y5[t] EXCEPT !.pc = "failed"]
    OBVIOUS
  <2>2. D!Booking(n, y9[t]) /\ BookedOnce(n, y9[t])
    BY <1>2, <2>1, MovedRequest DEF D!Booking, D!Serving, BookedOnce
  <2> QED BY <1>4, <2>1, <2>2, MovesOn, RequestFacts
<1> QED
  BY <1>3, <1>4 DEF D!Change

\* A row is added or added to, or the handler fails.
LEMMA AddBooks ==
  ASSUME D!BookingInv, NEW t \in Requests, D!Add(t)
  PROVE  (D!BookingInv)'
<1>1. y5[t].pc = "add" /\ D!Booking(y5[t], y9[t])
  BY RequestFacts DEF D!Add
<1>2. /\ y9[t] = [rows |-> 0, transactions |-> 0] /\ y5[t].price \in Int
      /\ D!HandlerOf(y5[t]) \in D!Handlers \cup {D!handle_item("purchase", "buy", {})}
  BY <1>1 DEF D!Booking, D!Serving
<1>3. CASE D!Go(t, "sync") /\ D!Counts(t, "rows")
  <2> DEFINE b == [rows |-> 1, transactions |-> 0]
  <2>1. b \in Counters /\ y9' = [y9 EXCEPT ![t] = b]
    BY <1>2, <1>3, CountsIs DEF Counters
  <2>2. PICK n : n = [y5[t] EXCEPT !.pc = "sync"]
    OBVIOUS
  <2>3. D!Booking(n, b) /\ BookedOnce(n, b)
    BY <1>2, <2>2, MovedRequest DEF D!Booking, D!Serving, BookedOnce
  <2> QED BY <1>3, <2>1, <2>2, <2>3, MovesOn
<1>4. CASE D!Go(t, "failed") /\ y9' = y9
  <2>1. PICK n : n = [y5[t] EXCEPT !.pc = "failed"]
    OBVIOUS
  <2>2. D!Booking(n, y9[t]) /\ BookedOnce(n, y9[t])
    BY <1>2, <2>1, MovedRequest DEF D!Booking, D!Serving, BookedOnce
  <2> QED BY <1>4, <2>1, <2>2, MovesOn, RequestFacts
<1> QED
  BY <1>3, <1>4 DEF D!Add

\* The market's order follows.
LEMMA SyncBooks ==
  ASSUME D!BookingInv, NEW t \in Requests, D!Sync(t)
  PROVE  (D!BookingInv)'
<1>1. y5[t].pc = "sync" /\ D!Booking(y5[t], y9[t]) /\ D!Go(t, "book") /\ y9' = y9
  BY RequestFacts DEF D!Sync
<1>2. PICK n : n = [y5[t] EXCEPT !.pc = "book"]
  OBVIOUS
<1>3. D!Booking(n, y9[t]) /\ BookedOnce(n, y9[t])
  BY <1>1, <1>2, MovedRequest DEF D!Booking, D!Serving, BookedOnce
<1> QED
  BY <1>1, <1>2, <1>3, MovesOn, RequestFacts

\* The transaction is written, or the handler fails.
LEMMA BookBooks ==
  ASSUME D!BookingInv, NEW t \in Requests, D!Book(t)
  PROVE  (D!BookingInv)'
<1>1. y5[t].pc = "book" /\ D!Booking(y5[t], y9[t])
  BY RequestFacts DEF D!Book
<1>2. /\ y9[t].rows <= 1 /\ y9[t].transactions = 0 /\ y5[t].price \in Int /\ y9[t].rows \in Nat
      /\ y5[t].op \in {"create", "wish_create", "purchase"} => y9[t].rows = 1
  BY <1>1, RequestFacts DEF D!Booking, D!Serving, Counters
<1>3. CASE y5[t].price <= 0 /\ D!Go(t, "done") /\ y9' = y9
  <2>1. PICK n : n = [y5[t] EXCEPT !.pc = "done"]
    OBVIOUS
  <2>2. D!Booking(n, y9[t]) /\ BookedOnce(n, y9[t])
    BY <1>2, <1>3, <2>1, MovedRequest DEF D!Booking, D!Serving, BookedOnce
  <2> QED BY <1>3, <2>1, <2>2, MovesOn, RequestFacts
<1>4. CASE D!Go(t, "failed") /\ y9' = y9
  <2>1. PICK n : n = [y5[t] EXCEPT !.pc = "failed"]
    OBVIOUS
  <2>2. D!Booking(n, y9[t]) /\ BookedOnce(n, y9[t])
    BY <1>2, <2>1, MovedRequest DEF D!Booking, D!Serving, BookedOnce
  <2> QED BY <1>4, <2>1, <2>2, MovesOn, RequestFacts
<1>5. CASE ~(y5[t].price <= 0) /\ D!Go(t, "done") /\ D!Counts(t, "transactions")
  <2> DEFINE b == [rows |-> y9[t].rows, transactions |-> 1]
  <2>1. b \in Counters /\ y9' = [y9 EXCEPT ![t] = b]
    BY <1>2, <1>5, CountsIs DEF Counters
  <2>2. PICK n : n = [y5[t] EXCEPT !.pc = "done"]
    OBVIOUS
  <2>3. b.rows = y9[t].rows /\ b.transactions = 1
    OBVIOUS
  <2> HIDE DEF b
  <2>4. D!Booking(n, b) /\ BookedOnce(n, b)
    BY <1>2, <1>5, <2>2, <2>3, MovedRequest DEF D!Booking, D!Serving, BookedOnce
  <2> QED BY <1>5, <2>1, <2>2, <2>4, MovesOn
<1> QED
  BY <1>3, <1>4, <1>5 DEF D!Book

\* A command that is done at once, or the first step of one that takes more.
LEMMA CommandBegins ==
  ASSUME D!BookingInv, NEW t \in Requests, y5[t].pc = "waiting", y9' = y9,
         \/ D!Go(t, "done")
         \/ \E n : /\ DOMAIN n = DOMAIN y5[t] /\ y5' = [y5 EXCEPT ![t] = n] /\ n.price \in Int
                   /\ n.pc \in {"unlist", "drop", "enter"} /\ n.op \in {"delete", "delete_multiple", "entry"}
  PROVE  (D!BookingInv)'
<1>1. y5[t].op = "none" /\ y9[t] = [rows |-> 0, transactions |-> 0] /\ y5[t].price \in Int
  BY RequestFacts DEF D!Booking, D!Serving
<1>2. CASE D!Go(t, "done")
  <2>1. PICK n : n = [y5[t] EXCEPT !.pc = "done"]
    OBVIOUS
  <2>2. D!Booking(n, y9[t]) /\ BookedOnce(n, y9[t])
    BY <1>1, <2>1, MovedRequest, HandlersAre DEF D!Booking, D!Serving, BookedOnce
  <2> QED BY <1>2, <2>1, <2>2, MovesOn, RequestFacts
<1>3. ASSUME NEW n, DOMAIN n = DOMAIN y5[t], y5' = [y5 EXCEPT ![t] = n], n.price \in Int,
             n.pc \in {"unlist", "drop", "enter"}, n.op \in {"delete", "delete_multiple", "entry"}
      PROVE  (D!BookingInv)'
  <2>1. D!Booking(n, y9[t]) /\ BookedOnce(n, y9[t])
    BY <1>1, <1>3 DEF D!Booking, D!Serving, BookedOnce
  <2> QED BY <1>3, <2>1, RequestFacts, OneRequestMoves
<1> QED
  BY <1>2, <1>3

\* The commands book nothing.
LEMMA CommandBooks ==
  ASSUME D!BookingInv, NEW t \in Requests, D!Command(t)
  PROVE  (D!BookingInv)'
<1>1. ASSUME NEW l, D!DeleteRow(t, l) PROVE (D!BookingInv)'
  <2>1. PICK id : y5' = [y5 EXCEPT ![t].op = "delete", ![t].list = l, ![t].ids = {id}, ![t].pc = "unlist"]
    BY <1>1 DEF D!DeleteRow
  <2>2. y5[t].pc = "waiting" /\ y9' = y9 /\ y5[t].price \in Int
    BY <1>1, RequestFacts DEF D!DeleteRow, D!Booking
  <2> DEFINE n == [y5[t] EXCEPT !.op = "delete", !.list = l, !.ids = {id}, !.pc = "unlist"]
  <2>3. y5' = [y5 EXCEPT ![t] = n]
    BY <2>1, RequestFacts
  <2>4. DOMAIN n = DOMAIN y5[t] /\ n.price = y5[t].price /\ n.pc = "unlist" /\ n.op = "delete"
    BY RequestFacts
  <2> HIDE DEF n
  <2> QED BY <2>2, <2>3, <2>4, CommandBegins
<1>2. ASSUME NEW l, D!DeleteRows(t, l) PROVE (D!BookingInv)'
  <2>1. PICK ids : y5' = [y5 EXCEPT ![t].op = "delete_multiple", ![t].list = l, ![t].ids = ids, ![t].pc = "drop"]
    BY <1>2 DEF D!DeleteRows
  <2>2. y5[t].pc = "waiting" /\ y9' = y9 /\ y5[t].price \in Int
    BY <1>2, RequestFacts DEF D!DeleteRows, D!Booking
  <2> DEFINE n == [y5[t] EXCEPT !.op = "delete_multiple", !.list = l, !.ids = ids, !.pc = "drop"]
  <2>3. y5' = [y5 EXCEPT ![t] = n]
    BY <2>1, RequestFacts
  <2>4. DOMAIN n = DOMAIN y5[t] /\ n.price = y5[t].price /\ n.pc = "drop" /\ n.op = "delete_multiple"
    BY RequestFacts
  <2> HIDE DEF n
  <2> QED BY <2>2, <2>3, <2>4, CommandBegins
<1>3. CASE D!trade_entry_create(t)
  <2>1. PICK p \in DeskPrices : \E row :
          y5' = [y5 EXCEPT ![t].op = "entry", ![t].list = "entries", ![t].price = p, ![t].row = row,
                           ![t].pc = "enter"]
    BY <1>3 DEF D!trade_entry_create
  <2> PICK row :
          y5' = [y5 EXCEPT ![t].op = "entry", ![t].list = "entries", ![t].price = p, ![t].row = row,
                           ![t].pc = "enter"]
    BY <2>1
  <2>2. y5[t].pc = "waiting" /\ y9' = y9 /\ p \in Int
    BY <1>3, DeskAssumption DEF D!trade_entry_create
  <2> DEFINE n == [y5[t] EXCEPT !.op = "entry", !.list = "entries", !.price = p, !.row = row, !.pc = "enter"]
  <2>3. y5' = [y5 EXCEPT ![t] = n]
    BY RequestFacts
  <2>4. DOMAIN n = DOMAIN y5[t] /\ n.price = p /\ n.pc = "enter" /\ n.op = "entry"
    BY RequestFacts
  <2> HIDE DEF n
  <2> QED BY <2>2, <2>3, <2>4, CommandBegins
<1>4. CASE \/ \E l \in {"stock", "wish", "entries"} : D!UpdateRow(t, l)
           \/ D!transaction_update(t) \/ D!transaction_delete(t)
           \/ D!order_delete_all(t) \/ D!order_delete_by_id(t)
  <2>1. y5[t].pc = "waiting" /\ y9' = y9 /\ D!Go(t, "done")
    BY <1>4 DEF D!UpdateRow, D!transaction_update, D!transaction_delete, D!order_delete_all,
            D!order_delete_by_id
  <2> QED BY <2>1, CommandBegins
<1>5. CASE D!Unlist(t) \/ D!Drop(t) \/ D!Enter(t)
  <2>1. /\ y5[t].pc \in {"unlist", "drop", "enter"} /\ y9' = y9
        /\ D!Booking(y5[t], y9[t])
    BY <1>5, RequestFacts DEF D!Unlist, D!Drop, D!Enter
  <2>2. /\ y5[t].price \in Int /\ y9[t] = [rows |-> 0, transactions |-> 0]
        /\ y5[t].op \in {"delete", "delete_multiple", "entry"}
    BY <2>1 DEF D!Booking
  <2>3. ASSUME NEW pc \in {"drop", "done", "failed"}, D!Go(t, pc) PROVE (D!BookingInv)'
    <3>1. PICK n : n = [y5[t] EXCEPT !.pc = pc]
      OBVIOUS
    <3>2. D!Booking(n, y9[t]) /\ BookedOnce(n, y9[t])
      BY <2>2, <3>1, MovedRequest, HandlersAre DEF D!Booking, D!Serving, BookedOnce
    <3> QED BY <2>1, <2>3, <3>1, <3>2, MovesOn, RequestFacts
  <2>4. ASSUME NEW rest, NEW pc \in {"drop", "done"},
               y5' = [y5 EXCEPT ![t].ids = rest, ![t].pc = pc]
        PROVE (D!BookingInv)'
    <3> DEFINE n == [y5[t] EXCEPT !.ids = rest, !.pc = pc]
    <3>1. y5' = [y5 EXCEPT ![t] = n]
      BY <2>4, RequestFacts
    <3>2. DOMAIN n = DOMAIN y5[t] /\ n.price = y5[t].price /\ n.pc = pc /\ n.op = y5[t].op
      BY RequestFacts
    <3> HIDE DEF n
    <3>3. D!Booking(n, y9[t]) /\ BookedOnce(n, y9[t])
      BY <2>2, <3>2, HandlersAre DEF D!Booking, D!Serving, BookedOnce
    <3> QED BY <2>1, <3>1, <3>2, <3>3, OneRequestMoves, RequestFacts
  <2>5. CASE D!Unlist(t)
    BY <2>3, <2>5 DEF D!Unlist
  <2>6. CASE D!Enter(t)
    BY <2>3, <2>6 DEF D!Enter
  <2>7. CASE D!Drop(t)
    <3>1. \/ \E rest : y5' = [y5 EXCEPT ![t].ids = rest, ![t].pc = IF rest = {} THEN "done" ELSE "drop"]
          \/ D!Go(t, "failed")
      BY <2>7 DEF D!Drop
    <3> QED BY <2>3, <2>4, <3>1
  <2> QED BY <1>5, <2>5, <2>6, <2>7
<1> QED
  BY <1>1, <1>2, <1>3, <1>4, <1>5
     DEF D!Command, D!stock_item_delete, D!wish_list_delete, D!stock_item_delete_multiple,
         D!wish_list_delete_multiple, D!trade_entry_delete_multiple, D!stock_item_update,
         D!wish_list_update, D!trade_entry_update

\* A call fails.
LEMMA FailBooks ==
  ASSUME D!BookingInv, NEW t \in Requests, D!Fail(t)
  PROVE  (D!BookingInv)'
<1>1. y5[t].pc \notin {"waiting", "done", "failed"} /\ y9' = y9 /\ D!Go(t, "failed")
      /\ D!Booking(y5[t], y9[t])
  BY RequestFacts DEF D!Fail
<1>2. y9[t].rows <= 1 /\ y9[t].transactions = 0 /\ y5[t].price \in Int
  BY <1>1 DEF D!Booking, D!Serving
<1>3. PICK n : n = [y5[t] EXCEPT !.pc = "failed"]
  OBVIOUS
<1>4. D!Booking(n, y9[t]) /\ BookedOnce(n, y9[t])
  BY <1>2, <1>3, MovedRequest DEF D!Booking, D!Serving, BookedOnce
<1> QED
  BY <1>1, <1>3, <1>4, MovesOn, RequestFacts

\* Every step of the desk and of the trader keeps the books.
LEMMA DeskBooks ==
  ASSUME D!BookingInv, D!DeskNext
  PROVE  (D!BookingInv)'
<1>1. ASSUME NEW t \in Requests, D!Handle(t) \/ D!Serve(t) \/ D!Command(t) \/ D!Fail(t)
      PROVE  (D!BookingInv)'
  BY <1>1, HandleBooks, FindBooks, RereadBooks, ChangeBooks, AddBooks, SyncBooks, BookBooks,
     CommandBooks, FailBooks DEF D!Serve
<1>2. CASE D!ReadRow \/ D!finalize_stock_item \/ D!finalize_wishlist_item \/ D!NextCycle
  <2>1. y5' = y5 /\ y9' = y9
    BY <1>2 DEF D!ReadRow, D!finalize_stock_item, D!finalize_wishlist_item, D!FinalizeRow, D!NextCycle
  <2> QED BY <2>1 DEF D!BookingInv, D!TradesAreBookedOnce
<1> QED
  BY <1>1, <1>2 DEF D!DeskNext

-----------------------------------------------------------------------------
(* The desk: what stock rows were bought at.                                 *)

\* The library's operators are the same in the instance.
LEMMA DeskFinite == \A Q : D!IsFiniteSet(Q) = IsFiniteSet(Q)
BY DEF D!IsFiniteSet, IsFiniteSet

\* A list that is not empty has a first row.
LEMMA HasLeastId ==
  ASSUME NEW T \in SUBSET Nat, T # {}
  PROVE  D!Min(T) \in T
<1> DEFINE Lt == OpToRel(<, Nat)
<1>1. IsWellFoundedOn(Lt, Nat)
  BY NatLessThanWellFounded, Zenon
<1>2. ASSUME NEW x \in Nat, NEW y \in Nat, x < y
      PROVE  <<x, y>> \in Lt
  <2>1. <<x, y>> \in Nat \X Nat /\ <<x, y>>[1] = x /\ <<x, y>>[2] = y
    OBVIOUS
  <2> QED BY <1>2, <2>1, Zenon DEF OpToRel
<1> HIDE DEF Lt
<1>3. PICK x \in T : \A y \in T : ~(<<y, x>> \in Lt)
  BY <1>1, WFMin
<1>4. \A y \in T : ~(y < x)
  BY <1>2, <1>3
<1>5. \A y \in T : x <= y
  BY <1>4
<1> QED
  BY <1>5 DEF D!Min

\* What was paid stays paid, and a line of no pieces stays entered.
Kept == y8 \subseteq y8' /\ (D!VoidLine => (D!VoidLine)')
\* The bounds after a step.
BetweenNext(p) == (\E l \in y8' : l <= p) /\ ((D!VoidLine)' \/ \E g \in y8' : p <= g)

\* What was paid stays paid, and the bounds with it.
LEMMA BetweenStays ==
  ASSUME NEW p, D!Between(p), Kept
  PROVE  BetweenNext(p)
BY DEF D!Between, BetweenNext, Kept

\* A request keeps what it was entered with, so a line of no pieces stays one.
LEMMA VoidStays ==
  ASSUME D!BookingInv, NEW t \in Requests, NEW n, y5' = [y5 EXCEPT ![t] = n],
         y5[t].pc # "waiting" => n.op = y5[t].op /\ n.quantity = y5[t].quantity /\ n.price = y5[t].price
  PROVE  D!VoidLine => (D!VoidLine)'
<1> SUFFICES ASSUME D!VoidLine PROVE (D!VoidLine)'
  OBVIOUS
<1>1. PICK s \in Requests : y5[s].op \in {"create", "purchase"} /\ y5[s].quantity = 0 /\ y5[s].price > 0
  BY DEF D!VoidLine
<1>2. \A r \in Requests : y5'[r] = IF r = t THEN n ELSE y5[r]
  BY DEF D!BookingInv
<1>3. CASE s = t
  <2>1. D!Booking(y5[t], y9[t])
    BY DEF D!BookingInv
  <2>2. y5[t].pc # "waiting"
    BY <1>1, <1>3, <2>1 DEF D!Booking
  <2>3. n.op = y5[t].op /\ n.quantity = y5[t].quantity /\ n.price = y5[t].price
    BY <2>2
  <2>4. y5'[t].op \in {"create", "purchase"} /\ y5'[t].quantity = 0 /\ y5'[t].price > 0
    BY <1>1, <1>2, <1>3, <2>3
  <2> QED BY <2>4 DEF D!VoidLine
<1>4. CASE s # t
  <2>1. y5'[s] = y5[s]
    BY <1>2, <1>4
  <2> QED BY <1>1, <2>1 DEF D!VoidLine
<1> QED
  BY <1>3, <1>4

\* What is known of a request's prices stays known when more prices are paid.
LEMMA RequestStaysPriced ==
  ASSUME NEW n, D!RequestPriced(n), Kept
  PROVE  (D!RequestPriced(n))'
BY DEF D!RequestPriced, D!Between, Kept

\* One list is changed, or only what was paid.
LEMMA ListFacts ==
  ASSUME D!ListsPriced, NEW l \in D!Lists
  PROVE  /\ DOMAIN y1[l] \subseteq Nat /\ IsFiniteSet(DOMAIN y1[l])
         /\ \A i \in DOMAIN y1[l] : y1[l][i] \in D!Row
         /\ l = "stock" => \A i \in DOMAIN y1[l] : D!Between(y1[l][i].price)
BY DeskFinite DEF D!ListsPriced

\* A list with other rows, each rightly priced, keeps the lists priced.
LEMMA ListsAfter ==
  ASSUME D!ListsPriced, NEW l \in D!Lists, NEW new, y1' = [y1 EXCEPT ![l] = new],
         Kept, y8' \subseteq Int, IsFiniteSet(y8'),
         DOMAIN new \subseteq Nat, IsFiniteSet(DOMAIN new), \A i \in DOMAIN new : new[i] \in D!Row,
         l = "stock" => \A i \in DOMAIN new : BetweenNext(new[i].price)
  PROVE  (D!ListsPriced)'
<1>1. \A m \in D!Lists : y1'[m] = IF m = l THEN new ELSE y1[m]
  BY DEF D!ListsPriced
<1>2. y1' = [m \in D!Lists |-> y1'[m]]
  BY DEF D!ListsPriced
<1>3. \A m \in D!Lists : /\ DOMAIN y1'[m] \subseteq Nat /\ D!IsFiniteSet(DOMAIN y1'[m])
                         /\ \A i \in DOMAIN y1'[m] : y1'[m][i] \in D!Row
  BY <1>1, DeskFinite DEF D!ListsPriced
<1>4. \A i \in DOMAIN y1'["stock"] : BetweenNext(y1'["stock"][i].price)
  <2>1. "stock" \in D!Lists
    BY DEF D!Lists
  <2>2. CASE l = "stock"
    BY <1>1, <2>1, <2>2
  <2>3. CASE l # "stock"
    <3>1. y1'["stock"] = y1["stock"]
      BY <1>1, <2>1, <2>3
    <3>2. \A i \in DOMAIN y1["stock"] : D!Between(y1["stock"][i].price)
      BY DEF D!ListsPriced
    <3> QED BY <3>1, <3>2, BetweenStays
  <2> QED BY <2>2, <2>3
<1> QED
  BY <1>2, <1>3, <1>4, DeskFinite DEF D!ListsPriced, D!Between, BetweenNext

\* One row is written.
LEMMA RowIsWritten ==
  ASSUME D!ListsPriced, NEW l \in D!Lists, NEW id \in Nat, NEW row \in D!Row,
         l = "stock" => D!Between(row.price),
         y1' = D!WithRow(l, id, row), y8' = y8, Kept
  PROVE  (D!ListsPriced)'
<1> DEFINE new == [i \in DOMAIN y1[l] \cup {id} |-> IF i = id THEN row ELSE y1[l][i]]
<1>0. PICK f : f = new
  OBVIOUS
<1>1. y1' = [y1 EXCEPT ![l] = f]
  BY <1>0 DEF D!WithRow
<1>2. DOMAIN f = DOMAIN y1[l] \cup {id} /\ IsFiniteSet(DOMAIN y1[l] \cup {id})
  BY <1>0, ListFacts, FS_AddElement
<1>3. \A i \in DOMAIN f : f[i] \in D!Row /\ (l = "stock" => D!Between(f[i].price))
  BY <1>0, ListFacts
<1>4. DOMAIN f \subseteq Nat
  BY <1>0, ListFacts
<1> HIDE DEF new
<1>5. IsFiniteSet(DOMAIN f) /\ \A i \in DOMAIN f : f[i] \in D!Row
  BY <1>2, <1>3
<1>6. l = "stock" => \A i \in DOMAIN f : BetweenNext(f[i].price)
  BY <1>3, BetweenStays
<1>7. y8' \subseteq Int /\ IsFiniteSet(y8')
  BY DeskFinite DEF D!ListsPriced
<1> QED
  BY <1>1, <1>4, <1>5, <1>6, <1>7, ListsAfter

\* One row is dropped.
LEMMA RowIsDropped ==
  ASSUME D!ListsPriced, NEW l \in D!Lists, NEW id, y1' = D!WithoutRow(l, id), y8' = y8, Kept
  PROVE  (D!ListsPriced)'
<1> DEFINE new == [i \in DOMAIN y1[l] \ {id} |-> y1[l][i]]
<1>0. PICK f : f = new
  OBVIOUS
<1>1. y1' = [y1 EXCEPT ![l] = f]
  BY <1>0 DEF D!WithoutRow
<1>2. DOMAIN f = DOMAIN y1[l] \ {id} /\ IsFiniteSet(DOMAIN y1[l] \ {id})
  BY <1>0, ListFacts, FS_Subset
<1>3. \A i \in DOMAIN f : f[i] \in D!Row /\ (l = "stock" => D!Between(f[i].price))
  BY <1>0, ListFacts
<1>4. DOMAIN f \subseteq Nat
  BY <1>0, ListFacts
<1> HIDE DEF new
<1>5. IsFiniteSet(DOMAIN f) /\ \A i \in DOMAIN f : f[i] \in D!Row
  BY <1>2, <1>3
<1>6. l = "stock" => \A i \in DOMAIN f : BetweenNext(f[i].price)
  BY <1>3, BetweenStays
<1>7. y8' \subseteq Int /\ IsFiniteSet(y8')
  BY DeskFinite DEF D!ListsPriced
<1> QED
  BY <1>1, <1>4, <1>5, <1>6, <1>7, ListsAfter

\* A fresh id is one more than the ids there are.
LEMMA FreshIsId ==
  ASSUME D!ListsPriced, NEW l \in D!Lists
  PROVE  D!FreshId(l) \in Nat
<1> DEFINE T == DOMAIN y1[l]
<1>1. T \in SUBSET Int /\ IsFiniteSet(T) /\ T \subseteq Nat
  BY ListFacts
<1>2. CASE T = {}
  BY <1>2 DEF D!FreshId
<1>3. CASE T # {}
  <2>1. PICK l1, g \in T : \A y \in T : l1 <= y /\ y <= g
    BY <1>1, <1>3, FiniteHasBounds
  <2>2. D!Max(T) \in T
    BY <2>1, <1>1 DEF D!Max
  <2> QED BY <1>1, <1>3, <2>2 DEF D!FreshId
<1> QED
  BY <1>2, <1>3

\* The average of what a row cost and what a line cost stays between the two.
LEMMA AverageIsOver ==
  ASSUME NEW l \in Int, NEW c \in Nat, NEW v \in Int, NEW q \in Nat, c + q # 0,
         NEW p \in Int, l <= v, l * q <= p
  PROVE  l <= (v * c + p) \div (c + q)
<1> DEFINE n == c + q
           s == v * c + p
<1>1. l * c <= v * c
  OBVIOUS
<1>2. l * n = l * c + l * q
  OBVIOUS
<1>3. l * n <= s
  BY <1>1, <1>2
<1>4. n \in Nat \ {0} /\ s \in Int
  OBVIOUS
<1> HIDE DEF n, s
<1>5. \A d \in Nat \ {0} : \A x, k \in Int : k * d <= x => k <= x \div d
  OBVIOUS
<1>6. l <= s \div n
  BY <1>3, <1>4, <1>5
<1> QED
  BY <1>6 DEF n, s

\* And under the dearer of the two.
LEMMA AverageIsUnder ==
  ASSUME NEW g \in Int, NEW c \in Nat, NEW v \in Int, NEW q \in Nat, c + q # 0,
         NEW p \in Int, v <= g, p <= g * q
  PROVE  (v * c + p) \div (c + q) <= g
<1> DEFINE n == c + q
           s == v * c + p
<1>1. v * c <= g * c
  OBVIOUS
<1>2. g * n = g * c + g * q
  OBVIOUS
<1>3. s <= g * n
  BY <1>1, <1>2
<1>4. n \in Nat \ {0} /\ s \in Int
  OBVIOUS
<1> HIDE DEF n, s
<1>5. \A d \in Nat \ {0} : \A x, k \in Int : x <= k * d => x \div d <= k
  OBVIOUS
<1>6. s \div n <= g
  BY <1>3, <1>4, <1>5
<1> QED
  BY <1>6 DEF n, s

\* The lists stay priced when more prices are paid.
LEMMA ListsStay ==
  ASSUME D!ListsPriced, y1' = y1, Kept, y8' \subseteq Int, IsFiniteSet(y8')
  PROVE  (D!ListsPriced)'
BY DeskFinite DEF D!ListsPriced, D!Between, Kept

\* The prices paid stay a finite set of integers.
LEMMA PaidFacts ==
  ASSUME D!PricesInv
  PROVE  D!ListsPriced /\ y8 \subseteq Int /\ IsFiniteSet(y8)
BY DeskFinite DEF D!PricesInv, D!ListsPriced

\* One request moves; the trader does not.
LEMMA PricesAfter ==
  ASSUME D!BookingInv, D!PricesInv, NEW t \in Requests, NEW n, y5' = [y5 EXCEPT ![t] = n],
         y6' = y6, Kept, (D!RequestPriced(n))', (D!ListsPriced)'
  PROVE  (D!PricesInv)'
<1>1. \A s \in Requests : y5'[s] = IF s = t THEN n ELSE y5[s]
  BY DEF D!BookingInv
<1>2. (\A s \in Requests : D!RequestPriced(y5[s]))'
  <2>1. ASSUME NEW s \in Requests PROVE (D!RequestPriced(y5[s]))'
    <3>1. PICK m : m = y5'[s]
      OBVIOUS
    <3>2. (D!RequestPriced(m))'
      <4>1. CASE s = t
        BY <1>1, <3>1, <4>1
      <4>2. CASE s # t
        <5>1. D!RequestPriced(m)
          BY <1>1, <3>1, <4>2 DEF D!PricesInv
        <5> QED BY <5>1, RequestStaysPriced
      <4> QED BY <4>1, <4>2
    <3> QED BY <3>1, <3>2 DEF D!RequestPriced, D!Between
  <2> QED BY <2>1
<1>3. (y6.pc = "holds" => y6.seen \in D!Row /\ (y6.list = "stock" => D!Between(y6.seen.price)))'
  BY DEF D!PricesInv, D!Between, Kept
<1> QED
  BY <1>2, <1>3 DEF D!PricesInv

\* The rows a list begins with count as paid.
LEMMA DeskPricesInit ==
  ASSUME D!DeskInit
  PROVE  D!PricesInv
<1>1. PICK s \in StartRows, w \in StartRows :
        y1 = [stock |-> s, wish |-> [i \in DOMAIN w |-> [w[i] EXCEPT !.price = 0]], entries |-> <<>>]
  BY DEF D!DeskInit
<1>2. s \in Seq([count : Nat \ {0}, price : Int]) /\ w \in Seq([count : Nat \ {0}, price : Int])
  BY DeskAssumption
<1>3. /\ DOMAIN s \subseteq Nat /\ DOMAIN w \subseteq Nat /\ IsFiniteSet(DOMAIN s) /\ IsFiniteSet(DOMAIN w)
      /\ \A i \in DOMAIN s : s[i] \in D!Row
      /\ \A i \in DOMAIN w : [w[i] EXCEPT !.price = 0] \in D!Row
  <2>1. DOMAIN s = 1..Len(s) /\ DOMAIN w = 1..Len(w) /\ Len(s) \in Nat /\ Len(w) \in Nat
    BY <1>2
  <2>2. \A r \in D!Row : [r EXCEPT !.price = 0] \in D!Row
    BY DEF D!Row
  <2>3. (\A i \in DOMAIN s : s[i] \in D!Row) /\ (\A i \in DOMAIN w : w[i] \in D!Row)
    <3>1. \A S : \A x \in Seq(S) : \A i \in DOMAIN x : x[i] \in S
      OBVIOUS
    <3>2. \A r \in [count : Nat \ {0}, price : Int] : r \in [count : Nat, price : Int]
      OBVIOUS
    <3>3. PICK S : S = [count : Nat \ {0}, price : Int]
      OBVIOUS
    <3>4. s \in Seq(S) /\ w \in Seq(S)
      BY <1>2, <3>3, Zenon
    <3>5. (\A i \in DOMAIN s : s[i] \in S) /\ (\A i \in DOMAIN w : w[i] \in S)
      BY <3>1, <3>4, Zenon
    <3> QED BY <3>2, <3>3, <3>5 DEF D!Row
  <2>4. IsFiniteSet(1..Len(s)) /\ IsFiniteSet(1..Len(w))
    BY <2>1, FS_Interval
  <2>5. \A i \in DOMAIN w : [w[i] EXCEPT !.price = 0] \in D!Row
    BY <2>2, <2>3
  <2> QED BY <2>1, <2>3, <2>4, <2>5
<1>4. y8 = {s[i].price : i \in DOMAIN s}
  BY <1>1 DEF D!DeskInit
<1>5. y8 \subseteq Int /\ IsFiniteSet(y8)
  <2>1. [i \in DOMAIN s |-> s[i].price] \in Surjection(DOMAIN s, y8)
    BY <1>4 DEF Surjection
  <2> QED BY <1>3, <1>4, <2>1, FS_Surjection DEF D!Row
<1>6. \A i \in DOMAIN s : D!Between(s[i].price)
  <2>1. ASSUME NEW i \in DOMAIN s PROVE D!Between(s[i].price)
    <3>1. s[i].price \in y8 /\ s[i].price <= s[i].price
      BY <1>3, <1>4 DEF D!Row
    <3> QED BY <3>1 DEF D!Between
  <2> QED BY <2>1
<1>7. DOMAIN y1 = D!Lists /\ y1 = [l \in D!Lists |-> y1[l]]
  BY <1>1 DEF D!Lists
<1>8. D!ListsPriced
  <2>1. y1["stock"] = s /\ y1["entries"] = <<>>
        /\ y1["wish"] = [i \in DOMAIN w |-> [w[i] EXCEPT !.price = 0]]
    BY <1>1
  <2>2. \A l \in D!Lists : /\ DOMAIN y1[l] \subseteq Nat /\ IsFiniteSet(DOMAIN y1[l])
                           /\ \A i \in DOMAIN y1[l] : y1[l][i] \in D!Row
    BY <1>3, <2>1, FS_EmptySet DEF D!Lists
  <2> QED BY <1>5, <1>6, <1>7, <2>1, <2>2, DeskFinite DEF D!ListsPriced
<1>9. \A t \in Requests : D!RequestPriced(y5[t])
  BY DEF D!DeskInit, D!Waiting, D!RequestPriced, D!Lists, D!Serving
<1> QED
  BY <1>8, <1>9 DEF D!PricesInv, D!DeskInit, D!AtRest

\* Unit prices are integers, and few.
LEMMA UnitPricesAre ==
  ASSUME NEW q \in Nat, NEW p \in Int
  PROVE  D!UnitPrices(q, p) \subseteq Int /\ IsFiniteSet(D!UnitPrices(q, p))
<1>1. CASE q <= 1
  BY <1>1, FS_Singleton DEF D!UnitPrices
<1>2. CASE ~(q <= 1)
  <2> DEFINE a == p \div q
             b == (p + q - 1) \div q
  <2>1. a \in Int /\ b \in Int
    BY <1>2
  <2>2. D!UnitPrices(q, p) = {a} \cup {b}
    BY <1>2 DEF D!UnitPrices
  <2>3. IsFiniteSet({a} \cup {b})
    BY FS_Singleton, FS_Union
  <2> QED BY <2>1, <2>2, <2>3
<1> QED
  BY <1>1, <1>2

\* A request comes in, and with it what it paid.
LEMMA HandlePrices ==
  ASSUME D!BookingInv, D!PricesInv, Kept, NEW t \in Requests, D!Handle(t)
  PROVE  (D!PricesInv)'
<1>1. PICK h \in D!Handlers, q \in DeskQuantities, p \in DeskPrices :
        /\ y5' = [y5 EXCEPT ![t] = [D!Run(y5[t], h) EXCEPT !.op = h.op, !.quantity = q, !.price = p]]
        /\ y8' = IF h.op \in {"create", "purchase"} THEN y8 \cup D!UnitPrices(q, p) ELSE y8
  BY DEF D!Handle
<1>2. PICK n : n = [D!Run(y5[t], h) EXCEPT !.op = h.op, !.quantity = q, !.price = p]
  OBVIOUS
<1>3. n.pc = "find" /\ n.op = h.op /\ n.price = p /\ n.quantity = q /\ n.list = h.list
  BY <1>2, RequestFacts DEF D!Run
<1>4. q \in Nat /\ p \in Int /\ h.list \in D!Lists
  BY DeskAssumption, HandlersAre DEF D!Lists
<1>5. y8' \subseteq Int /\ IsFiniteSet(y8')
  BY <1>1, <1>4, UnitPricesAre, PaidFacts, FS_Union
<1>6. (D!RequestPriced(n))'
  BY <1>1, <1>3, <1>4 DEF D!RequestPriced
<1>7. (D!ListsPriced)'
  BY <1>5, PaidFacts, ListsStay DEF D!Handle
<1> QED
  BY <1>1, <1>2, <1>5, <1>6, <1>7, PricesAfter DEF D!Handle

\* It copies the first row of the item.
LEMMA FindPrices ==
  ASSUME D!BookingInv, D!PricesInv, Kept, NEW t \in Requests, D!Find(t)
  PROVE  (D!PricesInv)'
<1> DEFINE l == y5[t].list
           ids == DOMAIN y1[l]
           row == IF ids = {} THEN D!None ELSE D!Min(ids)
           seen == IF ids = {} THEN <<>> ELSE y1[l][D!Min(ids)]
           pc == IF ~D!Takes(t) THEN "add" ELSE "take"
<1>1. /\ y5[t].pc = "find" /\ y1' = y1 /\ y6' = y6 /\ y8' = y8
      /\ y5' = [y5 EXCEPT ![t].row = row, ![t].seen = seen, ![t].pc = pc]
  BY DEF D!Find
<1>2. D!RequestPriced(y5[t])
  BY DEF D!PricesInv
<1>3. seen = <<>> \/ (seen \in D!Row /\ (l = "stock" => D!Between(seen.price)))
  <2>1. l \in D!Lists
    BY <1>2 DEF D!RequestPriced
  <2>2. CASE ids = {}
    BY <2>2
  <2>3. CASE ids # {}
    <3>1. D!Min(ids) \in ids
      BY <2>1, <2>3, ListFacts, PaidFacts, HasLeastId
    <3>2. y1[l][D!Min(ids)] \in D!Row /\ (l = "stock" => D!Between(y1[l][D!Min(ids)].price))
      BY <2>1, <3>1, ListFacts, PaidFacts
    <3> QED BY <2>3, <3>2
  <2> QED BY <2>2, <2>3
<1>4. pc \in {"add", "take"}
  OBVIOUS
<1> HIDE DEF row, seen, pc
<1>5. PICK n : n = [y5[t] EXCEPT !.row = row, !.seen = seen, !.pc = pc]
  OBVIOUS
<1>6. y5' = [y5 EXCEPT ![t] = n]
  BY <1>1, <1>5, RequestFacts
<1>7. /\ n.pc = pc /\ n.op = y5[t].op /\ n.price = y5[t].price /\ n.quantity = y5[t].quantity
      /\ n.list = y5[t].list /\ n.seen = seen
  BY <1>5, RequestFacts
<1>8. D!RequestPriced(n)
  BY <1>1, <1>2, <1>3, <1>4, <1>7 DEF D!RequestPriced, D!Serving
<1> QED
  BY <1>1, <1>6, <1>8, PricesAfter, RequestStaysPriced, PaidFacts, ListsStay

\* A step that only moves the request on.
LEMMA GoPrices ==
  ASSUME D!BookingInv, D!PricesInv, NEW t \in Requests,
         NEW pc \in {"sync", "book", "drop", "done", "failed"},
         pc \in {"sync", "book"} => y5[t].pc \in D!Serving,
         D!Go(t, pc), y6' = y6, Kept, (D!ListsPriced)'
  PROVE  (D!PricesInv)'
<1>1. PICK n : n = [y5[t] EXCEPT !.pc = pc]
  OBVIOUS
<1>2. y5' = [y5 EXCEPT ![t] = n]
  BY <1>1, RequestFacts DEF D!Go
<1>3. n.pc = pc /\ n.list = y5[t].list /\ n.quantity = y5[t].quantity
  BY <1>1, RequestFacts
<1>4. D!RequestPriced(y5[t])
  BY DEF D!PricesInv
<1>5. D!RequestPriced(n)
  BY <1>3, <1>4 DEF D!RequestPriced, D!Serving
<1> QED
  BY <1>2, <1>5, RequestStaysPriced, PricesAfter

\* It copies the row again.
LEMMA RereadPrices ==
  ASSUME D!BookingInv, D!PricesInv, Kept, NEW t \in Requests, D!Reread(t)
  PROVE  (D!PricesInv)'
<1> DEFINE now == y5[t]
           there == now.row \in DOMAIN y1[now.list]
           seen == y1[now.list][now.row]
<1>1. /\ now.pc = "take" /\ y1' = y1 /\ y6' = y6 /\ y8' = y8
      /\ y5' = [y5 EXCEPT ![t] = IF there THEN [now EXCEPT !.seen = seen, !.pc = "change"]
                                 ELSE D!NotFound(now)]
  BY DEF D!Reread
<1>2. D!RequestPriced(now) /\ D!Booking(now, y9[t])
  BY RequestFacts DEF D!PricesInv
<1>3. (D!ListsPriced)'
  BY <1>1, PaidFacts, ListsStay
<1>4. now.list \in D!Lists /\ now.quantity \in Nat
      /\ (now.op \in {"create", "purchase"} => D!UnitPrices(now.quantity, now.price) \subseteq y8)
  BY <1>1, <1>2 DEF D!RequestPriced, D!Serving
<1>5. CASE there
  <2>1. PICK n : n = [now EXCEPT !.seen = seen, !.pc = "change"]
    OBVIOUS
  <2>2. /\ n.pc = "change" /\ n.seen = seen /\ n.quantity = now.quantity /\ n.list = now.list
    BY <2>1, RequestFacts
  <2>3. seen \in D!Row
    BY <1>4, <1>5, ListFacts, PaidFacts
  <2>4. D!RequestPriced(n)
    BY <1>4, <2>2, <2>3 DEF D!RequestPriced
  <2>5. y5' = [y5 EXCEPT ![t] = n]
    BY <1>1, <1>5, <2>1
  <2> QED BY <1>1, <1>3, <2>4, <2>5, PricesAfter, RequestStaysPriced
<1>6. CASE ~there /\ "ReturnOn:NotFound" \in now.flags
  <2>1. PICK n : n = D!Run(now, D!handle_item(now.op, "buy", D!item_flags("buy")))
    OBVIOUS
  <2>2. /\ n.pc = "find" /\ n.list = "stock" /\ n.quantity = now.quantity /\ n.price = now.price
        /\ n.op = now.op
    BY <2>1, RequestFacts DEF D!Run, D!handle_item
  <2>3. D!RequestPriced(n)
    BY <1>4, <2>2 DEF D!RequestPriced, D!Lists
  <2>4. y5' = [y5 EXCEPT ![t] = n]
    BY <1>1, <1>6, <2>1 DEF D!NotFound
  <2> QED BY <1>1, <1>3, <2>3, <2>4, PricesAfter, RequestStaysPriced
<1>7. CASE ~there /\ "ReturnOn:NotFound" \notin now.flags
  <2> DEFINE pc == IF "SkipWFMCheck:ItemSell_NotFound" \in now.flags THEN "book" ELSE "sync"
  <2>1. D!Go(t, pc)
    BY <1>1, <1>7, RequestFacts DEF D!Go, D!NotFound
  <2>2. pc \in {"sync", "book"}
    OBVIOUS
  <2> HIDE DEF pc
  <2> QED BY <1>1, <1>3, <2>1, <2>2, GoPrices DEF D!Serving
<1> QED
  BY <1>5, <1>6, <1>7

\* A row's count changes, its price does not.
LEMMA ChangePrices ==
  ASSUME D!BookingInv, D!PricesInv, Kept, NEW t \in Requests, D!Change(t)
  PROVE  (D!PricesInv)'
<1> DEFINE now == y5[t]
           left == IF now.list = "stock" THEN D!sold_by_id(now.seen, now.quantity)
                   ELSE D!bought_by_id(now.seen, now.quantity)
           there == now.row \in DOMAIN y1[now.list]
<1>1. now.pc = "change" /\ y6' = y6 /\ y8' = y8 /\ now.pc \in D!Serving
  BY DEF D!Change, D!Serving
<1>2. D!RequestPriced(now)
  BY DEF D!PricesInv
<1>3. now.list \in D!Lists /\ now.quantity \in Nat /\ now.seen \in D!Row
  BY <1>1, <1>2 DEF D!RequestPriced
<1>4. left \in Int
  BY <1>3 DEF D!sold_by_id, D!bought_by_id, D!Row
<1> HIDE DEF left
<1>5. \/ there /\ D!Go(t, "sync")
            /\ y1' = IF left <= 0 THEN D!WithoutRow(now.list, now.row)
                     ELSE D!WithRow(now.list, now.row, [y1[now.list][now.row] EXCEPT !.count = left])
      \/ y1' = y1 /\ (D!Go(t, "sync") \/ D!Go(t, "failed"))
  BY DEF D!Change, left
<1>6. CASE y1' = y1
  <2>1. (D!ListsPriced)'
    BY <1>1, <1>6, PaidFacts, ListsStay
  <2>2. D!Go(t, "sync") \/ D!Go(t, "failed")
    BY <1>5
  <2> QED BY <1>1, <2>1, <2>2, GoPrices
<1>7. CASE there /\ D!Go(t, "sync") /\ left <= 0 /\ y1' = D!WithoutRow(now.list, now.row)
  <2>1. PICK l \in D!Lists : l = now.list
    BY <1>3
  <2>2. PICK id : id = now.row
    OBVIOUS
  <2>3. (D!ListsPriced)'
    BY <1>1, <1>7, <2>1, <2>2, PaidFacts, RowIsDropped
  <2> QED BY <1>1, <1>7, <2>3, GoPrices
<1>8. CASE there /\ D!Go(t, "sync") /\ ~(left <= 0)
           /\ y1' = D!WithRow(now.list, now.row, [y1[now.list][now.row] EXCEPT !.count = left])
  <2> DEFINE old == y1[now.list][now.row]
             new == [old EXCEPT !.count = left]
  <2>1. /\ now.row \in Nat /\ old \in D!Row
        /\ (now.list = "stock" => D!Between(old.price))
    BY <1>3, <1>8, ListFacts, PaidFacts
  <2>2. new \in D!Row /\ new.price = old.price
    BY <1>4, <1>8, <2>1 DEF D!Row
  <2>3. PICK l \in D!Lists, id \in Nat, row \in D!Row : l = now.list /\ id = now.row /\ row = new
    BY <1>3, <2>1, <2>2
  <2>4. l = "stock" => D!Between(row.price)
    BY <2>1, <2>2, <2>3
  <2>5. (D!ListsPriced)'
    BY <1>1, <1>8, <2>3, <2>4, PaidFacts, RowIsWritten
  <2> QED BY <1>1, <1>8, <2>5, GoPrices
<1> QED
  BY <1>5, <1>6, <1>7, <1>8

\* What a purchase makes of the row it adds to.
LEMMA AddedRow ==
  ASSUME D!ListsPriced, NEW seen, NEW q \in Nat, NEW p \in Int,
         seen = <<>> \/ (seen \in D!Row /\ D!Between(seen.price)), D!UnitPrices(q, p) \subseteq y8,
         ~D!Panics(seen, q, p, "stock"), q = 0 /\ p > 0 => D!VoidLine
  PROVE  D!add_stock(seen, q, p) \in D!Row /\ D!Between(D!add_stock(seen, q, p).price)
<1>1. y8 \subseteq Int
  BY DEF D!ListsPriced
<1>2. PICK f \in y8, c \in y8 : (q > 1 => f = p \div q) /\ (q <= 1 => f = p)
                               /\ (q > 0 => f * q <= p /\ p <= c * q)
  <2>1. CASE q <= 1
    <3>1. p \in y8
      BY <2>1 DEF D!UnitPrices
    <3>2. q > 0 => q = 1
      BY <2>1
    <3> QED BY <2>1, <3>1, <3>2
  <2>2. CASE q > 1
    <3>1. (p \div q) \in y8 /\ ((p + q - 1) \div q) \in y8
      BY <2>2 DEF D!UnitPrices
    <3>2. (p \div q) * q <= p /\ p <= ((p + q - 1) \div q) * q
      BY <2>2
    <3> QED BY <2>2, <3>1, <3>2
  <2> QED BY <2>1, <2>2
<1>3. CASE seen = <<>>
  <2>1. D!add_stock(seen, q, p) = [count |-> q, price |-> f]
    BY <1>2, <1>3 DEF D!add_stock, D!to_model
  <2> QED BY <1>1, <2>1 DEF D!Row, D!Between
<1>4. CASE seen # <<>> /\ ~(p > 0)
  <2>1. D!add_stock(seen, q, p) = [count |-> seen.count + q, price |-> seen.price]
    BY <1>4 DEF D!add_stock
  <2> QED BY <1>4, <2>1 DEF D!Row
<1>5. CASE seen # <<>> /\ p > 0
  <2> DEFINE avg == (seen.price * seen.count + p) \div (seen.count + q)
  <2>1. D!add_stock(seen, q, p) = [count |-> seen.count + q, price |-> avg]
    BY <1>5 DEF D!add_stock
  <2>2. PICK l \in y8 : l <= seen.price
    BY <1>5 DEF D!Between
  <2>3. seen.count \in Nat /\ seen.price \in Int /\ seen.count + q # 0
    BY <1>5 DEF D!Row, D!Panics
  <2>4. PICK a \in y8 : a <= l /\ a <= f
    BY <1>1
  <2>5. a * q <= p
    <3>1. CASE q = 0
      BY <1>1, <1>5, <3>1
    <3>2. CASE q > 0
      <4>1. a * q <= f * q
        BY <1>1, <2>4
      <4>2. {a * q, f * q} \subseteq Int
        BY <1>1
      <4> QED BY <1>2, <3>2, <4>1, <4>2
    <3> QED BY <3>1, <3>2
  <2>6. a <= seen.price
    BY <1>1, <2>2, <2>3, <2>4
  <2>7. avg \in Int
    BY <2>3
  <2>8. a <= avg
    BY <1>1, <2>3, <2>5, <2>6, AverageIsOver
  <2>9. ASSUME ~D!VoidLine PROVE \E b \in y8 : avg <= b
    <3>1. q > 0
      BY <1>5, <2>9
    <3>2. PICK g \in y8 : seen.price <= g
      BY <1>5, <2>9 DEF D!Between
    <3>3. PICK b \in y8 : g <= b /\ c <= b
      BY <1>1
    <3>4. c * q <= b * q /\ {b * q, c * q} \subseteq Int
      BY <1>1, <3>3
    <3>5. p <= b * q
      BY <1>2, <3>1, <3>4
    <3>6. seen.price <= b
      BY <1>1, <2>3, <3>2, <3>3
    <3>7. avg <= b
      BY <1>1, <2>3, <3>5, <3>6, AverageIsUnder
    <3> QED BY <3>7
  <2> HIDE DEF avg
  <2>10. D!Between(avg)
    BY <2>8, <2>9 DEF D!Between
  <2>11. [count |-> seen.count + q, price |-> avg] \in D!Row
    BY <2>3, <2>7 DEF D!Row
  <2> QED BY <2>1, <2>10, <2>11
<1> QED
  BY <1>3, <1>4, <1>5

\* A row is added or averaged.
LEMMA AddPrices ==
  ASSUME D!BookingInv, D!PricesInv, Kept, NEW t \in Requests, D!Add(t)
  PROVE  (D!PricesInv)'
<1> DEFINE now == y5[t]
           id == IF now.row = D!None THEN D!FreshId(now.list) ELSE now.row
           row == IF now.list = "stock" THEN D!add_stock(now.seen, now.quantity, now.price)
                  ELSE D!add_wish(now.seen, now.quantity)
<1>1. now.pc = "add" /\ now.pc \in D!Serving /\ y6' = y6 /\ y8' = y8
  BY DEF D!Add, D!Serving
<1>2. D!RequestPriced(now) /\ D!Booking(now, y9[t])
  BY RequestFacts DEF D!PricesInv
<1>3. /\ now.list \in D!Lists /\ now.quantity \in Nat /\ now.price \in Int
      /\ now.seen = <<>> \/ (now.seen \in D!Row /\ (now.list = "stock" => D!Between(now.seen.price)))
  BY <1>1, <1>2 DEF D!RequestPriced, D!Booking
<1>4. CASE D!Go(t, "failed") /\ y1' = y1
  BY <1>1, <1>4, PaidFacts, ListsStay, GoPrices
<1>5. CASE ~(now.row # D!None /\ now.row \notin DOMAIN y1[now.list]) /\ D!Go(t, "sync")
           /\ y1' = D!WithRow(now.list, id, row)
           /\ ~D!Panics(now.seen, now.quantity, now.price, now.list)
  <2>1. id \in Nat
    <3>1. CASE now.row = D!None
      BY <1>3, <3>1, FreshIsId, PaidFacts
    <3>2. CASE now.row # D!None
      BY <1>3, <1>5, <3>2, ListFacts, PaidFacts
    <3> QED BY <3>1, <3>2
  <2>2. row \in D!Row /\ (now.list = "stock" => D!Between(row.price))
    <3>1. CASE now.list = "stock"
      <4>1. now.op \in {"create", "purchase"}
        <5>1. D!HandlerOf(now) \in D!Handlers \cup {D!handle_item("purchase", "buy", {})}
              /\ now.side # "sell"
          BY <1>1, <1>2, <3>1 DEF D!Booking
        <5> QED BY <3>1, <5>1, HandlersAre DEF D!HandlerOf
      <4>2. D!UnitPrices(now.quantity, now.price) \subseteq y8
        BY <1>1, <1>2, <4>1 DEF D!RequestPriced
      <4>3. now.quantity = 0 /\ now.price > 0 => D!VoidLine
        BY <4>1 DEF D!VoidLine
      <4>4. ~D!Panics(now.seen, now.quantity, now.price, "stock")
        BY <1>5, <3>1
      <4>5. now.seen = <<>> \/ (now.seen \in D!Row /\ D!Between(now.seen.price))
        BY <1>3, <3>1
      <4> QED BY <1>3, <3>1, <4>2, <4>3, <4>4, <4>5, AddedRow, PaidFacts
    <3>2. CASE now.list # "stock"
      BY <1>3, <3>2 DEF D!add_wish, D!Row
    <3> QED BY <3>1, <3>2
  <2> HIDE DEF id, row
  <2>3. PICK l \in D!Lists, i \in Nat, r \in D!Row : l = now.list /\ i = id /\ r = row
    BY <1>3, <2>1, <2>2
  <2>4. (D!ListsPriced)'
    BY <1>1, <1>5, <2>2, <2>3, PaidFacts, RowIsWritten
  <2> QED BY <1>1, <1>5, <2>4, GoPrices
<1> QED
  BY <1>4, <1>5 DEF D!Add

\* The commands write prices that were entered.
LEMMA CommandPrices ==
  ASSUME D!BookingInv, D!PricesInv, Kept, NEW t \in Requests, D!Command(t)
  PROVE  (D!PricesInv)'
<1>1. D!RequestPriced(y5[t]) /\ D!Booking(y5[t], y9[t])
  BY RequestFacts DEF D!PricesInv
<1>2. y5[t].list \in D!Lists
  BY <1>1 DEF D!RequestPriced
<1>3. ASSUME NEW pc \in {"unlist", "drop", "enter"}, NEW n, n.pc = pc, n.list \in D!Lists,
             y5' = [y5 EXCEPT ![t] = n], y1' = y1, y6' = y6, y8' = y8
      PROVE  (D!PricesInv)'
  <2>1. D!RequestPriced(n)
    BY <1>3 DEF D!RequestPriced, D!Serving
  <2> QED BY <1>3, <2>1, PricesAfter, RequestStaysPriced, PaidFacts, ListsStay
<1>4. ASSUME NEW l \in D!Lists, D!DeleteRow(t, l) PROVE (D!PricesInv)'
  <2>1. PICK id : y5' = [y5 EXCEPT ![t].op = "delete", ![t].list = l, ![t].ids = {id}, ![t].pc = "unlist"]
    BY <1>4 DEF D!DeleteRow
  <2>2. PICK n : n = [y5[t] EXCEPT !.op = "delete", !.list = l, !.ids = {id}, !.pc = "unlist"]
    OBVIOUS
  <2>3. y5' = [y5 EXCEPT ![t] = n]
    BY <2>1, <2>2, RequestFacts
  <2>4. n.pc = "unlist" /\ n.list = l
    BY <2>2, RequestFacts
  <2> QED BY <1>3, <1>4, <2>3, <2>4 DEF D!DeleteRow
<1>5. ASSUME NEW l \in D!Lists, D!DeleteRows(t, l) PROVE (D!PricesInv)'
  <2>1. PICK ids : y5' = [y5 EXCEPT ![t].op = "delete_multiple", ![t].list = l, ![t].ids = ids, ![t].pc = "drop"]
    BY <1>5 DEF D!DeleteRows
  <2>2. PICK n : n = [y5[t] EXCEPT !.op = "delete_multiple", !.list = l, !.ids = ids, !.pc = "drop"]
    OBVIOUS
  <2>3. y5' = [y5 EXCEPT ![t] = n]
    BY <2>1, <2>2, RequestFacts
  <2>4. n.pc = "drop" /\ n.list = l
    BY <2>2, RequestFacts
  <2> QED BY <1>3, <1>5, <2>3, <2>4 DEF D!DeleteRows
<1>6. CASE D!trade_entry_create(t)
  <2>1. PICK p \in DeskPrices : \E row :
          y5' = [y5 EXCEPT ![t].op = "entry", ![t].list = "entries", ![t].price = p, ![t].row = row,
                           ![t].pc = "enter"]
    BY <1>6 DEF D!trade_entry_create
  <2>2. PICK row : y5' = [y5 EXCEPT ![t].op = "entry", ![t].list = "entries", ![t].price = p,
                                    ![t].row = row, ![t].pc = "enter"]
    BY <2>1
  <2>3. PICK n : n = [y5[t] EXCEPT !.op = "entry", !.list = "entries", !.price = p, !.row = row, !.pc = "enter"]
    OBVIOUS
  <2>4. y5' = [y5 EXCEPT ![t] = n]
    BY <2>2, <2>3, RequestFacts
  <2>5. n.pc = "enter" /\ n.list = "entries"
    BY <2>3, RequestFacts
  <2> QED BY <1>3, <1>6, <2>4, <2>5 DEF D!trade_entry_create, D!Lists
<1>7. CASE D!Unlist(t)
  BY <1>7, GoPrices, PaidFacts, ListsStay DEF D!Unlist
<1>8. CASE D!Drop(t)
  <2> DEFINE id == D!Min(y5[t].ids)
             rest == y5[t].ids \ {id}
             pc == IF rest = {} THEN "done" ELSE "drop"
  <2>1. y6' = y6 /\ y8' = y8
    BY <1>8 DEF D!Drop
  <2>2. CASE D!Go(t, "failed") /\ y1' = y1
    BY <2>1, <2>2, GoPrices, PaidFacts, ListsStay
  <2>3. CASE y1' = D!WithoutRow(y5[t].list, id) /\ y5' = [y5 EXCEPT ![t].ids = rest, ![t].pc = pc]
    <3>1. PICK n : n = [y5[t] EXCEPT !.ids = rest, !.pc = pc]
      OBVIOUS
    <3>2. y5' = [y5 EXCEPT ![t] = n]
      BY <2>3, <3>1, RequestFacts
    <3>3. n.pc \in {"done", "drop"} /\ n.list = y5[t].list
      BY <3>1, RequestFacts
    <3>4. D!RequestPriced(n)
      BY <1>2, <3>3 DEF D!RequestPriced, D!Serving
    <3>5. PICK l \in D!Lists : l = y5[t].list
      BY <1>2
    <3>6. PICK i : i = id
      OBVIOUS
    <3> HIDE DEF id
    <3>7. (D!ListsPriced)'
      BY <2>1, <2>3, <3>5, <3>6, PaidFacts, RowIsDropped
    <3> QED BY <2>1, <3>2, <3>4, <3>7, PricesAfter, RequestStaysPriced
  <2> QED BY <1>8, <2>2, <2>3 DEF D!Drop
<1>9. CASE D!Enter(t)
  <2> DEFINE now == y5[t]
             id == IF now.row = D!None THEN D!FreshId("entries") ELSE now.row
             row == [count |-> 1, price |-> now.price]
  <2>1. y6' = y6 /\ y8' = y8 /\ "entries" \in D!Lists
    BY <1>9 DEF D!Enter, D!Lists
  <2>2. CASE D!Go(t, "failed") /\ y1' = y1
    BY <2>1, <2>2, GoPrices, PaidFacts, ListsStay
  <2>3. CASE /\ ~(now.row # D!None /\ now.row \notin DOMAIN y1["entries"]) /\ D!Go(t, "done")
             /\ y1' = D!WithRow("entries", id, row)
    <3>1. id \in Nat
      BY <2>1, <2>3, FreshIsId, ListFacts, PaidFacts
    <3>2. row \in D!Row
      BY <1>1 DEF D!Row, D!Booking
    <3> HIDE DEF id, row
    <3>3. PICK i \in Nat, r \in D!Row : i = id /\ r = row
      BY <3>1, <3>2
    <3>4. (D!ListsPriced)'
      BY <2>1, <2>3, <3>3, PaidFacts, RowIsWritten
    <3> QED BY <2>1, <2>3, <3>4, GoPrices
  <2>4. y1["entries"] = y1.entries
    OBVIOUS
  <2> QED BY <1>9, <2>2, <2>3, <2>4 DEF D!Enter
<1>10. ASSUME NEW l \in D!Lists, D!UpdateRow(t, l) PROVE (D!PricesInv)'
  <2>1. PICK fields \in SUBSET {"count", "price"}, q \in DeskQuantities, p \in DeskPrices,
             id \in DOMAIN y1[l] :
          /\ y1' = [y1 EXCEPT ![l][id] = D!apply_to(y1[l][id], fields, q, p)]
          /\ y8' = IF "price" \in fields THEN y8 \cup {p} ELSE y8
    BY <1>10 DEF D!UpdateRow
  <2>2. D!Go(t, "done") /\ y6' = y6
    BY <1>10 DEF D!UpdateRow
  <2>3. q \in Nat /\ p \in Int
    BY DeskAssumption
  <2> DEFINE old == y1[l][id]
  <2>4. old \in D!Row /\ (l = "stock" => D!Between(old.price))
    BY ListFacts, PaidFacts
  <2>5. PICK row : row = D!apply_to(old, fields, q, p)
    OBVIOUS
  <2>6. /\ row = [count |-> IF "count" \in fields THEN q ELSE old.count,
                  price |-> IF "price" \in fields THEN p ELSE old.price]
    <3>1. DOMAIN old = {"count", "price"}
      BY <2>4 DEF D!Row
    <3>2. row = [f \in {"count", "price"} |-> IF f \in fields THEN (IF f = "count" THEN q ELSE p) ELSE old[f]]
      BY <2>5, <3>1 DEF D!apply_to
    <3>3. old["count"] = old.count /\ old["price"] = old.price
      OBVIOUS
    <3> HIDE DEF old
    <3> QED BY <3>2, <3>3
  <2>7. row \in D!Row
    BY <2>3, <2>4, <2>6 DEF D!Row
  <2>8. PICK f : f = [y1[l] EXCEPT ![id] = row]
    OBVIOUS
  <2>9. y1' = [y1 EXCEPT ![l] = f]
    BY <2>1, <2>5, <2>8
  <2>10. y8' \subseteq Int /\ IsFiniteSet(y8')
    BY <2>1, <2>3, PaidFacts, FS_AddElement
  <2>11. DOMAIN f = DOMAIN y1[l] /\ \A i \in DOMAIN f : f[i] = IF i = id THEN row ELSE y1[l][i]
    BY <2>8
  <2>12. l = "stock" => BetweenNext(row.price)
    <3>1. CASE "price" \in fields
      BY <2>1, <2>3, <2>6, <3>1 DEF BetweenNext
    <3>2. CASE "price" \notin fields
      BY <2>4, <2>6, <2>10, <3>2, BetweenStays
    <3> QED BY <3>1, <3>2
  <2>13. l = "stock" => \A i \in DOMAIN f : BetweenNext(f[i].price)
    BY <2>10, <2>11, <2>12, ListFacts, PaidFacts, BetweenStays
  <2>14. DOMAIN f \subseteq Nat /\ IsFiniteSet(DOMAIN f) /\ \A i \in DOMAIN f : f[i] \in D!Row
    BY <2>7, <2>11, ListFacts, PaidFacts
  <2>15. (D!ListsPriced)'
    BY <2>9, <2>10, <2>13, <2>14, ListsAfter, PaidFacts
  <2> QED BY <2>2, <2>10, <2>15, GoPrices
<1>11. CASE D!transaction_update(t) \/ D!transaction_delete(t) \/ D!order_delete_all(t) \/ D!order_delete_by_id(t)
  <2>1. D!Go(t, "done") /\ y1' = y1 /\ y6' = y6 /\ y8' = y8
    BY <1>11 DEF D!transaction_update, D!transaction_delete, D!order_delete_all, D!order_delete_by_id
  <2> QED BY <2>1, GoPrices, PaidFacts, ListsStay
<1>12. {"stock", "wish", "entries"} \subseteq D!Lists
  BY DEF D!Lists
<1> QED
  BY <1>4, <1>5, <1>6, <1>7, <1>8, <1>9, <1>10, <1>11, <1>12
     DEF D!Command, D!stock_item_delete, D!wish_list_delete, D!stock_item_delete_multiple,
         D!wish_list_delete_multiple, D!trade_entry_delete_multiple, D!stock_item_update,
         D!wish_list_update, D!trade_entry_update

\* The trader writes back the row it read.
LEMMA TraderPrices ==
  ASSUME D!PricesInv, Kept, D!ReadRow \/ D!finalize_stock_item \/ D!finalize_wishlist_item \/ D!NextCycle
  PROVE  (D!PricesInv)'
<1>1. y5' = y5 /\ y8' = y8
  BY DEF D!ReadRow, D!finalize_stock_item, D!finalize_wishlist_item, D!FinalizeRow, D!NextCycle
<1>2. (\A t \in Requests : D!RequestPriced(y5[t]))'
  BY <1>1, RequestStaysPriced DEF D!PricesInv
<1>3. {"stock", "wish"} \subseteq D!Lists
  BY DEF D!Lists
<1>4. CASE D!ReadRow
  <2> PICK l \in {"stock", "wish"} : \E id \in DOMAIN y1[l] :
        y6' = [pc |-> "holds", list |-> l, row |-> id, seen |-> y1[l][id]]
    BY <1>4 DEF D!ReadRow
  <2>1. PICK id \in DOMAIN y1[l] :
          y6' = [pc |-> "holds", list |-> l, row |-> id, seen |-> y1[l][id]]
    OBVIOUS
  <2>2. y1[l][id] \in D!Row /\ (l = "stock" => D!Between(y1[l][id].price))
    BY <1>3, ListFacts, PaidFacts
  <2>3. (D!ListsPriced)'
    BY <1>1, <1>4, PaidFacts, ListsStay DEF D!ReadRow
  <2> QED BY <1>1, <1>2, <2>1, <2>2, <2>3 DEF D!PricesInv, D!Between, Kept
<1>5. CASE D!NextCycle
  <2>1. (D!ListsPriced)' /\ y6'.pc # "holds"
    BY <1>1, <1>5, PaidFacts, ListsStay DEF D!NextCycle, D!AtRest
  <2> QED BY <1>2, <2>1 DEF D!PricesInv
<1>6. ASSUME NEW l \in {"stock", "wish"}, D!FinalizeRow(l) PROVE (D!PricesInv)'
  <2>1. y6'.pc # "holds"
    BY <1>6 DEF D!FinalizeRow, D!AtRest
  <2>2. CASE y1' = y1
    <3>1. (D!ListsPriced)'
      BY <1>1, <2>2, PaidFacts, ListsStay
    <3> QED BY <1>2, <2>1, <3>1 DEF D!PricesInv
  <2>3. CASE y6.row \in DOMAIN y1[l] /\ y1' = D!WithRow(l, y6.row, y6.seen)
    <3>1. y6.seen \in D!Row /\ (l = "stock" => D!Between(y6.seen.price))
      BY <1>6 DEF D!PricesInv, D!FinalizeRow
    <3>2. PICK i \in Nat, r \in D!Row : i = y6.row /\ r = y6.seen
      BY <1>3, <2>3, <3>1, ListFacts, PaidFacts
    <3>3. (D!ListsPriced)'
      BY <1>1, <1>3, <2>3, <3>1, <3>2, PaidFacts, RowIsWritten
    <3> QED BY <1>2, <2>1, <3>3 DEF D!PricesInv
  <2> QED BY <1>6, <2>2, <2>3 DEF D!FinalizeRow, D!to_update
<1> QED
  BY <1>4, <1>5, <1>6 DEF D!finalize_stock_item, D!finalize_wishlist_item

\* Every step keeps what was paid and how it was entered.
LEMMA DeskKeeps ==
  ASSUME D!BookingInv, D!DeskNext
  PROVE  Kept
<1>1. ASSUME NEW t \in Requests, NEW n, y5' = [y5 EXCEPT ![t] = n], y8 \subseteq y8',
             y5[t].pc # "waiting" => n.op = y5[t].op /\ n.quantity = y5[t].quantity /\ n.price = y5[t].price
      PROVE  Kept
  BY <1>1, VoidStays DEF Kept
<1>2. ASSUME NEW t \in Requests, NEW pc, D!Go(t, pc), y8 \subseteq y8' PROVE Kept
  <2>1. PICK n : n = [y5[t] EXCEPT !.pc = pc]
    OBVIOUS
  <2>2. y5' = [y5 EXCEPT ![t] = n]
    BY <1>2, <2>1, RequestFacts DEF D!Go
  <2>3. n.op = y5[t].op /\ n.quantity = y5[t].quantity /\ n.price = y5[t].price
    BY <2>1, RequestFacts
  <2> QED BY <1>1, <1>2, <2>2, <2>3
<1>3. ASSUME NEW t \in Requests, D!Handle(t) PROVE Kept
  <2>1. PICK n : y5' = [y5 EXCEPT ![t] = n]
    BY <1>3 DEF D!Handle
  <2>2. y5[t].pc = "waiting" /\ y8 \subseteq y8'
    BY <1>3 DEF D!Handle
  <2> QED BY <1>1, <2>1, <2>2
<1>4. ASSUME NEW t \in Requests, D!Find(t) PROVE Kept
  <2>1. PICK row, seen, pc : y5' = [y5 EXCEPT ![t].row = row, ![t].seen = seen, ![t].pc = pc] /\ y8' = y8
    BY <1>4 DEF D!Find
  <2>2. PICK n : n = [y5[t] EXCEPT !.row = row, !.seen = seen, !.pc = pc]
    OBVIOUS
  <2>3. y5' = [y5 EXCEPT ![t] = n]
    BY <2>1, <2>2, RequestFacts
  <2>4. n.op = y5[t].op /\ n.quantity = y5[t].quantity /\ n.price = y5[t].price
    BY <2>2, RequestFacts
  <2> QED BY <1>1, <2>1, <2>3, <2>4
<1>5. ASSUME NEW t \in Requests, D!Reread(t) PROVE Kept
  <2> DEFINE there == y5[t].row \in DOMAIN y1[y5[t].list]
             copy == [y5[t] EXCEPT !.seen = y1[y5[t].list][y5[t].row], !.pc = "change"]
             other == D!NotFound(y5[t])
  <2>1. PICK n : n = IF there THEN copy ELSE other
    OBVIOUS
  <2>2. y5' = [y5 EXCEPT ![t] = n] /\ y8' = y8
    BY <1>5, <2>1 DEF D!Reread
  <2>3. copy.op = y5[t].op /\ copy.quantity = y5[t].quantity /\ copy.price = y5[t].price
    BY RequestFacts
  <2>4. other.op = y5[t].op /\ other.quantity = y5[t].quantity /\ other.price = y5[t].price
    BY RequestFacts DEF D!NotFound, D!Run, D!handle_item
  <2> HIDE DEF copy, other
  <2>5. n.op = y5[t].op /\ n.quantity = y5[t].quantity /\ n.price = y5[t].price
    BY <2>1, <2>3, <2>4
  <2> QED BY <1>1, <2>2, <2>5
<1>6. ASSUME NEW t \in Requests, D!Change(t) \/ D!Add(t) \/ D!Sync(t) \/ D!Book(t) \/ D!Fail(t)
      PROVE  Kept
  <2>1. \E pc : D!Go(t, pc)
    BY <1>6 DEF D!Change, D!Add, D!Sync, D!Book, D!Fail
  <2>2. y8' = y8
    BY <1>6 DEF D!Change, D!Add, D!Sync, D!Book, D!Fail
  <2> QED BY <1>2, <2>1, <2>2
<1>7. ASSUME NEW t \in Requests, D!Command(t) PROVE Kept
  <2>1. ASSUME y5[t].pc = "waiting", NEW n, y5' = [y5 EXCEPT ![t] = n], y8 \subseteq y8' PROVE Kept
    BY <1>1, <2>1
  <2>2. ASSUME NEW l \in D!Lists, D!DeleteRow(t, l) \/ D!DeleteRows(t, l) PROVE Kept
    <3>1. y5[t].pc = "waiting" /\ y8' = y8 /\ \E n : y5' = [y5 EXCEPT ![t] = n]
      BY <2>2 DEF D!DeleteRow, D!DeleteRows
    <3> QED BY <2>1, <3>1
  <2>3. CASE D!trade_entry_create(t)
    <3>1. y5[t].pc = "waiting" /\ y8' = y8 /\ \E n : y5' = [y5 EXCEPT ![t] = n]
      BY <2>3 DEF D!trade_entry_create
    <3> QED BY <2>1, <3>1
  <2>4. CASE D!Unlist(t)
    BY <1>2, <2>4 DEF D!Unlist
  <2>5. CASE D!Drop(t)
    <3>1. y8' = y8
      BY <2>5 DEF D!Drop
    <3>2. CASE D!Go(t, "failed")
      BY <1>2, <3>1, <3>2
    <3>3. CASE \E ids, pc : y5' = [y5 EXCEPT ![t].ids = ids, ![t].pc = pc]
      <4>1. PICK ids, pc : y5' = [y5 EXCEPT ![t].ids = ids, ![t].pc = pc]
        BY <3>3
      <4>2. PICK n : n = [y5[t] EXCEPT !.ids = ids, !.pc = pc]
        OBVIOUS
      <4>3. y5' = [y5 EXCEPT ![t] = n]
        BY <4>1, <4>2, RequestFacts
      <4>4. n.op = y5[t].op /\ n.quantity = y5[t].quantity /\ n.price = y5[t].price
        BY <4>2, RequestFacts
      <4> QED BY <1>1, <3>1, <4>3, <4>4
    <3> QED BY <2>5, <3>2, <3>3 DEF D!Drop
  <2>6. CASE D!Enter(t)
    <3>1. y8' = y8 /\ \E pc : D!Go(t, pc)
      BY <2>6 DEF D!Enter
    <3> QED BY <1>2, <3>1
  <2>7. ASSUME NEW l \in D!Lists, D!UpdateRow(t, l) PROVE Kept
    <3>1. D!Go(t, "done") /\ y8 \subseteq y8'
      BY <2>7 DEF D!UpdateRow
    <3> QED BY <1>2, <3>1
  <2>8. CASE D!transaction_update(t) \/ D!transaction_delete(t) \/ D!order_delete_all(t) \/ D!order_delete_by_id(t)
    <3>1. D!Go(t, "done") /\ y8' = y8
      BY <2>8 DEF D!transaction_update, D!transaction_delete, D!order_delete_all, D!order_delete_by_id
    <3> QED BY <1>2, <3>1
  <2>9. {"stock", "wish", "entries"} \subseteq D!Lists
    BY DEF D!Lists
  <2> QED
    BY <1>7, <2>2, <2>3, <2>4, <2>5, <2>6, <2>7, <2>8, <2>9
       DEF D!Command, D!stock_item_delete, D!wish_list_delete, D!stock_item_delete_multiple,
           D!wish_list_delete_multiple, D!trade_entry_delete_multiple, D!stock_item_update,
           D!wish_list_update, D!trade_entry_update
<1>8. CASE D!ReadRow \/ D!finalize_stock_item \/ D!finalize_wishlist_item \/ D!NextCycle
  <2>1. y5' = y5 /\ y8' = y8
    BY <1>8 DEF D!ReadRow, D!finalize_stock_item, D!finalize_wishlist_item, D!FinalizeRow, D!NextCycle
  <2> QED BY <2>1 DEF Kept, D!VoidLine
<1> QED
  BY <1>3, <1>4, <1>5, <1>6, <1>7, <1>8 DEF D!DeskNext, D!Serve

\* Every step keeps the prices within their bounds.
LEMMA DeskKeepsPrices ==
  ASSUME D!BookingInv, D!PricesInv, D!DeskNext
  PROVE  (D!PricesInv)'
<1>0. Kept
  BY DeskKeeps
<1>1. ASSUME NEW t \in Requests, D!Sync(t) \/ D!Book(t) \/ D!Fail(t) PROVE (D!PricesInv)'
  <2>1. y1' = y1 /\ y6' = y6 /\ y8' = y8
    BY <1>1 DEF D!Sync, D!Book, D!Fail
  <2>2. \E pc \in {"book", "done", "failed"} :
          D!Go(t, pc) /\ (pc = "book" => y5[t].pc \in D!Serving)
    BY <1>1 DEF D!Sync, D!Book, D!Fail, D!Serving
  <2> QED BY <1>0, <2>1, <2>2, GoPrices, PaidFacts, ListsStay
<1>2. ASSUME NEW t \in Requests, D!Handle(t) \/ D!Serve(t) \/ D!Command(t) \/ D!Fail(t)
      PROVE  (D!PricesInv)'
  BY <1>0, <1>1, <1>2, HandlePrices, FindPrices, RereadPrices, ChangePrices, AddPrices, CommandPrices DEF D!Serve
<1> QED
  BY <1>0, <1>2, TraderPrices DEF D!DeskNext

\* What lies within the bounds lies over the least and under the greatest.
LEMMA PricesAreBetween ==
  ASSUME D!PricesInv
  PROVE  D!AveragePriceIsPaid
<1> SUFFICES ASSUME NEW i \in DOMAIN y1["stock"]
             PROVE  D!Min(y8) <= y1["stock"][i].price /\ (D!VoidLine \/ y1["stock"][i].price <= D!Max(y8))
  BY DEF D!AveragePriceIsPaid
<1>1. D!Between(y1["stock"][i].price) /\ y1["stock"][i] \in D!Row
  BY PaidFacts, ListFacts DEF D!Lists
<1>2. y8 \subseteq Int /\ IsFiniteSet(y8) /\ y8 # {}
  BY <1>1, PaidFacts DEF D!Between
<1>3. PICK l \in y8, g \in y8 : \A y \in y8 : l <= y /\ y <= g
  BY <1>2, FiniteHasBounds
<1>4. D!Min(y8) \in y8 /\ \A y \in y8 : D!Min(y8) <= y
  BY <1>3 DEF D!Min
<1>5. D!Max(y8) \in y8 /\ \A y \in y8 : y <= D!Max(y8)
  <2>1. \A y \in y8 : g >= y
    BY <1>2, <1>3
  <2>2. D!Max(y8) \in y8 /\ \A y \in y8 : D!Max(y8) >= y
    BY <1>3, <2>1 DEF D!Max
  <2> QED BY <1>2, <2>2
<1>6. PICK p \in Int : p = y1["stock"][i].price
  BY <1>1 DEF D!Row
<1>7. D!Min(y8) <= p
  <2>1. PICK a \in y8 : a <= p
    BY <1>1, <1>6 DEF D!Between
  <2>2. D!Min(y8) <= a /\ a \in Int /\ D!Min(y8) \in Int
    BY <1>2, <1>4, <2>1
  <2> QED BY <2>1, <2>2
<1>8. ASSUME ~D!VoidLine PROVE p <= D!Max(y8)
  <2>1. PICK b \in y8 : p <= b
    BY <1>1, <1>6, <1>8 DEF D!Between
  <2>2. b <= D!Max(y8) /\ b \in Int /\ D!Max(y8) \in Int
    BY <1>2, <1>5, <2>1
  <2> QED BY <2>1, <2>2
<1> QED
  BY <1>6, <1>7, <1>8
-----------------------------------------------------------------------------
(* The rules and the desk, of the parts side by side.                         *)

DeskInv ==
  /\ subject = "rules" => P!RulesInv
  /\ subject = "desk" => D!BookingInv

\* A step that changes nothing keeps the invariant.
LEMMA DeskStutter ==
  ASSUME DeskInv, UNCHANGED trading
  PROVE  DeskInv'
<1>1. (P!RulesInv)' <=> P!RulesInv
  BY DEF trading, P!RulesInv
<1>2. (D!BookingInv)' <=> D!BookingInv
  BY DEF trading, D!BookingInv, D!TradesAreBookedOnce
<1> QED
  BY <1>1, <1>2 DEF DeskInv, trading

\* A step of any part keeps the invariant.
LEMMA DeskStep ==
  ASSUME DeskInv, [TradingNext]_trading
  PROVE  DeskInv'
<1>1. CASE DeskPart
  BY <1>1, DeskBooks DEF DeskPart, DeskInv
<1>2. CASE RulesPart
  BY <1>2, RulesNext DEF RulesPart, DeskInv
<1>3. CASE TraderPart \/ ResolvePart
  BY <1>3 DEF TraderPart, ResolvePart, DeskInv
<1>4. CASE UNCHANGED trading
  BY <1>4, DeskStutter
<1> QED
  BY <1>1, <1>2, <1>3, <1>4 DEF TradingNext

\* The rules' answers and the desk's books keep their inductive invariants.
THEOREM DeskInvariance == TradingSpec => []DeskInv
<1>1. TradingInit => DeskInv
  BY RulesInit, DeskBooksInit DEF TradingInit, DeskInv
<1>2. DeskInv /\ [TradingNext]_trading => DeskInv'
  BY DeskStep
<1> QED
  BY <1>1, <1>2, PTL DEF TradingSpec

\* Whatever the market, the moving average and the price-drop limit make of a price, a sale is
\* posted at no less than its floors and a bid at no more than its caps (progress_selling,
\* progress_buying).
THEOREM OrdersKeepTheirPricesHolds == TradingSpec => []OrdersKeepTheirPrices
<1>1. DeskInv => OrdersKeepTheirPrices
  BY PricesAreKept DEF DeskInv, OrdersKeepTheirPrices
<1> QED
  BY <1>1, DeskInvariance, PTL

\* However any number of requests and the trader interleave and whatever fails, a request that
\* ended well changed at most one row and wrote its one transaction, and one that failed wrote
\* none (handle_transaction).
THEOREM TradesAreBookedOnceHolds == TradingSpec => []TradesAreBookedOnce
<1>1. DeskInv => TradesAreBookedOnce
  BY DEF DeskInv, D!BookingInv, TradesAreBookedOnce
<1> QED
  BY <1>1, DeskInvariance, PTL

\* The prices at the desk.
DeskPriced == subject = "desk" => D!BookingInv /\ D!PricesInv

\* A step that changes nothing keeps the prices.
LEMMA PricesStutter ==
  ASSUME UNCHANGED trading
  PROVE  (D!PricesInv)' <=> D!PricesInv
BY DEF trading, D!PricesInv, D!ListsPriced, D!RequestPriced, D!Between, D!VoidLine

\* Whichever of any number of concurrent writes wins, a stock row's average price is never
\* under the lowest price paid, nor over the highest unless a priced line of no pieces was
\* entered (add_stock).
THEOREM AveragePriceIsPaidHolds == TradingSpec => []AveragePriceIsPaid
<1>1. TradingInit => DeskPriced
  BY DeskBooksInit, DeskPricesInit DEF TradingInit, DeskPriced
<1>2. DeskPriced /\ [TradingNext]_trading => DeskPriced'
  <2> SUFFICES ASSUME DeskPriced, [TradingNext]_trading PROVE DeskPriced'
    OBVIOUS
  <2>1. CASE DeskPart
    BY <2>1, DeskBooks, DeskKeepsPrices DEF DeskPart, DeskPriced
  <2>2. CASE TraderPart \/ RulesPart \/ ResolvePart
    BY <2>2 DEF TraderPart, RulesPart, ResolvePart, DeskPriced
  <2>3. CASE UNCHANGED trading
    <3>1. (D!BookingInv)' <=> D!BookingInv
      BY <2>3 DEF trading, D!BookingInv, D!TradesAreBookedOnce
    <3> QED
      BY <2>3, <3>1, PricesStutter DEF DeskPriced, trading
  <2> QED
    BY <2>1, <2>2, <2>3 DEF TradingNext
<1>3. DeskPriced => AveragePriceIsPaid
  BY PricesAreBetween DEF DeskPriced, AveragePriceIsPaid
<1> QED
  BY <1>1, <1>2, <1>3, PTL DEF TradingSpec
=============================================================================
