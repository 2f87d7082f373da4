-------------------------- MODULE TraderLifecycle --------------------------
(***************************************************************************)
(* The trader's start and stop sequences: TraderController behind one      *)
(* async mutex, the commands of the web UI and the monitor tick that call  *)
(* it, and the trading loop it spawns.                                     *)
(*                                                                         *)
(* A command reads the clock, then queues for the mutex, so what it judges *)
(* by age it judges as of then.  finish holds the mutex while it waits for *)
(* the loop, for the market and for the database.  A command belongs to an *)
(* HTTP request, and it is dropped at such a wait when the client goes.    *)
(***************************************************************************)
EXTENDS Integers, FiniteSets

CONSTANTS
  Client,       \* commands that can be under way at once
  Monitor,      \* the caller of tick
  Slot,         \* trading loops that can be alive at once
  None,         \* no caller, no loop
  Session,      \* how the session may fare, of Health
  Cancels,      \* clients may go before their command ends
  StatusFails   \* setting the market status may fail

Health == {"good", "lacking", "failed"}  \* all items hold, one lacks, a trigger holds

ASSUME TraderLifecycleAssumption ==
  /\ Session \subseteq Health
  /\ Monitor \notin Client
  /\ None \notin Client \cup {Monitor} \cup Slot
  /\ Cancels \in BOOLEAN
  /\ StatusFails \in BOOLEAN

Caller == Client \cup {Monitor}

VARIABLES
  env,       \* what the checklist and the stop triggers look at
  options,   \* dry_run and delete_buy_orders_on_stop
  state,     \* LifecycleState
  running,   \* Inner::running: the loop the controller knows of
  lock,      \* who holds the mutex across a wait
  call,      \* where each caller stands
  loop,      \* the spawned loops
  status,    \* the status on the market; stuck: ingame, and the last try to change it failed
  buys       \* buy orders placed live are on the market

vars == <<env, options, state, running, lock, call, loop, status, buys>>

Age == {"near", "quiet", "silent"}       \* heartbeat within 30 s, within 60 s, older or none
Env == [helper : Age, game : BOOLEAN, session : Health, block : BOOLEAN, autoDelete : BOOLEAN]
Options == [dry : BOOLEAN, deleteBuys : BOOLEAN]
LifecycleState == {"Offline", "Ready", "Trading", "Stopping"}

\* Failed: Critical, OrderFailures or a panic.  Condition: any trigger but the breaker.
Exit == {"Stopped", "Failed", "MarketBlocked"}
Reason == {"none", "UserStop", "Condition"} \cup Exit

\* queued: waiting for the mutex.  join, delete, record: the waits of finish.
Call == [pc : {"idle", "queued", "join", "delete", "record"},
         op : {"start", "stop", "options", "tick"},
         age : Age, run : Slot \cup {None}, reason : Reason]

\* check: a cycle is under way.  over: returned or panicked, its handle not awaited yet.
Loop == [pc : {"none", "top", "check", "sleep", "over"}, flag : BOOLEAN, dry : BOOLEAN, exit : Exit]

Idle == [pc |-> "idle", op |-> "tick", age |-> "near", run |-> None, reason |-> "none"]
NoLoop == [pc |-> "none", flag |-> FALSE, dry |-> TRUE, exit |-> "Stopped"]

TypeOK ==
  /\ env \in Env
  /\ options \in Options
  /\ state \in LifecycleState
  /\ running \in Slot \cup {None}
  /\ lock \in Caller \cup {None}
  /\ call \in [Caller -> Call]
  /\ loop \in [Slot -> Loop]
  /\ status \in {"invisible", "ingame", "stuck"}
  /\ buys \in BOOLEAN
  /\ running # None => loop[running].pc # "none"
  /\ \A c \in Caller : call[c].run # None =>
       call[c].pc = "join" /\ call[c].run # running /\ loop[call[c].run].pc # "none"
  /\ \A c \in Caller : call[c].pc \notin {"idle", "queued"} => lock = c /\ running = None

\* A server that has just booted; boot makes the user invisible.
Init ==
  /\ env = [helper |-> "silent", game |-> FALSE, session |-> "failed", block |-> FALSE,
            autoDelete |-> FALSE]
  /\ options \in Options
  /\ state = "Offline"
  /\ running = None /\ lock = None
  /\ call = [c \in Caller |-> Idle]
  /\ loop = [i \in Slot |-> NoLoop]
  /\ status = "invisible"
  /\ buys = FALSE

Alive(i) == loop[i].pc \in {"top", "check", "sleep"}

----------------------------------------------------------------------------
(* The rules of lifecycle.rs, at the helper's age that the caller sees.    *)

ReadyFor(dry, age) ==
  /\ env.session = "good" /\ age = "near" /\ env.game /\ ~env.block
  /\ dry \/ ~env.autoDelete

\* Mutated form: a silent helper does not stop the trader.
StopTrigger_NoHelper(age) ==
  IF env.block THEN "MarketBlocked"
  ELSE IF env.session = "failed" \/ ~env.game THEN "Condition" ELSE "none"

StopTrigger(age) ==
  IF env.block THEN "MarketBlocked"
  ELSE IF env.session = "failed" \/ age = "silent" \/ ~env.game THEN "Condition" ELSE "none"

IdleState(dry, age) == IF ReadyFor(dry, age) THEN "Ready" ELSE "Offline"

----------------------------------------------------------------------------
(* Commands and ticks.                                                     *)

Begin(c, op) ==
  /\ call[c].pc = "idle"
  /\ call' = [call EXCEPT ![c].pc = "queued", ![c].op = op, ![c].age = env.helper]
  /\ UNCHANGED <<env, options, state, running, lock, loop, status, buys>>

Command(c) == \E op \in {"start", "stop", "options"} : Begin(c, op)
Tick == Begin(Monitor, "tick")

Runs(c, op) == call[c].pc = "queued" /\ call[c].op = op /\ lock = None
Returned(c) == call' = [call EXCEPT ![c] = Idle]

\* start: already running, not ready, or the status could not be set.
StartRefused(c) ==
  /\ Runs(c, "start")
  /\ running # None \/ ~ReadyFor(options.dry, call[c].age) \/ (StatusFails /\ ~options.dry)
  /\ Returned(c)
  /\ UNCHANGED <<env, options, state, running, lock, loop, status, buys>>

Start(c) ==
  /\ Runs(c, "start")
  /\ running = None /\ ReadyFor(options.dry, call[c].age)
  /\ status' = IF options.dry THEN status ELSE "ingame"
  /\ \E i \in Slot :
       /\ loop[i].pc = "none"
       /\ loop' = [loop EXCEPT ![i] = [pc |-> "top", flag |-> TRUE, dry |-> options.dry,
                                       exit |-> "Stopped"]]
       /\ running' = i
  /\ state' = "Trading"
  /\ Returned(c)
  /\ UNCHANGED <<env, options, lock, buys>>

\* Mutated form: the loop is only awaited, nobody tells it to stop.
Told_Nobody(i) == loop

\* running.flag.store(false)
Told(i) == [loop EXCEPT ![i].flag = FALSE]

\* finish, up to its first wait.
TakeRunning(c, reason) ==
  /\ running # None
  /\ running' = None
  /\ state' = "Stopping"
  /\ loop' = Told(running)
  /\ lock' = c
  /\ call' = [call EXCEPT ![c].pc = "join", ![c].run = running, ![c].reason = reason]
  /\ UNCHANGED <<env, options, status, buys>>

Stop(c) ==
  /\ Runs(c, "stop")
  /\ \/ TakeRunning(c, "UserStop")
     \/ running = None /\ Returned(c)
        /\ UNCHANGED <<env, options, state, running, lock, loop, status, buys>>

\* tick, while nothing runs.
TickIdle ==
  /\ Runs(Monitor, "tick") /\ running = None
  /\ state' = IdleState(options.dry, call[Monitor].age)
  /\ Returned(Monitor)
  /\ UNCHANGED <<env, options, running, lock, loop, status, buys>>

\* Mutated form: a loop that has ended is known by its flag.
Exited_ByFlag(i) == ~loop[i].flag

\* handle.is_finished()
Exited(i) == loop[i].pc = "over"

TickExited ==
  /\ Runs(Monitor, "tick") /\ running # None
  /\ Exited(running)
  /\ TakeRunning(Monitor, "none")

TickChecks ==
  /\ Runs(Monitor, "tick") /\ running # None
  /\ ~Exited(running)
  /\ LET reason == StopTrigger(call[Monitor].age) IN
     IF reason = "none"
     THEN /\ Returned(Monitor)
          /\ UNCHANGED <<env, options, state, running, lock, loop, status, buys>>
     ELSE TakeRunning(Monitor, reason)

\* set_options refuses another mode while a loop runs.
ModeRefused(next) == running # None /\ next.dry # options.dry

Badge(dry) == IF running = None THEN IdleState(dry, env.helper) ELSE state

SetOptions(c) ==
  /\ Runs(c, "options")
  /\ \E next \in Options :
       IF ModeRefused(next) THEN UNCHANGED <<options, state>>
       ELSE /\ options' = next
            /\ state' = Badge(next.dry)
  /\ Returned(c)
  /\ UNCHANGED <<env, running, lock, loop, status, buys>>

----------------------------------------------------------------------------
(* finish, after the loop was told.                                        *)

\* Mutated form: the handle is not awaited.
Finished_Unawaited(i) == TRUE

Finished(i) == loop[i].pc = "over"

\* Mutated form: a run's own mode is not asked for.
Deletes_AnyRun(i, reason) == options.deleteBuys /\ ~env.block /\ reason # "MarketBlocked"

\* Whether finish deletes the buy orders of the loop it stopped.
Deletes(i, reason) ==
  options.deleteBuys /\ ~loop[i].dry /\ ~env.block /\ reason # "MarketBlocked"

\* Mutated form: finish leaves the status alone.
StatusAfter_Kept == {status}

\* set_status("invisible"), whose failure is only logged.
Untouched == IF status = "invisible" THEN "invisible" ELSE "stuck"
StatusAfter == {"invisible"} \cup (IF StatusFails THEN {Untouched} ELSE {})

\* The handle of loop i is gone: nothing is left of it once it is over.
Dropped(i) == [j \in Slot |-> IF j = i /\ loop[j].pc = "over" THEN NoLoop ELSE loop[j]]

\* The loop is over: its exit is read, the status is set.
Join(c) ==
  LET i == call[c].run
      reason == IF call[c].reason = "none" THEN loop[i].exit ELSE call[c].reason IN
  /\ call[c].pc = "join" /\ Finished(i)
  /\ status' \in StatusAfter
  /\ call' = [call EXCEPT ![c].pc = IF Deletes(i, reason) THEN "delete" ELSE "record",
                          ![c].reason = "none", ![c].run = None]
  /\ loop' = Dropped(i)
  /\ UNCHANGED <<env, options, state, running, lock, buys>>

\* delete_live_buy_orders: an order may fail to go, and all do during a block.
DeleteBuys(c) ==
  /\ call[c].pc = "delete"
  /\ buys' \in {buys} \cup (IF env.block THEN {} ELSE {FALSE})
  /\ call' = [call EXCEPT ![c].pc = "record"]
  /\ UNCHANGED <<env, options, state, running, lock, loop, status>>

\* record_stop, then the state and the answer.
Record(c) ==
  /\ call[c].pc = "record"
  /\ state' = IdleState(options.dry, call[c].age)
  /\ lock' = None
  /\ Returned(c)
  /\ UNCHANGED <<env, options, running, loop, status, buys>>

\* The client goes: the command is dropped where it waits, the mutex is
\* released, and a loop it waited for is nobody's any more.
Cancel(c) ==
  /\ Cancels /\ c \in Client /\ call[c].pc # "idle"
  /\ lock' = IF lock = c THEN None ELSE lock
  /\ loop' = Dropped(call[c].run)
  /\ Returned(c)
  /\ UNCHANGED <<env, options, state, running, status, buys>>

----------------------------------------------------------------------------
(* run_loop.                                                               *)

Owned(i) == running = i \/ \E c \in Caller : call[c].run = i

\* The loop is over.  A loop that is nobody's leaves nothing behind.
Ends(i, flag, exit) ==
  /\ loop' = [loop EXCEPT ![i] = IF Owned(i) THEN [@ EXCEPT !.pc = "over", !.flag = flag, !.exit = exit]
                                 ELSE NoLoop]
  /\ UNCHANGED <<env, options, state, running, lock, call, status, buys>>

\* The loop returns, its flag cleared; a panic leaves the flag as it was.
Exits(i, exit) == Ends(i, FALSE, exit)

Goes(i, pc) ==
  /\ loop' = [loop EXCEPT ![i].pc = pc]
  /\ UNCHANGED <<env, options, state, running, lock, call, status, buys>>

Top(i) ==
  /\ loop[i].pc = "top"
  /\ \/ ~loop[i].flag /\ Exits(i, "Stopped")
     \/ loop[i].flag /\ env.block /\ Exits(i, "MarketBlocked")
     \/ loop[i].flag /\ ~env.block /\ Goes(i, "check")

\* A cycle of a loop that writes to the market.
LiveCycle(i) == loop[i].pc = "check" /\ ~loop[i].dry

\* A live cycle places buy orders, unless the breaker's gate refuses; and it deletes some,
\* at last all of them: unwanted ones, those of an empty, overpriced or full-stock item, the
\* victim of a sell slot, what the knapsack leaves out, orphans.
WriteBids(i) ==
  /\ LiveCycle(i) /\ ~env.block
  /\ buys' \in BOOLEAN
  /\ UNCHANGED <<env, options, state, running, lock, call, loop, status>>

Cycle == {"ok", "warning", "critical", "refused"}

\* The cycle ends; order calls may have failed five times in a row by now.
Checked(i, result, failing) ==
  /\ loop[i].pc = "check"
  /\ IF result = "refused" \/ env.block THEN Exits(i, "MarketBlocked")
     ELSE IF result = "critical" \/ failing THEN Exits(i, "Failed")
     ELSE Goes(i, "sleep")

Panics(i) == loop[i].pc = "check" /\ Ends(i, loop[i].flag, "Failed")

WakesUp(i) == loop[i].pc = "sleep" /\ Goes(i, "top")

Cycles(i) ==
  \/ Top(i) \/ WakesUp(i) \/ Panics(i)
  \/ \E result \in Cycle, failing \in BOOLEAN : Checked(i, result, failing)

----------------------------------------------------------------------------
(* The world.                                                              *)

Becomes(e) == env' = e /\ UNCHANGED <<options, state, running, lock, call, loop, status, buys>>

\* A heartbeat is newer than any clock read before it.
Heartbeat ==
  /\ \E game \in BOOLEAN : env' = [env EXCEPT !.helper = "near", !.game = game]
  /\ call' = [c \in Caller |-> [call[c] EXCEPT !.age = "near"]]
  /\ UNCHANGED <<options, state, running, lock, loop, status, buys>>

\* A free mutex is taken long before 30 s have passed.
HelperAges ==
  /\ (\E c \in Caller : call[c].pc = "queued") => lock # None
  /\ \/ env.helper = "near" /\ Becomes([env EXCEPT !.helper = "quiet"])
     \/ env.helper = "quiet" /\ Becomes([env EXCEPT !.helper = "silent"])

SessionChanges == \E s \in Session \ {env.session} : Becomes([env EXCEPT !.session = s])
BreakerChanges == Becomes([env EXCEPT !.block = ~@])
SettingChanges == Becomes([env EXCEPT !.autoDelete = ~@])

World == Heartbeat \/ HelperAges \/ SessionChanges \/ BreakerChanges \/ SettingChanges

Ticks == TickIdle \/ TickExited \/ TickChecks
Finishes(c) == Join(c) \/ DeleteBuys(c) \/ Record(c)

Next ==
  \/ \E c \in Client : Command(c) \/ StartRefused(c) \/ Start(c) \/ Stop(c) \/ SetOptions(c) \/ Cancel(c)
  \/ Tick \/ Ticks
  \/ \E c \in Caller : Finishes(c)
  \/ \E i \in Slot : Cycles(i) \/ WriteBids(i)
  \/ World

Spec == Init /\ [][Next]_vars

\* The monitor loop keeps ticking, and the mutex is handed over in the order of
\* arrival, so a tick gets it although commands come again and again.  A loop's
\* cycle ends, and the waits of finish do.  Commands need not come.
FairSpec ==
  /\ Spec
  /\ WF_vars(Tick) /\ SF_vars(Ticks)
  /\ \A c \in Caller : WF_vars(Finishes(c))
  /\ \A i \in Slot : WF_vars(Cycles(i))

----------------------------------------------------------------------------
(* What must hold.                                                         *)

\* Whatever commands are dropped where, a loop that has not been told to stop
\* is the one the controller knows of: two loops never both go on trading.
OnlyTheKnownLoopGoesOn ==
  \A i \in Slot : Alive(i) /\ loop[i].flag => i = running

\* The mode the panel shows while a loop runs is the mode it runs in, so a
\* loop that writes to the market is never shown as a dry run.
ModeIsKept ==
  running # None => loop[running].dry = options.dry

\* A trading badge means the controller has a loop, and the other way round.
TradingMeansRunning ==
  (state = "Trading") <=> (running # None)

\* "Stop the loop and let the in-flight request finish" comes before Ready or
\* Offline (design spec 5.7): an idle trader has no loop left.
IdleMeansLoopOver ==
  state \in {"Ready", "Offline"} => \A i \in Slot : loop[i].pc = "none"

\* "Set the status to invisible" comes before Ready or Offline (design spec 5.7): an
\* idle trader is shown as ingame only when the last try to change that failed (finish).
IdleMeansInvisible ==
  state \in {"Ready", "Offline"} => status # "ingame"

\* Both: whatever ended the run and whatever commands were waiting, finish has gone through
\* all of its waits before the panel shows Ready or Offline.
IdleMeansStopped == IdleMeansLoopOver /\ IdleMeansInvisible

\* While no command is dropped: every loop is the controller's or awaited, the
\* mutex is held by a stop only, and ingame is on its way out once trading ends.
NothingIsLost ==
  ~Cancels =>
    /\ \A i \in Slot : loop[i].pc # "none" => Owned(i)
    /\ lock # None => state = "Stopping"
    /\ status = "ingame" =>
         state = "Trading" \/ \E c \in Caller : call[c].pc = "join"

\* A stop under way works for the loop it took: the mode of that loop is still the one in
\* the options when it decides on the buy orders, and the options while it deletes them.
StopKnowsItsRun ==
  \A c \in Caller :
    /\ call[c].pc = "join" => call[c].run \in Slot /\ loop[call[c].run].dry = options.dry
    /\ call[c].pc = "delete" => options.deleteBuys /\ ~options.dry

\* The inductive invariant of the proofs.
LifecycleInv ==
  /\ TypeOK
  /\ OnlyTheKnownLoopGoesOn
  /\ ModeIsKept
  /\ TradingMeansRunning
  /\ NothingIsLost

\* Of all the trader does, two things take real buy orders off the market: a cycle of a
\* loop that was started live, and a stop of a live run while delete_buy_orders_on_stop is
\* on.  Neither a dry run nor its stop does, whatever commands are dropped and whatever
\* older loop still ends its cycle (finish, delete_live_buy_orders, ItemTrader::check).
BuysOutliveDryRuns ==
  [][buys /\ ~buys' =>
       \/ UNCHANGED <<call, loop>> /\ \E i \in Slot : LiveCycle(i)
       \/ options.deleteBuys /\ ~options.dry /\ \E c \in Caller : call[c].pc = "delete"]_vars

\* "A helper heartbeat has arrived within the last 30 s" (design spec 5.7) when
\* trading starts.
StartsWithFreshHeartbeat ==
  [][state # "Trading" /\ state' = "Trading" => env.helper = "near"]_vars

\* One cause to stop that stays: the checklist lacks it and a tick sees it.
LastingCause ==
  \/ <>[](env.block)
  \/ <>[](env.session = "failed")
  \/ <>[](env.helper = "silent")
  \/ <>[](~env.game)

\* A cause to stop that stays takes the trader offline for good, with its loops
\* over, whatever was going on and whatever commands keep coming.
TriggerStopsTrading ==
  LastingCause => <>[](state = "Offline" /\ \A i \in Slot : loop[i].pc = "none")

\* A loop that ends by itself is noticed.
ExitIsNoticed ==
  \A i \in Slot : (running = i /\ loop[i].pc = "over") ~> (running # i)
=============================================================================
