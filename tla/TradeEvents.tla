---------------------------- MODULE TradeEvents ----------------------------
(***************************************************************************)
(* The server's half of the trade pipeline: the helper_events table, the   *)
(* requests that write it (POST /helper/trade, helper_trade_apply,         *)
(* helper_trade_ignore) and the housekeeping sweep over it.                *)
(*                                                                         *)
(* A request is a task.  Every await of its handler is a step of its own,  *)
(* so the steps of several requests and of the sweep interleave, and a     *)
(* task may be dropped between any two steps (the client hung up, the      *)
(* server stopped).  Effects outside the table (stock rows, transactions,  *)
(* market orders) are the history variable auto.                           *)
(***************************************************************************)
EXTENDS Integers, Sequences

CONSTANTS
  Event,       \* event ids of the trades the helpers report
  NoEvent,     \* the argument of an idle task
  Task,        \* request slots of the server
  NItems,      \* items of a trade, applied one after the other
  MaxFaults,   \* bound on cancelled requests, crashes and database errors
  MaxReviews   \* bound on the review requests per event

ASSUME TradeEventsAssumption ==
  /\ NoEvent \notin Event
  /\ NItems \in Nat \ {0}
  /\ MaxFaults \in Nat
  /\ MaxReviews \in Nat

VARIABLES
  rows,      \* helper_events, by event_id
  pc,        \* the await each task stands at
  arg,       \* the event each task works on
  by,        \* who sent the request: the helper or the user
  done,      \* items a task has applied
  sweep,     \* the sweep over rows that need an alert
  recorded,  \* history: events that ever had a row
  auto,      \* history: the items each helper request applied, in order
  finished,  \* history: events all of whose items one request applied
  alerts,    \* history: alerts raised per event, two standing for more
  faults,    \* faults so far
  reviews    \* review requests so far, per event

taskVars == <<pc, arg, by, done>>
vars == <<rows, taskVars, sweep, recorded, auto, finished, alerts, faults, reviews>>

Item == 1..NItems
Status == {"none", "needs_review", "applied", "ignored"}
Reason == {"none", "review", "applying", "apply_failed", "apply_interrupted", "reviewed"}
Row == [status : Status, reason : Reason, alerted : BOOLEAN, old : BOOLEAN]
NoRow == [status |-> "none", reason |-> "none", alerted |-> FALSE, old |-> FALSE]

\* Awaits of handle_incoming, apply_and_record, apply_reviewed and ignore;
\* accepted and failed are finished requests whose reply is not delivered.
DbPC == {"exists", "insert_apply", "insert_review", "record_applied",
         "record_failed", "get_apply", "get_ignore", "set_ignored"}
PC == DbPC \cup {"idle", "resolve", "apply", "accepted", "failed"}

TypeOK ==
  /\ rows \in [Event -> Row]
  /\ pc \in [Task -> PC]
  /\ arg \in [Task -> Event \cup {NoEvent}]
  /\ by \in [Task -> {"helper", "user"}]
  /\ done \in [Task -> 0..NItems]
  /\ \A t \in Task : pc[t] # "idle" => arg[t] \in Event
  /\ sweep \in [pc : {"idle", "next", "alert", "mark"}, cur : Event \cup {NoEvent},
                todo : SUBSET Event, applying : SUBSET Event]
  /\ sweep.pc \in {"alert", "mark"} => sweep.cur \in Event
  /\ recorded \in SUBSET Event
  /\ auto \in [Event -> Seq(Item)]
  /\ finished \in SUBSET Event
  /\ alerts \in [Event -> 0..2]
  /\ faults \in Nat
  /\ reviews \in [Event -> Nat]

SweepIdle == [pc |-> "idle", cur |-> NoEvent, todo |-> {}, applying |-> {}]

Init ==
  /\ rows = [e \in Event |-> NoRow]
  /\ pc = [t \in Task |-> "idle"]
  /\ arg = [t \in Task |-> NoEvent]
  /\ by = [t \in Task |-> "helper"]
  /\ done = [t \in Task |-> 0]
  /\ sweep = SweepIdle
  /\ recorded = {}
  /\ auto = [e \in Event |-> <<>>]
  /\ finished = {}
  /\ alerts = [e \in Event |-> 0]
  /\ faults = 0
  /\ reviews = [e \in Event |-> 0]

----------------------------------------------------------------------------
(* Requests: starting, moving on, replying.                                *)

Start(t, e, who, at) ==
  /\ pc[t] = "idle"
  /\ pc' = [pc EXCEPT ![t] = at]
  /\ arg' = [arg EXCEPT ![t] = e]
  /\ by' = [by EXCEPT ![t] = who]
  /\ done' = [done EXCEPT ![t] = 0]

Goto(t, at) ==
  /\ pc' = [pc EXCEPT ![t] = at]
  /\ UNCHANGED <<arg, by, done>>

Free(t) ==
  /\ pc' = [pc EXCEPT ![t] = "idle"]
  /\ arg' = [arg EXCEPT ![t] = NoEvent]
  /\ by' = [by EXCEPT ![t] = "helper"]
  /\ done' = [done EXCEPT ![t] = 0]

\* Only the helper reads the outcome of its request.
Reply(t, outcome) == IF by[t] = "helper" THEN Goto(t, outcome) ELSE Free(t)

Exists(e) == rows[e].status # "none"

\* The row was deleted by apply_retention, 90 days after it was received.
Purged(e) == e \in recorded /\ ~Exists(e)

\* POST /helper/trade.  The helper does not resend a trade after 90 days.
Arrive(t, e) ==
  /\ ~Purged(e)
  /\ Start(t, e, "helper", "exists")
  /\ UNCHANGED <<rows, sweep, recorded, auto, finished, alerts, faults, reviews>>

\* Mutated form: a repeated request resumes the attempt left at applying.
CheckExists_Resumes(t) ==
  /\ pc[t] = "exists"
  /\ IF ~Exists(arg[t]) THEN Goto(t, "resolve")
     ELSE Goto(t, IF rows[arg[t]].reason = "applying" THEN "apply" ELSE "accepted")
  /\ UNCHANGED <<rows, sweep, recorded, auto, finished, alerts, faults, reviews>>

CheckExists(t) ==
  /\ pc[t] = "exists"
  /\ IF Exists(arg[t]) THEN Reply(t, "accepted") ELSE Goto(t, "resolve")
  /\ UNCHANGED <<rows, sweep, recorded, auto, finished, alerts, faults, reviews>>

\* Item names, set folding, prices and the auto_trade switch decide between
\* applying and review; a failed query is an internal error.
ResolveEvent(t) ==
  /\ pc[t] = "resolve"
  /\ \E verdict \in {"insert_apply", "insert_review", "failed"} : Goto(t, verdict)
  /\ UNCHANGED <<rows, sweep, recorded, auto, finished, alerts, faults, reviews>>

\* Mutated form: the insert replaces a row of the same key.
KeyTaken_Replaces(e) == FALSE

\* event_id is the primary key of helper_events.
KeyTaken(e) == Exists(e)

AfterInsert(verdict) == IF verdict = "insert_apply" THEN "apply" ELSE "accepted"

\* The loser of a race for the insert finds the winner's row.
InsertRow(t) ==
  LET e == arg[t] IN
  /\ pc[t] \in {"insert_apply", "insert_review"}
  /\ IF KeyTaken(e)
     THEN Goto(t, "accepted") /\ UNCHANGED <<rows, recorded>>
     ELSE /\ rows' = [rows EXCEPT ![e] =
               [status |-> "needs_review", alerted |-> FALSE, old |-> FALSE,
                reason |-> IF pc[t] = "insert_apply" THEN "applying" ELSE "review"]]
          /\ recorded' = recorded \cup {e}
          /\ Goto(t, AfterInsert(pc[t]))
  /\ UNCHANGED <<sweep, auto, finished, alerts, faults, reviews>>

----------------------------------------------------------------------------
(* Applying a trade: apply_items and apply_and_record.                     *)

ApplyItem(t) ==
  LET e == arg[t]
      i == done[t] + 1 IN
  /\ pc[t] = "apply"
  /\ done[t] < NItems
  /\ done' = [done EXCEPT ![t] = i]
  /\ auto' = IF by[t] = "helper" THEN [auto EXCEPT ![e] = Append(@, i)] ELSE auto
  /\ finished' = IF i = NItems THEN finished \cup {e} ELSE finished
  /\ pc' = [pc EXCEPT ![t] = IF i = NItems THEN "record_applied" ELSE "apply"]
  /\ UNCHANGED <<rows, arg, by, sweep, recorded, alerts, faults, reviews>>

\* A handler failed: the remaining items are not tried.
ApplyFails(t) ==
  /\ pc[t] = "apply"
  /\ Goto(t, "record_failed")
  /\ UNCHANGED <<rows, sweep, recorded, auto, finished, alerts, faults, reviews>>

\* events::set_status, an UPDATE by event_id whatever the row says by now.
SetStatus(e, status, reason) ==
  rows' = IF Exists(e) THEN [rows EXCEPT ![e].status = status, ![e].reason = reason]
                       ELSE rows

Record(t) ==
  /\ \/ pc[t] = "record_applied" /\ SetStatus(arg[t], "applied", "none")
     \/ pc[t] = "record_failed" /\ SetStatus(arg[t], "needs_review", "apply_failed")
  /\ Reply(t, "accepted")
  /\ UNCHANGED <<sweep, recorded, auto, finished, alerts, faults, reviews>>

----------------------------------------------------------------------------
(* Review: helper_trade_apply and helper_trade_ignore.                     *)

Review(t, e, at) ==
  /\ reviews[e] < MaxReviews
  /\ reviews' = [reviews EXCEPT ![e] = @ + 1]
  /\ Exists(e)
  /\ Start(t, e, "user", at)
  /\ UNCHANGED <<rows, sweep, recorded, auto, finished, alerts, faults>>

ReviewRequest(t, e) == \E at \in {"get_apply", "get_ignore"} : Review(t, e, at)

Reviewable(e) == rows[e].status = "needs_review"

\* A trade without direction, an empty item list, an unknown item or a bad
\* quantity is refused; so is a row that is not up for review.
GetReviewable(t) ==
  /\ pc[t] \in {"get_apply", "get_ignore"}
  /\ \/ Reviewable(arg[t]) /\ Goto(t, IF pc[t] = "get_apply" THEN "apply" ELSE "set_ignored")
     \/ (pc[t] = "get_apply" \/ ~Reviewable(arg[t])) /\ Free(t)
  /\ UNCHANGED <<rows, sweep, recorded, auto, finished, alerts, faults, reviews>>

Ignore(t) ==
  /\ pc[t] = "set_ignored"
  /\ SetStatus(arg[t], "ignored", "reviewed")
  /\ Free(t)
  /\ UNCHANGED <<sweep, recorded, auto, finished, alerts, faults, reviews>>

----------------------------------------------------------------------------
(* Housekeeping: sweep_alerts and apply_retention, one after the other.    *)

\* Mutated forms: alerted_at IS NULL forgotten, one of the two reasons forgotten.
NeedsAlert_Again(e) ==
  /\ Reviewable(e)
  /\ rows[e].reason = "apply_failed" \/ (rows[e].reason = "applying" /\ rows[e].old)

NeedsAlert_FailedOnly(e) ==
  Reviewable(e) /\ ~rows[e].alerted /\ rows[e].reason = "apply_failed"

NeedsAlert(e) ==
  /\ Reviewable(e)
  /\ ~rows[e].alerted
  /\ rows[e].reason = "apply_failed" \/ (rows[e].reason = "applying" /\ rows[e].old)

SweepRead ==
  LET found == {e \in Event : NeedsAlert(e)} IN
  /\ sweep.pc = "idle"
  /\ found # {}
  /\ sweep' = [pc |-> "next", cur |-> NoEvent, todo |-> found,
               applying |-> {e \in found : rows[e].reason = "applying"}]
  /\ UNCHANGED <<rows, taskVars, recorded, auto, finished, alerts, faults, reviews>>

\* set_reason rewrites the reason of a row read as applying, whatever the
\* row says by now; the order of the rows is abstracted.
SweepNext ==
  /\ sweep.pc = "next"
  /\ \E e \in sweep.todo :
       /\ sweep' = [sweep EXCEPT !.pc = "alert", !.cur = e, !.todo = @ \ {e}]
       /\ rows' = IF e \in sweep.applying /\ Exists(e)
                  THEN [rows EXCEPT ![e].reason = "apply_interrupted"] ELSE rows
  /\ UNCHANGED <<taskVars, recorded, auto, finished, alerts, faults, reviews>>

SweepAlert ==
  LET n == alerts[sweep.cur] + 1 IN
  /\ sweep.pc = "alert"
  /\ alerts' = [alerts EXCEPT ![sweep.cur] = IF n > 2 THEN 2 ELSE n]
  /\ sweep' = [sweep EXCEPT !.pc = "mark"]
  /\ UNCHANGED <<rows, taskVars, recorded, auto, finished, faults, reviews>>

SweepMark ==
  /\ sweep.pc = "mark"
  /\ rows' = IF Exists(sweep.cur) THEN [rows EXCEPT ![sweep.cur].alerted = TRUE] ELSE rows
  /\ sweep' = IF sweep.todo = {} THEN SweepIdle ELSE [sweep EXCEPT !.pc = "next", !.cur = NoEvent]
  /\ UNCHANGED <<taskVars, recorded, auto, finished, alerts, faults, reviews>>

SweepStep == SweepRead \/ SweepNext \/ SweepAlert \/ SweepMark

\* 180 s have passed since the row's request was received (STUCK_AFTER_S).
GrowOld(e) ==
  /\ Exists(e) /\ ~rows[e].old
  /\ rows' = [rows EXCEPT ![e].old = TRUE]
  /\ UNCHANGED <<taskVars, sweep, recorded, auto, finished, alerts, faults, reviews>>

\* apply_retention deletes rows received 90 days ago; no request is that old.
Retention(e) ==
  /\ sweep.pc = "idle"
  /\ Exists(e) /\ rows[e].old
  /\ \A t \in Task : arg[t] # e
  /\ rows' = [rows EXCEPT ![e] = NoRow]
  /\ UNCHANGED <<taskVars, sweep, recorded, auto, finished, alerts, faults, reviews>>

----------------------------------------------------------------------------
(* Faults.                                                                 *)

Fault == faults < MaxFaults /\ faults' = faults + 1

\* The connection closed and the handler's future was dropped where it stood.
Cancel(t) ==
  /\ Fault
  /\ pc[t] # "idle"
  /\ Free(t)
  /\ UNCHANGED <<rows, sweep, recorded, auto, finished, alerts, reviews>>

\* A query failed: the request ends with an internal error.
DbError(t) ==
  /\ Fault
  /\ pc[t] \in DbPC
  /\ Reply(t, "failed")
  /\ UNCHANGED <<rows, sweep, recorded, auto, finished, alerts, reviews>>

\* An update of the sweep failed: the rest of it waits for the next tick.
SweepError ==
  /\ Fault
  /\ \/ sweep.pc = "next" /\ sweep.todo \cap sweep.applying # {}
     \/ sweep.pc = "mark"
  /\ sweep' = SweepIdle
  /\ UNCHANGED <<rows, taskVars, recorded, auto, finished, alerts, reviews>>

\* The server stops and starts again: the table is all that is left.
Restart ==
  /\ Fault
  /\ pc' = [t \in Task |-> "idle"]
  /\ arg' = [t \in Task |-> NoEvent]
  /\ by' = [t \in Task |-> "helper"]
  /\ done' = [t \in Task |-> 0]
  /\ sweep' = SweepIdle
  /\ UNCHANGED <<rows, recorded, auto, finished, alerts, reviews>>

\* The reply reached the helper, or was dropped on the way.
Deliver(t) ==
  /\ pc[t] \in {"accepted", "failed"}
  /\ Free(t)
  /\ UNCHANGED <<rows, sweep, recorded, auto, finished, alerts, faults, reviews>>

TaskStep(t) ==
  \/ CheckExists(t) \/ ResolveEvent(t) \/ InsertRow(t)
  \/ ApplyItem(t) \/ ApplyFails(t) \/ Record(t)
  \/ GetReviewable(t) \/ Ignore(t)

\* What the server does on its own, apart from arrivals and delivered replies.
ServerStep ==
  \/ \E t \in Task : TaskStep(t) \/ DbError(t)
  \/ \E t \in Task, e \in Event : ReviewRequest(t, e)
  \/ SweepStep \/ SweepError
  \/ \E e \in Event : GrowOld(e) \/ Retention(e)

Next ==
  \/ ServerStep
  \/ \E t \in Task, e \in Event : Arrive(t, e)
  \/ \E t \in Task : Cancel(t) \/ Deliver(t)
  \/ Restart

Spec == Init /\ [][Next]_vars

\* Handlers and the 60 s housekeeping tick run on; time passes.
Fairness ==
  /\ \A t \in Task : WF_vars(TaskStep(t))
  /\ WF_vars(SweepStep)
  /\ \A e \in Event : WF_vars(GrowOld(e))

FairSpec == Spec /\ Fairness
----------------------------------------------------------------------------
(* What must hold.                                                         *)

\* However often a trade is sent, and whatever is cancelled, repeated or
\* restarted, the helper's requests apply each of its items at most once, in
\* order: exists, the primary key and the row left behind keep retries out.
AutoAppliedOnce ==
  \A e \in Event : \A k \in 1..Len(auto[e]) : auto[e][k] = k

\* A row says applied only when one request applied every item of the trade:
\* apply_and_record must not record a partial pass as a success.
AppliedRowsFinished ==
  \A e \in Event : rows[e].status = "applied" => e \in finished

\* A trade parked for review (unresolved name, no goods, auto_trade off) is
\* not applied by the request that reported it, nor by a repetition of it.
ParkedNotApplied ==
  \A e \in Event : rows[e].reason = "review" => auto[e] = <<>>

\* The sweep never raises an alert for a row already marked as alerted, also
\* when a failed row is reviewed and fails again.  A sweep that stops between the alert
\* and its mark repeats the alert: of that this says nothing.
AlertedRowsStayQuiet ==
  [][\A e \in Event : alerts'[e] # alerts[e] => ~rows[e].alerted]_vars

\* A row left at applying (the request was cancelled, the server stopped, the
\* result could not be recorded) does not stay there.
StrandedRowsSurface ==
  \A e \in Event :
    (Reviewable(e) /\ rows[e].reason = "applying") ~> (rows[e].reason # "applying")

\* A failed application is alerted on, unless the row leaves that state.
FailedRowsAlerted ==
  \A e \in Event :
    (Reviewable(e) /\ rows[e].reason = "apply_failed" /\ ~rows[e].alerted)
      ~> (rows[e].alerted \/ ~Reviewable(e) \/ rows[e].reason # "apply_failed")

\* A trade that was not applied comes to the user's notice: both of the above, for
\* the requests that were cancelled and for those that failed (sweep_alerts).
UnappliedRowsSurface == StrandedRowsSurface /\ FailedRowsAlerted

----------------------------------------------------------------------------
(* Why it holds: the inductive invariant.                                  *)

PreInsert == {"exists", "resolve", "insert_apply", "insert_review"}
Reviewing == {"get_apply", "get_ignore", "set_ignored"}
Applying(t) == by[t] = "helper" /\ pc[t] \in {"apply", "record_applied", "record_failed"}

\* Effects and rows come after the insert that makes the event known.
RecordedFirst ==
  /\ \A e \in Event : Exists(e) \/ auto[e] # <<>> => e \in recorded
  /\ \A t \in Task : Applying(t) => arg[t] \in recorded

\* Only the winner of the insert applies, and auto is as long as its progress.
OneApplier ==
  /\ \A t \in Task : Applying(t) => Len(auto[arg[t]]) = done[t]
  /\ \A t, u \in Task : Applying(t) /\ Applying(u) /\ arg[t] = arg[u] => t = u

\* A request on its way to the insert is a fresh helper request, and the row
\* it may miss was never there.  Only users review.
FreshBeforeInsert ==
  \A t \in Task :
    /\ pc[t] \in PreInsert => by[t] = "helper" /\ done[t] = 0 /\ ~Purged(arg[t])
    /\ pc[t] \in Reviewing => by[t] = "user"

FinishedBeforeRecorded ==
  /\ \A t \in Task : pc[t] = "record_applied" => arg[t] \in finished
  /\ AppliedRowsFinished

ParkedAlone ==
  /\ ParkedNotApplied
  /\ \A t \in Task : Applying(t) => rows[arg[t]].reason # "review"

\* What the sweep has read stays due for an alert until the sweep itself marks it.
SweepIsCurrent ==
  /\ \A e \in sweep.todo : ~rows[e].alerted
  /\ sweep.cur \notin sweep.todo
  /\ sweep.pc = "alert" => ~rows[sweep.cur].alerted

IInv ==
  /\ TypeOK
  /\ RecordedFirst /\ OneApplier /\ FreshBeforeInsert
  /\ AutoAppliedOnce /\ FinishedBeforeRecorded /\ ParkedAlone

----------------------------------------------------------------------------
(* The table keeps the promise of TradeOnce: at most one automatic attempt *)
(* per trade.                                                              *)

Attempt ==
  [e \in Event |->
     IF e \notin recorded THEN "new"
     ELSE IF \E t \in Task : by[t] = "helper" /\ pc[t] = "apply" /\ arg[t] = e THEN "running"
     ELSE "over"]

Once == INSTANCE TradeOnce WITH attempt <- Attempt, applied <- [e \in Event |-> Len(auto[e])]

\* Retries, races for the insert, cancelled and orphaned handlers, reviews and
\* restarts are all, seen from outside, one attempt that runs once.
OneAttempt == Once!Spec

----------------------------------------------------------------------------
(* What the source states and the code does not keep.                      *)

\* "an applied event can't be applied again" (test of apply_reviewed).  A row is up for
\* review while handle_incoming applies it, so a review may pass its check (reviewable)
\* meanwhile and apply the items after the row has come to say applied.
AppliedIsNotAppliedAgain ==
  [][\A t \in Task : ApplyItem(t) => rows[arg[t]].status # "applied"]_vars

\* "alerts once ... on rows still applying" (sweep_alerts): the reason is
\* rewritten before the alert, so a sweep that stops in between never comes back.
InterruptedRowsAlerted ==
  \A e \in Event : rows[e].reason = "apply_interrupted" /\ sweep.cur # e => alerts[e] > 0
=============================================================================
