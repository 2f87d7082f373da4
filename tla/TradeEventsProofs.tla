------------------------- MODULE TradeEventsProofs -------------------------
(***************************************************************************)
(* Proofs about TradeEvents: its types and the invariant that makes the    *)
(* helper's retries harmless, for any number of events, requests and items.*)
(***************************************************************************)
EXTENDS TradeEvents, TLAPS

\* The initial state satisfies the inductive invariant.
LEMMA InitIInv == Init => IInv
  BY TradeEventsAssumption
  DEF Init, IInv, TypeOK, RecordedFirst, OneApplier, FreshBeforeInsert, AutoAppliedOnce,
      FinishedBeforeRecorded, AppliedRowsFinished, ParkedAlone, ParkedNotApplied, Applying,
      PreInsert, Reviewing, Exists, Purged, Row, NoRow, Status, Reason, PC, DbPC, SweepIdle, Item

\* Field updates keep a row a row.
LEMMA RowUpdates ==
  ASSUME NEW r \in Row, NEW st \in Status, NEW re \in Reason
  PROVE  /\ [r EXCEPT !.status = st, !.reason = re] \in Row
         /\ [r EXCEPT !.reason = re] \in Row
         /\ [r EXCEPT !.alerted = TRUE] \in Row
         /\ [r EXCEPT !.old = TRUE] \in Row
  BY DEF Row

----------------------------------------------------------------------------
(* Most steps move at most one task, and neither insert a row nor apply an *)
(* item: what they may do, and why the invariant survives it.              *)

Step(t, p) ==
  /\ pc[t] # "idle" /\ p \in PC \ {"idle", "record_applied"}
  /\ p \in PreInsert => pc[t] \in PreInsert
  /\ p \in Reviewing => by[t] = "user"
  /\ p \in {"apply", "record_failed"} => by[t] = "user" \/ pc[t] = "apply"
  /\ Goto(t, p)

\* Rows change, none appears or disappears, none is called applied too early
\* and none turns into a parked one.
RowsMove ==
  /\ rows' \in [Event -> Row]
  /\ \A e \in Event :
       /\ Exists(e)' <=> Exists(e)
       /\ rows'[e].status = "applied" => e \in finished
       /\ rows'[e].reason = "review" => rows[e].reason = "review"

RestTyped ==
  /\ sweep' \in [pc : {"idle", "next", "alert", "mark"}, cur : Event \cup {NoEvent},
                 todo : SUBSET Event, applying : SUBSET Event]
  /\ sweep'.pc \in {"alert", "mark"} => sweep'.cur \in Event
  /\ alerts' \in [Event -> 0..2]
  /\ faults' \in Nat
  /\ reviews' \in [Event -> Nat]

\* A step that moves one task on, or frees it, and touches rows within RowsMove.
LEMMA MoveIInv ==
  ASSUME IInv,
         (\E t \in Task : Free(t) \/ \E p \in PC : Step(t, p)) \/ UNCHANGED taskVars,
         RowsMove, RestTyped, UNCHANGED <<recorded, auto, finished>>
  PROVE  IInv'
<1>1. TypeOK'
  <2>1. ASSUME NEW t \in Task, Free(t) PROVE TypeOK'
    BY <2>1, TradeEventsAssumption DEF IInv, TypeOK, Free, RowsMove, RestTyped, PC
  <2>2. ASSUME NEW t \in Task, \E p \in PC : Step(t, p) PROVE TypeOK'
    BY <2>2 DEF IInv, TypeOK, Step, Goto, RowsMove, RestTyped
  <2>3. CASE UNCHANGED taskVars
    BY <2>3 DEF IInv, TypeOK, taskVars, RowsMove, RestTyped
  <2> QED BY <2>1, <2>2, <2>3
<1> DEFINE TaskMoved ==
      \A u \in Task :
          /\ arg'[u] = arg[u] /\ by'[u] = by[u] /\ done'[u] = done[u] /\ pc'[u] = pc[u]
          \/ pc'[u] = "idle"
          \/ /\ arg'[u] = arg[u] /\ by'[u] = by[u] /\ done'[u] = done[u]
             /\ pc[u] # "idle" /\ pc'[u] \in PC \ {"idle", "record_applied"}
             /\ pc'[u] \in PreInsert => pc[u] \in PreInsert
             /\ pc'[u] \in Reviewing => by[u] = "user"
             /\ pc'[u] \in {"apply", "record_failed"} => by[u] = "user" \/ pc[u] = "apply"
<1>2. TaskMoved
  <2>1. ASSUME NEW t \in Task, Free(t) PROVE TaskMoved
    BY <2>1 DEF IInv, TypeOK, Free
  <2>2. ASSUME NEW t \in Task, \E p \in PC : Step(t, p) PROVE TaskMoved
    BY <2>2 DEF IInv, TypeOK, Step, Goto
  <2>3. CASE UNCHANGED taskVars
    BY <2>3 DEF taskVars
  <2> QED BY <2>1, <2>2, <2>3
<1>3. \A u \in Task : Applying(u)' => Applying(u) /\ arg'[u] = arg[u] /\ done'[u] = done[u]
  BY <1>2 DEF Applying, PreInsert, Reviewing
<1>4. RecordedFirst'
  BY <1>3 DEF IInv, RecordedFirst, RowsMove
<1>5. OneApplier'
  BY <1>3 DEF IInv, OneApplier
<1>6. FreshBeforeInsert'
  BY <1>1, <1>2 DEF IInv, TypeOK, FreshBeforeInsert, RowsMove, Purged, PreInsert, Reviewing
<1>7. AutoAppliedOnce'
  BY DEF IInv, AutoAppliedOnce
<1>8. FinishedBeforeRecorded'
  BY <1>2 DEF IInv, FinishedBeforeRecorded, AppliedRowsFinished, RowsMove
<1>9. ParkedAlone'
  <2>1. ParkedNotApplied'
    BY DEF IInv, ParkedAlone, ParkedNotApplied, RowsMove
  <2>2. ASSUME NEW u \in Task, Applying(u)' PROVE rows'[arg'[u]].reason # "review"
    <3>1. Applying(u) /\ arg'[u] = arg[u] /\ arg[u] \in Event
      BY <1>3, <2>2 DEF IInv, TypeOK, Applying
    <3> QED BY <3>1 DEF IInv, ParkedAlone, RowsMove
  <2> QED BY <2>1, <2>2 DEF ParkedAlone
<1> QED BY <1>1, <1>4, <1>5, <1>6, <1>7, <1>8, <1>9 DEF IInv

----------------------------------------------------------------------------
(* The steps covered by MoveIInv.                                          *)

LEMMA NextAwaitIInv ==
  ASSUME IInv, NEW t \in Task,
         CheckExists(t) \/ ResolveEvent(t) \/ ApplyFails(t) \/ GetReviewable(t)
           \/ Deliver(t) \/ Cancel(t) \/ DbError(t)
  PROVE  IInv'
<1>1. RowsMove /\ RestTyped /\ UNCHANGED <<recorded, auto, finished>>
  BY DEF IInv, TypeOK, FinishedBeforeRecorded, AppliedRowsFinished, RowsMove, RestTyped, Exists,
         CheckExists, ResolveEvent, ApplyFails, GetReviewable, Deliver, Cancel, DbError, Fault
<1>2. Free(t) \/ (\E p \in PC : Step(t, p))
  <2>1. CASE CheckExists(t)
    BY <2>1 DEF CheckExists, Reply, Step, PC, DbPC, PreInsert, Reviewing
  <2>2. CASE ResolveEvent(t)
    BY <2>2 DEF ResolveEvent, Step, PC, DbPC, PreInsert, Reviewing
  <2>3. CASE ApplyFails(t)
    BY <2>3 DEF ApplyFails, Step, PC, DbPC, PreInsert, Reviewing
  <2>4. CASE GetReviewable(t)
    BY <2>4 DEF GetReviewable, Step, PC, DbPC, PreInsert, Reviewing, IInv, FreshBeforeInsert
  <2>5. CASE Deliver(t) \/ Cancel(t)
    BY <2>5 DEF Deliver, Cancel
  <2>6. CASE DbError(t)
    BY <2>6 DEF DbError, Reply, Step, PC, DbPC, PreInsert, Reviewing
  <2> QED BY <2>1, <2>2, <2>3, <2>4, <2>5, <2>6
<1> QED BY <1>1, <1>2, MoveIInv

\* set_status by the request that applied, failed or ignores.
LEMMA SetStatusIInv ==
  ASSUME IInv, NEW t \in Task, Record(t) \/ Ignore(t)
  PROVE  IInv'
<1>1. RestTyped /\ UNCHANGED <<recorded, auto, finished>>
  BY DEF IInv, TypeOK, RestTyped, Record, Ignore
<1>2. arg[t] \in Event
  BY DEF IInv, TypeOK, Record, Ignore
<1>3. RowsMove
  <2> DEFINE a == arg[t]
  <2>1. PICK st \in Status, re \in Reason :
          /\ SetStatus(a, st, re)
          /\ st # "none" /\ re # "review"
          /\ st = "applied" => a \in finished
    BY DEF IInv, FinishedBeforeRecorded, Record, Ignore, Status, Reason
  <2>2. /\ \A e \in Event \ {a} : rows'[e] = rows[e]
        /\ rows' \in [Event -> Row]
        /\ rows'[a] = rows[a] \/ (Exists(a) /\ rows'[a].status = st /\ rows'[a].reason = re)
    <3>1. rows[a] \in Row /\ [rows[a] EXCEPT !.status = st, !.reason = re] \in Row
      BY <1>2, RowUpdates DEF IInv, TypeOK
    <3> QED BY <1>2, <2>1, <3>1 DEF IInv, TypeOK, SetStatus, Row
  <2>3. ASSUME NEW e \in Event
        PROVE  /\ Exists(e)' <=> Exists(e)
               /\ rows'[e].status = "applied" => e \in finished
               /\ rows'[e].reason = "review" => rows[e].reason = "review"
    BY <2>1, <2>2 DEF IInv, FinishedBeforeRecorded, AppliedRowsFinished, Exists
  <2> QED BY <2>2, <2>3 DEF RowsMove
<1>4. Free(t) \/ (\E p \in PC : Step(t, p))
  BY DEF Record, Ignore, Reply, Step, PC, DbPC, PreInsert, Reviewing
<1> QED BY <1>1, <1>3, <1>4, MoveIInv

\* The housekeeping sweep and the passage of time.
LEMMA SweepIInv ==
  ASSUME IInv, SweepStep \/ SweepError \/ (\E e \in Event : GrowOld(e))
  PROVE  IInv'
<1>1. UNCHANGED <<taskVars, recorded, auto, finished>>
  BY DEF SweepStep, SweepRead, SweepNext, SweepAlert, SweepMark, SweepError, GrowOld
<1>2. RestTyped
  <2> USE DEF IInv, TypeOK, RestTyped
  <2>1. CASE SweepRead
    <3>1. /\ sweep'.pc = "next" /\ UNCHANGED <<alerts, faults, reviews>>
          /\ \E T, A \in SUBSET Event :
               sweep' = [pc |-> "next", cur |-> NoEvent, todo |-> T, applying |-> A]
      BY <2>1 DEF SweepRead
    <3> QED BY <3>1
  <2>2. CASE SweepNext
    <3>1. PICK e \in sweep.todo :
            sweep' = [sweep EXCEPT !.pc = "alert", !.cur = e, !.todo = @ \ {e}]
      BY <2>2 DEF SweepNext
    <3>2. e \in Event /\ sweep.todo \ {e} \in SUBSET Event
      OBVIOUS
    <3>3. UNCHANGED <<alerts, faults, reviews>>
      BY <2>2 DEF SweepNext
    <3> QED BY <3>1, <3>2, <3>3
  <2>3. CASE SweepAlert
    <3>1. sweep.cur \in Event /\ alerts[sweep.cur] \in 0..2
      BY <2>3 DEF SweepAlert
    <3> DEFINE n == alerts[sweep.cur] + 1
               m == IF n > 2 THEN 2 ELSE n
    <3>2. alerts' = [alerts EXCEPT ![sweep.cur] = m] /\ m \in 0..2
      BY <2>3, <3>1 DEF SweepAlert
    <3>3. sweep' = [sweep EXCEPT !.pc = "mark"] /\ UNCHANGED <<faults, reviews>>
      BY <2>3 DEF SweepAlert
    <3> QED BY <3>1, <3>2, <3>3
  <2>4. CASE SweepMark        BY <2>4 DEF SweepMark, SweepIdle
  <2>5. CASE SweepError       BY <2>5 DEF SweepError, SweepIdle, Fault
  <2>6. CASE \E e \in Event : GrowOld(e)
    BY <2>6 DEF GrowOld
  <2> QED BY <2>1, <2>2, <2>3, <2>4, <2>5, <2>6 DEF SweepStep
<1>3. RowsMove
  <2>1. CASE UNCHANGED rows
    BY <2>1 DEF IInv, TypeOK, FinishedBeforeRecorded, AppliedRowsFinished, RowsMove, Exists
  <2>2. ASSUME NEW a \in Event, NEW r \in Row, rows' = [rows EXCEPT ![a] = r],
               r.status = rows[a].status, r.reason # "review" \/ r.reason = rows[a].reason
        PROVE  RowsMove
    BY <2>2 DEF IInv, TypeOK, FinishedBeforeRecorded, AppliedRowsFinished, RowsMove, Exists
  <2>3. CASE SweepNext
    <3>1. PICK a \in Event : \/ UNCHANGED rows
                             \/ rows' = [rows EXCEPT ![a].reason = "apply_interrupted"]
      BY <2>3 DEF SweepNext, IInv, TypeOK
    <3>2. rows[a] \in Row /\ "apply_interrupted" \in Reason /\ "none" \in Status
      BY DEF IInv, TypeOK, Reason, Status
    <3>3. [rows[a] EXCEPT !.reason = "apply_interrupted"] \in Row
      BY <3>2, RowUpdates
    <3> QED BY <2>1, <2>2, <3>1, <3>2, <3>3 DEF IInv, TypeOK, Row
  <2>4. CASE SweepMark
    <3>1. sweep.cur \in Event
      BY <2>4 DEF SweepMark, IInv, TypeOK
    <3>2. rows[sweep.cur] \in Row /\ "none" \in Reason /\ "none" \in Status
      BY <3>1 DEF IInv, TypeOK, Reason, Status
    <3>3. [rows[sweep.cur] EXCEPT !.alerted = TRUE] \in Row
      BY <3>2, RowUpdates
    <3> QED BY <2>1, <2>2, <2>4, <3>1, <3>2, <3>3 DEF SweepMark, IInv, TypeOK, Row
  <2>5. CASE \E e \in Event : GrowOld(e)
    <3>1. PICK e \in Event : GrowOld(e)
      BY <2>5
    <3>2. rows[e] \in Row /\ "none" \in Reason /\ "none" \in Status
      BY DEF IInv, TypeOK, Reason, Status
    <3>3. [rows[e] EXCEPT !.old = TRUE] \in Row
      BY <3>2, RowUpdates
    <3> QED BY <2>2, <3>1, <3>2, <3>3 DEF GrowOld, IInv, TypeOK, Row
  <2>6. CASE SweepRead \/ SweepAlert \/ SweepError
    BY <2>1, <2>6 DEF SweepRead, SweepAlert, SweepError
  <2> QED BY <2>3, <2>4, <2>5, <2>6 DEF SweepStep
<1> QED BY <1>1, <1>2, <1>3, MoveIInv

----------------------------------------------------------------------------
(* The other steps.                                                        *)

\* A request begins.
LEMMA StartIInv ==
  ASSUME IInv, NEW t \in Task, NEW e \in Event, Arrive(t, e) \/ ReviewRequest(t, e)
  PROVE  IInv'
<1>1. TypeOK'
  <2>1. PICK who \in {"helper", "user"}, at \in PC : Start(t, e, who, at)
    BY DEF Arrive, ReviewRequest, Review, PC, DbPC
  <2>2. UNCHANGED <<rows, sweep, recorded, auto, finished, alerts, faults>>
    BY DEF Arrive, ReviewRequest, Review
  <2>3. reviews' \in [Event -> Nat]
    BY DEF IInv, TypeOK, Arrive, ReviewRequest, Review
  <2> QED BY <2>1, <2>2, <2>3, TradeEventsAssumption DEF IInv, TypeOK, Start
<1>2. \A u \in Task \ {t} : pc'[u] = pc[u] /\ arg'[u] = arg[u] /\ by'[u] = by[u] /\ done'[u] = done[u]
  BY DEF IInv, TypeOK, Arrive, ReviewRequest, Review, Start
<1>3. /\ arg'[t] = e /\ done'[t] = 0
      /\ \/ pc'[t] = "exists" /\ by'[t] = "helper" /\ ~Purged(e)
         \/ pc'[t] \in Reviewing /\ by'[t] = "user"
  BY DEF IInv, TypeOK, Arrive, ReviewRequest, Review, Start, Reviewing
<1>4. UNCHANGED <<rows, recorded, auto, finished>>
  BY DEF Arrive, ReviewRequest, Review
<1>5. \A u \in Task : Applying(u)' => u # t /\ Applying(u) /\ arg'[u] = arg[u] /\ done'[u] = done[u]
  BY <1>2, <1>3 DEF Applying, Reviewing
<1>6. RecordedFirst' /\ OneApplier'
  BY <1>4, <1>5 DEF IInv, RecordedFirst, OneApplier, Exists
<1>7. FreshBeforeInsert'
  BY <1>2, <1>3, <1>4 DEF IInv, FreshBeforeInsert, PreInsert, Reviewing, Purged, Exists
<1>8. AutoAppliedOnce' /\ FinishedBeforeRecorded' /\ ParkedAlone'
  BY <1>2, <1>3, <1>4, <1>5
  DEF IInv, AutoAppliedOnce, FinishedBeforeRecorded, AppliedRowsFinished, ParkedAlone,
      ParkedNotApplied, Reviewing
<1> QED BY <1>1, <1>6, <1>7, <1>8 DEF IInv

\* The next item is applied: this is where auto grows, and only the one
\* applier, whose progress is the length of auto, makes it grow.
LEMMA ApplyItemIInv ==
  ASSUME IInv, NEW t \in Task, ApplyItem(t)
  PROVE  IInv'
<1>1. TypeOK'
  BY TradeEventsAssumption DEF IInv, TypeOK, ApplyItem, PC, DbPC, Item
<1>2. RecordedFirst' /\ OneApplier' /\ FreshBeforeInsert'
  BY DEF IInv, TypeOK, ApplyItem, PC, DbPC, RecordedFirst, OneApplier, FreshBeforeInsert,
         Applying, PreInsert, Reviewing, Exists, Purged, Item
<1>3. AutoAppliedOnce' /\ FinishedBeforeRecorded' /\ ParkedAlone'
  BY DEF IInv, TypeOK, ApplyItem, OneApplier, PC, DbPC, AutoAppliedOnce, Item,
         FinishedBeforeRecorded, AppliedRowsFinished, ParkedAlone, ParkedNotApplied, Applying
<1> QED BY <1>1, <1>2, <1>3 DEF IInv

\* The insert: either the row is there, or the event was never recorded.
LEMMA InsertRowIInv ==
  ASSUME IInv, NEW t \in Task, InsertRow(t)
  PROVE  IInv'
<1> DEFINE e == arg[t]
<1>1. e \in Event /\ by[t] = "helper" /\ done[t] = 0 /\ ~Purged(e)
  BY DEF IInv, TypeOK, InsertRow, FreshBeforeInsert, PreInsert
<1>2. CASE Exists(e)
  <2>1. Step(t, "accepted") /\ UNCHANGED <<rows, recorded, sweep, auto, finished, alerts, faults, reviews>>
    BY <1>2 DEF InsertRow, KeyTaken, AfterInsert, Step, PC, DbPC, PreInsert, Reviewing
  <2>2. RowsMove /\ RestTyped
    BY <2>1 DEF IInv, TypeOK, FinishedBeforeRecorded, AppliedRowsFinished, RowsMove, RestTyped, Exists
  <2>3. "accepted" \in PC
    BY DEF PC
  <2> QED BY <2>1, <2>2, <2>3, MoveIInv
<1>3. CASE ~Exists(e)
  <2>1. e \notin recorded /\ auto[e] = <<>>
    BY <1>1, <1>3 DEF IInv, RecordedFirst, Purged
  <2>2. \A u \in Task : Applying(u) => arg[u] # e
    BY <2>1 DEF IInv, RecordedFirst
  <2>3. TypeOK'
    <3>1. PICK r \in Row : rows' = [rows EXCEPT ![e] = r]
      BY <1>1, <1>3 DEF InsertRow, KeyTaken, AfterInsert, Row, Status, Reason
    <3>2. PICK p \in PC : p # "idle" /\ Goto(t, p)
      BY <1>3 DEF InsertRow, KeyTaken, AfterInsert, PC
    <3>3. recorded' = recorded \cup {e} /\ UNCHANGED <<sweep, auto, finished, alerts, faults, reviews>>
      BY <1>3 DEF InsertRow, KeyTaken, AfterInsert
    <3>4. pc[t] # "idle"
      BY DEF InsertRow, KeyTaken, AfterInsert
    <3> QED BY <1>1, <3>1, <3>2, <3>3, <3>4 DEF IInv, TypeOK, Goto
  <2>4. /\ recorded' = recorded \cup {e} /\ UNCHANGED <<arg, by, done, auto, finished>>
        /\ rows'[e].status = "needs_review"
        /\ rows'[e].reason = IF pc[t] = "insert_apply" THEN "applying" ELSE "review"
        /\ \A f \in Event \ {e} : rows'[f] = rows[f]
        /\ \A u \in Task \ {t} : pc'[u] = pc[u]
        /\ pc'[t] = IF pc[t] = "insert_apply" THEN "apply" ELSE "accepted"
    BY <1>1, <1>3 DEF IInv, TypeOK, InsertRow, KeyTaken, AfterInsert, Goto
  <2>5. RecordedFirst'
    BY <1>1, <2>4 DEF IInv, RecordedFirst, Applying, Exists
  <2>6. OneApplier'
    BY <1>1, <2>1, <2>2, <2>4 DEF IInv, OneApplier, Applying
  <2>7. FreshBeforeInsert'
    BY <1>1, <2>4 DEF IInv, TypeOK, FreshBeforeInsert, PreInsert, Reviewing, Purged, Exists
  <2>8. AutoAppliedOnce' /\ FinishedBeforeRecorded'
    BY <2>4 DEF IInv, AutoAppliedOnce, FinishedBeforeRecorded, AppliedRowsFinished
  <2>9. ParkedAlone'
    <3>1. ParkedNotApplied'
      BY <2>1, <2>4 DEF IInv, ParkedAlone, ParkedNotApplied
    <3>2. ASSUME NEW u \in Task, Applying(u)' PROVE rows'[arg'[u]].reason # "review"
      BY <3>2, <2>2, <2>4 DEF IInv, TypeOK, ParkedAlone, Applying
    <3> QED BY <3>1, <3>2 DEF ParkedAlone
  <2> QED BY <2>3, <2>5, <2>6, <2>7, <2>8, <2>9 DEF IInv
<1> QED BY <1>2, <1>3

\* Retention takes a row no request is working on.
LEMMA RetentionIInv ==
  ASSUME IInv, NEW e \in Event, Retention(e)
  PROVE  IInv'
<1>1. TypeOK'
  BY DEF IInv, TypeOK, Retention, taskVars, NoRow, Row, Status, Reason
<1>2. /\ UNCHANGED <<taskVars, recorded, auto, finished>>
      /\ rows'[e] = NoRow
      /\ \A f \in Event \ {e} : rows'[f] = rows[f]
      /\ \A t \in Task : arg[t] # e
  BY DEF IInv, TypeOK, Retention
<1>3. RecordedFirst' /\ OneApplier' /\ AutoAppliedOnce' /\ FinishedBeforeRecorded'
  BY <1>2 DEF IInv, RecordedFirst, OneApplier, AutoAppliedOnce, FinishedBeforeRecorded,
              AppliedRowsFinished, Applying, Exists, taskVars, NoRow
<1>4. FreshBeforeInsert'
  <2>1. ASSUME NEW t \in Task, pc[t] \in PreInsert PROVE ~Purged(arg[t])'
    <3>1. arg[t] \in Event /\ arg[t] # e
      BY <1>2, <2>1 DEF IInv, TypeOK, PreInsert
    <3> QED BY <1>2, <2>1, <3>1 DEF IInv, FreshBeforeInsert, Purged, Exists, taskVars
  <2> QED BY <1>2, <2>1 DEF IInv, FreshBeforeInsert, taskVars
<1>5. ParkedAlone'
  <2>1. ParkedNotApplied'
    BY <1>2 DEF IInv, ParkedAlone, ParkedNotApplied, NoRow
  <2>2. ASSUME NEW t \in Task, Applying(t) PROVE rows'[arg[t]].reason # "review"
    <3>1. arg[t] \in Event /\ arg[t] # e
      BY <1>2, <2>2 DEF IInv, TypeOK, Applying
    <3> QED BY <1>2, <2>2, <3>1 DEF IInv, ParkedAlone
  <2> QED BY <1>2, <2>1, <2>2 DEF ParkedAlone, Applying, taskVars
<1> QED BY <1>1, <1>3, <1>4, <1>5 DEF IInv

LEMMA RestartIInv ==
  ASSUME IInv, Restart
  PROVE  IInv'
<1>1. TypeOK'
  BY TradeEventsAssumption DEF IInv, TypeOK, Restart, Fault, SweepIdle, PC
<1>2. RecordedFirst' /\ OneApplier' /\ FreshBeforeInsert' /\ AutoAppliedOnce'
        /\ FinishedBeforeRecorded' /\ ParkedAlone'
  BY DEF IInv, Restart, RecordedFirst, OneApplier, FreshBeforeInsert, AutoAppliedOnce,
         FinishedBeforeRecorded, AppliedRowsFinished, ParkedAlone, ParkedNotApplied, Applying,
         PreInsert, Reviewing, Exists
<1> QED BY <1>1, <1>2 DEF IInv

----------------------------------------------------------------------------
(* The theorems.                                                           *)

\* Every step preserves the invariant.
LEMMA NextIInv == IInv /\ [Next]_vars => IInv'
<1> SUFFICES ASSUME IInv, [Next]_vars PROVE IInv'
  OBVIOUS
<1>1. ASSUME NEW t \in Task, TaskStep(t) \/ DbError(t) \/ Cancel(t) \/ Deliver(t)
      PROVE  IInv'
  BY <1>1, NextAwaitIInv, InsertRowIInv, ApplyItemIInv, SetStatusIInv DEF TaskStep
<1>2. ASSUME NEW t \in Task, NEW e \in Event, Arrive(t, e) \/ ReviewRequest(t, e)
      PROVE  IInv'
  BY <1>2, StartIInv
<1>3. CASE SweepStep \/ SweepError \/ \E e \in Event : GrowOld(e)
  BY <1>3, SweepIInv
<1>4. ASSUME NEW e \in Event, Retention(e) PROVE IInv'
  BY <1>4, RetentionIInv
<1>5. CASE Restart
  BY <1>5, RestartIInv
<1>6. CASE UNCHANGED vars
  BY <1>6 DEF vars, taskVars, IInv, TypeOK, RecordedFirst, OneApplier, FreshBeforeInsert,
     AutoAppliedOnce, FinishedBeforeRecorded, AppliedRowsFinished, ParkedAlone,
     ParkedNotApplied, Applying, PreInsert, Reviewing, Exists, Purged
<1> QED BY <1>1, <1>2, <1>3, <1>4, <1>5, <1>6 DEF Next, ServerStep

\* The inductive invariant holds in every reachable state.
THEOREM Invariance == Spec => []IInv
<1>1. Init => IInv
  BY InitIInv
<1>2. IInv /\ [Next]_vars => IInv'
  BY NextIInv
<1> QED BY <1>1, <1>2, PTL DEF Spec

\* The table and the tasks keep their types.
THEOREM TypeCorrect == Spec => []TypeOK
<1>1. IInv => TypeOK
  BY DEF IInv
<1> QED BY <1>1, Invariance, PTL

\* Retries, races, cancelled handlers, reviews and restarts never make the
\* helper's requests apply an item of a trade twice or out of order.
THEOREM AutoAppliedOnceHolds == Spec => []AutoAppliedOnce
<1>1. IInv => AutoAppliedOnce
  BY DEF IInv
<1> QED BY <1>1, Invariance, PTL

\* A row says applied only when one request applied every item of the trade.
THEOREM AppliedRowsFinishedHolds == Spec => []AppliedRowsFinished
<1>1. IInv => AppliedRowsFinished
  BY DEF IInv, FinishedBeforeRecorded
<1> QED BY <1>1, Invariance, PTL

\* A trade parked for review is never applied automatically.
THEOREM ParkedNotAppliedHolds == Spec => []ParkedNotApplied
<1>1. IInv => ParkedNotApplied
  BY DEF IInv, ParkedAlone
<1> QED BY <1>1, Invariance, PTL
----------------------------------------------------------------

----------------------------------------------------------------------------
(* The sweep's alerts.                                                     *)

\* A step of the table outside the sweep leaves no row freshly alerted.
LEMMA OthersKeepSweepCurrent ==
  ASSUME IInv, SweepIsCurrent, UNCHANGED sweep,
         \A e \in Event : rows'[e].alerted => rows[e].alerted
  PROVE  SweepIsCurrent'
  BY DEF IInv, TypeOK, SweepIsCurrent

LEMMA TasksKeepSweepCurrent ==
  ASSUME IInv, SweepIsCurrent, NEW t \in Task, TaskStep(t)
  PROVE  SweepIsCurrent'
<1>1. CASE CheckExists(t) \/ ResolveEvent(t) \/ ApplyItem(t) \/ ApplyFails(t) \/ GetReviewable(t)
  BY <1>1 DEF CheckExists, ResolveEvent, ApplyItem, ApplyFails, GetReviewable, SweepIsCurrent
<1>2. CASE InsertRow(t)
  <2>1. arg[t] \in Event
    BY <1>2 DEF IInv, TypeOK, InsertRow
  <2>2. UNCHANGED sweep
    BY <1>2 DEF InsertRow
  <2>3. \A e \in Event : rows'[e].alerted => rows[e].alerted
    <3>1. UNCHANGED rows \/ \E r : rows' = [rows EXCEPT ![arg[t]] = r] /\ r.alerted = FALSE
      BY <1>2 DEF InsertRow
    <3>2. rows \in [Event -> Row]
      BY DEF IInv, TypeOK
    <3> QED BY <3>1, <3>2
  <2> QED BY <2>2, <2>3, OthersKeepSweepCurrent
<1>3. CASE Record(t) \/ Ignore(t)
  <2>1. arg[t] \in Event
    BY <1>3 DEF IInv, TypeOK, Record, Ignore
  <2>2. UNCHANGED sweep
    BY <1>3 DEF Record, Ignore
  <2>3. PICK st \in Status, re \in Reason : SetStatus(arg[t], st, re)
    BY <1>3 DEF Record, Ignore, Status, Reason
  <2>4. \A e \in Event : rows'[e].alerted => rows[e].alerted
    BY <2>1, <2>3 DEF IInv, TypeOK, SetStatus, Row
  <2> QED BY <2>2, <2>4, OthersKeepSweepCurrent
<1> QED BY <1>1, <1>2, <1>3 DEF TaskStep

\* The sweep reads rows without an alert, alerts on each once and marks it.
LEMMA SweepStaysCurrent ==
  ASSUME IInv, SweepIsCurrent, SweepStep \/ SweepError \/ Restart
  PROVE  SweepIsCurrent'
<1>1. CASE SweepRead
  BY <1>1, TradeEventsAssumption DEF SweepRead, SweepIsCurrent, NeedsAlert
<1>2. CASE SweepNext
  <2>1. PICK e \in sweep.todo :
          /\ sweep' = [sweep EXCEPT !.pc = "alert", !.cur = e, !.todo = @ \ {e}]
          /\ UNCHANGED rows \/ rows' = [rows EXCEPT ![e].reason = "apply_interrupted"]
    BY <1>2 DEF SweepNext
  <2>2. e \in Event /\ \A f \in Event : rows'[f].alerted = rows[f].alerted
    <3>1. e \in Event /\ rows \in [Event -> Row]
      BY <2>1 DEF IInv, TypeOK
    <3> QED BY <2>1, <3>1 DEF Row
  <2>3. sweep'.pc = "alert" /\ sweep'.cur = e /\ sweep'.todo = sweep.todo \ {e}
    BY <2>1 DEF IInv, TypeOK
  <2> QED BY <2>2, <2>3 DEF IInv, TypeOK, SweepIsCurrent
<1>3. CASE SweepAlert
  <2>1. sweep'.pc = "mark" /\ sweep'.cur = sweep.cur /\ sweep'.todo = sweep.todo /\ UNCHANGED rows
    BY <1>3 DEF SweepAlert, IInv, TypeOK
  <2> QED BY <2>1 DEF SweepIsCurrent
<1>4. CASE SweepMark
  <2>1. \A f \in Event \ {sweep.cur} : rows'[f] = rows[f]
    BY <1>4 DEF SweepMark, IInv, TypeOK
  <2>2. CASE sweep.todo = {}
    BY <1>4, <2>2 DEF SweepMark, SweepIdle, SweepIsCurrent
  <2>3. CASE sweep.todo # {}
    <3>1. sweep'.pc = "next" /\ sweep'.cur = NoEvent /\ sweep'.todo = sweep.todo
      BY <1>4, <2>3 DEF SweepMark, IInv, TypeOK
    <3> QED BY <2>1, <3>1, TradeEventsAssumption DEF IInv, TypeOK, SweepIsCurrent
  <2> QED BY <2>2, <2>3
<1>5. CASE SweepError \/ Restart
  BY <1>5 DEF SweepError, Restart, SweepIdle, SweepIsCurrent
<1> QED BY <1>1, <1>2, <1>3, <1>4, <1>5 DEF SweepStep

LEMMA NextSweepIsCurrent ==
  ASSUME IInv, SweepIsCurrent, [Next]_vars
  PROVE  SweepIsCurrent'
<1>1. CASE \E t \in Task : TaskStep(t)
  BY <1>1, TasksKeepSweepCurrent
<1>2. CASE SweepStep \/ SweepError \/ Restart
  BY <1>2, SweepStaysCurrent
<1>3. CASE \/ \E t \in Task : DbError(t) \/ Cancel(t) \/ Deliver(t)
           \/ \E t \in Task, e \in Event : ReviewRequest(t, e) \/ Arrive(t, e)
           \/ UNCHANGED vars
  BY <1>3 DEF DbError, Cancel, Deliver, ReviewRequest, Review, Arrive, vars, SweepIsCurrent
<1>4. ASSUME NEW e \in Event, GrowOld(e) \/ Retention(e) PROVE SweepIsCurrent'
  <2>1. UNCHANGED sweep /\ \A f \in Event : rows'[f].alerted => rows[f].alerted
    <3>1. rows \in [Event -> Row]
      BY DEF IInv, TypeOK
    <3>2. CASE GrowOld(e)
      BY <3>1, <3>2 DEF GrowOld, Row
    <3>3. CASE Retention(e)
      BY <3>1, <3>3 DEF Retention, NoRow
    <3> QED BY <1>4, <3>2, <3>3
  <2> QED BY <2>1, OthersKeepSweepCurrent
<1> QED BY <1>1, <1>2, <1>3, <1>4 DEF Next, ServerStep

\* Only the sweep raises alerts, and only for the row it is at.
LEMMA AlertsAreTheSweeps ==
  ASSUME IInv, SweepIsCurrent, [Next]_vars, NEW e \in Event, alerts'[e] # alerts[e]
  PROVE  ~rows[e].alerted
<1>1. CASE SweepAlert
  <2>1. e = sweep.cur
    BY <1>1 DEF SweepAlert, IInv, TypeOK
  <2> QED BY <1>1, <2>1 DEF SweepAlert, SweepIsCurrent
<1>2. CASE ~SweepAlert
  <2>1. UNCHANGED alerts
    BY <1>2 DEF Next, ServerStep, SweepStep, SweepRead, SweepNext, SweepMark, SweepError, TaskStep,
           CheckExists, ResolveEvent, InsertRow, ApplyItem, ApplyFails, Record, GetReviewable,
           Ignore, DbError, ReviewRequest, Review, GrowOld, Retention, Arrive, Cancel, Deliver,
           Restart, vars
  <2> QED BY <2>1
<1> QED BY <1>1, <1>2

\* The sweep never raises an alert for a row already marked as alerted: what it
\* read before its awaits is still true when it alerts, whatever requests did in between.
THEOREM AlertedRowsStayQuietHolds == Spec => AlertedRowsStayQuiet
<1>1. Init => SweepIsCurrent
  BY TradeEventsAssumption DEF Init, SweepIsCurrent, SweepIdle
<1>2. IInv /\ SweepIsCurrent /\ [Next]_vars => SweepIsCurrent'
  BY NextSweepIsCurrent
<1>3. IInv /\ SweepIsCurrent /\ [Next]_vars
        => [\A e \in Event : alerts'[e] # alerts[e] => ~rows[e].alerted]_vars
  BY AlertsAreTheSweeps
<1> QED BY <1>1, <1>2, <1>3, Invariance, PTL DEF Spec, AlertedRowsStayQuiet

----------------------------------------------------------------------------
(* One attempt: every step is one of TradeOnce's, or none.                 *)

Running(e) == \E t \in Task : by[t] = "helper" /\ pc[t] = "apply" /\ arg[t] = e

LEMMA InitOnce == Init => Once!Init
  BY DEF Init, Once!Init, Attempt

\* A step that records and applies nothing ends attempts, or leaves them alone.
LEMMA AttemptsStop ==
  ASSUME IInv, UNCHANGED <<recorded, auto>>, \A e \in Event : Running(e)' => Running(e)
  PROVE  Once!Next
<1> DEFINE S == {e \in Event : Running(e) /\ ~Running(e)'}
<1>1. \A e \in Event : Running(e) => e \in recorded
  BY DEF Running, IInv, RecordedFirst, Applying
<1>2. \A e \in S : Attempt[e] = "running"
  BY <1>1 DEF Attempt, Running
<1>3. Attempt' = [e \in Event |-> IF e \in S THEN "over" ELSE Attempt[e]]
  <2>1. ASSUME NEW e \in Event
        PROVE  (IF e \notin recorded' THEN "new" ELSE IF Running(e)' THEN "running" ELSE "over")
                 = IF e \in S THEN "over" ELSE Attempt[e]
    BY <1>1 DEF Attempt, Running
  <2> QED BY <2>1 DEF Attempt, Running
<1>4. Once!Stop(S)
  BY <1>2, <1>3 DEF Once!Stop
<1> QED BY <1>4 DEF Once!Next

\* Every await but the insert and an item of the helper's own attempt.
LEMMA OthersStop ==
  ASSUME IInv, NEW t \in Task,
         \/ CheckExists(t) \/ ResolveEvent(t) \/ ApplyFails(t) \/ Record(t) \/ GetReviewable(t)
         \/ Ignore(t) \/ DbError(t) \/ Cancel(t) \/ Deliver(t)
         \/ InsertRow(t) /\ Exists(arg[t])
         \/ ApplyItem(t) /\ by[t] = "user"
         \/ \E e \in Event : Arrive(t, e) \/ ReviewRequest(t, e)
  PROVE  Once!Next
<1>1. UNCHANGED <<recorded, auto>>
  BY DEF CheckExists, ResolveEvent, ApplyFails, Record, GetReviewable, Ignore, DbError, Cancel,
         Deliver, InsertRow, KeyTaken, ApplyItem, Arrive, ReviewRequest, Review
<1>2. \A u \in Task \ {t} : pc'[u] = pc[u] /\ arg'[u] = arg[u] /\ by'[u] = by[u]
  BY DEF IInv, TypeOK, CheckExists, ResolveEvent, ApplyFails, Record, GetReviewable, Ignore,
         DbError, Cancel, Deliver, InsertRow, ApplyItem, Arrive, ReviewRequest, Review, Start,
         Reply, Goto, Free
<1>3. ~(by'[t] = "helper" /\ pc'[t] = "apply")
  <2>1. CASE CheckExists(t) \/ ResolveEvent(t) \/ ApplyFails(t) \/ DbError(t)
    BY <2>1 DEF IInv, TypeOK, CheckExists, ResolveEvent, ApplyFails, DbError, Reply, Goto, Free
  <2>2. CASE Record(t) \/ Ignore(t) \/ Cancel(t) \/ Deliver(t)
    BY <2>2 DEF IInv, TypeOK, Record, Ignore, Cancel, Deliver, Reply, Goto, Free
  <2>3. CASE GetReviewable(t)
    BY <2>3 DEF IInv, TypeOK, FreshBeforeInsert, Reviewing, GetReviewable, Goto, Free
  <2>4. CASE InsertRow(t) /\ Exists(arg[t])
    BY <2>4 DEF IInv, TypeOK, InsertRow, KeyTaken, Goto
  <2>5. CASE ApplyItem(t) /\ by[t] = "user"
    BY <2>5 DEF IInv, TypeOK, ApplyItem
  <2>6. CASE \E e \in Event : Arrive(t, e) \/ ReviewRequest(t, e)
    BY <2>6 DEF IInv, TypeOK, Arrive, ReviewRequest, Review, Start
  <2> QED BY <2>1, <2>2, <2>3, <2>4, <2>5, <2>6
<1>4. \A e \in Event : Running(e)' => Running(e)
  BY <1>2, <1>3 DEF Running
<1> QED BY <1>1, <1>4, AttemptsStop

\* An item of the helper's attempt: nobody else works on the event.
LEMMA ApplyItemOnce ==
  ASSUME IInv, NEW t \in Task, ApplyItem(t), by[t] = "helper"
  PROVE  Once!Next
<1>e. PICK e \in Event : e = arg[t]
  BY DEF IInv, TypeOK, ApplyItem
<1> DEFINE i == done[t] + 1
<1>1. /\ e \in Event /\ e \in recorded /\ Running(e) /\ done[t] < NItems
      /\ Len(auto[e]) = done[t] /\ done[t] \in 0..NItems
  BY <1>e DEF IInv, TypeOK, RecordedFirst, OneApplier, Applying, ApplyItem, Running
<1>2. /\ auto' = [auto EXCEPT ![e] = Append(auto[e], i)]
      /\ pc' = [pc EXCEPT ![t] = IF i = NItems THEN "record_applied" ELSE "apply"]
      /\ UNCHANGED <<arg, by, recorded>>
  BY <1>e DEF ApplyItem
<1>3. \A u \in Task : by[u] = "helper" /\ pc[u] = "apply" /\ arg[u] = e => u = t
  BY <1>e DEF IInv, OneApplier, Applying, ApplyItem
<1>4. Running(e)' <=> i # NItems
  <2>1. \A u \in Task \ {t} : pc'[u] = pc[u]
    BY <1>2 DEF IInv, TypeOK
  <2>2. pc'[t] = IF i = NItems THEN "record_applied" ELSE "apply"
    BY <1>2 DEF IInv, TypeOK
  <2> QED BY <1>e, <1>2, <1>3, <2>1, <2>2 DEF Running
<1>5. \A f \in Event \ {e} : Running(f)' <=> Running(f)
  BY <1>e, <1>2 DEF Running, IInv, TypeOK
<1>6. Attempt[e] = "running"
  BY <1>1 DEF Attempt, Running
<1> DEFINE len == [f \in Event |-> Len(auto[f])]
<1>7. len[e] < NItems /\ len[e] + 1 = i
  BY <1>1
<1>8. len' = [len EXCEPT ![e] = len[e] + 1]
  <2>1. auto[e] \in Seq(Item)
    BY <1>1 DEF IInv, TypeOK
  <2>2. Len(auto'[e]) = len[e] + 1 /\ \A f \in Event \ {e} : auto'[f] = auto[f]
    BY <1>1, <1>2, <2>1 DEF IInv, TypeOK
  <2> QED BY <1>1, <2>2
<1>9. Attempt' = [Attempt EXCEPT ![e] = IF len[e] + 1 = NItems THEN "over" ELSE "running"]
  <2>1. ASSUME NEW f \in Event
        PROVE  (IF f \notin recorded' THEN "new" ELSE IF Running(f)' THEN "running" ELSE "over")
                 = IF f = e THEN (IF i = NItems THEN "over" ELSE "running") ELSE Attempt[f]
    BY <1>1, <1>2, <1>4, <1>5 DEF Attempt, Running
  <2>2. Attempt' = [f \in Event |-> IF f = e THEN (IF i = NItems THEN "over" ELSE "running") ELSE Attempt[f]]
    BY <2>1 DEF Attempt, Running
  <2>3. Attempt = [f \in Event |-> Attempt[f]]
    BY DEF Attempt
  <2> HIDE DEF len
  <2> QED BY <1>7, <2>2, <2>3
<1>10. Once!ApplyNext(e)
  BY <1>6, <1>7, <1>8, <1>9 DEF Once!ApplyNext
<1> QED BY <1>10 DEF Once!Next

\* The insert begins the attempt, or parks the trade for good.
LEMMA InsertOnce ==
  ASSUME IInv, NEW t \in Task, InsertRow(t), ~Exists(arg[t])
  PROVE  Once!Next
<1> DEFINE e == arg[t]
           begins == pc[t] = "insert_apply"
<1>1. e \in Event /\ by[t] = "helper" /\ e \notin recorded
  BY DEF IInv, TypeOK, InsertRow, FreshBeforeInsert, PreInsert, Purged
<1>2. /\ recorded' = recorded \cup {e} /\ UNCHANGED <<arg, by, auto>>
      /\ pc' = [pc EXCEPT ![t] = IF begins THEN "apply" ELSE "accepted"]
  BY DEF InsertRow, KeyTaken, AfterInsert, Goto
<1>3. ~Running(e)
  BY <1>1 DEF Running, IInv, RecordedFirst, Applying
<1>4. pc'[t] = (IF begins THEN "apply" ELSE "accepted") /\ \A u \in Task \ {t} : pc'[u] = pc[u]
  BY <1>2 DEF IInv, TypeOK
<1>5. Running(e)' <=> begins
  BY <1>1, <1>2, <1>3, <1>4 DEF Running
<1>6. \A f \in Event \ {e} : Running(f)' <=> Running(f)
  <2>1. pc[t] \in {"insert_apply", "insert_review"}
    BY DEF InsertRow
  <2> QED BY <1>2, <1>4, <2>1 DEF Running
<1>7. Attempt[e] = "new"
  BY <1>1 DEF Attempt
<1>8. Attempt' = [Attempt EXCEPT ![e] = IF begins THEN "running" ELSE "over"]
  <2>1. ASSUME NEW f \in Event
        PROVE  (IF f \notin recorded' THEN "new" ELSE IF Running(f)' THEN "running" ELSE "over")
                 = IF f = e THEN (IF begins THEN "running" ELSE "over") ELSE Attempt[f]
    BY <1>1, <1>2, <1>5, <1>6 DEF Attempt, Running
  <2> QED BY <2>1 DEF Attempt, Running
<1>9. Once!Begin(e) \/ Once!Park(e)
  BY <1>2, <1>7, <1>8 DEF Once!Begin, Once!Park
<1> QED BY <1>1, <1>9 DEF Once!Next

LEMMA NextOnce ==
  ASSUME IInv, [Next]_vars
  PROVE  [Once!Next]_(Once!vars)
<1>1. ASSUME NEW t \in Task, TaskStep(t) \/ DbError(t) \/ Cancel(t) \/ Deliver(t) PROVE Once!Next
  <2>1. by[t] \in {"helper", "user"}
    BY DEF IInv, TypeOK
  <2> QED BY <1>1, <2>1, OthersStop, ApplyItemOnce, InsertOnce DEF TaskStep
<1>2. ASSUME NEW t \in Task, NEW e \in Event, Arrive(t, e) \/ ReviewRequest(t, e) PROVE Once!Next
  BY <1>2, OthersStop
<1>3. CASE \/ SweepStep \/ SweepError \/ \E e \in Event : GrowOld(e) \/ Retention(e)
           \/ UNCHANGED vars
  <2>1. UNCHANGED <<pc, arg, by, recorded, auto>>
    BY <1>3 DEF SweepStep, SweepRead, SweepNext, SweepAlert, SweepMark, SweepError, GrowOld,
           Retention, taskVars, vars
  <2> QED BY <2>1, AttemptsStop DEF Running
<1>4. CASE Restart
  <2>1. UNCHANGED <<recorded, auto>> /\ \A e \in Event : ~Running(e)'
    BY <1>4 DEF Restart, Running
  <2> QED BY <2>1, AttemptsStop
<1> QED BY <1>1, <1>2, <1>3, <1>4 DEF Next, ServerStep

\* The table keeps the promise of TradeOnce: whatever is repeated, raced, cancelled,
\* orphaned, reviewed or restarted, a reported trade has one attempt that runs once.
THEOREM OneAttemptHolds == Spec => OneAttempt
<1>1. Init => Once!Init
  BY InitOnce
<1>2. IInv /\ [Next]_vars => [Once!Next]_(Once!vars)
  BY NextOnce
<1> QED BY <1>1, <1>2, Invariance, PTL DEF Spec, Once!Spec, OneAttempt
=============================================================================
