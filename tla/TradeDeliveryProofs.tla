------------------------ MODULE TradeDeliveryProofs ------------------------
(***************************************************************************)
(* Proofs about TradeDelivery: each step of the joined system is a step of *)
(* its halves, or none of them, so what was proved of the helper's queue   *)
(* and of the server's table holds here, for any number of events,         *)
(* requests and items, and any bounds on the faults.                       *)
(***************************************************************************)
EXTENDS TradeDelivery, TLAPS

HP == INSTANCE HelperQueueProofs
SP == INSTANCE TradeEventsProofs WITH Event <- 1..NEvents

----------------------------------------------------------------------------
(* The halves are the modules their proofs are about.                      *)

LEMMA Assumptions == HP!HelperQueueAssumption /\ SP!TradeEventsAssumption
  BY TradeDeliveryAssumption DEF HP!HelperQueueAssumption, SP!TradeEventsAssumption

LEMMA SameHelperInv == H!IInv <=> HP!IInv
  BY DEF H!IInv, HP!IInv, H!TypeOK, HP!TypeOK, H!Event, HP!Event, H!Line, HP!Line, H!SeenFirst,
       HP!SeenFirst, H!WrittenOnce, HP!WrittenOnce, H!InOrder, HP!InOrder, H!OpenLineIsUnpushed,
       HP!OpenLineIsUnpushed, H!PoppedIsSettled, HP!PoppedIsSettled, H!TradesKeepTheirPlace,
       HP!TradesKeepTheirPlace, H!OwnLinesWait, HP!OwnLinesWait, H!OnlyRetriedAreOvertaken,
       HP!OnlyRetriedAreOvertaken, H!InFile, HP!InFile

LEMMA SameHelper == (H!Init <=> HP!Init) /\ (H!Next <=> HP!Next) /\ H!vars = HP!vars
  BY DEF H!Init, HP!Init, H!Next, HP!Next, H!LoopStep, HP!LoopStep, H!FileFault, HP!FileFault,
       H!Poll, HP!Poll, H!Push, HP!Push, H!PersistDone, HP!PersistDone, H!SkipDrain,
       HP!SkipDrain, H!Peek, HP!Peek, H!DropCorrupt, HP!DropCorrupt, H!Pop, HP!Pop, H!StartAtEnd,
       HP!StartAtEnd, H!PushFails, HP!PushFails, H!QueueError, HP!QueueError, H!Crash, HP!Crash,
       H!Outcome, HP!Outcome, H!Torn, HP!Torn, H!AppendText, HP!AppendText, H!histVars,
       HP!histVars, H!Readable, HP!Readable, H!BackOff, HP!BackOff, H!RemoveHead, HP!RemoveHead,
       H!Removes, HP!Removes, H!Fault, HP!Fault, H!vars, HP!vars

LEMMA SameServerInv == S!IInv <=> SP!IInv
  BY DEF S!IInv, SP!IInv, S!TypeOK, SP!TypeOK, S!Row, SP!Row, S!Status, SP!Status, S!Reason,
       SP!Reason, S!PC, SP!PC, S!DbPC, SP!DbPC, S!Item, SP!Item, S!RecordedFirst,
       SP!RecordedFirst, S!OneApplier, SP!OneApplier, S!FreshBeforeInsert, SP!FreshBeforeInsert,
       S!AutoAppliedOnce, SP!AutoAppliedOnce, S!FinishedBeforeRecorded,
       SP!FinishedBeforeRecorded, S!AppliedRowsFinished, SP!AppliedRowsFinished, S!ParkedAlone,
       SP!ParkedAlone, S!ParkedNotApplied, SP!ParkedNotApplied, S!Applying, SP!Applying,
       S!Exists, SP!Exists, S!Purged, SP!Purged, S!PreInsert, SP!PreInsert, S!Reviewing,
       SP!Reviewing

LEMMA SameServer == (S!Init <=> SP!Init) /\ (S!Next <=> SP!Next) /\ S!vars = SP!vars
  BY DEF S!Init, SP!Init, S!Next, SP!Next, S!ServerStep, SP!ServerStep, S!TaskStep, SP!TaskStep,
       S!CheckExists, SP!CheckExists, S!ResolveEvent, SP!ResolveEvent, S!InsertRow, SP!InsertRow,
       S!ApplyItem, SP!ApplyItem, S!ApplyFails, SP!ApplyFails, S!Record, SP!Record,
       S!GetReviewable, SP!GetReviewable, S!Ignore, SP!Ignore, S!Exists, SP!Exists, S!Reply,
       SP!Reply, S!Goto, SP!Goto, S!Free, SP!Free, S!KeyTaken, SP!KeyTaken, S!AfterInsert,
       SP!AfterInsert, S!SetStatus, SP!SetStatus, S!Reviewable, SP!Reviewable, S!Start, SP!Start,
       S!Purged, SP!Purged, S!Arrive, SP!Arrive, S!Review, SP!Review, S!ReviewRequest,
       SP!ReviewRequest, S!NeedsAlert, SP!NeedsAlert, S!SweepRead, SP!SweepRead, S!SweepNext,
       SP!SweepNext, S!SweepAlert, SP!SweepAlert, S!SweepMark, SP!SweepMark, S!SweepStep,
       SP!SweepStep, S!SweepIdle, SP!SweepIdle, S!GrowOld, SP!GrowOld, S!Retention, SP!Retention,
       S!NoRow, SP!NoRow, S!Fault, SP!Fault, S!Cancel, SP!Cancel, S!DbError, SP!DbError,
       S!SweepError, SP!SweepError, S!Restart, SP!Restart, S!Deliver, SP!Deliver, S!taskVars,
       SP!taskVars, S!DbPC, SP!DbPC, S!vars, SP!vars

\* What HelperQueueProofs shows of the queue.
LEMMA HelperHolds ==
  /\ H!Init => H!IInv
  /\ H!IInv /\ [H!Next]_(H!vars) => H!IInv'
<1>1. HP!Init => HP!IInv
  BY Assumptions, HP!InitIInv
<1>2. HP!IInv /\ [HP!Next]_(HP!vars) => HP!IInv'
  BY Assumptions, HP!NextIInv
<1>3. H!IInv' <=> HP!IInv'
  BY SameHelperInv, PTL
<1>4. UNCHANGED H!vars <=> UNCHANGED HP!vars
  BY SameHelper DEF H!vars, HP!vars, H!histVars, HP!histVars
<1> QED BY <1>1, <1>2, <1>3, <1>4, SameHelper, SameHelperInv

\* What TradeEventsProofs shows of the table.
LEMMA ServerHolds ==
  /\ S!Init => S!IInv
  /\ S!IInv /\ [S!Next]_(S!vars) => S!IInv'
<1>1. SP!Init => SP!IInv
  BY Assumptions, SP!InitIInv
<1>2. SP!IInv /\ [SP!Next]_(SP!vars) => SP!IInv'
  BY Assumptions, SP!NextIInv
<1>3. S!IInv' <=> SP!IInv'
  BY SameServerInv, PTL
<1>4. UNCHANGED S!vars <=> UNCHANGED SP!vars
  BY DEF S!vars, SP!vars, S!taskVars, SP!taskVars
<1> QED BY <1>1, <1>2, <1>3, <1>4, SameServer, SameServerInv

----------------------------------------------------------------------------
(* The joined steps, seen from each half.                                  *)

LEMMA HelperSteps == Next => [H!Next]_(H!vars)
<1> SUFFICES ASSUME Next PROVE H!Next \/ UNCHANGED H!vars
  OBVIOUS
<1>1. CASE Send \/ Abandoned \/ ServerStep
  BY <1>1 DEF Send, Abandoned, ServerStep, helperVars, H!vars, H!histVars
<1>2. CASE Refuse \/ Answer \/ Lose \/ TimeOut
  BY <1>2 DEF Refuse, Answer, Lose, TimeOut, S!Deliver, H!Next
<1>3. CASE ServerRestart
  BY <1>3 DEF ServerRestart, helperVars, H!vars, H!histVars, H!Next
<1>4. CASE HelperCrash \/ HelperStep
  BY <1>4 DEF HelperCrash, HelperStep, H!Next
<1> QED BY <1>1, <1>2, <1>3, <1>4 DEF Next

\* The trade a request carries is one the helper detected.
LEMMA HeadIsEvent ==
  ASSUME H!IInv, hpc = "sending"
  PROVE  file[1].ev \in 1..NEvents
<1>1. file \in Seq(H!Line) /\ file # <<>>
  BY DEF H!IInv, H!TypeOK
<1>2. file[1] \in H!Line
  BY <1>1
<1> QED BY <1>2 DEF H!Line, H!Event

LEMMA ServerSteps ==
  ASSUME H!IInv, WaitsForItsHead, Next
  PROVE  S!Next \/ UNCHANGED S!vars
<1>1. CASE Send
  BY <1>1, HeadIsEvent DEF Send, S!Next
<1>2. CASE Answer \/ TimeOut
  BY <1>2 DEF Answer, TimeOut, WaitsForItsHead, S!Next
<1>3. CASE Refuse \/ Lose \/ HelperCrash \/ HelperStep
  BY <1>3 DEF Refuse, Lose, HelperCrash, HelperStep, serverVars, S!vars, S!taskVars
<1>4. CASE Abandoned \/ ServerRestart \/ ServerStep
  BY <1>4 DEF Abandoned, ServerRestart, ServerStep, S!Next
<1> QED BY <1>1, <1>2, <1>3, <1>4 DEF Next

----------------------------------------------------------------------------
(* What joins the halves.                                                  *)

LEMMA HousekeepingLeavesTasks ==
  ASSUME S!SweepStep \/ S!SweepError \/ \E e \in 1..NEvents : S!GrowOld(e) \/ S!Retention(e)
  PROVE  UNCHANGED <<pc, arg, by>>
  BY DEF S!SweepStep, S!SweepRead, S!SweepNext, S!SweepAlert, S!SweepMark, S!SweepError,
     S!GrowOld, S!Retention, S!taskVars

\* What the server's own steps do to one request.
LEMMA ServerMovesTask ==
  ASSUME S!IInv, S!ServerStep, NEW t \in Task, pc[t] # "idle", by[t] = "helper"
  PROVE  /\ pc'[t] # "idle" /\ by'[t] = "helper" /\ arg'[t] = arg[t]
         /\ pc'[t] = "accepted" => pc[t] = "accepted" \/ arg[t] \in recorded'
<1>1. /\ pc \in [Task -> S!PC] /\ arg \in [Task -> 1..NEvents \cup {NoEvent}]
      /\ by \in [Task -> {"helper", "user"}]
      /\ pc[t] \notin {"get_apply", "get_ignore", "set_ignored"} /\ arg[t] \in 1..NEvents
  BY DEF S!IInv, S!TypeOK, S!FreshBeforeInsert, S!Reviewing
<1> DEFINE Same == pc'[t] = pc[t] /\ by'[t] = by[t] /\ arg'[t] = arg[t]
<1>2. ASSUME NEW u \in Task, u # t, S!TaskStep(u) \/ S!DbError(u) \/ \E e \in 1..NEvents : S!ReviewRequest(u, e)
      PROVE  Same
  BY <1>1, <1>2 DEF S!TaskStep, S!CheckExists, S!ResolveEvent, S!InsertRow, S!ApplyItem, S!ApplyFails,
     S!Record, S!GetReviewable, S!Ignore, S!DbError, S!ReviewRequest, S!Review, S!Start, S!Reply,
     S!Goto, S!Free
<1>3. CASE S!SweepStep \/ S!SweepError \/ \E e \in 1..NEvents : S!GrowOld(e) \/ S!Retention(e)
  BY <1>3, HousekeepingLeavesTasks
<1>10. CASE \E e \in 1..NEvents : S!ReviewRequest(t, e)
  BY <1>10 DEF S!ReviewRequest, S!Review, S!Start
<1>4. CASE S!CheckExists(t)
  BY <1>1, <1>4 DEF S!CheckExists, S!Reply, S!Goto, S!IInv, S!RecordedFirst
<1>5. CASE S!InsertRow(t)
  <2>1. S!KeyTaken(arg[t]) => arg[t] \in recorded
    BY <1>1 DEF S!KeyTaken, S!IInv, S!RecordedFirst
  <2>2. arg[t] \in recorded'
    BY <1>5, <2>1 DEF S!InsertRow
  <2> QED BY <1>1, <1>5, <2>2 DEF S!InsertRow, S!AfterInsert, S!Goto
<1>6. CASE S!Record(t)
  <2>1. arg[t] \in recorded
    BY <1>6 DEF S!Record, S!IInv, S!RecordedFirst, S!Applying
  <2> QED BY <1>1, <1>6, <2>1 DEF S!Record, S!Reply, S!Goto
<1>7. CASE S!ResolveEvent(t) \/ S!ApplyItem(t) \/ S!ApplyFails(t) \/ S!DbError(t)
  BY <1>1, <1>7 DEF S!ResolveEvent, S!ApplyItem, S!ApplyFails, S!DbError, S!Reply, S!Goto
<1>8. CASE S!GetReviewable(t) \/ S!Ignore(t)
  BY <1>1, <1>8 DEF S!GetReviewable, S!Ignore
<1>9. CASE \E u \in Task : u # t /\ (S!TaskStep(u) \/ S!DbError(u) \/ \E e \in 1..NEvents : S!ReviewRequest(u, e))
  BY <1>2, <1>9
<1> QED BY <1>3, <1>4, <1>5, <1>6, <1>7, <1>8, <1>9, <1>10 DEF S!ServerStep, S!TaskStep

\* Only helper requests are answered with a reply that somebody reads.
LEMMA ServerAccepts ==
  ASSUME S!IInv, S!ServerStep, NEW t \in Task, pc'[t] = "accepted"
  PROVE  \/ pc[t] = "accepted" /\ arg'[t] = arg[t]
         \/ arg'[t] \in recorded'
<1>1. /\ pc \in [Task -> S!PC] /\ arg \in [Task -> 1..NEvents \cup {NoEvent}]
      /\ by \in [Task -> {"helper", "user"}]
  BY DEF S!IInv, S!TypeOK
<1>2. CASE pc[t] # "idle" /\ by[t] = "helper"
  BY <1>2, ServerMovesTask
<1>3. CASE pc[t] = "idle" \/ by[t] = "user"
  <2>1. ~(pc[t] \in {"exists", "resolve", "insert_apply", "insert_review"} /\ by[t] = "user")
    BY DEF S!IInv, S!FreshBeforeInsert, S!PreInsert
  <2>2. ASSUME NEW u \in Task, S!TaskStep(u) \/ S!DbError(u)
        PROVE  pc[t] = "accepted" /\ arg'[t] = arg[t]
    <3>1. u # t
      BY <1>1, <1>3, <2>1, <2>2 DEF S!TaskStep, S!CheckExists, S!ResolveEvent, S!InsertRow,
         S!ApplyItem, S!ApplyFails, S!Record, S!GetReviewable, S!Ignore, S!DbError, S!DbPC, S!Reply,
         S!Goto, S!Free
    <3> QED BY <1>1, <2>2, <3>1 DEF S!TaskStep, S!CheckExists, S!ResolveEvent, S!InsertRow,
           S!ApplyItem, S!ApplyFails, S!Record, S!GetReviewable, S!Ignore, S!DbError, S!Reply,
           S!Goto, S!Free
  <2>3. CASE \E u \in Task, e \in 1..NEvents : S!ReviewRequest(u, e)
    BY <1>1, <2>3 DEF S!ReviewRequest, S!Review, S!Start
  <2>4. CASE S!SweepStep \/ S!SweepError \/ \E e \in 1..NEvents : S!GrowOld(e) \/ S!Retention(e)
    BY <2>4, HousekeepingLeavesTasks
  <2> QED BY <2>2, <2>3, <2>4 DEF S!ServerStep
<1> QED BY <1>1, <1>2, <1>3

LEMMA RecordedGrows ==
  ASSUME Next
  PROVE  recorded \subseteq recorded'
<1>1. CASE ServerStep
  BY <1>1 DEF ServerStep, S!ServerStep, S!TaskStep, S!CheckExists, S!ResolveEvent, S!InsertRow,
     S!ApplyItem, S!ApplyFails, S!Record, S!GetReviewable, S!Ignore, S!DbError, S!ReviewRequest,
     S!Review, S!SweepStep, S!SweepRead, S!SweepNext, S!SweepAlert, S!SweepMark, S!SweepError,
     S!GrowOld, S!Retention
<1>2. CASE ~ServerStep
  BY <1>2 DEF Next, Send, Refuse, Answer, Lose, TimeOut, Abandoned, ServerRestart, HelperCrash, HelperStep,
     S!Arrive, S!Deliver, S!Cancel, S!Restart, serverVars
<1> QED BY <1>1, <1>2

LEMMA AcceptedStays ==
  ASSUME S!IInv, WaitsForItsHead, AcceptedIsRecorded, Next
  PROVE  AcceptedIsRecorded'
<1>1. /\ pc \in [Task -> S!PC] /\ arg \in [Task -> 1..NEvents \cup {NoEvent}]
  BY DEF S!IInv, S!TypeOK
<1> SUFFICES ASSUME NEW t \in Task, pc'[t] = "accepted" PROVE arg'[t] \in recorded'
  BY DEF AcceptedIsRecorded
<1>2. CASE ServerStep
  BY <1>2, ServerAccepts, RecordedGrows DEF ServerStep, AcceptedIsRecorded
<1>3. CASE ~ServerStep
  <2>1. pc[t] = "accepted" /\ arg'[t] = arg[t]
    BY <1>1, <1>3 DEF Next, Send, Refuse, Answer, Lose, TimeOut, Abandoned, ServerRestart, HelperCrash,
       HelperStep, WaitsForItsHead, S!Arrive, S!Start, S!Deliver, S!Cancel, S!Free, S!Restart, serverVars
  <2> QED BY <2>1, RecordedGrows DEF AcceptedIsRecorded
<1> QED BY <1>2, <1>3

LEMMA WaitsStays ==
  ASSUME H!IInv, S!IInv, WaitsForItsHead, Next
  PROVE  WaitsForItsHead'
<1>1. /\ pc \in [Task -> S!PC] /\ arg \in [Task -> 1..NEvents \cup {NoEvent}]
      /\ by \in [Task -> {"helper", "user"}]
  BY DEF S!IInv, S!TypeOK
<1>2. CASE Send
  <2>1. PICK t \in Task : S!Arrive(t, file[1].ev) /\ conn' = t
    BY <1>2 DEF Send
  <2>2. pc'[t] = "exists" /\ by'[t] = "helper" /\ arg'[t] = file[1].ev
    BY <1>1, <2>1 DEF S!Arrive, S!Start
  <2> QED BY <1>2, <2>1, <2>2 DEF Send, helperVars, WaitsForItsHead
<1>3. CASE Refuse \/ Answer \/ Lose \/ TimeOut \/ ServerRestart \/ HelperCrash
  BY <1>3 DEF Refuse, Answer, Lose, TimeOut, ServerRestart, HelperCrash, WaitsForItsHead
<1>4. CASE Abandoned
  <2>1. PICK t \in Task \ {conn} : S!Cancel(t) \/ S!Deliver(t)
    BY <1>4 DEF Abandoned
  <2>2. \A u \in Task \ {t} : pc'[u] = pc[u] /\ by'[u] = by[u] /\ arg'[u] = arg[u]
    BY <1>1, <2>1 DEF S!Cancel, S!Deliver, S!Free
  <2> QED BY <1>4, <2>1, <2>2 DEF Abandoned, helperVars, WaitsForItsHead
<1>5. CASE HelperStep
  <2>1. hpc # "sending"
    BY <1>5 DEF HelperStep, H!LoopStep, H!FileFault, H!Poll, H!Push, H!PersistDone, H!SkipDrain,
       H!Peek, H!DropCorrupt, H!Pop, H!StartAtEnd, H!PushFails, H!QueueError
  <2> QED BY <1>5, <2>1 DEF HelperStep, WaitsForItsHead
<1>6. CASE ServerStep
  <2>1. conn # NoTask => pc'[conn] # "idle" /\ by'[conn] = "helper" /\ arg'[conn] = arg[conn]
    BY <1>6, ServerMovesTask DEF ServerStep, WaitsForItsHead
  <2> QED BY <1>6, <2>1 DEF ServerStep, helperVars, WaitsForItsHead
<1> QED BY <1>2, <1>3, <1>4, <1>5, <1>6 DEF Next

\* Once refused, a trade stays in the history of refusals.
LEMMA RefusedGrows ==
  ASSUME Next
  PROVE  refused \subseteq refused'
  BY DEF Next, Send, Refuse, Answer, Lose, TimeOut, Abandoned, ServerRestart, HelperCrash, HelperStep,
     ServerStep

\* A trade is settled by the answer to its own request.
LEMMA SettledStays ==
  ASSUME WaitsForItsHead, AcceptedIsRecorded, SettledTradesAreKnown, Next
  PROVE  SettledTradesAreKnown'
<1>1. CASE Answer
  <2>1. conn \in Task /\ arg[conn] = file[1].ev /\ H!Outcome(pc[conn]) /\ pc[conn] \in {"accepted", "failed"}
    BY <1>1 DEF Answer, S!Deliver, WaitsForItsHead
  <2>2. pc[conn] = "failed" => settled' = settled
    BY <2>1 DEF H!Outcome, H!Removes
  <2>3. pc[conn] = "accepted" => settled' \subseteq settled \cup {arg[conn]} /\ arg[conn] \in recorded
    BY <2>1 DEF H!Outcome, AcceptedIsRecorded
  <2> QED BY <2>1, <2>2, <2>3, RecordedGrows, RefusedGrows DEF SettledTradesAreKnown
<1>2. CASE Refuse
  <2>1. settled' = settled \cup {file[1].ev} /\ file[1].ev \in refused'
    BY <1>2 DEF Refuse, H!Outcome, H!Removes
  <2> QED BY <2>1, RecordedGrows, RefusedGrows DEF SettledTradesAreKnown
<1>3. CASE ~Answer /\ ~Refuse
  <2>1. settled' = settled
    BY <1>3 DEF Next, Send, Lose, TimeOut, Abandoned, ServerRestart, HelperCrash, HelperStep, ServerStep,
       H!Outcome, H!Removes, helperVars, H!Crash, H!LoopStep, H!FileFault, H!Poll, H!Push,
       H!PersistDone, H!SkipDrain, H!Peek, H!DropCorrupt, H!Pop, H!StartAtEnd, H!PushFails,
       H!QueueError, H!histVars
  <2> QED BY <2>1, RecordedGrows, RefusedGrows DEF SettledTradesAreKnown
<1> QED BY <1>1, <1>2, <1>3

----------------------------------------------------------------------------
(* The theorems.                                                           *)

LEMMA InitDelivery == Init => DeliveryInv
<1> SUFFICES ASSUME Init PROVE DeliveryInv
  OBVIOUS
<1>1. H!IInv /\ S!IInv
  BY HelperHolds, ServerHolds DEF Init
<1>2. WaitsForItsHead /\ AcceptedIsRecorded /\ SettledTradesAreKnown
  BY DEF Init, H!Init, S!Init, WaitsForItsHead, AcceptedIsRecorded, SettledTradesAreKnown
<1> QED BY <1>1, <1>2 DEF DeliveryInv

LEMMA NextDelivery == DeliveryInv /\ [Next]_vars => DeliveryInv'
<1> SUFFICES ASSUME DeliveryInv, [Next]_vars PROVE DeliveryInv'
  OBVIOUS
<1>1. H!IInv /\ S!IInv /\ WaitsForItsHead /\ AcceptedIsRecorded /\ SettledTradesAreKnown
  BY DEF DeliveryInv
<1>2. CASE Next
  <2>1. H!IInv' /\ S!IInv'
    BY <1>1, <1>2, HelperSteps, ServerSteps, HelperHolds, ServerHolds
  <2>2. WaitsForItsHead' /\ AcceptedIsRecorded' /\ SettledTradesAreKnown'
    BY <1>1, <1>2, WaitsStays, AcceptedStays, SettledStays
  <2> QED BY <2>1, <2>2 DEF DeliveryInv
<1>3. CASE UNCHANGED vars
  <2>1. UNCHANGED H!vars /\ UNCHANGED S!vars
    BY <1>3 DEF vars, helperVars, serverVars, H!vars, H!histVars, S!vars, S!taskVars
  <2>2. H!IInv' /\ S!IInv'
    BY <1>1, <2>1, HelperHolds, ServerHolds
  <2>3. WaitsForItsHead' /\ AcceptedIsRecorded' /\ SettledTradesAreKnown'
    BY <1>1, <1>3 DEF vars, helperVars, serverVars, WaitsForItsHead, AcceptedIsRecorded,
       SettledTradesAreKnown
  <2> QED BY <2>2, <2>3 DEF DeliveryInv
<1> QED BY <1>2, <1>3

\* The invariants of both halves, and what joins them, hold in every reachable state.
THEOREM DeliveryInvariance == Spec => []DeliveryInv
<1>1. Init => DeliveryInv
  BY InitDelivery
<1>2. DeliveryInv /\ [Next]_vars => DeliveryInv'
  BY NextDelivery
<1> QED BY <1>1, <1>2, PTL DEF Spec

\* No lost reply, timeout, 401, 5xx, cancelled handler, restart or crash takes a trade out of
\* the helper's queue before it is on record or refused for good (trade.rs, send), or makes
\* the server apply one of its items twice.
THEOREM DeliveredOnceHolds == Spec => []DeliveredOnce
<1>1. DeliveryInv => DeliveredOnce
  BY DEF DeliveryInv, DeliveredOnce, AppliedOnce, S!IInv
<1> QED BY <1>1, DeliveryInvariance, PTL

\* Joined by the wire, each half still behaves as its own module says: the network, the
\* crashes and the restarts of the whole are faults that the halves already have.
THEOREM HalvesAreImplemented == Spec => H!Spec /\ S!Spec
<1>1. Init => H!Init /\ S!Init
  BY DEF Init
<1>2. DeliveryInv /\ [Next]_vars => [H!Next]_(H!vars) /\ [S!Next]_(S!vars)
  <2>1. ASSUME UNCHANGED vars PROVE UNCHANGED H!vars /\ UNCHANGED S!vars
    BY <2>1 DEF vars, helperVars, serverVars, H!vars, H!histVars, S!vars, S!taskVars
  <2> QED BY <2>1, HelperSteps, ServerSteps DEF DeliveryInv
<1> QED BY <1>1, <1>2, DeliveryInvariance, PTL DEF Spec, H!Spec, S!Spec
=============================================================================
