--------------------------- MODULE TradeDelivery ---------------------------
(***************************************************************************)
(* The trade pipeline end to end: qf-helper's queue (HelperQueue) and the  *)
(* server's table (TradeEvents) joined by POST /helper/trade.  The helper  *)
(* waits for at most one request.  A request may be refused for good or for*)
(* now, never arrive, time out after 120 s or lose its reply; the server   *)
(* notices a closed connection at once, later or never, so the request of  *)
(* an earlier attempt may still be applying the trade while the next one   *)
(* is served.                                                              *)
(***************************************************************************)
EXTENDS Integers, Sequences

CONSTANTS
  NEvents, Writes, MaxIo,                        \* HelperQueue
  NoEvent, Task, NItems, MaxFaults, MaxReviews,  \* TradeEvents
  NoTask,                                        \* no request is under way
  MaxLost                                        \* bound on requests lost or rejected

ASSUME TradeDeliveryAssumption ==
  /\ NEvents \in Nat /\ MaxIo \in Nat
  /\ Writes \subseteq {"nothing", "part", "split", "body", "line"}
  /\ NoEvent \notin 1..NEvents /\ NItems \in Nat \ {0}
  /\ MaxFaults \in Nat /\ MaxReviews \in Nat
  /\ NoTask \notin Task /\ MaxLost \in Nat

VARIABLES
  hpc, seen, pending, kept, file, open, backoff, pushed, settled, joined, retried, io,
  rows, pc, arg, by, done, sweep, recorded, auto, finished, alerts, faults, reviews,
  conn,      \* the task that serves the helper's current request
  lost,      \* requests lost or rejected so far
  refused    \* history: trades a request of which was refused for good

H == INSTANCE HelperQueue
S == INSTANCE TradeEvents WITH Event <- 1..NEvents

helperVars == <<hpc, seen, pending, kept, file, open, backoff, pushed, settled, joined, retried, io>>
serverVars == <<rows, pc, arg, by, done, sweep, recorded, auto, finished, alerts, faults, reviews>>
vars == <<helperVars, serverVars, conn, lost, refused>>

Init == H!Init /\ S!Init /\ conn = NoTask /\ lost = 0 /\ refused = {}

\* TradeClient::send reaches the server's helper_trade handler.
Send ==
  /\ hpc = "sending" /\ conn = NoTask
  /\ \E t \in Task : S!Arrive(t, file[1].ev) /\ conn' = t
  /\ UNCHANGED <<helperVars, lost, refused>>

\* 400 for a body the server cannot parse or validate, 413 for one it does not read,
\* 404, 409 or 422 from whatever else answers at the server's address: handle_incoming
\* does not run, and the helper takes the answer for final.
Refuse ==
  /\ conn = NoTask
  /\ H!Outcome("dropped")
  /\ refused' = refused \cup {file[1].ev}
  /\ UNCHANGED <<serverVars, conn, lost>>

\* 200 for every outcome of the pipeline, 500 for an internal error.
Answer ==
  /\ conn # NoTask
  /\ S!Deliver(conn)
  /\ H!Outcome(pc[conn])
  /\ conn' = NoTask
  /\ UNCHANGED <<lost, refused>>

\* No connection, a reply lost, a timeout the server does not notice yet; or a
\* device key refused before the handler runs.
Lose ==
  /\ lost < MaxLost /\ lost' = lost + 1
  /\ \E answer \in {"failed", "rejected"} :
       /\ answer = "rejected" => conn = NoTask
       /\ H!Outcome(answer)
  /\ conn' = NoTask
  /\ UNCHANGED <<serverVars, refused>>

\* A timeout whose closed connection cancels the handler mid-way.
TimeOut ==
  /\ conn # NoTask
  /\ S!Cancel(conn)
  /\ H!Outcome("failed")
  /\ conn' = NoTask
  /\ UNCHANGED <<lost, refused>>

\* A request nobody waits for: the server notices, or its reply goes nowhere.
Abandoned ==
  /\ \E t \in Task \ {conn} : S!Cancel(t) \/ S!Deliver(t)
  /\ UNCHANGED <<helperVars, conn, lost, refused>>

ServerRestart ==
  /\ S!Restart
  /\ IF conn = NoTask THEN UNCHANGED helperVars ELSE H!Outcome("failed")
  /\ conn' = NoTask
  /\ UNCHANGED <<lost, refused>>

HelperCrash ==
  /\ H!Crash
  /\ conn' = NoTask
  /\ UNCHANGED <<serverVars, lost, refused>>

HelperStep ==
  /\ H!LoopStep \/ H!FileFault
  /\ UNCHANGED <<serverVars, conn, lost, refused>>

ServerStep ==
  /\ S!ServerStep
  /\ UNCHANGED <<helperVars, conn, lost, refused>>

Next ==
  \/ Send \/ Refuse \/ Answer \/ Lose \/ TimeOut \/ Abandoned
  \/ ServerRestart \/ HelperCrash \/ HelperStep \/ ServerStep

Spec == Init /\ [][Next]_vars

\* The loop, the handlers and the replies go on, and the backoff ends.
Fairness ==
  /\ WF_vars(HelperStep /\ H!LoopStep)
  /\ SF_vars(HelperStep /\ (H!Peek \/ H!DropCorrupt))
  /\ WF_vars(Send \/ Refuse) /\ WF_vars(Answer)
  /\ \A t \in Task : WF_vars(ServerStep /\ S!TaskStep(t))
  /\ \A t \in Task : WF_vars(t # conn /\ Abandoned /\ S!Deliver(t))
  /\ SF_vars(ServerStep /\ \E t \in Task : pc[t] = "resolve" /\ S!ResolveEvent(t) /\ pc'[t] # "failed")

FairSpec == Spec /\ Fairness

----------------------------------------------------------------------------
(* What must hold.                                                         *)

\* A trade leaves the helper's queue only when the server has it on record, or when a
\* request with this very trade was refused for good (400, 404, 409, 413, 422): no lost
\* reply, timeout, 401, 5xx, cancelled handler, restart or crash loses a queued trade.
SettledTradesAreKnown == settled \subseteq recorded \cup refused

\* Together the two halves still apply each item of a trade at most once.
AppliedOnce == S!AutoAppliedOnce

\* Both halves together: a trade that left the queue is on record or was refused for good,
\* and what is on record was applied at most once, over lost replies, timeouts, restarts
\* and crashes (TradeClient::send, handle_incoming).
DeliveredOnce == SettledTradesAreKnown /\ AppliedOnce

\* A queued trade gets its row on the server, unless it is refused for good.
QueuedTradesArrive ==
  \A e \in 1..NEvents : (e \in pushed) ~> (e \in recorded \cup refused)

----------------------------------------------------------------------------
(* Why it holds: the invariants of both halves, and what joins them.       *)

\* The request the helper waits for carries the trade at the head of its queue, and it is
\* still the helper's.
WaitsForItsHead ==
  /\ conn \in Task \cup {NoTask}
  /\ conn # NoTask =>
       /\ hpc = "sending"
       /\ pc[conn] # "idle" /\ by[conn] = "helper" /\ arg[conn] = file[1].ev

\* The pipeline answers 200 only when the trade has its row.
AcceptedIsRecorded == \A t \in Task : pc[t] = "accepted" => arg[t] \in recorded

DeliveryInv ==
  H!IInv /\ S!IInv /\ WaitsForItsHead /\ AcceptedIsRecorded /\ SettledTradesAreKnown
=============================================================================
