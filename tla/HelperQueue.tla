---------------------------- MODULE HelperQueue ----------------------------
(***************************************************************************)
(* The helper's half of the trade pipeline: qf-helper follows EE.log,      *)
(* writes every confirmed trade to a JSONL file and sends the file's lines *)
(* to the server, oldest first.  It runs one loop (poll, persist, drain);  *)
(* the file is all that survives a crash of the process.                   *)
(*                                                                         *)
(* A line is the event it was written for and what became of its text:     *)
(* whole, corrupt (it does not parse), or split (its bytes are not UTF-8). *)
(***************************************************************************)
EXTENDS Integers, Sequences

CONSTANTS
  NEvents,   \* trades confirmed in EE.log, numbered in that order
  Writes,    \* how far a failing write gets
  MaxIo      \* bound on failed file operations and crashes of the helper

ASSUME HelperQueueAssumption ==
  /\ NEvents \in Nat
  /\ Writes \subseteq {"nothing", "part", "split", "body", "line"}
  /\ MaxIo \in Nat

VARIABLES
  hpc,      \* where the loop of trade::run stands
  seen,     \* trades in EE.log before the tail's offset
  pending,  \* detected trades not yet written
  kept,     \* trades of this persist call whose write failed
  file,     \* lines of the queue file
  open,     \* the last line lacks its newline
  backoff,  \* wait_until is set
  pushed,   \* history: trades whose push returned Ok
  settled,  \* history: trades whose answer removes them from the queue
  joined,   \* history: trades pushed onto a line that lacked its newline
  retried,  \* history: trades with a push that failed
  io        \* failed file operations and crashes so far

histVars == <<pushed, settled, joined, retried>>
vars == <<hpc, seen, pending, kept, file, open, backoff, histVars, io>>

Event == 1..NEvents
Line == [ev : Event, text : {"whole", "corrupt", "split"}]

TypeOK ==
  /\ hpc \in {"poll", "persist", "drain", "sending", "pop", "down"}
  /\ seen \in 0..NEvents
  /\ pending \in Seq(Event) /\ kept \in Seq(Event)
  /\ file \in Seq(Line)
  /\ open \in BOOLEAN /\ (open => file # <<>>)
  /\ hpc \in {"sending", "pop"} => file # <<>>
  /\ backoff \in BOOLEAN
  /\ \A h \in {pushed, settled, joined, retried} : h \subseteq Event
  /\ io \in 0..MaxIo

Init ==
  /\ hpc = "poll" /\ seen = 0 /\ pending = <<>> /\ kept = <<>>
  /\ file = <<>> /\ open = FALSE /\ backoff = FALSE
  /\ pushed = {} /\ settled = {} /\ joined = {} /\ retried = {} /\ io = 0

Fault == io < MaxIo /\ io' = io + 1

\* Tail::poll: any number of trades were confirmed since the last poll.
Poll ==
  /\ hpc = "poll"
  /\ \E last \in seen..NEvents :
       /\ pending' = pending \o [i \in 1..(last - seen) |-> seen + i]
       /\ seen' = last
  /\ hpc' = "persist"
  /\ UNCHANGED <<kept, file, open, backoff, histVars, io>>

\* The text of e goes to the end of the file: onto a line that lacks its
\* newline, which no longer parses then, or onto a line of its own.
AppendText(e, text) ==
  IF open
  THEN LET last == Len(file)
           bad  == "split" \in {text, file[last].text}
       IN [file EXCEPT ![last].text = IF bad THEN "split" ELSE "corrupt"]
  ELSE Append(file, [ev |-> e, text |-> text])

\* How a push that does not succeed leaves the file.
Torn(e, w) ==
  CASE w = "nothing" -> UNCHANGED <<file, open>>
    [] w = "part"    -> file' = AppendText(e, "corrupt") /\ open' = TRUE
    [] w = "split"   -> file' = AppendText(e, "split") /\ open' = TRUE
    [] w = "body"    -> file' = AppendText(e, "whole") /\ open' = TRUE
    [] w = "line"    -> file' = AppendText(e, "whole") /\ open' = FALSE

Push ==
  /\ hpc = "persist" /\ pending # <<>>
  /\ file' = AppendText(Head(pending), "whole") /\ open' = FALSE
  /\ pushed' = pushed \cup {Head(pending)}
  /\ joined' = IF open THEN joined \cup {Head(pending)} ELSE joined
  /\ pending' = Tail(pending)
  /\ UNCHANGED <<hpc, seen, kept, backoff, settled, retried, io>>

\* persist keeps the trade and goes on with the next one.
PushFails ==
  /\ Fault
  /\ hpc = "persist" /\ pending # <<>>
  /\ \E w \in Writes : Torn(Head(pending), w)
  /\ kept' = Append(kept, Head(pending))
  /\ retried' = retried \cup {Head(pending)}
  /\ pending' = Tail(pending)
  /\ UNCHANGED <<hpc, seen, backoff, pushed, settled, joined>>

PersistDone ==
  /\ hpc = "persist" /\ pending = <<>>
  /\ pending' = kept /\ kept' = <<>>
  /\ hpc' = "drain"
  /\ UNCHANGED <<seen, file, open, backoff, histVars, io>>

\* wait_until: the queue is left alone for RETRY_EVERY or REJECTED_BACKOFF.
SkipDrain ==
  /\ hpc = "drain" /\ backoff
  /\ hpc' = "poll"
  /\ UNCHANGED <<seen, pending, kept, file, open, backoff, histVars, io>>

\* Queue::lines reads the file as text: one split line makes it unreadable.
Readable == \A i \in 1..Len(file) : file[i].text # "split"

BackOff == hpc' = "poll" /\ backoff' = TRUE

\* The wait is over: the next thing to send is looked up.
Peek ==
  /\ hpc = "drain"
  /\ \/ /\ ~Readable /\ BackOff
     \/ /\ Readable /\ file = <<>>
        /\ hpc' = "poll" /\ backoff' = FALSE
     \/ /\ Readable /\ file # <<>> /\ file[1].text = "whole"
        /\ hpc' = "sending" /\ backoff' = FALSE
  /\ UNCHANGED <<seen, pending, kept, file, open, histVars, io>>

\* Mutated form: the file is truncated.
RemoveHead_Truncates == file' = <<>> /\ open' = FALSE

\* Queue::pop writes the remaining lines, each with its newline, to a new
\* file and renames it.
RemoveHead == file' = Tail(file) /\ open' = FALSE

\* Mutated forms: any head is dropped, or a corrupt head is an error.
DropCorrupt_Any ==
  /\ hpc = "drain"
  /\ Readable /\ file # <<>>
  /\ RemoveHead /\ backoff' = FALSE
  /\ UNCHANGED <<hpc, seen, pending, kept, histVars, io>>

DropCorrupt_Stops ==
  /\ hpc = "drain"
  /\ Readable /\ file # <<>> /\ file[1].text = "corrupt"
  /\ BackOff
  /\ UNCHANGED <<seen, pending, kept, file, open, histVars, io>>

DropCorrupt ==
  /\ hpc = "drain"
  /\ Readable /\ file # <<>> /\ file[1].text = "corrupt"
  /\ RemoveHead /\ backoff' = FALSE
  /\ UNCHANGED <<hpc, seen, pending, kept, histVars, io>>

\* Mutated forms: network trouble, or a refused device key, removes the event.
Removes_Failed(answer) == answer # "rejected"
Removes_Rejected(answer) == answer # "failed"

Removes(answer) == answer \in {"accepted", "dropped"}

\* accepted (2xx) and dropped (a 4xx the server will never accept) remove the
\* event; rejected (401) and failed (network trouble, 5xx) are retried.
Outcome(answer) ==
  /\ hpc = "sending"
  /\ IF Removes(answer)
     THEN /\ hpc' = "pop"
          /\ settled' = settled \cup {file[1].ev}
          /\ UNCHANGED backoff
     ELSE BackOff /\ UNCHANGED settled
  /\ UNCHANGED <<seen, pending, kept, file, open, pushed, joined, retried, io>>

Pop ==
  /\ hpc = "pop"
  /\ RemoveHead
  /\ hpc' = "drain"
  /\ UNCHANGED <<seen, pending, kept, backoff, histVars, io>>

\* Reading, writing or renaming the file failed.
QueueError ==
  /\ Fault
  /\ hpc \in {"drain", "pop"}
  /\ BackOff
  /\ UNCHANGED <<seen, pending, kept, file, open, histVars>>

\* The process ends, perhaps in the middle of a push.
Crash ==
  /\ Fault
  /\ hpc # "down"
  /\ \/ UNCHANGED <<file, open>>
     \/ hpc = "persist" /\ pending # <<>> /\ \E w \in Writes : Torn(Head(pending), w)
  /\ hpc' = "down"
  /\ pending' = <<>> /\ kept' = <<>> /\ backoff' = FALSE
  /\ UNCHANGED <<seen, histVars>>

\* Tail::start_at_end: trades confirmed in the meantime are not replayed.
StartAtEnd ==
  /\ hpc = "down"
  /\ hpc' = "poll"
  /\ seen' \in seen..NEvents
  /\ UNCHANGED <<pending, kept, file, open, backoff, histVars, io>>

LoopStep ==
  Poll \/ Push \/ PersistDone \/ SkipDrain \/ Peek \/ DropCorrupt \/ Pop \/ StartAtEnd

FileFault == PushFails \/ QueueError

Next ==
  \/ LoopStep \/ FileFault \/ Crash
  \/ \E answer \in {"accepted", "dropped", "rejected", "failed"} : Outcome(answer)

Spec == Init /\ [][Next]_vars

\* The loop runs on, its waits end, and a server that is asked often enough
\* takes the event in the end.
Fairness ==
  /\ WF_vars(LoopStep)
  /\ SF_vars(Peek \/ DropCorrupt)
  /\ WF_vars(\E answer \in {"accepted", "dropped", "rejected", "failed"} : Outcome(answer))
  /\ SF_vars(Outcome("accepted"))

FairSpec == Spec /\ Fairness

----------------------------------------------------------------------------
(* What must hold.                                                         *)

InFile(e) == \E i \in 1..Len(file) : file[i] = [ev |-> e, text |-> "whole"]

\* "Events the server hasn't accepted yet wait in trade-queue.jsonl": a trade
\* whose push returned Ok stays readable in the file until an answer settles it.
QueuedTradesWait == \A e \in pushed \ settled : InFile(e)

\* The same, as far as the code keeps it: of the trades pushed onto a line of
\* their own, none is lost, whatever is torn, popped, dropped or restarted.
OwnLinesWait == \A e \in pushed \ (settled \cup joined) : InFile(e)

\* "Replayed oldest first": only a trade whose own push failed before is behind
\* one that Warframe confirmed later.
OnlyRetriedAreOvertaken ==
  \A i, j \in 1..Len(file) :
    i < j /\ file[i].ev > file[j].ev => file[j].ev \in retried

\* Trades keep their place in the queue: both of the above, over torn writes,
\* failed appends, dropped lines and restarts (push, pop, peek).
TradesKeepTheirPlace == OwnLinesWait /\ OnlyRetriedAreOvertaken

\* "so the queue can't wedge": whatever was written, the file runs empty.
QueueDrains == (file # <<>>) ~> (file = <<>>)

\* A restart or a failed answer never makes the helper forget where it is: the
\* only line that leaves the file is the first, and a line that parses leaves it
\* only after an answer that settles its trade.
OnlySettledLinesLeave ==
  [][Len(file') < Len(file) =>
       /\ file' = Tail(file)
       /\ file[1].text = "whole" => file[1].ev \in settled]_vars
----------------------------------------------------------------------------
(* Why it holds: the inductive invariant.                                  *)

\* Nothing is queued or waits to be queued that the tail has not seen.
SeenFirst ==
  /\ \A i \in 1..Len(file) : file[i].ev <= seen
  /\ \A k \in 1..Len(pending) : pending[k] <= seen
  /\ \A k \in 1..Len(kept) : kept[k] <= seen /\ kept[k] \in retried
  /\ \A e \in pushed : e <= seen

\* A trade waits in one place to be written, and no longer once it is pushed.
WrittenOnce ==
  /\ \A k, l \in 1..Len(pending) : pending[k] = pending[l] => k = l
  /\ \A k, l \in 1..Len(kept) : kept[k] = kept[l] => k = l
  /\ \A k \in 1..Len(pending), l \in 1..Len(kept) : pending[k] # kept[l]
  /\ \A k \in 1..Len(pending) : pending[k] \notin pushed
  /\ \A k \in 1..Len(kept) : kept[k] \notin pushed

\* A trade that waits for its first write goes behind whatever is queued.
InOrder ==
  \A k \in 1..Len(pending) :
    pending[k] \notin retried =>
      /\ \A i \in 1..Len(file) : file[i].ev <= pending[k]
      /\ \A l \in 1..(k - 1) : pending[l] <= pending[k]

\* The line the next text may be joined to is not the line of a pushed trade.
OpenLineIsUnpushed == open => file[Len(file)].ev \notin pushed

\* The line that is about to be popped is settled.
PoppedIsSettled == hpc = "pop" => file[1].ev \in settled

IInv ==
  TypeOK /\ SeenFirst /\ WrittenOnce /\ InOrder /\ OpenLineIsUnpushed /\ PoppedIsSettled
    /\ TradesKeepTheirPlace
=============================================================================
