----------------------------- MODULE TradeOnce -----------------------------
(***************************************************************************)
(* What the server promises about a reported trade: there is one automatic *)
(* attempt to apply it, or none.  The attempt applies the items in order,  *)
(* each once; when it is over (all items applied, an item failed, it was   *)
(* cut off) it never resumes, and the trade is left to the user.           *)
(***************************************************************************)
EXTENDS Integers

CONSTANTS Event, NItems

VARIABLES
  attempt,   \* per event: new, running or over
  applied    \* items applied automatically

vars == <<attempt, applied>>

Init ==
  /\ attempt = [e \in Event |-> "new"]
  /\ applied = [e \in Event |-> 0]

Begin(e) ==
  /\ attempt[e] = "new"
  /\ attempt' = [attempt EXCEPT ![e] = "running"]
  /\ UNCHANGED applied

Park(e) ==
  /\ attempt[e] = "new"
  /\ attempt' = [attempt EXCEPT ![e] = "over"]
  /\ UNCHANGED applied

ApplyNext(e) ==
  /\ attempt[e] = "running"
  /\ applied[e] < NItems
  /\ applied' = [applied EXCEPT ![e] = @ + 1]
  /\ attempt' = [attempt EXCEPT ![e] = IF applied[e] + 1 = NItems THEN "over" ELSE "running"]

\* A restart of the server ends every attempt under way.
Stop(S) ==
  /\ \A e \in S : attempt[e] = "running"
  /\ attempt' = [e \in Event |-> IF e \in S THEN "over" ELSE attempt[e]]
  /\ UNCHANGED applied

Next ==
  \/ \E e \in Event : Begin(e) \/ Park(e) \/ ApplyNext(e)
  \/ \E S \in SUBSET Event : Stop(S)

Spec == Init /\ [][Next]_vars
=============================================================================
