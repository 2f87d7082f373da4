------------------------------- MODULE Backups -------------------------------
(***************************************************************************)
(* The daily database backup (housekeeping/backup.rs and the backup part   *)
(* of housekeeping/mod.rs): copy to a .tmp beside the final name, verify,  *)
(* rename, prune.  Any step may fail and the process may die between any   *)
(* two; the gate that puts off a failed backup to the next day is memory.  *)
(* Days are numbers; every WeekDays-th one is a Sunday.                    *)
(***************************************************************************)
EXTENDS Naturals, FiniteSets, FiniteSetsExt

CONSTANTS
  LastDay,                 \* bound: the last day of the model
  MaxCrashes,              \* bound: deaths of the process
  WeekDays,                \* 7
  KEEP_DAILY, KEEP_WEEKLY  \* 7, 4

VARIABLES
  today,
  files,     \* dates of the dated backup files
  temps,     \* dates of the .tmp files
  torn,      \* those of them that are not whole copies
  job,       \* the running job [pc, date]
  backup_failed_on, crashes,
  made       \* every date a backup was renamed to, ever: history

vars == <<today, files, temps, torn, job, backup_failed_on, crashes, made>>

Never == 0
Idle == [pc |-> "idle", date |-> Never]
Sunday(d) == d % WeekDays = 0

Init ==
  /\ today = 1 /\ files = {} /\ temps = {} /\ torn = {}
  /\ job = Idle /\ backup_failed_on = Never /\ crashes = 0 /\ made = {}

Tick == today < LastDay /\ today' = today + 1 /\ UNCHANGED <<files, temps, torn, job, backup_failed_on, crashes, made>>

Newest(S, n) == {d \in S : Cardinality({e \in S : e > d}) < n}

\* A mutated form: the Sundays among the newest use up the places of older ones.
to_delete_AllSundays(dates) ==
  (dates \ Newest(dates, KEEP_DAILY)) \ Newest({d \in dates : Sunday(d)}, KEEP_WEEKLY)

\* The newest KEEP_DAILY stay, and of the rest the newest KEEP_WEEKLY Sundays.
to_delete(dates) ==
  LET rest == dates \ Newest(dates, KEEP_DAILY)
  IN  rest \ Newest({d \in rest : Sunday(d)}, KEEP_WEEKLY)

\* A tick of the loop: skipped when today's file is there or failed today.
run ==
  /\ job = Idle /\ backup_failed_on # today
  /\ today \notin files
  /\ job' = [pc |-> "copy", date |-> today]
  /\ UNCHANGED <<today, files, temps, torn, backup_failed_on, crashes, made>>

\* The gate takes the day the tick began, the job's own.
Fails == job' = Idle /\ backup_failed_on' = job.date

\* A stale .tmp of the same date goes first; a copy may come out unsound.
write ==
  /\ job.pc = "copy"
  /\ \/ /\ temps' = temps \cup {job.date}
        /\ torn' \in {torn \ {job.date}, torn \cup {job.date}}
        /\ job' = [job EXCEPT !.pc = "verify"]
        /\ UNCHANGED backup_failed_on
     \/ /\ \/ UNCHANGED <<temps, torn>>
           \/ temps' = temps \cup {job.date} /\ torn' = torn \cup {job.date}
        /\ Fails
  /\ UNCHANGED <<today, files, crashes, made>>

\* An unsound copy is removed, if it can be.
verify ==
  /\ job.pc = "verify"
  /\ \/ /\ job.date \notin torn
        /\ job' = [job EXCEPT !.pc = "rename"]
        /\ UNCHANGED <<temps, torn, backup_failed_on>>
     \/ /\ \/ temps' = temps \ {job.date} /\ torn' = torn \ {job.date}
           \/ UNCHANGED <<temps, torn>>
        /\ Fails
  /\ UNCHANGED <<today, files, crashes, made>>

promote ==
  /\ job.pc = "rename"
  /\ \/ /\ files' = files \cup {job.date} /\ made' = made \cup {job.date}
        /\ temps' = temps \ {job.date}
        /\ job' = [job EXCEPT !.pc = "prune"]
        /\ UNCHANGED backup_failed_on
     \/ Fails /\ UNCHANGED <<files, made, temps>>
  /\ UNCHANGED <<today, torn, crashes>>

\* A deletion that fails ends the job, and the day counts as failed.
prune ==
  /\ job.pc = "prune"
  /\ \/ files' = files \ to_delete(files) /\ job' = Idle /\ UNCHANGED backup_failed_on
     \/ \E some \in SUBSET to_delete(files) :
          some # to_delete(files) /\ files' = files \ some /\ Fails
  /\ UNCHANGED <<today, temps, torn, crashes, made>>

\* The process dies, in the middle of a copy or of the deletions too.
Crash ==
  /\ crashes < MaxCrashes
  /\ crashes' = crashes + 1
  /\ job' = Idle /\ backup_failed_on' = Never
  /\ \/ UNCHANGED <<temps, torn, files>>
     \/ /\ job.pc = "copy" /\ temps' = temps \cup {job.date} /\ torn' = torn \cup {job.date}
        /\ UNCHANGED files
     \/ /\ job.pc = "prune" /\ \E some \in SUBSET to_delete(files) : files' = files \ some
        /\ UNCHANGED <<temps, torn>>
  /\ UNCHANGED <<today, made>>

Next == Tick \/ run \/ write \/ verify \/ promote \/ prune \/ Crash

BackupsSpec == Init /\ [][Next]_vars

-----------------------------------------------------------------------------
\* However often copies fail, deletions stop half way or the server dies, the backups
\* reach back as far as the rule says: the last KEEP_DAILY that were made are there, the
\* last KEEP_WEEKLY Sundays before them too, and each of them is a whole copy.  Every pruning works on
\* what the earlier ones have left (to_delete, prune, promote).
BackupsReachBack ==
  /\ LET dailies == Newest(made, KEEP_DAILY)
     IN  dailies \cup Newest({d \in made \ dailies : Sunday(d)}, KEEP_WEEKLY) \subseteq files
  /\ files \cap torn = {}

-----------------------------------------------------------------------------
(* Why it holds: the inductive invariant.                                   *)

TypeOK ==
  /\ today \in Nat \ {0}
  /\ made \subseteq 1..today
  /\ job \in [pc : {"idle", "copy", "verify", "rename", "prune"}, date : 0..today]

\* A job makes a date that is not there yet, and renames a copy it has verified.
JobMakesNewFile ==
  /\ job.pc \in {"copy", "verify", "rename"} => job.date \in 1..today /\ job.date \notin files
  /\ job.pc = "rename" => job.date \notin torn

BackupsInv == TypeOK /\ files \subseteq made /\ JobMakesNewFile /\ BackupsReachBack
=============================================================================
