----------------------------- MODULE MCReminders -----------------------------
(* Reminders on small instances: every rule looks a day ahead or back.       *)
EXTENDS Reminders, TLC

DayOffsets ==
  [t \in Triggers |-> IF t \in {"quote_expiring", "site_visit_scheduled"} THEN -1 ELSE 1]

\* Passes, requests and rows are alike.  Sound: the runs that use it check no liveness.
Alike == Permutations(Evaluators) \cup Permutations(Clerks) \cup Permutations(Ids)
=============================================================================
