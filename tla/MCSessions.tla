----------------------------- MODULE MCSessions -----------------------------
(* Small instances of Sessions: MCAccounts.cfg has the users screen alone, *)
(* MCSessions.cfg a session read and ended while its user is deactivated.  *)
EXTENDS Sessions, TLC

Symmetry == Permutations(Users) \cup Permutations(Managers) \cup Permutations(Visitors)
=============================================================================
