----------------------------- MODULE MCSchedule -----------------------------
(* Schedule on a small instance: interchangeable sessions and tasks.       *)
EXTENDS Schedule, TLC

ShortSpans == {[start |-> 1, end |-> 1], [start |-> 1, end |-> 2]}

TouchingLags == {-1}

EditorSymmetry == Permutations(Editors) \cup Permutations(Tasks)
TaskSymmetry == Permutations(Tasks)
=============================================================================
