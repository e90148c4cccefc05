----------------------------- MODULE MCTemplates -----------------------------
(* Templates on a small instance: two lags, and tasks of a day or two.        *)
EXTENDS Templates, TLC

OverlapOrGap == {-2, 1}
OneLong == [t \in Tasks |-> IF t = CHOOSE u \in Tasks : TRUE THEN 2 ELSE 1]
EditorSymmetry == Permutations(Editors)
=============================================================================
