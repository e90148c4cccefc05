------------------------------ MODULE MCQuotes ------------------------------
(* Quotes on a small instance: interchangeable sessions.                   *)
EXTENDS Quotes, TLC

SessionSymmetry == Permutations(Sessions)
=============================================================================
