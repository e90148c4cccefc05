----------------------------- MODULE MCBilling -----------------------------
(* Billing on a small job, for TLC: 100 % is 2, so that half of an odd     *)
(* amount rounds.                                                          *)
EXTENDS Billing, TLC

\* A contract, and a change order that takes work out of it.
OddAndDeductive == {3, -1}

NoneOrHalf == {{}, {1}}
HalfOrAll == {{1}, {2}}

\* A charge of one cent, or a credit of one.
ChargeOrCredit == {1, -1}

RequestSymmetry == Permutations(Sessions)
=============================================================================
