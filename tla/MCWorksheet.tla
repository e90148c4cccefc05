---------------------------- MODULE MCWorksheet ----------------------------
(* Worksheet on a small quote, for TLC.  Requests are not interchangeable: *)
(* the run checks liveness, and only one of them sends.                    *)
EXTENDS Worksheet

\* An item without a price, and one with.
PricedOrNot == {0, 1}
=============================================================================
