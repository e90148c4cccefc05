------------------------------ MODULE Contract ------------------------------
(***************************************************************************)
(* What quotes promise to everything that reads a contract (invoicing, the *)
(* job's value, the work agreed): a set of signed versions that grows and  *)
(* shrinks by one document at a time, counts every document at most once,  *)
(* and puts only a later version in the place of a signed one.             *)
(*                                                                         *)
(* Quotes implements this (Quotes!ImplementsContract), whatever its        *)
(* requests do to each other.                                              *)
(***************************************************************************)
EXTENDS Naturals

VARIABLE signed   \* entries [kind, sequence, version]

SameDocument(a, b) == a.kind = b.kind /\ a.sequence = b.sequence

Init == signed = {}

\* A document that was not part of the contract becomes part of it.
Sign(e) ==
  /\ \A f \in signed : ~SameDocument(e, f)
  /\ signed' = signed \cup {e}

\* A document leaves: its version is voided, declined or taken back.
Withdraw(e) == signed' = signed \ {e}

\* A later version of a document takes the place of the signed one.
Replace(e, f) ==
  /\ SameDocument(e, f) /\ f.version > e.version
  /\ signed' = (signed \ {e}) \cup {f}

Next ==
  \/ \E e \in signed' \ signed : Sign(e)
  \/ \E e \in signed : Withdraw(e)
  \/ \E e \in signed, f \in signed' : Replace(e, f)

Spec == Init /\ [][Next]_signed
=============================================================================
