--------------------------- MODULE BillingProofs ---------------------------
(***************************************************************************)
(* Proofs about Billing, for any amounts, rates and settings, any number   *)
(* of requests and any length of table.                                    *)
(*                                                                         *)
(* The sums of deriveBillingState are taken apart by the lemmas of Sums;   *)
(* what a request has priced (Follows, Covered, Settles) is pure           *)
(* arithmetic of computeInvoice, kept in RequestOK until it commits; and   *)
(* the ledger is the entries of the active invoices (EntriesOK), from      *)
(* which its balance follows.                                              *)
(***************************************************************************)
EXTENDS Billing, Sums

-----------------------------------------------------------------------------
(* The arithmetic of computeInvoice.                                       *)

\* A percentage of whole cents is whole cents.
LEMMA HalfInt ==
  ASSUME NEW n \in Int
  PROVE  (2 * n + FullPercent) \div (2 * FullPercent) \in Int
BY PercentAssumption

LEMMA PercentInt ==
  ASSUME NEW base \in Int, NEW percent \in Int
  PROVE  ApplyPercent(base, percent) \in Int
<1>1. base * percent \in Int /\ -base * percent \in Int /\ FullPercent \in Nat \ {0}
  BY PercentAssumption
<1>2. \A n \in Int : (2 * n + FullPercent) \div (2 * FullPercent) \in Int
  BY HalfInt
<1> QED BY <1>1, <1>2 DEF ApplyPercent

LEMMA DivideTimes ==
  ASSUME NEW q \in Int, NEW d \in Int, d > 0, NEW r \in Int, 0 <= r, r < d
  PROVE  (q * d + r) \div d = q
OBVIOUS

\* All of an amount is the amount: nothing is lost to rounding.
LEMMA FullIsAll ==
  ASSUME NEW base \in Int
  PROVE  ApplyPercent(base, FullPercent) = base
<1>1. PICK F : F = FullPercent
  OBVIOUS
<1>2. F \in Int /\ F > 0
  BY <1>1, PercentAssumption
<1>3. ASSUME NEW b \in Int
      PROVE  (2 * (b * F) + F) \div (2 * F) = b
  <2>1. 2 * F \in Int /\ 2 * F > 0 /\ F < 2 * F
    BY <1>2
  <2>2. (b * (2 * F) + F) \div (2 * F) = b
    BY <2>1, <1>2, DivideTimes
  <2>3. b * (2 * F) = 2 * (b * F)
    BY <1>2
  <2> QED BY <2>2, <2>3
<1>4. (-base) \in Int /\ (-base) * F = -(base * F) /\ -(-base) = base
  BY <1>2
<1>5. (2 * (base * F) + F) \div (2 * F) = base
  BY <1>3
<1>6. (2 * (-(base * F)) + F) \div (2 * F) = -base
  BY <1>3, <1>4
<1> QED BY <1>1, <1>2, <1>4, <1>5, <1>6 DEF ApplyPercent

\* An invoice taxes what it bills and what it advances, less what it defers.
Sound(v) ==
  v.base = (IF v.kind \in CONTRACT_BILLING_KINDS THEN v.subtotal ELSE 0) + Advanced(v)
             - (IF v.deferred THEN v.holdback ELSE 0)

\* The state the engine promises adds the invoice's own figures.
Follows(state, v, next) ==
  /\ next.contract = state.contract
  /\ next.billed = state.billed + (IF v.kind \in CONTRACT_BILLING_KINDS THEN v.subtotal ELSE 0)
  /\ next.accrued = state.accrued + Accrued(v)
  /\ next.released = state.released + v.released
  /\ next.held = state.held + Advanced(v)

\* What is drawn down is held and billed.
Covered(state, v) ==
  v.applied > 0 => v.kind # "deposit" /\ v.applied <= state.held /\ v.base >= 0

\* A final invoice leaves nothing to bill.
Settles(state, v, rate, next) ==
  v.kind = "final" =>
    next.billed = state.contract /\ next.accrued = ApplyPercent(state.contract, rate)

\* What may be asked.
LEMMA AskShape ==
  ASSUME NEW state \in State, NEW ask \in Asks(state)
  PROVE  /\ ask.kind \in Kinds /\ ask.percent \in 0..FullPercent
         /\ ask.amount \in Int /\ ask.apply \in Int
         /\ ask.kind = "deposit" => ask.apply = 0
         /\ ask.kind = "final" => ask.percent = FullPercent
<1>1. FullPercent \in Nat /\ 0 \in Int /\ Outstanding(state) \in Int
  BY PercentAssumption DEF State, Outstanding
<1>2. Percents \subseteq 0..FullPercent /\ Cents \subseteq Int /\ FullPercent \in 0..FullPercent
        /\ 0 \in 0..FullPercent
  BY <1>1, PercentAssumption, CentsAssumption
<1>3. PICK all : all = 0..FullPercent
  OBVIOUS
<1>4. PICK amounts : amounts = Cents \cup {0}
  OBVIOUS
<1>5. PICK releases : releases = Cents \cup {Outstanding(state)}
  OBVIOUS
<1>6. amounts \subseteq Int /\ releases \subseteq Int
  BY <1>1, <1>2, <1>4, <1>5
<1>7. CASE ask \in [kind : {"progress"}, percent : Percents, amount : {0}, apply : amounts]
  <2>1. ask.kind = "progress" /\ ask.percent \in Percents /\ ask.amount = 0 /\ ask.apply \in amounts
    BY <1>7
  <2> QED BY <2>1, <1>1, <1>2, <1>6 DEF Kinds
<1>8. CASE ask \in [kind : {"final"}, percent : {FullPercent}, amount : {0}, apply : amounts]
  <2>1. ask.kind = "final" /\ ask.percent = FullPercent /\ ask.amount = 0 /\ ask.apply \in amounts
    BY <1>8
  <2> QED BY <2>1, <1>1, <1>2, <1>6 DEF Kinds
<1>9. CASE ask \in [kind : {"change_order"}, percent : {0}, amount : Cents, apply : amounts]
  <2>1. ask.kind = "change_order" /\ ask.percent = 0 /\ ask.amount \in Cents /\ ask.apply \in amounts
    BY <1>9
  <2> QED BY <2>1, <1>1, <1>2, <1>6 DEF Kinds
<1>10. CASE ask \in [kind : {"deposit"}, percent : {0}, amount : Cents, apply : {0}]
  <2>1. ask.kind = "deposit" /\ ask.percent = 0 /\ ask.amount \in Cents /\ ask.apply = 0
    BY <1>10
  <2> QED BY <2>1, <1>1, <1>2, <1>6 DEF Kinds
<1>11. CASE ask \in [kind : {"holdback_release"}, percent : {0}, amount : releases, apply : amounts]
  <2>1. ask.kind = "holdback_release" /\ ask.percent = 0 /\ ask.amount \in releases /\ ask.apply \in amounts
    BY <1>11
  <2> QED BY <2>1, <1>1, <1>2, <1>6 DEF Kinds
<1> QED BY <1>4, <1>5, <1>7, <1>8, <1>9, <1>10, <1>11 DEF Asks

LEMMA SmallestOfTwo ==
  ASSUME NEW a \in Int, NEW b \in Int
  PROVE  \E m \in {a, b} : \A k \in {a, b} : m <= k
<1>1. CASE a <= b
  BY <1>1
<1>2. CASE b <= a
  BY <1>2
<1> QED BY <1>1, <1>2

LEMMA SmallestOf ==
  ASSUME NEW a \in Int, NEW b \in Int, NEW c \in Int
  PROVE  /\ Smallest({a, b, c}) \in Int
         /\ Smallest({a, b, c}) <= a /\ Smallest({a, b, c}) <= b /\ Smallest({a, b, c}) <= c
<1>1. \E m \in {a, b, c} : \A k \in {a, b, c} : m <= k
  <2>1. PICK m \in {a, b} : \A k \in {a, b} : m <= k
    BY SmallestOfTwo
  <2>2. PICK n \in {m, c} : \A k \in {m, c} : n <= k
    BY SmallestOfTwo
  <2> QED BY <2>1, <2>2
<1>2. Smallest({a, b, c}) \in {a, b, c} /\ \A k \in {a, b, c} : Smallest({a, b, c}) <= k
  BY <1>1 DEF Smallest
<1> QED BY <1>2

\* resolveDrawdown stays under its three ceilings, or draws nothing.
LEMMA DrawdownBounded ==
  ASSUME NEW state \in State, NEW ask, ask.apply \in Int, NEW billable \in Int
  PROVE  /\ Drawdown(state, ask, billable) \in Int
         /\ Drawdown(state, ask, billable) > 0 =>
              /\ Drawdown(state, ask, billable) <= ask.apply
              /\ Drawdown(state, ask, billable) <= state.held
              /\ Drawdown(state, ask, billable) <= billable
<1>1. state.held \in Int
  BY DEF State
<1>2. PICK m : m = Smallest({ask.apply, state.held, billable})
  OBVIOUS
<1>3. m \in Int /\ m <= ask.apply /\ m <= state.held /\ m <= billable
  BY <1>1, <1>2, SmallestOf
<1>4. Drawdown(state, ask, billable) = IF m < 0 THEN 0 ELSE m
  BY <1>2 DEF Drawdown
<1> QED BY <1>3, <1>4

\* Whatever is asked for, what computeInvoice returns is all of that.
LEMMA PricedRight ==
  ASSUME NEW state \in State, NEW ask \in Asks(state), NEW rate \in 0..FullPercent,
         NEW defers \in BOOLEAN, NEW v, v = Compute(state, ask, rate, defers),
         NEW next, next = NextState(state, ask, rate, v)
  PROVE  /\ v \in Invoice /\ next \in State /\ v.record = "active"
         /\ Sound(v) /\ Follows(state, v, next) /\ Covered(state, v)
         /\ Settles(state, v, rate, next)
<1>1. /\ ask.kind \in Kinds /\ ask.percent \in 0..FullPercent
      /\ ask.amount \in Int /\ ask.apply \in Int
      /\ ask.kind = "deposit" => ask.apply = 0
      /\ ask.kind = "final" => ask.percent = FullPercent
  BY AskShape
<1>2. /\ state.contract \in Int /\ state.billed \in Int /\ state.accrued \in Int
      /\ state.released \in Int /\ state.held \in Int
  BY DEF State
<1>3. rate \in Int /\ ask.percent \in Int
  BY <1>1, PercentAssumption
<1>4. PICK subtotal : subtotal = Subtotal(state, ask)
  OBVIOUS
<1>5. PICK released : released = Release(ask)
  OBVIOUS
<1>6. PICK accrual : accrual = Accrual(state, ask, rate)
  OBVIOUS
<1>7. PICK billed : billed = BilledToDate(state, ask)
  OBVIOUS
<1>8. /\ subtotal \in Int
      /\ ask.kind = "holdback_release" => subtotal = 0
      /\ ask.kind = "final" => subtotal = state.contract - state.billed
  <2>1. ApplyPercent(state.contract, ask.percent) \in Int
    BY <1>2, <1>3, PercentInt
  <2>2. ApplyPercent(state.contract, FullPercent) = state.contract
    BY <1>2, FullIsAll
  <2>3. CASE ask.kind \in {"progress", "final"}
    <3>1. subtotal = ApplyPercent(state.contract, ask.percent) - state.billed
      BY <2>3, <1>4 DEF Subtotal
    <3> QED BY <3>1, <2>1, <2>2, <2>3, <1>1, <1>2
  <2>4. CASE ask.kind \in {"deposit", "change_order"}
    <3>1. subtotal = ask.amount
      BY <2>4, <1>4 DEF Subtotal
    <3> QED BY <3>1, <2>4, <1>1
  <2>5. CASE ask.kind = "holdback_release"
    <3>1. subtotal = 0
      BY <2>5, <1>4 DEF Subtotal
    <3> QED BY <3>1, <2>5
  <2> QED BY <2>3, <2>4, <2>5, <1>1 DEF Kinds
<1>9. released \in Int
  BY <1>1, <1>5 DEF Release
<1>10. billed = state.billed + (IF ask.kind \in CONTRACT_BILLING_KINDS THEN subtotal ELSE 0)
         /\ billed \in Int
  BY <1>2, <1>4, <1>7, <1>8 DEF BilledToDate
<1>11. accrual = ApplyPercent(billed, rate) - state.accrued /\ accrual \in Int
  <2>1. ApplyPercent(billed, rate) \in Int
    BY <1>3, <1>10, PercentInt
  <2> QED BY <2>1, <1>2, <1>6, <1>7 DEF Accrual
<1>12. PICK holdback : holdback = accrual - released
  OBVIOUS
<1>13. PICK billable : billable = BillableNow(subtotal, holdback, defers)
  OBVIOUS
<1>14. holdback \in Int /\ billable = (IF defers THEN subtotal - holdback ELSE subtotal)
         /\ billable \in Int
  BY <1>8, <1>9, <1>11, <1>12, <1>13 DEF BillableNow
<1>15. PICK applied : applied = Drawdown(state, ask, billable)
  OBVIOUS
<1>16. applied \in Int
         /\ (applied > 0 => applied <= ask.apply /\ applied <= state.held /\ applied <= billable)
  BY <1>1, <1>14, <1>15, DrawdownBounded
<1>17. /\ v = [kind |-> ask.kind, subtotal |-> subtotal, holdback |-> holdback,
               released |-> released, applied |-> applied, base |-> billable - applied,
               deferred |-> defers, record |-> "active"]
  BY <1>4, <1>5, <1>6, <1>12, <1>13, <1>15 DEF Compute, TaxableBase
<1>18. /\ v.kind = ask.kind /\ v.subtotal = subtotal /\ v.holdback = holdback
       /\ v.released = released /\ v.applied = applied /\ v.base = billable - applied
       /\ v.deferred = defers /\ v.record = "active"
  BY <1>17
<1>19. v \in Invoice
  <2>1. billable - applied \in Int
    BY <1>14, <1>16
  <2> QED BY <2>1, <1>1, <1>8, <1>9, <1>14, <1>16, <1>17 DEF Invoice
<1>20. Accrued(v) = accrual
  BY <1>18, <1>12, <1>9, <1>11 DEF Accrued
<1>21. Advanced(v) = (IF ask.kind = "deposit" THEN subtotal ELSE 0) - applied
         /\ Advanced(v) \in Int
  BY <1>18, <1>8, <1>16 DEF Advanced
<1>22. next = [contract |-> state.contract, billed |-> billed, accrued |-> state.accrued + accrual,
               released |-> state.released + released,
               held |-> state.held - applied + (IF ask.kind = "deposit" THEN subtotal ELSE 0)]
  BY <1>6, <1>7, <1>18 DEF NextState
<1>23. /\ next.contract = state.contract /\ next.billed = billed
       /\ next.accrued = state.accrued + accrual /\ next.released = state.released + released
       /\ next.held = state.held - applied + (IF ask.kind = "deposit" THEN subtotal ELSE 0)
  BY <1>22
<1>24. next \in State
  <2>1. /\ state.accrued + accrual \in Int /\ state.released + released \in Int
        /\ state.held - applied + (IF ask.kind = "deposit" THEN subtotal ELSE 0) \in Int
    BY <1>2, <1>8, <1>9, <1>11, <1>16
  <2> QED BY <2>1, <1>2, <1>10, <1>22 DEF State
<1>25. Sound(v)
  <2>1. ask.kind \in {"deposit", "holdback_release"} <=> ask.kind \notin CONTRACT_BILLING_KINDS
    BY <1>1 DEF Kinds, CONTRACT_BILLING_KINDS
  <2>2. "deposit" # "holdback_release" /\ "deposit" \notin CONTRACT_BILLING_KINDS
    BY DEF CONTRACT_BILLING_KINDS
  <2>3. subtotal = (IF ask.kind \in CONTRACT_BILLING_KINDS THEN subtotal ELSE 0)
                     + (IF ask.kind = "deposit" THEN subtotal ELSE 0)
    BY <2>1, <2>2, <1>8
  <2> QED BY <2>3, <1>8, <1>14, <1>16, <1>18, <1>21 DEF Sound
<1>26. Follows(state, v, next)
  <2>1. state.held - applied + (IF ask.kind = "deposit" THEN subtotal ELSE 0)
          = state.held + ((IF ask.kind = "deposit" THEN subtotal ELSE 0) - applied)
    BY <1>2, <1>8, <1>16
  <2> QED BY <2>1, <1>10, <1>18, <1>20, <1>21, <1>23 DEF Follows
<1>27. Covered(state, v)
  BY <1>1, <1>14, <1>16, <1>18 DEF Covered
<1>28. Settles(state, v, rate, next)
  <2> SUFFICES ASSUME ask.kind = "final"
               PROVE  next.billed = state.contract /\ next.accrued = ApplyPercent(state.contract, rate)
    BY <1>18 DEF Settles
  <2>1. billed = state.contract
    BY <1>2, <1>8, <1>10 DEF CONTRACT_BILLING_KINDS
  <2>2. ApplyPercent(billed, rate) \in Int
    BY <1>3, <1>10, PercentInt
  <2>3. state.accrued + accrual = ApplyPercent(billed, rate)
    BY <2>2, <1>2, <1>11
  <2> QED BY <2>1, <2>3, <1>23
<1> QED BY <1>18, <1>19, <1>24, <1>25, <1>26, <1>27, <1>28

-----------------------------------------------------------------------------
(* The sums of deriveBillingState.                                        *)

\* The table of invoices, and the row IssueCommit adds to it.
InvoicesTyped == invoices \in Seq(Invoice)
Issues(v) == v.record = "active" /\ invoices' = Append(invoices, v)

\* The sum of a family over a finite table.

LEMMA IntegerSum ==
  ASSUME NEW D, IsFiniteSet(D), NEW f, DOMAIN f = D, \A x \in D : f[x] \in Int
  PROVE  SumFunction(f) \in Int
BY SumIsInt DEF SumFunction

LEMMA SameSum ==
  ASSUME NEW D, IsFiniteSet(D), NEW f, NEW g, DOMAIN f = D, DOMAIN g = D,
         \A x \in D : g[x] = f[x]
  PROVE  SumFunction(g) = SumFunction(f)
BY SumSame DEF SumFunction

\* One row more.
LEMMA GrowingSum ==
  ASSUME NEW D, IsFiniteSet(D), NEW y, y \notin D, NEW f, NEW g, DOMAIN f = D,
         DOMAIN g = D \cup {y}, g[y] \in Int, \A x \in D : f[x] \in Int /\ g[x] = f[x]
  PROVE  SumFunction(g) = SumFunction(f) + g[y]
<1>1. SumFunctionOnSet(g, D) = SumFunctionOnSet(f, D)
  BY SumSame
<1>2. \A x \in D \cup {y} : g[x] \in Int
  OBVIOUS
<1>3. SumFunctionOnSet(g, D \cup {y}) = g[y] + SumFunctionOnSet(g, D)
  BY <1>2, SumAdded
<1>4. SumFunctionOnSet(f, D) \in Int
  BY SumIsInt
<1> QED BY <1>1, <1>3, <1>4 DEF SumFunction

LEMMA FiniteActive ==
  ASSUME InvoicesTyped
  PROVE  IsFiniteSet(Active) /\ IsFiniteSet(Work) /\ Work \subseteq Active
           /\ Active \subseteq DOMAIN invoices /\ Len(invoices) \in Nat
           /\ DOMAIN invoices = 1..Len(invoices)
<1>1. Len(invoices) \in Nat /\ DOMAIN invoices = 1..Len(invoices)
  BY DEF InvoicesTyped
<1>2. IsFiniteSet(DOMAIN invoices)
  BY <1>1, FS_Interval
<1>3. Active \subseteq DOMAIN invoices /\ Work \subseteq Active
  BY DEF Active, Work
<1>4. IsFiniteSet(Active)
  BY <1>2, <1>3, FS_Subset
<1>5. IsFiniteSet(Work)
  BY <1>3, <1>4, FS_Subset
<1> QED BY <1>1, <1>3, <1>4, <1>5

\* The figures of an invoice are whole cents.
LEMMA Figures ==
  ASSUME NEW v \in Invoice
  PROVE  /\ v.kind \in Kinds /\ v.subtotal \in Int /\ v.holdback \in Int /\ v.released \in Int
         /\ v.applied \in Int /\ v.base \in Int /\ v.deferred \in BOOLEAN
         /\ v.record \in {"active", "void"}
         /\ Accrued(v) \in Int /\ Advanced(v) \in Int
<1>1. /\ v.kind \in Kinds /\ v.subtotal \in Int /\ v.holdback \in Int /\ v.released \in Int
      /\ v.applied \in Int /\ v.base \in Int /\ v.deferred \in BOOLEAN
      /\ v.record \in {"active", "void"}
  BY DEF Invoice
<1> QED BY <1>1 DEF Accrued, Advanced

LEMMA DeriveTyped ==
  ASSUME InvoicesTyped, NEW contract \in Int
  PROVE  Derive(contract) \in State
<1>1. IsFiniteSet(Active) /\ IsFiniteSet(Work) /\ Work \subseteq Active
        /\ Active \subseteq DOMAIN invoices
  BY FiniteActive
<1>2. \A i \in Active : invoices[i] \in Invoice
  BY <1>1 DEF InvoicesTyped
<1>3. \A i \in Active : invoices[i].subtotal \in Int /\ Accrued(invoices[i]) \in Int
        /\ invoices[i].released \in Int /\ Advanced(invoices[i]) \in Int
  BY <1>2, Figures
<1>4. PICK f : f = [i \in Work |-> invoices[i].subtotal]
  OBVIOUS
<1>5. SumFunction(f) \in Int
  BY <1>1, <1>3, <1>4, IntegerSum
<1>6. PICK g : g = [i \in Active |-> Accrued(invoices[i])]
  OBVIOUS
<1>7. SumFunction(g) \in Int
  BY <1>1, <1>3, <1>6, IntegerSum
<1>8. PICK h : h = [i \in Active |-> invoices[i].released]
  OBVIOUS
<1>9. SumFunction(h) \in Int
  BY <1>1, <1>3, <1>8, IntegerSum
<1>10. PICK k : k = [i \in Active |-> Advanced(invoices[i])]
  OBVIOUS
<1>11. SumFunction(k) \in Int
  BY <1>1, <1>3, <1>10, IntegerSum
<1> QED BY <1>4, <1>5, <1>6, <1>7, <1>8, <1>9, <1>10, <1>11 DEF Derive, State

\* One invoice more.
LEMMA Issued ==
  ASSUME InvoicesTyped, NEW v \in Invoice, Issues(v)
  PROVE  /\ InvoicesTyped'
         /\ Len(invoices') = Len(invoices) + 1
         /\ Len(invoices') \notin DOMAIN invoices
         /\ DOMAIN invoices' = DOMAIN invoices \cup {Len(invoices')}
         /\ invoices'[Len(invoices')] = v
         /\ \A i \in DOMAIN invoices : invoices'[i] = invoices[i]
         /\ Active' = Active \cup {Len(invoices')}
         /\ Work' = IF v.kind \in CONTRACT_BILLING_KINDS THEN Work \cup {Len(invoices')} ELSE Work
<1>1. PICK n : n = Len(invoices) + 1
  OBVIOUS
<1>2. Len(invoices) \in Nat /\ DOMAIN invoices = 1..Len(invoices)
  BY DEF InvoicesTyped
<1>3. invoices' \in Seq(Invoice) /\ Len(invoices') = n /\ DOMAIN invoices' = 1..n
  BY <1>1 DEF InvoicesTyped, Issues
<1>4. DOMAIN invoices' = DOMAIN invoices \cup {n} /\ n \notin DOMAIN invoices
  BY <1>1, <1>2, <1>3
<1>5. invoices'[n] = v /\ \A i \in DOMAIN invoices : invoices'[i] = invoices[i]
  BY <1>1, <1>2 DEF InvoicesTyped, Issues
<1>6. Active' = Active \cup {n}
  BY <1>4, <1>5 DEF Active, Issues
<1>7. Work' = IF v.kind \in CONTRACT_BILLING_KINDS THEN Work \cup {n} ELSE Work
  <2>1. \A i \in Active : i \in DOMAIN invoices
    BY DEF Active
  <2> QED BY <2>1, <1>4, <1>5, <1>6 DEF Work
<1> QED BY <1>1, <1>3, <1>4, <1>5, <1>6, <1>7 DEF InvoicesTyped

\* The five sums over a table with one invoice more.
LEMMA IssuedMoves ==
  ASSUME InvoicesTyped, NEW v \in Invoice, Issues(v), NEW contract \in Int
  PROVE  /\ Derive(contract)'.contract = contract
         /\ Derive(contract)'.billed = Derive(contract).billed
              + (IF v.kind \in CONTRACT_BILLING_KINDS THEN v.subtotal ELSE 0)
         /\ Derive(contract)'.accrued = Derive(contract).accrued + Accrued(v)
         /\ Derive(contract)'.released = Derive(contract).released + v.released
         /\ Derive(contract)'.held = Derive(contract).held + Advanced(v)
<1>1. PICK n : n = Len(invoices')
  OBVIOUS
<1>2. /\ n \notin DOMAIN invoices /\ invoices'[n] = v
      /\ \A i \in DOMAIN invoices : invoices'[i] = invoices[i]
      /\ Active' = Active \cup {n}
      /\ Work' = IF v.kind \in CONTRACT_BILLING_KINDS THEN Work \cup {n} ELSE Work
  BY <1>1, Issued
<1>3. IsFiniteSet(Active) /\ IsFiniteSet(Work) /\ Work \subseteq Active
        /\ Active \subseteq DOMAIN invoices
  BY FiniteActive
<1>4. \A i \in Active : invoices'[i] = invoices[i]
  BY <1>2, <1>3
<1>5. n \notin Active /\ n \notin Work
  BY <1>2, <1>3
<1>6. IsFiniteSet(Active) /\ IsFiniteSet(Work)
  BY <1>3
<1>7. \A i \in Active : invoices[i] \in Invoice
  BY <1>3 DEF InvoicesTyped
<1>8. \A i \in Active : invoices[i].subtotal \in Int /\ Accrued(invoices[i]) \in Int
        /\ invoices[i].released \in Int /\ Advanced(invoices[i]) \in Int
  BY <1>7, Figures
<1>9. v.subtotal \in Int /\ Accrued(v) \in Int /\ v.released \in Int /\ Advanced(v) \in Int
  BY Figures
<1>10. SumFunction([i \in Active' |-> Accrued(invoices'[i])])
        = SumFunction([i \in Active |-> Accrued(invoices[i])]) + Accrued(v)
  <2>1. PICK f : f = [i \in Active |-> Accrued(invoices[i])]
    OBVIOUS
  <2>2. PICK g : g = [i \in Active' |-> Accrued(invoices'[i])]
    OBVIOUS
  <2>3. DOMAIN f = Active /\ DOMAIN g = Active \cup {n} /\ g[n] = Accrued(v) /\ g[n] \in Int
          /\ \A i \in Active : f[i] \in Int /\ g[i] = f[i]
    BY <2>1, <2>2, <1>2, <1>4, <1>8, <1>9
  <2>4. SumFunction(g) = SumFunction(f) + g[n]
    BY <2>3, <1>5, <1>6, GrowingSum
  <2> QED BY <2>1, <2>2, <2>3, <2>4
<1>11. SumFunction([i \in Active' |-> invoices'[i].released])
        = SumFunction([i \in Active |-> invoices[i].released]) + v.released
  <2>1. PICK f : f = [i \in Active |-> invoices[i].released]
    OBVIOUS
  <2>2. PICK g : g = [i \in Active' |-> invoices'[i].released]
    OBVIOUS
  <2>3. DOMAIN f = Active /\ DOMAIN g = Active \cup {n} /\ g[n] = v.released /\ g[n] \in Int
          /\ \A i \in Active : f[i] \in Int /\ g[i] = f[i]
    BY <2>1, <2>2, <1>2, <1>4, <1>8, <1>9
  <2>4. SumFunction(g) = SumFunction(f) + g[n]
    BY <2>3, <1>5, <1>6, GrowingSum
  <2> QED BY <2>1, <2>2, <2>3, <2>4
<1>12. SumFunction([i \in Active' |-> Advanced(invoices'[i])])
        = SumFunction([i \in Active |-> Advanced(invoices[i])]) + Advanced(v)
  <2>1. PICK f : f = [i \in Active |-> Advanced(invoices[i])]
    OBVIOUS
  <2>2. PICK g : g = [i \in Active' |-> Advanced(invoices'[i])]
    OBVIOUS
  <2>3. DOMAIN f = Active /\ DOMAIN g = Active \cup {n} /\ g[n] = Advanced(v) /\ g[n] \in Int
          /\ \A i \in Active : f[i] \in Int /\ g[i] = f[i]
    BY <2>1, <2>2, <1>2, <1>4, <1>8, <1>9
  <2>4. SumFunction(g) = SumFunction(f) + g[n]
    BY <2>3, <1>5, <1>6, GrowingSum
  <2> QED BY <2>1, <2>2, <2>3, <2>4
<1>13. SumFunction([i \in Work' |-> invoices'[i].subtotal])
        = SumFunction([i \in Work |-> invoices[i].subtotal])
            + (IF v.kind \in CONTRACT_BILLING_KINDS THEN v.subtotal ELSE 0)
  <2>1. PICK f : f = [i \in Work |-> invoices[i].subtotal]
    OBVIOUS
  <2>2. PICK g : g = [i \in Work' |-> invoices'[i].subtotal]
    OBVIOUS
  <2>3. DOMAIN f = Work /\ DOMAIN g = Work' /\ \A i \in Work : f[i] \in Int
    BY <2>1, <2>2, <1>3, <1>8
  <2>4. CASE v.kind \in CONTRACT_BILLING_KINDS
    <3>1. Work' = Work \cup {n}
      BY <2>4, <1>2
    <3>2. DOMAIN g = Work \cup {n} /\ g[n] = v.subtotal /\ g[n] \in Int
            /\ \A i \in Work : f[i] \in Int /\ g[i] = f[i]
      BY <3>1, <2>1, <2>2, <2>3, <1>2, <1>3, <1>4, <1>9
    <3>3. SumFunction(g) = SumFunction(f) + g[n]
      BY <3>2, <2>3, <1>5, <1>6, GrowingSum
    <3> QED BY <3>2, <3>3, <2>1, <2>2, <2>4
  <2>5. CASE v.kind \notin CONTRACT_BILLING_KINDS
    <3>1. Work' = Work
      BY <2>5, <1>2
    <3>2. DOMAIN g = Work /\ \A i \in Work : g[i] = f[i]
      BY <3>1, <2>1, <2>2, <2>3, <1>2, <1>3, <1>4
    <3>3. SumFunction(g) = SumFunction(f) /\ SumFunction(f) \in Int
      BY <3>2, <2>3, <1>3, SameSum, IntegerSum
    <3> QED BY <3>3, <2>1, <2>2, <2>5
  <2> QED BY <2>4, <2>5
<1> QED BY <1>10, <1>11, <1>12, <1>13 DEF Derive

\* The row VoidCommit takes out.
Voids(i) == i \in DOMAIN invoices /\ invoices' = [invoices EXCEPT ![i].record = "void"]

LEMMA Voided ==
  ASSUME InvoicesTyped, NEW i, Voids(i)
  PROVE  /\ InvoicesTyped'
         /\ DOMAIN invoices' = DOMAIN invoices
         /\ \A j \in DOMAIN invoices \ {i} : invoices'[j] = invoices[j]
         /\ Active' = Active \ {i}
         /\ (\A j \in DOMAIN invoices : Sound(invoices[j])) =>
              \A j \in DOMAIN invoices' : Sound(invoices'[j])
<1>1. PICK v : v = [invoices[i] EXCEPT !.record = "void"]
  OBVIOUS
<1>2. i \in DOMAIN invoices /\ invoices' = [invoices EXCEPT ![i] = v]
  BY <1>1 DEF Voids
<1>3. invoices[i] \in Invoice
  BY <1>2 DEF InvoicesTyped
<1>4. v \in Invoice /\ v.record = "void"
  <2>1. "void" \in {"active", "void"}
    OBVIOUS
  <2> QED BY <2>1, <1>1, <1>3 DEF Invoice
<1>5. DOMAIN invoices' = DOMAIN invoices /\ invoices'[i] = v
        /\ \A j \in DOMAIN invoices \ {i} : invoices'[j] = invoices[j]
  BY <1>2
<1>6. InvoicesTyped'
  BY <1>2, <1>4 DEF InvoicesTyped
<1>7. Active' = Active \ {i}
  BY <1>4, <1>5 DEF Active
<1>8. ASSUME \A j \in DOMAIN invoices : Sound(invoices[j]), NEW j \in DOMAIN invoices'
      PROVE  Sound(invoices'[j])
  <2>1. CASE j = i
    <3>1. Sound(invoices[i])
      BY <1>2, <1>8
    <3>2. /\ v.kind = invoices[i].kind /\ v.subtotal = invoices[i].subtotal
          /\ v.applied = invoices[i].applied /\ v.base = invoices[i].base
          /\ v.deferred = invoices[i].deferred /\ v.holdback = invoices[i].holdback
      BY <1>1, <1>3 DEF Invoice
    <3>3. Sound(v)
      BY <3>1, <3>2 DEF Sound, Advanced
    <3> QED BY <3>3, <2>1, <1>5
  <2>2. CASE j # i
    <3>1. invoices'[j] = invoices[j] /\ Sound(invoices[j])
      BY <2>2, <1>5, <1>8
    <3> QED BY <3>1
  <2> QED BY <2>1, <2>2
<1> QED BY <1>5, <1>6, <1>7, <1>8

\* The ledger says of the active invoices what they say of themselves.
EntriesOK == {e \in ledger : e.record = "active"} = UNION {Entries(i, invoices[i]) : i \in Active}

Figure(kind, v) == IF kind = "accrual" THEN Accrued(v) ELSE v.released
EntryOf(kind, i, v) ==
  [invoice |-> i, entryKind |-> kind, cents |-> Figure(kind, v), record |-> "active"]

LEMMA EntriesAre ==
  ASSUME NEW i, NEW v, NEW e
  PROVE  e \in Entries(i, v) <=>
           \E kind \in {"accrual", "release"} : Figure(kind, v) # 0 /\ e = EntryOf(kind, i, v)
<1>1. "accrual" # "release"
  OBVIOUS
<1>2. EntriesAll(i, v) = {EntryOf("accrual", i, v), EntryOf("release", i, v)}
  BY <1>1 DEF EntriesAll, EntryOf, Figure
<1>3. \A kind : EntryOf(kind, i, v).cents = Figure(kind, v)
  BY DEF EntryOf
<1> QED BY <1>2, <1>3 DEF Entries

\* One sum over entries is one sum over invoices.
LEMMA LedgerSums ==
  ASSUME InvoicesTyped, EntriesOK, NEW kind \in {"accrual", "release"}
  PROVE  LedgerSum(kind) = SumFunction([i \in Active |-> Figure(kind, invoices[i])])
<1>1. IsFiniteSet(Active)
  BY FiniteActive
<1>2. \A i \in Active : Figure(kind, invoices[i]) \in Int
  <2> SUFFICES ASSUME NEW i \in Active PROVE Figure(kind, invoices[i]) \in Int
    OBVIOUS
  <2>1. invoices[i] \in Invoice
    BY FiniteActive DEF InvoicesTyped
  <2> QED BY <2>1, Figures DEF Figure
<1>3. PICK S : S = {i \in Active : Figure(kind, invoices[i]) # 0}
  OBVIOUS
<1>4. PICK rows : rows = {e \in ledger : e.entryKind = kind /\ e.record = "active"}
  OBVIOUS
<1>5. PICK h : h = [i \in S |-> EntryOf(kind, i, invoices[i])]
  OBVIOUS
<1>6. PICK g : g = [i \in Active |-> Figure(kind, invoices[i])]
  OBVIOUS
<1>7. PICK f : f = [e \in rows |-> e.cents]
  OBVIOUS
<1>8. rows = {h[i] : i \in S}
  <2>1. ASSUME NEW e \in rows PROVE \E i \in S : e = h[i]
    <3>1. e \in ledger /\ e.entryKind = kind /\ e.record = "active"
      BY <2>1, <1>4
    <3>2. PICK i \in Active : e \in Entries(i, invoices[i])
      BY <3>1 DEF EntriesOK
    <3>3. PICK other \in {"accrual", "release"} :
            Figure(other, invoices[i]) # 0 /\ e = EntryOf(other, i, invoices[i])
      BY <3>2, EntriesAre
    <3>4. other = kind
      BY <3>1, <3>3 DEF EntryOf
    <3> QED BY <3>3, <3>4, <1>3, <1>5
  <2>2. ASSUME NEW i \in S PROVE h[i] \in rows
    <3>1. i \in Active /\ Figure(kind, invoices[i]) # 0 /\ h[i] = EntryOf(kind, i, invoices[i])
      BY <1>3, <1>5
    <3>2. h[i] \in Entries(i, invoices[i])
      BY <3>1, EntriesAre
    <3>3. h[i] \in ledger
      BY <3>1, <3>2 DEF EntriesOK
    <3>4. h[i].entryKind = kind /\ h[i].record = "active"
      BY <3>1 DEF EntryOf
    <3> QED BY <3>3, <3>4, <1>4
  <2> QED BY <2>1, <2>2
<1>9. \A i \in S : f[h[i]] = g[i] /\ g[i] \in Int
  <2> SUFFICES ASSUME NEW i \in S PROVE f[h[i]] = g[i] /\ g[i] \in Int
    OBVIOUS
  <2>1. h[i] \in rows
    BY <1>8
  <2>2. i \in Active /\ h[i] = EntryOf(kind, i, invoices[i])
    BY <1>3, <1>5
  <2>3. h[i].cents = Figure(kind, invoices[i])
    BY <2>2 DEF EntryOf
  <2> QED BY <2>1, <2>2, <2>3, <1>2, <1>6, <1>7
<1>10. \A i, j \in S : h[i] = h[j] => i = j
  <2> SUFFICES ASSUME NEW i \in S, NEW j \in S, h[i] = h[j] PROVE i = j
    OBVIOUS
  <2>1. EntryOf(kind, i, invoices[i]) = EntryOf(kind, j, invoices[j])
    BY <1>5
  <2> QED BY <2>1 DEF EntryOf
<1>11. S \in SUBSET Active /\ IsFiniteSet(S)
  BY <1>1, <1>3, FS_Subset
<1>12. \A i \in Active : g[i] \in Int
  BY <1>2, <1>6
<1>13. \A i \in Active \ S : g[i] = 0
  BY <1>3, <1>6
<1>14. \A i \in S : f[h[i]] = g[i]
  BY <1>9
<1>15. \A i \in S : g[i] \in Int
  BY <1>9
<1>16. SumFunctionOnSet(f, {h[i] : i \in S}) = SumFunctionOnSet(g, S)
  BY <1>10, <1>11, <1>14, <1>15, SumAlong
<1>17. SumFunctionOnSet(g, Active) = SumFunctionOnSet(g, S)
  BY <1>1, <1>11, <1>12, <1>13, SumOfPart
<1>18. SumFunction(f) = SumFunctionOnSet(f, rows)
  BY <1>7 DEF SumFunction
<1>19. SumFunction(g) = SumFunctionOnSet(g, Active)
  BY <1>6 DEF SumFunction
<1>20. LedgerSum(kind) = SumFunction(f)
  BY <1>4, <1>7 DEF LedgerSum
<1>21. SumFunctionOnSet(f, rows) = SumFunctionOnSet(f, {h[i] : i \in S})
  BY <1>8
<1> QED BY <1>6, <1>16, <1>17, <1>18, <1>19, <1>20, <1>21

LEMMA LedgerFromEntries ==
  ASSUME InvoicesTyped, EntriesOK
  PROVE  LedgerAgreesWithInvoices
<1>1. LedgerSum("accrual") = SumFunction([i \in Active |-> Figure("accrual", invoices[i])])
  BY LedgerSums
<1>2. LedgerSum("release") = SumFunction([i \in Active |-> Figure("release", invoices[i])])
  BY LedgerSums
<1>3. [i \in Active |-> Figure("accrual", invoices[i])] = [i \in Active |-> Accrued(invoices[i])]
  BY DEF Figure
<1>4. [i \in Active |-> Figure("release", invoices[i])] = [i \in Active |-> invoices[i].released]
  <2>1. "release" # "accrual"
    OBVIOUS
  <2> QED BY <2>1 DEF Figure
<1> QED BY <1>1, <1>2, <1>3, <1>4 DEF LedgerAgreesWithInvoices, Derive

\* Invoice by invoice, the base is what is billed and advanced, less what is deferred;
\* so are the sums.
LEMMA TaxedOnce ==
  ASSUME InvoicesTyped, \A i \in DOMAIN invoices : Sound(invoices[i])
  PROVE  EveryDollarIsTaxedOnce
<1> SUFFICES ASSUME NEW defers \in BOOLEAN, \A i \in Active : invoices[i].deferred = defers
             PROVE  Bases = Derive(0).billed + Derive(0).held
                              - (IF defers THEN Outstanding(Derive(0)) ELSE 0)
  BY DEF EveryDollarIsTaxedOnce
<1>1. PICK D : D = Active
  OBVIOUS
<1>2. PICK W : W = Work
  OBVIOUS
<1>3. IsFiniteSet(D) /\ IsFiniteSet(W) /\ W \in SUBSET D /\ D \subseteq DOMAIN invoices
  BY <1>1, <1>2, FiniteActive
<1>4. W = {i \in D : invoices[i].kind \in CONTRACT_BILLING_KINDS}
  BY <1>1, <1>2 DEF Work
<1>5. \A i \in D : invoices[i] \in Invoice
  BY <1>3 DEF InvoicesTyped
<1>6. \A i \in D : /\ invoices[i].subtotal \in Int /\ invoices[i].holdback \in Int
                   /\ invoices[i].released \in Int /\ invoices[i].base \in Int
                   /\ Accrued(invoices[i]) \in Int /\ Advanced(invoices[i]) \in Int
  BY <1>5, Figures
<1>7. \A i \in D : invoices[i].deferred = defers /\ Sound(invoices[i])
  BY <1>1, <1>3
<1>8. PICK billed : billed = [i \in W |-> invoices[i].subtotal]
  OBVIOUS
<1>9. PICK work : work = [i \in D |-> IF i \in W THEN invoices[i].subtotal ELSE 0]
  OBVIOUS
<1>10. PICK accrued : accrued = [i \in D |-> Accrued(invoices[i])]
  OBVIOUS
<1>11. PICK released : released = [i \in D |-> invoices[i].released]
  OBVIOUS
<1>12. PICK held : held = [i \in D |-> Advanced(invoices[i])]
  OBVIOUS
<1>13. PICK holdback : holdback = [i \in D |-> invoices[i].holdback]
  OBVIOUS
<1>14. PICK untaxed : untaxed = [i \in D |-> IF defers THEN invoices[i].holdback ELSE 0]
  OBVIOUS
<1>15. PICK base : base = [i \in D |-> invoices[i].base]
  OBVIOUS
<1>16. PICK whole : whole = [i \in D |-> work[i] + held[i]]
  OBVIOUS
<1>17. \A i \in D : /\ work[i] \in Int /\ accrued[i] \in Int /\ released[i] \in Int
                    /\ held[i] \in Int /\ holdback[i] \in Int /\ untaxed[i] \in Int
                    /\ base[i] \in Int
  BY <1>6, <1>9, <1>10, <1>11, <1>12, <1>13, <1>14, <1>15
<1>18. \A i \in D : accrued[i] = holdback[i] + released[i]
  BY <1>10, <1>11, <1>13 DEF Accrued
<1>19. \A i \in D : whole[i] = work[i] + held[i]
  BY <1>16
<1>20. \A i \in D : whole[i] = base[i] + untaxed[i]
  <2> SUFFICES ASSUME NEW i \in D PROVE work[i] + held[i] = base[i] + untaxed[i]
    BY <1>19
  <2>1. invoices[i].base = (IF i \in W THEN invoices[i].subtotal ELSE 0) + Advanced(invoices[i])
                             - (IF defers THEN invoices[i].holdback ELSE 0)
    BY <1>4, <1>7 DEF Sound
  <2>2. base[i] = work[i] + held[i] - untaxed[i]
    BY <2>1, <1>9, <1>12, <1>14, <1>15
  <2> QED BY <2>2, <1>17
<1>21. SumFunctionOnSet(accrued, D)
         = SumFunctionOnSet(holdback, D) + SumFunctionOnSet(released, D)
  <2>1. \A i \in D : holdback[i] \in Int /\ released[i] \in Int
          /\ accrued[i] = holdback[i] + released[i]
    BY <1>17, <1>18
  <2> QED BY <2>1, <1>3, SumLinear
<1>22. SumFunctionOnSet(whole, D) = SumFunctionOnSet(work, D) + SumFunctionOnSet(held, D)
  <2>1. \A i \in D : work[i] \in Int /\ held[i] \in Int /\ whole[i] = work[i] + held[i]
    BY <1>17, <1>19
  <2> QED BY <2>1, <1>3, SumLinear
<1>23. SumFunctionOnSet(whole, D) = SumFunctionOnSet(base, D) + SumFunctionOnSet(untaxed, D)
  <2>1. \A i \in D : base[i] \in Int /\ untaxed[i] \in Int /\ whole[i] = base[i] + untaxed[i]
    BY <1>17, <1>20
  <2> QED BY <2>1, <1>3, SumLinear
<1>24. SumFunctionOnSet(work, D) = SumFunctionOnSet(billed, W)
  <2>1. SumFunctionOnSet(work, D) = SumFunctionOnSet(work, W)
    <3>1. \A i \in D : work[i] \in Int
      BY <1>17
    <3>2. \A i \in D \ W : work[i] = 0
      BY <1>9
    <3> QED BY <3>1, <3>2, <1>3, SumOfPart
  <2>2. \A i \in W : work[i] = billed[i]
    BY <1>3, <1>8, <1>9
  <2>3. SumFunctionOnSet(work, W) = SumFunctionOnSet(billed, W)
    BY <2>2, <1>3, SumSame
  <2> QED BY <2>1, <2>3
<1>25. SumFunctionOnSet(untaxed, D) = IF defers THEN SumFunctionOnSet(holdback, D) ELSE 0
  <2>1. CASE defers
    <3>1. \A i \in D : untaxed[i] = holdback[i]
      BY <2>1, <1>13, <1>14
    <3>2. SumFunctionOnSet(untaxed, D) = SumFunctionOnSet(holdback, D)
      BY <3>1, <1>3, SumSame
    <3> QED BY <3>2, <2>1
  <2>2. CASE ~defers
    <3>1. \A i \in D : untaxed[i] \in Int
      BY <1>17
    <3>2. \A i \in D \ {} : untaxed[i] = 0
      BY <2>2, <1>14
    <3>3. {} \in SUBSET D
      OBVIOUS
    <3>4. SumFunctionOnSet(untaxed, D) = SumFunctionOnSet(untaxed, {})
      BY <3>1, <3>2, <3>3, <1>3, SumOfPart
    <3> QED BY <3>4, <2>2, SumEmpty
  <2> QED BY <2>1, <2>2
<1>26. /\ SumFunctionOnSet(base, D) \in Int /\ SumFunctionOnSet(holdback, D) \in Int
       /\ SumFunctionOnSet(released, D) \in Int /\ SumFunctionOnSet(held, D) \in Int
       /\ SumFunctionOnSet(work, D) \in Int
  <2>1. \A i \in D : base[i] \in Int
    BY <1>17
  <2>2. \A i \in D : holdback[i] \in Int
    BY <1>17
  <2>3. \A i \in D : released[i] \in Int
    BY <1>17
  <2>4. \A i \in D : held[i] \in Int
    BY <1>17
  <2>5. \A i \in D : work[i] \in Int
    BY <1>17
  <2> QED BY <2>1, <2>2, <2>3, <2>4, <2>5, <1>3, SumIsInt
<1>27. /\ Derive(0).billed = SumFunctionOnSet(billed, W)
       /\ Derive(0).held = SumFunctionOnSet(held, D)
       /\ Derive(0).accrued = SumFunctionOnSet(accrued, D)
       /\ Derive(0).released = SumFunctionOnSet(released, D)
       /\ Bases = SumFunctionOnSet(base, D)
  BY <1>1, <1>2, <1>8, <1>10, <1>11, <1>12, <1>15 DEF Derive, Bases, SumFunction
<1> QED
  <2>1. Outstanding(Derive(0)) = SumFunctionOnSet(holdback, D)
    BY <1>21, <1>26, <1>27 DEF Outstanding
  <2> QED BY <2>1, <1>22, <1>23, <1>24, <1>25, <1>26, <1>27

-----------------------------------------------------------------------------
(* The invariant.                                                          *)

\* What a request that is about to write has in hand.
RequestOK(r) ==
  /\ r.op = "priced" =>
       /\ r.priced.record = "active" /\ Sound(r.priced)
       /\ Follows(r.state, r.priced, r.next) /\ Covered(r.state, r.priced)
       /\ Settles(r.state, r.priced, r.rate, r.next)
  /\ r.op = "voidRead" => r.id \in DOMAIN invoices

QuotesTyped == quotes \in Seq(Quote)
LedgerTyped == ledger \subseteq Entry /\ \A e \in ledger : e.invoice \in DOMAIN invoices
SessionTyped == session \in [Sessions -> Request]

InvoicesSound == \A i \in DOMAIN invoices : Sound(invoices[i])
RequestsOK == \A s \in Sessions : RequestOK(session[s])

\* The inductive invariant.
IInv ==
  /\ QuotesTyped /\ InvoicesTyped /\ LedgerTyped /\ deferred \in BOOLEAN /\ SessionTyped
  /\ EntriesOK /\ InvoicesSound /\ RequestsOK

-----------------------------------------------------------------------------
\* The requests.

Ops == {"idle", "company", "contract", "rates", "priced", "voidRead"}

LEMMA RequestShape ==
  \E R : /\ R = 0..FullPercent
         /\ Request = [op : Ops, id : Nat, deferred : BOOLEAN, rate : R, state : State,
                       priced : Invoice, next : State]
BY DEF Request, Ops

LEMMA RequestParts ==
  ASSUME NEW r \in Request
  PROVE  /\ r.op \in Ops /\ r.id \in Nat /\ r.deferred \in BOOLEAN /\ r.rate \in 0..FullPercent
         /\ r.state \in State /\ r.priced \in Invoice /\ r.next \in State
BY DEF Request, Ops

LEMMA IdleTyped == Idle \in Request /\ Idle.op = "idle" /\ RequestOK(Idle)
<1>1. NoState \in State
  BY DEF NoState, State
<1>2. NoInvoice \in Invoice
  BY DEF NoInvoice, Invoice, Kinds
<1>3. 0 \in 0..FullPercent
  BY PercentAssumption
<1>4. Idle \in Request
  BY <1>1, <1>2, <1>3 DEF Idle, Request
<1>5. Idle.op = "idle"
  BY DEF Idle
<1> QED BY <1>4, <1>5 DEF RequestOK

LEMMA CompanyTyped ==
  ASSUME NEW d \in BOOLEAN, NEW r, r = [Idle EXCEPT !.op = "company", !.deferred = d]
  PROVE  r \in Request /\ RequestOK(r)
<1>1. PICK R : Request = [op : Ops, id : Nat, deferred : BOOLEAN, rate : R, state : State,
                          priced : Invoice, next : State]
  BY RequestShape
<1>2. "company" \in Ops
  BY DEF Ops
<1>3. r \in Request /\ r.op = "company"
  BY <1>1, <1>2, IdleTyped
<1> QED BY <1>3 DEF RequestOK

LEMMA VoidTyped ==
  ASSUME InvoicesTyped, NEW i \in DOMAIN invoices, NEW r, r = [Idle EXCEPT !.op = "voidRead", !.id = i]
  PROVE  r \in Request /\ RequestOK(r)
<1>1. PICK R : Request = [op : Ops, id : Nat, deferred : BOOLEAN, rate : R, state : State,
                          priced : Invoice, next : State]
  BY RequestShape
<1>2. "voidRead" \in Ops /\ i \in Nat
  BY DEF Ops, InvoicesTyped
<1>3. r \in Request /\ r.op = "voidRead" /\ r.id = i
  BY <1>1, <1>2, IdleTyped
<1> QED BY <1>3 DEF RequestOK

LEMMA ContractTyped ==
  ASSUME NEW q \in Request, NEW c \in Int, NEW r,
         r = [q EXCEPT !.op = "contract", !.state.contract = c]
  PROVE  r \in Request /\ RequestOK(r)
<1>1. PICK R : Request = [op : Ops, id : Nat, deferred : BOOLEAN, rate : R, state : State,
                          priced : Invoice, next : State]
  BY RequestShape
<1>2. "contract" \in Ops
  BY DEF Ops
<1>3. PICK state : state = [q.state EXCEPT !.contract = c]
  OBVIOUS
<1>4. state \in State
  BY <1>3, RequestParts DEF State
<1>5. r = [q EXCEPT !.op = "contract", !.state = state]
  BY <1>3
<1>6. r \in Request /\ r.op = "contract"
  BY <1>1, <1>2, <1>4, <1>5
<1> QED BY <1>6 DEF RequestOK

LEMMA RatesTyped ==
  ASSUME NEW q \in Request, NEW rate \in 0..FullPercent, NEW r,
         r = [q EXCEPT !.op = "rates", !.rate = rate]
  PROVE  r \in Request /\ RequestOK(r)
<1>1. PICK R : /\ R = 0..FullPercent
               /\ Request = [op : Ops, id : Nat, deferred : BOOLEAN, rate : R, state : State,
                             priced : Invoice, next : State]
  BY RequestShape
<1>2. "rates" \in Ops /\ rate \in R
  BY <1>1 DEF Ops
<1>3. Request = [op : Ops, id : Nat, deferred : BOOLEAN, rate : R, state : State,
                 priced : Invoice, next : State]
  BY <1>1
<1>4. r \in Request /\ r.op = "rates"
  BY <1>2, <1>3
<1> QED BY <1>4 DEF RequestOK

Priced(q, state, v, next) ==
  [q EXCEPT !.op = "priced", !.state = state, !.priced = v, !.next = next]

LEMMA PricedTyped ==
  ASSUME NEW q \in Request, NEW state \in State, NEW v \in Invoice, NEW next \in State,
         NEW r, r = Priced(q, state, v, next)
  PROVE  /\ r \in Request /\ r.op = "priced" /\ r.rate = q.rate
         /\ r.state = state /\ r.priced = v /\ r.next = next
<1>1. PICK R : Request = [op : Ops, id : Nat, deferred : BOOLEAN, rate : R, state : State,
                          priced : Invoice, next : State]
  BY RequestShape
<1>2. "priced" \in Ops
  BY DEF Ops
<1> QED BY <1>1, <1>2 DEF Priced

LEMMA SessionSet ==
  ASSUME NEW s \in Sessions, NEW request \in Request, SessionTyped, Begin(s, request)
  PROVE  SessionTyped' /\ session'[s] = request
         /\ \A t \in Sessions \ {s} : session'[t] = session[t]
BY DEF SessionTyped, Begin

\* A request takes a step that writes nothing.
LEMMA BeginKeeps ==
  ASSUME IInv, NEW s \in Sessions, NEW request \in Request, RequestOK(request),
         Begin(s, request), UNCHANGED <<quotes, invoices, ledger, deferred>>
  PROVE  IInv'
<1>1. /\ SessionTyped' /\ session'[s] = request
      /\ \A t \in Sessions \ {s} : session'[t] = session[t]
  BY SessionSet DEF IInv
<1>2. RequestsOK'
  <2> SUFFICES ASSUME NEW t \in Sessions PROVE RequestOK(session[t])'
    BY DEF RequestsOK
  <2>1. RequestOK(session'[t])
    BY <1>1 DEF IInv, RequestsOK
  <2> QED BY <2>1 DEF RequestOK
<1> QED BY <1>1, <1>2 DEF IInv, QuotesTyped, InvoicesTyped, LedgerTyped, EntriesOK, Active,
                      InvoicesSound

LEMMA ContractIsInt ==
  ASSUME QuotesTyped
  PROVE  ContractSubtotal \in Int
<1>1. Standing \subseteq DOMAIN quotes
  BY DEF Standing
<1>2. Len(quotes) \in Nat /\ DOMAIN quotes = 1..Len(quotes)
        /\ \A q \in DOMAIN quotes : quotes[q] \in Quote
  BY DEF QuotesTyped
<1>3. \A q \in DOMAIN quotes : quotes[q].subtotal \in Int
  BY <1>2 DEF Quote
<1>4. IsFiniteSet(Standing)
  <2>1. IsFiniteSet(1..Len(quotes))
    BY <1>2, FS_Interval
  <2> QED BY <2>1, <1>1, <1>2, FS_Subset
<1>5. PICK f : f = [q \in Standing |-> quotes[q].subtotal]
  OBVIOUS
<1>6. DOMAIN f = Standing /\ \A q \in Standing : f[q] \in Int
  BY <1>1, <1>3, <1>5
<1>7. SumFunction(f) \in Int
  BY <1>4, <1>6, IntegerSum
<1> QED BY <1>5, <1>7 DEF ContractSubtotal

LEMMA IdleKeeps ==
  ASSUME IInv, NEW s \in Sessions, Begin(s, Idle), UNCHANGED <<quotes, invoices, ledger, deferred>>
  PROVE  IInv'
BY IdleTyped, BeginKeeps

-----------------------------------------------------------------------------
\* The reads.

LEMMA CompanyKeeps == ASSUME IInv, NEW s \in Sessions, IssueCompany(s) PROVE IInv'
<1>1. PICK r : r = [Idle EXCEPT !.op = "company", !.deferred = deferred]
  OBVIOUS
<1>2. r \in Request /\ RequestOK(r)
  BY <1>1, CompanyTyped DEF IInv
<1>3. Begin(s, r) /\ UNCHANGED <<quotes, invoices, ledger, deferred>>
  BY <1>1 DEF IssueCompany, Job
<1> QED BY <1>2, <1>3, BeginKeeps

LEMMA ContractKeeps == ASSUME IInv, NEW s \in Sessions, IssueContract(s) PROVE IInv'
<1>1. PICK q : q = session[s]
  OBVIOUS
<1>2. PICK c : c = ContractSubtotal
  OBVIOUS
<1>3. q \in Request /\ c \in Int
  BY <1>1, <1>2, ContractIsInt DEF IInv, SessionTyped
<1>4. PICK r : r = [q EXCEPT !.op = "contract", !.state.contract = c]
  OBVIOUS
<1>5. r \in Request /\ RequestOK(r)
  BY <1>3, <1>4, ContractTyped
<1>6. Begin(s, r) /\ UNCHANGED <<quotes, invoices, ledger, deferred>>
  BY <1>1, <1>2, <1>4 DEF IssueContract, Job
<1> QED BY <1>5, <1>6, BeginKeeps

LEMMA RatesKeep == ASSUME IInv, NEW s \in Sessions, IssueRates(s) PROVE IInv'
<1>1. PICK q : q = session[s]
  OBVIOUS
<1>2. q \in Request
  BY <1>1 DEF IInv, SessionTyped
<1>3. PICK rate \in 0..FullPercent : Begin(s, [q EXCEPT !.op = "rates", !.rate = rate])
  BY <1>1 DEF IssueRates
<1>4. PICK r : r = [q EXCEPT !.op = "rates", !.rate = rate]
  OBVIOUS
<1>5. r \in Request /\ RequestOK(r)
  BY <1>2, <1>4, RatesTyped
<1>6. Begin(s, r) /\ UNCHANGED <<quotes, invoices, ledger, deferred>>
  BY <1>3, <1>4 DEF IssueRates, Job
<1> QED BY <1>5, <1>6, BeginKeeps

LEMMA PriceKeeps == ASSUME IInv, NEW s \in Sessions, IssuePrice(s) PROVE IInv'
<1>1. PICK q : q = session[s]
  OBVIOUS
<1>2. q \in Request
  BY <1>1 DEF IInv, SessionTyped
<1>3. PICK rate : rate = q.rate
  OBVIOUS
<1>4. PICK defers : defers = q.deferred
  OBVIOUS
<1>5. PICK state : state = Derive(q.state.contract)
  OBVIOUS
<1>6. state \in State /\ rate \in 0..FullPercent /\ defers \in BOOLEAN
  <2>1. q.state.contract \in Int
    BY <1>2, RequestParts DEF State
  <2> QED BY <2>1, <1>2, <1>3, <1>4, <1>5, RequestParts, DeriveTyped DEF IInv
<1>7. PICK ask \in Asks(state) :
        LET priced == Compute(state, ask, rate, defers) IN
        Begin(s, [q EXCEPT !.op = "priced", !.state = state, !.priced = priced,
                           !.next = NextState(state, ask, rate, priced)])
  BY <1>1, <1>3, <1>4, <1>5 DEF IssuePrice
<1>8. PICK v : v = Compute(state, ask, rate, defers)
  OBVIOUS
<1>9. PICK next : next = NextState(state, ask, rate, v)
  OBVIOUS
<1>10. /\ v \in Invoice /\ next \in State /\ v.record = "active"
       /\ Sound(v) /\ Follows(state, v, next) /\ Covered(state, v)
       /\ Settles(state, v, rate, next)
  BY <1>6, <1>8, <1>9, PricedRight
<1>11. PICK r : r = Priced(q, state, v, next)
  OBVIOUS
<1>12. /\ r \in Request /\ r.op = "priced" /\ r.rate = rate
       /\ r.state = state /\ r.priced = v /\ r.next = next
  BY <1>2, <1>3, <1>6, <1>10, <1>11, PricedTyped
<1>13. RequestOK(r)
  <2>1. r.op # "voidRead"
    BY <1>12
  <2> QED BY <2>1, <1>10, <1>12 DEF RequestOK
<1>14. Begin(s, r) /\ UNCHANGED <<quotes, invoices, ledger, deferred>>
  BY <1>7, <1>8, <1>9, <1>11 DEF IssuePrice, Job, Priced
<1> QED BY <1>12, <1>13, <1>14, BeginKeeps

LEMMA VoidReadKeeps ==
  ASSUME IInv, NEW s \in Sessions, NEW i \in DOMAIN invoices, VoidRead(s, i) PROVE IInv'
<1>1. PICK r : r = [Idle EXCEPT !.op = "voidRead", !.id = i]
  OBVIOUS
<1>2. r \in Request /\ RequestOK(r)
  BY <1>1, VoidTyped DEF IInv
<1>3. Begin(s, r) /\ UNCHANGED <<quotes, invoices, ledger, deferred>>
  BY <1>1 DEF VoidRead, Job
<1> QED BY <1>2, <1>3, BeginKeeps

-----------------------------------------------------------------------------
\* The writes.

\* A request past its commit is idle, and what the others hold stands as long as no
\* invoice has gone.
LEMMA OthersKeep ==
  ASSUME SessionTyped, RequestsOK, NEW s \in Sessions, Begin(s, Idle),
         DOMAIN invoices \subseteq DOMAIN invoices'
  PROVE  SessionTyped' /\ RequestsOK'
<1>1. /\ SessionTyped' /\ session'[s] = Idle
      /\ \A t \in Sessions \ {s} : session'[t] = session[t]
  BY IdleTyped, SessionSet
<1>2. RequestsOK'
  <2> SUFFICES ASSUME NEW t \in Sessions PROVE RequestOK(session[t])'
    BY DEF RequestsOK
  <2>1. RequestOK(session'[t])
    BY <1>1, IdleTyped DEF RequestsOK
  <2> QED BY <2>1 DEF RequestOK
<1> QED BY <1>1, <1>2

LEMMA EntriesTyped ==
  ASSUME NEW i \in Nat, NEW v \in Invoice, NEW e \in Entries(i, v)
  PROVE  e \in Entry /\ e.invoice = i /\ e.record = "active"
<1>1. PICK kind \in {"accrual", "release"} : Figure(kind, v) # 0 /\ e = EntryOf(kind, i, v)
  BY EntriesAre
<1>2. Figure(kind, v) \in Int \ {0}
  BY <1>1, Figures DEF Figure
<1> QED BY <1>1, <1>2 DEF EntryOf, Entry

LEMMA CommitKeeps == ASSUME IInv, NEW s \in Sessions, IssueCommit(s) PROVE IInv'
<1>1. PICK r : r = session[s]
  OBVIOUS
<1>2. PICK v : v = r.priced
  OBVIOUS
<1>3. r \in Request /\ RequestOK(r) /\ r.op = "priced"
  BY <1>1 DEF IInv, SessionTyped, RequestsOK, IssueCommit
<1>4. v \in Invoice /\ Sound(v) /\ Issues(v)
  BY <1>1, <1>2, <1>3, RequestParts DEF RequestOK, Issues, IssueCommit
<1>5. InvoicesTyped
  BY DEF IInv
<1>6. PICK n : n = Len(invoices')
  OBVIOUS
<1>7. /\ InvoicesTyped' /\ n \notin DOMAIN invoices /\ n \in Nat
      /\ DOMAIN invoices' = DOMAIN invoices \cup {n} /\ invoices'[n] = v
      /\ \A i \in DOMAIN invoices : invoices'[i] = invoices[i]
      /\ Active' = Active \cup {n}
  BY <1>4, <1>5, <1>6, Issued, FiniteActive
<1>8. ledger' = ledger \cup Entries(n, v)
  BY <1>1, <1>2, <1>6 DEF IssueCommit
<1>9. \A e \in Entries(n, v) : e \in Entry /\ e.invoice = n /\ e.record = "active"
  BY <1>4, <1>7, EntriesTyped
<1>10. LedgerTyped'
  BY <1>7, <1>8, <1>9 DEF IInv, LedgerTyped
<1>11. EntriesOK'
  <2>1. {e \in ledger' : e.record = "active"}
          = {e \in ledger : e.record = "active"} \cup Entries(n, v)
    BY <1>8, <1>9
  <2>2. \A i \in Active : invoices'[i] = invoices[i]
    BY <1>7 DEF Active
  <2>3. UNION {Entries(i, invoices'[i]) : i \in Active \cup {n}}
          = (UNION {Entries(i, invoices[i]) : i \in Active}) \cup Entries(n, v)
    BY <2>2, <1>7
  <2>4. EntriesOK
    BY DEF IInv
  <2> QED BY <2>1, <2>3, <2>4, <1>7 DEF EntriesOK
<1>12. InvoicesSound'
  BY <1>4, <1>7 DEF IInv, InvoicesSound
<1>13. SessionTyped' /\ RequestsOK'
  BY <1>7, OthersKeep DEF IInv, IssueCommit
<1> QED BY <1>7, <1>10, <1>11, <1>12, <1>13 DEF IInv, QuotesTyped, IssueCommit

LEMMA VoidKeeps == ASSUME IInv, NEW s \in Sessions, VoidCommit(s) PROVE IInv'
<1>1. PICK i : i = session[s].id
  OBVIOUS
<1>2. Voids(i) /\ InvoicesTyped /\ ledger' = LedgerVoided(i)
  BY <1>1 DEF IInv, RequestsOK, RequestOK, VoidCommit, Voids
<1>3. /\ InvoicesTyped' /\ DOMAIN invoices' = DOMAIN invoices
      /\ \A j \in DOMAIN invoices \ {i} : invoices'[j] = invoices[j]
      /\ Active' = Active \ {i}
      /\ InvoicesSound => InvoicesSound'
  BY <1>2, Voided DEF InvoicesSound
<1>4. ASSUME NEW e \in ledger
      PROVE  /\ [e EXCEPT !.record = "void"] \in Entry
             /\ [e EXCEPT !.record = "void"].invoice = e.invoice
             /\ [e EXCEPT !.record = "void"].record = "void"
  <2>1. e \in Entry
    BY DEF IInv, LedgerTyped
  <2>2. "void" \in {"active", "void"}
    OBVIOUS
  <2> QED BY <2>1, <2>2 DEF Entry
<1>5. LedgerTyped'
  <2> SUFFICES ASSUME NEW e \in ledger' PROVE e \in Entry /\ e.invoice \in DOMAIN invoices'
    BY DEF LedgerTyped
  <2>1. PICK x \in ledger : e = IF x.invoice = i THEN [x EXCEPT !.record = "void"] ELSE x
    BY <1>2 DEF LedgerVoided
  <2>2. x \in Entry /\ x.invoice \in DOMAIN invoices
    BY DEF IInv, LedgerTyped
  <2> QED BY <2>1, <2>2, <1>3, <1>4
<1>6. {e \in ledger' : e.record = "active"} = {e \in ledger : e.record = "active" /\ e.invoice # i}
  <2>1. ASSUME NEW e \in ledger', e.record = "active" PROVE e \in ledger /\ e.invoice # i
    <3>1. PICK x \in ledger : e = IF x.invoice = i THEN [x EXCEPT !.record = "void"] ELSE x
      BY <1>2 DEF LedgerVoided
    <3>2. x.invoice # i
      <4> SUFFICES ASSUME x.invoice = i PROVE FALSE
        OBVIOUS
      <4>1. e.record = "void"
        BY <3>1, <1>4
      <4> QED BY <4>1, <2>1
    <3> QED BY <3>1, <3>2
  <2>2. ASSUME NEW e \in ledger, e.invoice # i PROVE e \in ledger'
    BY <2>2, <1>2 DEF LedgerVoided
  <2> QED BY <2>1, <2>2
<1>7. EntriesOK'
  <2>1. {e \in ledger : e.record = "active"} = UNION {Entries(j, invoices[j]) : j \in Active}
    BY DEF IInv, EntriesOK
  <2>2. \A j \in Active : \A e \in Entries(j, invoices[j]) : e.invoice = j
    <3> SUFFICES ASSUME NEW j \in Active, NEW e \in Entries(j, invoices[j]) PROVE e.invoice = j
      OBVIOUS
    <3>1. PICK kind \in {"accrual", "release"} : e = EntryOf(kind, j, invoices[j])
      BY EntriesAre
    <3> QED BY <3>1 DEF EntryOf
  <2>3. \A j \in Active \ {i} : invoices'[j] = invoices[j]
    BY <1>3 DEF Active
  <2>4. \A e : e \in UNION {Entries(j, invoices[j]) : j \in Active} /\ e.invoice # i
                 <=> e \in UNION {Entries(j, invoices'[j]) : j \in Active \ {i}}
    BY <2>2, <2>3
  <2> QED BY <2>1, <2>4, <1>3, <1>6 DEF EntriesOK
<1>8. SessionTyped' /\ RequestsOK'
  BY <1>3, OthersKeep DEF IInv, VoidCommit
<1> QED BY <1>3, <1>5, <1>7, <1>8 DEF IInv, QuotesTyped, VoidCommit

\* The quotes and the setting: nothing of an invoice or a request.
LEMMA OutsideKeeps ==
  ASSUME IInv, QuotesTyped', deferred' \in BOOLEAN, UNCHANGED <<invoices, ledger, session>>
  PROVE  IInv'
<1>1. RequestsOK'
  BY DEF IInv, RequestsOK, RequestOK
<1> QED BY <1>1 DEF IInv, InvoicesTyped, LedgerTyped, SessionTyped, EntriesOK, Active, InvoicesSound

LEMMA AcceptKeeps ==
  ASSUME IInv, NEW subtotal \in Subtotals, NEW holdback \in HoldbackRates,
         AcceptQuote(subtotal, holdback)
  PROVE  IInv'
<1>1. [subtotal |-> subtotal, holdback |-> holdback, standing |-> TRUE] \in Quote
  BY CentsAssumption DEF Quote
<1>2. QuotesTyped'
  BY <1>1 DEF IInv, QuotesTyped, AcceptQuote
<1> QED BY <1>2, OutsideKeeps DEF AcceptQuote, IInv

LEMMA VoidQuoteKeeps == ASSUME IInv, NEW q, VoidQuote(q) PROVE IInv'
<1>1. q \in DOMAIN quotes
  BY DEF VoidQuote, Standing
<1>2. PICK row : row = [quotes[q] EXCEPT !.standing = FALSE]
  OBVIOUS
<1>3. quotes[q] \in Quote
  BY <1>1 DEF IInv, QuotesTyped
<1>4. row \in Quote
  BY <1>2, <1>3 DEF Quote
<1>5. quotes' = [quotes EXCEPT ![q] = row]
  BY <1>2 DEF VoidQuote
<1>6. QuotesTyped'
  BY <1>1, <1>4, <1>5 DEF IInv, QuotesTyped
<1> QED BY <1>6, OutsideKeeps DEF VoidQuote, IInv

LEMMA SettingKeeps == ASSUME IInv, SetTaxDeferral PROVE IInv'
BY SettingAssumption, OutsideKeeps DEF SetTaxDeferral, IInv, QuotesTyped

-----------------------------------------------------------------------------
LEMMA InitOK == Init => IInv
<1> SUFFICES ASSUME Init PROVE IInv
  OBVIOUS
<1>1. invoices = <<>> /\ quotes = <<>> /\ ledger = {} /\ deferred \in BOOLEAN
        /\ session = [s \in Sessions |-> Idle]
  BY SettingAssumption DEF Init
<1>2. DOMAIN invoices = {} /\ Active = {}
  BY <1>1 DEF Active
<1>3. QuotesTyped /\ InvoicesTyped /\ LedgerTyped /\ EntriesOK /\ InvoicesSound
  BY <1>1, <1>2 DEF QuotesTyped, InvoicesTyped, LedgerTyped, EntriesOK, InvoicesSound
<1>4. SessionTyped /\ RequestsOK
  BY <1>1, IdleTyped DEF SessionTyped, RequestsOK
<1> QED BY <1>1, <1>3, <1>4 DEF IInv

LEMMA NextKeeps == IInv /\ [Next]_vars => IInv'
<1> SUFFICES ASSUME IInv, [Next]_vars PROVE IInv'
  OBVIOUS
<1>1. ASSUME NEW subtotal \in Subtotals, NEW holdback \in HoldbackRates,
             AcceptQuote(subtotal, holdback)
      PROVE  IInv'
  BY <1>1, AcceptKeeps
<1>2. ASSUME NEW q \in DOMAIN quotes, VoidQuote(q) PROVE IInv'
  BY <1>2, VoidQuoteKeeps
<1>3. CASE SetTaxDeferral
  BY <1>3, SettingKeeps
<1>4. ASSUME NEW s \in Sessions, IssueCompany(s) PROVE IInv'
  BY <1>4, CompanyKeeps
<1>5. ASSUME NEW s \in Sessions, IssueContract(s) PROVE IInv'
  BY <1>5, ContractKeeps
<1>6. ASSUME NEW s \in Sessions, IssueRates(s) PROVE IInv'
  BY <1>6, RatesKeep
<1>7. ASSUME NEW s \in Sessions, IssuePrice(s) PROVE IInv'
  BY <1>7, PriceKeeps
<1>8. ASSUME NEW s \in Sessions, IssueCommit(s) PROVE IInv'
  BY <1>8, CommitKeeps
<1>9. ASSUME NEW s \in Sessions, VoidCommit(s) PROVE IInv'
  BY <1>9, VoidKeeps
<1>10. ASSUME NEW s \in Sessions, Rollback(s) PROVE IInv'
  <2>1. Begin(s, Idle) /\ UNCHANGED <<quotes, invoices, ledger, deferred>>
    BY <1>10 DEF Rollback, Job
  <2> QED BY <2>1, IdleKeeps
<1>11. ASSUME NEW s \in Sessions, NEW i \in DOMAIN invoices, VoidRead(s, i) PROVE IInv'
  BY <1>11, VoidReadKeeps
<1>12. CASE UNCHANGED vars
  <2>1. UNCHANGED <<quotes, invoices, ledger, deferred, session>>
    BY <1>12 DEF vars
  <2> QED BY <2>1, OutsideKeeps DEF IInv, QuotesTyped
<1> QED BY <1>1, <1>2, <1>3, <1>4, <1>5, <1>6, <1>7, <1>8, <1>9, <1>10, <1>11, <1>12 DEF Next

LEMMA Inductive == Spec => []IInv
BY InitOK, NextKeeps, PTL DEF Spec

-----------------------------------------------------------------------------
\* Types hold, for any table: every entry of the ledger moves money and names an
\* invoice there is.
THEOREM BillingTypeCorrect == Spec => []TypeOK
<1>1. IInv => TypeOK
  BY DEF IInv, QuotesTyped, InvoicesTyped, LedgerTyped, SessionTyped, TypeOK
<1> QED BY <1>1, Inductive, PTL

\* However requests to issue and to void overlap, the holdback ledger sums to what
\* the invoices derive.
THEOREM LedgerAlwaysAgrees == Spec => []LedgerAgreesWithInvoices
<1>1. IInv => LedgerAgreesWithInvoices
  BY LedgerFromEntries DEF IInv
<1> QED BY <1>1, Inductive, PTL

\* Under one tax setting every dollar of the job is taxed once, for any history.
THEOREM TaxedOnceAlways == Spec => []EveryDollarIsTaxedOnce
<1>1. IInv => EveryDollarIsTaxedOnce
  BY TaxedOnce DEF IInv, InvoicesSound
<1> QED BY <1>1, Inductive, PTL

\* What a commit that nothing overtook does to the figures.
LEMMA FreshCommit ==
  ASSUME IInv, NEW s \in Sessions, IssueCommit(s), Fresh(s)
  PROVE  /\ Derive(ContractSubtotal)' = session[s].next
         /\ ContractSubtotal' = ContractSubtotal
         /\ session[s].state.contract = ContractSubtotal
         /\ session[s].state = Derive(ContractSubtotal)
<1>1. PICK r : r = session[s]
  OBVIOUS
<1>2. PICK v : v = r.priced
  OBVIOUS
<1>3. r \in Request /\ RequestOK(r) /\ r.op = "priced"
  BY <1>1 DEF IInv, SessionTyped, RequestsOK, IssueCommit
<1>4. v \in Invoice /\ Issues(v) /\ Follows(r.state, v, r.next) /\ r.next \in State
  BY <1>1, <1>2, <1>3, RequestParts DEF RequestOK, Issues, IssueCommit
<1>5. PICK c : c = ContractSubtotal
  OBVIOUS
<1>6. InvoicesTyped /\ c \in Int
  BY <1>5, ContractIsInt DEF IInv
<1>7. ContractSubtotal' = c
  <2>1. quotes' = quotes
    BY DEF IssueCommit
  <2> QED BY <2>1, <1>5 DEF ContractSubtotal, Standing
<1>8. r.state = Derive(c)
  BY <1>1, <1>5 DEF Fresh
<1>9. /\ Derive(c)'.contract = c
      /\ Derive(c)'.billed = Derive(c).billed
           + (IF v.kind \in CONTRACT_BILLING_KINDS THEN v.subtotal ELSE 0)
      /\ Derive(c)'.accrued = Derive(c).accrued + Accrued(v)
      /\ Derive(c)'.released = Derive(c).released + v.released
      /\ Derive(c)'.held = Derive(c).held + Advanced(v)
  BY <1>4, <1>6, IssuedMoves
<1>10. Derive(c).contract = c
  BY DEF Derive
<1>11. Derive(c)' = [contract |-> Derive(c)'.contract, billed |-> Derive(c)'.billed,
                     accrued |-> Derive(c)'.accrued, released |-> Derive(c)'.released,
                     held |-> Derive(c)'.held]
  BY DEF Derive
<1>12. r.next = [contract |-> r.next.contract, billed |-> r.next.billed,
                 accrued |-> r.next.accrued, released |-> r.next.released, held |-> r.next.held]
  BY <1>4 DEF State
<1>13. Derive(c)' = r.next
  BY <1>4, <1>8, <1>9, <1>10, <1>11, <1>12 DEF Follows
<1>14. Derive(ContractSubtotal)' = Derive(c)'
  BY <1>7 DEF Derive
<1> QED BY <1>1, <1>5, <1>7, <1>8, <1>10, <1>13, <1>14

\* The rows come to what the engine promised, whatever was issued and voided before.
THEOREM RowsAlwaysFollow == Spec => RowsFollowTheEngine
<1>1. IInv /\ [Next]_vars => [\A s \in Sessions : IssueCommit(s) /\ Fresh(s) =>
                                Derive(ContractSubtotal)' = session[s].next]_vars
  BY FreshCommit
<1> QED BY <1>1, Inductive, PTL DEF Spec, RowsFollowTheEngine

LEMMA SpentOnce ==
  ASSUME IInv, NEW s \in Sessions, IssueCommit(s), Fresh(s), session[s].priced.applied > 0
  PROVE  (Derive(0).held >= 0)' /\ session[s].priced.base >= 0
<1>1. PICK r : r = session[s]
  OBVIOUS
<1>2. PICK v : v = r.priced
  OBVIOUS
<1>3. r \in Request /\ RequestOK(r) /\ r.op = "priced"
  BY <1>1 DEF IInv, SessionTyped, RequestsOK, IssueCommit
<1>4. v \in Invoice /\ Covered(r.state, v) /\ Follows(r.state, v, r.next) /\ r.state \in State
  BY <1>2, <1>3, RequestParts DEF RequestOK
<1>5. v.applied > 0 /\ v.applied \in Int /\ r.state.held \in Int
  BY <1>1, <1>2, <1>4, Figures DEF State
<1>6. v.kind # "deposit" /\ v.applied <= r.state.held /\ v.base >= 0
  BY <1>4, <1>5 DEF Covered
<1>7. r.next.held >= 0
  <2>1. r.next.held = r.state.held + (0 - v.applied)
    BY <1>4, <1>6 DEF Follows, Advanced
  <2> QED BY <2>1, <1>5, <1>6
<1>8. Derive(ContractSubtotal)' = r.next
  BY <1>1, FreshCommit
<1>9. Derive(ContractSubtotal)'.held = Derive(0)'.held
  BY DEF Derive
<1> QED BY <1>1, <1>2, <1>6, <1>7, <1>8, <1>9

\* A drawdown nothing overtook spends what is held, and refunds nothing.
THEOREM DepositAlwaysSpentOnce == Spec => DepositIsSpentOnce
<1>1. IInv /\ [Next]_vars =>
        [\A s \in Sessions :
           IssueCommit(s) /\ Fresh(s) /\ session[s].priced.applied > 0 =>
             (Derive(0).held >= 0)' /\ session[s].priced.base >= 0]_vars
  BY SpentOnce
<1> QED BY <1>1, Inductive, PTL DEF Spec, DepositIsSpentOnce

LEMMA FinalSettles ==
  ASSUME IInv, NEW s \in Sessions, IssueCommit(s), Fresh(s), session[s].priced.kind = "final"
  PROVE  /\ Derive(ContractSubtotal)'.billed = ContractSubtotal
         /\ Derive(ContractSubtotal)'.accrued = ApplyPercent(ContractSubtotal, session[s].rate)
<1>1. PICK r : r = session[s]
  OBVIOUS
<1>2. RequestOK(r) /\ r.op = "priced" /\ r.priced.kind = "final"
  BY <1>1 DEF IInv, RequestsOK, IssueCommit
<1>3. r.next.billed = r.state.contract /\ r.next.accrued = ApplyPercent(r.state.contract, r.rate)
  BY <1>2 DEF RequestOK, Settles
<1>4. Derive(ContractSubtotal)' = r.next /\ r.state.contract = ContractSubtotal
  BY <1>1, FreshCommit
<1> QED BY <1>1, <1>3, <1>4

\* A final invoice nothing overtook settles the contract and the holdback to the cent.
THEOREM FinalAlwaysSettles == Spec => FinalSettlesTheContract
<1>1. IInv /\ [Next]_vars =>
        [\A s \in Sessions :
           IssueCommit(s) /\ Fresh(s) /\ session[s].priced.kind = "final" =>
             LET after == Derive(ContractSubtotal)' IN
             /\ after.billed = ContractSubtotal
             /\ after.accrued = ApplyPercent(ContractSubtotal, session[s].rate)]_vars
  BY FinalSettles
<1> QED BY <1>1, Inductive, PTL DEF Spec, FinalSettlesTheContract
=============================================================================
