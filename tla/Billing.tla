------------------------------ MODULE Billing ------------------------------
(***************************************************************************)
(* Billing one job: the accepted quotes are its contract, the invoices are *)
(* all there is to say what it has billed, and lib/invoice prices the next *)
(* invoice from the two.  Every request is one transaction at READ         *)
(* COMMITTED that takes no lock before it has priced: each of its reads is *)
(* of what was committed at that moment.                                   *)
(*                                                                         *)
(* Amounts are whole cents and rounded as the code rounds them; 100 % is   *)
(* FullPercent.  Tax rates, numbers, dates, lines and payments are left    *)
(* out: of the tax, only the base it is charged on matters here.           *)
(***************************************************************************)
EXTENDS Integers, Sequences, FiniteSets, Functions

CONSTANTS Sessions,      \* the requests that may be in flight at once
          Subtotals,     \* what a quote may be accepted for, before tax
          HoldbackRates, \* the withholding a quote carries: {} or one rate
          FullPercent,   \* 10000 in the code
          Percents,      \* the completion somebody types
          Cents,         \* the amounts somebody asks for
          TaxSettings,   \* what the owner sets tax deferral to, of TRUE and FALSE
          MaxQuotes,     \* bound on the accepted quotes
          MaxInvoices    \* bound on the invoices

ASSUME PercentAssumption ==
  /\ FullPercent \in Nat \ {0} /\ Percents \subseteq 0..FullPercent
  /\ \A rates \in HoldbackRates : rates \subseteq 0..FullPercent /\ Cardinality(rates) <= 1
ASSUME SettingAssumption == TaxSettings \subseteq BOOLEAN
ASSUME CentsAssumption == Subtotals \subseteq Int /\ Cents \subseteq Int
ASSUME BillingBounds == MaxQuotes \in Nat /\ MaxInvoices \in Nat

VARIABLES quotes,    \* the accepted quotes, in the order they were accepted
          invoices,  \* customer_invoices, a sequence: a row's id is its index
          ledger,    \* holdback_ledger
          deferred,  \* the company's tax_deferred_on_holdback
          session    \* what each request has read and priced

vars == <<quotes, invoices, ledger, deferred, session>>

Kinds == {"deposit", "progress", "final", "holdback_release", "change_order"}
CONTRACT_BILLING_KINDS == {"progress", "final", "change_order"}

Quote == [subtotal : Int, holdback : HoldbackRates, standing : BOOLEAN]

Invoice == [kind : Kinds, subtotal : Int, holdback : Int, released : Int,
            applied : Int, base : Int, deferred : BOOLEAN, record : {"active", "void"}]

Entry == [invoice : Nat, entryKind : {"accrual", "release"}, cents : Int \ {0},
          record : {"active", "void"}]

State == [contract : Int, billed : Int, accrued : Int, released : Int, held : Int]

NoState == [contract |-> 0, billed |-> 0, accrued |-> 0, released |-> 0, held |-> 0]

\* The place of an invoice nobody has priced.
NoInvoice == [kind |-> "progress", subtotal |-> 0, holdback |-> 0, released |-> 0,
              applied |-> 0, base |-> 0, deferred |-> FALSE, record |-> "active"]

\* id: the invoice to void; deferred, rate, state: what the request has read;
\* priced, next: what it is about to insert and the state it says follows.
Idle == [op |-> "idle", id |-> 0, deferred |-> FALSE, rate |-> 0, state |-> NoState,
         priced |-> NoInvoice, next |-> NoState]

Request == [op : {"idle", "company", "contract", "rates", "priced", "voidRead"},
            id : Nat, deferred : BOOLEAN, rate : 0..FullPercent, state : State,
            priced : Invoice, next : State]

-----------------------------------------------------------------------------
\* Reading the job.

Standing == {q \in DOMAIN quotes : quotes[q].standing}
Active == {i \in DOMAIN invoices : invoices[i].record = "active"}

ContractSubtotal == SumFunction([q \in Standing |-> quotes[q].subtotal])
AgreedRates == UNION {quotes[q].holdback : q \in Standing}

\* The ledger tells accrual and release apart.
Accrued(invoice) == invoice.holdback + invoice.released

\* What an invoice adds to the advances held, and what it spends of them.
Advanced(invoice) ==
  (IF invoice.kind = "deposit" THEN invoice.subtotal ELSE 0) - invoice.applied

Work == {i \in Active : invoices[i].kind \in CONTRACT_BILLING_KINDS}

\* Mutant: an advance counts as work billed.
DeriveWithDeposits(contract) ==
  [contract |-> contract,
   billed   |-> SumFunction([i \in Active |-> invoices[i].subtotal]),
   accrued  |-> SumFunction([i \in Active |-> Accrued(invoices[i])]),
   released |-> SumFunction([i \in Active |-> invoices[i].released]),
   held     |-> SumFunction([i \in Active |-> Advanced(invoices[i])])]

\* deriveBillingState: sums over the active rows, and never a stored balance.
Derive(contract) ==
  [contract |-> contract,
   billed   |-> SumFunction([i \in Work |-> invoices[i].subtotal]),
   accrued  |-> SumFunction([i \in Active |-> Accrued(invoices[i])]),
   released |-> SumFunction([i \in Active |-> invoices[i].released]),
   held     |-> SumFunction([i \in Active |-> Advanced(invoices[i])])]

-----------------------------------------------------------------------------
\* computeInvoice.

\* A percentage of an amount, rounded once, halves away from zero.
ApplyPercent(base, percent) ==
  LET half(n) == (2 * n + FullPercent) \div (2 * FullPercent) IN
  IF base < 0 THEN -half(-base * percent) ELSE half(base * percent)

Outstanding(state) == state.accrued - state.released

\* What may be asked, by kind; a release asks for the whole balance by default.
Asks(state) ==
  [kind : {"progress"}, percent : Percents, amount : {0}, apply : Cents \cup {0}]
  \cup [kind : {"final"}, percent : {FullPercent}, amount : {0}, apply : Cents \cup {0}]
  \cup [kind : {"change_order"}, percent : {0}, amount : Cents, apply : Cents \cup {0}]
  \cup [kind : {"deposit"}, percent : {0}, amount : Cents, apply : {0}]
  \cup [kind : {"holdback_release"}, percent : {0},
        amount : Cents \cup {Outstanding(state)}, apply : Cents \cup {0}]

\* Mutant: each draw bills its own share, as if nothing had been billed.
SubtotalOfShare(state, ask) ==
  CASE ask.kind \in {"progress", "final"} -> ApplyPercent(state.contract, ask.percent)
    [] ask.kind \in {"deposit", "change_order"} -> ask.amount
    [] ask.kind = "holdback_release" -> 0

\* billedFigures: a draw is the difference of two cumulative figures.
Subtotal(state, ask) ==
  CASE ask.kind \in {"progress", "final"} ->
         ApplyPercent(state.contract, ask.percent) - state.billed
    [] ask.kind \in {"deposit", "change_order"} -> ask.amount
    [] ask.kind = "holdback_release" -> 0

BilledToDate(state, ask) ==
  state.billed + (IF ask.kind \in CONTRACT_BILLING_KINDS THEN Subtotal(state, ask) ELSE 0)

\* holdbackDeltaCents, signed: the move in the accrued balance.
Accrual(state, ask, rate) == ApplyPercent(BilledToDate(state, ask), rate) - state.accrued

Release(ask) == IF ask.kind = "holdback_release" THEN ask.amount ELSE 0

Smallest(S) == CHOOSE m \in S : \A k \in S : m <= k

\* What the invoice bills now, before tax and before any deposit.
BillableNow(subtotal, holdback, defers) == IF defers THEN subtotal - holdback ELSE subtotal

\* Mutant: the draw may absorb more than it bills.
DrawdownOfHeld(state, ask, billable) ==
  LET most == Smallest({ask.apply, state.held}) IN IF most < 0 THEN 0 ELSE most

\* resolveDrawdown: what is asked for, what is held, what is billed, and not below 0.
Drawdown(state, ask, billable) ==
  LET most == Smallest({ask.apply, state.held, billable}) IN IF most < 0 THEN 0 ELSE most

\* Mutant: the deposit is taxed again when it is drawn down.
TaxableBaseGross(subtotal, holdback, applied, defers) == BillableNow(subtotal, holdback, defers)

\* invoiceTaxableBaseCents: the drawdown comes off, for the deposit was taxed.
TaxableBase(subtotal, holdback, applied, defers) ==
  BillableNow(subtotal, holdback, defers) - applied

Compute(state, ask, rate, defers) ==
  LET subtotal == Subtotal(state, ask)
      released == Release(ask)
      holdback == Accrual(state, ask, rate) - released
      applied == Drawdown(state, ask, BillableNow(subtotal, holdback, defers))
  IN [kind |-> ask.kind, subtotal |-> subtotal, holdback |-> holdback,
      released |-> released, applied |-> applied,
      base |-> TaxableBase(subtotal, holdback, applied, defers),
      deferred |-> defers, record |-> "active"]

\* The state the engine says follows.
NextState(state, ask, rate, priced) ==
  [contract |-> state.contract,
   billed |-> BilledToDate(state, ask),
   accrued |-> state.accrued + Accrual(state, ask, rate),
   released |-> state.released + priced.released,
   held |-> state.held - priced.applied
              + (IF ask.kind = "deposit" THEN priced.subtotal ELSE 0)]

\* Every throw of computeInvoice and priceInvoice once the reads are done.
Refused(state, ask) ==
  \/ ask.apply < 0
  \/ ask.kind = "deposit" /\ ask.amount < 0
  \/ ask.kind = "holdback_release" /\ ask.amount \notin 0..Outstanding(state)
  \/ BilledToDate(state, ask) > state.contract

\* Mutant: a draw that withholds nothing writes an accrual of nothing.
EntriesAll(id, invoice) ==
  {[invoice |-> id, entryKind |-> "accrual", cents |-> Accrued(invoice), record |-> "active"],
   [invoice |-> id, entryKind |-> "release", cents |-> invoice.released, record |-> "active"]}

\* writeHoldbackEntries: at most one accrual and one release.
Entries(id, invoice) == {e \in EntriesAll(id, invoice) : e.cents # 0}

-----------------------------------------------------------------------------
Init ==
  /\ quotes = <<>> /\ invoices = <<>> /\ ledger = {}
  /\ deferred \in TaxSettings
  /\ session = [s \in Sessions |-> Idle]

Begin(s, request) == session' = [session EXCEPT ![s] = request]

Job == <<quotes, invoices, ledger>>

\* An estimate or a change order is accepted, and its subtotal joins the contract;
\* only a change order takes work out of one.
AcceptQuote(subtotal, holdback) ==
  /\ Len(quotes) < MaxQuotes
  /\ subtotal < 0 => Standing # {}
  /\ quotes' = Append(quotes, [subtotal |-> subtotal, holdback |-> holdback, standing |-> TRUE])
  /\ UNCHANGED <<invoices, ledger, deferred, session>>

\* An accepted quote is voided, and the contract shrinks behind what it billed.
\* One with change orders is refused, but a change order raised meanwhile outlives it.
VoidQuote(q) ==
  /\ q \in Standing
  /\ quotes' = [quotes EXCEPT ![q].standing = FALSE]
  /\ UNCHANGED <<invoices, ledger, deferred, session>>

\* The company's setting is changed on the financial page.
SetTaxDeferral ==
  /\ deferred' \in TaxSettings \ {deferred}
  /\ UNCHANGED <<quotes, invoices, ledger, session>>

\* issueInvoice: companyOf, then contractSubtotalCents, then the rates.
IssueCompany(s) ==
  /\ session[s].op = "idle"
  /\ Begin(s, [Idle EXCEPT !.op = "company", !.deferred = deferred])
  /\ UNCHANGED <<Job, deferred>>

IssueContract(s) ==
  /\ session[s].op = "company"
  /\ Begin(s, [session[s] EXCEPT !.op = "contract",
                    !.state.contract = ContractSubtotal])
  /\ UNCHANGED <<Job, deferred>>

IssueRates(s) ==
  /\ session[s].op = "contract"
  /\ Standing # {} /\ Cardinality(AgreedRates) <= 1
  /\ \E rate \in 0..FullPercent :
       /\ AgreedRates \subseteq {rate} /\ (AgreedRates = {} => rate = 0)
       /\ Begin(s, [session[s] EXCEPT !.op = "rates", !.rate = rate])
  /\ UNCHANGED <<Job, deferred>>

\* The bound: every invoice priced has its place kept.
Room == Len(invoices) + Cardinality({t \in Sessions : session[t].op = "priced"}) < MaxInvoices

\* deriveBillingState and computeInvoice.
IssuePrice(s) ==
  /\ session[s].op = "rates"
  /\ Room
  /\ LET state == Derive(session[s].state.contract)
         rate == session[s].rate IN
       \E ask \in Asks(state) :
         LET priced == Compute(state, ask, rate, session[s].deferred) IN
         /\ ~Refused(state, ask)
         /\ Begin(s, [session[s] EXCEPT !.op = "priced", !.state = state,
                        !.priced = priced, !.next = NextState(state, ask, rate, priced)])
  /\ UNCHANGED <<Job, deferred>>

\* The number, the row and its ledger entries, in one commit.
IssueCommit(s) ==
  /\ session[s].op = "priced"
  /\ invoices' = Append(invoices, session[s].priced)
  /\ ledger' = ledger \cup Entries(Len(invoices'), session[s].priced)
  /\ Begin(s, Idle)
  /\ UNCHANGED <<quotes, deferred>>

\* voidInvoice: the row is read active; its writes and those on its children show
\* together, unless the contract read back is one nobody can bill.
VoidRead(s, i) ==
  /\ session[s].op = "idle"
  /\ i \in Active
  /\ Begin(s, [Idle EXCEPT !.op = "voidRead", !.id = i])
  /\ UNCHANGED <<Job, deferred>>

\* Mutant: the ledger is left as it was.
LedgerKept(id) == ledger

LedgerVoided(id) == {IF e.invoice = id THEN [e EXCEPT !.record = "void"] ELSE e : e \in ledger}

VoidCommit(s) ==
  /\ session[s].op = "voidRead"
  /\ Cardinality(AgreedRates) <= 1
  /\ invoices' = [invoices EXCEPT ![session[s].id].record = "void"]
  /\ ledger' = LedgerVoided(session[s].id)
  /\ Begin(s, Idle)
  /\ UNCHANGED <<quotes, deferred>>

\* Refused, or the transaction is lost.
Rollback(s) ==
  /\ session[s].op # "idle"
  /\ Begin(s, Idle)
  /\ UNCHANGED <<Job, deferred>>

Next ==
  \/ \E subtotal \in Subtotals, holdback \in HoldbackRates : AcceptQuote(subtotal, holdback)
  \/ \E q \in DOMAIN quotes : VoidQuote(q)
  \/ SetTaxDeferral
  \/ \E s \in Sessions :
       \/ IssueCompany(s) \/ IssueContract(s) \/ IssueRates(s)
       \/ IssuePrice(s) \/ IssueCommit(s)
       \/ VoidCommit(s) \/ Rollback(s)
       \/ \E i \in DOMAIN invoices : VoidRead(s, i)

Spec == Init /\ [][Next]_vars

-----------------------------------------------------------------------------
(* Properties.                                                             *)

\* Types: an entry of the ledger moves money and names an invoice there is.
TypeOK ==
  /\ quotes \in Seq(Quote)
  /\ invoices \in Seq(Invoice)
  /\ ledger \subseteq Entry
  /\ \A e \in ledger : e.invoice \in DOMAIN invoices
  /\ deferred \in BOOLEAN
  /\ session \in [Sessions -> Request]

LedgerSum(kind) ==
  SumFunction([e \in {x \in ledger : x.entryKind = kind /\ x.record = "active"} |-> e.cents])

\* The holdback ledger and the invoices are two records of one balance: after any
\* mix of draws, releases and voids, finished or refused, the ledger sums to what
\* the invoices derive (writeHoldbackEntries, voidInvoice).
LedgerAgreesWithInvoices ==
  LET state == Derive(0) IN
  LedgerSum("accrual") = state.accrued /\ LedgerSum("release") = state.released

Bases == SumFunction([i \in Active |-> invoices[i].base])

\* As long as the active invoices were all issued under one tax setting, every
\* dollar is taxed once: the bases sum to the work billed and the advances held,
\* less the holdback still deferred (invoiceTaxableBaseCents).
EveryDollarIsTaxedOnce ==
  LET state == Derive(0) IN
  \A defers \in BOOLEAN :
    (\A i \in Active : invoices[i].deferred = defers) =>
      Bases = state.billed + state.held - (IF defers THEN Outstanding(state) ELSE 0)

\* What was read when the invoice was priced is what the tables still say.
Fresh(s) == session[s].state = Derive(ContractSubtotal)

\* An invoice that nothing overtook takes the job to the state the engine
\* promised: the sums over the rows and the pure arithmetic agree on all four
\* figures, for every kind and after any history of voids (deriveBillingState,
\* computeInvoice's nextState).
RowsFollowTheEngine ==
  [][\A s \in Sessions : IssueCommit(s) /\ Fresh(s) =>
       Derive(ContractSubtotal)' = session[s].next]_vars

\* A deposit is spent once and never makes a refund: a drawdown that nothing
\* overtook leaves the advances of the job at zero or more and taxes no negative
\* base, after any history of draws and voids (resolveDrawdown's two ceilings).
DepositIsSpentOnce ==
  [][\A s \in Sessions :
       IssueCommit(s) /\ Fresh(s) /\ session[s].priced.applied > 0 =>
         (Derive(0).held >= 0)' /\ session[s].priced.base >= 0]_vars

\* A final invoice that nothing overtook brings the job to its contract to the
\* cent, and the holdback to its percentage of it, whatever was rounded in the
\* draws before it and whatever was voided (earnedToDateCents).
FinalSettlesTheContract ==
  [][\A s \in Sessions :
       IssueCommit(s) /\ Fresh(s) /\ session[s].priced.kind = "final" =>
         LET after == Derive(ContractSubtotal)' IN
         /\ after.billed = ContractSubtotal
         /\ after.accrued = ApplyPercent(ContractSubtotal, session[s].rate)]_vars

-----------------------------------------------------------------------------
(* What the repository says and its transactions do not keep.              *)

\* "The percentage path cannot break it once the bound above holds, but voiding
\* an accepted quote can": while every quote accepted stands and adds to the
\* contract, the job never bills more than the contract.
DrawsStayWithinContract ==
  (\A q \in DOMAIN quotes : quotes[q].standing /\ quotes[q].subtotal >= 0) =>
    Derive(ContractSubtotal).billed <= ContractSubtotal

\* The setting is snapshotted, "and the release invoice would tax a holdback whose
\* progress invoices had already taxed it" without it: no dollar is taxed twice.
NothingTaxedTwice == LET state == Derive(0) IN Bases <= state.billed + state.held
=============================================================================
