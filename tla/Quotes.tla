------------------------------- MODULE Quotes -------------------------------
(***************************************************************************)
(* The life of one project's quotes: estimates, their versions and their   *)
(* change orders, as the server actions and lib/quote write them and as    *)
(* PostgreSQL lets them interleave.                                        *)
(*                                                                         *)
(* A session is one request of one signed-in person.  Every transaction    *)
(* runs at READ COMMITTED, so it is a sequence of reads, each of the state *)
(* committed at that moment, followed by writes that become visible        *)
(* together when it commits.  A page rendered earlier offers what it       *)
(* offered then, however stale it has become.                              *)
(*                                                                         *)
(* Lines, totals and dates are abstracted: acceptance only chooses whether *)
(* the customer took the whole document or a subset of it.  One company    *)
(* and one year, so one counter per document kind.                         *)
(***************************************************************************)
EXTENDS Naturals, Sequences, FiniteSets

CONSTANTS Sessions,      \* the requests that may be in flight at once
          NoSession,     \* nobody holds a counter row
          MaxQuotes,     \* bound on the rows of the quotes table
          MaxNumber,     \* bound on the numbers other projects take
          StageTargets   \* the stages somebody sets by hand

ASSUME SessionsAssumption == NoSession \notin Sessions
ASSUME BoundsAssumption == MaxQuotes \in Nat /\ MaxNumber \in Nat

\* "lead" stands for the four pre-sale stages, "in_progress" also for complete.
Stages == {"lead", "lost", "on_hold", "won", "in_progress"}
OPPORTUNITY_STAGES == {"lead", "lost", "on_hold"}
JOB_STAGES == {"in_progress", "on_hold"}
ADVANCES_TO_WON == {"lead", "lost"}

ASSUME StageAssumption == StageTargets \subseteq Stages

Kinds == {"estimate", "change_order"}
Statuses == {"draft", "sent", "accepted", "declined", "superseded"}

ACCEPTABLE_FROM == {"draft", "sent"}
LIVE_SIBLING_STATUSES == {"draft", "sent"}
REVISABLE == {"sent", "declined"}

Buttons == {"sent", "accepted", "declined", "convert", "changeOrder"}

VARIABLES quotes,         \* the quotes table, a sequence: a row's id is its index
          stage,          \* projects.stage
          nextSeq,        \* document_sequences.next_seq, by document kind
          counterHolder,  \* the transaction that holds each counter row
          session         \* what each request is doing and has read so far

vars == <<quotes, stage, nextSeq, counterHolder, session>>

Row == [kind : Kinds, sequence : Nat, version : Nat, number : Nat,
        parent : Nat, status : Statuses, record : {"active", "void"}]

InsertOps == {"templateNumbered", "templateRead", "blankRead", "blankNumbered",
              "raiseRead", "raiseSequenced", "raiseNumbered"}
ReviseOps == {"reviseRead", "reviseVersions"}
AcceptOps == {"acceptRead", "acceptVersions", "acceptWritten", "acceptStaged"}
NumberedOps == {"templateNumbered", "templateRead", "blankNumbered", "raiseNumbered"}
Running == InsertOps \cup ReviseOps \cup AcceptOps \cup {"voidRead", "stageRead"}

\* quote: the row in hand; sequence, version, stage: what the request has read.
Request == [op : Running \cup {"idle", "page"}, quote : Nat, offers : SUBSET Buttons,
            sequence : Nat, version : Nat, subset : BOOLEAN, decline : BOOLEAN,
            stage : Stages]

Idle == [op |-> "idle", quote |-> 0, offers |-> {}, sequence |-> 0, version |-> 0,
         subset |-> FALSE, decline |-> FALSE, stage |-> "lead"]

-----------------------------------------------------------------------------
\* Reading the table.

Ids == DOMAIN quotes
Live(row) == row.record = "active"
Standing(row) == row.status = "accepted" /\ Live(row)
SameDocument(a, b) == a.kind = b.kind /\ a.sequence = b.sequence

SequencesOf(kind) == {quotes[q].sequence : q \in {i \in Ids : quotes[i].kind = kind}}
VersionsOf(row) == {quotes[q].version : q \in {i \in Ids : SameDocument(quotes[i], row)}}

\* Mutant: skips a place.
NextAfterSkipping(S) ==
  IF S = {} THEN 1 ELSE 2 + (CHOOSE m \in S : \A k \in S : k <= m)

\* reduce((max, row) => Math.max(max, row), 0) + 1
NextAfter(S) ==
  IF S = {} THEN 1 ELSE 1 + (CHOOSE m \in S : \A k \in S : k <= m)

HasStandingQuote == \E q \in Ids : Standing(quotes[q])

\* The buttons the worksheet and the acceptance band render for a row.
Offers(row) ==
  {b \in Buttons :
     \/ b = "sent" /\ row.status = "draft"
     \/ b \in {"accepted", "declined"} /\ row.status = "sent" /\ row.kind = "change_order"
     \/ /\ b \in {"convert", "declined"}
        /\ row.kind = "estimate" /\ Live(row) /\ row.status \in ACCEPTABLE_FROM
     \/ b = "changeOrder" /\ row.kind = "estimate" /\ Standing(row)}

\* Mutant: without quotes_one_accepted_per_sequence.
IndexesHoldVersionsOnly(rows) ==
  \A p, q \in DOMAIN rows :
    p # q /\ SameDocument(rows[p], rows[q]) => rows[p].version # rows[q].version

\* The two unique indexes on quotes; the second is partial.
IndexesHold(rows) ==
  \A p, q \in DOMAIN rows :
    p # q /\ SameDocument(rows[p], rows[q]) =>
      /\ rows[p].version # rows[q].version
      /\ ~(Standing(rows[p]) /\ Standing(rows[q]))

\* A row written by an acceptance that has not committed makes other writers wait.
Unlocked(q, s) ==
  \A t \in Sessions \ {s} :
    ~(session[t].op \in {"acceptWritten", "acceptStaged"} /\ session[t].quote = q)

\* Mutant: the next number is read without locking the counter row.
CounterFreeAlways(kind, s) == TRUE

\* The counter row is locked by the allocation until its transaction ends.
CounterFree(kind, s) == counterHolder[kind] = NoSession

\* Mutant: a status the enum does not have.
NewRowOpened(kind, sequence, parent) ==
  [kind |-> kind, sequence |-> sequence, version |-> 1, number |-> nextSeq[kind],
   parent |-> parent, status |-> "open", record |-> "active"]

NewRow(kind, sequence, parent) ==
  [kind |-> kind, sequence |-> sequence, version |-> 1, number |-> nextSeq[kind],
   parent |-> parent, status |-> "draft", record |-> "active"]

\* The bound: every request that will insert a row has its place kept.
Room ==
  Len(quotes) + Cardinality({t \in Sessions :
    \/ session[t].op \in InsertOps \cup ReviseOps
    \/ session[t].op \in AcceptOps /\ session[t].subset}) < MaxQuotes

-----------------------------------------------------------------------------
Init ==
  /\ quotes = <<>>
  /\ stage = "lead"
  /\ nextSeq = [kind \in Kinds |-> 1]
  /\ counterHolder = [kind \in Kinds |-> NoSession]
  /\ session = [s \in Sessions |-> Idle]

Begin(s, request) == session' = [session EXCEPT ![s] = request]
End(s) == session' = [session EXCEPT ![s] = Idle]

\* A page of quote q is rendered; it keeps offering what it offered then.
Open(s, q) ==
  /\ session[s].op \in {"idle", "page"}
  /\ Offers(quotes[q]) # {}
  /\ Begin(s, [Idle EXCEPT !.op = "page", !.quote = q, !.offers = Offers(quotes[q])])
  /\ UNCHANGED <<quotes, stage, nextSeq, counterHolder>>

\* allocateDocumentNumber: the upsert locks the counter row until the end.
Allocate(s, kind, before, after) ==
  /\ session[s].op = before
  /\ CounterFree(kind, s)
  /\ counterHolder' = [counterHolder EXCEPT ![kind] = s]
  /\ session' = [session EXCEPT ![s].op = after]
  /\ UNCHANGED <<quotes, stage, nextSeq>>

\* A new document: its row, and the number its counter held.
InsertDocument(s, row) ==
  /\ quotes' = Append(quotes, row)
  /\ IndexesHold(quotes')
  /\ nextSeq' = [nextSeq EXCEPT ![row.kind] = @ + 1]
  /\ counterHolder' = [counterHolder EXCEPT ![row.kind] = NoSession]
  /\ End(s)
  /\ UNCHANGED stage

-----------------------------------------------------------------------------
\* createQuoteFromTemplate: the number first, then the sequence under its lock.

TemplateNumber(s) ==
  /\ Room
  /\ Allocate(s, "estimate", "idle", "templateNumbered")

TemplateRead(s) ==
  /\ session[s].op = "templateNumbered"
  /\ session' = [session EXCEPT ![s].op = "templateRead",
                                ![s].sequence = NextAfter(SequencesOf("estimate"))]
  /\ UNCHANGED <<quotes, stage, nextSeq, counterHolder>>

TemplateCommit(s) ==
  /\ session[s].op = "templateRead"
  /\ InsertDocument(s, NewRow("estimate", session[s].sequence, 0))

\* createBlankQuote: the sequence first, then the number.

BlankRead(s) ==
  /\ session[s].op = "idle" /\ Room
  /\ Begin(s, [Idle EXCEPT !.op = "blankRead",
                           !.sequence = NextAfter(SequencesOf("estimate"))])
  /\ UNCHANGED <<quotes, stage, nextSeq, counterHolder>>

BlankNumber(s) == Allocate(s, "estimate", "blankRead", "blankNumbered")

BlankCommit(s) ==
  /\ session[s].op = "blankNumbered"
  /\ InsertDocument(s, NewRow("estimate", session[s].sequence, 0))

\* createChangeOrder, raised from the page of an accepted estimate.

RaiseRead(s) ==
  LET parent == quotes[session[s].quote] IN
  /\ session[s].op = "page" /\ "changeOrder" \in session[s].offers /\ Room
  /\ parent.kind = "estimate" /\ Standing(parent)
  /\ Begin(s, [Idle EXCEPT !.op = "raiseRead", !.quote = session[s].quote])
  /\ UNCHANGED <<quotes, stage, nextSeq, counterHolder>>

RaiseSequence(s) ==
  /\ session[s].op = "raiseRead"
  /\ session' = [session EXCEPT ![s].op = "raiseSequenced",
                                ![s].sequence = NextAfter(SequencesOf("change_order"))]
  /\ UNCHANGED <<quotes, stage, nextSeq, counterHolder>>

RaiseNumber(s) == Allocate(s, "change_order", "raiseSequenced", "raiseNumbered")

RaiseCommit(s) ==
  /\ session[s].op = "raiseNumbered"
  /\ InsertDocument(s, NewRow("change_order", session[s].sequence, session[s].quote))

-----------------------------------------------------------------------------
\* reviseQuote: the next version as a draft, the source superseded.

ReviseRead(s, q) ==
  /\ session[s].op = "idle" /\ Room
  /\ Live(quotes[q]) /\ quotes[q].status \in REVISABLE
  /\ Begin(s, [Idle EXCEPT !.op = "reviseRead", !.quote = q])
  /\ UNCHANGED <<quotes, stage, nextSeq, counterHolder>>

ReviseVersions(s) ==
  /\ session[s].op = "reviseRead"
  /\ session' = [session EXCEPT ![s].op = "reviseVersions",
                    ![s].version = NextAfter(VersionsOf(quotes[session[s].quote]))]
  /\ UNCHANGED <<quotes, stage, nextSeq, counterHolder>>

\* Mutant: the copy takes a number of its own.
SupersedingRenumbered(q, version, status) ==
  Append([quotes EXCEPT ![q].status = "superseded"],
         [quotes[q] EXCEPT !.version = version, !.status = status, !.record = "active",
                           !.number = nextSeq[quotes[q].kind]])

\* Mutant: inserts first, then supersedes every version of the document.
SupersedingAll(q, version, status) ==
  Append([quotes EXCEPT ![q].status = "superseded"],
         [quotes[q] EXCEPT !.version = version, !.status = "superseded", !.record = "active"])

\* The table once q is superseded and its copy stands at the next version.
Superseding(q, version, status) ==
  Append([quotes EXCEPT ![q].status = "superseded"],
         [quotes[q] EXCEPT !.version = version, !.status = status, !.record = "active"])

ReviseCommit(s) ==
  LET q == session[s].quote IN
  /\ session[s].op = "reviseVersions"
  /\ Unlocked(q, s)
  /\ quotes' = Superseding(q, session[s].version, "draft")
  /\ IndexesHold(quotes')
  /\ End(s)
  /\ UNCHANGED <<stage, nextSeq, counterHolder>>

\* voidQuote: refused while an active change order points at the row.

ActiveChildren(q) == {c \in Ids : quotes[c].parent = q /\ Live(quotes[c])}

VoidRead(s, q) ==
  /\ session[s].op = "idle"
  /\ ActiveChildren(q) = {}
  /\ Begin(s, [Idle EXCEPT !.op = "voidRead", !.quote = q])
  /\ UNCHANGED <<quotes, stage, nextSeq, counterHolder>>

VoidCommit(s) ==
  LET q == session[s].quote IN
  /\ session[s].op = "voidRead"
  /\ Unlocked(q, s)
  /\ quotes' = [quotes EXCEPT ![q].record = "void"]
  /\ End(s)
  /\ UNCHANGED <<stage, nextSeq, counterHolder>>

\* setQuoteStatus: the page's button, with no look at the row it lands on.
SetQuoteStatus(s, status) ==
  LET q == session[s].quote IN
  /\ session[s].op = "page" /\ status \in session[s].offers
  /\ status = "accepted" => quotes[q].kind = "change_order"
  /\ Unlocked(q, s)
  /\ quotes' = [quotes EXCEPT ![q].status = status]
  /\ IndexesHold(quotes')
  /\ End(s)
  /\ UNCHANGED <<stage, nextSeq, counterHolder>>

-----------------------------------------------------------------------------
\* acceptQuoteLines, from the acceptance band of a draft or sent estimate.

Acceptable(row) ==
  Live(row) /\ row.kind = "estimate" /\ row.status \in ACCEPTABLE_FROM

AcceptRead(s, subset, decline) ==
  LET q == session[s].quote IN
  /\ session[s].op = "page" /\ "convert" \in session[s].offers
  /\ subset => Room
  /\ Acceptable(quotes[q])
  /\ Begin(s, [Idle EXCEPT !.op = "acceptRead", !.quote = q,
                           !.subset = subset, !.decline = decline])
  /\ UNCHANGED <<quotes, stage, nextSeq, counterHolder>>

NoneStanding(q) ==
  \A i \in Ids : ~(SameDocument(quotes[i], quotes[q]) /\ Standing(quotes[i]))

AcceptVersions(s) ==
  LET q == session[s].quote IN
  /\ session[s].op = "acceptRead"
  /\ NoneStanding(q)
  /\ session' = [session EXCEPT ![s].op = "acceptVersions",
                                ![s].version = NextAfter(VersionsOf(quotes[q]))]
  /\ UNCHANGED <<quotes, stage, nextSeq, counterHolder>>

\* The first write locks the source row; what it wrote shows at the commit.
AcceptWrite(s) ==
  /\ session[s].op = "acceptVersions"
  /\ Unlocked(session[s].quote, s)
  /\ session' = [session EXCEPT ![s].op = "acceptWritten"]
  /\ UNCHANGED <<quotes, stage, nextSeq, counterHolder>>

AcceptStage(s) ==
  /\ session[s].op = "acceptWritten"
  /\ session' = [session EXCEPT ![s].op = "acceptStaged", ![s].stage = stage]
  /\ UNCHANGED <<quotes, stage, nextSeq, counterHolder>>

\* Mutant: declines everything that is not this one.
LosesToAny(row, source) ==
  row.kind = "estimate" /\ Live(row) /\ row.sequence # source.sequence

\* The rows declineOtherEstimates takes: other documents still in the running.
LosesTo(row, source) ==
  /\ row.kind = "estimate" /\ Live(row)
  /\ row.sequence # source.sequence
  /\ row.status \in LIVE_SIBLING_STATUSES

DeclineOthers(rows, source) ==
  [i \in DOMAIN rows |->
     IF LosesTo(rows[i], source) THEN [rows[i] EXCEPT !.status = "declined"] ELSE rows[i]]

AcceptCommit(s) ==
  LET q == session[s].quote
      won == IF session[s].subset
             THEN Superseding(q, session[s].version, "accepted")
             ELSE [quotes EXCEPT ![q].status = "accepted"]
  IN
  /\ session[s].op = "acceptStaged"
  /\ session[s].decline =>
       \A i \in Ids : LosesTo(quotes[i], quotes[q]) => Unlocked(i, s)
  /\ quotes' = IF session[s].decline THEN DeclineOthers(won, quotes[q]) ELSE won
  /\ IndexesHold(quotes')
  /\ stage' = IF session[s].stage \in ADVANCES_TO_WON THEN "won" ELSE stage
  /\ End(s)
  /\ UNCHANGED <<nextSeq, counterHolder>>

-----------------------------------------------------------------------------
\* setProjectStage: the stages open to the record are read, then one is set.

StageRead(s, target) ==
  /\ session[s].op = "idle"
  /\ target # stage
  /\ target \in IF HasStandingQuote THEN JOB_STAGES ELSE OPPORTUNITY_STAGES
  /\ Begin(s, [Idle EXCEPT !.op = "stageRead", !.stage = target])
  /\ UNCHANGED <<quotes, stage, nextSeq, counterHolder>>

StageCommit(s) ==
  /\ session[s].op = "stageRead"
  /\ stage' = session[s].stage
  /\ End(s)
  /\ UNCHANGED <<quotes, nextSeq, counterHolder>>

\* A transaction ends without a trace: an index refuses its write, it is the
\* victim of a deadlock, its connection is lost.  The number goes back too.
Rollback(s) ==
  /\ session[s].op \in Running
  /\ counterHolder' = [kind \in Kinds |->
        IF counterHolder[kind] = s THEN NoSession ELSE counterHolder[kind]]
  /\ End(s)
  /\ UNCHANGED <<quotes, stage, nextSeq>>

\* Another project of the company takes a number from the same counter.
NumberElsewhere(kind) ==
  /\ counterHolder[kind] = NoSession
  /\ nextSeq[kind] <= MaxNumber
  /\ nextSeq' = [nextSeq EXCEPT ![kind] = @ + 1]
  /\ UNCHANGED <<quotes, stage, counterHolder, session>>

-----------------------------------------------------------------------------
Create(s) ==
  \/ TemplateNumber(s) \/ TemplateRead(s) \/ TemplateCommit(s)
  \/ BlankRead(s) \/ BlankNumber(s) \/ BlankCommit(s)
  \/ RaiseRead(s) \/ RaiseSequence(s) \/ RaiseNumber(s) \/ RaiseCommit(s)

Amend(s) ==
  \/ \E q \in Ids : Open(s, q) \/ ReviseRead(s, q) \/ VoidRead(s, q)
  \/ ReviseVersions(s) \/ ReviseCommit(s) \/ VoidCommit(s)
  \/ \E status \in {"sent", "accepted", "declined"} : SetQuoteStatus(s, status)

Win(s) ==
  \/ \E subset, decline \in BOOLEAN : AcceptRead(s, subset, decline)
  \/ AcceptVersions(s) \/ AcceptWrite(s) \/ AcceptStage(s) \/ AcceptCommit(s)
  \/ \E target \in StageTargets : StageRead(s, target)
  \/ StageCommit(s)

Next ==
  \/ \E s \in Sessions : Create(s) \/ Amend(s) \/ Win(s) \/ Rollback(s)
  \/ \E kind \in Kinds : NumberElsewhere(kind)

Spec == Init /\ [][Next]_vars

-----------------------------------------------------------------------------
(* Properties.                                                             *)

\* Types: every row, counter and request is one the schema and the code can hold.
TypeOK ==
  /\ quotes \in Seq(Row)
  /\ stage \in Stages
  /\ nextSeq \in [Kinds -> Nat]
  /\ counterHolder \in [Kinds -> Sessions \cup {NoSession}]
  /\ session \in [Sessions -> Request]

\* A document number names one document: two rows of a kind carry the same
\* number exactly when they are versions of one document, whatever the order in
\* which concurrent requests read their sequence and took their number
\* (numbering.ts, reviseQuote and acceptQuoteLines keep the number).
NumberIdentifiesDocument ==
  \A p, q \in Ids :
    quotes[p].kind = quotes[q].kind =>
      (quotes[p].number = quotes[q].number <=> quotes[p].sequence = quotes[q].sequence)

\* Sequences count a project's estimates, and its change orders, from 1 with no
\* gap, and versions count a document's rows from 1 with no gap: a maximum read
\* before somebody else's commit never skips or reuses a place, because the
\* unique index turns the collision into a rollback (nextEstimateSequence,
\* reviseQuote, acceptQuoteLines, createChangeOrder).
NumberedWithoutGaps ==
  /\ \A kind \in Kinds : \E n \in 0..Len(quotes) : SequencesOf(kind) = 1..n
  /\ \A q \in Ids : \E n \in 1..Len(quotes) : VersionsOf(quotes[q]) = 1..n

\* A superseded version always has a later version of the same document beside
\* it: no interleaving of revisions, acceptances and rollbacks leaves a document
\* whose last version says it was replaced.
SupersededHasSuccessor ==
  \A p \in Ids : quotes[p].status = "superseded" =>
    \E q \in Ids : SameDocument(quotes[p], quotes[q]) /\ quotes[q].version > quotes[p].version

\* At most one active version of a document is accepted, so the contract value
\* counts each document once (quotes_one_accepted_per_sequence; the check that
\* acceptQuoteLines makes first is not enough when two of them race).
OneAcceptedPerDocument ==
  \A p, q \in Ids :
    SameDocument(quotes[p], quotes[q]) /\ Standing(quotes[p]) /\ Standing(quotes[q]) => p = q

\* createQuoteFromTemplate takes its number before it reads its sequence, so the
\* counter row's lock keeps every other new estimate out and the sequence it
\* read is still free when it inserts (createBlankQuote reads first and may lose).
TemplateNeverCollides ==
  \A s \in Sessions :
    session[s].op = "templateRead" => session[s].sequence \notin SequencesOf("estimate")

\* Winning one estimate, with or without declining the others, never changes a
\* row of another document that stands accepted: the decline re-checks its
\* filter on the row it updates (declineOtherEstimates).
AcceptanceKeepsOtherContracts ==
  [][\A s \in Sessions : AcceptCommit(s) =>
       \A q \in Ids :
         Standing(quotes[q]) /\ ~SameDocument(quotes[q], quotes[session[s].quote])
           => quotes'[q] = quotes[q]]_vars

\* What a reader of the contract adds up: the standing rows, as entries.
InForce == {[kind |-> quotes[q].kind, sequence |-> quotes[q].sequence,
             version |-> quotes[q].version] : q \in {i \in Ids : Standing(quotes[i])}}

Contract == INSTANCE Contract WITH signed <- InForce

\* The standing rows are a contract: one document at a time enters, leaves or is
\* replaced by a later version of itself, and none is ever counted twice.  This
\* is what invoicing and the job's value rest on when they add up the accepted
\* rows (setQuoteStatus, voidQuote, reviseQuote, acceptQuoteLines).
ImplementsContract == Contract!Spec

-----------------------------------------------------------------------------
(* What the repository says and its transactions do not keep.              *)

\* "an accepted quote is never revised, because the customer signed it": an
\* accepted, active version does not become superseded.
AcceptedIsNeverSuperseded ==
  [][\A q \in Ids : Standing(quotes[q]) => quotes'[q].status # "superseded"]_vars

\* "declined is refused rather than allowed": no declined estimate becomes
\* accepted without a fresh draft.
DeclinedIsNeverAccepted ==
  [][\A q \in Ids : quotes[q].kind = "estimate" /\ quotes[q].status = "declined"
       => quotes'[q].status # "accepted"]_vars

\* "a job with an accepted quote sitting in a pre-sale stage": a standing
\* estimate means the project is at a job's stage.
StandingEstimateMeansJob ==
  (\E q \in Ids : quotes[q].kind = "estimate" /\ Standing(quotes[q]))
    => stage \in JOB_STAGES \cup {"won"}
=============================================================================
