----------------------------- MODULE Worksheet -----------------------------
(***************************************************************************)
(* One draft quote under its editors: its lines, the header that totals    *)
(* them, and the moment it is sent.                                        *)
(*                                                                         *)
(* A line edit is three transactions: a look at the quote's status, the    *)
(* write, and a recalculation that reads every line again.  Nothing is     *)
(* locked across them.  Triggers stand behind the first check: they see    *)
(* the quote's status as committed when the statement runs.                *)
(*                                                                         *)
(* A line's quantity and rate are one number, its price; a percent line    *)
(* takes price times the whole of what it applies to, so no rounding       *)
(* happens here (Billing has it).  The taxes follow the lines as the       *)
(* header does and are left out with descriptions, clauses and costs.  So  *)
(* are allowances, which may be sent without a price: to everything here   *)
(* but AllPriced they are lines like any other, and a line of price 0 is   *)
(* one that is not marked as an allowance.                                 *)
(***************************************************************************)
EXTENDS Integers, Sequences, FiniteSets, Functions

CONSTANTS Sessions,   \* requests that may be in flight at once
          Senders,    \* those of them with a page that offers to send
          Rebuilders, \* those of them with the panel that regenerates
          Prices,     \* what a line, or the template's item, may be priced at
          AddedItems, \* what the rate list offers to somebody adding a line
          MaxAdded,   \* bound on the lines added by hand that are on the quote
          MaxLines    \* bound on the rows of quote_lines

ASSUME PricesAssumption == Prices \subseteq Nat /\ 0 \in Prices /\ Prices # {0}

\* Of the rate list: the one item the template is made of, an item it does not
\* have, and a percentage.
Items == {"templated", "other", "percent"}

ASSUME LinesAssumption == MaxLines \in Nat \ {0} /\ AddedItems \subseteq Items

VARIABLES quote,    \* the header: status and the stored total
          lines,    \* quote_lines of this quote, a sequence: an id is an index
          session,  \* what each request is doing and has read
          excused,  \* the last recalculation was lost or overtaken (history)
          quiet     \* sent while nobody was changing it (history)

vars == <<quote, lines, session, excused, quiet>>

\* item: what rate_item_id names.  added: line_group is 'Added', which addLine writes.
Line == [item : Items, added : BOOLEAN, price : Prices,
         total : Nat, record : {"active", "void"}]

RegenerateOps == {"regenerateRead", "regenerateLines", "regenerateWritten"}
OwingOps == {"recalculate", "recalculateRead", "recalculateLines", "recalculateWritten"}

\* touched: the lines a recalculation rewrites or a regeneration voids.
\* totals, sum: what a recalculation computed.  current: since this request read
\* the lines, no commit has changed them (history).
Request == [op : {"idle", "send", "edit"} \cup RegenerateOps \cup OwingOps,
            touched : SUBSET (1..MaxLines), totals : Seq(Nat),
            sum : Nat, current : BOOLEAN]

Idle == [op |-> "idle", touched |-> {}, totals |-> <<>>, sum |-> 0,
         current |-> TRUE]

\* What a voided line said is kept in the table, and read by nothing modelled here.
VoidLine == [item |-> "other", added |-> FALSE, price |-> 0, total |-> 0, record |-> "void"]

-----------------------------------------------------------------------------
\* Pricing the lines.

Active == {i \in DOMAIN lines : lines[i].record = "active"}

\* What percent lines apply to: the work, never one another.
Base == SumFunction([i \in {j \in Active : lines[j].item # "percent"} |-> lines[i].price])

LineTotal(i) ==
  IF lines[i].item = "percent" THEN lines[i].price * Base ELSE lines[i].price

Subtotal == SumFunction([i \in Active |-> LineTotal(i)])

\* Mutant: percent lines are left as they were.
RewrittenFlat == {i \in Active : lines[i].item # "percent" /\ lines[i].total # LineTotal(i)}

\* The lines a recalculation rewrites: only those whose figure changed.
Rewritten == {i \in Active : lines[i].total # LineTotal(i)}

\* unpricedProblem: a zero percentage is a percentage, a zero price is not.
Unpriced(line) == line.price = 0 /\ line.item # "percent"

AllPriced == \A i \in Active : ~Unpriced(lines[i])

\* The page the customer reads: each line's figure, and their sum, stored.
AddsUp ==
  /\ \A i \in Active : lines[i].total = LineTotal(i)
  /\ quote.total = Subtotal

-----------------------------------------------------------------------------
\* The database.

\* A row written by a transaction that has not committed makes other writers wait.
Held(s) ==
  IF session[s].op \in {"recalculateWritten", "regenerateWritten"} THEN session[s].touched ELSE {}
LinesFree(S, s) == \A t \in Sessions \ {s} : Held(t) \cap S = {}

\* guard_quote_line_mutability: the priced columns of a quote no longer a draft.
LineWritable(i, line) == quote.status = "draft" \/ line = lines[i]

\* Mutant: guard_quote_mutability is missing.
HeaderWritableAlways(header) == TRUE

\* guard_quote_mutability: of a header no longer a draft only the status may move.
HeaderWritable(header) ==
  quote.status = "draft" \/ header.total = quote.total

\* The requests that hold a reading of the lines.
ReadingOps == {"recalculateLines", "recalculateWritten", "regenerateLines",
               "regenerateWritten", "send"}

\* Whoever else has read the lines now holds an old reading, if they changed.
Overtake(next, changed) ==
  [t \in Sessions |-> [next[t] EXCEPT !.current =
     @ /\ ~(changed /\ next[t].op \in ReadingOps)]]

-----------------------------------------------------------------------------
\* A quote made from a template: one line, priced or not, and its total.
Init ==
  /\ \E price \in Prices :
       /\ lines = <<[item |-> "templated", added |-> FALSE, price |-> price, total |-> price,
                     record |-> "active"]>>
       /\ quote = [status |-> "draft", total |-> price]
  /\ session = [s \in Sessions |-> Idle]
  /\ excused = FALSE
  /\ quiet = FALSE

Go(s, request) == session' = [session EXCEPT ![s] = request]
Step(s, op) == Go(s, [session[s] EXCEPT !.op = op])

\* Mutant: the form is trusted to have come from a draft.
RequireNothing(s, request) ==
  /\ session[s].op = "idle"
  /\ Go(s, request)
  /\ UNCHANGED <<quote, lines, excused, quiet>>

\* requireDraft, the opening of every edit: read here, acted upon later.
RequireDraft(s, request) ==
  /\ session[s].op = "idle"
  /\ quote.status = "draft"
  /\ Go(s, request)
  /\ UNCHANGED <<quote, lines, excused, quiet>>

\* Mutant: an edit leaves the totals to the next one.
NoRecalculation(s) == Idle

\* What an edit does next.
Recalculation(s) == [Idle EXCEPT !.op = "recalculate"]

\* What the form says is chosen when it is written: nothing reads it before.
EditRead(s) == RequireDraft(s, [Idle EXCEPT !.op = "edit"])

\* One autocommitted statement on the lines, then the recalculation.
WriteLines(s, rows) ==
  /\ session[s].op = "edit"
  /\ lines' = rows
  /\ session' = Overtake([session EXCEPT ![s] = Recalculation(s)], rows # lines)
  /\ UNCHANGED <<quote, excused, quiet>>

\* editLine: its update is by id, so it may land on a line just voided.
EditLine(s, i, price) ==
  LET line == IF i \in Active THEN [lines[i] EXCEPT !.price = price] ELSE VoidLine IN
  /\ LinesFree({i}, s) /\ LineWritable(i, line)
  /\ WriteLines(s, [lines EXCEPT ![i] = line])

\* voidLine: voiding is let through whatever the status.
RemoveLine(s, i) ==
  /\ LinesFree({i}, s)
  /\ WriteLines(s, [lines EXCEPT ![i] = VoidLine])

\* Mutant: a status the enum does not have.
NewLineOpened(item, added, price) ==
  [item |-> item, added |-> added, price |-> price, total |-> 0, record |-> "open"]

NewLine(item, added, price) ==
  [item |-> item, added |-> added, price |-> price, total |-> 0, record |-> "active"]

\* addLine: a priced item of the rate list, the template's or not, becomes the
\* last line, its total zero.
AddLine(s, item, price) ==
  /\ item # "percent" => price # 0
  /\ quote.status = "draft" /\ Len(lines) < MaxLines
  /\ Cardinality({i \in Active : lines[i].added}) < MaxAdded
  /\ WriteLines(s, Append(lines, NewLine(item, TRUE, price)))

-----------------------------------------------------------------------------
\* regenerateFromTemplate, one transaction, and then a recalculation of its own.

RegenerateRead(s) == s \in Rebuilders /\ RequireDraft(s, [Idle EXCEPT !.op = "regenerateRead"])

\* Mutant: replaces whatever is on the quote.
FromTemplateAll == Active

\* The lines whose item the template has, whoever put them there.
FromTemplate == {i \in Active : lines[i].item = "templated"}

RegenerateLines(s) ==
  /\ session[s].op = "regenerateRead"
  /\ Go(s, [session[s] EXCEPT !.op = "regenerateLines", !.current = TRUE,
                              !.touched = FromTemplate])
  /\ UNCHANGED <<quote, lines, excused, quiet>>

\* The statements run, each past its trigger, and nobody sees them yet.
RegenerateWrite(s) ==
  /\ session[s].op = "regenerateLines"
  /\ LinesFree(session[s].touched, s)
  /\ quote.status = "draft"
  /\ Len(lines) + Cardinality({t \in Sessions : session[t].op = "regenerateWritten"}) < MaxLines
  /\ Step(s, "regenerateWritten")
  /\ UNCHANGED <<quote, lines, excused, quiet>>

\* The template's one item comes back at today's rate for what was measured.
RegenerateCommit(s, price) ==
  /\ session[s].op = "regenerateWritten"
  /\ Len(lines) < MaxLines
  /\ lines' = Append([i \in DOMAIN lines |->
                        IF i \in session[s].touched THEN VoidLine ELSE lines[i]],
                     NewLine("templated", FALSE, price))
  /\ session' = Overtake([session EXCEPT ![s] = Recalculation(s)], TRUE)
  /\ UNCHANGED <<quote, excused, quiet>>

-----------------------------------------------------------------------------
\* recalculateQuote: the status, then the lines, then every figure that moved.

RecalculateRead(s) ==
  /\ session[s].op = "recalculate"
  /\ IF quote.status = "draft" THEN Step(s, "recalculateRead") ELSE Go(s, Idle)
  /\ UNCHANGED <<quote, lines, excused, quiet>>

RecalculateLines(s) ==
  /\ session[s].op = "recalculateRead"
  /\ Go(s, [session[s] EXCEPT !.op = "recalculateLines", !.sum = Subtotal, !.current = TRUE,
                              !.touched = Rewritten,
                              !.totals = [i \in DOMAIN lines |->
                                            IF i \in Rewritten THEN LineTotal(i) ELSE 0]])
  /\ UNCHANGED <<quote, lines, excused, quiet>>

\* A line it read as active may be void by now.
Retotalled(i, total) == IF i \in Active THEN [lines[i] EXCEPT !.total = total] ELSE VoidLine

RecalculateWrite(s) ==
  /\ session[s].op = "recalculateLines"
  /\ LinesFree(session[s].touched, s)
  /\ \A i \in session[s].touched :
       LineWritable(i, Retotalled(i, session[s].totals[i]))
  /\ Step(s, "recalculateWritten")
  /\ UNCHANGED <<quote, lines, excused, quiet>>

\* The header's trigger runs on the row as it is once its lock is free.
RecalculateCommit(s) ==
  LET header == [quote EXCEPT !.total = session[s].sum] IN
  /\ session[s].op = "recalculateWritten"
  /\ HeaderWritable(header)
  /\ quote' = header
  /\ lines' = [i \in DOMAIN lines |->
                 IF i \in session[s].touched
                 THEN Retotalled(i, session[s].totals[i]) ELSE lines[i]]
  /\ session' = Overtake([session EXCEPT ![s] = Idle], lines' # lines)
  /\ excused' = ~session[s].current
  /\ UNCHANGED quiet

-----------------------------------------------------------------------------
\* setQuoteStatus("sent"), from a page that offered it: every line is priced...
SendRead(s) ==
  /\ s \in Senders /\ session[s].op = "idle"
  /\ AllPriced
  /\ Go(s, [Idle EXCEPT !.op = "send"])
  /\ UNCHANGED <<quote, lines, excused, quiet>>

\* ...and the status is written, by id.
SendCommit(s) ==
  /\ session[s].op = "send"
  /\ quote' = [quote EXCEPT !.status = "sent"]
  /\ quiet' = IF quote.status = "draft"
              THEN /\ session[s].current /\ ~excused
                   /\ \A t \in Sessions \ {s} : session[t].op \in {"idle", "send"}
              ELSE quiet
  /\ Go(s, Idle)
  /\ UNCHANGED <<lines, excused>>

\* A request ends without writing: a trigger refuses it, it loses a deadlock, its
\* connection or its process is gone.  A recalculation owed is then never made.
Fail(s) ==
  /\ session[s].op # "idle"
  /\ excused' = (excused \/ session[s].op \in OwingOps)
  /\ Go(s, Idle)
  /\ UNCHANGED <<quote, lines, quiet>>

-----------------------------------------------------------------------------
Edit(s) ==
  \/ EditRead(s)
  \/ \E i \in DOMAIN lines : RemoveLine(s, i) \/ \E price \in Prices : EditLine(s, i, price)
  \/ \E item \in AddedItems, price \in Prices : AddLine(s, item, price)

Regenerate(s) ==
  \/ RegenerateRead(s) \/ RegenerateLines(s) \/ RegenerateWrite(s)
  \/ \E price \in Prices : RegenerateCommit(s, price)

Recalculate(s) ==
  RecalculateRead(s) \/ RecalculateLines(s) \/ RecalculateWrite(s) \/ RecalculateCommit(s)

Next ==
  \E s \in Sessions :
    Edit(s) \/ Regenerate(s) \/ Recalculate(s) \/ SendRead(s) \/ SendCommit(s) \/ Fail(s)

\* A recalculation that has begun runs to its end, and a row lock is granted in
\* the order it was asked for, so waiting for one comes to an end too.
Fairness ==
  \A s \in Sessions :
    /\ SF_vars(Recalculate(s))
    /\ WF_vars(\E price \in Prices : RegenerateCommit(s, price))

Spec == Init /\ [][Next]_vars /\ Fairness

-----------------------------------------------------------------------------
(* Properties.                                                             *)

\* Types: the header, every line and every request is one the schema can hold.
TypeOK ==
  /\ quote \in [status : {"draft", "sent"}, total : Nat]
  /\ lines \in Seq(Line) /\ Len(lines) <= MaxLines
  /\ session \in [Sessions -> Request]
  /\ excused \in BOOLEAN
  /\ quiet \in BOOLEAN

\* A draft nobody is at work on shows the total of its lines, and every line its
\* own figure, unless the last recalculation to finish was overtaken by somebody
\* else's commit or one was lost; and the next one that is not overtaken puts
\* everything right, whatever was wrong before (recalculateQuote computes from
\* the rows and never by a difference, and rewrites only the lines that moved).
StaleHasACause ==
  quote.status = "draft" /\ ~excused /\ (\A s \in Sessions : session[s].op \notin OwingOps)
    => AddsUp

\* What was sent while nobody was changing it can be read by the customer: it adds
\* up, no line of it is without a price, and it stays so (setQuoteStatus checks
\* first and writes later; requireDraft and the triggers keep latecomers out).
QuietlySentStands == quiet => AddsUp /\ AllPriced

\* The header of a quote that has gone out is final: its total never changes
\* again, though a recalculation that saw a draft is still in flight
\* (guard_quote_mutability).
SentHeaderIsFinal ==
  [][quote.status = "sent" => quote' = quote]_vars

\* A regeneration voids no line of an item the template does not have, whatever
\* happens to the lines while it runs; and unless they were changed since it read
\* them, the one line of the template's item it leaves is its own, so the work is
\* priced once (regenerateFromTemplate reads the lines, voids them by id and inserts).
RegenerationReplaces ==
  [][\A s \in Sessions, price \in Prices : RegenerateCommit(s, price) =>
       /\ \A i \in Active : lines[i].item # "templated" => lines'[i] = lines[i]
       /\ session[s].current => FromTemplate' = {Len(lines) + 1}]_vars

\* A draft that does not add up does so in the end, or is sent, or a recalculation
\* was lost or overtaken: nobody waits on anybody for ever (editLine, voidLine,
\* addLine and regenerateFromTemplate all end in recalculateQuote).
EditsReachTheHeader ==
  quote.status = "draft" /\ ~AddsUp ~> AddsUp \/ quote.status = "sent" \/ excused

-----------------------------------------------------------------------------
(* What the repository says and the code does not keep.                    *)

\* "Lines you added by hand are kept exactly as they are.": no regeneration voids a
\* line that addLine made (components/worksheet/ScopeSheet.tsx:140).
HandAddedStays ==
  [][\A s \in Sessions, price \in Prices : RegenerateCommit(s, price) =>
       \A i \in Active : lines[i].added => lines'[i] = lines[i]]_vars

\* "Every line that came from the template is replaced": a regeneration leaves one
\* line of the template's item, its own (components/worksheet/ScopeSheet.tsx:137).
TemplateLinesAreReplaced ==
  [][\A s \in Sessions, price \in Prices : RegenerateCommit(s, price) =>
       {i \in FromTemplate' : ~lines'[i].added} = {Len(lines) + 1}]_vars
=============================================================================
