--------------------------- MODULE WorksheetProofs ---------------------------
(***************************************************************************)
(* What holds of Worksheet for any number of sessions, lines and prices.   *)
(*                                                                         *)
(* A request that read the lines holds figures that are theirs until a     *)
(* commit changes them, and the commit that does says so (Overtake): what  *)
(* is written at the end is right, or marked.                              *)
(***************************************************************************)
EXTENDS Worksheet, Sums

Ops == {"idle", "send", "edit"} \cup RegenerateOps \cup OwingOps

QuoteTyped == quote \in [status : {"draft", "sent"}, total : Nat]
LinesTyped == lines \in Seq(Line) /\ Len(lines) <= MaxLines
SessionTyped == session \in [Sessions -> Request]
Typed == QuoteTyped /\ LinesTyped /\ SessionTyped /\ excused \in BOOLEAN /\ quiet \in BOOLEAN

\* A recalculation has a figure for every line it is to rewrite.
TotalsOK ==
  \A s \in Sessions : session[s].op \in {"recalculateLines", "recalculateWritten"} =>
    session[s].touched \subseteq DOMAIN session[s].totals

\* A recalculation nobody overtook holds the figures of the lines as they are.
Computed(r) ==
  /\ r.sum = Subtotal /\ r.touched = Rewritten
  /\ \A i \in Rewritten : r.totals[i] = LineTotal(i)
CurrentOK ==
  \A s \in Sessions :
    session[s].op \in {"recalculateLines", "recalculateWritten"} /\ session[s].current
      => Computed(session[s])

\* A send nobody overtook is of lines that are all priced.
SendOK == \A s \in Sessions : session[s].op = "send" /\ session[s].current => AllPriced

\* What a regeneration is about to void is of the template's item, and until somebody
\* overtakes it, all that is.
Voids(r) ==
  /\ r.touched \subseteq DOMAIN lines
  /\ \A i \in r.touched \cap Active : lines[i].item = "templated"
  /\ r.current => r.touched = FromTemplate
TouchOK ==
  \A s \in Sessions : session[s].op \in {"regenerateLines", "regenerateWritten"} => Voids(session[s])

\* A quietly sent quote has nobody at work on it.
QuietOK ==
  quiet => /\ quote.status = "sent" /\ AddsUp /\ AllPriced
           /\ \A s \in Sessions : session[s].op \in {"idle", "send"}

IInv == Typed /\ TotalsOK /\ CurrentOK /\ SendOK /\ TouchOK /\ QuietOK /\ StaleHasACause

-----------------------------------------------------------------------------
\* Figures are whole cents.

LEMMA FiguresTyped ==
  ASSUME LinesTyped
  PROVE  Base \in Nat /\ Subtotal \in Nat /\ \A i \in Active : LineTotal(i) \in Nat
<1>1. IsFiniteSet(Active) /\ \A i \in Active : lines[i].price \in Nat
  <2>1. PICK n \in Nat : DOMAIN lines = 1..n
    BY DEF LinesTyped
  <2>2. IsFiniteSet(1..n) /\ Active \subseteq 1..n
    BY <2>1, FS_Interval DEF Active
  <2>3. IsFiniteSet(Active)
    BY <2>2, FS_Subset
  <2>4. \A i \in Active : lines[i] \in Line
    BY DEF LinesTyped, Active
  <2>5. \A i \in Active : lines[i].price \in Nat
    BY <2>4, PricesAssumption DEF Line
  <2> QED BY <2>3, <2>5
<1>2. Base \in Nat
  <2>1. PICK flat : flat = {j \in Active : lines[j].item # "percent"}
    OBVIOUS
  <2>2. IsFiniteSet(flat) /\ \A i \in flat : lines[i].price \in Nat
    BY <1>1, <2>1, FS_Subset
  <2>3. PICK f : f = [i \in flat |-> lines[i].price]
    OBVIOUS
  <2>4. SumFunctionOnSet(f, flat) \in Nat
    BY <2>2, <2>3, SumIsNat
  <2>5. DOMAIN f = flat
    BY <2>3
  <2> QED BY <2>1, <2>3, <2>4, <2>5 DEF Base, SumFunction
<1>3. \A i \in Active : LineTotal(i) \in Nat
  BY <1>1, <1>2 DEF LineTotal
<1>4. Subtotal \in Nat
  <2>1. PICK f : f = [i \in Active |-> LineTotal(i)]
    OBVIOUS
  <2>2. SumFunctionOnSet(f, Active) \in Nat
    BY <1>1, <1>3, <2>1, SumIsNat
  <2>3. DOMAIN f = Active
    BY <2>1
  <2> QED BY <2>1, <2>2, <2>3 DEF Subtotal, SumFunction
<1> QED BY <1>2, <1>3, <1>4

-----------------------------------------------------------------------------
\* Requests, one at a time.

\* Request, with the sets a step of a request does not look into named.
LEMMA RequestShape ==
  \E T, U : /\ T = SUBSET (1..MaxLines) /\ U = Seq(Nat)
            /\ Request = [op : Ops, touched : T, totals : U, sum : Nat, current : BOOLEAN]
BY DEF Request, Ops

LEMMA IdleTyped ==
  ASSUME NEW op \in Ops
  PROVE  /\ [Idle EXCEPT !.op = op] \in Request
         /\ [Idle EXCEPT !.op = op].op = op
         /\ [Idle EXCEPT !.op = op].current = TRUE
<1>1. PICK T, U :
        /\ T = SUBSET (1..MaxLines) /\ U = Seq(Nat)
        /\ Request = [op : Ops, touched : T, totals : U, sum : Nat, current : BOOLEAN]
  BY RequestShape
<1>2. {} \in T /\ <<>> \in U
  BY <1>1
<1>3. Idle \in [op : Ops, touched : T, totals : U, sum : Nat, current : BOOLEAN]
  BY <1>2 DEF Idle, Ops
<1>4. Request = [op : Ops, touched : T, totals : U, sum : Nat, current : BOOLEAN]
  BY <1>1
<1> QED BY <1>3, <1>4 DEF Idle

LEMMA IdleIsRequest == Idle \in Request /\ Idle.op = "idle"
BY DEF Idle, Request, Ops

LEMMA SessionSet ==
  ASSUME NEW s \in Sessions, NEW request \in Request, SessionTyped
  PROVE  LET next == [session EXCEPT ![s] = request] IN
         /\ next \in [Sessions -> Request]
         /\ next[s] = request
         /\ \A t \in Sessions \ {s} : next[t] = session[t]
BY DEF SessionTyped

\* The same, for the requests that end an operation.
LEMMA RecalculationSet ==
  ASSUME NEW s \in Sessions, SessionTyped
  PROVE  \E next :
           /\ next = [session EXCEPT ![s] = Recalculation(s)]
           /\ next \in [Sessions -> Request]
           /\ next[s].op = "recalculate" /\ \A t \in Sessions \ {s} : next[t] = session[t]
<1>1. PICK request \in Request :
        request = Recalculation(s) /\ request.op = "recalculate"
  BY IdleTyped DEF Recalculation, Ops, OwingOps
<1>2. PICK next : next = [session EXCEPT ![s] = request]
  OBVIOUS
<1>3. /\ next \in [Sessions -> Request]
      /\ next[s] = request /\ \A t \in Sessions \ {s} : next[t] = session[t]
  BY <1>2, SessionSet
<1> QED BY <1>1, <1>2, <1>3

LEMMA IdleSet ==
  ASSUME NEW s \in Sessions, SessionTyped
  PROVE  \E next :
           /\ next = [session EXCEPT ![s] = Idle]
           /\ next \in [Sessions -> Request]
           /\ next[s].op = "idle" /\ \A t \in Sessions \ {s} : next[t] = session[t]
<1>1. PICK request \in Request : request = Idle /\ request.op = "idle"
  BY IdleIsRequest
<1>2. PICK next : next = [session EXCEPT ![s] = request]
  OBVIOUS
<1>3. /\ next \in [Sessions -> Request]
      /\ next[s] = request /\ \A t \in Sessions \ {s} : next[t] = session[t]
  BY <1>2, SessionSet
<1> QED BY <1>1, <1>2, <1>3

\* A step that writes neither line nor header keeps everything, if what the
\* request is about to do is justified by what it has just read.
LEMMA StillStep ==
  ASSUME NEW s \in Sessions, NEW request \in Request,
         IInv, Go(s, request), UNCHANGED <<quote, lines, quiet>>,
         excused' \in BOOLEAN, excused => excused',
         request.op \in {"recalculateLines", "recalculateWritten"} /\ request.current
           => Computed(request),
         request.op \in {"recalculateLines", "recalculateWritten"}
           => request.touched \subseteq DOMAIN request.totals,
         request.op = "send" /\ request.current => AllPriced,
         request.op \in {"regenerateLines", "regenerateWritten"} => Voids(request),
         quiet => request.op \in {"idle", "send"},
         session[s].op \in OwingOps /\ request.op \notin OwingOps
           => excused' \/ quote.status # "draft"
  PROVE  IInv'
<1>1. SessionTyped' /\ session'[s] = request /\ \A t \in Sessions \ {s} : session'[t] = session[t]
  BY SessionSet DEF IInv, Typed, SessionTyped, Go
<1>2. Typed'
  BY <1>1 DEF IInv, Typed, QuoteTyped, LinesTyped
<1>3. /\ AllPriced' = AllPriced /\ AddsUp' = AddsUp
      /\ \A r : Voids(r)' = Voids(r) /\ Computed(r)' = Computed(r)
  BY DEF AllPriced, AddsUp, Voids, FromTemplate, Computed, Active, Unpriced, LineTotal, Base,
         Subtotal, Rewritten
<1>4. CurrentOK'
  BY <1>1, <1>3 DEF IInv, CurrentOK
<1>5. SendOK'
  BY <1>1, <1>3 DEF IInv, SendOK
<1>6. TouchOK'
  BY <1>1, <1>3 DEF IInv, TouchOK
<1>7. QuietOK'
  BY <1>1, <1>3 DEF IInv, QuietOK
<1>8. StaleHasACause'
  BY <1>1, <1>3 DEF IInv, StaleHasACause
<1>9. TotalsOK'
  BY <1>1 DEF IInv, TotalsOK
<1> QED BY <1>2, <1>4, <1>5, <1>6, <1>7, <1>8, <1>9 DEF IInv

\* What Overtake leaves of a request: all but, perhaps, that it is current.
LEMMA Overtaken ==
  ASSUME NEW next \in [Sessions -> Request], NEW changed \in BOOLEAN,
         session' = Overtake(next, changed)
  PROVE  /\ SessionTyped'
         /\ \A t \in Sessions :
              /\ session'[t].op = next[t].op /\ session'[t].touched = next[t].touched
              /\ session'[t].totals = next[t].totals /\ session'[t].sum = next[t].sum
              /\ session'[t].current => next[t].current
              /\ changed /\ next[t].op \in ReadingOps
                   => ~session'[t].current
<1>1. session' = [t \in Sessions |-> [next[t] EXCEPT !.current =
         @ /\ ~(changed /\ next[t].op \in ReadingOps)]]
  BY DEF Overtake
<1>2. ASSUME NEW t \in Sessions
      PROVE  /\ session'[t] \in Request
             /\ session'[t].op = next[t].op /\ session'[t].touched = next[t].touched
             /\ session'[t].totals = next[t].totals /\ session'[t].sum = next[t].sum
             /\ session'[t].current => next[t].current
             /\ changed /\ next[t].op \in ReadingOps
                  => ~session'[t].current
  <2>1. next[t] \in Request
    OBVIOUS
  <2>2. PICK b \in BOOLEAN : b = (next[t].current /\
          ~(changed /\ next[t].op \in ReadingOps))
    OBVIOUS
  <2>3. session'[t] = [next[t] EXCEPT !.current = b]
    BY <1>1, <2>2
  <2>4. /\ session'[t] \in Request /\ session'[t].current = b
        /\ session'[t].op = next[t].op /\ session'[t].touched = next[t].touched
        /\ session'[t].totals = next[t].totals /\ session'[t].sum = next[t].sum
    BY <2>1, <2>3 DEF Request
  <2> QED BY <2>2, <2>4
<1>3. session' \in [Sessions -> Request]
  BY <1>1, <1>2
<1> QED BY <1>2, <1>3 DEF SessionTyped

\* Another request after a commit: as it was, but for what it read being out of date.
Kept(t, changed) ==
  /\ session'[t].op = session[t].op /\ session'[t].touched = session[t].touched
  /\ session'[t].totals = session[t].totals /\ session'[t].sum = session[t].sum
  /\ session'[t].current => session[t].current
  /\ changed /\ session[t].op \in ReadingOps
       => ~session'[t].current

LEMMA OthersKept ==
  ASSUME NEW s \in Sessions, NEW op, NEW next, NEW changed \in BOOLEAN,
         session' = Overtake(next, changed),
         next \in [Sessions -> Request],
         next[s].op = op, \A t \in Sessions \ {s} : next[t] = session[t]
  PROVE  /\ SessionTyped' /\ session'[s].op = op
         /\ \A t \in Sessions \ {s} : Kept(t, changed)
<1>1. /\ SessionTyped'
      /\ \A t \in Sessions :
           /\ session'[t].op = next[t].op /\ session'[t].touched = next[t].touched
           /\ session'[t].totals = next[t].totals /\ session'[t].sum = next[t].sum
           /\ session'[t].current => next[t].current
           /\ changed /\ next[t].op \in ReadingOps
                => ~session'[t].current
  BY Overtaken
<1> QED BY <1>1 DEF Kept

-----------------------------------------------------------------------------
\* Steps that write the lines.

\* Figures are computed from what is active, how it is priced and at what.
LEMMA SamePrices ==
  ASSUME DOMAIN lines' = DOMAIN lines,
         \A i \in DOMAIN lines : lines'[i].record = lines[i].record,
         \A i \in Active : lines'[i].item = lines[i].item /\ lines'[i].price = lines[i].price
  PROVE  /\ Active' = Active
         /\ \A i \in Active : LineTotal(i)' = LineTotal(i)
         /\ Subtotal' = Subtotal
         /\ AllPriced' = AllPriced
<1>1. Active' = Active
  BY DEF Active
<1>2. [i \in {j \in Active : lines[j].item # "percent"} |-> lines[i].price]'
        = [i \in {j \in Active : lines[j].item # "percent"} |-> lines[i].price]
  BY <1>1
<1>3. Base' = Base
  BY <1>2 DEF Base
<1>4. \A i \in Active : LineTotal(i)' = LineTotal(i)
  BY <1>3 DEF LineTotal
<1>5. [i \in Active |-> LineTotal(i)]' = [i \in Active |-> LineTotal(i)]
  BY <1>1, <1>4
<1>6. Subtotal' = Subtotal
  BY <1>5 DEF Subtotal
<1>7. AllPriced' = AllPriced
  BY <1>1 DEF AllPriced, Unpriced
<1> QED BY <1>1, <1>4, <1>6, <1>7

\* An edit's or a regeneration's commit: the lines change as they please, but a line
\* keeps its place and its item, and a recalculation is owed.
LEMMA LinesStep ==
  ASSUME NEW s \in Sessions, NEW changed \in BOOLEAN, NEW next, IInv,
         session' = Overtake(next, changed),
         next \in [Sessions -> Request],
         next[s].op = "recalculate", \A t \in Sessions \ {s} : next[t] = session[t],
         lines' # lines => changed,
         session[s].op \notin {"idle", "send"},
         LinesTyped', UNCHANGED <<quote, excused, quiet>>,
         DOMAIN lines \subseteq DOMAIN lines',
         \A i \in Active' \cap DOMAIN lines :
           i \in Active /\ lines'[i].item = lines[i].item
  PROVE  IInv'
<1>1. /\ SessionTyped' /\ session'[s].op = "recalculate"
      /\ \A t \in Sessions \ {s} : Kept(t, changed)
  BY OthersKept
<1>2. Typed'
  BY <1>1 DEF IInv, Typed, QuoteTyped
<1>3. CurrentOK'
  <2> SUFFICES ASSUME NEW t \in Sessions,
                      session'[t].op \in {"recalculateLines", "recalculateWritten"},
                      session'[t].current
               PROVE  Computed(session[t])'
    BY DEF CurrentOK
  <2>1. lines' = lines /\ t # s
    BY <1>1 DEF Kept, ReadingOps
  <2>2. Computed(session[t])
    BY <1>1, <2>1 DEF IInv, CurrentOK, Kept
  <2>3. Subtotal' = Subtotal /\ Rewritten' = Rewritten /\ \A i : LineTotal(i)' = LineTotal(i)
    BY <2>1 DEF Active, LineTotal, Base, Subtotal, Rewritten
  <2> QED BY <1>1, <2>1, <2>2, <2>3 DEF Computed, Kept
<1>4. SendOK'
  <2> SUFFICES ASSUME NEW t \in Sessions, session'[t].op = "send", session'[t].current
               PROVE  AllPriced'
    BY DEF SendOK
  <2>1. lines' = lines /\ t # s
    BY <1>1 DEF Kept, ReadingOps
  <2>2. AllPriced
    BY <1>1, <2>1 DEF IInv, SendOK, Kept
  <2> QED BY <2>1, <2>2 DEF AllPriced, Active, Unpriced
<1>5. TouchOK'
  <2> SUFFICES ASSUME NEW t \in Sessions,
                      session'[t].op \in {"regenerateLines", "regenerateWritten"}
               PROVE  Voids(session[t])'
    BY DEF TouchOK
  <2>1. t # s
    BY <1>1 DEF Kept
  <2>2. Voids(session[t])
    BY <1>1, <2>1 DEF IInv, TouchOK, Kept
  <2>3. session'[t].current => lines' = lines /\ session[t].current
    BY <1>1, <2>1 DEF Kept, ReadingOps
  <2>4. lines' = lines => FromTemplate' = FromTemplate
    BY DEF FromTemplate, Active
  <2> QED BY <1>1, <2>1, <2>2, <2>3, <2>4 DEF Voids, Kept
<1>6. ~quiet
  BY DEF IInv, QuietOK
<1>7. QuietOK' /\ StaleHasACause'
  BY <1>1, <1>6 DEF QuietOK, StaleHasACause, OwingOps
<1>8. TotalsOK'
  BY <1>1 DEF IInv, TotalsOK, Kept
<1> QED BY <1>2, <1>3, <1>4, <1>5, <1>7, <1>8 DEF IInv

-----------------------------------------------------------------------------
\* The lines, one at a time.

LEMMA VoidLineTyped == VoidLine \in Line /\ VoidLine.record = "void"
BY PricesAssumption DEF VoidLine, Line, Items

LEMMA LinesMapped ==
  ASSUME LinesTyped, NEW rows, rows = [i \in DOMAIN lines |-> rows[i]],
         \A i \in DOMAIN lines : rows[i] \in Line
  PROVE  rows \in Seq(Line) /\ Len(rows) <= MaxLines /\ DOMAIN rows = DOMAIN lines
<1>1. PICK n \in Nat : DOMAIN lines = 1..n /\ n <= MaxLines
  BY DEF LinesTyped
<1>2. rows \in [1..n -> Line]
  BY <1>1
<1> QED BY <1>1, <1>2

LEMMA LineAppended ==
  ASSUME NEW rows \in Seq(Line), Len(rows) < MaxLines, NEW line \in Line
  PROVE  /\ Append(rows, line) \in Seq(Line) /\ Len(Append(rows, line)) <= MaxLines
         /\ DOMAIN rows \subseteq DOMAIN Append(rows, line)
         /\ \A i \in DOMAIN rows : Append(rows, line)[i] = rows[i]
         /\ DOMAIN Append(rows, line) = DOMAIN rows \cup {Len(rows) + 1}
         /\ Append(rows, line)[Len(rows) + 1] = line
BY LinesAssumption

LEMMA WriteLinesKeeps ==
  ASSUME NEW s \in Sessions, NEW rows, IInv, WriteLines(s, rows),
         rows \in Seq(Line), Len(rows) <= MaxLines,
         DOMAIN lines \subseteq DOMAIN rows,
         \A i \in DOMAIN lines : rows[i].record = "active" =>
           i \in Active /\ rows[i].item = lines[i].item
  PROVE  IInv'
<1>1. PICK changed \in BOOLEAN : changed = (rows # lines)
  OBVIOUS
<1>2. PICK next :
        /\ next = [session EXCEPT ![s] = Recalculation(s)]
        /\ next \in [Sessions -> Request]
        /\ next[s].op = "recalculate" /\ \A t \in Sessions \ {s} : next[t] = session[t]
  BY RecalculationSet DEF IInv, Typed
<1>3. session' = Overtake(next, changed)
  BY <1>1, <1>2 DEF WriteLines
<1>4. lines' = rows /\ session[s].op = "edit" /\ UNCHANGED <<quote, excused, quiet>>
  BY DEF WriteLines
<1>5. LinesTyped' /\ (lines' # lines => changed) /\ session[s].op \notin {"idle", "send"}
  BY <1>1, <1>4 DEF LinesTyped
<1>6. \A i \in Active' \cap DOMAIN lines : i \in Active /\ lines'[i].item = lines[i].item
  BY <1>4 DEF Active
<1>7. /\ next \in [Sessions -> Request]
      /\ next[s].op = "recalculate" /\ \A t \in Sessions \ {s} : next[t] = session[t]
  BY <1>2
<1> QED BY <1>4, <1>5, <1>6, <1>3, <1>7, LinesStep

LEMMA EditLineKeeps ==
  ASSUME NEW s \in Sessions, NEW i \in DOMAIN lines, NEW price \in Prices, IInv,
         EditLine(s, i, price)
  PROVE  IInv'
<1>1. LinesTyped /\ lines \in Seq(Line)
  BY DEF IInv, Typed, LinesTyped
<1>2. PICK line : line = IF i \in Active THEN [lines[i] EXCEPT !.price = price] ELSE VoidLine
  OBVIOUS
<1>3. /\ line \in Line
      /\ line.record = "active" => i \in Active /\ line.item = lines[i].item
  <2>1. lines[i] \in Line
    BY <1>1
  <2>2. CASE i \in Active
    BY <1>2, <2>1, <2>2 DEF Line
  <2>3. CASE i \notin Active
    BY <1>2, <2>3, VoidLineTyped
  <2> QED BY <2>2, <2>3
<1>4. PICK rows : rows = [lines EXCEPT ![i] = line]
  OBVIOUS
<1>5. /\ rows = [j \in DOMAIN lines |-> rows[j]] /\ rows[i] = line
      /\ \A j \in DOMAIN lines \ {i} : rows[j] = lines[j]
  BY <1>4
<1>6. \A j \in DOMAIN lines : rows[j] \in Line
  BY <1>1, <1>3, <1>5
<1>7. rows \in Seq(Line) /\ Len(rows) <= MaxLines /\ DOMAIN rows = DOMAIN lines
  BY <1>1, <1>5, <1>6, LinesMapped
<1>8. WriteLines(s, rows)
  BY <1>2, <1>4 DEF EditLine
<1>9. \A j \in DOMAIN lines : rows[j].record = "active" =>
        j \in Active /\ rows[j].item = lines[j].item
  BY <1>3, <1>5 DEF Active
<1> QED BY <1>7, <1>8, <1>9, WriteLinesKeeps

LEMMA RemoveLineKeeps ==
  ASSUME NEW s \in Sessions, NEW i \in DOMAIN lines, IInv, RemoveLine(s, i)
  PROVE  IInv'
<1>1. LinesTyped /\ lines \in Seq(Line)
  BY DEF IInv, Typed, LinesTyped
<1>2. PICK rows : rows = [lines EXCEPT ![i] = VoidLine]
  OBVIOUS
<1>3. /\ rows = [j \in DOMAIN lines |-> rows[j]] /\ rows[i] = VoidLine
      /\ \A j \in DOMAIN lines \ {i} : rows[j] = lines[j]
  BY <1>2
<1>4. \A j \in DOMAIN lines : rows[j] \in Line
  BY <1>1, <1>3, VoidLineTyped
<1>5. rows \in Seq(Line) /\ Len(rows) <= MaxLines /\ DOMAIN rows = DOMAIN lines
  BY <1>1, <1>3, <1>4, LinesMapped
<1>6. WriteLines(s, rows)
  BY <1>2 DEF RemoveLine
<1>7. \A j \in DOMAIN lines : rows[j].record = "active" =>
        j \in Active /\ rows[j].item = lines[j].item
  BY <1>3, VoidLineTyped DEF Active
<1> QED BY <1>5, <1>6, <1>7, WriteLinesKeeps

LEMMA AddLineKeeps ==
  ASSUME NEW s \in Sessions, NEW item \in AddedItems, NEW price \in Prices, IInv,
         AddLine(s, item, price)
  PROVE  IInv'
<1>1. LinesTyped /\ lines \in Seq(Line)
  BY DEF IInv, Typed, LinesTyped
<1>2. PICK line \in Line : line = NewLine(item, TRUE, price)
  BY LinesAssumption DEF NewLine, Line
<1>3. PICK rows : rows = Append(lines, line)
  OBVIOUS
<1>4. Len(lines) < MaxLines
  BY DEF AddLine
<1>5. /\ rows \in Seq(Line) /\ Len(rows) <= MaxLines /\ DOMAIN lines \subseteq DOMAIN rows
      /\ \A i \in DOMAIN lines : rows[i] = lines[i]
  BY <1>1, <1>2, <1>3, <1>4, LineAppended
<1>6. WriteLines(s, rows)
  BY <1>2, <1>3 DEF AddLine
<1>7. \A i \in DOMAIN lines : rows[i].record = "active" =>
        i \in Active /\ rows[i].item = lines[i].item
  BY <1>5 DEF Active
<1> QED BY <1>5, <1>6, <1>7, WriteLinesKeeps

\* A regeneration's commit keeps what it did not mean to void, and voids only lines
\* of the template's item, and adds one.
LEMMA RegenerateCommitLines ==
  ASSUME NEW s \in Sessions, NEW price \in Prices, IInv, RegenerateCommit(s, price)
  PROVE  /\ LinesTyped' /\ DOMAIN lines \subseteq DOMAIN lines'
         /\ \A i \in DOMAIN lines :
              lines'[i] = IF i \in session[s].touched THEN VoidLine ELSE lines[i]
         /\ DOMAIN lines' = DOMAIN lines \cup {Len(lines) + 1}
         /\ lines'[Len(lines) + 1].record = "active"
         /\ lines'[Len(lines) + 1].item = "templated"
<1>1. LinesTyped /\ lines \in Seq(Line)
  BY DEF IInv, Typed, LinesTyped
<1>2. PICK kept : kept = [i \in DOMAIN lines |->
                            IF i \in session[s].touched THEN VoidLine ELSE lines[i]]
  OBVIOUS
<1>3. kept \in Seq(Line) /\ DOMAIN kept = DOMAIN lines
  <2>1. \A i \in DOMAIN lines : kept[i] \in Line
    BY <1>1, <1>2, VoidLineTyped
  <2>2. kept = [i \in DOMAIN lines |-> kept[i]]
    BY <1>2
  <2> QED BY <1>1, <2>1, <2>2, LinesMapped
<1>4. PICK line \in Line : line = NewLine("templated", FALSE, price)
  BY DEF NewLine, Line, Items
<1>5. lines' = Append(kept, line)
  BY <1>2, <1>4 DEF RegenerateCommit
<1>6. Len(kept) < MaxLines
  BY <1>1, <1>3 DEF RegenerateCommit
<1>7. /\ lines' \in Seq(Line) /\ Len(lines') <= MaxLines /\ DOMAIN lines \subseteq DOMAIN lines'
      /\ \A i \in DOMAIN lines : lines'[i] = kept[i]
      /\ DOMAIN lines' = DOMAIN kept \cup {Len(kept) + 1} /\ lines'[Len(kept) + 1] = line
  BY <1>3, <1>5, <1>6, LineAppended
<1>8. Len(kept) = Len(lines)
  BY <1>1, <1>3
<1>9. line.record = "active" /\ line.item = "templated"
  BY <1>4 DEF NewLine
<1> QED BY <1>2, <1>3, <1>7, <1>8, <1>9 DEF LinesTyped

LEMMA RegenerateCommitKeeps ==
  ASSUME NEW s \in Sessions, NEW price \in Prices, IInv, RegenerateCommit(s, price)
  PROVE  IInv'
<1>1. /\ LinesTyped' /\ DOMAIN lines \subseteq DOMAIN lines'
      /\ \A i \in DOMAIN lines :
           lines'[i] = IF i \in session[s].touched THEN VoidLine ELSE lines[i]
  BY RegenerateCommitLines
<1>2. \A i \in Active' \cap DOMAIN lines : i \in Active /\ lines'[i].item = lines[i].item
  BY <1>1, VoidLineTyped DEF Active
<1>3. PICK next :
        /\ next = [session EXCEPT ![s] = Recalculation(s)]
        /\ next \in [Sessions -> Request]
        /\ next[s].op = "recalculate" /\ \A t \in Sessions \ {s} : next[t] = session[t]
  BY RecalculationSet DEF IInv, Typed
<1>4. /\ session' = Overtake(next, TRUE)
      /\ session[s].op \notin {"idle", "send"} /\ UNCHANGED <<quote, excused, quiet>>
  BY <1>3 DEF RegenerateCommit
<1>5. /\ next \in [Sessions -> Request]
      /\ next[s].op = "recalculate" /\ \A t \in Sessions \ {s} : next[t] = session[t]
  BY <1>3
<1> QED BY <1>1, <1>2, <1>4, <1>5, LinesStep

\* A recalculation's commit writes totals and nothing else of a line.
LEMMA RecalculateCommitLines ==
  ASSUME NEW s \in Sessions, IInv, RecalculateCommit(s)
  PROVE  /\ LinesTyped' /\ DOMAIN lines' = DOMAIN lines
         /\ \A i \in DOMAIN lines : lines'[i].record = lines[i].record
         /\ \A i \in Active :
              /\ lines'[i].item = lines[i].item /\ lines'[i].price = lines[i].price
              /\ lines'[i].total = IF i \in session[s].touched THEN session[s].totals[i]
                                   ELSE lines[i].total
<1>1. LinesTyped /\ lines \in Seq(Line)
  BY DEF IInv, Typed, LinesTyped
<1>2. session[s].touched \subseteq DOMAIN session[s].totals /\ session[s].totals \in Seq(Nat)
  BY DEF IInv, Typed, SessionTyped, TotalsOK, Request, RecalculateCommit
<1>3. PICK rows : rows = [i \in DOMAIN lines |->
                            IF i \in session[s].touched
                            THEN Retotalled(i, session[s].totals[i]) ELSE lines[i]]
  OBVIOUS
<1>4. lines' = rows
  BY <1>3 DEF RecalculateCommit
<1>5. ASSUME NEW i \in DOMAIN lines
      PROVE  /\ rows[i] \in Line /\ rows[i].record = lines[i].record
             /\ i \in Active =>
                  /\ rows[i].item = lines[i].item /\ rows[i].price = lines[i].price
                  /\ rows[i].total = IF i \in session[s].touched THEN session[s].totals[i]
                                     ELSE lines[i].total
  <2>1. lines[i] \in Line
    BY <1>1
  <2>2. CASE i \notin session[s].touched
    BY <1>3, <2>1, <2>2
  <2>3. CASE i \in session[s].touched /\ i \in Active
    <3>1. PICK total \in Nat : total = session[s].totals[i]
      BY <1>2, <2>3
    <3>2. rows[i] = [lines[i] EXCEPT !.total = total]
      BY <1>3, <2>3, <3>1 DEF Retotalled
    <3> QED BY <2>1, <2>3, <3>1, <3>2 DEF Line
  <2>4. CASE i \in session[s].touched /\ i \notin Active
    <3>1. rows[i] = VoidLine
      BY <1>3, <2>4 DEF Retotalled
    <3>2. lines[i].record = "void"
      BY <2>1, <2>4 DEF Line, Active
    <3> QED BY <2>4, <3>1, <3>2, VoidLineTyped
  <2> QED BY <2>2, <2>3, <2>4
<1>6. rows = [i \in DOMAIN lines |-> rows[i]]
  BY <1>3
<1>7. rows \in Seq(Line) /\ Len(rows) <= MaxLines /\ DOMAIN rows = DOMAIN lines
  BY <1>1, <1>5, <1>6, LinesMapped
<1> QED BY <1>4, <1>5, <1>7 DEF LinesTyped, Active

LEMMA RecalculateCommitKeeps ==
  ASSUME NEW s \in Sessions, IInv, RecalculateCommit(s)
  PROVE  IInv'
<1>1. /\ LinesTyped' /\ DOMAIN lines' = DOMAIN lines
      /\ \A i \in DOMAIN lines : lines'[i].record = lines[i].record
      /\ \A i \in Active :
           /\ lines'[i].item = lines[i].item /\ lines'[i].price = lines[i].price
           /\ lines'[i].total = IF i \in session[s].touched THEN session[s].totals[i]
                                ELSE lines[i].total
  BY RecalculateCommitLines
<1>2. /\ Active' = Active /\ Subtotal' = Subtotal /\ AllPriced' = AllPriced
      /\ \A i \in Active : LineTotal(i)' = LineTotal(i)
  BY <1>1, SamePrices
<1>3. PICK changed \in BOOLEAN : changed = (lines' # lines)
  OBVIOUS
<1>4. PICK next :
        /\ session' = Overtake(next, changed)
        /\ next \in [Sessions -> Request]
        /\ next[s].op = "idle" /\ \A t \in Sessions \ {s} : next[t] = session[t]
  <2>1. SessionTyped
    BY DEF IInv, Typed
  <2>2. PICK next :
          /\ next = [session EXCEPT ![s] = Idle]
          /\ next \in [Sessions -> Request]
          /\ next[s].op = "idle" /\ \A t \in Sessions \ {s} : next[t] = session[t]
    BY <2>1, IdleSet
  <2>3. session' = Overtake(next, changed)
    BY <1>3, <2>2 DEF RecalculateCommit
  <2> QED BY <2>2, <2>3
<1>5. /\ SessionTyped' /\ session'[s].op = "idle"
      /\ \A t \in Sessions \ {s} : Kept(t, changed)
  BY <1>4, OthersKept
<1>6. /\ session[s].op = "recalculateWritten" /\ quiet' = quiet
      /\ quote' = [quote EXCEPT !.total = session[s].sum] /\ excused' = ~session[s].current
  BY DEF RecalculateCommit
<1>7. QuoteTyped' /\ quote'.total = session[s].sum
  <2>1. quote \in [status : {"draft", "sent"}, total : Nat]
    BY DEF IInv, Typed, QuoteTyped
  <2>2. PICK sum \in Nat : sum = session[s].sum
    BY DEF IInv, Typed, SessionTyped, Request
  <2> QED BY <1>6, <2>1, <2>2 DEF QuoteTyped
<1>8. Typed'
  BY <1>1, <1>5, <1>6, <1>7 DEF IInv, Typed
<1>9. CurrentOK'
  <2> SUFFICES ASSUME NEW t \in Sessions,
                      session'[t].op \in {"recalculateLines", "recalculateWritten"},
                      session'[t].current
               PROVE  Computed(session[t])'
    BY DEF CurrentOK
  <2>1. lines' = lines /\ t # s
    BY <1>3, <1>5 DEF Kept, ReadingOps
  <2>2. Computed(session[t])
    BY <1>5, <2>1 DEF IInv, CurrentOK, Kept
  <2>3. Subtotal' = Subtotal /\ Rewritten' = Rewritten /\ \A i : LineTotal(i)' = LineTotal(i)
    BY <2>1 DEF Active, LineTotal, Base, Subtotal, Rewritten
  <2> QED BY <1>5, <2>1, <2>2, <2>3 DEF Computed, Kept
<1>10. SendOK'
  BY <1>2, <1>5 DEF IInv, SendOK, Kept
<1>11. TouchOK'
  <2> SUFFICES ASSUME NEW t \in Sessions,
                      session'[t].op \in {"regenerateLines", "regenerateWritten"}
               PROVE  Voids(session[t])'
    BY DEF TouchOK
  <2>1. t # s
    BY <1>5
  <2>2. Voids(session[t])
    BY <1>5, <2>1 DEF IInv, TouchOK, Kept
  <2>3. session'[t].current => session[t].current
    BY <1>5, <2>1 DEF Kept
  <2>4. FromTemplate' = FromTemplate
    BY <1>1, <1>2 DEF FromTemplate
  <2> QED BY <1>1, <1>2, <1>5, <2>1, <2>2, <2>3, <2>4 DEF Voids, Kept
<1>12. QuietOK'
  BY <1>6 DEF IInv, QuietOK
<1>13. StaleHasACause'
  <2> SUFFICES ASSUME ~excused' PROVE AddsUp'
    BY DEF StaleHasACause
  <2>1. Computed(session[s])
    BY <1>6 DEF IInv, CurrentOK
  <2>2. \A i \in Active : lines'[i].total = LineTotal(i)
    BY <1>1, <2>1 DEF Computed, Rewritten
  <2> QED BY <1>2, <1>7, <2>1, <2>2 DEF AddsUp, Computed
<1>14. TotalsOK'
  BY <1>5 DEF IInv, TotalsOK, Kept
<1> QED BY <1>8, <1>9, <1>10, <1>11, <1>12, <1>13, <1>14 DEF IInv

-----------------------------------------------------------------------------
\* Sending.

LEMMA SendCommitKeeps ==
  ASSUME NEW s \in Sessions, IInv, SendCommit(s)
  PROVE  IInv'
<1>1. PICK next :
        /\ next = [session EXCEPT ![s] = Idle]
        /\ next \in [Sessions -> Request]
        /\ next[s].op = "idle" /\ \A t \in Sessions \ {s} : next[t] = session[t]
  BY IdleSet DEF IInv, Typed
<1>2. SessionTyped' /\ session'[s].op = "idle" /\ \A t \in Sessions \ {s} : session'[t] = session[t]
  BY <1>1 DEF SendCommit, Go, SessionTyped
<1>3. session[s].op = "send" /\ UNCHANGED <<lines, excused>>
  BY DEF SendCommit
<1>4. QuoteTyped' /\ quote'.status = "sent" /\ quote'.total = quote.total
  BY DEF IInv, Typed, QuoteTyped, SendCommit
<1>5. quiet' = IF quote.status = "draft"
               THEN /\ session[s].current /\ ~excused
                    /\ \A t \in Sessions \ {s} : session[t].op \in {"idle", "send"}
               ELSE quiet
  BY DEF SendCommit
<1>6. quiet' \in BOOLEAN
  <2>1. session \in [Sessions -> Request]
    BY DEF IInv, Typed, SessionTyped
  <2>2. session[s].current \in BOOLEAN
    BY <2>1 DEF Request
  <2>3. quiet \in BOOLEAN /\ excused \in BOOLEAN
    BY DEF IInv, Typed
  <2> QED BY <1>5, <2>2, <2>3
<1>7. Typed'
  BY <1>2, <1>3, <1>4, <1>6 DEF IInv, Typed, LinesTyped
<1>8. /\ AllPriced' = AllPriced /\ AddsUp' = AddsUp
      /\ \A r : Voids(r)' = Voids(r) /\ Computed(r)' = Computed(r)
  BY <1>3, <1>4 DEF AllPriced, AddsUp, Voids, FromTemplate, Computed, Active, Unpriced,
                    LineTotal, Base, Subtotal, Rewritten
<1>9. CurrentOK' /\ SendOK' /\ TouchOK' /\ StaleHasACause' /\ TotalsOK'
  BY <1>2, <1>4, <1>8 DEF IInv, CurrentOK, SendOK, TouchOK, StaleHasACause, TotalsOK
<1>10. QuietOK'
  <2> SUFFICES ASSUME quiet'
               PROVE  /\ AddsUp' /\ AllPriced'
                      /\ \A t \in Sessions : session'[t].op \in {"idle", "send"}
    BY <1>4 DEF QuietOK
  <2>1. CASE quote.status = "draft"
    <3>1. /\ session[s].current /\ ~excused
          /\ \A t \in Sessions \ {s} : session[t].op \in {"idle", "send"}
      BY <1>5, <2>1
    <3>2. \A t \in Sessions : session[t].op \notin OwingOps
      BY <1>3, <3>1 DEF OwingOps
    <3>3. AddsUp /\ AllPriced
      BY <1>3, <2>1, <3>1, <3>2 DEF IInv, StaleHasACause, SendOK
    <3> QED BY <1>2, <1>8, <3>1, <3>3
  <2>2. CASE quote.status # "draft"
    <3>1. quiet
      BY <1>5, <2>2
    <3> QED BY <1>2, <1>8, <3>1 DEF IInv, QuietOK
  <2> QED BY <2>1, <2>2
<1> QED BY <1>7, <1>9, <1>10 DEF IInv

-----------------------------------------------------------------------------
\* Steps that only read, or write what nobody else can see yet.

\* The next move of a request that goes on with what it holds.
LEMMA Stepped ==
  ASSUME NEW s \in Sessions, NEW op \in Ops, SessionTyped
  PROVE  \E request \in Request :
           /\ request = [session[s] EXCEPT !.op = op]
           /\ request.op = op /\ request.touched = session[s].touched
           /\ request.sum = session[s].sum /\ request.totals = session[s].totals
           /\ request.current = session[s].current
<1>1. session[s] \in Request
  BY DEF SessionTyped
<1>2. PICK r \in Request : r = session[s]
  BY <1>1
<1>3. PICK T, U : Request = [op : Ops, touched : T, totals : U, sum : Nat, current : BOOLEAN]
  BY RequestShape
<1>4. /\ [r EXCEPT !.op = op] \in Request
      /\ [r EXCEPT !.op = op].op = op /\ [r EXCEPT !.op = op].touched = r.touched
      /\ [r EXCEPT !.op = op].sum = r.sum /\ [r EXCEPT !.op = op].totals = r.totals
      /\ [r EXCEPT !.op = op].current = r.current
  BY <1>3
<1> QED BY <1>2, <1>4

LEMMA ReadKeeps ==
  ASSUME NEW s \in Sessions, NEW op \in {"edit", "regenerateRead"}, IInv,
         RequireDraft(s, [Idle EXCEPT !.op = op])
  PROVE  IInv'
<1>1. PICK request \in Request :
        request = [Idle EXCEPT !.op = op] /\ request.op = op
  BY IdleTyped DEF Ops, RegenerateOps
<1>2. Go(s, request) /\ session[s].op = "idle" /\ quote.status = "draft"
      /\ UNCHANGED <<quote, lines, excused, quiet>>
  BY <1>1 DEF RequireDraft
<1>3. ~quiet /\ excused' \in BOOLEAN /\ excused' = excused
  BY <1>2 DEF IInv, QuietOK, Typed
<1>4. /\ request.op \notin {"recalculateLines", "recalculateWritten", "send", "regenerateLines",
                            "regenerateWritten"}
      /\ session[s].op \notin OwingOps
  BY <1>1, <1>2 DEF OwingOps
<1> QED BY <1>2, <1>3, <1>4, StillStep

LEMMA SendReadKeeps ==
  ASSUME NEW s \in Sessions, IInv, SendRead(s)
  PROVE  IInv'
<1>1. PICK request \in Request :
        request = [Idle EXCEPT !.op = "send"] /\ request.op = "send"
  BY IdleTyped DEF Ops
<1>2. Go(s, request) /\ session[s].op = "idle" /\ AllPriced
      /\ UNCHANGED <<quote, lines, excused, quiet>>
  BY <1>1 DEF SendRead
<1>3. /\ excused' \in BOOLEAN /\ excused' = excused /\ session[s].op \notin OwingOps
      /\ request.op = "send"
  BY <1>1, <1>2 DEF IInv, Typed, OwingOps
<1> QED BY <1>2, <1>3, StillStep

LEMMA FailKeeps ==
  ASSUME NEW s \in Sessions, IInv, Fail(s)
  PROVE  IInv'
<1>1. PICK request \in Request : request = Idle /\ request.op = "idle"
  BY IdleIsRequest
<1>2. /\ Go(s, request) /\ UNCHANGED <<quote, lines, quiet>>
      /\ excused' = (excused \/ session[s].op \in OwingOps)
  BY <1>1 DEF Fail
<1>3. /\ excused' \in BOOLEAN /\ (excused => excused')
      /\ (session[s].op \in OwingOps => excused')
  BY <1>2 DEF IInv, Typed
<1> QED BY <1>1, <1>2, <1>3, StillStep

LEMMA RegenerateLinesKeeps ==
  ASSUME NEW s \in Sessions, IInv, RegenerateLines(s)
  PROVE  IInv'
<1>1. session[s] \in Request
  BY DEF IInv, Typed, SessionTyped
<1>2. PICK r \in Request : r = session[s]
  BY <1>1
<1>3. FromTemplate \in SUBSET (1..MaxLines)
  <2>1. PICK n \in Nat : DOMAIN lines = 1..n /\ n <= MaxLines
    BY DEF IInv, Typed, LinesTyped
  <2> QED BY <2>1, LinesAssumption DEF FromTemplate, Active
<1>4. PICK touched \in SUBSET (1..MaxLines) : touched = FromTemplate
  BY <1>3
<1>5. PICK request : request = [r EXCEPT !.op = "regenerateLines", !.current = TRUE, !.touched = touched]
  OBVIOUS
<1>6. request \in Request /\ request.op = "regenerateLines" /\ request.touched = touched
  BY <1>5 DEF Request, Ops, RegenerateOps
<1>7. /\ Go(s, request) /\ session[s].op = "regenerateRead"
      /\ UNCHANGED <<quote, lines, excused, quiet>>
  BY <1>2, <1>4, <1>5 DEF RegenerateLines
<1>8. Voids(request)
  BY <1>4, <1>6 DEF Voids, FromTemplate, Active
<1>9. ~quiet /\ excused' \in BOOLEAN /\ excused' = excused /\ session[s].op \notin OwingOps
  BY <1>7 DEF IInv, QuietOK, Typed, OwingOps
<1> QED BY <1>6, <1>7, <1>8, <1>9, StillStep

LEMMA RegenerateWriteKeeps ==
  ASSUME NEW s \in Sessions, IInv, RegenerateWrite(s)
  PROVE  IInv'
<1>1. PICK request \in Request :
        /\ request = [session[s] EXCEPT !.op = "regenerateWritten"]
        /\ request.op = "regenerateWritten" /\ request.touched = session[s].touched
        /\ request.current = session[s].current
  BY Stepped DEF IInv, Typed, Ops, RegenerateOps
<1>2. /\ Go(s, request) /\ session[s].op = "regenerateLines"
      /\ UNCHANGED <<quote, lines, excused, quiet>>
  BY <1>1 DEF RegenerateWrite, Step
<1>3. Voids(request)
  BY <1>1, <1>2 DEF IInv, TouchOK, Voids
<1>4. /\ ~quiet /\ excused' \in BOOLEAN /\ excused' = excused /\ session[s].op \notin OwingOps
      /\ request.op = "regenerateWritten"
  BY <1>1, <1>2 DEF IInv, QuietOK, Typed, OwingOps
<1> QED BY <1>2, <1>3, <1>4, StillStep

LEMMA RecalculateReadKeeps ==
  ASSUME NEW s \in Sessions, IInv, RecalculateRead(s)
  PROVE  IInv'
<1>1. /\ session[s].op = "recalculate" /\ UNCHANGED <<quote, lines, excused, quiet>>
      /\ ~quiet /\ excused' \in BOOLEAN /\ excused' = excused
  BY DEF RecalculateRead, IInv, QuietOK, Typed
<1>2. CASE quote.status = "draft"
  <2>1. PICK request \in Request :
          request = [session[s] EXCEPT !.op = "recalculateRead"] /\ request.op = "recalculateRead"
    BY Stepped DEF IInv, Typed, Ops, OwingOps
  <2>2. Go(s, request)
    BY <1>2, <2>1 DEF RecalculateRead, Step
  <2>3. request.op \in OwingOps /\ request.op = "recalculateRead"
    BY <2>1 DEF OwingOps
  <2> QED BY <1>1, <2>2, <2>3, StillStep
<1>3. CASE quote.status # "draft"
  <2>1. PICK request \in Request : request = Idle /\ request.op = "idle"
    BY IdleIsRequest
  <2>2. Go(s, request)
    BY <1>3, <2>1 DEF RecalculateRead
  <2> QED BY <1>1, <1>3, <2>1, <2>2, StillStep
<1> QED BY <1>2, <1>3

LEMMA RecalculateLinesKeeps ==
  ASSUME NEW s \in Sessions, IInv, RecalculateLines(s)
  PROVE  IInv'
<1>1. session[s] \in Request
  BY DEF IInv, Typed, SessionTyped
<1>2. PICK r \in Request : r = session[s]
  BY <1>1
<1>3. Rewritten \in SUBSET (1..MaxLines) /\ Rewritten \subseteq DOMAIN lines
  <2>1. PICK n \in Nat : DOMAIN lines = 1..n /\ n <= MaxLines
    BY DEF IInv, Typed, LinesTyped
  <2> QED BY <2>1, LinesAssumption DEF Rewritten, Active
<1>4. PICK touched \in SUBSET (1..MaxLines) : touched = Rewritten
  BY <1>3
<1>5. PICK sum \in Nat, totals \in Seq(Nat) :
        /\ sum = Subtotal
        /\ totals = [i \in DOMAIN lines |-> IF i \in Rewritten THEN LineTotal(i) ELSE 0]
  <2>1. Subtotal \in Nat /\ \A i \in Active : LineTotal(i) \in Nat
    BY FiguresTyped DEF IInv, Typed
  <2>2. PICK totals :
          totals = [i \in DOMAIN lines |-> IF i \in Rewritten THEN LineTotal(i) ELSE 0]
    OBVIOUS
  <2>3. \A i \in DOMAIN lines : totals[i] \in Nat
    BY <2>1, <2>2 DEF Rewritten
  <2>4. PICK n \in Nat : DOMAIN lines = 1..n
    BY DEF IInv, Typed, LinesTyped
  <2>5. totals \in [1..n -> Nat]
    BY <2>2, <2>3, <2>4
  <2>6. totals \in Seq(Nat)
    BY <2>5
  <2> QED BY <2>1, <2>2, <2>6
<1>6. PICK request : request = [r EXCEPT !.op = "recalculateLines", !.sum = sum, !.current = TRUE,
                                         !.touched = touched, !.totals = totals]
  OBVIOUS
<1>7. /\ request \in Request /\ request.op = "recalculateLines"
      /\ request.touched = touched /\ request.sum = sum /\ request.totals = totals
  BY <1>6 DEF Request, Ops, OwingOps
<1>8. /\ Go(s, request) /\ session[s].op = "recalculateRead"
      /\ UNCHANGED <<quote, lines, excused, quiet>>
  BY <1>2, <1>4, <1>5, <1>6 DEF RecalculateLines
<1>9. Computed(request)
  <2>1. \A i \in Rewritten : totals[i] = LineTotal(i)
    BY <1>5 DEF Rewritten, Active
  <2> QED BY <1>4, <1>5, <1>7, <2>1 DEF Computed
<1>10. ~quiet /\ excused' \in BOOLEAN /\ excused' = excused /\ request.op \in OwingOps
  BY <1>7, <1>8 DEF IInv, QuietOK, Typed, OwingOps
<1>11. request.touched \subseteq DOMAIN request.totals
  BY <1>3, <1>4, <1>5, <1>7
<1>12. request \in Request /\ request.op = "recalculateLines"
  BY <1>7
<1> QED BY <1>8, <1>9, <1>10, <1>11, <1>12, StillStep

LEMMA RecalculateWriteKeeps ==
  ASSUME NEW s \in Sessions, IInv, RecalculateWrite(s)
  PROVE  IInv'
<1>1. PICK request \in Request :
        /\ request = [session[s] EXCEPT !.op = "recalculateWritten"]
        /\ request.op = "recalculateWritten" /\ request.touched = session[s].touched
        /\ request.sum = session[s].sum /\ request.totals = session[s].totals
        /\ request.current = session[s].current
  BY Stepped DEF IInv, Typed, Ops, OwingOps
<1>2. /\ Go(s, request) /\ session[s].op = "recalculateLines"
      /\ UNCHANGED <<quote, lines, excused, quiet>>
  BY <1>1 DEF RecalculateWrite, Step
<1>3. request.touched \subseteq DOMAIN request.totals
  BY <1>1, <1>2 DEF IInv, TotalsOK
<1>4. request.current => Computed(request)
  BY <1>1, <1>2 DEF IInv, CurrentOK, Computed
<1>5. /\ ~quiet /\ excused' \in BOOLEAN /\ excused' = excused /\ request.op \in OwingOps
      /\ request.op = "recalculateWritten"
  BY <1>1, <1>2 DEF IInv, QuietOK, Typed, OwingOps
<1> QED BY <1>2, <1>4, <1>5, <1>3, StillStep

-----------------------------------------------------------------------------
\* The theorems.

LEMMA InitOK == Init => IInv
<1> SUFFICES ASSUME Init PROVE IInv
  OBVIOUS
<1>1. PICK price \in Prices :
        /\ lines = <<[item |-> "templated", added |-> FALSE, price |-> price, total |-> price,
                      record |-> "active"]>>
        /\ quote = [status |-> "draft", total |-> price]
  BY DEF Init
<1>2. session = [s \in Sessions |-> Idle] /\ excused = FALSE /\ quiet = FALSE
  BY DEF Init
<1>3. Typed
  <2>1. price \in Nat
    BY PricesAssumption
  <2>2. QuoteTyped
    BY <1>1, <2>1 DEF QuoteTyped
  <2>3. LinesTyped
    <3>1. PICK line : line = [item |-> "templated", added |-> FALSE, price |-> price,
                              total |-> price, record |-> "active"]
      OBVIOUS
    <3>2. line \in Line
      BY <2>1, <3>1 DEF Line, Items
    <3>3. lines = <<line>>
      BY <1>1, <3>1
    <3> QED BY <3>2, <3>3, LinesAssumption DEF LinesTyped
  <2>4. SessionTyped
    BY <1>2, IdleIsRequest DEF SessionTyped
  <2> QED BY <1>2, <2>2, <2>3, <2>4 DEF Typed
<1>4. \A s \in Sessions : session[s].op = "idle"
  BY <1>2, IdleIsRequest
<1>5. TotalsOK /\ CurrentOK /\ SendOK /\ TouchOK /\ QuietOK
  BY <1>2, <1>4 DEF TotalsOK, CurrentOK, SendOK, TouchOK, QuietOK
<1>6. AddsUp
  <2>1. /\ DOMAIN lines = {1} /\ lines[1].record = "active" /\ lines[1].item = "templated"
        /\ lines[1].price = price /\ lines[1].total = price /\ quote.total = price
    BY <1>1
  <2>2. Active = {1} /\ LineTotal(1) = price
    BY <2>1 DEF Active, LineTotal
  <2>3. [i \in Active |-> LineTotal(i)] = [i \in {1} |-> price]
    BY <2>2
  <2>4. price \in Nat
    BY PricesAssumption
  <2>5. PICK f : f = [i \in {1} |-> price]
    OBVIOUS
  <2>6. SumFunctionOnSet(f, {1}) = price /\ DOMAIN f = {1}
    BY <2>4, <2>5, SumOfOne
  <2>7. Subtotal = price
    BY <2>3, <2>5, <2>6 DEF Subtotal, SumFunction
  <2> QED BY <2>1, <2>2, <2>7 DEF AddsUp
<1> QED BY <1>3, <1>5, <1>6 DEF IInv, StaleHasACause

LEMMA NextKeeps == IInv /\ [Next]_vars => IInv'
<1> SUFFICES ASSUME IInv, [Next]_vars PROVE IInv'
  OBVIOUS
<1>1. CASE UNCHANGED vars
  <2>1. UNCHANGED <<quote, lines, session, excused, quiet>>
    BY <1>1 DEF vars
  <2>2. /\ AllPriced' = AllPriced /\ AddsUp' = AddsUp
        /\ \A r : Voids(r)' = Voids(r) /\ Computed(r)' = Computed(r)
    BY <2>1 DEF AllPriced, AddsUp, Voids, FromTemplate, Computed, Active, Unpriced,
                LineTotal, Base, Subtotal, Rewritten
  <2>3. Typed'
    BY <2>1 DEF IInv, Typed, QuoteTyped, LinesTyped, SessionTyped
  <2> QED BY <2>1, <2>2, <2>3 DEF IInv, TotalsOK, CurrentOK, SendOK, TouchOK, QuietOK,
                                 StaleHasACause
<1>2. ASSUME NEW s \in Sessions, Edit(s) PROVE IInv'
  <2>1. CASE EditRead(s)
    BY <2>1, ReadKeeps DEF EditRead
  <2>2. ASSUME NEW i \in DOMAIN lines, RemoveLine(s, i) PROVE IInv'
    BY <2>2, RemoveLineKeeps
  <2>3. ASSUME NEW i \in DOMAIN lines, NEW price \in Prices, EditLine(s, i, price) PROVE IInv'
    BY <2>3, EditLineKeeps
  <2>4. ASSUME NEW item \in AddedItems, NEW price \in Prices, AddLine(s, item, price)
        PROVE  IInv'
    BY <2>4, AddLineKeeps
  <2> QED BY <1>2, <2>1, <2>2, <2>3, <2>4 DEF Edit
<1>3. ASSUME NEW s \in Sessions, Regenerate(s) PROVE IInv'
  <2>1. CASE RegenerateRead(s)
    BY <2>1, ReadKeeps DEF RegenerateRead
  <2>2. CASE RegenerateLines(s)
    BY <2>2, RegenerateLinesKeeps
  <2>3. CASE RegenerateWrite(s)
    BY <2>3, RegenerateWriteKeeps
  <2>4. ASSUME NEW price \in Prices, RegenerateCommit(s, price) PROVE IInv'
    BY <2>4, RegenerateCommitKeeps
  <2> QED BY <1>3, <2>1, <2>2, <2>3, <2>4 DEF Regenerate
<1>4. ASSUME NEW s \in Sessions, Recalculate(s) PROVE IInv'
  BY <1>4, RecalculateReadKeeps, RecalculateLinesKeeps, RecalculateWriteKeeps,
     RecalculateCommitKeeps DEF Recalculate
<1>5. ASSUME NEW s \in Sessions, SendRead(s) \/ SendCommit(s) \/ Fail(s) PROVE IInv'
  BY <1>5, SendReadKeeps, SendCommitKeeps, FailKeeps
<1> QED BY <1>1, <1>2, <1>3, <1>4, <1>5 DEF Next

LEMMA Inductive == Spec => []IInv
BY InitOK, NextKeeps, PTL DEF Spec

\* Types hold: a sum of prices is a natural number, whatever the lines are.
THEOREM TypeOKAlways == Spec => []TypeOK
<1>1. IInv => TypeOK
  BY DEF IInv, Typed, QuoteTyped, LinesTyped, SessionTyped, TypeOK
<1> QED BY <1>1, Inductive, PTL

\* For any sessions, prices and length of quote: a draft nobody is at work on adds
\* up, unless its last recalculation was lost or overtaken.
THEOREM StaleHasACauseAlways == Spec => []StaleHasACause
<1>1. IInv => StaleHasACause
  BY DEF IInv
<1> QED BY <1>1, Inductive, PTL

\* What was sent while nobody was changing it adds up, and is priced, for good.
THEOREM QuietlySentStandsAlways == Spec => []QuietlySentStands
<1>1. IInv => QuietlySentStands
  BY DEF IInv, QuietOK, QuietlySentStands
<1> QED BY <1>1, Inductive, PTL

\* No header that has gone out is ever written again.
THEOREM SentHeaderIsFinalAlways == Spec => SentHeaderIsFinal
<1>1. IInv /\ [Next]_vars => [quote.status = "sent" => quote' = quote]_vars
  <2> SUFFICES ASSUME IInv, Next, quote.status = "sent" PROVE quote' = quote
    BY DEF vars
  <2>1. quote \in [status : {"draft", "sent"}, total : Nat]
    BY DEF IInv, Typed, QuoteTyped
  <2>2. ASSUME NEW s \in Sessions, RecalculateCommit(s) PROVE quote' = quote
    <3>1. quote' = [quote EXCEPT !.total = session[s].sum] /\ HeaderWritable(quote')
      BY <2>2 DEF RecalculateCommit
    <3>2. quote'.total = quote.total
      BY <3>1 DEF HeaderWritable
    <3> QED BY <2>1, <3>1, <3>2
  <2>3. ASSUME NEW s \in Sessions, SendCommit(s) PROVE quote' = quote
    BY <2>1, <2>3 DEF SendCommit
  <2>4. ASSUME NEW s \in Sessions, Edit(s) PROVE quote' = quote
    BY <2>4 DEF Edit, EditRead, RequireDraft, RemoveLine, EditLine, AddLine, WriteLines
  <2>5. ASSUME NEW s \in Sessions, Regenerate(s) PROVE quote' = quote
    BY <2>5 DEF Regenerate, RegenerateRead, RequireDraft, RegenerateLines, RegenerateWrite,
                RegenerateCommit
  <2>6. ASSUME NEW s \in Sessions, Recalculate(s) PROVE quote' = quote
    BY <2>2, <2>6 DEF Recalculate, RecalculateRead, RecalculateLines, RecalculateWrite
  <2>7. ASSUME NEW s \in Sessions, SendRead(s) \/ Fail(s) PROVE quote' = quote
    BY <2>7 DEF SendRead, Fail
  <2> QED BY <2>3, <2>4, <2>5, <2>6, <2>7 DEF Next
<1> QED BY <1>1, Inductive, PTL DEF Spec, SentHeaderIsFinal

\* A regeneration voids only lines of the template's item; nobody having changed a
\* line since it read them, all of those, and the one it adds is then the only one.
THEOREM RegenerationAlwaysReplaces == Spec => RegenerationReplaces
<1>1. IInv => [\A s \in Sessions, price \in Prices : RegenerateCommit(s, price) =>
                 /\ \A i \in Active : lines[i].item # "templated" => lines'[i] = lines[i]
                 /\ session[s].current => FromTemplate' = {Len(lines) + 1}]_vars
  <2> SUFFICES ASSUME IInv, NEW s \in Sessions, NEW price \in Prices,
                      RegenerateCommit(s, price)
               PROVE  /\ \A i \in Active : lines[i].item # "templated" => lines'[i] = lines[i]
                      /\ session[s].current => FromTemplate' = {Len(lines) + 1}
    OBVIOUS
  <2>1. Voids(session[s])
    BY DEF RegenerateCommit, IInv, TouchOK
  <2>2. /\ \A i \in DOMAIN lines :
             lines'[i] = IF i \in session[s].touched THEN VoidLine ELSE lines[i]
        /\ DOMAIN lines' = DOMAIN lines \cup {Len(lines) + 1}
        /\ lines'[Len(lines) + 1].record = "active"
        /\ lines'[Len(lines) + 1].item = "templated"
    BY RegenerateCommitLines
  <2>3. \A i \in Active : lines[i].item # "templated" => lines'[i] = lines[i]
    BY <2>1, <2>2 DEF Voids, Active
  <2>4. ASSUME session[s].current PROVE FromTemplate' = {Len(lines) + 1}
    <3>1. session[s].touched = FromTemplate
      BY <2>1, <2>4 DEF Voids
    <3>2. ASSUME NEW i \in DOMAIN lines, lines'[i].record = "active"
          PROVE  lines'[i].item # "templated"
      BY <2>2, <3>1, <3>2, VoidLineTyped DEF FromTemplate, Active
    <3> QED BY <2>2, <3>2 DEF FromTemplate, Active
  <2> QED BY <2>3, <2>4
<1> QED BY <1>1, Inductive, PTL DEF RegenerationReplaces
=============================================================================
