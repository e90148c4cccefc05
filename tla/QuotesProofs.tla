---------------------------- MODULE QuotesProofs ----------------------------
(***************************************************************************)
(* Proofs about Quotes for every number of sessions and rows.              *)
(*                                                                         *)
(* A step either leaves the identity of every row alone (its kind,         *)
(* sequence, version and number) or appends one row: the first version of  *)
(* a new document, or the next version of one.  The indexes reject an      *)
(* append whose place is taken, and what a request read earlier (the       *)
(* Pending part of the invariant) leaves only the next free place.         *)
(***************************************************************************)
EXTENDS Quotes, TLAPS

-----------------------------------------------------------------------------
(* The inductive invariant.                                                *)

NumbersTaken == \A q \in Ids : quotes[q].number < nextSeq[quotes[q].kind]

\* A request of s that has taken its number holds the counter row.
HoldsCounter(s, request) ==
  /\ request.op \in {"templateNumbered", "templateRead", "blankNumbered"}
       => counterHolder["estimate"] = s
  /\ request.op = "raiseNumbered" => counterHolder["change_order"] = s

FollowsSequence(n, kind) == n = 1 \/ (n # 0 /\ n - 1 \in SequencesOf(kind))
FollowsVersion(v, q) == v # 0 /\ v - 1 \in VersionsOf(quotes[q])

\* What a request has read is a place in the table, or one past it.
Pending(request) ==
  /\ request.op \in {"page", "raiseRead", "raiseSequenced", "raiseNumbered", "voidRead"}
                     \cup ReviseOps \cup AcceptOps
       => request.quote \in Ids
  /\ request.op \in {"templateRead", "blankRead", "blankNumbered"}
       => FollowsSequence(request.sequence, "estimate")
  /\ request.op \in {"raiseSequenced", "raiseNumbered"}
       => FollowsSequence(request.sequence, "change_order")
  /\ request.op \in {"reviseVersions", "acceptVersions", "acceptWritten", "acceptStaged"}
       => FollowsVersion(request.version, request.quote)

IInv ==
  /\ TypeOK
  /\ IndexesHold(quotes)
  /\ NumberedWithoutGaps
  /\ NumbersTaken
  /\ NumberIdentifiesDocument
  /\ SupersededHasSuccessor
  /\ \A s \in Sessions : HoldsCounter(s, session[s]) /\ Pending(session[s])
  /\ TemplateNeverCollides

-----------------------------------------------------------------------------
(* The maximum of a dense set.                                             *)

\* One past the highest of 1..n is n + 1.
LEMMA NextAfterDense ==
  ASSUME NEW n \in Nat
  PROVE  NextAfter(1..n) = n + 1
<1>1. CASE n = 0
  <2>1. 1..n = {} BY <1>1
  <2> QED BY <1>1, <2>1 DEF NextAfter
<1>2. CASE n # 0
  <2>1. n \in 1..n /\ \A k \in 1..n : k <= n BY <1>2
  <2>2. \A m \in 1..n : (\A k \in 1..n : k <= m) => m = n BY <1>2
  <2>3. (CHOOSE m \in 1..n : \A k \in 1..n : k <= m) = n
    BY <2>1, <2>2
  <2>4. 1..n # {} BY <2>1
  <2> QED BY <2>3, <2>4 DEF NextAfter
<1> QED BY <1>1, <1>2

-----------------------------------------------------------------------------
(* What a write does to the table.                                         *)

SameIdentity(a, b) ==
  a.kind = b.kind /\ a.sequence = b.sequence /\ a.version = b.version /\ a.number = b.number

\* Every row there was is still there, under the same identity.
Kept == Ids \subseteq Ids' /\ \A i \in Ids : SameIdentity(quotes'[i], quotes[i])

\* In rows, no row became superseded, except q.
SupersedesOnly(rows, q) ==
  \A i \in Ids : rows[i].status = "superseded" => quotes[i].status = "superseded" \/ i = q

\* The rows of a table are records of its type at the places 1..Len.
LEMMA RowsAreTyped ==
  ASSUME TypeOK
  PROVE  /\ Ids = 1..Len(quotes) /\ Len(quotes) \in Nat
         /\ \A i \in Ids : quotes[i] \in Row
  BY DEF TypeOK, Ids

\* Places taken stay taken while rows keep their identity.
LEMMA PlacesStayTaken ==
  ASSUME Kept
  PROVE  /\ \A kind \in Kinds : SequencesOf(kind) \subseteq SequencesOf(kind)'
         /\ \A q \in Ids : VersionsOf(quotes[q]) \subseteq VersionsOf(quotes[q])'
<1>1. ASSUME NEW kind \in Kinds PROVE SequencesOf(kind) \subseteq SequencesOf(kind)'
  BY DEF Kept, SameIdentity, SequencesOf, Ids
<1>2. ASSUME NEW q \in Ids PROVE VersionsOf(quotes[q]) \subseteq VersionsOf(quotes[q])'
  BY <1>2 DEF Kept, SameIdentity, VersionsOf, SameDocument, Ids
<1> QED BY <1>1, <1>2

\* Without a new row the places taken are exactly the same.
LEMMA PlacesUnchanged ==
  ASSUME Kept, Ids' = Ids
  PROVE  /\ \A kind \in Kinds : SequencesOf(kind)' = SequencesOf(kind)
         /\ \A q \in Ids : VersionsOf(quotes[q])' = VersionsOf(quotes[q])
<1>1. ASSUME NEW kind \in Kinds PROVE SequencesOf(kind)' = SequencesOf(kind)
  BY DEF Kept, SameIdentity, SequencesOf, Ids
<1>2. ASSUME NEW q \in Ids PROVE VersionsOf(quotes[q])' = VersionsOf(quotes[q])
  BY <1>2 DEF Kept, SameIdentity, VersionsOf, SameDocument, Ids
<1> QED BY <1>1, <1>2

\* A write that adds no row and supersedes none keeps the numbering.
LEMMA NumberingKept ==
  ASSUME TypeOK, NumberedWithoutGaps, NumbersTaken, NumberIdentifiesDocument,
         SupersededHasSuccessor, TypeOK', Kept, Ids' = Ids, nextSeq' = nextSeq,
         \A i \in Ids : quotes'[i].status = "superseded" => quotes[i].status = "superseded"
  PROVE  /\ NumberedWithoutGaps' /\ NumbersTaken'
         /\ NumberIdentifiesDocument' /\ SupersededHasSuccessor'
<1>1. Len(quotes') = Len(quotes) BY DEF TypeOK, Ids
<1>2. NumberedWithoutGaps'
  BY <1>1, PlacesUnchanged DEF NumberedWithoutGaps
<1>3. NumbersTaken' BY DEF NumbersTaken, Kept, SameIdentity
<1>4. NumberIdentifiesDocument' BY DEF NumberIdentifiesDocument, Kept, SameIdentity
<1>5. SupersededHasSuccessor'
  BY DEF SupersededHasSuccessor, Kept, SameIdentity, SameDocument
<1> QED BY <1>2, <1>3, <1>4, <1>5

-----------------------------------------------------------------------------
(* A new document.                                                         *)

\* A pending sequence that the indexes let in is the next one of its kind.
LEMMA PendingSequenceIsNext ==
  ASSUME TypeOK, NumberedWithoutGaps, NEW kind \in Kinds, NEW n \in Nat,
         FollowsSequence(n, kind), n \notin SequencesOf(kind)
  PROVE  \E k \in 0..Len(quotes) : SequencesOf(kind) = 1..k /\ n = k + 1
<1>1. PICK k \in 0..Len(quotes) : SequencesOf(kind) = 1..k
  BY DEF NumberedWithoutGaps
<1>2. k \in Nat /\ n \notin 1..k /\ (n = 1 \/ (n # 0 /\ n - 1 \in 1..k))
  BY <1>1, RowsAreTyped DEF FollowsSequence
<1>3. n = k + 1 BY <1>2
<1> QED BY <1>1, <1>3

\* Every document there is has a first version, so the indexes refuse a second.
LEMMA TakenSequenceIsRefused ==
  ASSUME TypeOK, NumberedWithoutGaps, NEW row \in Row, row.version = 1,
         quotes' = Append(quotes, row), IndexesHold(quotes')
  PROVE  row.sequence \notin SequencesOf(row.kind)
<1> SUFFICES ASSUME row.sequence \in SequencesOf(row.kind) PROVE FALSE
  OBVIOUS
<1>1. PICK p \in Ids : SameDocument(quotes[p], row)
  BY DEF SequencesOf, SameDocument
<1>2. PICK n \in 1..Len(quotes) : VersionsOf(quotes[p]) = 1..n
  BY DEF NumberedWithoutGaps
<1>3. 1 \in VersionsOf(quotes[p]) BY <1>2, RowsAreTyped
<1>4. PICK f \in Ids : SameDocument(quotes[f], quotes[p]) /\ quotes[f].version = 1
  BY <1>3 DEF VersionsOf
<1>5. /\ f \in DOMAIN quotes' /\ Len(quotes) + 1 \in DOMAIN quotes'
      /\ f # Len(quotes) + 1
      /\ quotes'[f] = quotes[f] /\ quotes'[Len(quotes) + 1] = row
  BY RowsAreTyped DEF TypeOK, Ids
<1>6. SameDocument(quotes'[f], quotes'[Len(quotes) + 1])
  BY <1>1, <1>4, <1>5 DEF SameDocument
<1>7. quotes'[f].version # quotes'[Len(quotes) + 1].version
  BY <1>5, <1>6 DEF IndexesHold
<1> QED BY <1>4, <1>5, <1>7

\* The first version of a new document, at the next sequence and the next
\* number, keeps the numbering.
LEMMA NewDocumentKeepsNumbering ==
  ASSUME TypeOK, NumberedWithoutGaps, NumbersTaken, NumberIdentifiesDocument,
         SupersededHasSuccessor, TypeOK',
         NEW row \in Row, row.version = 1, row.status # "superseded",
         row.number = nextSeq[row.kind],
         FollowsSequence(row.sequence, row.kind),
         quotes' = Append(quotes, row), IndexesHold(quotes'),
         nextSeq' = [nextSeq EXCEPT ![row.kind] = @ + 1]
  PROVE  /\ NumberedWithoutGaps' /\ NumbersTaken'
         /\ NumberIdentifiesDocument' /\ SupersededHasSuccessor'
<1> DEFINE new == Len(quotes) + 1
<1>a. /\ Len(quotes) \in Nat /\ Ids = 1..Len(quotes)
      /\ \A i \in Ids : quotes[i] \in Row
  BY RowsAreTyped
<1>b. Len(quotes') = new /\ Ids' = 1..new /\ quotes'[new] = row
  BY <1>a DEF TypeOK, Ids
<1>c. \A i \in Ids : quotes'[i] = quotes[i]
  BY <1>a DEF TypeOK
<1>d. row.kind \in Kinds /\ row.sequence \in Nat
  BY DEF Row
<1>1. /\ Len(quotes) \in Nat /\ Ids = 1..Len(quotes) /\ Len(quotes') = new
      /\ Ids' = 1..new /\ quotes'[new] = row
      /\ \A i \in Ids : quotes'[i] = quotes[i] /\ quotes[i] \in Row
      /\ row.kind \in Kinds /\ row.sequence \in Nat
  BY <1>a, <1>b, <1>c, <1>d
<1> HIDE DEF new
<1>2. row.sequence \notin SequencesOf(row.kind)
  BY TakenSequenceIsRefused
<1>3. PICK k \in 0..Len(quotes) :
        SequencesOf(row.kind) = 1..k /\ row.sequence = k + 1
  BY <1>1, <1>2, PendingSequenceIsNext
<1>4. SequencesOf(row.kind)' = SequencesOf(row.kind) \cup {row.sequence}
  BY <1>1 DEF SequencesOf, new
<1>5. \A kind \in Kinds : kind # row.kind => SequencesOf(kind)' = SequencesOf(kind)
  BY <1>1 DEF SequencesOf, new
<1>6. \A kind \in Kinds : \E n \in 0..Len(quotes') : SequencesOf(kind)' = 1..n
  <2> SUFFICES ASSUME NEW kind \in Kinds
               PROVE  \E n \in 0..Len(quotes') : SequencesOf(kind)' = 1..n
    OBVIOUS
  <2>1. CASE kind = row.kind
    <3>1. 1..k \cup {k + 1} = 1..(k + 1) BY <1>1
    <3>2. SequencesOf(kind)' = 1..(k + 1) BY <1>3, <1>4, <2>1, <3>1
    <3>3. k + 1 \in 0..Len(quotes') BY <1>1 DEF new
    <3> QED BY <3>2, <3>3
  <2>2. CASE kind # row.kind
    <3>1. PICK n \in 0..Len(quotes) : SequencesOf(kind) = 1..n
      BY DEF NumberedWithoutGaps
    <3>2. n \in 0..Len(quotes') BY <1>1 DEF new
    <3> QED BY <1>5, <2>2, <3>1, <3>2
  <2> QED BY <2>1, <2>2
<1>7. \A i \in Ids : ~SameDocument(quotes[i], row)
  BY <1>2 DEF SequencesOf, SameDocument
<1>8. \A q \in Ids' : \E n \in 1..Len(quotes') : VersionsOf(quotes[q])' = 1..n
  <2> SUFFICES ASSUME NEW q \in Ids'
               PROVE  \E n \in 1..Len(quotes') : VersionsOf(quotes[q])' = 1..n
    OBVIOUS
  <2>1. CASE q \in Ids
    <3>1. VersionsOf(quotes[q])' = VersionsOf(quotes[q])
      <4>1. /\ quotes'[q] = quotes[q] /\ ~SameDocument(quotes'[new], quotes'[q])
            /\ \A i \in Ids : quotes'[i] = quotes[i]
        BY <1>1, <1>7, <2>1 DEF SameDocument
      <4>2. {i \in Ids' : SameDocument(quotes'[i], quotes'[q])}
              = {i \in Ids : SameDocument(quotes[i], quotes[q])}
        <5>1. Ids' = Ids \cup {new}
          BY <1>1 DEF new
        <5> QED BY <4>1, <5>1
      <4>3. \A i \in Ids : quotes'[i].version = quotes[i].version
        BY <4>1
      <4>4. {quotes'[i].version : i \in {j \in Ids : SameDocument(quotes[j], quotes[q])}}
              = {quotes[i].version : i \in {j \in Ids : SameDocument(quotes[j], quotes[q])}}
        BY <4>3
      <4> QED BY <4>2, <4>4 DEF VersionsOf
    <3>2. PICK n \in 1..Len(quotes) : VersionsOf(quotes[q]) = 1..n
      BY <2>1 DEF NumberedWithoutGaps
    <3>3. n \in 1..Len(quotes') BY <1>1 DEF new
    <3> QED BY <3>1, <3>2, <3>3
  <2>2. CASE q = new
    <3>1. VersionsOf(quotes[q])' = {1}
      BY <1>1, <1>7, <2>2 DEF VersionsOf, SameDocument, new
    <3>2. 1..1 = {1} /\ 1 \in 1..Len(quotes') BY <1>1 DEF new
    <3> QED BY <3>1, <3>2
  <2> QED BY <1>1, <2>1, <2>2 DEF new
<1>9. NumberedWithoutGaps' BY <1>6, <1>8 DEF NumberedWithoutGaps
<1>10. /\ nextSeq \in [Kinds -> Nat]
       /\ nextSeq'[row.kind] = nextSeq[row.kind] + 1
       /\ \A kind \in Kinds : kind # row.kind => nextSeq'[kind] = nextSeq[kind]
  BY <1>1 DEF TypeOK
<1>11. NumbersTaken'
  <2> SUFFICES ASSUME NEW q \in Ids' PROVE quotes'[q].number < nextSeq'[quotes'[q].kind]
    BY DEF NumbersTaken
  <2>1. CASE q \in Ids
    <3>1. /\ quotes'[q] = quotes[q] /\ quotes[q].kind \in Kinds
          /\ quotes[q].number \in Nat
      BY <1>1, <2>1 DEF Row
    <3>2. quotes[q].number < nextSeq[quotes[q].kind] BY <2>1 DEF NumbersTaken
    <3> QED BY <1>10, <3>1, <3>2
  <2>2. CASE q = new BY <1>1, <1>10, <2>2
  <2> QED BY <1>1, <2>1, <2>2 DEF new
<1>12. \A i \in Ids : quotes[i].kind = row.kind =>
         quotes[i].number # row.number /\ quotes[i].sequence # row.sequence
  <2> SUFFICES ASSUME NEW i \in Ids, quotes[i].kind = row.kind
               PROVE  quotes[i].number # row.number /\ quotes[i].sequence # row.sequence
    OBVIOUS
  <2>1. quotes[i].number < row.number BY DEF NumbersTaken
  <2>2. quotes[i].number \in Nat BY <1>1 DEF Row
  <2>3. ~SameDocument(quotes[i], row) BY <1>7
  <2> QED BY <2>1, <2>2, <2>3, <1>10, <1>1 DEF SameDocument
<1>13. NumberIdentifiesDocument'
  <2> SUFFICES ASSUME NEW p \in Ids', NEW q \in Ids', quotes'[p].kind = quotes'[q].kind
               PROVE  quotes'[p].number = quotes'[q].number
                        <=> quotes'[p].sequence = quotes'[q].sequence
    BY DEF NumberIdentifiesDocument
  <2>1. CASE p \in Ids /\ q \in Ids
    BY <1>1, <2>1 DEF NumberIdentifiesDocument
  <2>2. CASE p = new \/ q = new BY <1>1, <1>12, <2>2 DEF new
  <2> QED BY <1>1, <2>1, <2>2 DEF new
<1>14. SupersededHasSuccessor'
  <2> SUFFICES ASSUME NEW p \in Ids', quotes'[p].status = "superseded"
               PROVE  \E q \in Ids' : SameDocument(quotes'[p], quotes'[q])
                                         /\ quotes'[q].version > quotes'[p].version
    BY DEF SupersededHasSuccessor
  <2>1. p \in Ids BY <1>1 DEF new
  <2>2. PICK q \in Ids : SameDocument(quotes[p], quotes[q])
                            /\ quotes[q].version > quotes[p].version
    BY <1>1, <2>1 DEF SupersededHasSuccessor
  <2>3. q \in Ids' BY <1>1 DEF new
  <2> QED BY <1>1, <2>1, <2>2, <2>3
<1> QED BY <1>9, <1>11, <1>13, <1>14

-----------------------------------------------------------------------------
(* A new version of a document.                                            *)

\* rows is the table with one row more, another version of q at version v.
AddsVersion(rows, q, v) ==
  /\ DOMAIN rows = 1..(Len(quotes) + 1)
  /\ \A i \in Ids : SameIdentity(rows[i], quotes[i])
  /\ rows[Len(quotes) + 1].kind = quotes[q].kind
  /\ rows[Len(quotes) + 1].sequence = quotes[q].sequence
  /\ rows[Len(quotes) + 1].number = quotes[q].number
  /\ rows[Len(quotes) + 1].version = v
  /\ rows[Len(quotes) + 1].status # "superseded"

\* A pending version that the indexes let in is the next one of its document.
LEMMA PendingVersionIsNext ==
  ASSUME TypeOK, NumberedWithoutGaps, NEW q \in Ids, NEW v \in Nat,
         FollowsVersion(v, q), v \notin VersionsOf(quotes[q])
  PROVE  \E k \in 1..Len(quotes) : VersionsOf(quotes[q]) = 1..k /\ v = k + 1
<1>1. PICK k \in 1..Len(quotes) : VersionsOf(quotes[q]) = 1..k
  BY DEF NumberedWithoutGaps
<1>2. k \in Nat /\ v # 0 /\ v - 1 \in 1..k /\ v \notin 1..k
  BY <1>1, RowsAreTyped DEF FollowsVersion
<1>3. v = k + 1 BY <1>2
<1> QED BY <1>1, <1>3

\* The next version of a document, its source superseded, keeps the numbering.
LEMMA NewVersionKeepsNumbering ==
  ASSUME TypeOK, NumberedWithoutGaps, NumbersTaken, NumberIdentifiesDocument,
         SupersededHasSuccessor, TypeOK',
         NEW q \in Ids, NEW v \in Nat, FollowsVersion(v, q),
         AddsVersion(quotes', q, v), SupersedesOnly(quotes', q), IndexesHold(quotes'), nextSeq' = nextSeq
  PROVE  /\ NumberedWithoutGaps' /\ NumbersTaken'
         /\ NumberIdentifiesDocument' /\ SupersededHasSuccessor'
<1> DEFINE new == Len(quotes) + 1
<1>a. Len(quotes) \in Nat /\ Ids = 1..Len(quotes) /\ \A i \in Ids : quotes[i] \in Row
  BY RowsAreTyped
<1>b. /\ Ids' = 1..new /\ \A i \in Ids : SameIdentity(quotes'[i], quotes[i])
      /\ quotes'[new].kind = quotes[q].kind /\ quotes'[new].sequence = quotes[q].sequence
      /\ quotes'[new].number = quotes[q].number /\ quotes'[new].version = v
      /\ quotes'[new].status # "superseded"
  BY DEF AddsVersion, Ids
<1>c. Len(quotes') = new
  BY <1>a, <1>b DEF TypeOK, Ids
<1>1. new \in Ids' /\ new \notin Ids /\ Ids' = Ids \cup {new}
  BY <1>a, <1>b
<1> HIDE DEF new
<1>2. v \notin VersionsOf(quotes[q])
  <2> SUFFICES ASSUME NEW p \in Ids, SameDocument(quotes[p], quotes[q]), quotes[p].version = v
               PROVE  FALSE
    BY DEF VersionsOf
  <2>1. SameDocument(quotes'[p], quotes'[new]) /\ quotes'[p].version = quotes'[new].version
    BY <1>b DEF SameDocument, SameIdentity
  <2> QED BY <1>1, <2>1 DEF IndexesHold, Ids
<1>3. PICK k \in 1..Len(quotes) : VersionsOf(quotes[q]) = 1..k /\ v = k + 1
  BY <1>2, PendingVersionIsNext
<1>4. \A kind \in Kinds : SequencesOf(kind)' = SequencesOf(kind)
  <2> SUFFICES ASSUME NEW kind \in Kinds PROVE SequencesOf(kind)' = SequencesOf(kind)
    OBVIOUS
  <2>1. SequencesOf(kind) \subseteq SequencesOf(kind)'
    BY <1>b, <1>1 DEF SequencesOf, SameIdentity
  <2>2. ASSUME NEW i \in Ids', quotes'[i].kind = kind
        PROVE  quotes'[i].sequence \in SequencesOf(kind)
    <3>1. CASE i \in Ids BY <1>b, <2>2, <3>1 DEF SequencesOf, SameIdentity
    <3>2. CASE i = new BY <1>b, <2>2, <3>2 DEF SequencesOf
    <3> QED BY <1>1, <3>1, <3>2
  <2>3. SequencesOf(kind)' \subseteq SequencesOf(kind)
    BY <2>2 DEF SequencesOf
  <2> QED BY <2>1, <2>3
<1>5. ASSUME NEW p \in Ids
      PROVE  VersionsOf(quotes[p])' = IF SameDocument(quotes[p], quotes[q])
                                      THEN VersionsOf(quotes[p]) \cup {v}
                                      ELSE VersionsOf(quotes[p])
  <2>1. \A i \in Ids : /\ SameDocument(quotes'[i], quotes'[p]) <=> SameDocument(quotes[i], quotes[p])
                      /\ quotes'[i].version = quotes[i].version
    BY <1>b, <1>5 DEF SameDocument, SameIdentity
  <2>2. SameDocument(quotes'[new], quotes'[p]) <=> SameDocument(quotes[p], quotes[q])
    BY <1>b, <1>5 DEF SameDocument, SameIdentity
  <2>3. {i \in Ids' : SameDocument(quotes'[i], quotes'[p])}
          = {i \in Ids : SameDocument(quotes[i], quotes[p])}
              \cup (IF SameDocument(quotes[p], quotes[q]) THEN {new} ELSE {})
    BY <1>1, <2>1, <2>2
  <2> QED BY <1>1, <1>b, <2>1, <2>3 DEF VersionsOf
<1>6. \A p \in Ids' \ Ids : VersionsOf(quotes[p])' = VersionsOf(quotes[q])'
  BY <1>1, <1>b DEF VersionsOf, SameDocument, SameIdentity
<1>7. \A p \in Ids : \E n \in 1..Len(quotes') : VersionsOf(quotes[p])' = 1..n
  <2> SUFFICES ASSUME NEW p \in Ids
               PROVE  \E n \in 1..Len(quotes') : VersionsOf(quotes[p])' = 1..n
    OBVIOUS
  <2>1. CASE SameDocument(quotes[p], quotes[q])
    <3>1. VersionsOf(quotes[p]) = VersionsOf(quotes[q])
      BY <2>1 DEF VersionsOf, SameDocument
    <3>2. 1..k \cup {k + 1} = 1..(k + 1) /\ k + 1 \in 1..new BY <1>a DEF new
    <3> QED BY <1>c, <1>3, <1>5, <2>1, <3>1, <3>2
  <2>2. CASE ~SameDocument(quotes[p], quotes[q])
    <3>1. PICK n \in 1..Len(quotes) : VersionsOf(quotes[p]) = 1..n
      BY DEF NumberedWithoutGaps
    <3>2. n \in 1..new BY <1>a DEF new
    <3> QED BY <1>c, <1>5, <2>2, <3>1, <3>2
  <2> QED BY <2>1, <2>2
<1>8. \A kind \in Kinds : \E n \in 0..Len(quotes') : SequencesOf(kind)' = 1..n
  <2>1. \A n \in 0..Len(quotes) : n \in 0..new BY <1>a DEF new
  <2> QED BY <1>4, <1>c, <2>1 DEF NumberedWithoutGaps
<1>9. NumberedWithoutGaps'
  <2>1. \A p \in Ids' : \E n \in 1..Len(quotes') : VersionsOf(quotes[p])' = 1..n
    BY <1>6, <1>7
  <2> QED BY <1>8, <2>1 DEF NumberedWithoutGaps
<1>10. NumbersTaken'
  BY <1>1, <1>b DEF NumbersTaken, SameIdentity
<1>11. \A p \in Ids' : \E o \in Ids :
         /\ quotes'[p].kind = quotes[o].kind /\ quotes'[p].sequence = quotes[o].sequence
         /\ quotes'[p].number = quotes[o].number
  BY <1>1, <1>b DEF SameIdentity
<1>12. NumberIdentifiesDocument'
  BY <1>11 DEF NumberIdentifiesDocument
<1>13. SupersededHasSuccessor'
  <2> SUFFICES ASSUME NEW p \in Ids', quotes'[p].status = "superseded"
               PROVE  \E o \in Ids' : SameDocument(quotes'[p], quotes'[o])
                                         /\ quotes'[o].version > quotes'[p].version
    BY DEF SupersededHasSuccessor
  <2>1. p \in Ids BY <1>1, <1>b
  <2>2. CASE quotes[p].status = "superseded"
    <3>1. PICK o \in Ids : SameDocument(quotes[p], quotes[o])
                              /\ quotes[o].version > quotes[p].version
      BY <2>1, <2>2 DEF SupersededHasSuccessor
    <3> QED BY <1>1, <1>b, <2>1, <3>1 DEF SameDocument, SameIdentity
  <2>3. CASE p = q
    <3>1. quotes[q].version \in 1..k BY <1>3 DEF VersionsOf, SameDocument
    <3>2. quotes'[new].version > quotes'[q].version
      BY <1>a, <1>b, <1>3, <3>1 DEF SameIdentity
    <3>3. SameDocument(quotes'[q], quotes'[new])
      BY <1>b DEF SameDocument, SameIdentity
    <3> QED BY <1>1, <2>3, <3>2, <3>3
  <2> QED BY <2>1, <2>2, <2>3 DEF SupersedesOnly
<1> QED BY <1>9, <1>10, <1>12, <1>13

-----------------------------------------------------------------------------
(* What a step does to the requests.                                       *)

\* A request that is what it was still follows a table that kept its rows.
LEMMA PendingKept ==
  ASSUME Kept, NEW t \in Sessions, session'[t] = session[t], Pending(session[t])
  PROVE  Pending(session[t])'
<1>1. /\ SequencesOf("estimate") \subseteq SequencesOf("estimate")'
      /\ SequencesOf("change_order") \subseteq SequencesOf("change_order")'
  BY PlacesStayTaken DEF Kinds
<1>2. \A v, q : q \in Ids /\ FollowsVersion(v, q) => FollowsVersion(v, q)'
  BY PlacesStayTaken DEF FollowsVersion
<1>3. \A n : FollowsSequence(n, "estimate") => FollowsSequence(n, "estimate")'
  BY <1>1 DEF FollowsSequence
<1>4. \A n : FollowsSequence(n, "change_order") => FollowsSequence(n, "change_order")'
  BY <1>1 DEF FollowsSequence
<1>5. session[t].op \in {"reviseVersions", "acceptVersions", "acceptWritten", "acceptStaged"}
        => session[t].quote \in Ids
  BY DEF Pending, ReviseOps, AcceptOps
<1>6. Ids \subseteq Ids' BY DEF Kept
<1> QED BY <1>2, <1>3, <1>4, <1>5, <1>6 DEF Pending

\* Nobody but s changes, and nobody but s loses a counter row.
RequestStep(s) ==
  /\ session' \in [Sessions -> Request]
  /\ \A t \in Sessions \ {s} : session'[t] = session[t]
  /\ counterHolder' \in [Kinds -> Sessions \cup {NoSession}]
  /\ \A kind \in Kinds : counterHolder[kind] \in Sessions \ {s}
                            => counterHolder'[kind] = counterHolder[kind]
  /\ HoldsCounter(s, session[s])'
  /\ Pending(session[s])'

\* A step of one request leaves every request with what it needs.
LEMMA RequestStepKeepsRequests ==
  ASSUME IInv, Kept, NEW s \in Sessions, RequestStep(s)
  PROVE  \A t \in Sessions : HoldsCounter(t, session[t])' /\ Pending(session[t])'
<1> SUFFICES ASSUME NEW t \in Sessions
             PROVE  HoldsCounter(t, session[t])' /\ Pending(session[t])'
  OBVIOUS
<1>1. CASE t = s BY <1>1 DEF RequestStep
<1>2. CASE t # s
  <2>1. session'[t] = session[t] /\ Pending(session[t]) /\ HoldsCounter(t, session[t])
    BY <1>2 DEF RequestStep, IInv
  <2>2. Pending(session[t])' BY <2>1, PendingKept
  <2>3. HoldsCounter(t, session[t])'
    BY <1>2, <2>1 DEF RequestStep, HoldsCounter, Kinds
  <2> QED BY <2>2, <2>3
<1> QED BY <1>1, <1>2

-----------------------------------------------------------------------------
(* Steps that do not write the table.                                      *)

\* Changing a request changes nobody else's.
LEMMA UpdateSession ==
  ASSUME TypeOK, NEW s \in Sessions, NEW r \in Request, session' = [session EXCEPT ![s] = r]
  PROVE  /\ session' \in [Sessions -> Request] /\ session'[s] = r
         /\ \A t \in Sessions \ {s} : session'[t] = session[t]
  BY DEF TypeOK

\* A step that only reads keeps the invariant if what it read is sound.
LEMMA ReadStep ==
  ASSUME IInv, NEW s \in Sessions, RequestStep(s), quotes' = quotes, nextSeq' = nextSeq,
         stage' \in Stages,
         session'[s].op = "templateRead"
           => session'[s].sequence \notin SequencesOf("estimate")
  PROVE  IInv'
<1>1. Kept /\ Ids' = Ids BY DEF Kept, SameIdentity, Ids
<1>2. TypeOK' BY DEF IInv, TypeOK, RequestStep
<1>3. NumberedWithoutGaps' /\ NumbersTaken' /\ NumberIdentifiesDocument' /\ SupersededHasSuccessor'
  BY <1>1, <1>2, NumberingKept DEF IInv
<1>4. IndexesHold(quotes)' BY DEF IInv, IndexesHold
<1>5. \A t \in Sessions : HoldsCounter(t, session[t])' /\ Pending(session[t])'
  BY <1>1, RequestStepKeepsRequests
<1>6. TemplateNeverCollides'
  BY DEF TemplateNeverCollides, SequencesOf, Ids, RequestStep, IInv
<1> QED BY <1>2, <1>3, <1>4, <1>5, <1>6 DEF IInv

\* The sequence a request computes is the first free one of its kind.
LEMMA NextSequenceIsFree ==
  ASSUME TypeOK, NumberedWithoutGaps, NEW kind \in Kinds
  PROVE  /\ NextAfter(SequencesOf(kind)) \in Nat
         /\ FollowsSequence(NextAfter(SequencesOf(kind)), kind)
         /\ NextAfter(SequencesOf(kind)) \notin SequencesOf(kind)
<1>1. PICK n \in 0..Len(quotes) : SequencesOf(kind) = 1..n
  BY DEF NumberedWithoutGaps
<1>2. n \in Nat BY RowsAreTyped
<1>3. NextAfter(SequencesOf(kind)) = n + 1
  BY <1>1, <1>2, NextAfterDense
<1>4. n + 1 \notin 1..n /\ (n + 1 = 1 \/ (n + 1 # 0 /\ (n + 1) - 1 \in 1..n))
  BY <1>2
<1> QED BY <1>1, <1>2, <1>3, <1>4 DEF FollowsSequence

\* The version a request computes is one past a version of the document.
LEMMA NextVersionFollows ==
  ASSUME TypeOK, NumberedWithoutGaps, NEW q \in Ids
  PROVE  /\ NextAfter(VersionsOf(quotes[q])) \in Nat
         /\ FollowsVersion(NextAfter(VersionsOf(quotes[q])), q)
<1>1. PICK n \in 1..Len(quotes) : VersionsOf(quotes[q]) = 1..n
  BY DEF NumberedWithoutGaps
<1>2. n \in Nat /\ n # 0 BY RowsAreTyped
<1>3. NextAfter(VersionsOf(quotes[q])) = n + 1
  BY <1>1, <1>2, NextAfterDense
<1>4. n + 1 # 0 /\ (n + 1) - 1 \in 1..n
  BY <1>2
<1> QED BY <1>1, <1>2, <1>3, <1>4 DEF FollowsVersion

\* A step that begins a request, or goes on with one, holding the counters it held.
LEMMA PlainRead ==
  ASSUME IInv, NEW s \in Sessions, NEW r \in Request,
         session' = [session EXCEPT ![s] = r], UNCHANGED <<quotes, nextSeq, counterHolder>>,
         stage' \in Stages, HoldsCounter(s, r), Pending(r),
         r.op = "templateRead" => r.sequence \notin SequencesOf("estimate")
  PROVE  IInv'
<1>1. /\ session' \in [Sessions -> Request] /\ session'[s] = r
      /\ \A t \in Sessions \ {s} : session'[t] = session[t]
  BY UpdateSession DEF IInv
<1>2. Pending(session[s])'
  BY <1>1 DEF Pending, FollowsSequence, FollowsVersion, SequencesOf, VersionsOf, SameDocument, Ids
<1>3. RequestStep(s)
  BY <1>1, <1>2 DEF RequestStep, HoldsCounter, IInv, TypeOK
<1> QED BY <1>1, <1>3, ReadStep

\* Reads that begin a request or go on with one.
LEMMA ReadsKeep ==
  ASSUME IInv, NEW s \in Sessions
  PROVE  /\ TemplateRead(s) => IInv'
         /\ BlankRead(s) => IInv'
         /\ RaiseRead(s) => IInv'
         /\ RaiseSequence(s) => IInv'
         /\ ReviseVersions(s) => IInv'
         /\ AcceptVersions(s) => IInv'
         /\ AcceptWrite(s) => IInv'
         /\ AcceptStage(s) => IInv'
         /\ StageCommit(s) => IInv'
         /\ \A q \in Ids : Open(s, q) \/ ReviseRead(s, q) \/ VoidRead(s, q) => IInv'
         /\ \A subset, decline \in BOOLEAN : AcceptRead(s, subset, decline) => IInv'
         /\ \A target \in StageTargets : StageRead(s, target) => IInv'
<1> USE DEF Idle, Request, Running, InsertOps, ReviseOps, AcceptOps
<1>0. /\ TypeOK /\ NumberedWithoutGaps /\ HoldsCounter(s, session[s]) /\ Pending(session[s])
      /\ session \in [Sessions -> Request] /\ stage \in Stages
      /\ session[s] \in Request
  BY DEF IInv, TypeOK
<1>1. ASSUME TemplateRead(s) PROVE IInv'
  <2> DEFINE r == [session[s] EXCEPT !.op = "templateRead",
                                     !.sequence = NextAfter(SequencesOf("estimate"))]
  <2>1. r \in Request BY <1>0, NextSequenceIsFree DEF Kinds
  <2>2. session' = [session EXCEPT ![s] = r]
    BY <1>0, <1>1 DEF TemplateRead
  <2>3. HoldsCounter(s, r) /\ Pending(r) /\ r.sequence \notin SequencesOf("estimate")
    BY <1>0, <1>1, NextSequenceIsFree DEF TemplateRead, HoldsCounter, Pending, Kinds
  <2> QED BY <1>0, <1>1, <2>1, <2>2, <2>3, PlainRead DEF TemplateRead
<1>2. ASSUME BlankRead(s) PROVE IInv'
  <2> DEFINE r == [Idle EXCEPT !.op = "blankRead",
                               !.sequence = NextAfter(SequencesOf("estimate"))]
  <2>1. r \in Request BY <1>0, NextSequenceIsFree DEF Kinds, Stages
  <2>2. HoldsCounter(s, r) /\ Pending(r) /\ r.op # "templateRead"
    BY <1>0, NextSequenceIsFree DEF HoldsCounter, Pending, Kinds
  <2> QED BY <1>0, <1>2, <2>1, <2>2, PlainRead DEF BlankRead, Begin
<1>3. ASSUME RaiseRead(s) PROVE IInv'
  <2> DEFINE r == [Idle EXCEPT !.op = "raiseRead", !.quote = session[s].quote]
  <2>1. r \in Request BY <1>0 DEF Stages
  <2>2. HoldsCounter(s, r) /\ Pending(r) /\ r.op # "templateRead"
    BY <1>0, <1>3 DEF RaiseRead, HoldsCounter, Pending
  <2> QED BY <1>0, <1>3, <2>1, <2>2, PlainRead DEF RaiseRead, Begin
<1>4. ASSUME RaiseSequence(s) PROVE IInv'
  <2> DEFINE r == [session[s] EXCEPT !.op = "raiseSequenced",
                                     !.sequence = NextAfter(SequencesOf("change_order"))]
  <2>1. r \in Request BY <1>0, NextSequenceIsFree DEF Kinds
  <2>2. session' = [session EXCEPT ![s] = r]
    BY <1>0, <1>4 DEF RaiseSequence
  <2>3. HoldsCounter(s, r) /\ Pending(r) /\ r.op # "templateRead"
    BY <1>0, <1>4, NextSequenceIsFree DEF RaiseSequence, HoldsCounter, Pending, Kinds
  <2> QED BY <1>0, <1>4, <2>1, <2>2, <2>3, PlainRead DEF RaiseSequence
<1>5. ASSUME ReviseVersions(s) PROVE IInv'
  <2> DEFINE q == session[s].quote
             r == [session[s] EXCEPT !.op = "reviseVersions",
                                     !.version = NextAfter(VersionsOf(quotes[q]))]
  <2>0. q \in Ids BY <1>0, <1>5 DEF ReviseVersions, Pending
  <2>1. r \in Request BY <1>0, <2>0, NextVersionFollows
  <2>2. session' = [session EXCEPT ![s] = r]
    BY <1>0, <1>5 DEF ReviseVersions
  <2>3. HoldsCounter(s, r) /\ Pending(r) /\ r.op # "templateRead"
    BY <1>0, <1>5, <2>0, NextVersionFollows DEF ReviseVersions, HoldsCounter, Pending
  <2> QED BY <1>0, <1>5, <2>1, <2>2, <2>3, PlainRead DEF ReviseVersions
<1>6. ASSUME AcceptVersions(s) PROVE IInv'
  <2> DEFINE q == session[s].quote
             r == [session[s] EXCEPT !.op = "acceptVersions",
                                     !.version = NextAfter(VersionsOf(quotes[q]))]
  <2>0. q \in Ids BY <1>0, <1>6 DEF AcceptVersions, Pending
  <2>1. r \in Request BY <1>0, <2>0, NextVersionFollows
  <2>2. session' = [session EXCEPT ![s] = r]
    BY <1>0, <1>6 DEF AcceptVersions
  <2>3. HoldsCounter(s, r) /\ Pending(r) /\ r.op # "templateRead"
    BY <1>0, <1>6, <2>0, NextVersionFollows DEF AcceptVersions, HoldsCounter, Pending
  <2> QED BY <1>0, <1>6, <2>1, <2>2, <2>3, PlainRead DEF AcceptVersions
<1>7. ASSUME AcceptWrite(s) PROVE IInv'
  <2> DEFINE r == [session[s] EXCEPT !.op = "acceptWritten"]
  <2>1. r \in Request /\ session' = [session EXCEPT ![s] = r]
    BY <1>0, <1>7 DEF AcceptWrite
  <2>2. HoldsCounter(s, r) /\ Pending(r) /\ r.op # "templateRead"
    BY <1>0, <1>7 DEF AcceptWrite, HoldsCounter, Pending
  <2> QED BY <1>0, <1>7, <2>1, <2>2, PlainRead DEF AcceptWrite
<1>8. ASSUME AcceptStage(s) PROVE IInv'
  <2> DEFINE r == [session[s] EXCEPT !.op = "acceptStaged", !.stage = stage]
  <2>1. r \in Request /\ session' = [session EXCEPT ![s] = r]
    BY <1>0, <1>8 DEF AcceptStage
  <2>2. HoldsCounter(s, r) /\ Pending(r) /\ r.op # "templateRead"
    BY <1>0, <1>8 DEF AcceptStage, HoldsCounter, Pending
  <2> QED BY <1>0, <1>8, <2>1, <2>2, PlainRead DEF AcceptStage
<1>9. ASSUME StageCommit(s) PROVE IInv'
  <2>1. Idle \in Request BY DEF Stages
  <2>2. HoldsCounter(s, Idle) /\ Pending(Idle) /\ Idle.op # "templateRead"
    BY DEF HoldsCounter, Pending
  <2>3. stage' \in Stages BY <1>0, <1>9 DEF StageCommit
  <2> HIDE DEF Idle
  <2> QED BY <1>9, <2>1, <2>2, <2>3, PlainRead DEF StageCommit, End
<1>10. ASSUME NEW q \in Ids, Open(s, q) \/ ReviseRead(s, q) \/ VoidRead(s, q) PROVE IInv'
  <2> DEFINE r(op, offers) == [Idle EXCEPT !.op = op, !.quote = q, !.offers = offers]
             at(op) == [Idle EXCEPT !.op = op, !.quote = q]
  <2>0. q \in Nat /\ Offers(quotes[q]) \in SUBSET Buttons /\ {} \in SUBSET Buttons
    BY <1>0, RowsAreTyped DEF Offers
  <2>1. CASE Open(s, q)
    <3>1. /\ r("page", Offers(quotes[q])) \in Request
          /\ HoldsCounter(s, r("page", Offers(quotes[q]))) /\ Pending(r("page", Offers(quotes[q])))
          /\ r("page", Offers(quotes[q])).op # "templateRead"
      BY <2>0 DEF HoldsCounter, Pending, Stages
    <3> QED BY <1>0, <2>1, <3>1, PlainRead DEF Open, Begin
  <2>2. CASE ReviseRead(s, q)
    <3>1. /\ at("reviseRead") \in Request
          /\ HoldsCounter(s, at("reviseRead")) /\ Pending(at("reviseRead"))
          /\ at("reviseRead").op # "templateRead"
      BY <2>0 DEF HoldsCounter, Pending, Stages
    <3> QED BY <1>0, <2>2, <3>1, PlainRead DEF ReviseRead, Begin
  <2>3. CASE VoidRead(s, q)
    <3>1. /\ at("voidRead") \in Request
          /\ HoldsCounter(s, at("voidRead")) /\ Pending(at("voidRead"))
          /\ at("voidRead").op # "templateRead"
      BY <2>0 DEF HoldsCounter, Pending, Stages
    <3> QED BY <1>0, <2>3, <3>1, PlainRead DEF VoidRead, Begin
  <2> QED BY <1>10, <2>1, <2>2, <2>3
<1>11. ASSUME NEW subset \in BOOLEAN, NEW decline \in BOOLEAN, AcceptRead(s, subset, decline)
       PROVE  IInv'
  <2> DEFINE r == [Idle EXCEPT !.op = "acceptRead", !.quote = session[s].quote,
                               !.subset = subset, !.decline = decline]
  <2>1. r \in Request BY <1>0 DEF Stages
  <2>2. HoldsCounter(s, r) /\ Pending(r) /\ r.op # "templateRead"
    BY <1>0, <1>11 DEF AcceptRead, HoldsCounter, Pending
  <2> QED BY <1>0, <1>11, <2>1, <2>2, PlainRead DEF AcceptRead, Begin
<1>12. ASSUME NEW target \in StageTargets, StageRead(s, target) PROVE IInv'
  <2> DEFINE r == [Idle EXCEPT !.op = "stageRead", !.stage = target]
  <2>1. r \in Request BY StageAssumption
  <2>2. HoldsCounter(s, r) /\ Pending(r) /\ r.op # "templateRead"
    BY DEF HoldsCounter, Pending
  <2> QED BY <1>0, <1>12, <2>1, <2>2, PlainRead DEF StageRead, Begin
<1> QED BY <1>1, <1>2, <1>3, <1>4, <1>5, <1>6, <1>7, <1>8, <1>9, <1>10, <1>11, <1>12

-----------------------------------------------------------------------------
(* Steps that take or give back a counter row.                             *)

\* Allocating the number of a template's quote, a blank quote or a change order.
LEMMA AllocationsKeep ==
  ASSUME IInv, NEW s \in Sessions
  PROVE  TemplateNumber(s) \/ BlankNumber(s) \/ RaiseNumber(s) => IInv'
<1> SUFFICES ASSUME NEW kind \in Kinds, NEW before, NEW after,
                    Allocate(s, kind, before, after),
                    \/ kind = "estimate" /\ before = "idle" /\ after = "templateNumbered"
                    \/ kind = "estimate" /\ before = "blankRead" /\ after = "blankNumbered"
                    \/ kind = "change_order" /\ before = "raiseSequenced" /\ after = "raiseNumbered"
             PROVE  IInv'
  BY DEF TemplateNumber, BlankNumber, RaiseNumber, Kinds
<1> DEFINE r == [session[s] EXCEPT !.op = after]
<1>1. /\ session \in [Sessions -> Request] /\ counterHolder \in [Kinds -> Sessions \cup {NoSession}]
      /\ session[s] \in Request /\ Pending(session[s]) /\ stage \in Stages
  BY DEF IInv, TypeOK
<1>2. /\ r \in Request /\ session' = [session EXCEPT ![s] = r] /\ r.op = after
      /\ r.quote = session[s].quote /\ r.sequence = session[s].sequence
  BY <1>1 DEF Allocate, Request, Running, InsertOps
<1>3. /\ session' \in [Sessions -> Request] /\ session'[s] = r
      /\ \A t \in Sessions \ {s} : session'[t] = session[t]
  BY <1>2, UpdateSession DEF IInv
<1>4. Pending(r) /\ session[s].op = before
  BY <1>1, <1>2 DEF Allocate, Pending, ReviseOps, AcceptOps
<1> HIDE DEF r
<1>5. Pending(session[s])'
  <2>1. quotes' = quotes BY DEF Allocate
  <2> QED BY <1>3, <1>4, <2>1 DEF Pending, FollowsSequence, FollowsVersion, SequencesOf,
                                  VersionsOf, SameDocument, Ids
<1>6. HoldsCounter(s, session[s])'
  BY <1>1, <1>2, <1>3 DEF Allocate, HoldsCounter, Kinds
<1>7. RequestStep(s)
  BY <1>1, <1>3, <1>5, <1>6, SessionsAssumption DEF RequestStep, Allocate, CounterFree
<1> QED BY <1>1, <1>2, <1>3, <1>7, ReadStep DEF Allocate

\* A rollback gives back what its transaction held.
LEMMA RollbackKeeps ==
  ASSUME IInv, NEW s \in Sessions, Rollback(s)
  PROVE  IInv'
<1>1. /\ counterHolder \in [Kinds -> Sessions \cup {NoSession}] /\ stage \in Stages
      /\ Idle \in Request /\ Idle.op = "idle"
  BY DEF IInv, TypeOK, Idle, Request, Stages
<1>2. /\ session' \in [Sessions -> Request] /\ session'[s] = Idle
      /\ \A t \in Sessions \ {s} : session'[t] = session[t]
  BY <1>1, UpdateSession DEF IInv, Rollback, End
<1>3. RequestStep(s)
  BY <1>1, <1>2 DEF RequestStep, Rollback, HoldsCounter, Pending, ReviseOps, AcceptOps
<1> QED BY <1>1, <1>2, <1>3, ReadStep DEF Rollback

\* A number taken elsewhere only moves the counter up.
LEMMA NumberElsewhereKeeps ==
  ASSUME IInv, NEW kind \in Kinds, NumberElsewhere(kind)
  PROVE  IInv'
<1>1. nextSeq \in [Kinds -> Nat] /\ \A i \in Ids : quotes[i] \in Row
  BY RowsAreTyped DEF IInv, TypeOK
<1>2. TypeOK' BY DEF IInv, TypeOK, NumberElsewhere
<1>3. NumbersTaken'
  <2> SUFFICES ASSUME NEW q \in Ids PROVE quotes[q].number < nextSeq'[quotes[q].kind]
    BY DEF NumbersTaken, NumberElsewhere, Ids
  <2>1. quotes[q].number < nextSeq[quotes[q].kind] /\ quotes[q].kind \in Kinds
        /\ quotes[q].number \in Nat
    BY <1>1 DEF IInv, NumbersTaken, Row
  <2>2. nextSeq'[quotes[q].kind] \in {nextSeq[quotes[q].kind], nextSeq[quotes[q].kind] + 1}
    BY <1>1, <2>1 DEF NumberElsewhere
  <2> QED BY <1>1, <2>1, <2>2
<1>4. IndexesHold(quotes)' /\ NumberedWithoutGaps' /\ NumberIdentifiesDocument'
      /\ SupersededHasSuccessor' /\ TemplateNeverCollides'
  BY DEF IInv, NumberElsewhere, IndexesHold, NumberedWithoutGaps, NumberIdentifiesDocument,
         SupersededHasSuccessor, TemplateNeverCollides, SequencesOf, VersionsOf,
         SameDocument, Ids
<1>5. \A t \in Sessions : HoldsCounter(t, session[t])' /\ Pending(session[t])'
  BY DEF IInv, NumberElsewhere, HoldsCounter, Pending, FollowsSequence, FollowsVersion,
         SequencesOf, VersionsOf, SameDocument, Ids
<1> QED BY <1>2, <1>3, <1>4, <1>5 DEF IInv

-----------------------------------------------------------------------------
(* Steps that write the table.                                             *)

\* A request that ends keeps every other request's place and counter.
LEMMA EndKeepsRequests ==
  ASSUME IInv, NEW s \in Sessions, Kept, End(s),
         counterHolder' \in [Kinds -> Sessions \cup {NoSession}],
         \A kind \in Kinds : counterHolder[kind] \in Sessions \ {s}
                             => counterHolder'[kind] = counterHolder[kind]
  PROVE  /\ session' \in [Sessions -> Request] /\ session'[s] = Idle
         /\ \A t \in Sessions \ {s} : session'[t] = session[t]
         /\ \A t \in Sessions : HoldsCounter(t, session[t])' /\ Pending(session[t])'
<1>1. Idle \in Request /\ Idle.op = "idle" BY DEF Idle, Request, Stages
<1>2. /\ session' \in [Sessions -> Request] /\ session'[s] = Idle
      /\ \A t \in Sessions \ {s} : session'[t] = session[t]
  BY <1>1, UpdateSession DEF IInv, End
<1>3. RequestStep(s)
  BY <1>1, <1>2 DEF RequestStep, HoldsCounter, Pending, ReviseOps, AcceptOps
<1> QED BY <1>2, <1>3, RequestStepKeepsRequests

\* Rewriting statuses and records, with no row added and none superseded.
LEMMA RewriteStep ==
  ASSUME IInv, NEW s \in Sessions, End(s), UNCHANGED <<nextSeq, counterHolder>>,
         stage' \in Stages, quotes' \in Seq(Row), Ids' = Ids, Kept, IndexesHold(quotes'),
         \A i \in Ids : quotes'[i].status = "superseded" => quotes[i].status = "superseded"
  PROVE  IInv'
<1>1. counterHolder' \in [Kinds -> Sessions \cup {NoSession}] BY DEF IInv, TypeOK
<1>2. /\ session' \in [Sessions -> Request] /\ session'[s] = Idle
      /\ \A t \in Sessions \ {s} : session'[t] = session[t]
      /\ \A t \in Sessions : HoldsCounter(t, session[t])' /\ Pending(session[t])'
  BY <1>1, EndKeepsRequests
<1>3. TypeOK' BY <1>1, <1>2 DEF IInv, TypeOK
<1>4. NumberedWithoutGaps' /\ NumbersTaken' /\ NumberIdentifiesDocument' /\ SupersededHasSuccessor'
  BY <1>3, NumberingKept DEF IInv
<1>5. SequencesOf("estimate")' = SequencesOf("estimate")
  BY PlacesUnchanged DEF Kinds
<1>6. TemplateNeverCollides'
  BY <1>2, <1>5 DEF TemplateNeverCollides, IInv, Idle
<1> QED BY <1>2, <1>3, <1>4, <1>6 DEF IInv

\* A new version, with its source superseded and perhaps other rows declined.
LEMMA NewVersionStep ==
  ASSUME IInv, NEW s \in Sessions, End(s), UNCHANGED <<nextSeq, counterHolder>>,
         stage' \in Stages, quotes' \in Seq(Row),
         NEW q \in Ids, NEW v \in Nat, FollowsVersion(v, q),
         AddsVersion(quotes', q, v), SupersedesOnly(quotes', q), IndexesHold(quotes')
  PROVE  IInv'
<1>0. Kept
  <2>1. Ids \subseteq Ids' BY RowsAreTyped DEF AddsVersion, IInv, Ids
  <2> QED BY <2>1 DEF Kept, AddsVersion
<1>1. counterHolder' \in [Kinds -> Sessions \cup {NoSession}] BY DEF IInv, TypeOK
<1>2. /\ session' \in [Sessions -> Request] /\ session'[s] = Idle
      /\ \A t \in Sessions \ {s} : session'[t] = session[t]
      /\ \A t \in Sessions : HoldsCounter(t, session[t])' /\ Pending(session[t])'
  BY <1>0, <1>1, EndKeepsRequests
<1>3. TypeOK' BY <1>1, <1>2 DEF IInv, TypeOK
<1>4. NumberedWithoutGaps' /\ NumbersTaken' /\ NumberIdentifiesDocument' /\ SupersededHasSuccessor'
  BY <1>3, NewVersionKeepsNumbering DEF IInv
<1>5. SequencesOf("estimate")' \subseteq SequencesOf("estimate")
  <2>1. ASSUME NEW i \in Ids', quotes'[i].kind = "estimate"
        PROVE  quotes'[i].sequence \in SequencesOf("estimate")
    <3>1. CASE i \in Ids BY <2>1, <3>1 DEF AddsVersion, SequencesOf, Ids, SameIdentity
    <3>2. CASE i = Len(quotes) + 1 BY <2>1, <3>2 DEF AddsVersion, SequencesOf, Ids
    <3>3. i \in Ids \/ i = Len(quotes) + 1
      BY RowsAreTyped DEF AddsVersion, IInv, Ids
    <3> QED BY <3>1, <3>2, <3>3
  <2> QED BY <2>1 DEF SequencesOf
<1>6. TemplateNeverCollides'
  BY <1>2, <1>5 DEF TemplateNeverCollides, IInv, Idle
<1> QED BY <1>2, <1>3, <1>4, <1>6 DEF IInv

\* A new document, inserted by the request that holds its counter row.
LEMMA InsertDocumentStep ==
  ASSUME IInv, NEW s \in Sessions, NEW kind \in Kinds, NEW parent \in Nat,
         counterHolder[kind] = s, FollowsSequence(session[s].sequence, kind),
         InsertDocument(s, NewRow(kind, session[s].sequence, parent))
  PROVE  IInv'
<1> DEFINE row == NewRow(kind, session[s].sequence, parent)
<1>1. /\ TypeOK /\ session[s].sequence \in Nat /\ nextSeq \in [Kinds -> Nat]
      /\ counterHolder \in [Kinds -> Sessions \cup {NoSession}] /\ quotes \in Seq(Row)
  BY DEF IInv, TypeOK, Request
<1>2. /\ row \in Row /\ row.kind = kind /\ row.version = 1 /\ row.status # "superseded"
      /\ row.number = nextSeq[kind] /\ row.sequence = session[s].sequence
  BY <1>1 DEF NewRow, Row, Statuses
<1>3. /\ quotes' = Append(quotes, row) /\ IndexesHold(quotes') /\ End(s)
      /\ nextSeq' = [nextSeq EXCEPT ![kind] = @ + 1]
      /\ counterHolder' = [counterHolder EXCEPT ![kind] = NoSession] /\ stage' = stage
  BY <1>2 DEF InsertDocument
<1> HIDE DEF row
<1>5. /\ quotes' \in Seq(Row) /\ Ids' = 1..(Len(quotes) + 1)
      /\ \A i \in Ids : quotes'[i] = quotes[i]
      /\ quotes'[Len(quotes) + 1] = row
  BY <1>1, <1>2, <1>3 DEF Ids
<1>6. Kept /\ Ids' = Ids \cup {Len(quotes) + 1}
  BY <1>1, <1>5, RowsAreTyped DEF Kept, SameIdentity
<1>7. /\ counterHolder' \in [Kinds -> Sessions \cup {NoSession}]
      /\ \A k \in Kinds : counterHolder[k] \in Sessions \ {s}
                           => counterHolder'[k] = counterHolder[k]
  BY <1>1, <1>3
<1>8. /\ session' \in [Sessions -> Request] /\ session'[s] = Idle
      /\ \A t \in Sessions \ {s} : session'[t] = session[t]
      /\ \A t \in Sessions : HoldsCounter(t, session[t])' /\ Pending(session[t])'
  BY <1>3, <1>6, <1>7, EndKeepsRequests
<1>9. TypeOK' BY <1>1, <1>3, <1>5, <1>7, <1>8 DEF TypeOK
<1>10. NumberedWithoutGaps' /\ NumbersTaken' /\ NumberIdentifiesDocument' /\ SupersededHasSuccessor'
  BY <1>1, <1>2, <1>3, <1>9, NewDocumentKeepsNumbering DEF IInv
<1>11. TemplateNeverCollides'
  <2> SUFFICES ASSUME NEW t \in Sessions, session'[t].op = "templateRead"
               PROVE  session'[t].sequence \notin SequencesOf("estimate")'
    BY DEF TemplateNeverCollides
  <2>1. t # s /\ session'[t] = session[t] BY <1>8 DEF Idle
  <2>2. counterHolder["estimate"] = t /\ session[t].sequence \notin SequencesOf("estimate")
    BY <2>1 DEF IInv, HoldsCounter, TemplateNeverCollides
  <2>3. kind # "estimate" BY <2>1, <2>2
  <2>4. SequencesOf("estimate")' = SequencesOf("estimate")
    BY <1>2, <1>5, <1>6, <2>3 DEF SequencesOf
  <2> QED BY <2>1, <2>2, <2>4
<1> QED BY <1>3, <1>8, <1>9, <1>10, <1>11 DEF IInv

\* createQuoteFromTemplate, createBlankQuote and createChangeOrder commit.
LEMMA InsertsKeep ==
  ASSUME IInv, NEW s \in Sessions
  PROVE  TemplateCommit(s) \/ BlankCommit(s) \/ RaiseCommit(s) => IInv'
<1>1. HoldsCounter(s, session[s]) /\ Pending(session[s]) /\ session[s].quote \in Nat
  BY DEF IInv, TypeOK, Request
<1>2. ASSUME TemplateCommit(s) PROVE IInv'
  BY <1>1, <1>2, InsertDocumentStep DEF TemplateCommit, HoldsCounter, Pending, Kinds
<1>3. ASSUME BlankCommit(s) PROVE IInv'
  BY <1>1, <1>3, InsertDocumentStep DEF BlankCommit, HoldsCounter, Pending, Kinds
<1>4. ASSUME RaiseCommit(s) PROVE IInv'
  BY <1>1, <1>4, InsertDocumentStep DEF RaiseCommit, HoldsCounter, Pending, Kinds
<1> QED BY <1>2, <1>3, <1>4

\* A row under another status or record is the same row of the same document.
LEMMA RestatedRow ==
  ASSUME NEW row \in Row, NEW status \in Statuses
  PROVE  LET after == [row EXCEPT !.status = status] IN
         after \in Row /\ SameIdentity(after, row) /\ after.status = status
  BY DEF Row, SameIdentity

LEMMA VoidedRow ==
  ASSUME NEW row \in Row
  PROVE  LET after == [row EXCEPT !.record = "void"] IN
         /\ after \in Row /\ SameIdentity(after, row)
         /\ after.status = row.status /\ ~Standing(after)
  BY DEF Row, SameIdentity, Standing, Live

\* The table once q is superseded by a copy has one row more, a version of q.
LEMMA SupersedingAddsVersion ==
  ASSUME TypeOK, NEW q \in Ids, NEW v \in Nat, NEW status \in Statuses
  PROVE  LET rows == Superseding(q, v, status) IN
         /\ rows \in Seq(Row) /\ SupersedesOnly(rows, q)
         /\ status # "superseded" => AddsVersion(rows, q, v)
<1> DEFINE old == [quotes[q] EXCEPT !.status = "superseded"]
           new == [quotes[q] EXCEPT !.version = v, !.status = status, !.record = "active"]
           base == [quotes EXCEPT ![q] = old]
<1>1. quotes \in Seq(Row) /\ quotes[q] \in Row /\ Ids = 1..Len(quotes) /\ Len(quotes) \in Nat
  BY RowsAreTyped DEF TypeOK
<1>2. old \in Row /\ SameIdentity(old, quotes[q])
  BY <1>1, RestatedRow DEF Statuses
<1>3. /\ new \in Row /\ new.kind = quotes[q].kind /\ new.sequence = quotes[q].sequence
      /\ new.number = quotes[q].number /\ new.version = v /\ new.status = status
  BY <1>1 DEF Row
<1>4. Superseding(q, v, status) = Append(base, new) BY DEF Superseding
<1> HIDE DEF old, new
<1>5. base \in Seq(Row) /\ Len(base) = Len(quotes)
      /\ \A i \in Ids : base[i] = IF i = q THEN old ELSE quotes[i]
  BY <1>1, <1>2 DEF Ids
<1> HIDE DEF base
<1>6. /\ Append(base, new) \in Seq(Row) /\ DOMAIN Append(base, new) = 1..(Len(quotes) + 1)
      /\ \A i \in Ids : Append(base, new)[i] = base[i]
      /\ Append(base, new)[Len(quotes) + 1] = new
  BY <1>1, <1>3, <1>5
<1>7. ASSUME NEW i \in Ids
      PROVE  /\ SameIdentity(base[i], quotes[i])
             /\ base[i].status = "superseded" => quotes[i].status = "superseded" \/ i = q
  BY <1>2, <1>5 DEF SameIdentity
<1> QED BY <1>3, <1>4, <1>6, <1>7 DEF AddsVersion, SupersedesOnly

\* reviseQuote commits.
LEMMA ReviseKeeps ==
  ASSUME IInv, NEW s \in Sessions, ReviseCommit(s)
  PROVE  IInv'
<1>1. PICK q, v : q = session[s].quote /\ v = session[s].version OBVIOUS
<1>2. TypeOK /\ q \in Ids /\ v \in Nat /\ FollowsVersion(v, q) /\ stage' \in Stages
  BY <1>1 DEF IInv, TypeOK, Request, ReviseCommit, Pending, ReviseOps
<1>3. quotes' = Superseding(q, v, "draft") /\ "draft" \in Statuses
  BY <1>1 DEF ReviseCommit, Statuses
<1>4. quotes' \in Seq(Row) /\ AddsVersion(quotes', q, v) /\ SupersedesOnly(quotes', q)
  BY <1>2, <1>3, SupersedingAddsVersion
<1>5. End(s) /\ UNCHANGED <<nextSeq, counterHolder>> /\ IndexesHold(quotes')
  BY DEF ReviseCommit
<1> QED BY <1>2, <1>4, <1>5, NewVersionStep

\* voidQuote commits.
LEMMA VoidKeeps ==
  ASSUME IInv, NEW s \in Sessions, VoidCommit(s)
  PROVE  IInv'
<1>1. PICK q, row : q = session[s].quote /\ row = [quotes[q] EXCEPT !.record = "void"]
  OBVIOUS
<1>2. q \in Ids /\ quotes \in Seq(Row) /\ quotes[q] \in Row /\ stage' \in Stages
  BY <1>1, RowsAreTyped DEF IInv, TypeOK, VoidCommit, Pending
<1>3. row \in Row /\ SameIdentity(row, quotes[q]) /\ row.status = quotes[q].status /\ ~Standing(row)
  BY <1>1, <1>2, VoidedRow
<1>4. quotes' = [quotes EXCEPT ![q] = row] BY <1>1 DEF VoidCommit
<1>5. /\ quotes' \in Seq(Row) /\ Ids' = Ids
      /\ \A i \in Ids : quotes'[i] = IF i = q THEN row ELSE quotes[i]
  BY <1>2, <1>3, <1>4 DEF Ids
<1>6. /\ Kept
      /\ \A i \in Ids : quotes'[i].status = quotes[i].status
      /\ \A i \in Ids : Standing(quotes'[i]) => Standing(quotes[i])
  BY <1>3, <1>5 DEF Kept, SameIdentity
<1>7. IndexesHold(quotes')
  BY <1>5, <1>6 DEF IInv, IndexesHold, Kept, SameIdentity, SameDocument, Ids
<1>8. End(s) /\ UNCHANGED <<nextSeq, counterHolder>> BY DEF VoidCommit
<1> QED BY <1>2, <1>5, <1>6, <1>7, <1>8, RewriteStep

\* setQuoteStatus commits.
LEMMA SetQuoteStatusKeeps ==
  ASSUME IInv, NEW s \in Sessions, NEW status \in {"sent", "accepted", "declined"},
         SetQuoteStatus(s, status)
  PROVE  IInv'
<1>1. PICK q, row : q = session[s].quote /\ row = [quotes[q] EXCEPT !.status = status]
  OBVIOUS
<1>2. q \in Ids /\ quotes \in Seq(Row) /\ quotes[q] \in Row /\ stage' \in Stages
  BY <1>1, RowsAreTyped DEF IInv, TypeOK, SetQuoteStatus, Pending
<1>3. row \in Row /\ SameIdentity(row, quotes[q]) /\ row.status = status
  <2>1. status \in Statuses BY DEF Statuses
  <2> QED BY <1>1, <1>2, <2>1, RestatedRow
<1>4. quotes' = [quotes EXCEPT ![q] = row] BY <1>1 DEF SetQuoteStatus
<1>5. /\ quotes' \in Seq(Row) /\ Ids' = Ids
      /\ \A i \in Ids : quotes'[i] = IF i = q THEN row ELSE quotes[i]
  BY <1>2, <1>3, <1>4 DEF Ids
<1>6. /\ Kept
      /\ \A i \in Ids : quotes'[i].status = "superseded" => quotes[i].status = "superseded"
  BY <1>3, <1>5 DEF Kept, SameIdentity
<1>7. End(s) /\ UNCHANGED <<nextSeq, counterHolder>> /\ IndexesHold(quotes')
  BY DEF SetQuoteStatus
<1> QED BY <1>2, <1>5, <1>6, <1>7, RewriteStep

\* Declining rows of a table changes nothing but statuses, and supersedes nothing.
LEMMA DeclineOthersRewrites ==
  ASSUME NEW rows \in Seq(Row), NEW source
  PROVE  LET after == DeclineOthers(rows, source) IN
         /\ after \in Seq(Row) /\ DOMAIN after = DOMAIN rows
         /\ \A i \in DOMAIN rows :
              /\ SameIdentity(after[i], rows[i])
              /\ after[i].status = "superseded" => rows[i].status = "superseded"
<1> DEFINE f(i) == IF LosesTo(rows[i], source) THEN [rows[i] EXCEPT !.status = "declined"]
                   ELSE rows[i]
           after == DeclineOthers(rows, source)
<1>1. \A i \in DOMAIN rows : rows[i] \in Row OBVIOUS
<1>2. \A i \in DOMAIN rows : f(i) \in Row
  BY <1>1 DEF Row, Statuses
<1>3. after = [i \in DOMAIN rows |-> f(i)] BY DEF DeclineOthers
<1>4. \A i \in DOMAIN rows : SameIdentity(f(i), rows[i])
                             /\ (f(i).status = "superseded" => rows[i].status = "superseded")
  BY <1>1 DEF SameIdentity, Row
<1>5. DOMAIN rows = 1..Len(rows) /\ Len(rows) \in Nat OBVIOUS
<1> HIDE DEF f, after
<1>6. after \in Seq(Row) BY <1>2, <1>3, <1>5
<1>7. DOMAIN after = DOMAIN rows /\ \A i \in DOMAIN rows : after[i] = f(i) BY <1>3
<1> QED BY <1>4, <1>6, <1>7 DEF after

\* acceptQuoteLines commits: in place, or as the next version.
LEMMA AcceptKeeps ==
  ASSUME IInv, NEW s \in Sessions, AcceptCommit(s)
  PROVE  IInv'
<1>1. PICK q, v : q = session[s].quote /\ v = session[s].version OBVIOUS
<1>2. PICK row, inPlace : row = [quotes[q] EXCEPT !.status = "accepted"]
                            /\ inPlace = [quotes EXCEPT ![q] = row]
  OBVIOUS
<1>3. PICK won : won = IF session[s].subset THEN Superseding(q, v, "accepted") ELSE inPlace
  OBVIOUS
<1>4. /\ TypeOK /\ q \in Ids /\ v \in Nat /\ FollowsVersion(v, q)
      /\ quotes \in Seq(Row) /\ quotes[q] \in Row
  BY <1>1, RowsAreTyped DEF IInv, TypeOK, Request, AcceptCommit, Pending, AcceptOps
<1>5. stage' \in Stages BY DEF AcceptCommit, IInv, TypeOK, Stages
<1>6. End(s) /\ UNCHANGED <<nextSeq, counterHolder>> /\ IndexesHold(quotes')
  BY DEF AcceptCommit
<1>7. quotes' = IF session[s].decline THEN DeclineOthers(won, quotes[q]) ELSE won
  BY <1>1, <1>2, <1>3 DEF AcceptCommit
<1>8. won \in Seq(Row) =>
        /\ quotes' \in Seq(Row) /\ Ids' = DOMAIN won
        /\ \A i \in DOMAIN won :
             /\ SameIdentity(quotes'[i], won[i])
             /\ quotes'[i].status = "superseded" => won[i].status = "superseded"
  BY <1>7, DeclineOthersRewrites DEF Ids, SameIdentity
<1>9. CASE session[s].subset
  <2>1. won \in Seq(Row) /\ AddsVersion(won, q, v) /\ SupersedesOnly(won, q)
    BY <1>3, <1>4, <1>9, SupersedingAddsVersion DEF Statuses
  <2>2. Ids \subseteq DOMAIN won /\ Len(quotes) + 1 \in DOMAIN won
    BY <1>4, <2>1, RowsAreTyped DEF AddsVersion
  <2>3. AddsVersion(quotes', q, v)
    <3>1. DOMAIN quotes' = 1..(Len(quotes) + 1) BY <1>8, <2>1 DEF AddsVersion, Ids
    <3>2. won[Len(quotes) + 1].status # "superseded"
            => quotes'[Len(quotes) + 1].status # "superseded"
      BY <1>8, <2>1, <2>2
    <3> QED BY <1>8, <2>1, <2>2, <3>1, <3>2 DEF AddsVersion, SameIdentity
  <2>4. SupersedesOnly(quotes', q)
    BY <1>8, <2>1, <2>2 DEF SupersedesOnly
  <2> QED BY <1>4, <1>5, <1>6, <1>8, <2>1, <2>3, <2>4, NewVersionStep
<1>10. CASE ~session[s].subset
  <2>1. row \in Row /\ SameIdentity(row, quotes[q]) /\ row.status = "accepted"
    BY <1>2, <1>4, RestatedRow DEF Statuses
  <2>2. /\ won \in Seq(Row) /\ DOMAIN won = Ids
        /\ \A i \in Ids : won[i] = IF i = q THEN row ELSE quotes[i]
    BY <1>2, <1>3, <1>4, <1>10, <2>1 DEF Ids
  <2>3. Ids' = Ids /\ Kept
    BY <1>8, <2>1, <2>2 DEF Kept, SameIdentity
  <2>4. \A i \in Ids : quotes'[i].status = "superseded" => quotes[i].status = "superseded"
    BY <1>8, <2>1, <2>2
  <2> QED BY <1>5, <1>6, <1>8, <2>2, <2>3, <2>4, RewriteStep
<1> QED BY <1>9, <1>10

-----------------------------------------------------------------------------
(* The theorems.                                                           *)

\* The inductive invariant holds when the tables are empty.
LEMMA InitEstablishes == Init => IInv
<1> SUFFICES ASSUME Init PROVE IInv
  OBVIOUS
<1>1. quotes = <<>> /\ Ids = {} /\ Len(quotes) = 0 /\ DOMAIN quotes = {}
  BY DEF Init, Ids
<1>2. TypeOK
  BY <1>1 DEF Init, TypeOK, Idle, Request, Stages
<1>3. NumberedWithoutGaps
  <2>1. 1..0 = {} OBVIOUS
  <2>2. ASSUME NEW kind \in Kinds PROVE SequencesOf(kind) = 1..0
    <3>1. {i \in Ids : quotes[i].kind = kind} = {}
      BY <1>1
    <3> QED BY <2>1, <3>1 DEF SequencesOf
  <2>3. 0 \in 0..Len(quotes)
    BY <1>1
  <2>4. \A kind \in Kinds : \E n \in 0..Len(quotes) : SequencesOf(kind) = 1..n
    BY <2>2, <2>3
  <2> QED BY <1>1, <2>4 DEF NumberedWithoutGaps
<1>4. \A s \in Sessions : session[s].op = "idle" BY DEF Init, Idle
<1> QED BY <1>1, <1>2, <1>3, <1>4
        DEF IInv, IndexesHold, NumbersTaken, NumberIdentifiesDocument, SupersededHasSuccessor,
            HoldsCounter, Pending, ReviseOps, AcceptOps, TemplateNeverCollides

\* Every step keeps it.
LEMMA NextKeeps == IInv /\ [Next]_vars => IInv'
<1> SUFFICES ASSUME IInv, [Next]_vars PROVE IInv'
  OBVIOUS
<1>1. ASSUME NEW s \in Sessions, Create(s) PROVE IInv'
  BY <1>1, ReadsKeep, AllocationsKeep, InsertsKeep DEF Create
<1>2. ASSUME NEW s \in Sessions, Amend(s) PROVE IInv'
  BY <1>2, ReadsKeep, ReviseKeeps, VoidKeeps, SetQuoteStatusKeeps DEF Amend
<1>3. ASSUME NEW s \in Sessions, Win(s) PROVE IInv'
  BY <1>3, ReadsKeep, AcceptKeeps DEF Win
<1>4. CASE UNCHANGED vars
  <2>1. /\ quotes' = quotes /\ stage' = stage /\ nextSeq' = nextSeq
        /\ counterHolder' = counterHolder /\ session' = session
    BY <1>4 DEF vars
  <2>2. TypeOK' /\ IndexesHold(quotes)' /\ NumbersTaken'
    BY <2>1 DEF IInv, TypeOK, IndexesHold, NumbersTaken, Ids
  <2>3. NumberedWithoutGaps' /\ NumberIdentifiesDocument' /\ SupersededHasSuccessor'
    <3>1. Kept /\ Ids' = Ids BY <2>1 DEF Kept, SameIdentity, Ids
    <3> QED BY <2>1, <2>2, <3>1, NumberingKept DEF IInv
  <2>4. \A s \in Sessions : HoldsCounter(s, session[s])' /\ Pending(session[s])'
    BY <2>1 DEF IInv, HoldsCounter, Pending, FollowsSequence, FollowsVersion,
                SequencesOf, VersionsOf, SameDocument, Ids
  <2>5. TemplateNeverCollides'
    BY <2>1 DEF IInv, TemplateNeverCollides, SequencesOf, Ids
  <2> QED BY <2>2, <2>3, <2>4, <2>5 DEF IInv
<1> QED BY <1>1, <1>2, <1>3, <1>4, RollbackKeeps, NumberElsewhereKeeps DEF Next

\* The strengthened invariant holds in every reachable state.
THEOREM Invariance == Spec => []IInv
<1>1. Init => IInv BY InitEstablishes
<1>2. IInv /\ [Next]_vars => IInv' BY NextKeeps
<1> QED BY <1>1, <1>2, PTL DEF Spec

\* Every variable keeps its type, whatever the number of requests and rows.
THEOREM TypeCorrect == Spec => []TypeOK
<1>1. IInv => TypeOK BY DEF IInv
<1> QED BY <1>1, Invariance, PTL

\* Sequences and versions are dense: a maximum read too early never makes a gap
\* or a duplicate (nextEstimateSequence, reviseQuote, acceptQuoteLines).
THEOREM Dense == Spec => []NumberedWithoutGaps
<1>1. IInv => NumberedWithoutGaps BY DEF IInv
<1> QED BY <1>1, Invariance, PTL

\* A number names one document and all its versions (allocateDocumentNumber).
THEOREM NumbersIdentify == Spec => []NumberIdentifiesDocument
<1>1. IInv => NumberIdentifiesDocument BY DEF IInv
<1> QED BY <1>1, Invariance, PTL

\* A superseded version has a later one (reviseQuote, acceptQuoteLines).
THEOREM SupersededIsReplaced == Spec => []SupersededHasSuccessor
<1>1. IInv => SupersededHasSuccessor BY DEF IInv
<1> QED BY <1>1, Invariance, PTL

\* A document has at most one accepted, active version
\* (quotes_one_accepted_per_sequence).
THEOREM OneAccepted == Spec => []OneAcceptedPerDocument
<1>1. IInv => OneAcceptedPerDocument
  BY DEF IInv, IndexesHold, OneAcceptedPerDocument, Ids
<1> QED BY <1>1, Invariance, PTL

\* The sequence read under the counter row's lock is still free at the insert
\* (createQuoteFromTemplate).
THEOREM TemplateIsSafe == Spec => []TemplateNeverCollides
<1>1. IInv => TemplateNeverCollides BY DEF IInv
<1> QED BY <1>1, Invariance, PTL

\* Accepting an estimate changes no standing row of another document.
LEMMA AcceptSparesStanding ==
  ASSUME TypeOK, NEW s \in Sessions, session[s].quote \in Ids, AcceptCommit(s),
         NEW p \in Ids, Standing(quotes[p]), ~SameDocument(quotes[p], quotes[session[s].quote])
  PROVE  quotes'[p] = quotes[p]
<1>1. PICK q, v, row : q = session[s].quote /\ v = session[s].version
                       /\ row = [quotes[q] EXCEPT !.status = "accepted"]
  OBVIOUS
<1>2. p # q /\ q \in Ids BY <1>1 DEF SameDocument
<1>3. PICK won : won = IF session[s].subset THEN Superseding(q, v, "accepted")
                       ELSE [quotes EXCEPT ![q] = row]
  OBVIOUS
<1>4. quotes' = IF session[s].decline THEN DeclineOthers(won, quotes[q]) ELSE won
  BY <1>1, <1>3 DEF AcceptCommit
<1>5. p \in DOMAIN won /\ won[p] = quotes[p]
  <2>1. CASE ~session[s].subset BY <1>2, <1>3, <2>1 DEF Ids, TypeOK
  <2>2. CASE session[s].subset
    <3>1. PICK base, new : /\ won = Append(base, new)
                           /\ base = [quotes EXCEPT ![q] = [quotes[q] EXCEPT !.status = "superseded"]]
                           /\ new = [quotes[q] EXCEPT !.version = v, !.status = "accepted",
                                                      !.record = "active"]
      BY <1>3, <2>2 DEF Superseding
    <3>2. quotes[q] \in Row BY <1>2, RowsAreTyped
    <3>3. [quotes[q] EXCEPT !.status = "superseded"] \in Row
      BY <3>2, RestatedRow DEF Statuses
    <3>4. base \in Seq(Row) /\ Len(base) = Len(quotes) /\ base[p] = quotes[p] /\ p \in 1..Len(base)
      BY <1>2, <3>1, <3>3 DEF TypeOK, Ids
    <3> QED BY <3>1, <3>4
  <2> QED BY <2>1, <2>2
<1>6. ~LosesTo(won[p], quotes[q])
  BY <1>5 DEF LosesTo, Standing, LIVE_SIBLING_STATUSES
<1> QED BY <1>4, <1>5, <1>6 DEF DeclineOthers

\* Winning one estimate never touches another standing contract
\* (declineOtherEstimates and the update of acceptQuoteLines).
THEOREM OtherContractsKept == Spec => AcceptanceKeepsOtherContracts
<1>1. IInv /\ [Next]_vars =>
        [\A s \in Sessions : AcceptCommit(s) =>
           \A q \in Ids :
             Standing(quotes[q]) /\ ~SameDocument(quotes[q], quotes[session[s].quote])
               => quotes'[q] = quotes[q]]_vars
  <2> SUFFICES ASSUME IInv, NEW s \in Sessions, AcceptCommit(s), NEW q \in Ids,
                      Standing(quotes[q]), ~SameDocument(quotes[q], quotes[session[s].quote])
               PROVE  quotes'[q] = quotes[q]
    OBVIOUS
  <2>1. TypeOK /\ session[s].quote \in Ids
    BY DEF IInv, AcceptCommit, Pending, AcceptOps
  <2> QED BY <2>1, AcceptSparesStanding
<1> QED BY <1>1, Invariance, PTL DEF Spec, AcceptanceKeepsOtherContracts

-----------------------------------------------------------------------------
(* Quotes implements Contract.                                             *)
(*                                                                         *)
(* A step changes whether one row stands, and may put a later version of   *)
(* the same document beside it; the indexes keep every other version of    *)
(* that document from standing at the same time.                           *)

Entry(row) == [kind |-> row.kind, sequence |-> row.sequence, version |-> row.version]

\* The entries of the rows other than q.
Others(q) == {Entry(quotes[i]) : i \in {j \in Ids \ {q} : Standing(quotes[j])}}

\* A step of the table: q may change, n may be new, nothing else about standing.
ChangesOnly(q, n) ==
  /\ Kept /\ n \notin Ids /\ Ids' \subseteq Ids \cup {n}
  /\ \A i \in Ids \ {q} : Standing(quotes'[i]) <=> Standing(quotes[i])
  /\ n \in Ids' /\ Standing(quotes'[n]) =>
       /\ SameDocument(quotes'[n], quotes[q]) /\ quotes'[n].version > quotes[q].version
       /\ ~Standing(quotes'[q])

\* What the set of entries is, before and after.
LEMMA EntriesOf ==
  ASSUME NEW q \in Ids, NEW n, ChangesOnly(q, n)
  PROVE  /\ InForce = Others(q) \cup (IF Standing(quotes[q]) THEN {Entry(quotes[q])} ELSE {})
         /\ InForce' = Others(q) \cup (IF Standing(quotes'[q]) THEN {Entry(quotes[q])} ELSE {})
                         \cup (IF n \in Ids' /\ Standing(quotes'[n])
                               THEN {Entry(quotes'[n])} ELSE {})
<1>1. \A i \in Ids : i \in Ids' /\ Entry(quotes'[i]) = Entry(quotes[i])
  BY DEF ChangesOnly, Kept, SameIdentity, Entry
<1>2. InForce = {Entry(quotes[i]) : i \in {j \in Ids : Standing(quotes[j])}}
  BY DEF InForce, Entry
<1>3. InForce' = {Entry(quotes'[i]) : i \in {j \in Ids' : Standing(quotes'[j])}}
  BY DEF InForce, Entry
<1>4. InForce = Others(q) \cup (IF Standing(quotes[q]) THEN {Entry(quotes[q])} ELSE {})
  BY <1>2 DEF Others
<1>5. Others(q) \subseteq InForce'
  BY <1>1, <1>3 DEF ChangesOnly, Others
<1>6. Standing(quotes'[q]) => Entry(quotes[q]) \in InForce'
  BY <1>1, <1>3
<1>7. n \in Ids' /\ Standing(quotes'[n]) => Entry(quotes'[n]) \in InForce'
  BY <1>3
<1>8. ASSUME NEW i \in Ids', Standing(quotes'[i])
      PROVE  \/ Entry(quotes'[i]) \in Others(q)
             \/ i = q /\ Entry(quotes'[i]) = Entry(quotes[q])
             \/ i = n
  BY <1>1, <1>8 DEF ChangesOnly, Others
<1>9. \A x \in InForce' : \/ x \in Others(q)
                          \/ Standing(quotes'[q]) /\ x = Entry(quotes[q])
                          \/ n \in Ids' /\ Standing(quotes'[n]) /\ x = Entry(quotes'[n])
  BY <1>3, <1>8
<1> QED BY <1>4, <1>5, <1>6, <1>7, <1>9

\* While a version of q's document stands, no other one does.
LEMMA OthersDiffer ==
  ASSUME IndexesHold(quotes), IndexesHold(quotes'), NEW q \in Ids, NEW n, ChangesOnly(q, n),
         \/ Standing(quotes[q])
         \/ Standing(quotes'[q])
         \/ n \in Ids' /\ Standing(quotes'[n])
  PROVE  \A e \in Others(q) : ~Contract!SameDocument(Entry(quotes[q]), e)
<1> SUFFICES ASSUME NEW i \in Ids, i # q, Standing(quotes[i]),
                    SameDocument(quotes[q], quotes[i])
             PROVE  FALSE
  BY DEF Others, Entry, Contract!SameDocument, SameDocument
<1>1. /\ i \in Ids' /\ q \in Ids' /\ Standing(quotes'[i])
      /\ SameDocument(quotes'[q], quotes'[i]) /\ SameDocument(quotes'[q], quotes[q])
  BY DEF ChangesOnly, Kept, SameIdentity, SameDocument
<1>2. CASE Standing(quotes[q]) BY <1>2 DEF IndexesHold, Ids
<1>3. CASE Standing(quotes'[q]) BY <1>1, <1>3 DEF IndexesHold, Ids
<1>4. CASE n \in Ids' /\ Standing(quotes'[n])
  <2>1. SameDocument(quotes'[n], quotes'[i]) /\ n # i
    BY <1>1, <1>4 DEF ChangesOnly, SameDocument
  <2> QED BY <1>1, <1>4, <2>1 DEF IndexesHold, Ids
<1> QED BY <1>2, <1>3, <1>4

\* Such a step is one of the contract's, or leaves the contract alone.
LEMMA OneDocumentMoves ==
  ASSUME IndexesHold(quotes), IndexesHold(quotes'), NEW q \in Ids, NEW n, ChangesOnly(q, n)
  PROVE  [Contract!Next]_InForce
<1>1. PICK e, f, rest : e = Entry(quotes[q]) /\ f = Entry(quotes'[n]) /\ rest = Others(q)
  OBVIOUS
<1>2. PICK was, is, fresh \in BOOLEAN :
        /\ was <=> Standing(quotes[q])
        /\ is <=> Standing(quotes'[q])
        /\ fresh <=> (n \in Ids' /\ Standing(quotes'[n]))
  OBVIOUS
<1>3. /\ InForce = rest \cup (IF was THEN {e} ELSE {})
      /\ InForce' = rest \cup (IF is THEN {e} ELSE {}) \cup (IF fresh THEN {f} ELSE {})
  BY <1>1, <1>2, EntriesOf
<1>4. was \/ is \/ fresh => \A x \in rest : ~Contract!SameDocument(e, x)
  BY <1>1, <1>2, OthersDiffer
<1>5. fresh => ~is /\ Contract!SameDocument(e, f) /\ f.version > e.version
  BY <1>1, <1>2 DEF ChangesOnly, Entry, SameDocument, Contract!SameDocument
<1>6. was \/ is \/ fresh => e \notin rest
  BY <1>4 DEF Contract!SameDocument
<1>7. CASE fresh /\ was
  <2>1. InForce' = (InForce \ {e}) \cup {f} /\ e \in InForce /\ f \in InForce'
    BY <1>3, <1>5, <1>6, <1>7
  <2>2. Contract!Replace(e, f) BY <1>5, <1>7, <2>1 DEF Contract!Replace
  <2> QED BY <2>1, <2>2 DEF Contract!Next
<1>8. CASE fresh /\ ~was
  <2>1. \A x \in rest : ~Contract!SameDocument(f, x)
    BY <1>4, <1>5, <1>8 DEF Contract!SameDocument
  <2>2. InForce' = InForce \cup {f} /\ InForce = rest
    BY <1>3, <1>5, <1>8
  <2>3. f \in InForce' \ InForce
    BY <2>1, <2>2 DEF Contract!SameDocument
  <2>4. Contract!Sign(f) BY <2>1, <2>2 DEF Contract!Sign
  <2> QED BY <2>3, <2>4 DEF Contract!Next
<1>9. CASE ~fresh /\ was /\ ~is
  <2>1. InForce' = InForce \ {e} /\ e \in InForce BY <1>3, <1>6, <1>9
  <2>2. Contract!Withdraw(e) BY <2>1 DEF Contract!Withdraw
  <2> QED BY <2>1, <2>2 DEF Contract!Next
<1>10. CASE ~fresh /\ ~was /\ is
  <2>1. InForce' = InForce \cup {e} /\ InForce = rest BY <1>3, <1>10
  <2>2. Contract!Sign(e) BY <1>4, <1>10, <2>1 DEF Contract!Sign
  <2>3. e \in InForce' \ InForce BY <1>6, <1>10, <2>1
  <2> QED BY <2>2, <2>3 DEF Contract!Next
<1>11. CASE ~fresh /\ (was <=> is)
  BY <1>3, <1>11
<1> QED BY <1>7, <1>8, <1>9, <1>10, <1>11

-----------------------------------------------------------------------------
(* Every step of Quotes moves at most one document.                        *)

\* A step that does not write the table does not touch the contract.
LEMMA SameTable ==
  ASSUME quotes' = quotes
  PROVE  [Contract!Next]_InForce
  BY DEF InForce, Ids

\* A new document starts as a draft, so it is not part of the contract yet.
LEMMA InsertAddsNothing ==
  ASSUME TypeOK, NEW s \in Sessions, NEW kind, NEW sequence, NEW parent,
         InsertDocument(s, NewRow(kind, sequence, parent))
  PROVE  [Contract!Next]_InForce
<1>1. PICK row : row = NewRow(kind, sequence, parent) OBVIOUS
<1>2. quotes' = Append(quotes, row) /\ ~Standing(row)
  BY <1>1 DEF InsertDocument, NewRow, Standing
<1>3. quotes \in Seq(Row) BY DEF TypeOK
<1>4. /\ DOMAIN quotes' = Ids \cup {Len(quotes) + 1} /\ Len(quotes) + 1 \notin Ids
      /\ \A i \in Ids : quotes'[i] = quotes[i]
      /\ quotes'[Len(quotes) + 1] = row
  BY <1>2, <1>3 DEF Ids
<1>5. {i \in Ids' : Standing(quotes'[i])} = {i \in Ids : Standing(quotes[i])}
  BY <1>2, <1>4 DEF Ids
<1>6. InForce' = InForce
  BY <1>4, <1>5 DEF InForce
<1> QED BY <1>6

\* A row rewritten in place: its standing may change, nobody else's.
LEMMA RowRewritten ==
  ASSUME TypeOK, IndexesHold(quotes), IndexesHold(quotes'), NEW q \in Ids, NEW row,
         SameIdentity(row, quotes[q]), quotes' = [quotes EXCEPT ![q] = row]
  PROVE  [Contract!Next]_InForce
<1>1. Ids' = Ids /\ \A i \in Ids : quotes'[i] = IF i = q THEN row ELSE quotes[i]
  BY DEF Ids, TypeOK
<1>2. Len(quotes) + 1 \notin Ids BY RowsAreTyped
<1>3. ChangesOnly(q, Len(quotes) + 1)
  BY <1>1, <1>2 DEF ChangesOnly, Kept, SameIdentity
<1> QED BY <1>3, OneDocumentMoves

\* The next version of a document, let in by the indexes, is later than its source.
LEMMA NewVersionIsLater ==
  ASSUME TypeOK, NumberedWithoutGaps, NEW q \in Ids, NEW v \in Nat, FollowsVersion(v, q),
         AddsVersion(quotes', q, v), IndexesHold(quotes')
  PROVE  v > quotes[q].version
<1>1. v \notin VersionsOf(quotes[q])
  <2> SUFFICES ASSUME NEW p \in Ids, SameDocument(quotes[p], quotes[q]), quotes[p].version = v
               PROVE  FALSE
    BY DEF VersionsOf
  <2>1. /\ SameDocument(quotes'[p], quotes'[Len(quotes) + 1])
        /\ quotes'[p].version = quotes'[Len(quotes) + 1].version
    BY DEF AddsVersion, SameDocument, SameIdentity
  <2>2. p \in DOMAIN quotes' /\ Len(quotes) + 1 \in DOMAIN quotes' /\ p # Len(quotes) + 1
    BY RowsAreTyped DEF AddsVersion
  <2> QED BY <2>1, <2>2 DEF IndexesHold
<1>2. PICK k \in 1..Len(quotes) : VersionsOf(quotes[q]) = 1..k /\ v = k + 1
  BY <1>1, PendingVersionIsNext
<1>3. quotes[q].version \in 1..k
  BY <1>2 DEF VersionsOf, SameDocument
<1> QED BY <1>2, <1>3, RowsAreTyped

\* A version added, its source superseded, other rows' standing as it was.
LEMMA VersionAdded ==
  ASSUME TypeOK, NumberedWithoutGaps, IndexesHold(quotes), IndexesHold(quotes'),
         NEW q \in Ids, NEW v \in Nat, FollowsVersion(v, q), AddsVersion(quotes', q, v),
         ~Standing(quotes'[q]),
         \A i \in Ids \ {q} : Standing(quotes'[i]) <=> Standing(quotes[i])
  PROVE  [Contract!Next]_InForce
<1>1. /\ Ids' = Ids \cup {Len(quotes) + 1} /\ Len(quotes) + 1 \notin Ids
      /\ \A i \in Ids : SameIdentity(quotes'[i], quotes[i])
  BY RowsAreTyped DEF AddsVersion, Ids
<1>2. v > quotes[q].version BY NewVersionIsLater
<1>3. SameDocument(quotes'[Len(quotes) + 1], quotes[q]) /\ quotes'[Len(quotes) + 1].version = v
  BY DEF AddsVersion, SameDocument
<1>4. ChangesOnly(q, Len(quotes) + 1)
  BY <1>1, <1>2, <1>3 DEF ChangesOnly, Kept
<1> QED BY <1>4, OneDocumentMoves

\* What superseding leaves standing.
LEMMA SupersedingStands ==
  ASSUME TypeOK, NEW q \in Ids, NEW v \in Nat, NEW status \in Statuses
  PROVE  LET rows == Superseding(q, v, status) IN
         /\ ~Standing(rows[q]) /\ rows[q].status = "superseded"
         /\ rows[Len(quotes) + 1].status = status
         /\ \A i \in Ids \ {q} : rows[i] = quotes[i]
<1> DEFINE old == [quotes[q] EXCEPT !.status = "superseded"]
           new == [quotes[q] EXCEPT !.version = v, !.status = status, !.record = "active"]
           base == [quotes EXCEPT ![q] = old]
<1>1. quotes \in Seq(Row) /\ quotes[q] \in Row /\ Ids = 1..Len(quotes) /\ Len(quotes) \in Nat
  BY RowsAreTyped DEF TypeOK
<1>2. old \in Row /\ ~Standing(old) /\ old.status = "superseded" /\ new.status = status
  BY <1>1 DEF Standing, Row, Statuses
<1>3. Superseding(q, v, status) = Append(base, new) BY DEF Superseding
<1> HIDE DEF old, new
<1>4. /\ base \in Seq(Row) /\ Len(base) = Len(quotes)
      /\ \A i \in Ids : base[i] = IF i = q THEN old ELSE quotes[i]
  BY <1>1, <1>2 DEF Ids
<1> HIDE DEF base
<1>5. /\ \A i \in Ids : Append(base, new)[i] = base[i]
      /\ Append(base, new)[Len(quotes) + 1] = new
  BY <1>1, <1>4
<1> QED BY <1>2, <1>3, <1>4, <1>5

\* Declining the rows that lost changes nobody's standing, and not the winner.
LEMMA DecliningStands ==
  ASSUME NEW rows \in Seq(Row), NEW source, NEW i \in DOMAIN rows
  PROVE  /\ Standing(DeclineOthers(rows, source)[i]) <=> Standing(rows[i])
         /\ DeclineOthers(rows, source)[i].status \in {rows[i].status, "declined"}
         /\ rows[i].sequence = source.sequence => DeclineOthers(rows, source)[i] = rows[i]
<1>1. rows[i] \in Row OBVIOUS
<1>2. DeclineOthers(rows, source)[i] =
        IF LosesTo(rows[i], source) THEN [rows[i] EXCEPT !.status = "declined"] ELSE rows[i]
  BY DEF DeclineOthers
<1>3. LosesTo(rows[i], source) =>
        /\ ~Standing(rows[i]) /\ ~Standing([rows[i] EXCEPT !.status = "declined"])
        /\ [rows[i] EXCEPT !.status = "declined"].status = "declined"
        /\ rows[i].sequence # source.sequence
  BY <1>1 DEF LosesTo, Standing, LIVE_SIBLING_STATUSES, Row, Statuses
<1> QED BY <1>2, <1>3

-----------------------------------------------------------------------------
(* One lemma per action that writes the table.                             *)

\* createQuoteFromTemplate, createBlankQuote and createChangeOrder commit.
LEMMA InsertsImplement ==
  ASSUME TypeOK, NEW s \in Sessions, TemplateCommit(s) \/ BlankCommit(s) \/ RaiseCommit(s)
  PROVE  [Contract!Next]_InForce
<1>1. PICK kind, parent : InsertDocument(s, NewRow(kind, session[s].sequence, parent))
  BY DEF TemplateCommit, BlankCommit, RaiseCommit
<1> QED BY <1>1, InsertAddsNothing

\* voidQuote commits.
LEMMA VoidImplements ==
  ASSUME IInv, IInv', NEW s \in Sessions, VoidCommit(s)
  PROVE  [Contract!Next]_InForce
<1>1. PICK q, row : q = session[s].quote /\ row = [quotes[q] EXCEPT !.record = "void"]
  OBVIOUS
<1>2. q \in Ids /\ quotes[q] \in Row
  BY <1>1, RowsAreTyped DEF IInv, TypeOK, VoidCommit, Pending
<1>3. SameIdentity(row, quotes[q]) BY <1>1, <1>2, VoidedRow
<1>4. quotes' = [quotes EXCEPT ![q] = row] BY <1>1 DEF VoidCommit
<1>5. TypeOK /\ IndexesHold(quotes) /\ IndexesHold(quotes') BY DEF IInv
<1> QED BY <1>2, <1>3, <1>4, <1>5, RowRewritten

\* setQuoteStatus commits.
LEMMA SetQuoteStatusImplements ==
  ASSUME IInv, IInv', NEW s \in Sessions, NEW status \in {"sent", "accepted", "declined"},
         SetQuoteStatus(s, status)
  PROVE  [Contract!Next]_InForce
<1>1. PICK q, row : q = session[s].quote /\ row = [quotes[q] EXCEPT !.status = status]
  OBVIOUS
<1>2. q \in Ids /\ quotes[q] \in Row
  BY <1>1, RowsAreTyped DEF IInv, TypeOK, SetQuoteStatus, Pending
<1>3. status \in Statuses BY DEF Statuses
<1>4. SameIdentity(row, quotes[q]) BY <1>1, <1>2, <1>3, RestatedRow
<1>5. quotes' = [quotes EXCEPT ![q] = row] BY <1>1 DEF SetQuoteStatus
<1>6. TypeOK /\ IndexesHold(quotes) /\ IndexesHold(quotes') BY DEF IInv
<1> QED BY <1>2, <1>4, <1>5, <1>6, RowRewritten

\* reviseQuote commits: the signed version may be replaced, never copied.
LEMMA ReviseImplements ==
  ASSUME IInv, IInv', NEW s \in Sessions, ReviseCommit(s)
  PROVE  [Contract!Next]_InForce
<1>1. PICK q, v : q = session[s].quote /\ v = session[s].version OBVIOUS
<1>2. TypeOK /\ q \in Ids /\ v \in Nat /\ FollowsVersion(v, q)
  BY <1>1 DEF IInv, TypeOK, Request, ReviseCommit, Pending, ReviseOps
<1>3. quotes' = Superseding(q, v, "draft") /\ "draft" \in Statuses
  BY <1>1 DEF ReviseCommit, Statuses
<1>4. AddsVersion(quotes', q, v) BY <1>2, <1>3, SupersedingAddsVersion
<1>5. ~Standing(quotes'[q]) /\ \A i \in Ids \ {q} : quotes'[i] = quotes[i]
  BY <1>2, <1>3, SupersedingStands
<1>6. \A i \in Ids \ {q} : Standing(quotes'[i]) <=> Standing(quotes[i])
  BY <1>5
<1>7. NumberedWithoutGaps /\ IndexesHold(quotes) /\ IndexesHold(quotes') BY DEF IInv
<1> QED BY <1>2, <1>4, <1>5, <1>6, <1>7, VersionAdded

\* acceptQuoteLines commits: the row itself is signed, or its next version is.
LEMMA AcceptImplements ==
  ASSUME IInv, IInv', NEW s \in Sessions, AcceptCommit(s)
  PROVE  [Contract!Next]_InForce
<1>1. PICK q, v : q = session[s].quote /\ v = session[s].version OBVIOUS
<1>2. PICK row, inPlace : row = [quotes[q] EXCEPT !.status = "accepted"]
                            /\ inPlace = [quotes EXCEPT ![q] = row]
  OBVIOUS
<1>3. PICK won : won = IF session[s].subset THEN Superseding(q, v, "accepted") ELSE inPlace
  OBVIOUS
<1>4. /\ TypeOK /\ q \in Ids /\ v \in Nat /\ FollowsVersion(v, q)
      /\ quotes \in Seq(Row) /\ quotes[q] \in Row
  BY <1>1, RowsAreTyped DEF IInv, TypeOK, Request, AcceptCommit, Pending, AcceptOps
<1>5. NumberedWithoutGaps /\ IndexesHold(quotes) /\ IndexesHold(quotes') BY DEF IInv
<1>6. quotes' = IF session[s].decline THEN DeclineOthers(won, quotes[q]) ELSE won
  BY <1>1, <1>2, <1>3 DEF AcceptCommit
<1>7. won \in Seq(Row) =>
        /\ Ids' = DOMAIN won
        /\ \A i \in DOMAIN won :
             /\ SameIdentity(quotes'[i], won[i])
             /\ quotes'[i].status = "superseded" => won[i].status = "superseded"
             /\ Standing(quotes'[i]) <=> Standing(won[i])
  BY <1>6, DeclineOthersRewrites, DecliningStands DEF Ids, SameIdentity
<1>8. CASE session[s].subset
  <2>1. won = Superseding(q, v, "accepted") /\ "accepted" \in Statuses
    BY <1>3, <1>8 DEF Statuses
  <2>2. won \in Seq(Row) /\ AddsVersion(won, q, v) BY <1>4, <2>1, SupersedingAddsVersion
  <2>3. ~Standing(won[q]) /\ \A i \in Ids \ {q} : won[i] = quotes[i]
    BY <1>4, <2>1, SupersedingStands
  <2>4. Ids \subseteq DOMAIN won /\ Len(quotes) + 1 \in DOMAIN won
    BY <1>4, <2>2, RowsAreTyped DEF AddsVersion
  <2>5. AddsVersion(quotes', q, v)
    <3>1. DOMAIN quotes' = 1..(Len(quotes) + 1) BY <1>7, <2>2 DEF AddsVersion, Ids
    <3>2. won[Len(quotes) + 1].status # "superseded"
            => quotes'[Len(quotes) + 1].status # "superseded"
      BY <1>7, <2>2, <2>4
    <3> QED BY <1>7, <2>2, <2>4, <3>1, <3>2 DEF AddsVersion, SameIdentity
  <2>6. /\ ~Standing(quotes'[q])
        /\ \A i \in Ids \ {q} : Standing(quotes'[i]) <=> Standing(quotes[i])
    BY <1>4, <1>7, <2>2, <2>3, <2>4
  <2> QED BY <1>4, <1>5, <2>5, <2>6, VersionAdded
<1>9. CASE ~session[s].subset
  <2>1. row \in Row /\ SameIdentity(row, quotes[q])
    BY <1>2, <1>4, RestatedRow DEF Statuses
  <2>2. /\ won \in Seq(Row) /\ DOMAIN won = Ids
        /\ \A i \in Ids : won[i] = IF i = q THEN row ELSE quotes[i]
    BY <1>2, <1>3, <1>4, <1>9, <2>1 DEF Ids
  <2>3. Ids' = Ids /\ \A i \in Ids : SameIdentity(quotes'[i], quotes[i])
    BY <1>7, <2>1, <2>2 DEF SameIdentity
  <2>4. \A i \in Ids \ {q} : Standing(quotes'[i]) <=> Standing(quotes[i])
    BY <1>7, <2>2
  <2>5. Len(quotes) + 1 \notin Ids BY <1>4, RowsAreTyped
  <2>6. ChangesOnly(q, Len(quotes) + 1)
    BY <2>3, <2>4, <2>5 DEF ChangesOnly, Kept
  <2> QED BY <1>4, <1>5, <2>6, OneDocumentMoves
<1> QED BY <1>8, <1>9

-----------------------------------------------------------------------------
(* The theorem.                                                            *)

\* The tables start empty, and so does the contract.
LEMMA StartsUnsigned == Init => Contract!Init
  BY DEF Init, InForce, Ids, Contract!Init

\* Every step is a step of the contract, or none.
LEMMA StepImplements == IInv /\ IInv' /\ [Next]_vars => [Contract!Next]_InForce
<1> SUFFICES ASSUME IInv, IInv', [Next]_vars PROVE [Contract!Next]_InForce
  OBVIOUS
<1>1. TypeOK BY DEF IInv
<1>2. ASSUME NEW s \in Sessions, Create(s) PROVE [Contract!Next]_InForce
  <2>1. CASE TemplateCommit(s) \/ BlankCommit(s) \/ RaiseCommit(s)
    BY <1>1, <2>1, InsertsImplement
  <2>2. CASE \/ TemplateNumber(s) \/ TemplateRead(s) \/ BlankRead(s) \/ BlankNumber(s)
             \/ RaiseRead(s) \/ RaiseSequence(s) \/ RaiseNumber(s)
    BY <2>2, SameTable DEF TemplateNumber, TemplateRead, BlankRead, BlankNumber,
       RaiseRead, RaiseSequence, RaiseNumber, Allocate
  <2> QED BY <1>2, <2>1, <2>2 DEF Create
<1>3. ASSUME NEW s \in Sessions, Amend(s) PROVE [Contract!Next]_InForce
  <2>1. CASE ReviseCommit(s) BY <2>1, ReviseImplements
  <2>2. CASE VoidCommit(s) BY <2>2, VoidImplements
  <2>3. CASE \E status \in {"sent", "accepted", "declined"} : SetQuoteStatus(s, status)
    BY <2>3, SetQuoteStatusImplements
  <2>4. CASE ReviseVersions(s) \/ \E q \in Ids : Open(s, q) \/ ReviseRead(s, q) \/ VoidRead(s, q)
    BY <2>4, SameTable DEF Open, ReviseRead, VoidRead, ReviseVersions
  <2> QED BY <1>3, <2>1, <2>2, <2>3, <2>4 DEF Amend
<1>4. ASSUME NEW s \in Sessions, Win(s) PROVE [Contract!Next]_InForce
  <2>1. CASE AcceptCommit(s) BY <2>1, AcceptImplements
  <2>2. CASE \/ AcceptVersions(s) \/ AcceptWrite(s) \/ AcceptStage(s) \/ StageCommit(s)
             \/ \E subset, decline \in BOOLEAN : AcceptRead(s, subset, decline)
             \/ \E target \in StageTargets : StageRead(s, target)
    BY <2>2, SameTable
       DEF AcceptVersions, AcceptWrite, AcceptStage, StageCommit, AcceptRead, StageRead
  <2> QED BY <1>4, <2>1, <2>2 DEF Win
<1>5. CASE UNCHANGED vars BY <1>5, SameTable DEF vars
<1>6. ASSUME NEW s \in Sessions, Rollback(s) PROVE [Contract!Next]_InForce
  BY <1>6, SameTable DEF Rollback
<1>7. ASSUME NEW kind \in Kinds, NumberElsewhere(kind) PROVE [Contract!Next]_InForce
  BY <1>7, SameTable DEF NumberElsewhere
<1> QED BY <1>2, <1>3, <1>4, <1>5, <1>6, <1>7 DEF Next

\* Whatever the requests do to each other, the accepted, active rows behave as a
\* contract: documents enter and leave one at a time, each counted at most once,
\* and only a later version takes a signed one's place (setQuoteStatus,
\* voidQuote, reviseQuote, acceptQuoteLines and the unique indexes).
THEOREM QuotesImplementContract == Spec => ImplementsContract
<1>1. Init => IInv BY InitEstablishes
<1>2. IInv /\ [Next]_vars => IInv' BY NextKeeps
<1> QED BY <1>1, <1>2, StartsUnsigned, StepImplements, PTL
        DEF Spec, ImplementsContract, Contract!Spec

-----------------------------------------------------------------------------
(* One request at a time.                                                  *)
(*                                                                         *)
(* What the repository says of signed quotes fails when requests overlap   *)
(* (Quotes, last section).  It holds when they do not: what a request has  *)
(* read is then still so when it writes.                                   *)

OneAtATime == \A s, t \in Sessions : s = t

\* What the request read of the row in hand and of the stage is still so.
StillSo(request) ==
  /\ request.op \in AcceptOps => Acceptable(quotes[request.quote])
  /\ request.op \in ReviseOps
       => Live(quotes[request.quote]) /\ quotes[request.quote].status \in REVISABLE
  /\ request.op = "acceptStaged" => request.stage = stage
  /\ request.op = "stageRead"
       => request.stage \in IF HasStandingQuote THEN JOB_STAGES ELSE OPPORTUNITY_STAGES

SerialInv ==
  /\ IInv
  /\ StandingEstimateMeansJob
  /\ \A s \in Sessions : StillSo(session[s])

\* What a step does to the signed and the declined rows it finds.
Orderly ==
  \A q \in Ids :
    /\ Standing(quotes[q]) => quotes'[q].status # "superseded"
    /\ quotes[q].kind = "estimate" /\ quotes[q].status = "declined"
         => quotes'[q].status # "accepted"

\* A step that writes neither table keeps the invariant if what it read is so.
LEMMA AloneReads ==
  ASSUME SerialInv, IInv', OneAtATime, NEW s \in Sessions, NEW r,
         session' = [session EXCEPT ![s] = r], UNCHANGED <<quotes, stage>>, StillSo(r)
  PROVE  SerialInv' /\ Orderly
<1>1. \A t \in Sessions : session'[t] = r
  BY DEF SerialInv, IInv, TypeOK, OneAtATime
<1>2. \A t \in Sessions : StillSo(session[t])'
  BY <1>1 DEF StillSo, HasStandingQuote, Ids
<1>3. StandingEstimateMeansJob'
  BY DEF SerialInv, StandingEstimateMeansJob, Ids
<1>4. Orderly BY DEF Orderly, Standing
<1> QED BY <1>2, <1>3, <1>4 DEF SerialInv

\* Nor does a step that ends its request, if the estimates standing mean a job.
LEMMA AloneEnds ==
  ASSUME SerialInv, IInv', OneAtATime, NEW s \in Sessions, End(s), StandingEstimateMeansJob'
  PROVE  SerialInv'
<1>1. \A t \in Sessions : session'[t] = Idle
  BY DEF SerialInv, IInv, TypeOK, OneAtATime, End
<1>2. \A t \in Sessions : StillSo(session[t])'
  BY <1>1 DEF StillSo, Idle, AcceptOps, ReviseOps
<1> QED BY <1>2 DEF SerialInv

\* A write that signs no estimate and leaves the stage alone needs no job.
LEMMA NothingSigned ==
  ASSUME StandingEstimateMeansJob, UNCHANGED stage,
         \A i \in Ids' : quotes'[i].kind = "estimate" /\ Standing(quotes'[i])
                           => /\ i \in Ids
                              /\ quotes[i].kind = "estimate" /\ Standing(quotes[i])
  PROVE  StandingEstimateMeansJob'
BY DEF StandingEstimateMeansJob

\* The reads: each leaves behind what it has just seen.
LEMMA ReadsAlone ==
  ASSUME SerialInv, IInv', OneAtATime, NEW s \in Sessions
  PROVE  /\ TemplateRead(s) \/ BlankRead(s) \/ RaiseRead(s) \/ RaiseSequence(s)
              => SerialInv' /\ Orderly
         /\ ReviseVersions(s) \/ AcceptVersions(s) \/ AcceptWrite(s) \/ AcceptStage(s)
              => SerialInv' /\ Orderly
         /\ \A q \in Ids : Open(s, q) \/ ReviseRead(s, q) \/ VoidRead(s, q)
              => SerialInv' /\ Orderly
         /\ \A subset, decline \in BOOLEAN : AcceptRead(s, subset, decline)
              => SerialInv' /\ Orderly
         /\ \A target \in StageTargets : StageRead(s, target) => SerialInv' /\ Orderly
         /\ \A kind, before, after :
              Allocate(s, kind, before, after) /\ after \in NumberedOps
              => SerialInv' /\ Orderly
<1> USE DEF Idle, Request, AcceptOps, ReviseOps, StillSo
<1>0. /\ session \in [Sessions -> Request] /\ session[s] \in Request /\ StillSo(session[s])
  BY DEF SerialInv, IInv, TypeOK
<1>1. ASSUME TemplateRead(s) PROVE SerialInv' /\ Orderly
  <2> DEFINE r == [session[s] EXCEPT !.op = "templateRead",
                                     !.sequence = NextAfter(SequencesOf("estimate"))]
  <2>1. session' = [session EXCEPT ![s] = r] BY <1>0, <1>1 DEF TemplateRead
  <2>2. StillSo(r) BY <1>0
  <2> QED BY <1>1, <2>1, <2>2, AloneReads DEF TemplateRead
<1>2. ASSUME BlankRead(s) PROVE SerialInv' /\ Orderly
  <2> DEFINE r == [Idle EXCEPT !.op = "blankRead",
                               !.sequence = NextAfter(SequencesOf("estimate"))]
  <2>1. StillSo(r) OBVIOUS
  <2> QED BY <1>2, <2>1, AloneReads DEF BlankRead, Begin
<1>3. ASSUME RaiseRead(s) PROVE SerialInv' /\ Orderly
  <2> DEFINE r == [Idle EXCEPT !.op = "raiseRead", !.quote = session[s].quote]
  <2>1. StillSo(r) OBVIOUS
  <2> QED BY <1>3, <2>1, AloneReads DEF RaiseRead, Begin
<1>4. ASSUME RaiseSequence(s) PROVE SerialInv' /\ Orderly
  <2> DEFINE r == [session[s] EXCEPT !.op = "raiseSequenced",
                                     !.sequence = NextAfter(SequencesOf("change_order"))]
  <2>1. session' = [session EXCEPT ![s] = r] BY <1>0, <1>4 DEF RaiseSequence
  <2>2. StillSo(r) BY <1>0
  <2> QED BY <1>4, <2>1, <2>2, AloneReads DEF RaiseSequence
<1>5. ASSUME ReviseVersions(s) PROVE SerialInv' /\ Orderly
  <2> DEFINE r == [session[s] EXCEPT !.op = "reviseVersions",
                                     !.version = NextAfter(VersionsOf(quotes[session[s].quote]))]
  <2>1. session' = [session EXCEPT ![s] = r] BY <1>0, <1>5 DEF ReviseVersions
  <2>2. StillSo(r) BY <1>0, <1>5 DEF ReviseVersions
  <2> QED BY <1>5, <2>1, <2>2, AloneReads DEF ReviseVersions
<1>6. ASSUME AcceptVersions(s) PROVE SerialInv' /\ Orderly
  <2> DEFINE r == [session[s] EXCEPT !.op = "acceptVersions",
                                     !.version = NextAfter(VersionsOf(quotes[session[s].quote]))]
  <2>1. session' = [session EXCEPT ![s] = r] BY <1>0, <1>6 DEF AcceptVersions
  <2>2. StillSo(r) BY <1>0, <1>6 DEF AcceptVersions
  <2> QED BY <1>6, <2>1, <2>2, AloneReads DEF AcceptVersions
<1>7. ASSUME AcceptWrite(s) PROVE SerialInv' /\ Orderly
  <2> DEFINE r == [session[s] EXCEPT !.op = "acceptWritten"]
  <2>1. session' = [session EXCEPT ![s] = r] BY <1>0, <1>7 DEF AcceptWrite
  <2>2. StillSo(r) BY <1>0, <1>7 DEF AcceptWrite
  <2> QED BY <1>7, <2>1, <2>2, AloneReads DEF AcceptWrite
<1>8. ASSUME AcceptStage(s) PROVE SerialInv' /\ Orderly
  <2> DEFINE r == [session[s] EXCEPT !.op = "acceptStaged", !.stage = stage]
  <2>1. session' = [session EXCEPT ![s] = r] BY <1>0, <1>8 DEF AcceptStage
  <2>2. StillSo(r) BY <1>0, <1>8 DEF AcceptStage
  <2> QED BY <1>8, <2>1, <2>2, AloneReads DEF AcceptStage
<1>9. ASSUME NEW q \in Ids, Open(s, q) \/ ReviseRead(s, q) \/ VoidRead(s, q)
      PROVE  SerialInv' /\ Orderly
  <2>1. CASE Open(s, q)
    <3> DEFINE r == [Idle EXCEPT !.op = "page", !.quote = q, !.offers = Offers(quotes[q])]
    <3>1. StillSo(r) OBVIOUS
    <3> QED BY <2>1, <3>1, AloneReads DEF Open, Begin
  <2>2. CASE ReviseRead(s, q)
    <3> DEFINE r == [Idle EXCEPT !.op = "reviseRead", !.quote = q]
    <3>1. StillSo(r) BY <2>2 DEF ReviseRead
    <3> QED BY <2>2, <3>1, AloneReads DEF ReviseRead, Begin
  <2>3. CASE VoidRead(s, q)
    <3> DEFINE r == [Idle EXCEPT !.op = "voidRead", !.quote = q]
    <3>1. StillSo(r) OBVIOUS
    <3> QED BY <2>3, <3>1, AloneReads DEF VoidRead, Begin
  <2> QED BY <1>9, <2>1, <2>2, <2>3
<1>10. ASSUME NEW subset \in BOOLEAN, NEW decline \in BOOLEAN, AcceptRead(s, subset, decline)
       PROVE  SerialInv' /\ Orderly
  <2> DEFINE r == [Idle EXCEPT !.op = "acceptRead", !.quote = session[s].quote,
                               !.subset = subset, !.decline = decline]
  <2>1. StillSo(r) BY <1>10 DEF AcceptRead
  <2> QED BY <1>10, <2>1, AloneReads DEF AcceptRead, Begin
<1>11. ASSUME NEW target \in StageTargets, StageRead(s, target) PROVE SerialInv' /\ Orderly
  <2> DEFINE r == [Idle EXCEPT !.op = "stageRead", !.stage = target]
  <2>1. StillSo(r) BY <1>11 DEF StageRead
  <2> QED BY <1>11, <2>1, AloneReads DEF StageRead, Begin
<1>12. ASSUME NEW kind, NEW before, NEW after,
              Allocate(s, kind, before, after), after \in NumberedOps
       PROVE  SerialInv' /\ Orderly
  <2> DEFINE r == [session[s] EXCEPT !.op = after]
  <2>1. session' = [session EXCEPT ![s] = r] BY <1>0, <1>12 DEF Allocate
  <2>2. StillSo(r) BY <1>0, <1>12 DEF NumberedOps
  <2> QED BY <1>12, <2>1, <2>2, AloneReads DEF Allocate
<1> HIDE DEF StillSo
<1> QED BY <1>1, <1>2, <1>3, <1>4, <1>5, <1>6, <1>7, <1>8, <1>9, <1>10, <1>11, <1>12

\* A new document starts as a draft.
LEMMA InsertsAlone ==
  ASSUME SerialInv, IInv', OneAtATime, NEW s \in Sessions,
         TemplateCommit(s) \/ BlankCommit(s) \/ RaiseCommit(s)
  PROVE  SerialInv' /\ Orderly
<1>1. PICK kind, parent : InsertDocument(s, NewRow(kind, session[s].sequence, parent))
  BY DEF TemplateCommit, BlankCommit, RaiseCommit
<1>2. PICK row : row = NewRow(kind, session[s].sequence, parent)
  OBVIOUS
<1>3. quotes' = Append(quotes, row) /\ End(s) /\ UNCHANGED stage
  BY <1>1, <1>2 DEF InsertDocument
<1>4. ~Standing(row) BY <1>2 DEF NewRow, Standing
<1>5. /\ quotes \in Seq(Row) /\ Ids' = Ids \cup {Len(quotes) + 1}
      /\ \A i \in Ids : quotes'[i] = quotes[i]
      /\ quotes'[Len(quotes) + 1] = row
  BY <1>3, RowsAreTyped DEF SerialInv, IInv, TypeOK, Ids
<1>6. StandingEstimateMeansJob'
  BY <1>3, <1>4, <1>5, NothingSigned DEF SerialInv
<1>7. Orderly BY <1>5 DEF Orderly, Standing
<1> QED BY <1>3, <1>6, <1>7, AloneEnds

\* A voided row stands no longer, and keeps its status.
LEMMA VoidAlone ==
  ASSUME SerialInv, IInv', OneAtATime, NEW s \in Sessions, VoidCommit(s)
  PROVE  SerialInv' /\ Orderly
<1>1. PICK q, row : q = session[s].quote /\ row = [quotes[q] EXCEPT !.record = "void"]
  OBVIOUS
<1>2. TypeOK /\ q \in Ids /\ quotes \in Seq(Row) /\ quotes[q] \in Row
  BY <1>1, RowsAreTyped DEF SerialInv, IInv, TypeOK, VoidCommit, Pending
<1>3. row \in Row /\ row.status = quotes[q].status /\ ~Standing(row)
  BY <1>1, <1>2, VoidedRow
<1>4. quotes' = [quotes EXCEPT ![q] = row] /\ End(s) /\ UNCHANGED stage
  BY <1>1 DEF VoidCommit
<1>5. Ids' = Ids /\ \A i \in Ids : quotes'[i] = IF i = q THEN row ELSE quotes[i]
  BY <1>2, <1>4 DEF Ids
<1>6. StandingEstimateMeansJob'
  BY <1>3, <1>4, <1>5, NothingSigned DEF SerialInv
<1>7. Orderly BY <1>3, <1>5 DEF Orderly, Standing
<1> QED BY <1>4, <1>6, <1>7, AloneEnds

\* A button signs change orders only, and supersedes nothing.
LEMMA SetQuoteStatusAlone ==
  ASSUME SerialInv, IInv', OneAtATime, NEW s \in Sessions,
         NEW status \in {"sent", "accepted", "declined"}, SetQuoteStatus(s, status)
  PROVE  SerialInv' /\ Orderly
<1>1. PICK q, row : q = session[s].quote /\ row = [quotes[q] EXCEPT !.status = status]
  OBVIOUS
<1>2. TypeOK /\ q \in Ids /\ quotes \in Seq(Row) /\ quotes[q] \in Row
  BY <1>1, RowsAreTyped DEF SerialInv, IInv, TypeOK, SetQuoteStatus, Pending
<1>3. row \in Row /\ row.status = status /\ row.kind = quotes[q].kind
  <2>1. status \in Statuses BY DEF Statuses
  <2> QED BY <1>1, <1>2, <2>1, RestatedRow DEF SameIdentity
<1>4. /\ quotes' = [quotes EXCEPT ![q] = row] /\ End(s) /\ UNCHANGED stage
      /\ status = "accepted" => quotes[q].kind = "change_order"
  BY <1>1 DEF SetQuoteStatus
<1>5. Ids' = Ids /\ \A i \in Ids : quotes'[i] = IF i = q THEN row ELSE quotes[i]
  BY <1>2, <1>4 DEF Ids
<1>6. row.kind = "estimate" => ~Standing(row)
  BY <1>3, <1>4 DEF Standing
<1>7. StandingEstimateMeansJob'
  BY <1>4, <1>5, <1>6, NothingSigned DEF SerialInv
<1>8. Orderly BY <1>3, <1>4, <1>5 DEF Orderly, Standing
<1> QED BY <1>4, <1>7, <1>8, AloneEnds

\* The row revised was sent or declined when it was read, and still is.
LEMMA ReviseAlone ==
  ASSUME SerialInv, IInv', OneAtATime, NEW s \in Sessions, ReviseCommit(s)
  PROVE  SerialInv' /\ Orderly
<1>1. PICK q, v : q = session[s].quote /\ v = session[s].version OBVIOUS
<1>2. TypeOK /\ q \in Ids /\ v \in Nat /\ "draft" \in Statuses
  BY <1>1 DEF SerialInv, IInv, TypeOK, Request, ReviseCommit, Pending, ReviseOps, Statuses
<1>3. quotes' = Superseding(q, v, "draft") /\ End(s) /\ UNCHANGED stage
  BY <1>1 DEF ReviseCommit
<1>4. quotes[q].status \in REVISABLE
  BY <1>1 DEF SerialInv, StillSo, ReviseCommit, ReviseOps
<1>5. Ids' = Ids \cup {Len(quotes) + 1}
  <2>1. AddsVersion(quotes', q, v) BY <1>2, <1>3, SupersedingAddsVersion
  <2>2. Ids' = 1..(Len(quotes) + 1) BY <2>1 DEF AddsVersion, Ids
  <2> QED BY <1>2, <2>2, RowsAreTyped
<1>6. /\ ~Standing(quotes'[q])
      /\ \A i \in Ids \ {q} : quotes'[i] = quotes[i]
  BY <1>2, <1>3, SupersedingStands
<1>7. /\ quotes'[q].status = "superseded"
      /\ quotes'[Len(quotes) + 1].status = "draft"
  BY <1>2, <1>3, SupersedingStands
<1>8. ~Standing(quotes'[Len(quotes) + 1]) BY <1>7 DEF Standing
<1>9. StandingEstimateMeansJob'
  BY <1>3, <1>5, <1>6, <1>8, NothingSigned DEF SerialInv
<1>10. Orderly
  BY <1>4, <1>6, <1>7 DEF Orderly, Standing, REVISABLE
<1> QED BY <1>3, <1>9, <1>10, AloneEnds

\* The estimate won could still be won; the others at most become declined.
LEMMA AcceptAlone ==
  ASSUME SerialInv, IInv', OneAtATime, NEW s \in Sessions, AcceptCommit(s)
  PROVE  SerialInv' /\ Orderly
<1>1. PICK q, v : q = session[s].quote /\ v = session[s].version OBVIOUS
<1>2. PICK row, inPlace : row = [quotes[q] EXCEPT !.status = "accepted"]
                            /\ inPlace = [quotes EXCEPT ![q] = row]
  OBVIOUS
<1>3. PICK won : won = IF session[s].subset THEN Superseding(q, v, "accepted") ELSE inPlace
  OBVIOUS
<1>4. /\ TypeOK /\ q \in Ids /\ v \in Nat /\ "accepted" \in Statuses
      /\ quotes \in Seq(Row) /\ quotes[q] \in Row
  BY <1>1, RowsAreTyped
     DEF SerialInv, IInv, TypeOK, Request, AcceptCommit, Pending, AcceptOps, Statuses
<1>5. Acceptable(quotes[q]) /\ session[s].stage = stage
  BY <1>1 DEF SerialInv, StillSo, AcceptCommit, AcceptOps
<1>6. stage' = (IF stage \in ADVANCES_TO_WON THEN "won" ELSE stage) /\ End(s)
  BY <1>5 DEF AcceptCommit
<1>7. StandingEstimateMeansJob'
  BY <1>4, <1>6 DEF StandingEstimateMeansJob, TypeOK, Stages, ADVANCES_TO_WON, JOB_STAGES
<1>8. quotes' = IF session[s].decline THEN DeclineOthers(won, quotes[q]) ELSE won
  BY <1>1, <1>2, <1>3 DEF AcceptCommit
<1>9. /\ won \in Seq(Row) /\ Ids \subseteq DOMAIN won
      /\ \A i \in Ids \ {q} : won[i] = quotes[i]
  <2>1. CASE session[s].subset
    <3>1. won = Superseding(q, v, "accepted") BY <1>3, <2>1
    <3>2. won \in Seq(Row) /\ AddsVersion(won, q, v)
      BY <1>4, <3>1, SupersedingAddsVersion
    <3>3. \A i \in Ids \ {q} : won[i] = quotes[i]
      BY <1>4, <3>1, SupersedingStands
    <3>4. Ids \subseteq DOMAIN won
      BY <1>4, <3>2, RowsAreTyped DEF AddsVersion
    <3> QED BY <3>2, <3>3, <3>4
  <2>2. CASE ~session[s].subset
    <3>1. row \in Row BY <1>2, <1>4, RestatedRow
    <3> QED BY <1>2, <1>3, <1>4, <2>2, <3>1 DEF Ids
  <2> QED BY <2>1, <2>2
<1>10. \A i \in Ids : quotes'[i].status \in {won[i].status, "declined"}
  BY <1>8, <1>9, DecliningStands
<1>11. \A i \in Ids \ {q} : quotes'[i].status \in {quotes[i].status, "declined"}
  BY <1>9, <1>10
<1>12. quotes[q].status \notin {"accepted", "declined"}
  BY <1>5 DEF Acceptable, ACCEPTABLE_FROM
<1>13. Orderly BY <1>11, <1>12 DEF Orderly, Standing
<1> QED BY <1>6, <1>7, <1>13, AloneEnds

\* The stage set by hand was open to the project when it was read, and still is.
LEMMA StageAlone ==
  ASSUME SerialInv, IInv', OneAtATime, NEW s \in Sessions, StageCommit(s)
  PROVE  SerialInv' /\ Orderly
<1>1. quotes' = quotes /\ stage' = session[s].stage /\ End(s)
  BY DEF StageCommit
<1>2. HasStandingQuote => stage' \in JOB_STAGES
  BY <1>1 DEF SerialInv, StillSo, StageCommit
<1>3. StandingEstimateMeansJob'
  BY <1>1, <1>2 DEF StandingEstimateMeansJob, HasStandingQuote, Ids
<1>4. Orderly BY <1>1 DEF Orderly, Standing
<1> QED BY <1>1, <1>3, <1>4, AloneEnds

\* Every step of a request that has no company.
LEMMA StepAlone ==
  ASSUME SerialInv, IInv', OneAtATime, [Next]_vars
  PROVE  SerialInv' /\ Orderly
<1>1. ASSUME NEW s \in Sessions, Create(s) PROVE SerialInv' /\ Orderly
  <2>1. CASE TemplateCommit(s) \/ BlankCommit(s) \/ RaiseCommit(s)
    BY <2>1, InsertsAlone
  <2>2. CASE TemplateNumber(s) \/ BlankNumber(s) \/ RaiseNumber(s)
    <3>1. \E kind, before, after :
            Allocate(s, kind, before, after) /\ after \in NumberedOps
      BY <2>2 DEF TemplateNumber, BlankNumber, RaiseNumber, NumberedOps
    <3> QED BY <3>1, ReadsAlone
  <2>3. CASE TemplateRead(s) \/ BlankRead(s) \/ RaiseRead(s) \/ RaiseSequence(s)
    BY <2>3, ReadsAlone
  <2> QED BY <1>1, <2>1, <2>2, <2>3 DEF Create
<1>2. ASSUME NEW s \in Sessions, Amend(s) PROVE SerialInv' /\ Orderly
  BY <1>2, ReadsAlone, ReviseAlone, VoidAlone, SetQuoteStatusAlone DEF Amend
<1>3. ASSUME NEW s \in Sessions, Win(s) PROVE SerialInv' /\ Orderly
  BY <1>3, ReadsAlone, AcceptAlone, StageAlone DEF Win
<1>4. ASSUME NEW s \in Sessions, Rollback(s) PROVE SerialInv' /\ Orderly
  <2>1. End(s) /\ UNCHANGED <<quotes, stage>> BY <1>4 DEF Rollback
  <2>2. StandingEstimateMeansJob' BY <2>1 DEF SerialInv, StandingEstimateMeansJob, Ids
  <2>3. Orderly BY <2>1 DEF Orderly, Standing
  <2> QED BY <2>1, <2>2, <2>3, AloneEnds
<1>5. ASSUME UNCHANGED <<quotes, stage, session>> PROVE SerialInv' /\ Orderly
  <2>1. StandingEstimateMeansJob' BY <1>5 DEF SerialInv, StandingEstimateMeansJob, Ids
  <2>2. \A t \in Sessions : StillSo(session[t])'
    BY <1>5 DEF SerialInv, StillSo, HasStandingQuote, Ids
  <2>3. Orderly BY <1>5 DEF Orderly, Standing
  <2> QED BY <2>1, <2>2, <2>3 DEF SerialInv
<1>6. CASE UNCHANGED vars BY <1>5, <1>6 DEF vars
<1>7. ASSUME NEW kind \in Kinds, NumberElsewhere(kind) PROVE SerialInv' /\ Orderly
  BY <1>5, <1>7 DEF NumberElsewhere
<1> QED BY <1>1, <1>2, <1>3, <1>4, <1>6, <1>7 DEF Next

\* While one request runs at a time an accepted version is never revised, a
\* declined estimate never accepted and a standing estimate never left in a
\* pre-sale stage, as the repository says (lib/quote/repository.ts:332,
\* lib/quote/accept.ts:40, components/detail/labels.ts:56): it takes an overlap
\* of two requests to make one of the three false.
THEOREM OneRequestKeepsTheRules ==
  ASSUME OneAtATime
  PROVE  Spec => /\ []StandingEstimateMeansJob
                 /\ AcceptedIsNeverSuperseded
                 /\ DeclinedIsNeverAccepted
<1>1. Init => SerialInv
  <2> SUFFICES ASSUME Init PROVE SerialInv
    OBVIOUS
  <2>1. IInv BY InitEstablishes
  <2>2. StandingEstimateMeansJob BY DEF Init, StandingEstimateMeansJob, Ids
  <2>3. \A s \in Sessions : StillSo(session[s])
    BY DEF Init, StillSo, Idle, AcceptOps, ReviseOps
  <2> QED BY <2>1, <2>2, <2>3 DEF SerialInv
<1>2. SerialInv /\ [Next]_vars => SerialInv'
  <2> SUFFICES ASSUME SerialInv, [Next]_vars PROVE SerialInv'
    OBVIOUS
  <2>1. IInv' BY NextKeeps DEF SerialInv
  <2> QED BY <2>1, StepAlone
<1>3. SerialInv /\ [Next]_vars =>
        [\A q \in Ids : Standing(quotes[q]) => quotes'[q].status # "superseded"]_vars
  <2> SUFFICES ASSUME SerialInv, [Next]_vars
               PROVE  \A q \in Ids : Standing(quotes[q]) => quotes'[q].status # "superseded"
    OBVIOUS
  <2>1. IInv' BY NextKeeps DEF SerialInv
  <2>2. Orderly BY <2>1, StepAlone
  <2> QED BY <2>2 DEF Orderly
<1>4. SerialInv /\ [Next]_vars =>
        [\A q \in Ids : quotes[q].kind = "estimate" /\ quotes[q].status = "declined"
           => quotes'[q].status # "accepted"]_vars
  <2> SUFFICES ASSUME SerialInv, [Next]_vars
               PROVE  \A q \in Ids : quotes[q].kind = "estimate" /\ quotes[q].status = "declined"
                                        => quotes'[q].status # "accepted"
    OBVIOUS
  <2>1. IInv' BY NextKeeps DEF SerialInv
  <2>2. Orderly BY <2>1, StepAlone
  <2> QED BY <2>2 DEF Orderly
<1>5. SerialInv => StandingEstimateMeansJob BY DEF SerialInv
<1> QED BY <1>1, <1>2, <1>3, <1>4, <1>5, PTL
        DEF Spec, AcceptedIsNeverSuperseded, DeclinedIsNeverAccepted
=============================================================================
