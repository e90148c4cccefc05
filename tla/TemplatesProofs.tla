--------------------------- MODULE TemplatesProofs ---------------------------
(***************************************************************************)
(* What holds of a template whatever edits leave in it.                    *)
(*                                                                         *)
(* effectiveLink, plan and findPredecessorCycle follow a chain of tasks    *)
(* and remember where they have been.  WalkExists shows that a function    *)
(* that does so exists, by the number of places it has not been; what such *)
(* a function finds is shown by the smallest set of places left on which   *)
(* it would not (SmallestSubset), which stands for induction.  OnWay is    *)
(* where effectiveLink is, Called where plan is, Searching where           *)
(* findPredecessorCycle is.                                                *)
(*                                                                         *)
(* An import then does as it should of any template that is typed.  Of the *)
(* edits one thing more is shown: one person's, one after another, leave   *)
(* no loop.                                                                *)
(***************************************************************************)
EXTENDS Templates, Sums

-----------------------------------------------------------------------------
(* Functions that walk.                                                    *)

\* A set of numbers, unless empty, has a least one.
LEMMA SmallestNumber ==
  ASSUME NEW Bad \in SUBSET Nat, Bad # {}
  PROVE  \E k \in Bad : \A j \in Bad : k <= j
<1>1. PICK n \in Bad : TRUE
  OBVIOUS
<1> DEFINE Initial == {0..k : k \in {j \in Bad : j <= n}}
<1>2. Initial \in SUBSET SUBSET (0..n) /\ Initial # {}
  BY <1>1
<1>3. IsFiniteSet(0..n)
  BY <1>1, FS_Interval
<1>4. PICK A \in Initial : \A B \in SUBSET A : B # A => B \notin Initial
  <2> HIDE DEF Initial
  <2>1. PICK D : D = 0..n
    OBVIOUS
  <2>2. IsFiniteSet(D) /\ Initial \in SUBSET SUBSET D /\ Initial # {}
    BY <1>2, <1>3, <2>1
  <2> QED BY <2>2, SmallestSubset
<1>5. PICK k \in Bad : k <= n /\ A = 0..k
  BY <1>4
<1>6. ASSUME NEW j \in Bad, j < k PROVE FALSE
  <2>1. 0..j \in SUBSET A /\ 0..j # A
    BY <1>5, <1>6
  <2>2. 0..j \in Initial
    BY <1>1, <1>5, <1>6
  <2> QED BY <1>4, <2>1, <2>2
<1>7. \A j \in Bad : k <= j
  BY <1>6
<1> QED BY <1>7

\* The subsets that leave fewer than k out.
Big(D, k) == {s \in SUBSET D : Cardinality(D \ s) < k}

LEMMA BigGrows ==
  ASSUME NEW D, IsFiniteSet(D), NEW k \in Nat
  PROVE  /\ Big(D, 0) = {} /\ Big(D, k) \subseteq Big(D, k + 1) /\ Big(D, k) \subseteq SUBSET D
         /\ Big(D, Cardinality(D) + 1) = SUBSET D
         /\ \A s \in Big(D, k + 1) : \A c \in D \ s : s \cup {c} \in Big(D, k)
<1>1. \A s \in SUBSET D : IsFiniteSet(D \ s) /\ Cardinality(D \ s) \in Nat
                         /\ Cardinality(D \ s) <= Cardinality(D)
  BY FS_Difference, FS_CardinalityType, FS_Subset
<1>2. Cardinality(D) \in Nat
  BY FS_CardinalityType
<1>3. Big(D, 0) = {} /\ Big(D, k) \subseteq Big(D, k + 1) /\ Big(D, k) \subseteq SUBSET D
  <2>1. \A s \in SUBSET D : ~(Cardinality(D \ s) < 0)
                         /\ (Cardinality(D \ s) < k => Cardinality(D \ s) < k + 1)
    BY <1>1
  <2> QED BY <2>1 DEF Big
<1>4. Big(D, Cardinality(D) + 1) = SUBSET D
  BY <1>1, <1>2 DEF Big
<1>5. ASSUME NEW s \in Big(D, k + 1), NEW c \in D \ s
      PROVE  s \cup {c} \in Big(D, k)
  <2>1. D \ (s \cup {c}) = (D \ s) \ {c}
    OBVIOUS
  <2>2. s \in SUBSET D /\ Cardinality(D \ s) < k + 1
    BY DEF Big
  <2>3. Cardinality((D \ s) \ {c}) = Cardinality(D \ s) - 1
    BY <1>1, <2>2, FS_RemoveElement
  <2>4. Cardinality(D \ (s \cup {c})) < k
    BY <1>1, <2>1, <2>2, <2>3
  <2> QED BY <2>2, <2>4 DEF Big
<1> QED BY <1>3, <1>4, <1>5

\* A walk from place to place of C, over D: where it stops its value is given, and
\* elsewhere it is made of the value at the next place.
Walkable(D, C, Val, stop, base, next, step) ==
  /\ \A s \in SUBSET D, c \in C : <<s, c>> \in stop => base[<<s, c>>] \in Val
  /\ \A s \in SUBSET D, c \in C : <<s, c>> \notin stop =>
       c \in D \ s /\ next[c] \in C /\ \A v \in Val : step[<<c, v>>] \in Val

Walked(V, D, C, stop, base, next, step) ==
  \A s \in SUBSET D, c \in C :
    V[s][c] = IF <<s, c>> \in stop THEN base[<<s, c>>]
              ELSE step[<<c, V[s \cup {c}][next[c]]>>]

\* A walk over a finite set that remembers where it has been comes to an end, so a
\* function defined by it exists: at a stop its value is given, and before it is made of
\* the value at the next place.
LEMMA WalkExists ==
  ASSUME NEW D, IsFiniteSet(D), NEW C, NEW Val, NEW stop, NEW base, NEW next, NEW step,
         Walkable(D, C, Val, stop, base, next, step)
  PROVE  \E V \in [SUBSET D -> [C -> Val]] : Walked(V, D, C, stop, base, next, step)
<1> DEFINE At(V, s, c) == IF <<s, c>> \in stop THEN base[<<s, c>>]
                          ELSE step[<<c, V[s \cup {c}][next[c]]>>]
           Defines(k, V) == /\ V \in [Big(D, k) -> [C -> Val]]
                            /\ \A s \in Big(D, k), c \in C : V[s][c] = At(V, s, c)
<1>1. \A s \in SUBSET D, c \in C : <<s, c>> \in stop => base[<<s, c>>] \in Val
  BY DEF Walkable
<1>2. \A s \in SUBSET D, c \in C : <<s, c>> \notin stop =>
        c \in D \ s /\ next[c] \in C /\ \A v \in Val : step[<<c, v>>] \in Val
  BY DEF Walkable
<1>3. \E V : Defines(0, V)
  <2>1. Big(D, 0) = {}
    BY BigGrows
  <2>2. PICK V : V = [s \in Big(D, 0) |-> [c \in C |-> {}]]
    OBVIOUS
  <2>3. V \in [Big(D, 0) -> [C -> Val]]
    BY <2>1, <2>2
  <2>4. \A s \in Big(D, 0), c \in C : V[s][c] = At(V, s, c)
    BY <2>1
  <2> HIDE DEF At
  <2> QED BY <2>3, <2>4
<1>4. ASSUME NEW k \in Nat, NEW V, Defines(k, V) PROVE \E U : Defines(k + 1, U)
  <2> DEFINE U == [s \in Big(D, k + 1) |-> [c \in C |-> At(V, s, c)]]
  <2>1. Big(D, k + 1) \subseteq SUBSET D
    BY BigGrows
  <2>2. ASSUME NEW s \in Big(D, k + 1), NEW c \in C PROVE At(V, s, c) \in Val
    <3>1. s \in SUBSET D
      BY <2>1
    <3>2. CASE <<s, c>> \in stop
      BY <1>1, <3>1, <3>2
    <3>3. CASE <<s, c>> \notin stop
      <4>1. c \in D \ s /\ next[c] \in C /\ \A v \in Val : step[<<c, v>>] \in Val
        BY <1>2, <3>1, <3>3
      <4>2. s \cup {c} \in Big(D, k)
        BY BigGrows, <4>1
      <4>3. V[s \cup {c}][next[c]] \in Val
        <5> HIDE DEF At
        <5> QED BY <1>4, <4>1, <4>2
      <4> QED BY <3>3, <4>1, <4>3
    <3> QED BY <3>2, <3>3
  <2>3. \A s \in Big(D, k) : U[s] = V[s]
    <3> SUFFICES ASSUME NEW s \in Big(D, k) PROVE U[s] = V[s]
      OBVIOUS
    <3> HIDE DEF At
    <3>1. s \in Big(D, k + 1)
      BY BigGrows
    <3>2. V[s] \in [C -> Val] /\ \A c \in C : V[s][c] = At(V, s, c)
      BY <1>4
    <3> QED BY <3>1, <3>2
  <2>4. ASSUME NEW s \in Big(D, k + 1), NEW c \in C PROVE At(U, s, c) = At(V, s, c)
    <3>1. CASE <<s, c>> \in stop
      BY <3>1
    <3>2. CASE <<s, c>> \notin stop
      <4>1. s \in SUBSET D /\ c \in D \ s
        BY <1>2, <2>1, <3>2
      <4>2. U[s \cup {c}] = V[s \cup {c}]
        BY BigGrows, <2>3, <4>1
      <4> HIDE DEF U
      <4> QED BY <3>2, <4>2
    <3> QED BY <3>1, <3>2
  <2>5. U \in [Big(D, k + 1) -> [C -> Val]]
    <3> HIDE DEF At
    <3> QED BY <2>2
  <2>6. \A s \in Big(D, k + 1), c \in C : U[s][c] = At(U, s, c)
    <3> HIDE DEF At
    <3> QED BY <2>4
  <2> HIDE DEF U, At
  <2> QED BY <2>5, <2>6
<1> HIDE DEF Defines
<1>5. \A k \in Nat : \E V : Defines(k, V)
  <2> DEFINE Bad == {k \in Nat : ~ \E V : Defines(k, V)}
  <2> SUFFICES ASSUME Bad # {} PROVE FALSE
    OBVIOUS
  <2>1. PICK k \in Bad : \A j \in Bad : k <= j
    <3> HIDE DEF Bad
    <3>1. Bad \in SUBSET Nat
      BY DEF Bad
    <3> QED BY <3>1, SmallestNumber
  <2>2. k \in Nat /\ k # 0 /\ ~ \E V : Defines(k, V)
    BY <1>3
  <2>3. k - 1 \in Nat /\ k - 1 \notin Bad
    BY <2>1, <2>2
  <2>4. PICK V : Defines(k - 1, V)
    BY <2>3
  <2>5. (k - 1) + 1 = k
    BY <2>2
  <2> QED BY <1>4, <2>2, <2>3, <2>4, <2>5
<1>6. PICK V : Defines(Cardinality(D) + 1, V)
  BY <1>5, FS_CardinalityType
<1>7. Big(D, Cardinality(D) + 1) = SUBSET D
  BY BigGrows
<1>8. V \in [SUBSET D -> [C -> Val]] /\ \A s \in SUBSET D, c \in C : V[s][c] = At(V, s, c)
  BY <1>6, <1>7 DEF Defines
<1> QED BY <1>8 DEF Walked

-----------------------------------------------------------------------------
(* effectiveLink: what a task waits on.                                    *)

Up(c) == template[c].pred
NoLink == [pred |-> NoTask, lag |-> 0]
Link == [pred : Links, lag : Int]
TemplateTyped ==
  template \in [Tasks -> Row] /\ \A t \in Tasks : template[t].pred = NoTask => template[t].lag = 0

LEMMA RowsTyped ==
  ASSUME TemplateTyped, NEW t \in Tasks
  PROVE  Up(t) \in Links /\ template[t].lag \in Int
BY DEF TemplateTyped, Row, Up

LEMMA LiveAreTasks == Live \subseteq Tasks /\ Tasks \subseteq Links /\ NoTask \notin Live
BY TemplatesAssumption DEF Live, Links

LinkAt(t, ticked, walk, seen, cursor) ==
  IF cursor \in seen THEN {}
  ELSE IF cursor \notin Live THEN {NoLink}
  ELSE IF cursor \in ticked THEN {[pred |-> cursor, lag |-> LagAcross(t, seen # {t})]}
  ELSE walk[seen \cup {cursor}][Up(cursor)]

IsLinkWalk(t, ticked, walk) ==
  walk = [seen \in SUBSET Tasks |-> [cursor \in Links |-> LinkAt(t, ticked, walk, seen, cursor)]]

LinkWalk(t, ticked) == CHOOSE walk : IsLinkWalk(t, ticked, walk)

LEMMA LinkIsWalk == \A t, ticked : EffectiveLink(t, ticked) = LinkWalk(t, ticked)[{t}][Up(t)]
BY DEF EffectiveLink, LinkWalk, IsLinkWalk, LinkAt, NoLink, Up

LEMMA LagTyped ==
  ASSUME TemplateTyped, NEW t \in Tasks, NEW relinked
  PROVE  LagAcross(t, relinked) \in Int
BY RowsTyped DEF LagAcross

\* The loop of effectiveLink ends, so the function that stands for it exists.
LEMMA LinkWalkExists ==
  ASSUME TemplateTyped, NEW t \in Tasks, NEW ticked
  PROVE  IsLinkWalk(t, ticked, LinkWalk(t, ticked))
<1> DEFINE Places == (SUBSET Tasks) \X Links
           stop == {x \in Places : x[2] \in x[1] \/ x[2] \notin Live \/ x[2] \in ticked}
           base == [x \in Places |-> IF x[2] \in x[1] THEN {}
                                     ELSE IF x[2] \notin Live THEN {NoLink}
                                     ELSE {[pred |-> x[2], lag |-> LagAcross(t, x[1] # {t})]}]
           next == [c \in Links |-> Up(c)]
           step == [x \in Links \X SUBSET Link |-> x[2]]
<1>1. IsFiniteSet(Tasks) /\ NoLink \in Link
  BY TemplatesAssumption DEF NoLink, Link, Links
<1>2. ASSUME NEW s \in SUBSET Tasks, NEW c \in Links, <<s, c>> \in stop
      PROVE  base[<<s, c>>] \in SUBSET Link
  <2>1. LagAcross(t, s # {t}) \in Int
    BY LagTyped
  <2>2. base[<<s, c>>] = IF c \in s THEN {} ELSE IF c \notin Live THEN {NoLink}
                         ELSE {[pred |-> c, lag |-> LagAcross(t, s # {t})]}
    OBVIOUS
  <2> HIDE DEF base
  <2> QED BY <1>1, <2>1, <2>2 DEF Link
<1>3. ASSUME NEW s \in SUBSET Tasks, NEW c \in Links, <<s, c>> \notin stop
      PROVE  /\ c \in Tasks \ s /\ next[c] \in Links
             /\ \A v \in SUBSET Link : step[<<c, v>>] = v
             /\ c \notin s /\ c \in Live /\ c \notin ticked
  <2>1. c \notin s /\ c \in Live /\ c \notin ticked
    BY <1>3
  <2>2. c \in Tasks \ s /\ next[c] = Up(c)
    BY <2>1, LiveAreTasks
  <2>3. Up(c) \in Links
    BY <2>2, RowsTyped
  <2> QED BY <2>1, <2>2, <2>3
<1> HIDE DEF stop, base, next, step
<1>4. PICK V \in [SUBSET Tasks -> [Links -> SUBSET Link]] :
        \A s \in SUBSET Tasks, c \in Links :
          V[s][c] = IF <<s, c>> \in stop THEN base[<<s, c>>]
                    ELSE step[<<c, V[s \cup {c}][next[c]]>>]
  <2>1. \A s \in SUBSET Tasks, c \in Links :
          <<s, c>> \notin stop => /\ c \in Tasks \ s /\ next[c] \in Links
                                 /\ \A v \in SUBSET Link : step[<<c, v>>] \in SUBSET Link
    BY <1>3
  <2>2. \A s \in SUBSET Tasks, c \in Links : <<s, c>> \in stop => base[<<s, c>>] \in SUBSET Link
    BY <1>2
  <2>3. Walkable(Tasks, Links, SUBSET Link, stop, base, next, step)
    BY <2>1, <2>2 DEF Walkable
  <2>4. \E V \in [SUBSET Tasks -> [Links -> SUBSET Link]] :
          Walked(V, Tasks, Links, stop, base, next, step)
    BY <1>1, <2>3, WalkExists
  <2> QED BY <2>4 DEF Walked
<1>5. ASSUME NEW s \in SUBSET Tasks, NEW c \in Links
      PROVE  V[s][c] = LinkAt(t, ticked, V, s, c)
  <2>1. CASE <<s, c>> \in stop
    <3>1. c \in s \/ c \notin Live \/ c \in ticked
      BY <2>1 DEF stop
    <3>2. base[<<s, c>>] = IF c \in s THEN {} ELSE IF c \notin Live THEN {NoLink}
                           ELSE {[pred |-> c, lag |-> LagAcross(t, s # {t})]}
      BY DEF base
    <3> QED BY <1>4, <2>1, <3>1, <3>2 DEF LinkAt
  <2>2. CASE <<s, c>> \notin stop
    <3>1. /\ c \in Tasks \ s /\ next[c] \in Links /\ c \in Live /\ c \notin ticked /\ c \notin s
          /\ \A v \in SUBSET Link : step[<<c, v>>] = v
      BY <1>3, <2>2
    <3>2. V[s \cup {c}][next[c]] \in SUBSET Link
      BY <1>4, <3>1
    <3>3. V[s][c] = V[s \cup {c}][next[c]] /\ next[c] = Up(c)
      <4>1. V[s][c] = step[<<c, V[s \cup {c}][next[c]]>>]
        BY <1>4, <2>2
      <4>2. next[c] = Up(c)
        BY DEF next
      <4> QED BY <3>1, <3>2, <4>1, <4>2
    <3> QED BY <3>1, <3>3 DEF LinkAt
  <2> QED BY <2>1, <2>2
<1>6. IsLinkWalk(t, ticked, V)
  <2>1. V = [seen \in SUBSET Tasks |-> [cursor \in Links |-> V[seen][cursor]]]
    BY <1>4
  <2>2. [seen \in SUBSET Tasks |-> [cursor \in Links |-> V[seen][cursor]]]
          = [seen \in SUBSET Tasks |-> [cursor \in Links |-> LinkAt(t, ticked, V, seen, cursor)]]
    BY <1>5
  <2> QED BY <2>1, <2>2 DEF IsLinkWalk
<1> QED BY <1>6 DEF LinkWalk

LEMMA LinkWalkAt ==
  ASSUME TemplateTyped, NEW t \in Tasks, NEW ticked, NEW seen \in SUBSET Tasks, NEW cursor \in Links
  PROVE  LinkWalk(t, ticked)[seen][cursor] = LinkAt(t, ticked, LinkWalk(t, ticked), seen, cursor)
<1> DEFINE walk == LinkWalk(t, ticked)
<1>1. walk = [s \in SUBSET Tasks |-> [c \in Links |-> LinkAt(t, ticked, walk, s, c)]]
  BY LinkWalkExists DEF IsLinkWalk
<1> HIDE DEF walk
<1>2. walk[seen] = [c \in Links |-> LinkAt(t, ticked, walk, seen, c)]
  BY <1>1
<1>3. walk[seen][cursor] = LinkAt(t, ticked, walk, seen, cursor)
  BY <1>2
<1> QED BY <1>3 DEF walk

\* A set holds what t waits on and what each live unticked task in it waits on.
Passes(t, ticked, S) == Up(t) \in S /\ \A v \in (S \cap Live) \ ticked : Up(v) \in S

LEMMA NearestPasses ==
  \A t, u, ticked : Nearest(t, u, ticked) <=> \A S \in SUBSET Links : Passes(t, ticked, S) => u \in S
BY DEF Nearest, Passes, Up

LEMMA EndlessUp == \A t : Endless(t) <=> \E S \in SUBSET Live : t \in S /\ \A u \in S : Up(u) \in S
BY DEF Endless, Up

\* From c the chain comes to d, through live tasks alone, unless it comes back to them.
Leads(c, d) == \E Z \in SUBSET Live : c \in Z /\ \A x \in Z : Up(x) \in Z \cup {d}

\* What is near an endless task is endless, and what leads to one is.
LEMMA EndlessFollows ==
  ASSUME NEW t, NEW u, NEW ticked, Endless(t), Nearest(t, u, ticked)
  PROVE  Endless(u)
<1>1. PICK S \in SUBSET Live : t \in S /\ \A v \in S : Up(v) \in S
  BY EndlessUp
<1>2. S \in SUBSET Links /\ Passes(t, ticked, S)
  BY <1>1, LiveAreTasks DEF Passes
<1>3. u \in S
  BY <1>2, NearestPasses
<1> QED BY <1>1, <1>3, EndlessUp

LEMMA EndlessPrecedes ==
  ASSUME NEW t, NEW u, Endless(u), Leads(t, u)
  PROVE  Endless(t)
<1>1. PICK S \in SUBSET Live : u \in S /\ \A v \in S : Up(v) \in S
  BY EndlessUp
<1>2. PICK Z \in SUBSET Live : t \in Z /\ \A x \in Z : Up(x) \in Z \cup {u}
  BY DEF Leads
<1>3. \A x \in S \cup Z : Up(x) \in S \cup Z
  BY <1>1, <1>2
<1> QED BY <1>1, <1>2, <1>3, EndlessUp

\* Where effectiveLink is: it has come past live tasks that are not ticked.
OnWay(t, ticked, seen, cursor) ==
  /\ t \in seen /\ seen \in SUBSET Live /\ cursor \in Links
  /\ (seen \ {t}) \cap ticked = {}
  /\ \A u \in seen : Up(u) \in (seen \ {t}) \cup {cursor}
  /\ Nearest(t, cursor, ticked)
  /\ seen = {t} \/ Up(t) \in seen

\* What it is to find.
LinkOK(t, ticked, link) ==
  /\ link \in Link
  /\ link.pred = NoTask => link.lag = 0 /\ ~Endless(t) /\ \A u \in ticked : ~Nearest(t, u, ticked)
  /\ link.pred # NoTask =>
       /\ link.pred \in ticked /\ Nearest(t, link.pred, ticked) /\ Leads(t, link.pred)
       /\ link.pred = Up(t) => link.lag = template[t].lag
       /\ link.pred # Up(t) => link.lag \in {0, template[t].lag} /\ link.lag >= 0

LinksOK(t, ticked, links) ==
  \/ links = {} /\ Endless(t)
  \/ \E link : links = {link} /\ LinkOK(t, ticked, link)

LEMMA WayBegins ==
  ASSUME TemplateTyped, NEW t \in Live, NEW ticked
  PROVE  OnWay(t, ticked, {t}, Up(t))
<1>1. Up(t) \in Links
  BY RowsTyped, LiveAreTasks
<1>2. Nearest(t, Up(t), ticked)
  BY NearestPasses DEF Passes
<1> QED BY <1>1, <1>2 DEF OnWay

LEMMA WayGoesOn ==
  ASSUME TemplateTyped, NEW t, NEW ticked, NEW seen, NEW cursor \in Live,
         OnWay(t, ticked, seen, cursor), cursor \notin seen, cursor \notin ticked
  PROVE  OnWay(t, ticked, seen \cup {cursor}, Up(cursor))
<1>1. Up(cursor) \in Links
  BY RowsTyped, LiveAreTasks
<1>2. Nearest(t, Up(cursor), ticked)
  <2> SUFFICES ASSUME NEW S \in SUBSET Links, Passes(t, ticked, S) PROVE Up(cursor) \in S
    BY NearestPasses
  <2>1. cursor \in S
    BY NearestPasses DEF OnWay
  <2> QED BY <2>1 DEF Passes
<1>3. /\ t \in seen /\ seen \in SUBSET Live /\ (seen \ {t}) \cap ticked = {} /\ cursor # t
      /\ \A u \in seen : Up(u) \in (seen \ {t}) \cup {cursor}
  BY DEF OnWay
<1>4. \A u \in seen \cup {cursor} : Up(u) \in ((seen \cup {cursor}) \ {t}) \cup {Up(cursor)}
  BY <1>3
<1>5. Up(t) \in seen \cup {cursor}
  BY <1>3
<1> QED BY <1>1, <1>2, <1>3, <1>4, <1>5 DEF OnWay

\* Come back to where it was: the tasks it came past are a loop.
LEMMA WayReturns ==
  ASSUME NEW t, NEW ticked, NEW seen, NEW cursor, OnWay(t, ticked, seen, cursor), cursor \in seen
  PROVE  Endless(t)
<1>1. t \in seen /\ seen \in SUBSET Live /\ \A u \in seen : Up(u) \in seen
  BY DEF OnWay
<1> QED BY <1>1, EndlessUp

\* Come to a root, or to a task that is not there: nobody ticked is above.
LEMMA WayRunsOut ==
  ASSUME TemplateTyped, NEW t, NEW ticked \in SUBSET Live, NEW seen, NEW cursor,
         OnWay(t, ticked, seen, cursor), cursor \notin Live
  PROVE  LinkOK(t, ticked, NoLink)
<1>1. NoLink \in Link /\ NoLink.pred = NoTask /\ NoLink.lag = 0
  BY DEF NoLink, Link, Links
<1>2. ~Endless(t)
  <2> SUFFICES ASSUME Endless(t) PROVE FALSE
    OBVIOUS
  <2>1. Endless(cursor)
    BY EndlessFollows DEF OnWay
  <2> QED BY <2>1 DEF Endless
<1>3. ASSUME NEW u \in ticked, Nearest(t, u, ticked) PROVE FALSE
  <2> DEFINE S == (seen \ {t}) \cup {cursor}
  <2>1. seen \in SUBSET Live /\ t \in seen /\ cursor \in Links /\ (seen \ {t}) \cap ticked = {}
        /\ \A v \in seen : Up(v) \in S
    BY DEF OnWay
  <2>2. S \in SUBSET Links
    BY <2>1, LiveAreTasks
  <2>3. Passes(t, ticked, S)
    BY <2>1 DEF Passes
  <2>4. u \in S
    BY <1>3, <2>2, <2>3, NearestPasses
  <2> QED BY <2>1, <2>4
<1> QED BY <1>1, <1>2, <1>3 DEF LinkOK

\* Come to a ticked task: it is what t waits on.
LEMMA WayArrives ==
  ASSUME TemplateTyped, NEW t \in Live, NEW ticked \in SUBSET Live, NEW seen, NEW cursor \in ticked,
         OnWay(t, ticked, seen, cursor), cursor \notin seen
  PROVE  LinkOK(t, ticked, [pred |-> cursor, lag |-> LagAcross(t, seen # {t})])
<1> DEFINE link == [pred |-> cursor, lag |-> LagAcross(t, seen # {t})]
<1>1. t \in Tasks /\ cursor \in Links /\ cursor # NoTask
  BY LiveAreTasks
<1>2. LagAcross(t, seen # {t}) \in Int /\ template[t].lag \in Int
  BY <1>1, LagTyped, RowsTyped
<1>3. link \in Link /\ link.pred = cursor /\ link.lag = LagAcross(t, seen # {t})
  BY <1>1, <1>2 DEF Link
<1>4. Leads(t, cursor) /\ Nearest(t, cursor, ticked)
  BY DEF OnWay, Leads
<1>5. cursor = Up(t) => link.lag = template[t].lag
  <2>1. cursor = Up(t) => seen = {t}
    BY DEF OnWay
  <2> QED BY <1>3, <2>1 DEF LagAcross
<1>6. cursor # Up(t) => link.lag \in {0, template[t].lag} /\ link.lag >= 0
  <2>1. cursor # Up(t) => seen # {t}
    BY DEF OnWay
  <2> QED BY <1>2, <1>3, <2>1 DEF LagAcross
<1> HIDE DEF link
<1>7. LinkOK(t, ticked, link)
  BY <1>1, <1>3, <1>4, <1>5, <1>6 DEF LinkOK
<1> QED BY <1>7 DEF link

\* effectiveLink finds the nearest ticked task, or that there is none, and fails on a
\* chain without an end alone.
LEMMA LinkFound ==
  ASSUME TemplateTyped, NEW t \in Live, NEW ticked \in SUBSET Live
  PROVE  LinksOK(t, ticked, EffectiveLink(t, ticked))
<1> DEFINE walk == LinkWalk(t, ticked)
           Bad == {rest \in SUBSET Tasks : \E cursor \in Links :
                     /\ OnWay(t, ticked, Tasks \ rest, cursor)
                     /\ ~LinksOK(t, ticked, walk[Tasks \ rest][cursor])}
<1>1. t \in Tasks /\ ticked \subseteq Live /\ Live \subseteq Tasks
  BY LiveAreTasks
<1>2. Bad = {}
  <2> SUFFICES ASSUME Bad # {} PROVE FALSE
    OBVIOUS
  <2>1. PICK rest \in Bad : \A less \in SUBSET rest : less # rest => less \notin Bad
    <3>1. Bad \in SUBSET SUBSET Tasks /\ IsFiniteSet(Tasks)
      BY TemplatesAssumption
    <3> HIDE DEF Bad
    <3> QED BY <3>1, SmallestSubset
  <2>2. PICK seen : seen = Tasks \ rest
    OBVIOUS
  <2>3. PICK cursor \in Links : OnWay(t, ticked, seen, cursor)
                                /\ ~LinksOK(t, ticked, walk[seen][cursor])
    BY <2>1, <2>2
  <2>4. walk[seen][cursor] = LinkAt(t, ticked, walk, seen, cursor)
    BY <1>1, <2>2, <2>3, LinkWalkAt
  <2> HIDE DEF walk
  <2>5. CASE cursor \in seen
    <3>1. walk[seen][cursor] = {}
      BY <2>4, <2>5 DEF LinkAt
    <3> QED BY <2>3, <2>5, <3>1, WayReturns DEF LinksOK
  <2>6. CASE cursor \notin seen /\ cursor \notin Live
    <3>1. walk[seen][cursor] = {NoLink}
      BY <2>4, <2>6 DEF LinkAt
    <3> QED BY <2>3, <2>6, <3>1, WayRunsOut DEF LinksOK
  <2>7. CASE cursor \notin seen /\ cursor \in ticked
    <3>1. walk[seen][cursor] = {[pred |-> cursor, lag |-> LagAcross(t, seen # {t})]}
      BY <1>1, <2>4, <2>7 DEF LinkAt
    <3>2. LinkOK(t, ticked, [pred |-> cursor, lag |-> LagAcross(t, seen # {t})])
      BY <2>3, <2>7, WayArrives
    <3> QED BY <2>3, <3>1, <3>2 DEF LinksOK
  <2>8. CASE cursor \in Live /\ cursor \notin seen /\ cursor \notin ticked
    <3>1. walk[seen][cursor] = walk[seen \cup {cursor}][Up(cursor)]
      BY <2>4, <2>8 DEF LinkAt
    <3>2. OnWay(t, ticked, seen \cup {cursor}, Up(cursor)) /\ Up(cursor) \in Links
      BY <1>1, <2>3, <2>8, WayGoesOn, RowsTyped
    <3>3. seen \cup {cursor} = Tasks \ (rest \ {cursor}) /\ cursor \in rest /\ rest \in SUBSET Tasks
      BY <1>1, <2>1, <2>2, <2>8
    <3>4. rest \ {cursor} \notin Bad /\ rest \ {cursor} \in SUBSET Tasks
      BY <2>1, <3>3
    <3> QED BY <2>3, <3>1, <3>2, <3>3, <3>4
  <2> QED BY <2>5, <2>6, <2>7, <2>8
<1>3. OnWay(t, ticked, {t}, Up(t)) /\ Up(t) \in Links
  BY <1>1, WayBegins, RowsTyped
<1>4. {t} = Tasks \ (Tasks \ {t}) /\ Tasks \ {t} \in SUBSET Tasks
  BY <1>1
<1>5. LinksOK(t, ticked, walk[{t}][Up(t)])
  <2> HIDE DEF walk
  <2> QED BY <1>2, <1>3, <1>4
<1> QED BY <1>5, LinkIsWalk

-----------------------------------------------------------------------------
(* planImport: the rows of the ticked tasks.                               *)

PlanRow == [pred : Links, lag : Int, start : Int, end : Int]
TheLink(t, ticked) == CHOOSE link : EffectiveLink(t, ticked) = {link}

\* The days a task may begin: after those it waits on, or on the day given.
Begins(link, rows) ==
  IF link.pred = NoTask THEN {Start} ELSE {row.end + link.lag + 1 : row \in rows}
Placed(t, link, day) ==
  [pred |-> link.pred, lag |-> link.lag, start |-> day, end |-> day + Duration[t] - 1]

LEMMA DatedIs == \A t, link, rows : Dated(t, link, rows) = {Placed(t, link, day) : day \in Begins(link, rows)}
BY DEF Dated, Placed, Begins

LEMMA DatedTyped ==
  ASSUME NEW t \in Tasks, NEW link \in Link, NEW rows \in SUBSET PlanRow
  PROVE  Dated(t, link, rows) \in SUBSET PlanRow
<1>1. Start \in Int /\ Duration[t] \in Int /\ link.lag \in Int /\ link.pred \in Links
  BY TemplatesAssumption DEF Link
<1>2. \A row \in rows : row.end \in Int
  BY DEF PlanRow
<1>3. Begins(link, rows) \subseteq Int
  BY <1>1, <1>2 DEF Begins
<1>4. \A day \in Int : Placed(t, link, day) \in PlanRow
  BY <1>1 DEF Placed, PlanRow
<1> QED BY <1>3, <1>4, DatedIs

\* A task's rows, from those of the others.
RowsFrom(t, link, rows) == Dated(t, link, IF link.pred = NoTask THEN {} ELSE rows[link.pred])

RowsAt(ticked, plan, calls, t) ==
  IF t \in calls THEN {}
  ELSE UNION {RowsFrom(t, link, plan[calls \cup {t}]) : link \in EffectiveLink(t, ticked)}

IsPlan(ticked, plan) ==
  plan = [calls \in SUBSET ticked |-> [t \in ticked |-> RowsAt(ticked, plan, calls, t)]]

Plan(ticked) == CHOOSE plan : IsPlan(ticked, plan)

LEMMA ImportIsPlan == \A ticked : PlanImport(ticked) = Plan(ticked)[{}]
BY DEF PlanImport, Plan, IsPlan, RowsAt, RowsFrom

\* Planning remembers the calls it is in the middle of, so it is a walk as well.
LEMMA LinkIs ==
  ASSUME TemplateTyped, NEW ticked \in SUBSET Live, NEW t \in ticked
  PROVE  \/ EffectiveLink(t, ticked) = {} /\ Endless(t)
         \/ /\ EffectiveLink(t, ticked) = {TheLink(t, ticked)}
            /\ LinkOK(t, ticked, TheLink(t, ticked))
<1>1. LinksOK(t, ticked, EffectiveLink(t, ticked))
  BY LinkFound
<1>2. CASE \E link : EffectiveLink(t, ticked) = {link} /\ LinkOK(t, ticked, link)
  <2>1. PICK link : EffectiveLink(t, ticked) = {link} /\ LinkOK(t, ticked, link)
    BY <1>2
  <2>2. EffectiveLink(t, ticked) = {TheLink(t, ticked)}
    BY <2>1 DEF TheLink
  <2>3. TheLink(t, ticked) = link
    BY <2>1, <2>2
  <2> QED BY <2>1, <2>2, <2>3
<1> QED BY <1>1, <1>2 DEF LinksOK

LEMMA RowsAtIs ==
  ASSUME TemplateTyped, NEW ticked \in SUBSET Live, NEW t \in ticked, NEW plan, NEW calls
  PROVE  /\ t \in calls => RowsAt(ticked, plan, calls, t) = {}
         /\ EffectiveLink(t, ticked) = {} => RowsAt(ticked, plan, calls, t) = {}
         /\ t \notin calls /\ EffectiveLink(t, ticked) # {} =>
              RowsAt(ticked, plan, calls, t) = RowsFrom(t, TheLink(t, ticked), plan[calls \cup {t}])
<1>1. t \in calls => RowsAt(ticked, plan, calls, t) = {}
  BY DEF RowsAt
<1>2. EffectiveLink(t, ticked) = {} => RowsAt(ticked, plan, calls, t) = {}
  BY DEF RowsAt
<1>3. ASSUME t \notin calls, EffectiveLink(t, ticked) # {}
      PROVE  RowsAt(ticked, plan, calls, t) = RowsFrom(t, TheLink(t, ticked), plan[calls \cup {t}])
  <2>1. PICK link : link = TheLink(t, ticked)
    OBVIOUS
  <2>2. EffectiveLink(t, ticked) = {link}
    BY <1>3, <2>1, LinkIs
  <2>3. RowsAt(ticked, plan, calls, t) = UNION {RowsFrom(t, l, plan[calls \cup {t}]) : l \in {link}}
    BY <1>3, <2>2 DEF RowsAt
  <2> QED BY <2>1, <2>3
<1> QED BY <1>1, <1>2, <1>3

LEMMA PlanExists ==
  ASSUME TemplateTyped, NEW ticked \in SUBSET Live
  PROVE  IsPlan(ticked, Plan(ticked))
<1> DEFINE Places == (SUBSET ticked) \X ticked
           stop == {x \in Places : \/ x[2] \in x[1] \/ EffectiveLink(x[2], ticked) = {}
                                  \/ TheLink(x[2], ticked).pred = NoTask}
           base == [x \in Places |-> IF x[2] \in x[1] \/ EffectiveLink(x[2], ticked) = {} THEN {}
                                     ELSE Dated(x[2], TheLink(x[2], ticked), {})]
           next == [t \in ticked |-> TheLink(t, ticked).pred]
           step == [x \in ticked \X SUBSET PlanRow |-> Dated(x[1], TheLink(x[1], ticked), x[2])]
<1>1. IsFiniteSet(ticked) /\ ticked \subseteq Tasks
  BY TemplatesAssumption, LiveAreTasks, FS_Subset
<1>2. ASSUME NEW s \in SUBSET ticked, NEW t \in ticked, <<s, t>> \in stop
      PROVE  base[<<s, t>>] \in SUBSET PlanRow
  <2>1. base[<<s, t>>] = IF t \in s \/ EffectiveLink(t, ticked) = {} THEN {}
                         ELSE Dated(t, TheLink(t, ticked), {})
    OBVIOUS
  <2>2. EffectiveLink(t, ticked) # {} => TheLink(t, ticked) \in Link
    BY LinkIs DEF LinkOK
  <2>3. EffectiveLink(t, ticked) # {} => Dated(t, TheLink(t, ticked), {}) \in SUBSET PlanRow
    BY <1>1, <2>2, DatedTyped
  <2> HIDE DEF base
  <2> QED BY <2>1, <2>3
<1>3. ASSUME NEW s \in SUBSET ticked, NEW t \in ticked, <<s, t>> \notin stop
      PROVE  /\ t \in ticked \ s /\ next[t] \in ticked /\ next[t] = TheLink(t, ticked).pred
             /\ next[t] # NoTask /\ EffectiveLink(t, ticked) # {}
             /\ \A v \in SUBSET PlanRow : step[<<t, v>>] = Dated(t, TheLink(t, ticked), v)
                                          /\ step[<<t, v>>] \in SUBSET PlanRow
  <2>1. t \notin s /\ EffectiveLink(t, ticked) # {} /\ TheLink(t, ticked).pred # NoTask
    BY <1>3
  <2>2. LinkOK(t, ticked, TheLink(t, ticked))
    BY <2>1, LinkIs
  <2>3. TheLink(t, ticked).pred \in ticked /\ TheLink(t, ticked) \in Link
    BY <2>1, <2>2 DEF LinkOK
  <2>4. \A v \in SUBSET PlanRow : step[<<t, v>>] = Dated(t, TheLink(t, ticked), v)
    OBVIOUS
  <2>5. \A v \in SUBSET PlanRow : Dated(t, TheLink(t, ticked), v) \in SUBSET PlanRow
    BY <1>1, <2>3, DatedTyped
  <2>6. next[t] = TheLink(t, ticked).pred
    OBVIOUS
  <2> HIDE DEF next, step
  <2> QED BY <2>1, <2>3, <2>4, <2>5, <2>6
<1>4. \A s \in SUBSET ticked, t \in ticked :
        <<s, t>> \in stop <=> \/ t \in s \/ EffectiveLink(t, ticked) = {}
                             \/ TheLink(t, ticked).pred = NoTask
  OBVIOUS
<1>5. \A s \in SUBSET ticked, t \in ticked :
        base[<<s, t>>] = IF t \in s \/ EffectiveLink(t, ticked) = {} THEN {}
                         ELSE Dated(t, TheLink(t, ticked), {})
  OBVIOUS
<1> HIDE DEF stop, base, next, step
<1>6. Walkable(ticked, ticked, SUBSET PlanRow, stop, base, next, step)
  BY <1>2, <1>3 DEF Walkable
<1>7. PICK V \in [SUBSET ticked -> [ticked -> SUBSET PlanRow]] :
        Walked(V, ticked, ticked, stop, base, next, step)
  BY <1>1, <1>6, WalkExists
<1>8. ASSUME NEW s \in SUBSET ticked, NEW t \in ticked
      PROVE  V[s][t] = RowsAt(ticked, V, s, t)
  <2>1. V[s][t] = IF <<s, t>> \in stop THEN base[<<s, t>>] ELSE step[<<t, V[s \cup {t}][next[t]]>>]
    BY <1>7 DEF Walked
  <2>2. CASE <<s, t>> \in stop
    <3>1. V[s][t] = IF t \in s \/ EffectiveLink(t, ticked) = {} THEN {}
                    ELSE Dated(t, TheLink(t, ticked), {})
      BY <1>5, <2>1, <2>2
    <3>2. \/ t \in s \/ EffectiveLink(t, ticked) = {}
          \/ TheLink(t, ticked).pred = NoTask
      BY <1>4, <2>2
    <3>3. TheLink(t, ticked).pred = NoTask =>
            RowsFrom(t, TheLink(t, ticked), V[s \cup {t}]) = Dated(t, TheLink(t, ticked), {})
      BY DEF RowsFrom
    <3>4. t \in s => RowsAt(ticked, V, s, t) = {}
      BY RowsAtIs
    <3>5. EffectiveLink(t, ticked) = {} => RowsAt(ticked, V, s, t) = {}
      BY RowsAtIs
    <3>6. t \notin s /\ EffectiveLink(t, ticked) # {} =>
            RowsAt(ticked, V, s, t) = RowsFrom(t, TheLink(t, ticked), V[s \cup {t}])
      BY RowsAtIs
    <3> QED BY <3>1, <3>2, <3>3, <3>4, <3>5, <3>6
  <2>3. CASE <<s, t>> \notin stop
    <3>1. /\ t \in ticked \ s /\ next[t] \in ticked /\ next[t] = TheLink(t, ticked).pred
          /\ next[t] # NoTask /\ EffectiveLink(t, ticked) # {}
          /\ \A v \in SUBSET PlanRow : step[<<t, v>>] = Dated(t, TheLink(t, ticked), v)
      BY <1>3, <2>3
    <3>2. s \cup {t} \in SUBSET ticked
      OBVIOUS
    <3>3. V[s \cup {t}] \in [ticked -> SUBSET PlanRow]
      BY <1>7, <3>2
    <3>4. V[s \cup {t}][next[t]] \in SUBSET PlanRow
      BY <3>1, <3>3
    <3>5. V[s][t] = Dated(t, TheLink(t, ticked), V[s \cup {t}][TheLink(t, ticked).pred])
      <4>1. V[s][t] = step[<<t, V[s \cup {t}][next[t]]>>]
        BY <2>1, <2>3
      <4> QED BY <3>1, <3>4, <4>1
    <3>6. V[s][t] = RowsFrom(t, TheLink(t, ticked), V[s \cup {t}])
      BY <3>1, <3>5 DEF RowsFrom
    <3> QED BY <3>1, <3>6, RowsAtIs
  <2> QED BY <2>2, <2>3
<1>9. IsPlan(ticked, V)
  <2>1. V = [calls \in SUBSET ticked |-> [t \in ticked |-> V[calls][t]]]
    BY <1>7
  <2>2. [calls \in SUBSET ticked |-> [t \in ticked |-> V[calls][t]]]
          = [calls \in SUBSET ticked |-> [t \in ticked |-> RowsAt(ticked, V, calls, t)]]
    BY <1>8
  <2> QED BY <2>1, <2>2 DEF IsPlan
<1>10. IsPlan(ticked, Plan(ticked))
  BY <1>9 DEF Plan
<1> QED BY <1>10

LEMMA PlanAt ==
  ASSUME TemplateTyped, NEW ticked \in SUBSET Live, NEW calls \in SUBSET ticked, NEW t \in ticked
  PROVE  Plan(ticked)[calls][t] = RowsAt(ticked, Plan(ticked), calls, t)
<1> DEFINE plan == Plan(ticked)
<1>1. plan = [s \in SUBSET ticked |-> [u \in ticked |-> RowsAt(ticked, plan, s, u)]]
  BY PlanExists DEF IsPlan
<1> HIDE DEF plan
<1>2. plan[calls] = [u \in ticked |-> RowsAt(ticked, plan, calls, u)]
  BY <1>1
<1>3. plan[calls][t] = RowsAt(ticked, plan, calls, t)
  BY <1>2
<1> QED BY <1>3 DEF plan

\* Where plan is when it is asked for t: the chain of each task it is planning comes
\* to another of them, or to t.
Called(ticked, calls, t) ==
  /\ calls \in SUBSET ticked /\ t \in ticked
  /\ \A c \in calls : \E d \in calls \cup {t} : Leads(c, d)

\* Asked for a task it is planning: they wait on one another.
LEMMA CallsReturn ==
  ASSUME NEW ticked \in SUBSET Live, NEW calls, NEW t \in calls, Called(ticked, calls, t)
  PROVE  Endless(t)
<1> DEFINE S == {x \in Live : \E Z \in SUBSET Live : x \in Z /\ \A y \in Z : Up(y) \in Z \cup calls}
<1>1. \A c \in calls : c \in S
  <2> SUFFICES ASSUME NEW c \in calls PROVE c \in S
    OBVIOUS
  <2>1. PICK d \in calls : Leads(c, d)
    BY DEF Called
  <2>2. PICK Z \in SUBSET Live : c \in Z /\ \A x \in Z : Up(x) \in Z \cup {d}
    BY <2>1 DEF Leads
  <2> QED BY <2>2
<1>2. \A x \in S : Up(x) \in S
  <2> SUFFICES ASSUME NEW x \in S PROVE Up(x) \in S
    OBVIOUS
  <2>1. PICK Z \in SUBSET Live : x \in Z /\ \A y \in Z : Up(y) \in Z \cup calls
    OBVIOUS
  <2>2. CASE Up(x) \in calls
    BY <1>1, <2>2
  <2>3. CASE Up(x) \in Z
    BY <2>1, <2>3
  <2> QED BY <2>1, <2>2, <2>3
<1>3. S \in SUBSET Live /\ t \in S
  BY <1>1
<1> HIDE DEF S
<1> QED BY <1>2, <1>3, EndlessUp

LEMMA CallsGoOn ==
  ASSUME NEW ticked, NEW calls, NEW t, NEW u \in ticked, Called(ticked, calls, t), Leads(t, u)
  PROVE  Called(ticked, calls \cup {t}, u)
<1>1. \A c \in calls : \E d \in calls \cup {t} : Leads(c, d)
  BY DEF Called
<1>2. \A c \in calls \cup {t} : \E d \in (calls \cup {t}) \cup {u} : Leads(c, d)
  BY <1>1
<1> QED BY <1>2 DEF Called

\* What plan comes back with: one row, or none when the chain has no end.
RowsOK(t, rows) ==
  /\ rows \in SUBSET PlanRow
  /\ Endless(t) => rows = {}
  /\ ~Endless(t) => \E row : rows = {row}

\* One call, from what it is given for the task it waits on.
LEMMA RowsStep ==
  ASSUME TemplateTyped, NEW ticked \in SUBSET Live, NEW calls, NEW t, Called(ticked, calls, t),
         \A u \in ticked : t \notin calls /\ Called(ticked, calls \cup {t}, u) =>
           RowsOK(u, Plan(ticked)[calls \cup {t}][u])
  PROVE  RowsOK(t, Plan(ticked)[calls][t])
<1> DEFINE link == TheLink(t, ticked)
           rows == Plan(ticked)[calls][t]
<1>1. t \in ticked /\ t \in Tasks /\ calls \in SUBSET ticked
  BY LiveAreTasks DEF Called
<1>2. rows = RowsAt(ticked, Plan(ticked), calls, t)
  BY <1>1, PlanAt
<1> HIDE DEF rows
<1>3. CASE t \in calls
  <2>1. Endless(t)
    BY <1>3, CallsReturn
  <2>2. rows = {}
    BY <1>1, <1>2, <1>3, RowsAtIs
  <2> QED BY <2>1, <2>2 DEF RowsOK, rows
<1>4. CASE EffectiveLink(t, ticked) = {}
  <2>1. Endless(t)
    BY <1>1, <1>4, LinkIs
  <2>2. rows = {}
    BY <1>1, <1>2, <1>4, RowsAtIs
  <2> QED BY <2>1, <2>2 DEF RowsOK, rows
<1>5. CASE t \notin calls /\ EffectiveLink(t, ticked) # {}
  <2>1. LinkOK(t, ticked, link) /\ link \in Link
    BY <1>1, <1>5, LinkIs DEF LinkOK
  <2>2. rows = RowsFrom(t, link, Plan(ticked)[calls \cup {t}])
    BY <1>1, <1>2, <1>5, RowsAtIs
  <2> HIDE DEF link
  <2>3. CASE link.pred = NoTask
    <3>1. rows = Dated(t, link, {})
      BY <2>2, <2>3 DEF RowsFrom
    <3>2. rows = {Placed(t, link, Start)}
      BY <2>3, <3>1, DatedIs DEF Begins
    <3>3. rows \in SUBSET PlanRow
      BY <1>1, <2>1, <3>1, DatedTyped
    <3>4. ~Endless(t)
      BY <2>1, <2>3 DEF LinkOK
    <3> QED BY <3>2, <3>3, <3>4 DEF RowsOK, rows
  <2>4. CASE link.pred # NoTask
    <3>1. PICK u : u = link.pred
      OBVIOUS
    <3>2. PICK before : before = Plan(ticked)[calls \cup {t}][u]
      OBVIOUS
    <3>3. u \in ticked /\ Nearest(t, u, ticked) /\ Leads(t, u)
      BY <2>1, <2>4, <3>1 DEF LinkOK
    <3>4. Called(ticked, calls \cup {t}, u)
      BY <3>3, CallsGoOn
    <3>5. RowsOK(u, before)
      BY <1>5, <3>2, <3>3, <3>4
    <3>6. Endless(t) <=> Endless(u)
      BY <3>3, EndlessFollows, EndlessPrecedes
    <3>7. rows = Dated(t, link, before)
      BY <2>2, <2>4, <3>1, <3>2 DEF RowsFrom
    <3>8. rows = {Placed(t, link, day) : day \in {row.end + link.lag + 1 : row \in before}}
      BY <2>4, <3>7, DatedIs DEF Begins
    <3>9. rows \in SUBSET PlanRow
      BY <1>1, <2>1, <3>5, <3>7, DatedTyped DEF RowsOK
    <3>10. Endless(t) => rows = {}
      BY <3>5, <3>6, <3>8 DEF RowsOK
    <3>11. ASSUME ~Endless(t) PROVE \E row : rows = {row}
      <4>1. PICK row : before = {row}
        BY <3>5, <3>6, <3>11 DEF RowsOK
      <4>2. rows = {Placed(t, link, row.end + link.lag + 1)}
        BY <3>8, <4>1
      <4> QED BY <4>2
    <3> QED BY <3>9, <3>10, <3>11 DEF RowsOK, rows
  <2> QED BY <2>3, <2>4
<1> QED BY <1>3, <1>4, <1>5

\* Planning, whatever it is in the middle of.
LEMMA RowsFound ==
  ASSUME TemplateTyped, NEW ticked \in SUBSET Live, NEW calls, NEW t, Called(ticked, calls, t)
  PROVE  RowsOK(t, Plan(ticked)[calls][t])
<1> DEFINE Bad == {rest \in SUBSET ticked : \E u \in ticked :
                     Called(ticked, ticked \ rest, u) /\ ~RowsOK(u, Plan(ticked)[ticked \ rest][u])}
<1>1. Bad = {}
  <2> SUFFICES ASSUME Bad # {} PROVE FALSE
    OBVIOUS
  <2>1. PICK rest \in Bad : \A less \in SUBSET rest : less # rest => less \notin Bad
    <3>1. Bad \in SUBSET SUBSET ticked /\ IsFiniteSet(ticked)
      BY TemplatesAssumption, LiveAreTasks, FS_Subset
    <3> HIDE DEF Bad
    <3> QED BY <3>1, SmallestSubset
  <2>2. PICK c : c = ticked \ rest
    OBVIOUS
  <2>3. PICK u \in ticked : Called(ticked, c, u) /\ ~RowsOK(u, Plan(ticked)[c][u])
    BY <2>1, <2>2
  <2>4. ASSUME NEW w \in ticked, u \notin c, Called(ticked, c \cup {u}, w)
        PROVE  RowsOK(w, Plan(ticked)[c \cup {u}][w])
    <3>1. c \cup {u} = ticked \ (rest \ {u}) /\ u \in rest /\ rest \in SUBSET ticked
      BY <2>1, <2>2, <2>4
    <3>2. rest \ {u} \notin Bad /\ rest \ {u} \in SUBSET ticked
      BY <2>1, <3>1
    <3> QED BY <2>4, <3>1, <3>2
  <2> HIDE DEF Bad
  <2> QED BY <2>3, <2>4, RowsStep
<1>2. calls = ticked \ (ticked \ calls) /\ ticked \ calls \in SUBSET ticked /\ t \in ticked
  BY DEF Called
<1> QED BY <1>1, <1>2

\* A task with a plan has the same one whatever is being planned.
Agree(ticked, calls, t) ==
  \A others \in SUBSET ticked :
    Called(ticked, calls, t) /\ Called(ticked, others, t) /\ ~Endless(t) =>
      Plan(ticked)[calls][t] = Plan(ticked)[others][t]

\* A call that goes on, by the task it goes on to.
GoesOn(ticked, calls, t, link) ==
  /\ t \notin calls /\ LinkOK(t, ticked, link)
  /\ Plan(ticked)[calls][t] = RowsFrom(t, link, Plan(ticked)[calls \cup {t}])
  /\ link.pred # NoTask =>
       link.pred \in ticked /\ ~Endless(link.pred) /\ Called(ticked, calls \cup {t}, link.pred)

LEMMA PlanGoesOn ==
  ASSUME TemplateTyped, NEW ticked \in SUBSET Live, NEW calls, NEW t, Called(ticked, calls, t), ~Endless(t)
  PROVE  GoesOn(ticked, calls, t, TheLink(t, ticked))
<1>1. PICK link : link = TheLink(t, ticked)
  OBVIOUS
<1>2. t \in ticked /\ calls \in SUBSET ticked
  BY DEF Called
<1>3. t \notin calls
  BY CallsReturn
<1>4. EffectiveLink(t, ticked) # {} /\ LinkOK(t, ticked, link)
  BY <1>1, <1>2, LinkIs
<1>5. Plan(ticked)[calls][t] = RowsAt(ticked, Plan(ticked), calls, t)
  BY <1>2, PlanAt
<1>6. RowsAt(ticked, Plan(ticked), calls, t) = RowsFrom(t, link, Plan(ticked)[calls \cup {t}])
  <2>1. PICK plan : plan = Plan(ticked)
    OBVIOUS
  <2>2. RowsAt(ticked, plan, calls, t) = RowsFrom(t, link, plan[calls \cup {t}])
    BY <1>1, <1>2, <1>3, <1>4, RowsAtIs
  <2> QED BY <2>1, <2>2
<1>7. ASSUME link.pred # NoTask
      PROVE  link.pred \in ticked /\ ~Endless(link.pred) /\ Called(ticked, calls \cup {t}, link.pred)
  <2>1. link.pred \in ticked /\ Leads(t, link.pred)
    BY <1>4, <1>7 DEF LinkOK
  <2>2. ~Endless(link.pred)
    BY <2>1, EndlessPrecedes
  <2>3. Called(ticked, calls \cup {t}, link.pred)
    BY <2>1, CallsGoOn
  <2> QED BY <2>1, <2>2, <2>3
<1>8. GoesOn(ticked, calls, t, link)
  BY <1>3, <1>4, <1>5, <1>6, <1>7 DEF GoesOn
<1> QED BY <1>1, <1>8

LEMMA AgreeStep ==
  ASSUME TemplateTyped, NEW ticked \in SUBSET Live, NEW calls, NEW t \in ticked,
         t \notin calls => \A u \in ticked : Agree(ticked, calls \cup {t}, u)
  PROVE  Agree(ticked, calls, t)
<1> SUFFICES ASSUME NEW others \in SUBSET ticked,
                    Called(ticked, calls, t), Called(ticked, others, t), ~Endless(t)
             PROVE  Plan(ticked)[calls][t] = Plan(ticked)[others][t]
  BY DEF Agree
<1>1. PICK link : link = TheLink(t, ticked)
  OBVIOUS
<1>2. /\ t \notin calls
      /\ Plan(ticked)[calls][t] = RowsFrom(t, link, Plan(ticked)[calls \cup {t}])
      /\ link.pred # NoTask => /\ link.pred \in ticked /\ ~Endless(link.pred)
                              /\ Called(ticked, calls \cup {t}, link.pred)
  <2>1. GoesOn(ticked, calls, t, link)
    BY <1>1, PlanGoesOn
  <2> QED BY <2>1 DEF GoesOn
<1>3. /\ Plan(ticked)[others][t] = RowsFrom(t, link, Plan(ticked)[others \cup {t}])
      /\ link.pred # NoTask => Called(ticked, others \cup {t}, link.pred)
  <2>1. GoesOn(ticked, others, t, link)
    BY <1>1, PlanGoesOn
  <2> QED BY <2>1 DEF GoesOn
<1>4. ASSUME link.pred # NoTask
      PROVE  Plan(ticked)[calls \cup {t}][link.pred] = Plan(ticked)[others \cup {t}][link.pred]
  <2>1. Agree(ticked, calls \cup {t}, link.pred) /\ others \cup {t} \in SUBSET ticked
    BY <1>2, <1>4
  <2> QED BY <1>2, <1>3, <1>4, <2>1 DEF Agree
<1>5. RowsFrom(t, link, Plan(ticked)[calls \cup {t}]) = RowsFrom(t, link, Plan(ticked)[others \cup {t}])
  BY <1>4 DEF RowsFrom
<1> QED BY <1>2, <1>3, <1>5

LEMMA CallsDoNotMatter ==
  ASSUME TemplateTyped, NEW ticked \in SUBSET Live, NEW calls \in SUBSET ticked, NEW t \in ticked
  PROVE  Agree(ticked, calls, t)
<1> DEFINE Bad == {rest \in SUBSET ticked : \E u \in ticked : ~Agree(ticked, ticked \ rest, u)}
<1>1. Bad = {}
  <2> SUFFICES ASSUME Bad # {} PROVE FALSE
    OBVIOUS
  <2>1. PICK rest \in Bad : \A less \in SUBSET rest : less # rest => less \notin Bad
    <3>1. Bad \in SUBSET SUBSET ticked /\ IsFiniteSet(ticked)
      BY TemplatesAssumption, LiveAreTasks, FS_Subset
    <3> HIDE DEF Bad
    <3> QED BY <3>1, SmallestSubset
  <2>2. PICK c : c = ticked \ rest
    OBVIOUS
  <2>3. PICK u \in ticked : ~Agree(ticked, c, u)
    BY <2>1, <2>2
  <2>4. ASSUME NEW w \in ticked, u \notin c PROVE Agree(ticked, c \cup {u}, w)
    <3>1. c \cup {u} = ticked \ (rest \ {u}) /\ u \in rest /\ rest \in SUBSET ticked
      BY <2>1, <2>2, <2>4
    <3>2. rest \ {u} \notin Bad /\ rest \ {u} \in SUBSET ticked
      BY <2>1, <3>1
    <3> QED BY <3>1, <3>2
  <2> HIDE DEF Bad
  <2> QED BY <2>3, <2>4, AgreeStep
<1>2. calls = ticked \ (ticked \ calls) /\ ticked \ calls \in SUBSET ticked
  OBVIOUS
<1> QED BY <1>1, <1>2

-----------------------------------------------------------------------------
(* An import of a template in any state.                                   *)

\* The row of a ticked task, by the row of the one it waits on.
LEMMA ImportRows ==
  ASSUME TemplateTyped, NEW ticked \in SUBSET Live, NEW t \in ticked
  PROVE  /\ PlanImport(ticked)[t] = {} <=> Endless(t)
         /\ ~Endless(t) =>
              /\ LinkOK(t, ticked, TheLink(t, ticked))
              /\ \E row : PlanImport(ticked)[t] = {row}
              /\ PlanImport(ticked)[t] = RowsFrom(t, TheLink(t, ticked), PlanImport(ticked))
<1> DEFINE plan == Plan(ticked)
<1>1. PlanImport(ticked) = plan[{}]
  BY ImportIsPlan
<1>2. \A u \in ticked : Called(ticked, {}, u)
  BY DEF Called
<1>3. RowsOK(t, plan[{}][t])
  BY <1>2, RowsFound
<1>4. ASSUME ~Endless(t)
      PROVE  /\ LinkOK(t, ticked, TheLink(t, ticked))
             /\ plan[{}][t] = RowsFrom(t, TheLink(t, ticked), plan[{}])
  <2>1. PICK link : link = TheLink(t, ticked)
    OBVIOUS
  <2>2. LinkOK(t, ticked, link)
    BY <1>4, <2>1, LinkIs
  <2>3. /\ plan[{}][t] = RowsFrom(t, link, plan[{} \cup {t}])
        /\ link.pred # NoTask => /\ link.pred \in ticked /\ ~Endless(link.pred)
                                /\ Called(ticked, {} \cup {t}, link.pred)
    <3>1. GoesOn(ticked, {}, t, link)
      BY <1>2, <1>4, <2>1, PlanGoesOn
    <3> QED BY <3>1 DEF GoesOn
  <2>4. ASSUME link.pred # NoTask
        PROVE  plan[{} \cup {t}][link.pred] = plan[{}][link.pred]
    <3>1. Agree(ticked, {} \cup {t}, link.pred)
      BY <2>3, <2>4, CallsDoNotMatter
    <3> HIDE DEF plan
    <3>2. Called(ticked, {}, link.pred)
      BY <1>2, <2>3, <2>4
    <3> QED BY <2>3, <2>4, <3>1, <3>2 DEF Agree, plan
  <2> HIDE DEF plan
  <2>5. RowsFrom(t, link, plan[{} \cup {t}]) = RowsFrom(t, link, plan[{}])
    BY <2>4 DEF RowsFrom
  <2> QED BY <2>1, <2>2, <2>3, <2>5
<1> HIDE DEF plan
<1>5. plan[{}][t] = {} <=> Endless(t)
  BY <1>3 DEF RowsOK
<1>6. ~Endless(t) => \E row : plan[{}][t] = {row}
  BY <1>3 DEF RowsOK
<1> QED BY <1>1, <1>4, <1>5, <1>6

LEMMA LoopsRefused == ASSUME TemplateTyped PROVE LoopsAreRefused
<1> SUFFICES ASSUME NEW ticked \in Imports
             PROVE  Refused(ticked) <=> \E t \in ticked : Endless(t)
  BY DEF LoopsAreRefused
<1>1. ticked \in SUBSET Live
  BY DEF Imports
<1>2. \A t \in ticked : PlanImport(ticked)[t] = {} <=> Endless(t)
  BY <1>1, ImportRows
<1> QED BY <1>2 DEF Refused

LEMMA OrderKept == ASSUME TemplateTyped PROVE ImportKeepsTheOrder
<1> SUFFICES ASSUME NEW ticked \in Imports, ~Refused(ticked), NEW t \in ticked,
                    NEW row \in PlanImport(ticked)[t]
             PROVE  /\ row.end - row.start + 1 = Duration[t]
                    /\ IF row.pred = NoTask
                       THEN row.start = Start /\ row.lag = 0 /\ \A u \in ticked : ~Nearest(t, u, ticked)
                       ELSE /\ row.pred \in ticked /\ Nearest(t, row.pred, ticked)
                            /\ \A before \in PlanImport(ticked)[row.pred] :
                                 row.start = before.end + row.lag + 1
                            /\ row.pred = Up(t) => row.lag = template[t].lag
                            /\ row.pred # Up(t) => row.lag \in {0, template[t].lag} /\ row.lag >= 0
  BY DEF ImportKeepsTheOrder, Up
<1>1. ticked \in SUBSET Live /\ t \in Tasks
  BY LiveAreTasks DEF Imports
<1>2. ~Endless(t)
  BY <1>1, ImportRows DEF Refused
<1>3. PICK link : link = TheLink(t, ticked)
  OBVIOUS
<1>4. /\ LinkOK(t, ticked, link) /\ \E only : PlanImport(ticked)[t] = {only}
      /\ PlanImport(ticked)[t] = RowsFrom(t, link, PlanImport(ticked))
  BY <1>1, <1>2, <1>3, ImportRows
<1>5. PICK day \in Begins(link, IF link.pred = NoTask THEN {} ELSE PlanImport(ticked)[link.pred]) :
        row = Placed(t, link, day)
  BY <1>4, DatedIs DEF RowsFrom
<1>6. row.pred = link.pred /\ row.lag = link.lag /\ row.start = day /\ row.end = day + Duration[t] - 1
  BY <1>5 DEF Placed
<1>7. link.lag \in Int /\ Duration[t] \in Int /\ Start \in Int
  BY <1>1, <1>4, TemplatesAssumption DEF LinkOK, Link
<1>8. CASE link.pred = NoTask
  <2>1. day = Start
    BY <1>5, <1>8 DEF Begins
  <2>2. link.lag = 0 /\ \A u \in ticked : ~Nearest(t, u, ticked)
    BY <1>4, <1>8 DEF LinkOK
  <2>3. row.end - row.start + 1 = Duration[t]
    BY <1>6, <1>7, <2>1
  <2> QED BY <1>6, <1>8, <2>1, <2>2, <2>3
<1>9. CASE link.pred # NoTask
  <2>1. /\ link.pred \in ticked /\ Nearest(t, link.pred, ticked)
        /\ link.pred = Up(t) => link.lag = template[t].lag
        /\ link.pred # Up(t) => link.lag \in {0, template[t].lag} /\ link.lag >= 0
    BY <1>4, <1>9 DEF LinkOK
  <2>2. PICK earlier \in PlanImport(ticked)[link.pred] : day = earlier.end + link.lag + 1
    BY <1>5, <1>9 DEF Begins
  <2>3. ~Endless(link.pred)
    BY <1>1, <2>1, ImportRows DEF Refused
  <2>4. \E only : PlanImport(ticked)[link.pred] = {only}
    BY <1>1, <2>1, <2>3, ImportRows
  <2>5. \A before \in PlanImport(ticked)[link.pred] : day = before.end + link.lag + 1
    BY <2>2, <2>4
  <2>6. day \in Int
    <3>1. RowsOK(link.pred, PlanImport(ticked)[link.pred])
      BY <1>1, <2>1, RowsFound, ImportIsPlan DEF Called
    <3>2. earlier.end \in Int
      BY <2>2, <3>1 DEF RowsOK, PlanRow
    <3> QED BY <1>7, <2>2, <3>2
  <2>7. row.end - row.start + 1 = Duration[t]
    BY <1>6, <1>7, <2>6
  <2> QED BY <1>6, <1>9, <2>1, <2>5, <2>7
<1> QED BY <1>8, <1>9

-----------------------------------------------------------------------------
(* Edits, however many run at once.                                        *)

\* A row nobody has created is the one it starts as.
TemplatesInv == TypeOK /\ \A t \in Tasks : template[t].record = "unused" => template[t] = Unused

Form == [op : {"create"}, pred : Links] \cup [op : {"void"}, id : Tasks]
          \cup [op : {"update", "write"}, id : Tasks, pred : Links] \cup {EditorIdle}
Names(request) == request.op \in {"update", "write", "void"}

LEMMA InvTyped == TemplatesInv => TemplateTyped
BY DEF TemplatesInv, TypeOK, TemplateTyped

LEMMA FormIs ==
  ASSUME NEW request \in Form
  PROVE  /\ request.op = "create" => request.pred \in Links
         /\ Names(request) => request.id \in Tasks
         /\ request.op \in {"update", "write"} => request.pred \in Links
BY DEF Form, Names, EditorIdle

\* What a request leaves, for the requests and for the rows.
LEMMA AsksKeeps ==
  ASSUME TemplatesInv, NEW e \in Editors, NEW request \in Form, Asks(e, request),
         template' \in [Tasks -> Row],
         \A t \in Tasks : template'[t].pred = NoTask => template'[t].lag = 0,
         \A t \in Tasks : template'[t].record = "unused" => template'[t] = Unused,
         \A t \in Tasks : template[t] # Unused => template'[t] # Unused,
         Names(request) => template[request.id] # Unused
  PROVE  TemplatesInv'
<1>1. editor' = [editor EXCEPT ![e] = request] /\ editor \in [Editors -> Form]
  BY DEF Asks, TemplatesInv, TypeOK, Form
<1>2. editor' \in [Editors -> Form]
  BY <1>1
<1>3. ASSUME NEW f \in Editors, Names(editor'[f]) PROVE template'[editor'[f].id] # Unused
  <2>1. PICK q \in Form : q = editor'[f]
    BY <1>2
  <2>2. q.id \in Tasks /\ Names(q)
    BY <1>3, <2>1, FormIs
  <2>3. template[q.id] # Unused
    <3>1. CASE f = e
      BY <1>1, <2>1, <2>2, <3>1
    <3>2. CASE f # e
      BY <1>1, <2>1, <2>2, <3>2 DEF TemplatesInv, TypeOK, Names
    <3> QED BY <3>1, <3>2
  <2> QED BY <2>1, <2>2, <2>3
<1>4. Unused' = Unused /\ Links' = Links /\ EditorIdle' = EditorIdle
  BY DEF Unused, Links, EditorIdle
<1>5. TypeOK'
  BY <1>2, <1>3, <1>4 DEF TypeOK, Form, Names, Row
<1> QED BY <1>4, <1>5 DEF TemplatesInv

LEMMA ReadsKeep ==
  ASSUME TemplatesInv, NEW e \in Editors, NEW request \in Form, Asks(e, request), UNCHANGED template,
         Names(request) => template[request.id] # Unused
  PROVE  TemplatesInv'
<1>1. /\ template' \in [Tasks -> Row]
      /\ \A t \in Tasks : template'[t].pred = NoTask => template'[t].lag = 0
      /\ \A t \in Tasks : template'[t].record = "unused" => template'[t] = Unused
      /\ \A t \in Tasks : template[t] # Unused => template'[t] # Unused
  BY DEF TemplatesInv, TypeOK
<1> QED BY <1>1, AsksKeeps

LEMMA WritesKeep ==
  ASSUME TemplatesInv, NEW e \in Editors, Asks(e, EditorIdle), NEW t \in Tasks, NEW row \in Row,
         template' = [template EXCEPT ![t] = row],
         row.pred = NoTask => row.lag = 0, row.record = "unused" => row = Unused,
         template[t] # Unused => row # Unused
  PROVE  TemplatesInv'
<1>1. /\ template' \in [Tasks -> Row]
      /\ \A u \in Tasks : template'[u].pred = NoTask => template'[u].lag = 0
      /\ \A u \in Tasks : template'[u].record = "unused" => template'[u] = Unused
      /\ \A u \in Tasks : template[u] # Unused => template'[u] # Unused
  BY DEF TemplatesInv, TypeOK
<1>2. EditorIdle \in Form /\ ~Names(EditorIdle)
  BY DEF Form, Names, EditorIdle
<1> QED BY <1>1, <1>2, AsksKeeps

\* A row of the form.
LEMMA EnteredIs ==
  ASSUME NEW pred \in Links, NEW row \in Entered(pred)
  PROVE  row \in Row /\ row.record = "active" /\ row.pred = pred /\ (pred = NoTask => row.lag = 0)
<1>1. (IF pred = NoTask THEN {0} ELSE Lags) \subseteq Int
  BY TemplatesAssumption
<1> QED BY <1>1 DEF Entered, Row

LEMMA InvStep == TemplatesInv /\ [Next]_vars => TemplatesInv'
<1> SUFFICES ASSUME TemplatesInv, [Next]_vars PROVE TemplatesInv'
  OBVIOUS
<1>1. CASE UNCHANGED vars
  BY <1>1 DEF vars, TemplatesInv, TypeOK, Unused, EditorIdle, Row, Links
<1>2. CASE Next
  <2>1. PICK e \in Editors : Edit(e)
    BY <1>2 DEF Next
  <2>2. editor[e] \in Form /\ template \in [Tasks -> Row]
    BY DEF TemplatesInv, TypeOK, Form
  <2>3. Live \subseteq Tasks /\ Tasks \subseteq Links /\ \A t \in Live : template[t] # Unused
    BY LiveAreTasks DEF Live, Unused
  <2>4. ASSUME NEW pred \in Links, CreateRead(e, pred) PROVE TemplatesInv'
    <3>1. [op |-> "create", pred |-> pred] \in Form /\ ~Names([op |-> "create", pred |-> pred])
      BY DEF Form, Names
    <3> QED BY <2>4, <3>1, ReadsKeep DEF CreateRead
  <2>5. ASSUME NEW t \in Tasks, NEW pred \in Links, UpdateRead(e, t, pred) PROVE TemplatesInv'
    <3>1. [op |-> "update", id |-> t, pred |-> pred] \in Form
      BY DEF Form
    <3> QED BY <2>3, <2>5, <3>1, ReadsKeep DEF UpdateRead
  <2>6. ASSUME NEW t \in Tasks, VoidRead(e, t) PROVE TemplatesInv'
    <3>1. [op |-> "void", id |-> t] \in Form
      BY DEF Form
    <3> QED BY <2>3, <2>6, <3>1, ReadsKeep DEF VoidRead
  <2>7. CASE UpdateCheck(e)
    <3>1. PICK q \in Form : q = editor[e]
      BY <2>2
    <3>2. q.op = "update" /\ Asks(e, [q EXCEPT !.op = "write"]) /\ UNCHANGED template
      BY <2>7, <3>1 DEF UpdateCheck
    <3>3. q \in [op : {"update", "write"}, id : Tasks, pred : Links]
      BY <3>2 DEF Form, EditorIdle
    <3>4. [q EXCEPT !.op = "write"] \in Form /\ [q EXCEPT !.op = "write"].id = q.id
      BY <3>3 DEF Form
    <3>5. template[q.id] # Unused
      BY <3>1, <3>2 DEF TemplatesInv, TypeOK
    <3> QED BY <3>2, <3>4, <3>5, ReadsKeep
  <2>8. CASE Create(e)
    <3>1. editor[e].op = "create" /\ editor[e].pred \in Links /\ Asks(e, EditorIdle)
      BY <2>2, <2>8, FormIs DEF Create
    <3>2. PICK t \in Tasks, row \in Entered(editor[e].pred) : template' = [template EXCEPT ![t] = row]
      BY <2>8 DEF Create
    <3>3. row \in Row /\ row.record = "active" /\ (row.pred = NoTask => row.lag = 0)
      BY <3>1, <3>2, EnteredIs
    <3>4. row # Unused
      BY <3>3 DEF Unused
    <3> QED BY <3>1, <3>2, <3>3, <3>4, WritesKeep
  <2>9. CASE Update(e)
    <3>1. PICK t : t = editor[e].id
      OBVIOUS
    <3>2. editor[e].op = "write" /\ editor[e].pred \in Links /\ Asks(e, EditorIdle) /\ t \in Tasks
      BY <2>2, <2>9, <3>1, FormIs DEF Update, Names
    <3>3. PICK entered \in Entered(editor[e].pred) :
            template' = [template EXCEPT ![t] = [entered EXCEPT !.record = template[t].record]]
      BY <2>9, <3>1 DEF Update
    <3>4. PICK row : row = [entered EXCEPT !.record = template[t].record]
      OBVIOUS
    <3>5. entered \in Row /\ (entered.pred = NoTask => entered.lag = 0)
      BY <3>2, <3>3, EnteredIs
    <3>6. row \in Row /\ row.record = template[t].record /\ (row.pred = NoTask => row.lag = 0)
      BY <2>2, <3>2, <3>4, <3>5 DEF Row
    <3>7. template[t] # Unused /\ template[t].record # "unused"
      BY <3>1, <3>2 DEF TemplatesInv, TypeOK
    <3>8. row # Unused
      BY <3>6, <3>7 DEF Unused
    <3> QED BY <3>2, <3>3, <3>4, <3>6, <3>7, <3>8, WritesKeep
  <2>10. CASE Void(e)
    <3>1. PICK t : t = editor[e].id
      OBVIOUS
    <3>2. t \in Tasks /\ Asks(e, EditorIdle) /\ template[t] # Unused
      BY <2>2, <2>10, <3>1, FormIs DEF Void, Names, TemplatesInv, TypeOK
    <3>3. PICK row : row = [template[t] EXCEPT !.record = "void"]
      OBVIOUS
    <3>4. template' = [template EXCEPT ![t] = row]
      BY <2>10, <3>1, <3>3 DEF Void
    <3>5. row \in Row /\ row.record = "void" /\ row.pred = template[t].pred /\ row.lag = template[t].lag
      BY <2>2, <3>2, <3>3 DEF Row
    <3>6. row # Unused /\ (row.pred = NoTask => row.lag = 0)
      BY <3>2, <3>5 DEF Unused, TemplatesInv, TypeOK
    <3> QED BY <3>2, <3>4, <3>5, <3>6, WritesKeep
  <2>11. CASE GiveUp(e)
    <3>1. EditorIdle \in Form /\ ~Names(EditorIdle)
      BY DEF Form, Names, EditorIdle
    <3> QED BY <2>11, <3>1, ReadsKeep DEF GiveUp
  <2> QED BY <2>1, <2>4, <2>5, <2>6, <2>7, <2>8, <2>9, <2>10, <2>11 DEF Edit
<1> QED BY <1>1, <1>2 DEF Next

LEMMA InvInit == Init => TemplatesInv
<1>1. Unused \in Row /\ Unused.pred = NoTask => Unused.lag = 0
  BY DEF Unused
<1>2. Unused \in Row
  BY DEF Unused, Row, Links
<1> QED BY <1>1, <1>2 DEF Init, TemplatesInv, TypeOK, Unused, EditorIdle

\* The types hold of every template edits can leave, however many are in flight.
THEOREM TemplatesTypeCorrect == Spec => []TypeOK
<1>1. TemplatesInv => TypeOK
  BY DEF TemplatesInv
<1> QED BY <1>1, InvInit, InvStep, PTL DEF Spec

\* Whatever edits have left, an import is refused exactly when a ticked task's chain has
\* no end (effectiveLink, planImport).
THEOREM LoopsAreAlwaysRefused == Spec => []LoopsAreRefused
<1>1. TemplatesInv => LoopsAreRefused
  BY InvTyped, LoopsRefused
<1> QED BY <1>1, InvInit, InvStep, PTL DEF Spec

\* Whatever edits have left, a plan keeps the order of the tasks ticked, each on the
\* nearest above it (planImport, effectiveLink).
THEOREM ImportAlwaysKeepsTheOrder == Spec => []ImportKeepsTheOrder
<1>1. TemplatesInv => ImportKeepsTheOrder
  BY InvTyped, OrderKept
<1> QED BY <1>1, InvInit, InvStep, PTL DEF Spec

-----------------------------------------------------------------------------
(* One editor at a time.                                                   *)

CloseAt(t, walk, seen, cursor) ==
  IF cursor \notin Live \/ cursor \in seen \cup {t} THEN cursor \in Live
  ELSE walk[seen \cup {cursor}][Up(cursor)]

IsLoopWalk(t, walk) ==
  walk = [seen \in SUBSET Tasks |-> [cursor \in Links |-> CloseAt(t, walk, seen, cursor)]]

LoopWalk(t) == CHOOSE walk : IsLoopWalk(t, walk)

LEMMA ClosesIsWalk == \A t, pred : ClosesLoop(t, pred) <=> LoopWalk(t)[{}][pred]
BY DEF ClosesLoop, LoopWalk, IsLoopWalk, CloseAt, Up

LEMMA LoopWalkExists ==
  ASSUME TemplateTyped, NEW t \in Tasks
  PROVE  IsLoopWalk(t, LoopWalk(t))
<1> DEFINE Places == (SUBSET Tasks) \X Links
           stop == {x \in Places : x[2] \notin Live \/ x[2] \in x[1] \cup {t}}
           base == [x \in Places |-> IF x[2] \in Live THEN TRUE ELSE FALSE]
           next == [c \in Links |-> Up(c)]
           step == [x \in Links \X BOOLEAN |-> x[2]]
<1>1. \A s \in SUBSET Tasks, c \in Links : <<s, c>> \in stop <=> c \notin Live \/ c \in s \cup {t}
  OBVIOUS
<1>2. \A s \in SUBSET Tasks, c \in Links : base[<<s, c>>] = IF c \in Live THEN TRUE ELSE FALSE
  OBVIOUS
<1>3. \A c \in Links : next[c] = Up(c) /\ \A v \in BOOLEAN : step[<<c, v>>] = v
  OBVIOUS
<1> HIDE DEF stop, base, next, step
<1>4. \A s \in SUBSET Tasks, c \in Links : <<s, c>> \notin stop =>
        c \in Tasks \ s /\ next[c] \in Links /\ next[c] = Up(c) /\ c \in Live /\ c \notin s \cup {t}
  <2> SUFFICES ASSUME NEW s \in SUBSET Tasks, NEW c \in Links, <<s, c>> \notin stop
               PROVE  c \in Tasks \ s /\ next[c] \in Links /\ next[c] = Up(c) /\ c \in Live
                      /\ c \notin s \cup {t}
    OBVIOUS
  <2>1. c \in Live /\ c \notin s \cup {t}
    BY <1>1
  <2>2. c \in Tasks
    BY <2>1, LiveAreTasks
  <2>3. next[c] = Up(c) /\ Up(c) \in Links
    BY <1>3, <2>2, RowsTyped
  <2> QED BY <2>1, <2>2, <2>3
<1>5. Walkable(Tasks, Links, BOOLEAN, stop, base, next, step)
  <2>1. \A s \in SUBSET Tasks, c \in Links : <<s, c>> \in stop => base[<<s, c>>] \in BOOLEAN
    BY <1>2
  <2>2. \A s \in SUBSET Tasks, c \in Links : <<s, c>> \notin stop =>
          c \in Tasks \ s /\ next[c] \in Links /\ \A v \in BOOLEAN : step[<<c, v>>] \in BOOLEAN
    BY <1>3, <1>4
  <2> QED BY <2>1, <2>2 DEF Walkable
<1>6. PICK V \in [SUBSET Tasks -> [Links -> BOOLEAN]] :
        Walked(V, Tasks, Links, stop, base, next, step)
  BY <1>5, WalkExists, TemplatesAssumption
<1>7. ASSUME NEW s \in SUBSET Tasks, NEW c \in Links PROVE V[s][c] = CloseAt(t, V, s, c)
  <2>1. V[s][c] = IF <<s, c>> \in stop THEN base[<<s, c>>] ELSE step[<<c, V[s \cup {c}][next[c]]>>]
    BY <1>6 DEF Walked
  <2>2. CASE <<s, c>> \in stop
    <3>1. V[s][c] = IF c \in Live THEN TRUE ELSE FALSE
      BY <1>2, <2>1, <2>2
    <3>2. CloseAt(t, V, s, c) = (c \in Live)
      BY <1>1, <2>2 DEF CloseAt
    <3>3. CASE c \in Live
      BY <3>1, <3>2, <3>3
    <3>4. CASE c \notin Live
      <4>1. V[s][c] = FALSE
        BY <3>1, <3>4
      <4>2. CloseAt(t, V, s, c) = FALSE
        BY <3>4 DEF CloseAt
      <4> QED BY <4>1, <4>2
    <3> QED BY <3>3, <3>4
  <2>3. CASE <<s, c>> \notin stop
    <3>1. c \in Live /\ c \notin s \cup {t} /\ s \cup {c} \in SUBSET Tasks /\ next[c] = Up(c) /\ Up(c) \in Links
      BY <1>4, <2>3
    <3>2. V[s \cup {c}][Up(c)] \in BOOLEAN
      BY <1>6, <3>1
    <3>3. V[s][c] = V[s \cup {c}][Up(c)]
      BY <1>3, <2>1, <2>3, <3>1, <3>2
    <3> QED BY <3>1, <3>3 DEF CloseAt
  <2> QED BY <2>2, <2>3
<1>8. IsLoopWalk(t, V)
  <2>1. V = [s \in SUBSET Tasks |-> [c \in Links |-> V[s][c]]]
    BY <1>6
  <2>2. [s \in SUBSET Tasks |-> [c \in Links |-> V[s][c]]]
          = [s \in SUBSET Tasks |-> [c \in Links |-> CloseAt(t, V, s, c)]]
    BY <1>7
  <2> QED BY <2>1, <2>2 DEF IsLoopWalk
<1>9. IsLoopWalk(t, LoopWalk(t))
  BY <1>8 DEF LoopWalk
<1> QED BY <1>9

LEMMA LoopWalkAt ==
  ASSUME TemplateTyped, NEW t \in Tasks, NEW seen \in SUBSET Tasks, NEW cursor \in Links
  PROVE  LoopWalk(t)[seen][cursor] = CloseAt(t, LoopWalk(t), seen, cursor)
<1> DEFINE walk == LoopWalk(t)
<1>1. walk = [s \in SUBSET Tasks |-> [c \in Links |-> CloseAt(t, walk, s, c)]]
  BY LoopWalkExists DEF IsLoopWalk
<1> HIDE DEF walk
<1>2. walk[seen] = [c \in Links |-> CloseAt(t, walk, seen, c)]
  BY <1>1
<1>3. walk[seen][cursor] = CloseAt(t, walk, seen, cursor)
  BY <1>2
<1> QED BY <1>3 DEF walk

\* If t waited on pred, the chain from there would have no end.
Holds(t, S) == \A u \in S \ {t} : Up(u) \in S
WouldLoop(t, pred) == \E S \in SUBSET Live : pred \in S /\ Holds(t, S)

\* Where the search is: what it came past is not t and leads on.
Searching(t, pred, seen, cursor) ==
  /\ seen \in SUBSET Live /\ t \notin seen /\ cursor \in Links /\ pred \in seen \cup {cursor}
  /\ \A u \in seen : Up(u) \in seen \cup {cursor}
  /\ \A S \in SUBSET Live : pred \in S /\ Holds(t, S) => cursor \in S

\* findPredecessorCycle finds a loop exactly when there would be one.
LEMMA LoopFound ==
  ASSUME TemplateTyped, NEW t \in Tasks, NEW pred \in Links
  PROVE  ClosesLoop(t, pred) <=> WouldLoop(t, pred)
<1> DEFINE walk == LoopWalk(t)
           Bad == {rest \in SUBSET Tasks : \E cursor \in Links :
                     /\ Searching(t, pred, Tasks \ rest, cursor)
                     /\ ~(walk[Tasks \ rest][cursor] <=> WouldLoop(t, pred))}
<1>1. Bad = {}
  <2> SUFFICES ASSUME Bad # {} PROVE FALSE
    OBVIOUS
  <2>1. PICK rest \in Bad : \A less \in SUBSET rest : less # rest => less \notin Bad
    <3>1. Bad \in SUBSET SUBSET Tasks /\ IsFiniteSet(Tasks)
      BY TemplatesAssumption
    <3> HIDE DEF Bad
    <3> QED BY <3>1, SmallestSubset
  <2>2. PICK seen : seen = Tasks \ rest
    OBVIOUS
  <2>3. PICK cursor \in Links : Searching(t, pred, seen, cursor)
                                /\ ~(walk[seen][cursor] <=> WouldLoop(t, pred))
    BY <2>1, <2>2
  <2>4. walk[seen][cursor] = CloseAt(t, walk, seen, cursor)
    BY <2>2, <2>3, LoopWalkAt
  <2> HIDE DEF walk
  <2>5. /\ seen \in SUBSET Live /\ t \notin seen /\ pred \in seen \cup {cursor}
        /\ \A u \in seen : Up(u) \in seen \cup {cursor}
        /\ \A S \in SUBSET Live : pred \in S /\ Holds(t, S) => cursor \in S
    BY <2>3 DEF Searching
  <2>6. CASE cursor \notin Live
    <3>1. ~CloseAt(t, walk, seen, cursor)
      BY <2>6 DEF CloseAt
    <3>2. ~WouldLoop(t, pred)
      BY <2>5, <2>6 DEF WouldLoop
    <3> QED BY <2>3, <2>4, <3>1, <3>2
  <2>7. CASE cursor \in Live /\ cursor \in seen \cup {t}
    <3>1. CloseAt(t, walk, seen, cursor)
      BY <2>7 DEF CloseAt
    <3>2. seen \cup {cursor} \in SUBSET Live /\ Holds(t, seen \cup {cursor})
      BY <2>5, <2>7 DEF Holds
    <3>3. WouldLoop(t, pred)
      BY <2>5, <3>2 DEF WouldLoop
    <3> QED BY <2>3, <2>4, <3>1, <3>3
  <2>8. CASE cursor \in Live /\ cursor \notin seen \cup {t}
    <3>1. walk[seen][cursor] = walk[seen \cup {cursor}][Up(cursor)]
      BY <2>4, <2>8 DEF CloseAt
    <3>2. Up(cursor) \in Links
      BY <2>8, RowsTyped, LiveAreTasks
    <3>3. Searching(t, pred, seen \cup {cursor}, Up(cursor))
      <4>1. \A u \in seen \cup {cursor} : Up(u) \in (seen \cup {cursor}) \cup {Up(cursor)}
        BY <2>5
      <4>2. \A S \in SUBSET Live : pred \in S /\ Holds(t, S) => Up(cursor) \in S
        BY <2>5, <2>8 DEF Holds
      <4> QED BY <2>5, <2>8, <3>2, <4>1, <4>2 DEF Searching
    <3>4. seen \cup {cursor} = Tasks \ (rest \ {cursor}) /\ cursor \in rest /\ rest \in SUBSET Tasks
      BY <2>1, <2>2, <2>8, LiveAreTasks
    <3>5. rest \ {cursor} \notin Bad /\ rest \ {cursor} \in SUBSET Tasks
      BY <2>1, <3>4
    <3> QED BY <2>3, <3>1, <3>2, <3>3, <3>4, <3>5
  <2> QED BY <2>6, <2>7, <2>8
<1>2. Searching(t, pred, {}, pred)
  BY DEF Searching
<1>3. {} = Tasks \ Tasks /\ Tasks \in SUBSET Tasks
  OBVIOUS
<1>4. walk[{}][pred] <=> WouldLoop(t, pred)
  <2> HIDE DEF walk
  <2> QED BY <1>1, <1>2, <1>3
<1> QED BY <1>4, ClosesIsWalk

\* No chain of live tasks goes round, and no live task waits on one that is not there.
NoLoops == \A t \in Tasks : ~Endless(t)
WaitsOnLive == \A t \in Live : Up(t) \in Live \cup {NoTask}

\* What a request has read is still so.
ReadHolds(request) ==
  /\ request.op \in {"create", "update", "write"} => request.pred \in Live \cup {NoTask}
  /\ Names(request) => request.id \in Live
  /\ request.op = "write" => ~WouldLoop(request.id, request.pred)
  /\ request.op = "void" => \A u \in Live : Up(u) # request.id

AloneInv == TemplatesInv /\ NoLoops /\ WaitsOnLive /\ \A e \in Editors : ReadHolds(editor[e])

\* The only request leaves what it asks, and every other row as it was.
LEMMA AloneAsks ==
  ASSUME \A e \in Editors, f \in Editors : e = f, AloneInv, NEW e \in Editors, NEW request,
         Asks(e, request), TemplatesInv', NoLoops', WaitsOnLive', ReadHolds(request)'
  PROVE  AloneInv'
<1>1. \A f \in Editors : editor'[f] = request'
  BY DEF Asks, AloneInv, TemplatesInv, TypeOK
<1>2. \A f \in Editors : ReadHolds(editor[f])'
  BY <1>1 DEF ReadHolds, Names
<1> QED BY <1>2 DEF AloneInv

\* What a write makes of the chains.
LEMMA Written ==
  ASSUME TemplatesInv, NEW t \in Tasks, NEW row \in Row, template' = [template EXCEPT ![t] = row]
  PROVE  /\ row.record = "active" => Live' = Live \cup {t}
         /\ row.record # "active" => Live' = Live \ {t}
         /\ \A u \in Tasks : u # t => template'[u].pred = Up(u)
         /\ template'[t].pred = row.pred
<1>1. template \in [Tasks -> Row]
  BY DEF TemplatesInv, TypeOK
<1>2. template'[t] = row /\ \A u \in Tasks : u # t => template'[u] = template[u]
  BY <1>1
<1> QED BY <1>2 DEF Live, Up

LEMMA NoneEndless ==
  ASSUME \A S \in SUBSET Live' : S # {} => \E u \in S : template'[u].pred \notin S
  PROVE  NoLoops'
BY DEF NoLoops, Endless

LEMMA LoopsNone ==
  ASSUME NoLoops, NEW S \in SUBSET Live, S # {}
  PROVE  \E u \in S : Up(u) \notin S
BY LiveAreTasks DEF NoLoops, Endless, Up

\* A request that only reads.
LEMMA AloneReads ==
  ASSUME \A e \in Editors, f \in Editors : e = f, AloneInv, NEW e \in Editors, NEW request,
         Asks(e, request), UNCHANGED template, TemplatesInv', ReadHolds(request)
  PROVE  AloneInv'
<1>1. Live' = Live
  BY DEF Live
<1>2. NoLoops' /\ WaitsOnLive'
  BY <1>1 DEF AloneInv, NoLoops, Endless, WaitsOnLive, Up
<1>3. ReadHolds(request)'
  BY <1>1 DEF ReadHolds, Names, WouldLoop, Holds, Up
<1> QED BY <1>2, <1>3, AloneAsks

\* A new task waits on one there is, and none waits on it.
LEMMA AloneCreates ==
  ASSUME AloneInv, NEW e \in Editors, Create(e)
  PROVE  NoLoops' /\ WaitsOnLive'
<1> DEFINE pred == editor[e].pred
<1>1. pred \in Live \cup {NoTask}
  BY DEF AloneInv, ReadHolds, Create
<1> HIDE DEF pred
<1>2. pred \in Links
  BY <1>1, LiveAreTasks DEF Links
<1>3. PICK t \in Tasks, row \in Entered(pred) : template[t] = Unused /\ template' = [template EXCEPT ![t] = row]
  BY DEF Create, pred
<1>4. row \in Row /\ row.record = "active" /\ row.pred = pred
  BY <1>2, <1>3, EnteredIs
<1>5. t \notin Live /\ t # NoTask /\ t # pred
  BY <1>1, <1>3, LiveAreTasks, TemplatesAssumption DEF Live, Unused
<1>6. /\ Live' = Live \cup {t} /\ template'[t].pred = pred
      /\ \A u \in Tasks : u # t => template'[u].pred = Up(u)
  BY <1>3, <1>4, Written DEF AloneInv
<1>7. \A u \in Live : u \in Tasks /\ u # t /\ template'[u].pred = Up(u) /\ Up(u) \in Live \cup {NoTask}
  BY <1>5, <1>6, LiveAreTasks DEF AloneInv, WaitsOnLive
<1>8. WaitsOnLive'
  BY <1>1, <1>6, <1>7 DEF WaitsOnLive, Up
<1>9. ASSUME NEW S \in SUBSET Live', S # {} PROVE \E u \in S : template'[u].pred \notin S
  <2>1. S \ {t} \in SUBSET Live
    BY <1>6
  <2>2. CASE S \ {t} = {}
    BY <1>5, <1>6, <1>9, <2>2
  <2>3. CASE S \ {t} # {}
    <3>1. PICK u \in S \ {t} : Up(u) \notin S \ {t}
      BY <2>1, <2>3, LoopsNone DEF AloneInv
    <3>2. template'[u].pred = Up(u) /\ Up(u) # t
      BY <1>5, <1>7, <2>1
    <3> QED BY <3>1, <3>2
  <2> QED BY <2>2, <2>3
<1> QED BY <1>8, <1>9, NoneEndless

\* A task comes to wait on one from which the chain does not come back to it.
LEMMA AloneUpdates ==
  ASSUME AloneInv, NEW e \in Editors, Update(e)
  PROVE  NoLoops' /\ WaitsOnLive'
<1>1. PICK t, pred : t = editor[e].id /\ pred = editor[e].pred
  OBVIOUS
<1>2. t \in Live /\ pred \in Live \cup {NoTask} /\ ~WouldLoop(t, pred)
  BY <1>1 DEF AloneInv, ReadHolds, Update, Names
<1>3. t \in Tasks /\ pred \in Links /\ template[t].record = "active"
  BY <1>2, LiveAreTasks DEF Links, Live
<1>4. PICK entered \in Entered(pred) :
        template' = [template EXCEPT ![t] = [entered EXCEPT !.record = template[t].record]]
  BY <1>1 DEF Update
<1>5. entered \in Row /\ entered.record = "active" /\ entered.pred = pred
  BY <1>3, <1>4, EnteredIs
<1>6. [entered EXCEPT !.record = template[t].record] = entered
  BY <1>3, <1>5 DEF Row
<1>7. template' = [template EXCEPT ![t] = entered]
  BY <1>4, <1>6
<1>8. /\ Live' = Live /\ template'[t].pred = pred
      /\ \A u \in Tasks : u # t => template'[u].pred = Up(u)
  <2>1. TemplatesInv
    BY DEF AloneInv
  <2>2. /\ Live' = Live \cup {t} /\ template'[t].pred = entered.pred
        /\ \A u \in Tasks : u # t => template'[u].pred = Up(u)
    BY <1>3, <1>5, <1>7, <2>1, Written
  <2>3. Live \cup {t} = Live
    BY <1>2
  <2> QED BY <1>5, <2>2, <2>3
<1>9. WaitsOnLive'
  BY <1>2, <1>8, LiveAreTasks DEF AloneInv, WaitsOnLive, Up
<1>10. ASSUME NEW S \in SUBSET Live', S # {} PROVE \E u \in S : template'[u].pred \notin S
  <2>1. S \in SUBSET Live /\ \A u \in S : u \in Tasks
    BY <1>8, LiveAreTasks
  <2>2. CASE t \in S /\ pred \in S
    <3>1. PICK u \in S \ {t} : Up(u) \notin S
      BY <1>2, <2>1, <2>2 DEF WouldLoop, Holds
    <3> QED BY <1>8, <2>1, <3>1
  <2>3. CASE t \in S /\ pred \notin S
    BY <1>8, <2>3
  <2>4. CASE t \notin S
    <3>1. PICK u \in S : Up(u) \notin S
      BY <1>10, <2>1, LoopsNone DEF AloneInv
    <3> QED BY <1>8, <2>1, <2>4, <3>1
  <2> QED BY <2>2, <2>3, <2>4
<1> QED BY <1>9, <1>10, NoneEndless

\* A task nobody waits on is taken away.
LEMMA AloneVoids ==
  ASSUME AloneInv, NEW e \in Editors, Void(e)
  PROVE  NoLoops' /\ WaitsOnLive'
<1>1. PICK t : t = editor[e].id
  OBVIOUS
<1>2. t \in Live /\ \A u \in Live : Up(u) # t
  BY <1>1 DEF AloneInv, ReadHolds, Void, Names
<1>3. PICK row : row = [template[t] EXCEPT !.record = "void"]
  OBVIOUS
<1>4. t \in Tasks /\ template[t] \in Row
  BY <1>2, LiveAreTasks DEF AloneInv, TemplatesInv, TypeOK
<1>5. row \in Row /\ row.record = "void" /\ row.pred = Up(t)
  BY <1>3, <1>4 DEF Row, Up
<1>6. template' = [template EXCEPT ![t] = row]
  BY <1>1, <1>3 DEF Void
<1>7. /\ Live' = Live \ {t} /\ template'[t].pred = Up(t)
      /\ \A u \in Tasks : u # t => template'[u].pred = Up(u)
  BY <1>4, <1>5, <1>6, Written DEF AloneInv
<1>8. \A u \in Live' : u \in Live /\ u \in Tasks /\ template'[u].pred = Up(u)
  BY <1>7, LiveAreTasks
<1>9. WaitsOnLive'
  BY <1>2, <1>7, <1>8 DEF AloneInv, WaitsOnLive, Up
<1>10. ASSUME NEW S \in SUBSET Live', S # {} PROVE \E u \in S : template'[u].pred \notin S
  <2>1. S \in SUBSET Live
    BY <1>7
  <2>2. PICK u \in S : Up(u) \notin S
    BY <1>10, <2>1, LoopsNone DEF AloneInv
  <2> QED BY <1>8, <2>2
<1> QED BY <1>9, <1>10, NoneEndless

LEMMA AloneStep ==
  ASSUME \A e \in Editors, f \in Editors : e = f
  PROVE  AloneInv /\ [Next]_vars => AloneInv'
<1> SUFFICES ASSUME AloneInv, [Next]_vars PROVE AloneInv'
  OBVIOUS
<1>1. TemplatesInv'
  BY InvStep DEF AloneInv
<1>2. CASE UNCHANGED vars
  <2>1. template' = template /\ editor' = editor /\ Live' = Live
    BY <1>2 DEF vars, Live
  <2>2. NoLoops' /\ WaitsOnLive'
    BY <2>1 DEF AloneInv, NoLoops, Endless, WaitsOnLive, Up
  <2>3. \A e \in Editors : ReadHolds(editor[e])'
    BY <2>1 DEF AloneInv, ReadHolds, Names, WouldLoop, Holds, Up
  <2> QED BY <1>1, <2>2, <2>3 DEF AloneInv
<1>3. CASE Next
  <2>1. PICK e \in Editors : Edit(e)
    BY <1>3 DEF Next
  <2>2. ~Names(EditorIdle) /\ EditorIdle.op = "idle"
    BY DEF EditorIdle, Names
  <2>3. ReadHolds(EditorIdle) /\ ReadHolds(EditorIdle)'
    BY <2>2 DEF ReadHolds, EditorIdle, Names
  <2>4. ASSUME NEW pred \in Links, CreateRead(e, pred) PROVE AloneInv'
    <3>1. ReadHolds([op |-> "create", pred |-> pred])
      BY <2>4 DEF CreateRead, ReadHolds, Names
    <3> QED BY <1>1, <2>4, <3>1, AloneReads DEF CreateRead
  <2>5. ASSUME NEW t \in Tasks, NEW pred \in Links, UpdateRead(e, t, pred) PROVE AloneInv'
    <3>1. ReadHolds([op |-> "update", id |-> t, pred |-> pred])
      BY <2>5 DEF UpdateRead, ReadHolds, Names
    <3> QED BY <1>1, <2>5, <3>1, AloneReads DEF UpdateRead
  <2>6. ASSUME NEW t \in Tasks, VoidRead(e, t) PROVE AloneInv'
    <3>1. ReadHolds([op |-> "void", id |-> t])
      BY <2>6 DEF VoidRead, ReadHolds, Names, Up
    <3> QED BY <1>1, <2>6, <3>1, AloneReads DEF VoidRead
  <2>7. CASE UpdateCheck(e)
    <3>1. PICK q : q = editor[e]
      OBVIOUS
    <3>2. q \in Form /\ q.op = "update" /\ Asks(e, [q EXCEPT !.op = "write"]) /\ UNCHANGED template
      BY <2>7, <3>1 DEF UpdateCheck, AloneInv, TemplatesInv, TypeOK, Form
    <3>3. q \in [op : {"update", "write"}, id : Tasks, pred : Links]
      BY <3>2 DEF Form, EditorIdle
    <3>4. PICK request : request = [q EXCEPT !.op = "write"]
      OBVIOUS
    <3>5. request.op = "write" /\ request.id = q.id /\ request.pred = q.pred
      BY <3>3, <3>4
    <3>6. q.pred \in Live \cup {NoTask} /\ q.id \in Live
      BY <3>1, <3>2 DEF AloneInv, ReadHolds, Names
    <3>7. ~WouldLoop(q.id, q.pred)
      BY <2>7, <3>1, <3>3, LoopFound, InvTyped DEF UpdateCheck, AloneInv
    <3>8. ReadHolds(request)
      BY <3>5, <3>6, <3>7 DEF ReadHolds, Names
    <3> QED BY <1>1, <3>2, <3>4, <3>8, AloneReads
  <2>8. CASE Create(e)
    BY <1>1, <2>3, <2>8, AloneCreates, AloneAsks DEF Create
  <2>9. CASE Update(e)
    BY <1>1, <2>3, <2>9, AloneUpdates, AloneAsks DEF Update
  <2>10. CASE Void(e)
    BY <1>1, <2>3, <2>10, AloneVoids, AloneAsks DEF Void
  <2>11. CASE GiveUp(e)
    BY <1>1, <2>3, <2>11, AloneReads DEF GiveUp
  <2> QED BY <2>1, <2>4, <2>5, <2>6, <2>7, <2>8, <2>9, <2>10, <2>11 DEF Edit
<1> QED BY <1>2, <1>3 DEF Next

\* While one person edits at a time, no edit leaves a loop, nor a task that waits on one
\* that is gone: the check before a save is all that is needed, as the table's comment
\* has it (findPredecessorCycle, voidTemplateTask).
THEOREM OneEditorNeedsNoLock ==
  ASSUME \A e \in Editors, f \in Editors : e = f
  PROVE  Spec => [](NoLoops /\ WaitsOnLive)
<1>1. Init => AloneInv
  <2> SUFFICES ASSUME Init PROVE AloneInv
    OBVIOUS
  <2>1. Live = {}
    BY DEF Init, Live, Unused
  <2>2. NoLoops /\ WaitsOnLive
    BY <2>1 DEF NoLoops, Endless, WaitsOnLive
  <2>3. \A e \in Editors : ReadHolds(editor[e])
    BY DEF Init, EditorIdle, ReadHolds, Names
  <2> QED BY <2>2, <2>3, InvInit DEF AloneInv
<1>2. AloneInv => NoLoops /\ WaitsOnLive
  BY DEF AloneInv
<1> QED BY <1>1, <1>2, AloneStep, PTL DEF Spec
=============================================================================
