-------------------------------- MODULE Sums --------------------------------
(***************************************************************************)
(* What a sum over a table returns, for any finite table: an integer,      *)
(* whatever the order of the rows, that grows by a row's figure when the   *)
(* row is added and is linear in the figures.                              *)
(*                                                                         *)
(* SumFunctionOnSet is a fold: it picks a row, adds its figure and goes on *)
(* with the rest.  Each fact is proved of a smallest set of rows that      *)
(* would deny it (SmallestSubset), which stands for induction on the set.  *)
(***************************************************************************)
EXTENDS Integers, FiniteSets, Functions, FiniteSetTheorems, WellFoundedInduction, TLAPS

\* The row a fold takes next, and the equation its value at every subset satisfies.
Pick(s) == CHOOSE x \in s : TRUE
IsFold(f, D, sum) ==
  sum = [s \in SUBSET D |-> IF s = {} THEN 0 ELSE f[Pick(s)] + sum[s \ {Pick(s)}]]
Fold(f, D) == CHOOSE sum : IsFold(f, D, sum)

\* A family of subsets of a finite set, unless empty, has a smallest member.
LEMMA SmallestSubset ==
  ASSUME NEW D, IsFiniteSet(D), NEW Bad \in SUBSET SUBSET D, Bad # {}
  PROVE  \E A \in Bad : \A B \in SUBSET A : B # A => B \notin Bad
<1>1. IsWellFoundedOn(StrictSubsetOrdering(D), SUBSET D)
  BY FS_StrictSubsetOrderingWellFounded, FS_FiniteSubsetsOfFinite
<1>2. PICK A \in Bad : \A B \in Bad : ~ (<<B, A>> \in StrictSubsetOrdering(D))
  BY <1>1, WFMin
<1>3. ASSUME NEW B \in SUBSET A, B # A, B \in Bad PROVE FALSE
  BY <1>2, <1>3 DEF StrictSubsetOrdering
<1> QED BY <1>3

LEMMA PickIn == \A s : s # {} => Pick(s) \in s
BY DEF Pick

LEMMA FoldAt ==
  ASSUME NEW f, NEW D, NEW sum, IsFold(f, D, sum)
  PROVE  \A s \in SUBSET D : sum[s] = IF s = {} THEN 0 ELSE f[Pick(s)] + sum[s \ {Pick(s)}]
BY DEF IsFold

\* Two folds agree wherever their figures do.
LEMMA FoldsAgree ==
  ASSUME NEW f, NEW g, NEW A, NEW B, NEW sum, NEW tally, IsFiniteSet(A),
         IsFold(f, A, sum), IsFold(g, B, tally),
         \A x \in A \cap B : f[x] = g[x]
  PROVE  \A s \in SUBSET (A \cap B) : sum[s] = tally[s]
<1> DEFINE Bad == {s \in SUBSET (A \cap B) : sum[s] # tally[s]}
<1> SUFFICES ASSUME Bad # {} PROVE FALSE
  OBVIOUS
<1>1. PICK s \in Bad : \A r \in SUBSET s : r # s => r \notin Bad
  <2>1. Bad \in SUBSET SUBSET A
    OBVIOUS
  <2> HIDE DEF Bad
  <2> QED BY <2>1, SmallestSubset
<1>2. s \in SUBSET A /\ s \in SUBSET B /\ sum[s] # tally[s]
  OBVIOUS
<1>3. \A r \in SUBSET A : sum[r] = IF r = {} THEN 0 ELSE f[Pick(r)] + sum[r \ {Pick(r)}]
  BY FoldAt
<1>4. \A r \in SUBSET B : tally[r] = IF r = {} THEN 0 ELSE g[Pick(r)] + tally[r \ {Pick(r)}]
  BY FoldAt
<1>5. s # {}
  BY <1>2, <1>3, <1>4
<1>6. Pick(s) \in s /\ f[Pick(s)] = g[Pick(s)]
  BY <1>2, <1>5, PickIn
<1>7. sum[s \ {Pick(s)}] = tally[s \ {Pick(s)}]
  BY <1>1, <1>2, <1>6
<1> QED BY <1>2, <1>3, <1>4, <1>5, <1>6, <1>7

LEMMA FoldExists ==
  ASSUME NEW f, NEW D, IsFiniteSet(D)
  PROVE  IsFold(f, D, Fold(f, D))
<1> DEFINE Bad == {A \in SUBSET D : ~ \E sum : IsFold(f, A, sum)}
<1>1. Bad = {}
  <2> SUFFICES ASSUME Bad # {} PROVE FALSE
    OBVIOUS
  <2>1. PICK A \in Bad : \A B \in SUBSET A : B # A => B \notin Bad
    <3>1. Bad \in SUBSET SUBSET D
      OBVIOUS
    <3> HIDE DEF Bad
    <3> QED BY <3>1, SmallestSubset
  <2>2. A \in SUBSET D /\ IsFiniteSet(A)
    BY FS_Subset
  <2>3. ASSUME NEW B \in SUBSET A, B # A
        PROVE  IsFold(f, B, Fold(f, B)) /\ IsFiniteSet(B)
    <3>1. \E sum : IsFold(f, B, sum)
      BY <2>1, <2>2, <2>3
    <3> QED BY <2>2, <3>1, FS_Subset DEF Fold
  <2>4. PICK sum : sum = [s \in SUBSET A |->
          IF s = {} THEN 0 ELSE f[Pick(s)] + Fold(f, s \ {Pick(s)})[s \ {Pick(s)}]]
    OBVIOUS
  <2>5. ASSUME NEW s \in SUBSET A, s # A PROVE sum[s] = Fold(f, s)[s]
    <3>1. IsFold(f, s, Fold(f, s)) /\ IsFiniteSet(s)
      BY <2>3, <2>5
    <3>2. CASE s = {}
      BY <2>4, <3>1, <3>2, FoldAt
    <3>3. CASE s # {}
      <4>1. PICK r : r = s \ {Pick(s)}
        OBVIOUS
      <4>2. r \in SUBSET s /\ r \in SUBSET A /\ r # A
        BY <2>5, <4>1
      <4>3. IsFold(f, r, Fold(f, r))
        BY <2>3, <4>2
      <4>4. \A t \in SUBSET (s \cap r) : Fold(f, s)[t] = Fold(f, r)[t]
        BY <3>1, <4>3, FoldsAgree
      <4>5. Fold(f, s)[r] = Fold(f, r)[r]
        BY <4>2, <4>4
      <4>6. Fold(f, s)[s] = f[Pick(s)] + Fold(f, s)[r]
        BY <3>1, <3>3, <4>1, FoldAt
      <4>7. sum[s] = f[Pick(s)] + Fold(f, r)[r]
        BY <2>4, <3>3, <4>1
      <4> QED BY <4>5, <4>6, <4>7
    <3> QED BY <3>2, <3>3
  <2>6. \A s \in SUBSET A : s # {} => sum[s \ {Pick(s)}] = Fold(f, s \ {Pick(s)})[s \ {Pick(s)}]
    <3> SUFFICES ASSUME NEW s \in SUBSET A, s # {}
                 PROVE  sum[s \ {Pick(s)}] = Fold(f, s \ {Pick(s)})[s \ {Pick(s)}]
      OBVIOUS
    <3>1. Pick(s) \in s
      BY PickIn
    <3> QED BY <2>5, <3>1
  <2>7. IsFold(f, A, sum)
    BY <2>4, <2>6 DEF IsFold
  <2> QED BY <2>1, <2>7
<1>2. \E sum : IsFold(f, D, sum)
  BY <1>1
<1> QED BY <1>2 DEF Fold

LEMMA SumIsFold ==
  ASSUME NEW f, NEW D
  PROVE  SumFunctionOnSet(f, D) = Fold(f, D)[D]
BY DEF SumFunctionOnSet, FoldFunctionOnSet, MapThenFoldSet, Fold, IsFold, Pick

-----------------------------------------------------------------------------
\* The sum of a set of rows.

LEMMA SumEmpty == \A f : SumFunctionOnSet(f, {}) = 0
<1> SUFFICES ASSUME NEW f PROVE SumFunctionOnSet(f, {}) = 0
  OBVIOUS
<1>1. IsFold(f, {}, Fold(f, {}))
  BY FoldExists, FS_EmptySet
<1>2. Fold(f, {})[{}] = 0
  BY <1>1, FoldAt
<1> QED BY <1>2, SumIsFold

LEMMA SumPick ==
  ASSUME NEW f, NEW D, IsFiniteSet(D), D # {}
  PROVE  SumFunctionOnSet(f, D) = f[Pick(D)] + SumFunctionOnSet(f, D \ {Pick(D)})
<1>1. PICK A : A = D \ {Pick(D)}
  OBVIOUS
<1>2. A \in SUBSET D /\ IsFiniteSet(A)
  BY <1>1, FS_Subset
<1>3. IsFold(f, D, Fold(f, D)) /\ IsFold(f, A, Fold(f, A))
  BY <1>2, FoldExists
<1>4. \A s \in SUBSET (A \cap D) : Fold(f, A)[s] = Fold(f, D)[s]
  BY <1>2, <1>3, FoldsAgree
<1>5. Fold(f, D)[D] = f[Pick(D)] + Fold(f, D)[A]
  BY <1>1, <1>3, FoldAt
<1> QED BY <1>1, <1>2, <1>4, <1>5, SumIsFold

\* Only the figures of the rows summed matter.
LEMMA SumSame ==
  ASSUME NEW f, NEW g, NEW D, IsFiniteSet(D), \A x \in D : f[x] = g[x]
  PROVE  SumFunctionOnSet(f, D) = SumFunctionOnSet(g, D)
<1>1. IsFold(f, D, Fold(f, D)) /\ IsFold(g, D, Fold(g, D))
  BY FoldExists
<1>2. \A s \in SUBSET (D \cap D) : Fold(f, D)[s] = Fold(g, D)[s]
  BY <1>1, FoldsAgree
<1> QED BY <1>2, SumIsFold

\* Whole cents sum to whole cents.
LEMMA SumIsInt ==
  ASSUME NEW f, NEW D, IsFiniteSet(D), \A x \in D : f[x] \in Int
  PROVE  SumFunctionOnSet(f, D) \in Int
<1> DEFINE Bad == {s \in SUBSET D : SumFunctionOnSet(f, s) \notin Int}
<1> SUFFICES ASSUME Bad # {} PROVE FALSE
  OBVIOUS
<1>1. PICK s \in Bad : \A r \in SUBSET s : r # s => r \notin Bad
  <2>1. Bad \in SUBSET SUBSET D
    OBVIOUS
  <2> HIDE DEF Bad
  <2> QED BY <2>1, SmallestSubset
<1>2. s \in SUBSET D /\ SumFunctionOnSet(f, s) \notin Int /\ IsFiniteSet(s)
  BY FS_Subset
<1>3. s # {}
  <2>1. SumFunctionOnSet(f, {}) = 0
    BY SumEmpty
  <2> QED BY <1>2, <2>1
<1>4. Pick(s) \in s
  BY <1>3, PickIn
<1>5. SumFunctionOnSet(f, s \ {Pick(s)}) \in Int
  BY <1>1, <1>2, <1>4
<1>6. SumFunctionOnSet(f, s) = f[Pick(s)] + SumFunctionOnSet(f, s \ {Pick(s)})
  BY <1>2, <1>3, SumPick
<1> QED BY <1>2, <1>4, <1>5, <1>6

\* What is nowhere negative sums to no negative.
LEMMA SumIsNat ==
  ASSUME NEW f, NEW D, IsFiniteSet(D), \A x \in D : f[x] \in Nat
  PROVE  SumFunctionOnSet(f, D) \in Nat
<1> DEFINE Bad == {s \in SUBSET D : SumFunctionOnSet(f, s) \notin Nat}
<1> SUFFICES ASSUME Bad # {} PROVE FALSE
  OBVIOUS
<1>1. PICK s \in Bad : \A r \in SUBSET s : r # s => r \notin Bad
  <2>1. Bad \in SUBSET SUBSET D
    OBVIOUS
  <2> HIDE DEF Bad
  <2> QED BY <2>1, SmallestSubset
<1>2. s \in SUBSET D /\ SumFunctionOnSet(f, s) \notin Nat /\ IsFiniteSet(s)
  BY FS_Subset
<1>3. s # {}
  <2>1. SumFunctionOnSet(f, {}) = 0
    BY SumEmpty
  <2> QED BY <1>2, <2>1
<1>4. Pick(s) \in s
  BY <1>3, PickIn
<1>5. SumFunctionOnSet(f, s \ {Pick(s)}) \in Nat
  BY <1>1, <1>2, <1>4
<1>6. SumFunctionOnSet(f, s) = f[Pick(s)] + SumFunctionOnSet(f, s \ {Pick(s)})
  BY <1>2, <1>3, SumPick
<1> QED BY <1>2, <1>4, <1>5, <1>6

\* Two columns added row by row sum to the two sums added.
LEMMA SumLinear ==
  ASSUME NEW f, NEW g, NEW h, NEW D, IsFiniteSet(D),
         \A x \in D : g[x] \in Int /\ h[x] \in Int /\ f[x] = g[x] + h[x]
  PROVE  SumFunctionOnSet(f, D) = SumFunctionOnSet(g, D) + SumFunctionOnSet(h, D)
<1> DEFINE Bad == {s \in SUBSET D :
             SumFunctionOnSet(f, s) # SumFunctionOnSet(g, s) + SumFunctionOnSet(h, s)}
<1> SUFFICES ASSUME Bad # {} PROVE FALSE
  OBVIOUS
<1>1. PICK s \in Bad : \A r \in SUBSET s : r # s => r \notin Bad
  <2>1. Bad \in SUBSET SUBSET D
    OBVIOUS
  <2> HIDE DEF Bad
  <2> QED BY <2>1, SmallestSubset
<1>2. /\ s \in SUBSET D /\ IsFiniteSet(s)
      /\ SumFunctionOnSet(f, s) # SumFunctionOnSet(g, s) + SumFunctionOnSet(h, s)
  BY FS_Subset
<1>3. s # {}
  <2>1. /\ SumFunctionOnSet(f, {}) = 0 /\ SumFunctionOnSet(g, {}) = 0
        /\ SumFunctionOnSet(h, {}) = 0
    BY SumEmpty
  <2>2. SumFunctionOnSet(f, {}) = SumFunctionOnSet(g, {}) + SumFunctionOnSet(h, {})
    BY <2>1
  <2> QED BY <1>2, <2>2
<1>4. PICK p, r : p = Pick(s) /\ r = s \ {Pick(s)}
  OBVIOUS
<1>5. p \in s /\ p \in D /\ r \in SUBSET s /\ r # s /\ r \in SUBSET D
  BY <1>2, <1>3, <1>4, PickIn
<1>6. SumFunctionOnSet(f, r) = SumFunctionOnSet(g, r) + SumFunctionOnSet(h, r)
  BY <1>1, <1>5
<1>7. SumFunctionOnSet(g, r) \in Int /\ SumFunctionOnSet(h, r) \in Int
  BY <1>2, <1>5, SumIsInt, FS_Subset
<1>8. /\ SumFunctionOnSet(f, s) = f[p] + SumFunctionOnSet(f, r)
      /\ SumFunctionOnSet(g, s) = g[p] + SumFunctionOnSet(g, r)
      /\ SumFunctionOnSet(h, s) = h[p] + SumFunctionOnSet(h, r)
  BY <1>2, <1>3, <1>4, SumPick
<1>9. g[p] \in Int /\ h[p] \in Int /\ f[p] = g[p] + h[p]
  BY <1>5
<1> QED BY <1>2, <1>6, <1>7, <1>8, <1>9

\* Any row may be taken first.
LEMMA SumTake ==
  ASSUME NEW f, NEW D, IsFiniteSet(D), \A x \in D : f[x] \in Int, NEW y \in D
  PROVE  SumFunctionOnSet(f, D) = f[y] + SumFunctionOnSet(f, D \ {y})
<1> DEFINE Bad == {s \in SUBSET D : \E x \in s :
             SumFunctionOnSet(f, s) # f[x] + SumFunctionOnSet(f, s \ {x})}
<1> SUFFICES ASSUME Bad # {} PROVE FALSE
  OBVIOUS
<1>1. PICK s \in Bad : \A r \in SUBSET s : r # s => r \notin Bad
  <2>1. Bad \in SUBSET SUBSET D
    OBVIOUS
  <2> HIDE DEF Bad
  <2> QED BY <2>1, SmallestSubset
<1>2. s \in SUBSET D /\ IsFiniteSet(s)
  BY FS_Subset
<1>3. PICK x \in s : SumFunctionOnSet(f, s) # f[x] + SumFunctionOnSet(f, s \ {x})
  OBVIOUS
<1>4. PICK p : p = Pick(s)
  OBVIOUS
<1>5. p \in s /\ SumFunctionOnSet(f, s) = f[p] + SumFunctionOnSet(f, s \ {p})
  BY <1>2, <1>3, <1>4, PickIn, SumPick
<1>6. p # x
  BY <1>3, <1>5
<1>7. PICK q, r, t : q = s \ {p} /\ r = s \ {x} /\ t = (s \ {p}) \ {x}
  OBVIOUS
<1>8. /\ q \in SUBSET s /\ q # s /\ x \in q /\ t = q \ {x}
      /\ r \in SUBSET s /\ r # s /\ p \in r /\ t = r \ {p}
  BY <1>5, <1>6, <1>7
<1>9. q \notin Bad /\ r \notin Bad /\ q \in SUBSET D /\ r \in SUBSET D
  BY <1>1, <1>2, <1>8
<1>10. SumFunctionOnSet(f, q) = f[x] + SumFunctionOnSet(f, t)
  BY <1>8, <1>9
<1>11. SumFunctionOnSet(f, r) = f[p] + SumFunctionOnSet(f, t)
  BY <1>8, <1>9
<1>12. f[x] \in Int /\ f[p] \in Int
  BY <1>2, <1>5
<1>13. SumFunctionOnSet(f, t) \in Int
  <2>1. t \in SUBSET D /\ IsFiniteSet(t)
    BY <1>2, <1>7, FS_Subset
  <2> QED BY <2>1, SumIsInt
<1> QED BY <1>3, <1>5, <1>7, <1>10, <1>11, <1>12, <1>13

\* A row joins, or leaves, with its figure.
LEMMA SumAdded ==
  ASSUME NEW f, NEW D, IsFiniteSet(D), NEW y, y \notin D, \A x \in D \cup {y} : f[x] \in Int
  PROVE  SumFunctionOnSet(f, D \cup {y}) = f[y] + SumFunctionOnSet(f, D)
<1>1. PICK E : E = D \cup {y}
  OBVIOUS
<1>2. IsFiniteSet(E)
  BY <1>1, FS_AddElement
<1>3. y \in E /\ E \ {y} = D
  BY <1>1
<1>4. SumFunctionOnSet(f, E) = f[y] + SumFunctionOnSet(f, E \ {y})
  BY <1>1, <1>2, <1>3, SumTake
<1> QED BY <1>1, <1>3, <1>4

\* A sum of one row is its figure.
LEMMA SumOfOne ==
  ASSUME NEW f, NEW y, f[y] \in Int
  PROVE  SumFunctionOnSet(f, {y}) = f[y]
<1>1. IsFiniteSet({y}) /\ {y} \ {y} = {}
  BY FS_Singleton
<1>2. SumFunctionOnSet(f, {y}) = f[y] + SumFunctionOnSet(f, {})
  BY <1>1, SumTake
<1>3. SumFunctionOnSet(f, {}) = 0
  BY SumEmpty
<1> QED BY <1>2, <1>3

\* Rows of nothing may be left out.
LEMMA SumOfPart ==
  ASSUME NEW f, NEW D, IsFiniteSet(D), NEW S \in SUBSET D,
         \A x \in D : f[x] \in Int, \A x \in D \ S : f[x] = 0
  PROVE  SumFunctionOnSet(f, D) = SumFunctionOnSet(f, S)
<1> DEFINE Bad == {s \in SUBSET D :
             S \subseteq s /\ SumFunctionOnSet(f, s) # SumFunctionOnSet(f, S)}
<1> SUFFICES ASSUME Bad # {} PROVE FALSE
  OBVIOUS
<1>1. PICK s \in Bad : \A r \in SUBSET s : r # s => r \notin Bad
  <2>1. Bad \in SUBSET SUBSET D
    OBVIOUS
  <2> HIDE DEF Bad
  <2> QED BY <2>1, SmallestSubset
<1>2. /\ s \in SUBSET D /\ IsFiniteSet(s) /\ S \subseteq s
      /\ SumFunctionOnSet(f, s) # SumFunctionOnSet(f, S)
  BY FS_Subset
<1>3. PICK y \in s : y \notin S
  BY <1>2
<1>4. PICK r : r = s \ {y}
  OBVIOUS
<1>5. SumFunctionOnSet(f, r) = SumFunctionOnSet(f, S)
  BY <1>1, <1>2, <1>3, <1>4
<1>6. SumFunctionOnSet(f, s) = f[y] + SumFunctionOnSet(f, r)
  BY <1>2, <1>4, SumTake
<1>7. SumFunctionOnSet(f, r) \in Int
  <2>1. IsFiniteSet(r) /\ \A x \in r : f[x] \in Int
    BY <1>2, <1>4, FS_Subset
  <2> QED BY <2>1, SumIsInt
<1>8. f[y] = 0
  BY <1>2, <1>3
<1> QED BY <1>2, <1>5, <1>6, <1>7, <1>8

\* A sum over the things a table's rows stand for, each for one row, is the sum
\* over the rows.
LEMMA SumAlong ==
  ASSUME NEW g, NEW D, IsFiniteSet(D), \A x \in D : g[x] \in Int,
         NEW f, NEW h, \A x \in D : f[h[x]] = g[x],
         \A x, y \in D : h[x] = h[y] => x = y
  PROVE  SumFunctionOnSet(f, {h[x] : x \in D}) = SumFunctionOnSet(g, D)
<1> DEFINE Image(s) == {h[x] : x \in s}
<1> DEFINE Bad == {s \in SUBSET D : SumFunctionOnSet(f, Image(s)) # SumFunctionOnSet(g, s)}
<1> SUFFICES ASSUME Bad # {} PROVE FALSE
  OBVIOUS
<1>1. PICK s \in Bad : \A r \in SUBSET s : r # s => r \notin Bad
  <2>1. Bad \in SUBSET SUBSET D
    OBVIOUS
  <2> HIDE DEF Bad
  <2> QED BY <2>1, SmallestSubset
<1>2. s \in SUBSET D /\ IsFiniteSet(s)
  BY FS_Subset
<1>3. s # {}
  <2>1. Image({}) = {}
    OBVIOUS
  <2> QED BY <2>1, SumEmpty, <1>1
<1>4. PICK y \in s : TRUE
  BY <1>3
<1>5. PICK r : r = s \ {y}
  OBVIOUS
<1>6. r \in SUBSET s /\ r # s /\ r \in SUBSET D /\ y \in D
  BY <1>2, <1>4, <1>5
<1>7. SumFunctionOnSet(f, Image(r)) = SumFunctionOnSet(g, r)
  BY <1>1, <1>6
<1>8. SumFunctionOnSet(g, s) = g[y] + SumFunctionOnSet(g, r)
  BY <1>2, <1>4, <1>5, SumTake
<1>9. PICK image : image = Image(r)
  OBVIOUS
<1>10. Image(s) = image \cup {h[y]} /\ h[y] \notin image
  BY <1>4, <1>5, <1>6, <1>9
<1>11. IsFiniteSet(image)
  <2>1. IsFiniteSet(r)
    BY <1>2, <1>6, FS_Subset
  <2>2. PICK j : j = [x \in r |-> h[x]]
    OBVIOUS
  <2>3. j \in Surjection(r, image)
    BY <2>2, <1>9 DEF Surjection
  <2> QED BY <2>1, <2>3, FS_Surjection
<1>12. \A z \in image \cup {h[y]} : f[z] \in Int
  BY <1>6, <1>9
<1>13. SumFunctionOnSet(f, image \cup {h[y]}) = f[h[y]] + SumFunctionOnSet(f, image)
  BY <1>10, <1>11, <1>12, SumAdded
<1>14. f[h[y]] = g[y]
  BY <1>6
<1> QED BY <1>1, <1>7, <1>8, <1>9, <1>10, <1>13, <1>14
=============================================================================
