----------------------------- MODULE DataLemmas -----------------------------
(***************************************************************************)
(* Facts about finite sets, sums, ranks, places and folds, for the proofs  *)
(* of all components.  The community modules define sums and folds by      *)
(* recursion over the subsets of a finite set.  Induction is by minimal    *)
(* counterexample, a subset all of whose parts are no counterexamples.     *)
(***************************************************************************)
EXTENDS Ordering, Sequences, SequencesExt, FiniteSetsExt, FiniteSetTheorems, WellFoundedInduction, TLAPS

\* The element with which the recursion begins.
First(s) == CHOOSE x \in s : TRUE

\* A function that adds up w over each set of a family as the recursion says.
Adds(g, w, family) ==
  g = [s \in family |-> IF s = {} THEN 0 ELSE w[First(s)] + g[s \ {First(s)}]]

LEMMA MinimalSubset ==
  ASSUME NEW S, IsFiniteSet(S), NEW Bad \in SUBSET SUBSET S, Bad # {}
  PROVE  \E s \in Bad : \A r \in SUBSET s : r # s => r \notin Bad
<1>1. IsWellFoundedOn(StrictSubsetOrdering(S), FiniteSubsetsOf(S)) /\ Bad \subseteq FiniteSubsetsOf(S)
  BY FS_StrictSubsetOrderingWellFounded, FS_FiniteSubsetsOfFinite
<1>2. PICK s \in Bad : \A r \in Bad : ~(<<r, s>> \in StrictSubsetOrdering(S))
  BY <1>1, WFMin
<1> QED BY <1>2 DEF StrictSubsetOrdering

LEMMA LeastNatural ==
  ASSUME NEW T \in SUBSET Nat, T # {}
  PROVE  \E n \in T : \A m \in T : n <= m
<1>1. PICK k \in T : TRUE
  OBVIOUS
<1> DEFINE Bad == {1..n : n \in {n \in T : n <= k}}
<1>2. IsFiniteSet(1..k) /\ Bad \in SUBSET SUBSET (1..k) /\ Bad # {}
  <2>1. IsFiniteSet(1..k)
    BY FS_Interval
  <2>2. 1..k \in Bad /\ \A n \in T : n <= k => 1..n \subseteq 1..k
    OBVIOUS
  <2> QED BY <2>1, <2>2
<1>3. PICK s \in Bad : \A r \in SUBSET s : r # s => r \notin Bad
  <2> HIDE DEF Bad
  <2> QED BY <1>2, MinimalSubset, ZenonT(60)
<1>4. PICK n \in T : n <= k /\ s = 1..n
  OBVIOUS
<1>5. ASSUME NEW m \in T, m < n PROVE FALSE
  <2>1. 1..m \in SUBSET s /\ 1..m \in Bad
    BY <1>4, <1>5
  <2>2. n \in 1..n /\ n \notin 1..m
    BY <1>5
  <2> QED BY <1>3, <1>4, <2>1, <2>2
<1> QED BY <1>4, <1>5

\* The subsets of a set with at most k elements.
UpTo(S, k) == {s \in SUBSET S : Cardinality(s) <= k}

LEMMA FirstIsMember == \A s : s # {} => First(s) \in s
BY DEF First

LEMMA Smaller ==
  ASSUME NEW S, IsFiniteSet(S), NEW s \in SUBSET S, s # {}
  PROVE  /\ IsFiniteSet(s) /\ Cardinality(s) \in Nat
         /\ Cardinality(s \ {First(s)}) = Cardinality(s) - 1
         /\ s \ {First(s)} \in SUBSET S
<1>1. IsFiniteSet(s) /\ First(s) \in s
  BY FS_Subset, FirstIsMember
<1> QED BY <1>1, FS_RemoveElement, FS_CardinalityType

LEMMA AddsOneMore ==
  ASSUME NEW S, IsFiniteSet(S), NEW w, NEW k \in Nat, NEW g, Adds(g, w, UpTo(S, k))
  PROVE  \E h : Adds(h, w, UpTo(S, k + 1))
<1> DEFINE h == [s \in UpTo(S, k + 1) |-> IF s = {} THEN 0 ELSE w[First(s)] + g[s \ {First(s)}]]
<1>1. ASSUME NEW s \in UpTo(S, k + 1), s # {}
      PROVE  h[s \ {First(s)}] = g[s \ {First(s)}]
  <2> DEFINE r == s \ {First(s)}
  <2>1. r \in UpTo(S, k) /\ r \in UpTo(S, k + 1)
    <3>1. s \in SUBSET S /\ Cardinality(s) <= k + 1
      BY DEF UpTo
    <3>2. Cardinality(s) \in Nat /\ Cardinality(r) = Cardinality(s) - 1 /\ r \in SUBSET S
      BY <1>1, <3>1, Smaller
    <3> HIDE DEF r
    <3>3. Cardinality(r) <= k /\ Cardinality(r) <= k + 1
      BY <3>1, <3>2
    <3> QED BY <3>2, <3>3 DEF UpTo
  <2>2. g[r] = IF r = {} THEN 0 ELSE w[First(r)] + g[r \ {First(r)}]
    BY <2>1 DEF Adds
  <2>3. h[r] = IF r = {} THEN 0 ELSE w[First(r)] + g[r \ {First(r)}]
    BY <2>1
  <2> QED BY <2>2, <2>3
<1>2. h = [s \in UpTo(S, k + 1) |-> IF s = {} THEN 0 ELSE w[First(s)] + h[s \ {First(s)}]]
  <2> DEFINE hh == [s \in UpTo(S, k + 1) |-> IF s = {} THEN 0 ELSE w[First(s)] + h[s \ {First(s)}]]
  <2>1. \A s \in UpTo(S, k + 1) : h[s] = hh[s]
    BY <1>1
  <2> QED BY <2>1
<1> QED BY <1>2 DEF Adds

LEMMA AddsExists ==
  ASSUME NEW S, IsFiniteSet(S), NEW w
  PROVE  \E g : Adds(g, w, SUBSET S)
<1> DEFINE Bad == {k \in Nat : ~ \E g : Adds(g, w, UpTo(S, k))}
<1>1. 0 \notin Bad
  <2> DEFINE g == [s \in UpTo(S, 0) |-> 0]
  <2>1. \A s \in UpTo(S, 0) : s = {}
    BY FS_Subset, FS_EmptySet, FS_CardinalityType DEF UpTo
  <2>2. g = [s \in UpTo(S, 0) |-> IF s = {} THEN 0 ELSE w[First(s)] + g[s \ {First(s)}]]
    BY <2>1
  <2> QED BY <2>2 DEF Adds
<1>2. Bad = {}
  <2>1. SUFFICES ASSUME Bad # {} PROVE FALSE
    OBVIOUS
  <2>2. PICK n \in Bad : \A m \in Bad : n <= m
    BY <2>1, LeastNatural
  <2>3. n \in Nat /\ n # 0 /\ n - 1 \in Nat /\ n - 1 \notin Bad
    BY <1>1, <2>2
  <2>4. PICK g : Adds(g, w, UpTo(S, n - 1))
    BY <2>3
  <2>5. \E h : Adds(h, w, UpTo(S, (n - 1) + 1))
    BY <2>3, <2>4, AddsOneMore
  <2> QED BY <2>2, <2>3, <2>5
<1>3. Cardinality(S) \in Nat /\ UpTo(S, Cardinality(S)) = SUBSET S
  BY FS_CardinalityType, FS_Subset DEF UpTo
<1>4. Cardinality(S) \notin Bad
  BY <1>2
<1> QED BY <1>3, <1>4

\* Two functions that add up w agree wherever both are defined.
LEMMA AddsAgree ==
  ASSUME NEW S, IsFiniteSet(S), NEW R \in SUBSET S, NEW w, NEW g, NEW h,
         Adds(g, w, SUBSET S), Adds(h, w, SUBSET R)
  PROVE  g[R] = h[R]
<1> DEFINE Bad == {s \in SUBSET R : g[s] # h[s]}
<1>1. SUFFICES ASSUME Bad # {} PROVE FALSE
  <2>1. R \in SUBSET R
    OBVIOUS
  <2> QED BY <2>1
<1>2. IsFiniteSet(R)
  BY FS_Subset
<1>3. PICK s \in Bad : \A r \in SUBSET s : r # s => r \notin Bad
  <2>1. Bad \in SUBSET SUBSET R
    OBVIOUS
  <2> HIDE DEF Bad
  <2> QED BY <1>1, <1>2, <2>1, MinimalSubset
<1>4. /\ g[s] = IF s = {} THEN 0 ELSE w[First(s)] + g[s \ {First(s)}]
      /\ h[s] = IF s = {} THEN 0 ELSE w[First(s)] + h[s \ {First(s)}]
  BY <1>3 DEF Adds
<1>5. CASE s = {}
  BY <1>3, <1>4, <1>5
<1>6. CASE s # {}
  <2>1. First(s) \in s
    BY <1>6, FirstIsMember
  <2>2. g[s \ {First(s)}] = h[s \ {First(s)}]
    BY <1>3, <2>1
  <2> QED BY <1>3, <1>4, <1>6, <2>2
<1> QED BY <1>5, <1>6

LEMMA SumIsAdded ==
  ASSUME NEW S, IsFiniteSet(S), NEW w
  PROVE  \E g : Adds(g, w, SUBSET S) /\ SumFunctionOnSet(w, S) = g[S]
<1> DEFINE g == CHOOSE iter : iter = [s \in SUBSET S |-> IF s = {} THEN 0 ELSE w[First(s)] + iter[s \ {First(s)}]]
<1>1. SumFunctionOnSet(w, S) = g[S]
  BY DEF SumFunctionOnSet, FoldFunctionOnSet, MapThenFoldSet, First
<1>2. Adds(g, w, SUBSET S)
  <2>1. \E iter : iter = [s \in SUBSET S |-> IF s = {} THEN 0 ELSE w[First(s)] + iter[s \ {First(s)}]]
    <3>1. \E iter : Adds(iter, w, SUBSET S)
      BY AddsExists
    <3> QED BY <3>1 DEF Adds
  <2>2. g = [s \in SUBSET S |-> IF s = {} THEN 0 ELSE w[First(s)] + g[s \ {First(s)}]]
    BY <2>1
  <2> QED BY <2>2 DEF Adds
<1> QED BY <1>1, <1>2

(* The recursion itself. *)
LEMMA SumUnfolded ==
  ASSUME NEW S, IsFiniteSet(S), NEW w
  PROVE  /\ SumFunctionOnSet(w, {}) = 0
         /\ S # {} => SumFunctionOnSet(w, S) = w[First(S)] + SumFunctionOnSet(w, S \ {First(S)})
<1>1. SumFunctionOnSet(w, {}) = 0
  BY SumIsAdded, FS_EmptySet DEF Adds
<1>2. ASSUME S # {} PROVE SumFunctionOnSet(w, S) = w[First(S)] + SumFunctionOnSet(w, S \ {First(S)})
  <2>0. PICK R : R = S \ {First(S)}
    OBVIOUS
  <2>1. IsFiniteSet(R) /\ R \in SUBSET S
    BY <2>0, FS_Subset
  <2>2. PICK g : Adds(g, w, SUBSET S) /\ SumFunctionOnSet(w, S) = g[S]
    BY SumIsAdded
  <2>3. PICK h : Adds(h, w, SUBSET R) /\ SumFunctionOnSet(w, R) = h[R]
    BY <2>1, SumIsAdded
  <2>4. g[R] = h[R]
    BY <2>1, <2>2, <2>3, AddsAgree
  <2>5. g[S] = w[First(S)] + g[R]
    BY <1>2, <2>0, <2>2 DEF Adds
  <2> QED BY <2>0, <2>2, <2>3, <2>4, <2>5
<1> QED BY <1>1, <1>2

-----------------------------------------------------------------------------
(* Any element may be taken first: the order of the recursion is immaterial. *)
LEMMA SumWithout ==
  ASSUME NEW S, IsFiniteSet(S), NEW w, \A y \in S : w[y] \in Int
  PROVE  /\ SumFunctionOnSet(w, S) \in Int
         /\ \A y \in S : SumFunctionOnSet(w, S) = w[y] + SumFunctionOnSet(w, S \ {y})
<1> DEFINE Sum(s) == SumFunctionOnSet(w, s)
           Good(s) == Sum(s) \in Int /\ \A y \in s : Sum(s) = w[y] + Sum(s \ {y})
           Bad == {s \in SUBSET S : ~Good(s)}
<1>1. SUFFICES ASSUME Bad # {} PROVE FALSE
  <2>1. S \in SUBSET S
    OBVIOUS
  <2> QED BY <2>1
<1>2. PICK s \in Bad : \A r \in SUBSET s : r # s => r \notin Bad
  <2>1. Bad \in SUBSET SUBSET S
    OBVIOUS
  <2> HIDE DEF Bad
  <2> QED BY <1>1, <2>1, MinimalSubset
<1>3. s \in SUBSET S /\ ~Good(s) /\ \A r \in SUBSET s : r # s => Good(r)
  BY <1>2
<1>4. IsFiniteSet(s)
  BY <1>3, FS_Subset
<1> HIDE DEF Bad
<1>5. Sum({}) = 0 /\ (s # {} => Sum(s) = w[First(s)] + Sum(s \ {First(s)}))
  BY <1>4, SumUnfolded
<1>6. s # {}
  <2>1. Good({})
    BY <1>5
  <2> QED BY <1>3, <2>1
<1> DEFINE f == First(s)
<1>7. f \in s /\ f \in S /\ w[f] \in Int
  BY <1>3, <1>6, FirstIsMember
<1> HIDE DEF f
<1>8. Sum(s) = w[f] + Sum(s \ {f})
  BY <1>5, <1>6 DEF f
<1>9. Good(s \ {f})
  BY <1>3, <1>7
<1>10. ASSUME NEW y \in s, y # f
       PROVE  Sum(s) = w[y] + Sum(s \ {y})
  <2>1. Good(s \ {y}) /\ Good(s \ {y, f})
    BY <1>3
  <2>2. (s \ {y}) \ {f} = s \ {y, f} /\ (s \ {f}) \ {y} = s \ {y, f} /\ f \in s \ {y} /\ y \in s \ {f}
    BY <1>7, <1>10
  <2>3. Sum(s \ {y}) = w[f] + Sum(s \ {y, f})
    <3>1. Sum(s \ {y}) = w[f] + Sum((s \ {y}) \ {f})
      BY <2>1, <2>2
    <3> QED BY <2>2, <3>1
  <2>4. Sum(s \ {f}) = w[y] + Sum(s \ {y, f})
    <3>1. Sum(s \ {f}) = w[y] + Sum((s \ {f}) \ {y})
      BY <1>9, <2>2
    <3> QED BY <2>2, <3>1
  <2>5. w[y] \in Int /\ Sum(s \ {y, f}) \in Int
    BY <1>3, <2>1
  <2> HIDE DEF Sum
  <2> QED BY <1>7, <1>8, <2>3, <2>4, <2>5
<1>11. Sum(s) \in Int
  <2> HIDE DEF Sum
  <2> QED BY <1>7, <1>8, <1>9
<1> QED BY <1>3, <1>8, <1>10, <1>11

LEMMA SumEmpty == \A w : SumFunctionOnSet(w, {}) = 0
BY SumUnfolded, FS_EmptySet

LEMMA SumAdd ==
  ASSUME NEW S, IsFiniteSet(S), NEW x, x \notin S, NEW w, \A y \in S \cup {x} : w[y] \in Int
  PROVE  SumFunctionOnSet(w, S \cup {x}) = w[x] + SumFunctionOnSet(w, S)
<1>1. IsFiniteSet(S \cup {x}) /\ (S \cup {x}) \ {x} = S
  BY FS_AddElement
<1>2. \A y \in S \cup {x} :
        SumFunctionOnSet(w, S \cup {x}) = w[y] + SumFunctionOnSet(w, (S \cup {x}) \ {y})
  BY <1>1, SumWithout
<1>3. SumFunctionOnSet(w, S \cup {x}) = w[x] + SumFunctionOnSet(w, (S \cup {x}) \ {x})
  BY <1>2
<1> QED BY <1>1, <1>3

\* Functions that agree on a set have one sum over it, and smaller ones no larger.
LEMMA SumMonotone ==
  ASSUME NEW S, IsFiniteSet(S), NEW v, NEW w,
         \A y \in S : v[y] \in Int /\ w[y] \in Int /\ v[y] <= w[y]
  PROVE  SumFunctionOnSet(v, S) <= SumFunctionOnSet(w, S)
<1> DEFINE Good(s) == SumFunctionOnSet(v, s) <= SumFunctionOnSet(w, s)
           Bad == {s \in SUBSET S : ~Good(s)}
<1>1. SUFFICES ASSUME Bad # {} PROVE FALSE
  <2>1. S \in SUBSET S
    OBVIOUS
  <2> QED BY <2>1
<1>2. PICK s \in Bad : \A r \in SUBSET s : r # s => r \notin Bad
  <2>1. Bad \in SUBSET SUBSET S
    OBVIOUS
  <2> HIDE DEF Bad
  <2> QED BY <1>1, <2>1, MinimalSubset
<1>3. s \in SUBSET S /\ ~Good(s) /\ \A r \in SUBSET s : r # s => Good(r)
  BY <1>2
<1>4. IsFiniteSet(s)
  BY <1>3, FS_Subset
<1> HIDE DEF Bad
<1>5. CASE s = {}
  BY <1>3, <1>5, SumEmpty
<1>6. CASE s # {}
  <2>1. PICK x \in s : TRUE
    BY <1>6
  <2>2. x \in S /\ IsFiniteSet(s \ {x}) /\ s \ {x} \in SUBSET S
    BY <1>3, <1>4, FS_Subset
  <2>3. Good(s \ {x})
    BY <1>3
  <2>4. /\ \A y \in s : SumFunctionOnSet(v, s) = v[y] + SumFunctionOnSet(v, s \ {y})
        /\ \A y \in s : SumFunctionOnSet(w, s) = w[y] + SumFunctionOnSet(w, s \ {y})
    BY <1>3, <1>4, SumWithout
  <2>5. SumFunctionOnSet(v, s \ {x}) \in Int /\ SumFunctionOnSet(w, s \ {x}) \in Int
    BY <1>3, <2>2, SumWithout
  <2> QED BY <1>3, <2>2, <2>3, <2>4, <2>5
<1> QED BY <1>5, <1>6

\* Two sums over one set are the sum of what they add.
LEMMA SumPlus ==
  ASSUME NEW S, IsFiniteSet(S), NEW u, NEW v, NEW w,
         \A y \in S : u[y] \in Int /\ v[y] \in Int /\ w[y] = u[y] + v[y]
  PROVE  SumFunctionOnSet(w, S) = SumFunctionOnSet(u, S) + SumFunctionOnSet(v, S)
<1> DEFINE Good(s) == SumFunctionOnSet(w, s) = SumFunctionOnSet(u, s) + SumFunctionOnSet(v, s)
           Bad == {s \in SUBSET S : ~Good(s)}
<1>0. \A y \in S : w[y] \in Int
  OBVIOUS
<1>1. SUFFICES ASSUME Bad # {} PROVE FALSE
  <2>1. S \in SUBSET S
    OBVIOUS
  <2> QED BY <2>1
<1>2. PICK s \in Bad : \A r \in SUBSET s : r # s => r \notin Bad
  <2>1. Bad \in SUBSET SUBSET S
    OBVIOUS
  <2> HIDE DEF Bad
  <2> QED BY <1>1, <2>1, MinimalSubset
<1>3. s \in SUBSET S /\ ~Good(s) /\ \A r \in SUBSET s : r # s => Good(r)
  BY <1>2
<1>4. IsFiniteSet(s)
  BY <1>3, FS_Subset
<1> HIDE DEF Bad
<1>5. CASE s = {}
  BY <1>3, <1>5, SumEmpty
<1>6. CASE s # {}
  <2>1. PICK x \in s : TRUE
    BY <1>6
  <2>2. x \in S /\ IsFiniteSet(s \ {x}) /\ s \ {x} \in SUBSET S
    BY <1>3, <1>4, FS_Subset
  <2>3. Good(s \ {x})
    BY <1>3
  <2>4. /\ \A y \in s : SumFunctionOnSet(u, s) = u[y] + SumFunctionOnSet(u, s \ {y})
        /\ \A y \in s : SumFunctionOnSet(v, s) = v[y] + SumFunctionOnSet(v, s \ {y})
        /\ \A y \in s : SumFunctionOnSet(w, s) = w[y] + SumFunctionOnSet(w, s \ {y})
    BY <1>0, <1>3, <1>4, SumWithout
  <2>5. /\ SumFunctionOnSet(u, s \ {x}) \in Int /\ SumFunctionOnSet(v, s \ {x}) \in Int
        /\ SumFunctionOnSet(w, s \ {x}) \in Int
    BY <1>0, <1>3, <2>2, SumWithout
  <2> QED BY <1>3, <2>2, <2>3, <2>4, <2>5
<1> QED BY <1>5, <1>6

LEMMA SumSame ==
  ASSUME NEW S, IsFiniteSet(S), NEW v, NEW w, \A y \in S : v[y] \in Int /\ v[y] = w[y]
  PROVE  SumFunctionOnSet(v, S) = SumFunctionOnSet(w, S)
<1>1. \A y \in S : v[y] \in Int /\ w[y] \in Int /\ v[y] <= w[y] /\ w[y] <= v[y]
  OBVIOUS
<1>2. /\ SumFunctionOnSet(v, S) <= SumFunctionOnSet(w, S)
      /\ SumFunctionOnSet(w, S) <= SumFunctionOnSet(v, S)
  BY <1>1, SumMonotone
<1>3. SumFunctionOnSet(v, S) \in Int /\ SumFunctionOnSet(w, S) \in Int
  BY <1>1, SumWithout
<1> QED BY <1>2, <1>3

\* Sums of natural numbers.
LEMMA SumNatural ==
  ASSUME NEW S, IsFiniteSet(S), NEW w, \A y \in S : w[y] \in Nat
  PROVE  /\ SumFunctionOnSet(w, S) \in Nat
         /\ \A x \in S : w[x] <= SumFunctionOnSet(w, S)
<1> DEFINE Good(s) == SumFunctionOnSet(w, s) \in Nat
           Bad == {s \in SUBSET S : ~Good(s)}
<1>1. Bad = {}
  <2>1. SUFFICES ASSUME Bad # {} PROVE FALSE
    OBVIOUS
  <2>2. PICK s \in Bad : \A r \in SUBSET s : r # s => r \notin Bad
    <3>1. Bad \in SUBSET SUBSET S
      OBVIOUS
    <3> HIDE DEF Bad
    <3> QED BY <2>1, <3>1, MinimalSubset
  <2>3. s \in SUBSET S /\ ~Good(s) /\ \A r \in SUBSET s : r # s => Good(r)
    BY <2>2
  <2> HIDE DEF Bad
  <2>4. s # {}
    <3>1. SumFunctionOnSet(w, {}) \in Nat
      BY SumEmpty
    <3>2. SumFunctionOnSet(w, s) \notin Nat
      BY <2>3
    <3> QED BY <3>1, <3>2
  <2>5. PICK x \in s : TRUE
    BY <2>4
  <2>6. IsFiniteSet(s) /\ (\A y \in s : w[y] \in Int) /\ w[x] \in Nat
    BY <2>3, FS_Subset
  <2>7. SumFunctionOnSet(w, s) = w[x] + SumFunctionOnSet(w, s \ {x})
    BY <2>6, SumWithout
  <2>8. Good(s \ {x})
    BY <2>3
  <2> QED BY <2>3, <2>6, <2>7, <2>8
<1>2. \A s \in SUBSET S : SumFunctionOnSet(w, s) \in Nat
  BY <1>1
<1>3. ASSUME NEW x \in S PROVE w[x] <= SumFunctionOnSet(w, S)
  <2>1. SumFunctionOnSet(w, S) = w[x] + SumFunctionOnSet(w, S \ {x})
    BY SumWithout
  <2>2. S \ {x} \in SUBSET S
    OBVIOUS
  <2>3. SumFunctionOnSet(w, S \ {x}) \in Nat
    BY <1>2, <2>2
  <2> QED BY <2>1, <2>3
<1>4. S \in SUBSET S
  OBVIOUS
<1> QED BY <1>2, <1>3, <1>4

LEMMA SumUnion ==
  ASSUME NEW S, IsFiniteSet(S), NEW T, IsFiniteSet(T), S \cap T = {},
         NEW w, \A y \in S \cup T : w[y] \in Int
  PROVE  SumFunctionOnSet(w, S \cup T) = SumFunctionOnSet(w, S) + SumFunctionOnSet(w, T)
<1> DEFINE Sum(s) == SumFunctionOnSet(w, s)
           Good(s) == Sum(S \cup s) = Sum(S) + Sum(s)
           Bad == {s \in SUBSET T : ~Good(s)}
<1>1. SUFFICES ASSUME Bad # {} PROVE FALSE
  <2>1. T \in SUBSET T
    OBVIOUS
  <2> QED BY <2>1
<1>2. PICK s \in Bad : \A r \in SUBSET s : r # s => r \notin Bad
  <2>1. Bad \in SUBSET SUBSET T
    OBVIOUS
  <2> HIDE DEF Bad
  <2> QED BY <1>1, <2>1, MinimalSubset
<1>3. s \in SUBSET T /\ ~Good(s) /\ \A r \in SUBSET s : r # s => Good(r)
  BY <1>2
<1>4. IsFiniteSet(s) /\ IsFiniteSet(S \cup s)
  <2>1. IsFiniteSet(s)
    BY <1>3, FS_Subset
  <2> QED BY <2>1, FS_Union
<1> HIDE DEF Bad
<1>5. Sum(S) \in Int /\ Sum({}) = 0
  BY SumWithout, SumEmpty
<1>6. CASE s = {}
  <2>1. S \cup s = S
    BY <1>6
  <2> QED BY <1>3, <1>5, <1>6, <2>1
<1>7. CASE s # {}
  <2>1. PICK x \in s : TRUE
    BY <1>7
  <2>2. /\ \A y \in s : w[y] \in Int
        /\ \A y \in S \cup s : w[y] \in Int
        /\ \A y \in s \ {x} : w[y] \in Int
        /\ IsFiniteSet(s \ {x})
    BY <1>3, <1>4, FS_RemoveElement
  <2>3. Sum(s) = w[x] + Sum(s \ {x}) /\ Sum(s \ {x}) \in Int
    BY <1>4, <2>2, SumWithout
  <2>4. Sum(S \cup s) = w[x] + Sum((S \cup s) \ {x})
    <3>1. x \in S \cup s
      OBVIOUS
    <3>2. \A y \in S \cup s : Sum(S \cup s) = w[y] + Sum((S \cup s) \ {y})
      BY <1>4, <2>2, SumWithout
    <3> QED BY <3>1, <3>2
  <2>5. (S \cup s) \ {x} = S \cup (s \ {x})
    BY <1>3
  <2>6. Good(s \ {x})
    BY <1>3
  <2>7. w[x] \in Int
    BY <2>2
  <2> HIDE DEF Sum
  <2> QED BY <1>3, <1>5, <2>3, <2>4, <2>5, <2>6, <2>7
<1> QED BY <1>6, <1>7

LEMMA SumSubset ==
  ASSUME NEW S, IsFiniteSet(S), NEW T \in SUBSET S, NEW w, \A y \in S : w[y] \in Nat
  PROVE  /\ SumFunctionOnSet(w, T) \in Nat
         /\ SumFunctionOnSet(w, T) <= SumFunctionOnSet(w, S)
<1>1. IsFiniteSet(T) /\ IsFiniteSet(S \ T) /\ T \cup (S \ T) = S /\ T \cap (S \ T) = {}
  BY FS_Subset
<1>2. SumFunctionOnSet(w, T) \in Nat /\ SumFunctionOnSet(w, S \ T) \in Nat
  BY <1>1, SumNatural
<1>3. \A y \in T \cup (S \ T) : w[y] \in Int
  OBVIOUS
<1>4. SumFunctionOnSet(w, T \cup (S \ T)) = SumFunctionOnSet(w, T) + SumFunctionOnSet(w, S \ T)
  BY <1>1, <1>3, SumUnion
<1>5. SumFunctionOnSet(w, S) = SumFunctionOnSet(w, T) + SumFunctionOnSet(w, S \ T)
  BY <1>1, <1>4
<1> QED BY <1>2, <1>5

ImageOf(f, S) == {f[x] : x \in S}

\* A sum over the images of a set is one over the set.
LEMMA SumImage ==
  ASSUME NEW S, IsFiniteSet(S), NEW w, NEW f, NEW v,
         \A x, y \in S : f[x] = f[y] => x = y,
         \A x \in S : w[f[x]] \in Int /\ v[x] = w[f[x]]
  PROVE  /\ IsFiniteSet(ImageOf(f, S))
         /\ SumFunctionOnSet(w, ImageOf(f, S)) = SumFunctionOnSet(v, S)
<1> USE DEF ImageOf
<1> DEFINE Image(s) == {f[x] : x \in s}
           Good(s) == IsFiniteSet(Image(s)) /\ SumFunctionOnSet(w, Image(s)) = SumFunctionOnSet(v, s)
           Bad == {s \in SUBSET S : ~Good(s)}
<1>1. SUFFICES ASSUME Bad # {} PROVE FALSE
  <2>1. S \in SUBSET S
    OBVIOUS
  <2> QED BY <2>1
<1>2. PICK s \in Bad : \A r \in SUBSET s : r # s => r \notin Bad
  <2>1. Bad \in SUBSET SUBSET S
    OBVIOUS
  <2> HIDE DEF Bad
  <2> QED BY <1>1, <2>1, MinimalSubset
<1>3. s \in SUBSET S /\ ~Good(s) /\ \A r \in SUBSET s : r # s => Good(r)
  BY <1>2
<1>4. IsFiniteSet(s)
  BY <1>3, FS_Subset
<1> HIDE DEF Bad
<1>5. CASE s = {}
  <2>1. Image(s) = {}
    BY <1>5
  <2> QED BY <1>3, <1>5, <2>1, SumEmpty, FS_EmptySet
<1>6. CASE s # {}
  <2>1. PICK x \in s : TRUE
    BY <1>6
  <2>2. x \in S /\ w[f[x]] \in Int /\ v[x] = w[f[x]]
    BY <1>3
  <2>3. Image(s) = Image(s \ {x}) \cup {f[x]} /\ f[x] \notin Image(s \ {x})
    BY <1>3
  <2>4. Good(s \ {x})
    BY <1>3
  <2>5. (\A y \in s : v[y] \in Int) /\ \A y \in Image(s \ {x}) \cup {f[x]} : w[y] \in Int
    BY <1>3
  <2>6. SumFunctionOnSet(v, s) = v[x] + SumFunctionOnSet(v, s \ {x})
    BY <1>4, <2>5, SumWithout
  <2> HIDE DEF Image
  <2>7. SumFunctionOnSet(w, Image(s)) = w[f[x]] + SumFunctionOnSet(w, Image(s \ {x}))
    <3>1. PICK I : I = Image(s \ {x})
      OBVIOUS
    <3>2. IsFiniteSet(I) /\ f[x] \notin I /\ \A y \in I \cup {f[x]} : w[y] \in Int
      BY <2>3, <2>4, <2>5, <3>1
    <3>3. SumFunctionOnSet(w, I \cup {f[x]}) = w[f[x]] + SumFunctionOnSet(w, I)
      BY <3>2, SumAdd
    <3> QED BY <2>3, <3>1, <3>3
  <2>8. IsFiniteSet(Image(s))
    BY <2>3, <2>4, FS_AddElement, ZenonT(60)
  <2> QED BY <1>3, <2>2, <2>4, <2>6, <2>7, <2>8
<1> QED BY <1>5, <1>6

\* What weighs nothing may be left out.
LEMMA SumSkipsZeros ==
  ASSUME NEW S, IsFiniteSet(S), NEW T \in SUBSET S, NEW w,
         \A y \in S : w[y] \in Int, \A y \in S \ T : w[y] = 0
  PROVE  SumFunctionOnSet(w, S) = SumFunctionOnSet(w, T)
<1> DEFINE Rest == S \ T
           Good(s) == SumFunctionOnSet(w, s) = 0
           Bad == {s \in SUBSET Rest : ~Good(s)}
<1>1. IsFiniteSet(T) /\ IsFiniteSet(Rest) /\ T \cup Rest = S /\ T \cap Rest = {}
  BY FS_Subset
<1>2. Bad = {}
  <2>1. SUFFICES ASSUME Bad # {} PROVE FALSE
    OBVIOUS
  <2>2. PICK s \in Bad : \A r \in SUBSET s : r # s => r \notin Bad
    <3>1. Bad \in SUBSET SUBSET Rest
      OBVIOUS
    <3> HIDE DEF Bad, Rest
    <3> QED BY <1>1, <2>1, <3>1, MinimalSubset
  <2>3. s \in SUBSET Rest /\ ~Good(s) /\ \A r \in SUBSET s : r # s => Good(r)
    BY <2>2
  <2> HIDE DEF Bad
  <2>4. s # {}
    <3>1. Good({})
      BY SumEmpty
    <3> QED BY <2>3, <3>1
  <2>5. PICK x \in s : TRUE
    BY <2>4
  <2>6. IsFiniteSet(s) /\ (\A y \in s : w[y] \in Int) /\ w[x] = 0
    BY <1>1, <2>3, FS_Subset
  <2>7. SumFunctionOnSet(w, s) = w[x] + SumFunctionOnSet(w, s \ {x})
    BY <2>6, SumWithout
  <2>8. Good(s \ {x})
    BY <2>3
  <2> QED BY <2>3, <2>6, <2>7, <2>8
<1>3. SumFunctionOnSet(w, Rest) = 0
  BY <1>2
<1>4. \A y \in T \cup Rest : w[y] \in Int
  BY <1>1
<1> HIDE DEF Rest
<1>5. SumFunctionOnSet(w, T \cup Rest) = SumFunctionOnSet(w, T) + SumFunctionOnSet(w, Rest)
  BY <1>1, <1>4, SumUnion
<1>6. SumFunctionOnSet(w, T) \in Int
  BY <1>1, <1>4, SumWithout
<1>7. SumFunctionOnSet(w, S) = SumFunctionOnSet(w, T) + SumFunctionOnSet(w, Rest)
  BY <1>1, <1>5
<1> QED BY <1>3, <1>6, <1>7

-----------------------------------------------------------------------------
(* Finite sets whose elements have a rank. *)

LEMMA HighestRank ==
  ASSUME NEW S, IsFiniteSet(S), S # {}, NEW rank, \A x \in S : rank[x] \in Int
  PROVE  \E m \in S : \A x \in S : rank[x] <= rank[m]
<1> DEFINE Good(s) == \E m \in s : \A x \in s : rank[x] <= rank[m]
           Bad == {s \in SUBSET S : s # {} /\ ~Good(s)}
<1>1. SUFFICES ASSUME Bad # {} PROVE FALSE
  <2>1. S \in SUBSET S
    OBVIOUS
  <2> QED BY <2>1
<1>2. PICK s \in Bad : \A r \in SUBSET s : r # s => r \notin Bad
  <2>1. Bad \in SUBSET SUBSET S
    OBVIOUS
  <2> HIDE DEF Bad
  <2> QED BY <1>1, <2>1, MinimalSubset
<1>3. s \in SUBSET S /\ s # {} /\ ~Good(s) /\ \A r \in SUBSET s : r # s /\ r # {} => Good(r)
  BY <1>2
<1> HIDE DEF Bad
<1>4. PICK x \in s : TRUE
  BY <1>3
<1>5. CASE s \ {x} = {}
  BY <1>3, <1>4, <1>5
<1>6. CASE s \ {x} # {}
  <2>1. PICK m \in s \ {x} : \A y \in s \ {x} : rank[y] <= rank[m]
    BY <1>3, <1>4, <1>6, ZenonT(60)
  <2>2. \A y \in s : rank[y] \in Int
    BY <1>3
  <2>3. rank[x] <= rank[m] \/ rank[m] <= rank[x]
    BY <1>4, <2>1, <2>2
  <2> QED BY <1>3, <1>4, <2>1, <2>2, <2>3
<1> QED BY <1>5, <1>6

\* In a finite set the elements ahead of one of its members are fewer than all.
LEMMA FewerAhead ==
  ASSUME NEW S, IsFiniteSet(S), NEW x \in S, NEW A \in SUBSET S, x \notin A
  PROVE  Cardinality(A) \in Nat /\ Cardinality(S) \in Nat /\ Cardinality(A) < Cardinality(S)
<1>1. IsFiniteSet(S \ {x}) /\ Cardinality(S \ {x}) = Cardinality(S) - 1
  BY FS_RemoveElement
<1>2. A \subseteq S \ {x}
  OBVIOUS
<1>3. IsFiniteSet(A) /\ Cardinality(A) <= Cardinality(S \ {x})
  BY <1>1, <1>2, FS_Subset
<1> QED BY <1>1, <1>3, FS_CardinalityType

\* The elements ahead of one, and its place, counted from 0.
RankedBefore(S, rank, x) == {y \in S : rank[y] < rank[x]}

Place(S, rank, x) == Cardinality(RankedBefore(S, rank, x))

LEMMA PlacesFollowRanks ==
  ASSUME NEW S, IsFiniteSet(S), NEW rank, \A x \in S : rank[x] \in Int
  PROVE  \A x \in S : /\ Place(S, rank, x) \in Nat /\ Place(S, rank, x) < Cardinality(S)
                      /\ \A y \in S : rank[x] < rank[y] => Place(S, rank, x) < Place(S, rank, y)
<1> SUFFICES ASSUME NEW x \in S
             PROVE  /\ Place(S, rank, x) \in Nat /\ Place(S, rank, x) < Cardinality(S)
                    /\ \A y \in S : rank[x] < rank[y] => Place(S, rank, x) < Place(S, rank, y)
  OBVIOUS
<1>1. PICK A : A = {y \in S : rank[y] < rank[x]}
  OBVIOUS
<1>2. A \in SUBSET S /\ x \notin A /\ Place(S, rank, x) = Cardinality(A)
  BY <1>1 DEF Place, RankedBefore
<1>3. Cardinality(A) \in Nat /\ Cardinality(A) < Cardinality(S)
  BY <1>2, FewerAhead
<1>4. ASSUME NEW y \in S, rank[x] < rank[y]
      PROVE  Place(S, rank, x) < Place(S, rank, y)
  <2>1. PICK B : B = {z \in S : rank[z] < rank[y]}
    OBVIOUS
  <2>2. A \in SUBSET B /\ x \in B /\ B \in SUBSET S /\ Place(S, rank, y) = Cardinality(B)
    BY <1>1, <1>4, <2>1 DEF Place, RankedBefore
  <2>3. IsFiniteSet(B)
    BY <2>2, FS_Subset
  <2>4. Cardinality(A) < Cardinality(B)
    BY <1>2, <2>2, <2>3, FewerAhead
  <2> QED BY <1>2, <2>2, <2>4
<1> QED BY <1>2, <1>3, <1>4

\* Lists of the elements of a set by rank.
Ranked(S, rank, s) ==
  s \in [1..Cardinality(S) -> S] /\ \A i, j \in 1..Cardinality(S) : i < j => rank[s[i]] < rank[s[j]]

\* An injection between finite sets of one size is onto.
LEMMA OneToOneOnto ==
  ASSUME NEW S, NEW T, IsFiniteSet(S), IsFiniteSet(T), Cardinality(S) = Cardinality(T),
         NEW f \in [S -> T], \A x, y \in S : f[x] = f[y] => x = y
  PROVE  \A t \in T : \E x \in S : f[x] = t
<1>1. f \in Injection(S, T)
  BY DEF Injection, IsInjective
<1>2. f \in Surjection(S, T)
  BY <1>1, FS_Injection
<1> QED BY <1>2 DEF Surjection

LEMMA RankedExists ==
  ASSUME NEW S, IsFiniteSet(S), NEW rank,
         \A x \in S : rank[x] \in Int, \A x, y \in S : rank[x] = rank[y] => x = y
  PROVE  \E s : Ranked(S, rank, s)
<1> DEFINE n == Cardinality(S)
           place == [x \in S |-> Place(S, rank, x) + 1]
           s == [i \in 1..n |-> CHOOSE x \in S : place[x] = i]
<1>1. n \in Nat /\ IsFiniteSet(1..n) /\ Cardinality(1..n) = n
  BY FS_CardinalityType, FS_Interval
<1>2. \A x \in S : Place(S, rank, x) \in Nat /\ Place(S, rank, x) < n
  BY PlacesFollowRanks
<1>3. \A x, y \in S : rank[x] < rank[y] => Place(S, rank, x) < Place(S, rank, y)
  BY PlacesFollowRanks
<1>4. place \in [S -> 1..n] /\ \A x, y \in S : rank[x] < rank[y] => place[x] < place[y]
  BY <1>1, <1>2, <1>3
<1>5. \A x, y \in S : place[x] = place[y] => x = y
  <2> SUFFICES ASSUME NEW x \in S, NEW y \in S, place[x] = place[y] PROVE x = y
    OBVIOUS
  <2> HIDE DEF place
  <2>1. ~(rank[x] < rank[y]) /\ ~(rank[y] < rank[x]) /\ rank[x] \in Int /\ rank[y] \in Int
    BY <1>1, <1>4
  <2>2. rank[x] = rank[y]
    BY <2>1
  <2> QED BY <2>2
<1>0. Cardinality(S) = Cardinality(1..n)
  BY <1>1
<1> HIDE DEF place, n
<1>6. \A i \in 1..n : \E x \in S : place[x] = i
  <2> DEFINE T == 1..n
  <2>1. IsFiniteSet(T) /\ Cardinality(S) = Cardinality(T) /\ place \in [S -> T]
    BY <1>0, <1>1, <1>4
  <2> HIDE DEF T
  <2>2. \A i \in T : \E x \in S : place[x] = i
    BY <1>5, <2>1, OneToOneOnto
  <2> QED BY <2>2 DEF T
<1>7. s \in [1..n -> S] /\ \A i \in 1..n : s[i] \in S /\ place[s[i]] = i
  BY <1>6
<1> HIDE DEF s
<1>8. ASSUME NEW i \in 1..n, NEW j \in 1..n, i < j PROVE rank[s[i]] < rank[s[j]]
  <2>1. s[i] \in S /\ s[j] \in S /\ place[s[i]] < place[s[j]]
    BY <1>7, <1>8
  <2>2. rank[s[i]] # rank[s[j]] /\ ~(rank[s[j]] < rank[s[i]]) /\ rank[s[i]] \in Int /\ rank[s[j]] \in Int
    <3>1. ~(rank[s[j]] < rank[s[i]])
      BY <1>1, <1>4, <1>7, <2>1
    <3>2. s[i] # s[j]
      BY <1>1, <1>4, <2>1
    <3> QED BY <2>1, <3>1, <3>2
  <2> QED BY <2>2
<1> QED BY <1>7, <1>8 DEF Ranked, n

LEMMA InOrderRanked ==
  ASSUME NEW S, IsFiniteSet(S), NEW rank,
         \A x \in S : rank[x] \in Int, \A x, y \in S : rank[x] = rank[y] => x = y
  PROVE  Ranked(S, rank, InOrder(S, rank))
BY RankedExists DEF Ranked, InOrder

\* In a list by rank each element has its place, and every element is there.
LEMMA RankedPlaces ==
  ASSUME NEW S, IsFiniteSet(S), NEW rank, \A x \in S : rank[x] \in Int, NEW s, Ranked(S, rank, s)
  PROVE  /\ \A x \in S : \E i \in 1..Cardinality(S) : s[i] = x
         /\ \A i \in 1..Cardinality(S) : Place(S, rank, s[i]) = i - 1
<1> DEFINE n == Cardinality(S)
<1>1. n \in Nat /\ IsFiniteSet(1..n) /\ Cardinality(1..n) = n
  BY FS_CardinalityType, FS_Interval
<1>2. s \in [1..n -> S] /\ \A i, j \in 1..n : i < j => rank[s[i]] < rank[s[j]]
  BY DEF Ranked
<1> HIDE DEF n
<1>3. ASSUME NEW i \in 1..n, NEW j \in 1..n, s[i] = s[j] PROVE i = j
  <2>1. ~(i < j) /\ ~(j < i)
    BY <1>1, <1>2, <1>3
  <2> QED BY <1>1, <2>1
<1>4. \A x \in S : \E i \in 1..n : s[i] = x
  BY <1>1, <1>2, <1>3, OneToOneOnto, SMTT(60) DEF n
<1>5. ASSUME NEW i \in 1..n PROVE Place(S, rank, s[i]) = i - 1
  <2> DEFINE A == RankedBefore(S, rank, s[i])
             f == [j \in 1..(i - 1) |-> s[j]]
  <2>1. i - 1 \in Nat /\ IsFiniteSet(1..(i - 1)) /\ Cardinality(1..(i - 1)) = i - 1
    BY <1>1, FS_Interval
  <2>2. \A j \in 1..(i - 1) : j \in 1..n /\ f[j] \in A
    BY <1>1, <1>2 DEF RankedBefore
  <2>3. \A x \in A : \E j \in 1..(i - 1) : f[j] = x
    <3> SUFFICES ASSUME NEW x \in A PROVE \E j \in 1..(i - 1) : f[j] = x
      OBVIOUS
    <3>1. x \in S /\ rank[x] < rank[s[i]] /\ s[i] \in S
      BY <1>2 DEF RankedBefore
    <3>2. PICK j \in 1..n : s[j] = x
      BY <1>4, <3>1
    <3>3. ~(i < j) /\ i # j
      <4>1. rank[x] \in Int /\ rank[s[i]] \in Int
        BY <3>1
      <4> QED BY <1>2, <3>1, <3>2, <4>1
    <3>4. j \in 1..(i - 1)
      BY <1>1, <3>3
    <3> QED BY <3>2, <3>4
  <2>4. f \in Bijection(1..(i - 1), A)
    <3>1. f \in [1..(i - 1) -> A]
      BY <2>2
    <3>2. \A j, k \in 1..(i - 1) : f[j] = f[k] => j = k
      BY <1>3, <2>2
    <3> HIDE DEF f, A
    <3> QED BY <2>3, <3>1, <3>2 DEF Bijection, Injection, Surjection, IsInjective
  <2>5. Cardinality(A) = i - 1
    BY <2>1, <2>4, FS_Bijection DEF ExistsBijection
  <2> QED BY <2>5 DEF Place
<1> QED BY <1>4, <1>5 DEF n

\* There is one list by rank.
LEMMA RankedOnce ==
  ASSUME NEW S, IsFiniteSet(S), NEW rank,
         \A x \in S : rank[x] \in Int, \A x, y \in S : rank[x] = rank[y] => x = y,
         NEW s, Ranked(S, rank, s), NEW t, Ranked(S, rank, t)
  PROVE  s = t
<1>1. s \in [1..Cardinality(S) -> S] /\ t \in [1..Cardinality(S) -> S]
  BY DEF Ranked
<1>0. /\ \A i \in 1..Cardinality(S) : Place(S, rank, s[i]) = i - 1
      /\ \A i \in 1..Cardinality(S) : Place(S, rank, t[i]) = i - 1
  BY RankedPlaces
<1>2. ASSUME NEW i \in 1..Cardinality(S) PROVE s[i] = t[i]
  <2>1. s[i] \in S /\ t[i] \in S /\ Place(S, rank, s[i]) = i - 1 /\ Place(S, rank, t[i]) = i - 1
    BY <1>0, <1>1
  <2>2. Place(S, rank, s[i]) \in Nat
    BY <2>1, PlacesFollowRanks
  <2>3. ~(rank[s[i]] < rank[t[i]]) /\ ~(rank[t[i]] < rank[s[i]])
    <3>1. \A x, y \in S : rank[x] < rank[y] => Place(S, rank, x) < Place(S, rank, y)
      BY PlacesFollowRanks
    <3> QED BY <2>1, <2>2, <3>1
  <2>4. rank[s[i]] = rank[t[i]]
    <3>1. rank[s[i]] \in Int /\ rank[t[i]] \in Int
      BY <2>1
    <3> QED BY <2>3, <3>1
  <2> QED BY <2>1, <2>4
<1> DEFINE D == 1..Cardinality(S)
<1>3. s \in [D -> S] /\ t \in [D -> S] /\ \A i \in D : s[i] = t[i]
  BY <1>1, <1>2
<1> HIDE DEF D
<1> QED BY <1>3

\* Numbers in increasing order.
LEMMA TurnsRanked ==
  ASSUME NEW S \in SUBSET Int, IsFiniteSet(S)
  PROVE  /\ Cardinality(S) \in Nat
         /\ Turns(S) \in [1..Cardinality(S) -> S]
         /\ \A i, j \in 1..Cardinality(S) : i < j => Turns(S)[i] < Turns(S)[j]
<1> DEFINE rank == [x \in S |-> x]
<1>1. \A x \in S : rank[x] = x /\ rank[x] \in Int
  OBVIOUS
<1>2. \A x, y \in S : rank[x] = rank[y] => x = y
  BY <1>1
<1> HIDE DEF rank
<1>3. Ranked(S, rank, InOrder(S, rank))
  BY <1>1, <1>2, InOrderRanked
<1>4. InOrder(S, rank) = Turns(S)
  BY DEF Turns, rank
<1> QED BY <1>1, <1>3, <1>4, FS_CardinalityType DEF Ranked

\* There is one such list.
LEMMA TurnsOnly ==
  ASSUME NEW S \in SUBSET Int, IsFiniteSet(S), NEW u \in [1..Cardinality(S) -> S],
         \A i, j \in 1..Cardinality(S) : i < j => u[i] < u[j]
  PROVE  u = Turns(S)
<1> DEFINE rank == [x \in S |-> x]
<1>1. \A x \in S : rank[x] = x /\ rank[x] \in Int
  OBVIOUS
<1>2. \A x, y \in S : rank[x] = rank[y] => x = y
  BY <1>1
<1> HIDE DEF rank
<1>3. Ranked(S, rank, InOrder(S, rank))
  BY <1>1, <1>2, InOrderRanked
<1>4. InOrder(S, rank) = Turns(S)
  BY DEF Turns, rank
<1>5. Ranked(S, rank, u)
  BY <1>1 DEF Ranked
<1> QED BY <1>1, <1>2, <1>3, <1>4, <1>5, RankedOnce

\* The list may be extended by one of higher numbers.
LEMMA TurnsExtend ==
  ASSUME NEW S \in SUBSET Int, IsFiniteSet(S), NEW T \in SUBSET Int, IsFiniteSet(T),
         \A x \in S : \A y \in T : x < y
  PROVE  /\ IsFiniteSet(S \cup T) /\ Cardinality(S \cup T) = Cardinality(S) + Cardinality(T)
         /\ Cardinality(S) \in Nat /\ Cardinality(T) \in Nat
         /\ \A i \in 1..Cardinality(S) : Turns(S \cup T)[i] = Turns(S)[i]
         /\ \A i \in 1..Cardinality(T) : Turns(S \cup T)[Cardinality(S) + i] = Turns(T)[i]
<1> DEFINE m == Cardinality(S)
           n == Cardinality(T)
           s == Turns(S)
           t == Turns(T)
           u == [i \in 1..(m + n) |-> IF i <= m THEN s[i] ELSE t[i - m]]
<1>1. m \in Nat /\ n \in Nat
  BY FS_CardinalityType
<1>2. IsFiniteSet(S \cup T) /\ Cardinality(S \cup T) = m + n
  <2>1. S \cap T = {}
    OBVIOUS
  <2>2. IsFiniteSet(S \cap T) /\ Cardinality(S \cap T) = 0
    BY <2>1, FS_EmptySet
  <2>3. IsFiniteSet(S \cup T) /\ Cardinality(S \cup T) = Cardinality(S) + Cardinality(T) - Cardinality(S \cap T)
    BY FS_Union
  <2>4. m + n - 0 = m + n
    BY <1>1
  <2> QED BY <2>2, <2>3, <2>4
<1>3. s \in [1..m -> S] /\ \A i, j \in 1..m : i < j => s[i] < s[j]
  BY TurnsRanked
<1>4. t \in [1..n -> T] /\ \A i, j \in 1..n : i < j => t[i] < t[j]
  BY TurnsRanked
<1> HIDE DEF s, t, m, n
<1>5. u \in [1..(m + n) -> S \cup T]
  BY <1>1, <1>3, <1>4
<1>6. ASSUME NEW i \in 1..(m + n), NEW j \in 1..(m + n), i < j PROVE u[i] < u[j]
  <2>1. CASE j <= m
    <3>1. i \in 1..m /\ j \in 1..m /\ u[i] = s[i] /\ u[j] = s[j]
      BY <1>1, <1>6, <2>1
    <3> QED BY <1>3, <1>6, <3>1
  <2>2. CASE i > m
    <3>1. i - m \in 1..n /\ j - m \in 1..n /\ i - m < j - m /\ u[i] = t[i - m] /\ u[j] = t[j - m]
      BY <1>1, <1>6, <2>2
    <3> QED BY <1>4, <3>1
  <2>3. CASE i <= m /\ ~(j <= m)
    <3>1. i \in 1..m /\ j - m \in 1..n /\ u[i] = s[i] /\ u[j] = t[j - m]
      BY <1>1, <1>6, <2>3
    <3>2. s[i] \in S /\ t[j - m] \in T
      BY <1>3, <1>4, <3>1
    <3> QED BY <3>1, <3>2
  <2> QED BY <1>1, <2>1, <2>2, <2>3
<1>7. u = Turns(S \cup T)
  <2> DEFINE U == S \cup T
  <2>1. U \in SUBSET Int /\ IsFiniteSet(U) /\ Cardinality(U) = m + n
    BY <1>2
  <2>2. u \in [1..Cardinality(U) -> U]
    BY <1>5, <2>1
  <2>3. \A i, j \in 1..Cardinality(U) : i < j => u[i] < u[j]
    BY <1>6, <2>1
  <2> HIDE DEF U, u
  <2>4. u = Turns(U)
    BY <2>1, <2>2, <2>3, TurnsOnly
  <2> QED BY <2>4 DEF U
<1>8. \A i \in 1..m : u[i] = s[i]
  BY <1>1
<1>9. \A i \in 1..n : u[m + i] = t[i]
  BY <1>1
<1> QED BY <1>1, <1>2, <1>7, <1>8, <1>9 DEF m, n, s, t

LEMMA TurnsOfOne ==
  ASSUME NEW x \in Int
  PROVE  IsFiniteSet({x}) /\ Cardinality({x}) = 1 /\ Turns({x})[1] = x
<1>1. IsFiniteSet({x}) /\ Cardinality({x}) = 1
  BY FS_Singleton
<1>2. Turns({x}) \in [1..1 -> {x}]
  BY <1>1, TurnsRanked
<1> QED BY <1>1, <1>2

-----------------------------------------------------------------------------
(* Places in a sequence, and folds over them. *)

LEMMA PlacesFinite ==
  ASSUME NEW n \in Nat, NEW s \in SUBSET (1..n)
  PROVE  /\ IsFiniteSet(1..n) /\ Cardinality(1..n) = n
         /\ IsFiniteSet(s) /\ Cardinality(s) \in Nat /\ Cardinality(s) <= n
         /\ Cardinality(s) = 0 <=> s = {}
<1>1. 1 \in Int /\ n \in Int
  OBVIOUS
<1>2. IsFiniteSet(1..n) /\ Cardinality(1..n) = n
  BY <1>1, FS_Interval
<1>3. IsFiniteSet(s) /\ Cardinality(s) <= n
  BY <1>2, FS_Subset
<1> QED BY <1>2, <1>3, FS_EmptySet, FS_CardinalityType

\* A first number up to n with a property that 0 does not have.
LEMMA FirstBad ==
  ASSUME NEW n \in Nat, NEW T \in SUBSET (0..n), T # {}, 0 \notin T
  PROVE  \E k \in 1..n : k \in T /\ k - 1 \in 0..n /\ k - 1 \notin T
<1> DEFINE Bad == {1..k : k \in T}
<1>1. IsFiniteSet(1..n) /\ Bad \in SUBSET SUBSET (1..n) /\ Bad # {}
  <2>1. IsFiniteSet(1..n)
    BY PlacesFinite
  <2>2. \A k \in T : 1..k \in SUBSET (1..n)
    OBVIOUS
  <2> QED BY <2>1, <2>2
<1>2. PICK s \in Bad : \A r \in SUBSET s : r # s => r \notin Bad
  <2> HIDE DEF Bad
  <2> QED BY <1>1, MinimalSubset, ZenonT(60)
<1>3. PICK k \in T : s = 1..k
  OBVIOUS
<1>4. k \in 1..n /\ k - 1 \in 0..n
  OBVIOUS
<1>5. ASSUME k - 1 \in T PROVE FALSE
  <2>1. 1..(k - 1) \in SUBSET s /\ 1..(k - 1) \in Bad
    BY <1>3, <1>4, <1>5
  <2>2. k \in 1..k /\ k \notin 1..(k - 1)
    BY <1>4
  <2> QED BY <1>2, <1>3, <2>1, <2>2
<1> QED BY <1>4, <1>5

-----------------------------------------------------------------------------
\* Folding over the places 1..n of a sequence with the step h, from base.

Folds(g, h, base, family) ==
  g = [s \in family |-> IF s = {} THEN base ELSE h[<<g[s \ {Max(s)}], Max(s)>>]]

\* The sets of places with at most k of them.
PlacesUpTo(n, k) == {s \in SUBSET (1..n) : Cardinality(s) <= k}

LEMMA LastPlace ==
  ASSUME NEW n \in Nat, NEW s \in SUBSET (1..n), s # {}
  PROVE  Max(s) \in s
<1> DEFINE Bad == {t \in SUBSET (1..n) : t # {} /\ ~ \E x \in t : \A y \in t : x >= y}
<1>1. ASSUME Bad # {} PROVE FALSE
  <2>1. PICK t \in Bad : \A r \in SUBSET t : r # t => r \notin Bad
    <3>1. IsFiniteSet(1..n) /\ Bad \in SUBSET SUBSET (1..n)
      BY PlacesFinite
    <3> HIDE DEF Bad
    <3> QED BY <1>1, <3>1, MinimalSubset
  <2>2. PICK x \in t : TRUE
    OBVIOUS
  <2>3. PICK r : r = t \ {x}
    OBVIOUS
  <2>4. r \in SUBSET (1..n) /\ r \in SUBSET t /\ r # t /\ r \notin Bad
    BY <2>1, <2>2, <2>3
  <2>5. r = {} \/ \E z \in r : \A y \in r : z >= y
    BY <2>4
  <2>6. \E z \in t : \A y \in t : z >= y
    <3>1. CASE r = {}
      <4>1. \A y \in t : y = x
        BY <2>3, <3>1
      <4> QED BY <4>1, <2>2
    <3>2. ASSUME NEW z \in r, \A y \in r : z >= y
          PROVE  \E zz \in t : \A y \in t : zz >= y
      <4>1. x \in Int /\ z \in Int /\ z \in t /\ \A y \in t : y \in Int /\ (y = x \/ y \in r)
        BY <2>3, <2>4, <3>2
      <4>2. CASE z >= x
        BY <3>2, <4>1, <4>2
      <4>3. CASE x >= z
        BY <3>2, <4>1, <4>3
      <4> QED BY <4>1, <4>2, <4>3
    <3> QED BY <2>5, <3>1, <3>2
  <2> QED BY <2>6
<1>2. \E x \in s : \A y \in s : x >= y
  BY <1>1
<1> QED BY <1>2 DEF Max

LEMMA FewerPlaces ==
  ASSUME NEW n \in Nat, NEW s \in SUBSET (1..n), s # {}
  PROVE  /\ Cardinality(s) \in Nat /\ Cardinality(s \ {Max(s)}) = Cardinality(s) - 1
         /\ s \ {Max(s)} \in SUBSET (1..n) /\ s \ {Max(s)} # s
<1>1. IsFiniteSet(s) /\ Max(s) \in s
  BY LastPlace, PlacesFinite
<1>2. Max(s) \in 1..n
  BY <1>1
<1> QED BY <1>1, <1>2, FS_RemoveElement, FS_CardinalityType

LEMMA FoldOneMore ==
  ASSUME NEW n \in Nat, NEW h, NEW base, NEW k \in Nat, NEW g, Folds(g, h, base, PlacesUpTo(n, k))
  PROVE  \E f : Folds(f, h, base, PlacesUpTo(n, k + 1))
<1> DEFINE f == [s \in PlacesUpTo(n, k + 1) |-> IF s = {} THEN base ELSE h[<<g[s \ {Max(s)}], Max(s)>>]]
<1>1. ASSUME NEW s \in PlacesUpTo(n, k + 1), s # {}
      PROVE  f[s \ {Max(s)}] = g[s \ {Max(s)}]
  <2> DEFINE r == s \ {Max(s)}
  <2>1. r \in PlacesUpTo(n, k) /\ r \in PlacesUpTo(n, k + 1)
    <3>1. s \in SUBSET (1..n) /\ Cardinality(s) <= k + 1
      BY DEF PlacesUpTo
    <3>2. Cardinality(s) \in Nat /\ Cardinality(r) = Cardinality(s) - 1 /\ r \in SUBSET (1..n)
      BY <1>1, <3>1, FewerPlaces
    <3> HIDE DEF r
    <3>3. Cardinality(r) <= k /\ Cardinality(r) <= k + 1
      BY <3>1, <3>2
    <3> QED BY <3>2, <3>3 DEF PlacesUpTo
  <2>2. g[r] = IF r = {} THEN base ELSE h[<<g[r \ {Max(r)}], Max(r)>>]
    BY <2>1 DEF Folds
  <2>3. f[r] = IF r = {} THEN base ELSE h[<<g[r \ {Max(r)}], Max(r)>>]
    BY <2>1
  <2> QED BY <2>2, <2>3
<1>2. f = [s \in PlacesUpTo(n, k + 1) |-> IF s = {} THEN base ELSE h[<<f[s \ {Max(s)}], Max(s)>>]]
  <2> DEFINE ff == [s \in PlacesUpTo(n, k + 1) |-> IF s = {} THEN base ELSE h[<<f[s \ {Max(s)}], Max(s)>>]]
  <2>1. \A s \in PlacesUpTo(n, k + 1) : f[s] = ff[s]
    BY <1>1
  <2> QED BY <2>1
<1> QED BY <1>2 DEF Folds

LEMMA FoldExists ==
  ASSUME NEW n \in Nat, NEW h, NEW base
  PROVE  \E g : Folds(g, h, base, SUBSET (1..n))
<1> DEFINE T == {k \in 0..n : ~ \E g : Folds(g, h, base, PlacesUpTo(n, k))}
<1>1. 0 \notin T
  <2> DEFINE g == [s \in PlacesUpTo(n, 0) |-> base]
  <2>1. \A s \in PlacesUpTo(n, 0) : s = {}
    BY PlacesFinite, SMTT(60) DEF PlacesUpTo
  <2>2. g = [s \in PlacesUpTo(n, 0) |-> IF s = {} THEN base ELSE h[<<g[s \ {Max(s)}], Max(s)>>]]
    BY <2>1
  <2> QED BY <2>2 DEF Folds
<1>2. T = {}
  <2>1. SUFFICES ASSUME T # {} PROVE FALSE
    OBVIOUS
  <2>2. PICK k \in 1..n : k \in T /\ k - 1 \in 0..n /\ k - 1 \notin T
    <3>1. T \in SUBSET (0..n)
      OBVIOUS
    <3> HIDE DEF T
    <3> QED BY <1>1, <2>1, <3>1, FirstBad
  <2>3. PICK g : Folds(g, h, base, PlacesUpTo(n, k - 1))
    BY <2>2
  <2>4. k - 1 \in Nat /\ (k - 1) + 1 = k
    BY <2>2
  <2>5. \E f : Folds(f, h, base, PlacesUpTo(n, (k - 1) + 1))
    BY <2>3, <2>4, FoldOneMore
  <2> QED BY <2>2, <2>4, <2>5
<1>3. PlacesUpTo(n, n) = SUBSET (1..n)
  BY PlacesFinite DEF PlacesUpTo
<1>4. n \notin T /\ n \in 0..n
  BY <1>2
<1> QED BY <1>3, <1>4

\* Its values are those of the steps.
LEMMA FoldTyped ==
  ASSUME NEW n \in Nat, NEW V, NEW base \in V, NEW h, \A v \in V : \A i \in 1..n : h[<<v, i>>] \in V,
         NEW g, Folds(g, h, base, SUBSET (1..n)), NEW s \in SUBSET (1..n)
  PROVE  g[s] \in V
<1> DEFINE Bad == {t \in SUBSET (1..n) : g[t] \notin V}
<1>1. ASSUME Bad # {} PROVE FALSE
  <2>1. PICK t \in Bad : \A r \in SUBSET t : r # t => r \notin Bad
    <3>1. IsFiniteSet(1..n) /\ Bad \in SUBSET SUBSET (1..n)
      BY PlacesFinite
    <3> HIDE DEF Bad
    <3> QED BY <1>1, <3>1, MinimalSubset
  <2>2. g[t] = IF t = {} THEN base ELSE h[<<g[t \ {Max(t)}], Max(t)>>]
    BY DEF Folds
  <2>3. t # {}
    BY <2>2
  <2>4. g[t \ {Max(t)}] \in V /\ Max(t) \in 1..n
    BY <2>1, <2>3, FewerPlaces, LastPlace
  <2> QED BY <2>2, <2>3, <2>4
<1> QED BY <1>1

\* What was folded of the first k places; f is any function that the
\* recursion may have chosen.
LEMMA PrefixPlaces ==
  ASSUME NEW n \in Nat, NEW k \in 1..n
  PROVE  /\ 1..k \in SUBSET (1..n) /\ 1..k # {} /\ Max(1..k) = k /\ (1..k) \ {k} = 1..(k - 1)
<1>1. k \in 1..k /\ \A y \in 1..k : k >= y
  OBVIOUS
<1>2. \A x \in 1..k : (\A y \in 1..k : x >= y) => x = k
  OBVIOUS
<1>3. Max(1..k) = k
  BY <1>1, <1>2 DEF Max
<1> QED BY <1>1, <1>3

LEMMA PrefixTyped ==
  ASSUME NEW n \in Nat, NEW V, NEW f, f[{}] \in V,
         \A k \in 1..n : f[1..(k - 1)] \in V => f[1..k] \in V, NEW k \in 0..n
  PROVE  f[1..k] \in V
<1> DEFINE T == {j \in 0..n : f[1..j] \notin V}
<1>1. 0 \notin T
  <2>1. 1..0 = {}
    OBVIOUS
  <2> QED BY <2>1
<1>2. T = {}
  <2>1. SUFFICES ASSUME T # {} PROVE FALSE
    OBVIOUS
  <2>2. PICK j \in 1..n : j \in T /\ j - 1 \in 0..n /\ j - 1 \notin T
    <3>1. T \in SUBSET (0..n)
      OBVIOUS
    <3> HIDE DEF T
    <3> QED BY <1>1, <2>1, <3>1, FirstBad
  <2> QED BY <2>2
<1> QED BY <1>2
-----------------------------------------------------------------------------
\* The sum of the first n weights.
Total(w, n) ==
  LET sum[k \in 0..n] == IF k = 0 THEN 0 ELSE sum[k - 1] + w[k]
  IN  sum[n]

Sums(t, w, n) == t = [k \in 0..n |-> IF k = 0 THEN 0 ELSE t[k - 1] + w[k]]

LEMMA SumsExist ==
  ASSUME NEW n \in Nat, NEW w, \A k \in 1..n : w[k] \in Int
  PROVE  \E t : Sums(t, w, n)
<1> DEFINE h == [p \in Int \X (1..n) |-> p[1] + w[p[2]]]
<1>1. \A v \in Int : \A i \in 1..n : h[<<v, i>>] = v + w[i] /\ h[<<v, i>>] \in Int
  OBVIOUS
<1>2. PICK g : Folds(g, h, 0, SUBSET (1..n))
  <2> HIDE DEF h
  <2> QED BY FoldExists
<1>3. \A s \in SUBSET (1..n) : g[s] \in Int
  <2>1. 0 \in Int /\ \A v \in Int : \A i \in 1..n : h[<<v, i>>] \in Int
    BY <1>1
  <2> HIDE DEF h
  <2> QED BY <1>2, <2>1, FoldTyped
<1> DEFINE t == [k \in 0..n |-> g[1..k]]
<1>4. \A k \in 0..n : t[k] = IF k = 0 THEN 0 ELSE t[k - 1] + w[k]
  <2> SUFFICES ASSUME NEW k \in 0..n
               PROVE  t[k] = IF k = 0 THEN 0 ELSE t[k - 1] + w[k]
    OBVIOUS
  <2>1. CASE k = 0
    <3>1. 1..0 = {} /\ {} \in SUBSET (1..n)
      OBVIOUS
    <3>2. g[{}] = 0
      BY <1>2, <3>1 DEF Folds
    <3> QED BY <2>1, <3>1, <3>2
  <2>2. CASE k # 0
    <3>1. k \in 1..n /\ k - 1 \in 0..n
      BY <2>2, SMTT(60)
    <3>2. g[1..k] = h[<<g[(1..k) \ {Max(1..k)}], Max(1..k)>>]
      BY <1>2, <3>1, PrefixPlaces DEF Folds
    <3>3. g[1..k] = h[<<g[1..(k - 1)], k>>] /\ 1..(k - 1) \in SUBSET (1..n)
      BY <3>1, <3>2, PrefixPlaces
    <3>4. g[1..k] = g[1..(k - 1)] + w[k]
      BY <1>1, <1>3, <3>1, <3>3
    <3> QED BY <2>2, <3>1, <3>4
  <2> QED BY <2>1, <2>2
<1>5. Sums(t, w, n)
  <2> DEFINE tt == [k \in 0..n |-> IF k = 0 THEN 0 ELSE t[k - 1] + w[k]]
  <2>1. t = tt
    BY <1>4
  <2> QED BY <2>1 DEF Sums
<1> QED BY <1>5

LEMMA TotalIsSummed ==
  ASSUME NEW n \in Nat, NEW w, \A k \in 1..n : w[k] \in Int
  PROVE  \E t : Sums(t, w, n) /\ Total(w, n) = t[n]
<1> DEFINE t == CHOOSE sum : sum = [k \in 0..n |-> IF k = 0 THEN 0 ELSE sum[k - 1] + w[k]]
<1>1. Total(w, n) = t[n]
  BY DEF Total
<1>2. Sums(t, w, n)
  BY SumsExist DEF Sums
<1> QED BY <1>1, <1>2

LEMMA SumsAgree ==
  ASSUME NEW n \in Nat, NEW m \in Nat, NEW j \in 0..n, j <= m, NEW v, NEW w,
         \A k \in 1..j : w[k] \in Int /\ v[k] = w[k],
         NEW t, Sums(t, v, n), NEW u, Sums(u, w, m)
  PROVE  t[j] = u[j] /\ t[j] \in Int
<1> DEFINE T == {k \in 0..j : ~(t[k] = u[k] /\ t[k] \in Int)}
<1>1. 0 \notin T
  BY DEF Sums
<1>2. T = {}
  <2>1. SUFFICES ASSUME T # {} PROVE FALSE
    OBVIOUS
  <2>2. PICK k \in 1..j : k \in T /\ k - 1 \in 0..j /\ k - 1 \notin T
    <3>1. T \in SUBSET (0..j) /\ j \in Nat
      OBVIOUS
    <3> HIDE DEF T
    <3> QED BY <1>1, <2>1, <3>1, FirstBad
  <2>3. t[k] = t[k - 1] + v[k] /\ u[k] = u[k - 1] + w[k]
    <3>1. k \in 0..n /\ k \in 0..m /\ k # 0
      OBVIOUS
    <3> QED BY <3>1 DEF Sums
  <2> QED BY <2>2, <2>3
<1> QED BY <1>2

LEMMA TotalUnfolded ==
  ASSUME NEW n \in Nat, NEW w, \A k \in 1..n : w[k] \in Int
  PROVE  /\ Total(w, n) \in Int /\ Total(w, 0) = 0
         /\ n # 0 => Total(w, n) = Total(w, n - 1) + w[n]
<1>1. PICK t : Sums(t, w, n) /\ Total(w, n) = t[n]
  BY TotalIsSummed
<1>2. t[n] \in Int
  <2>1. n \in 0..n /\ n <= n /\ \A k \in 1..n : w[k] \in Int /\ w[k] = w[k]
    OBVIOUS
  <2> QED BY <1>1, <2>1, SumsAgree
<1>3. Total(w, 0) = 0
  <2>1. \A k \in 1..0 : w[k] \in Int
    OBVIOUS
  <2>2. PICK u : Sums(u, w, 0) /\ Total(w, 0) = u[0]
    BY <2>1, TotalIsSummed
  <2> QED BY <2>2 DEF Sums
<1>4. ASSUME n # 0 PROVE Total(w, n) = Total(w, n - 1) + w[n]
  <2>1. PICK m \in Nat : m = n - 1
    BY <1>4
  <2>2. \A k \in 1..m : w[k] \in Int
    BY <2>1
  <2>3. PICK u : Sums(u, w, m) /\ Total(w, m) = u[m]
    BY <2>2, TotalIsSummed
  <2>4. m \in 0..n /\ m <= m
    BY <2>1
  <2>5. t[m] = u[m]
    BY <1>1, <2>2, <2>3, <2>4, SumsAgree
  <2>6. t[n] = t[m] + w[n]
    BY <1>1, <1>4, <2>1 DEF Sums
  <2> QED BY <1>1, <2>1, <2>3, <2>5, <2>6
<1> QED BY <1>1, <1>2, <1>3, <1>4

LEMMA TotalSame ==
  ASSUME NEW n \in Nat, NEW v, NEW w, \A k \in 1..n : w[k] \in Int /\ v[k] = w[k]
  PROVE  Total(v, n) = Total(w, n)
<1>1. PICK t : Sums(t, v, n) /\ Total(v, n) = t[n]
  BY TotalIsSummed
<1>2. PICK u : Sums(u, w, n) /\ Total(w, n) = u[n]
  BY TotalIsSummed
<1>3. t[n] = u[n]
  BY <1>1, <1>2, SumsAgree, SMTT(60)
<1> QED BY <1>1, <1>2, <1>3

\* The total of weights that are those of v after the first m is theirs more.
LEMMA TotalJoined ==
  ASSUME NEW m \in Nat, NEW n \in Nat, NEW v, NEW w, \A k \in 1..m : w[k] \in Int,
         \A k \in 1..n : v[k] \in Int /\ w[m + k] = v[k]
  PROVE  /\ Total(w, m) \in Int /\ Total(v, n) \in Int
         /\ Total(w, m + n) = Total(w, m) + Total(v, n)
<1>1. \A k \in 0..n : Total(v, k) \in Int
  <2> SUFFICES ASSUME NEW k \in 0..n PROVE Total(v, k) \in Int
    OBVIOUS
  <2>1. k \in Nat /\ \A i \in 1..k : v[i] \in Int
    OBVIOUS
  <2> QED BY <2>1, TotalUnfolded
<1>2. PICK a \in Int : a = Total(w, m)
  BY TotalUnfolded
<1> DEFINE T == {k \in 0..n : Total(w, m + k) # a + Total(v, k)}
<1>3. 0 \notin T
  <2>1. Total(v, 0) = 0
    BY TotalUnfolded
  <2>2. m + 0 = m
    OBVIOUS
  <2> QED BY <1>2, <2>1, <2>2
<1>4. T = {}
  <2>1. SUFFICES ASSUME T # {} PROVE FALSE
    OBVIOUS
  <2>2. PICK k \in 1..n : k \in T /\ k - 1 \in 0..n /\ k - 1 \notin T
    <3>1. T \in SUBSET (0..n)
      OBVIOUS
    <3> HIDE DEF T
    <3> QED BY <1>3, <2>1, <3>1, FirstBad
  <2>3. PICK j \in 0..n : j = k - 1 /\ Total(w, m + j) = a + Total(v, j)
    BY <2>2
  <2>4. PICK i : i = m + k
    OBVIOUS
  <2>5. i \in Nat /\ i # 0 /\ i - 1 = m + j
    BY <2>3, <2>4
  <2>6. \A l \in 1..i : w[l] \in Int
    <3> SUFFICES ASSUME NEW l \in 1..i PROVE w[l] \in Int
      OBVIOUS
    <3>1. CASE l <= m
      BY <3>1
    <3>2. CASE ~(l <= m)
      <4>1. PICK x : x = l - m
        OBVIOUS
      <4>2. x \in 1..n /\ l = m + x
        BY <2>4, <3>2, <4>1
      <4> QED BY <4>2
    <3> QED BY <3>1, <3>2
  <2>7. Total(w, i) = Total(w, i - 1) + w[i]
    BY <2>5, <2>6, TotalUnfolded
  <2>8. k \in Nat /\ k # 0 /\ \A l \in 1..k : v[l] \in Int
    OBVIOUS
  <2>9. Total(v, k) = Total(v, k - 1) + v[k]
    BY <2>8, TotalUnfolded
  <2>10. w[i] = v[k] /\ v[k] \in Int
    BY <2>4
  <2>11. Total(w, i) = a + Total(v, k)
    <3>1. PICK b \in Int : b = Total(v, j)
      BY <1>1
    <3>2. Total(w, i - 1) = a + b /\ Total(v, k - 1) = b
      BY <2>3, <2>5, <3>1
    <3> QED BY <2>7, <2>9, <2>10, <3>2
  <2> QED BY <2>2, <2>4, <2>11
<1>5. n \in 0..n /\ n \notin T
  BY <1>4
<1> QED BY <1>1, <1>2, <1>5

LEMMA TotalOfEqual ==
  ASSUME NEW n \in Nat, NEW c \in Int, NEW w, \A k \in 1..n : w[k] = c
  PROVE  Total(w, n) = c * n
<1> DEFINE T == {k \in 0..n : Total(w, k) # c * k}
<1>1. 0 \notin T
  <2>1. Total(w, 0) = 0
    BY TotalUnfolded
  <2> QED BY <2>1
<1>2. T = {}
  <2>1. SUFFICES ASSUME T # {} PROVE FALSE
    OBVIOUS
  <2>2. PICK k \in 1..n : k \in T /\ k - 1 \in 0..n /\ k - 1 \notin T
    <3>1. T \in SUBSET (0..n)
      OBVIOUS
    <3> HIDE DEF T
    <3> QED BY <1>1, <2>1, <3>1, FirstBad
  <2>3. k \in Nat /\ k # 0 /\ \A l \in 1..k : w[l] \in Int
    OBVIOUS
  <2>4. Total(w, k) = Total(w, k - 1) + w[k]
    BY <2>3, TotalUnfolded
  <2>5. Total(w, k - 1) = c * (k - 1) /\ w[k] = c
    BY <2>2
  <2>6. c * (k - 1) + c = c * k
    BY <2>3
  <2>7. Total(w, k) = c * k
    BY <2>4, <2>5, <2>6
  <2> QED BY <2>2, <2>7
<1>3. n \in 0..n /\ n \notin T
  BY <1>2
<1> QED BY <1>3

\* The sum over the first n places is the total of the first n.
LEMMA SumIsTotal ==
  ASSUME NEW n \in Nat, NEW w, \A k \in 1..n : w[k] \in Int
  PROVE  SumFunctionOnSet(w, 1..n) = Total(w, n)
<1> DEFINE T == {k \in 0..n : SumFunctionOnSet(w, 1..k) # Total(w, k)}
<1>1. 0 \notin T
  <2>1. Total(w, 0) = 0
    BY TotalUnfolded
  <2>2. 1..0 = {}
    OBVIOUS
  <2> QED BY <2>1, <2>2, SumEmpty
<1>2. T = {}
  <2>1. SUFFICES ASSUME T # {} PROVE FALSE
    OBVIOUS
  <2>2. PICK k \in 1..n : k \in T /\ k - 1 \in 0..n /\ k - 1 \notin T
    <3>1. T \in SUBSET (0..n)
      OBVIOUS
    <3> HIDE DEF T
    <3> QED BY <1>1, <2>1, <3>1, FirstBad
  <2>3. PICK j \in Nat : j = k - 1
    OBVIOUS
  <2>4. k \in Nat /\ k # 0 /\ \A l \in 1..k : w[l] \in Int
    OBVIOUS
  <2>5. Total(w, k) = Total(w, k - 1) + w[k] /\ Total(w, j) \in Int
    <3>1. \A l \in 1..j : w[l] \in Int
      BY <2>3
    <3> QED BY <2>4, <3>1, TotalUnfolded
  <2>6. 1..k = (1..j) \cup {k} /\ k \notin 1..j /\ IsFiniteSet(1..j)
    <3>1. 1..j \in SUBSET (1..j)
      OBVIOUS
    <3> QED BY <2>3, <3>1, PlacesFinite
  <2>7. \A y \in (1..j) \cup {k} : w[y] \in Int
    BY <2>4, <2>6
  <2>8. SumFunctionOnSet(w, (1..j) \cup {k}) = w[k] + SumFunctionOnSet(w, 1..j)
    BY <2>6, <2>7, SumAdd
  <2>9. SumFunctionOnSet(w, 1..j) = Total(w, j)
    BY <2>2, <2>3
  <2>10. SumFunctionOnSet(w, 1..k) = Total(w, k)
    <3>1. PICK b \in Int : b = Total(w, j)
      BY <2>5
    <3>2. PICK d \in Int : d = w[k]
      BY <2>4
    <3>3. Total(w, k) = b + d
      BY <2>3, <2>5, <3>1, <3>2
    <3>4. SumFunctionOnSet(w, 1..k) = d + b
      BY <2>6, <2>8, <2>9, <3>1, <3>2
    <3> QED BY <3>3, <3>4
  <2> QED BY <2>2, <2>10
<1>3. n \in 0..n /\ n \notin T
  BY <1>2
<1> QED BY <1>3
-----------------------------------------------------------------------------
\* Sums that are scaled, largest numbers, and sequences joined and cut.

LEMMA SumScaled ==
  ASSUME NEW S, IsFiniteSet(S), NEW c \in Int, NEW v, NEW w,
         \A y \in S : v[y] \in Int /\ w[y] = c * v[y]
  PROVE  SumFunctionOnSet(w, S) = c * SumFunctionOnSet(v, S)
<1> DEFINE Good(s) == SumFunctionOnSet(w, s) = c * SumFunctionOnSet(v, s)
           Bad == {s \in SUBSET S : ~Good(s)}
<1>0. \A y \in S : w[y] \in Int
  OBVIOUS
<1>1. SUFFICES ASSUME Bad # {} PROVE FALSE
  <2>1. S \in SUBSET S
    OBVIOUS
  <2> QED BY <2>1
<1>2. PICK s \in Bad : \A r \in SUBSET s : r # s => r \notin Bad
  <2>1. Bad \in SUBSET SUBSET S
    OBVIOUS
  <2> HIDE DEF Bad
  <2> QED BY <1>1, <2>1, MinimalSubset
<1>3. s \in SUBSET S /\ ~Good(s) /\ \A r \in SUBSET s : r # s => Good(r)
  BY <1>2
<1>4. IsFiniteSet(s)
  BY <1>3, FS_Subset
<1> HIDE DEF Bad
<1>5. CASE s = {}
  BY <1>3, <1>5, SumEmpty
<1>6. CASE s # {}
  <2>1. PICK x \in s : TRUE
    BY <1>6
  <2>2. x \in S /\ IsFiniteSet(s \ {x}) /\ s \ {x} \in SUBSET S
    BY <1>3, <1>4, FS_Subset
  <2>3. Good(s \ {x})
    BY <1>3
  <2>4. /\ \A y \in s : SumFunctionOnSet(v, s) = v[y] + SumFunctionOnSet(v, s \ {y})
        /\ \A y \in s : SumFunctionOnSet(w, s) = w[y] + SumFunctionOnSet(w, s \ {y})
    BY <1>0, <1>3, <1>4, SumWithout
  <2>5. PICK a \in Int, b \in Int : a = SumFunctionOnSet(v, s \ {x}) /\ b = v[x]
    BY <1>3, <2>2, SumWithout
  <2>6. SumFunctionOnSet(v, s) = b + a /\ SumFunctionOnSet(w, s) = c * b + c * a
    BY <2>2, <2>3, <2>4, <2>5
  <2>7. c * b + c * a = c * (b + a)
    OBVIOUS
  <2> QED BY <1>3, <2>6, <2>7
<1> QED BY <1>5, <1>6

LEMMA LargestNumber ==
  ASSUME NEW n \in Nat, NEW S \in SUBSET (0..n), S # {}
  PROVE  Max(S) \in S /\ \A y \in S : y <= Max(S)
<1> DEFINE D == {n - y : y \in S}
<1>0. \A y \in S : y \in Nat /\ y <= n
  OBVIOUS
<1>1. D \in SUBSET Nat /\ D # {}
  <2>1. \A y \in S : n - y \in Nat
    BY <1>0
  <2> QED BY <2>1
<1>2. PICK d \in D : \A m \in D : d <= m
  <2> HIDE DEF D
  <2> QED BY <1>1, LeastNatural
<1>3. PICK x \in S : d = n - x
  BY <1>2
<1>4. \A y \in S : x >= y
  <2> SUFFICES ASSUME NEW y \in S PROVE x >= y
    OBVIOUS
  <2>1. n - y \in D /\ x \in Nat /\ y \in Nat
    BY <1>0
  <2>2. n - x <= n - y
    BY <1>2, <1>3, <2>1
  <2> QED BY <2>1, <2>2
<1>5. \E z \in S : \A y \in S : z >= y
  BY <1>4
<1>6. Max(S) \in S /\ \A y \in S : Max(S) >= y
  BY <1>5 DEF Max
<1>7. Max(S) \in Nat
  BY <1>0, <1>6
<1> QED BY <1>0, <1>6, <1>7

LEMMA SequencesJoined ==
  ASSUME NEW S, NEW a \in Seq(S), NEW b \in Seq(S)
  PROVE  /\ a \o b \in Seq(S) /\ Len(a \o b) = Len(a) + Len(b) /\ Len(a) \in Nat /\ Len(b) \in Nat
         /\ \A k \in 1..Len(a) : (a \o b)[k] = a[k]
         /\ \A k \in 1..Len(b) : (a \o b)[Len(a) + k] = b[k]
OBVIOUS

LEMMA SequenceCut ==
  ASSUME NEW S, NEW a \in Seq(S), NEW i \in Nat \ {0}, NEW j \in Nat, i <= j + 1, j <= Len(a)
  PROVE  /\ SubSeq(a, i, j) \in Seq(S) /\ Len(SubSeq(a, i, j)) = j - i + 1
         /\ \A k \in 1..(j - i + 1) : SubSeq(a, i, j)[k] = a[i + k - 1]
<1>1. /\ Len(SubSeq(a, i, j)) = j - i + 1
      /\ \A k \in 1..(j - i + 1) : SubSeq(a, i, j)[k] = a[i + k - 1]
  OBVIOUS
<1>2. \A k \in 1..(j - i + 1) : a[i + k - 1] \in S
  <2>1. \A x \in 1..Len(a) : a[x] \in S
    OBVIOUS
  <2>2. \A k \in 1..(j - i + 1) : i + k - 1 \in 1..Len(a)
    OBVIOUS
  <2> QED BY <2>1, <2>2
<1>3. SubSeq(a, i, j) \in Seq(S)
  BY <1>1, <1>2
<1> QED BY <1>1, <1>3
=============================================================================
