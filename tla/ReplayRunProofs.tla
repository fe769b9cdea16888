-------------------------- MODULE ReplayRunProofs ---------------------------
(***************************************************************************)
(* Theorems about the program from its arguments to its artifacts, for all *)
(* files, configurations and command lines: what the feed parser and the   *)
(* merge return, what the recorded hashes are of, what the accepted        *)
(* configuration is and what the exit code tells.                          *)
(***************************************************************************)
EXTENDS ReplayRun, DataLemmas, FiniteSetTheorems, TLAPS

-----------------------------------------------------------------------------
\* Powers of ten.

Powers(v, n) == v = [k \in 0..n |-> IF k = 0 THEN 1 ELSE 10 * v[k - 1]]

LEMMA PowersExist ==
  ASSUME NEW n \in Nat
  PROVE  \E v : Powers(v, n) /\ Pow10(n) = v[n]
<1> DEFINE h == [p \in Nat \X (1..n) |-> 10 * p[1]]
           v == CHOOSE v : v = [k \in 0..n |-> IF k = 0 THEN 1 ELSE 10 * v[k - 1]]
<1>1. \A m \in Nat : \A i \in 1..n : h[<<m, i>>] = 10 * m /\ h[<<m, i>>] \in Nat
  OBVIOUS
<1>2. PICK g : Folds(g, h, 1, SUBSET (1..n))
  <2> HIDE DEF h
  <2> QED BY FoldExists
<1>3. \A s \in SUBSET (1..n) : g[s] \in Nat
  <2>1. 1 \in Nat /\ \A m \in Nat : \A i \in 1..n : h[<<m, i>>] \in Nat
    BY <1>1
  <2> HIDE DEF h
  <2> QED BY <1>2, <2>1, FoldTyped
<1> DEFINE t == [k \in 0..n |-> g[1..k]]
<1>4. \A k \in 0..n : t[k] = IF k = 0 THEN 1 ELSE 10 * t[k - 1]
  <2> SUFFICES ASSUME NEW k \in 0..n
               PROVE  t[k] = IF k = 0 THEN 1 ELSE 10 * t[k - 1]
    OBVIOUS
  <2>1. CASE k = 0
    <3>1. 1..0 = {} /\ {} \in SUBSET (1..n)
      OBVIOUS
    <3>2. g[{}] = 1
      BY <1>2, <3>1 DEF Folds
    <3> QED BY <2>1, <3>1, <3>2
  <2>2. CASE k # 0
    <3>1. k \in 1..n /\ k - 1 \in 0..n
      BY <2>2
    <3>2. g[1..k] = h[<<g[(1..k) \ {Max(1..k)}], Max(1..k)>>]
      BY <1>2, <3>1, PrefixPlaces DEF Folds
    <3>3. g[1..k] = h[<<g[1..(k - 1)], k>>] /\ 1..(k - 1) \in SUBSET (1..n)
      BY <3>1, <3>2, PrefixPlaces
    <3>4. g[1..k] = 10 * g[1..(k - 1)]
      BY <1>1, <1>3, <3>1, <3>3
    <3> QED BY <2>2, <3>1, <3>4
  <2> QED BY <2>1, <2>2
<1>5. \E u : u = [k \in 0..n |-> IF k = 0 THEN 1 ELSE 10 * u[k - 1]]
  <2> DEFINE tt == [k \in 0..n |-> IF k = 0 THEN 1 ELSE 10 * t[k - 1]]
  <2>1. t = tt
    BY <1>4
  <2> QED BY <2>1
<1>6. Powers(v, n)
  BY <1>5 DEF Powers
<1>7. Pow10(n) = v[n]
  BY DEF Pow10
<1> QED BY <1>6, <1>7

LEMMA PowersAgree ==
  ASSUME NEW n \in Nat, NEW m \in Nat, NEW j \in 0..n, j <= m, NEW v, Powers(v, n), NEW u, Powers(u, m)
  PROVE  v[j] = u[j] /\ v[j] \in Nat
<1> DEFINE T == {k \in 0..j : ~(v[k] = u[k] /\ v[k] \in Nat)}
<1>1. 0 \notin T
  BY DEF Powers
<1>2. T = {}
  <2>1. SUFFICES ASSUME T # {} PROVE FALSE
    OBVIOUS
  <2>2. PICK k \in 1..j : k \in T /\ k - 1 \in 0..j /\ k - 1 \notin T
    <3>1. T \in SUBSET (0..j) /\ j \in Nat
      OBVIOUS
    <3> HIDE DEF T
    <3> QED BY <1>1, <2>1, <3>1, FirstBad
  <2>3. v[k] = 10 * v[k - 1] /\ u[k] = 10 * u[k - 1]
    <3>1. k \in 0..n /\ k \in 0..m /\ k # 0
      OBVIOUS
    <3> QED BY <3>1 DEF Powers
  <2> QED BY <2>2, <2>3
<1> QED BY <1>2

LEMMA PowerUnfolded ==
  ASSUME NEW n \in Nat
  PROVE  Pow10(n) \in Nat /\ Pow10(0) = 1 /\ Pow10(n + 1) = 10 * Pow10(n)
<1>1. PICK v : Powers(v, n) /\ Pow10(n) = v[n]
  BY PowersExist
<1>2. PICK u : Powers(u, n + 1) /\ Pow10(n + 1) = u[n + 1]
  BY PowersExist
<1>3. PICK w : Powers(w, 0) /\ Pow10(0) = w[0]
  BY PowersExist
<1>4. v[n] = u[n] /\ v[n] \in Nat
  BY <1>1, <1>2, PowersAgree
<1>5. u[n + 1] = 10 * u[n]
  <2>1. n + 1 \in 0..(n + 1) /\ n + 1 # 0 /\ (n + 1) - 1 = n
    OBVIOUS
  <2> QED BY <1>2, <2>1 DEF Powers
<1>6. w[0] = 1
  BY <1>3 DEF Powers
<1> QED BY <1>1, <1>2, <1>3, <1>4, <1>5, <1>6

LEMMA PowerPositive ==
  ASSUME NEW n \in Nat
  PROVE  Pow10(n) \in Nat /\ Pow10(n) > n
<1> DEFINE T == {k \in 0..n : ~(Pow10(k) > k)}
<1>1. 0 \notin T
  BY PowerUnfolded
<1>2. T = {}
  <2>1. SUFFICES ASSUME T # {} PROVE FALSE
    OBVIOUS
  <2>2. PICK k \in 1..n : k \in T /\ k - 1 \in 0..n /\ k - 1 \notin T
    <3>1. T \in SUBSET (0..n)
      OBVIOUS
    <3> HIDE DEF T
    <3> QED BY <1>1, <2>1, <3>1, FirstBad
  <2>3. PICK j \in Nat : j = k - 1 /\ k = j + 1 /\ Pow10(j) > j
    BY <2>2
  <2>4. Pow10(j) \in Nat /\ Pow10(j + 1) = 10 * Pow10(j)
    BY PowerUnfolded
  <2> QED BY <2>2, <2>3, <2>4
<1> QED BY <1>2, PowerUnfolded

LEMMA PowerAdd ==
  ASSUME NEW m \in Nat, NEW n \in Nat
  PROVE  Pow10(m + n) = Pow10(m) * Pow10(n)
<1> DEFINE T == {k \in 0..n : Pow10(m + k) # Pow10(m) * Pow10(k)}
<1>0. PICK a \in Nat : a = Pow10(m)
  BY PowerUnfolded
<1>1. 0 \notin T
  <2>1. Pow10(0) = 1 /\ m + 0 = m
    BY PowerUnfolded
  <2> QED BY <1>0, <2>1
<1>2. T = {}
  <2>1. SUFFICES ASSUME T # {} PROVE FALSE
    OBVIOUS
  <2>2. PICK k \in 1..n : k \in T /\ k - 1 \in 0..n /\ k - 1 \notin T
    <3>1. T \in SUBSET (0..n)
      OBVIOUS
    <3> HIDE DEF T
    <3> QED BY <1>1, <2>1, <3>1, FirstBad
  <2>3. PICK j \in Nat : j = k - 1 /\ k = j + 1 /\ Pow10(m + j) = Pow10(m) * Pow10(j)
    BY <2>2
  <2>4. PICK b \in Nat : b = Pow10(j) /\ Pow10(j + 1) = 10 * b
    BY PowerUnfolded
  <2>5. PICK i \in Nat : i = m + j /\ i + 1 = m + k
    BY <2>3
  <2>6. Pow10(i + 1) = 10 * Pow10(i)
    BY PowerUnfolded
  <2>7. Pow10(m + k) = 10 * (a * b) /\ Pow10(k) = 10 * b
    BY <1>0, <2>3, <2>4, <2>5, <2>6
  <2>8. 10 * (a * b) = a * (10 * b)
    OBVIOUS
  <2> QED BY <1>0, <2>2, <2>7, <2>8
<1>3. n \in 0..n
  OBVIOUS
<1> QED BY <1>2, <1>3

LEMMA PowerMonotone ==
  ASSUME NEW m \in Nat, NEW n \in Nat, m <= n
  PROVE  Pow10(m) <= Pow10(n)
<1>1. PICK d \in Nat : n = m + d
  <2>1. n - m \in Nat /\ n = m + (n - m)
    OBVIOUS
  <2> QED BY <2>1
<1>2. PICK a \in Nat, b \in Nat : a = Pow10(m) /\ b = Pow10(d) /\ b > 0
  BY PowerPositive
<1>3. Pow10(n) = a * b
  BY <1>1, <1>2, PowerAdd
<1>4. a <= a * b
  BY <1>2
<1> QED BY <1>2, <1>3, <1>4

-----------------------------------------------------------------------------
\* The number in the digits of the first k characters.
DigitsTo(t, k)  == Digits(t) \cap (1..k)
After(t, k, j)  == {i \in DigitsTo(t, k) : i > j}
WeightsTo(t, k) == [j \in DigitsTo(t, k) |-> (t[j] - Zero) * Pow10(Cardinality(After(t, k, j)))]
Value(t, k)     == SumFunctionOnSet(WeightsTo(t, k), DigitsTo(t, k))

LEMMA TextTyped ==
  ASSUME NEW t \in Texts
  PROVE  /\ Len(t) \in Nat /\ DOMAIN t = 1..Len(t) /\ Digits(t) \in SUBSET (1..Len(t))
         /\ \A k \in 1..Len(t) : t[k] \in Int /\ (k \in Digits(t) <=> IsDigit(t[k]))
         /\ \A k \in Digits(t) : t[k] - Zero \in 0..9
<1>1. t \in Seq(0..255)
  BY DEF Texts
<1>2. Len(t) \in Nat /\ DOMAIN t = 1..Len(t)
  BY <1>1
<1>3. ASSUME NEW k \in 1..Len(t) PROVE t[k] \in Int
  <2>1. \A S : \A s \in Seq(S) : \A i \in 1..Len(s) : s[i] \in S
    OBVIOUS
  <2>2. t[k] \in 0..255
    BY <1>1, <1>3, <2>1, SMTT(60)
  <2>3. \A c \in 0..255 : c \in Int
    OBVIOUS
  <2> QED BY <2>2, <2>3
<1>4. Digits(t) \in SUBSET (1..Len(t)) /\ \A k \in 1..Len(t) : k \in Digits(t) <=> IsDigit(t[k])
  BY <1>2 DEF Digits
<1>5. ASSUME NEW k \in Digits(t) PROVE t[k] - Zero \in 0..9
  <2>1. t[k] \in Zero..(Zero + 9)
    BY <1>5 DEF Digits, IsDigit
  <2> QED BY <2>1 DEF Zero
<1> QED BY <1>2, <1>3, <1>4, <1>5

LEMMA DigitsToTyped ==
  ASSUME NEW t \in Texts, NEW k \in Nat
  PROVE  /\ IsFiniteSet(DigitsTo(t, k))
         /\ \A j : IsFiniteSet(After(t, k, j)) /\ Cardinality(After(t, k, j)) \in Nat
         /\ \A j \in DigitsTo(t, k) : WeightsTo(t, k)[j] \in Nat
<1>1. DigitsTo(t, k) \in SUBSET (1..k) /\ \A j : After(t, k, j) \in SUBSET (1..k)
  BY DEF DigitsTo, After
<1>2. IsFiniteSet(DigitsTo(t, k)) /\ \A j : IsFiniteSet(After(t, k, j)) /\ Cardinality(After(t, k, j)) \in Nat
  BY <1>1, PlacesFinite
<1>3. ASSUME NEW j \in DigitsTo(t, k) PROVE WeightsTo(t, k)[j] \in Nat
  <2>1. t[j] - Zero \in 0..9
    BY TextTyped DEF DigitsTo
  <2>2. Pow10(Cardinality(After(t, k, j))) \in Nat
    BY <1>2, PowerUnfolded
  <2>3. WeightsTo(t, k)[j] = (t[j] - Zero) * Pow10(Cardinality(After(t, k, j)))
    BY DEF WeightsTo
  <2>4. \A a \in 0..9, b \in Nat : a * b \in Nat
    OBVIOUS
  <2> QED BY <2>1, <2>2, <2>3, <2>4
<1> QED BY <1>2, <1>3

LEMMA ValueTyped ==
  ASSUME NEW t \in Texts, NEW k \in Nat
  PROVE  Value(t, k) \in Nat
BY DigitsToTyped, SumNatural DEF Value

LEMMA ValueOfNone ==
  ASSUME NEW t \in Texts
  PROVE  Value(t, 0) = 0
<1>1. DigitsTo(t, 0) = {}
  BY DEF DigitsTo
<1> QED BY <1>1, SumEmpty DEF Value

LEMMA ValueOfAll ==
  ASSUME NEW t \in Texts
  PROVE  Value(t, Len(t)) = Whole(t)
<1>1. DigitsTo(t, Len(t)) = Digits(t)
  BY TextTyped DEF DigitsTo
<1>2. WeightsTo(t, Len(t)) = Weights(t)
  BY <1>1 DEF WeightsTo, Weights, After
<1> QED BY <1>1, <1>2 DEF Value, Whole

LEMMA ValueStep ==
  ASSUME NEW t \in Texts, NEW k \in Nat, k + 1 <= Len(t)
  PROVE  /\ IsDigit(t[k + 1]) => Value(t, k + 1) = 10 * Value(t, k) + (t[k + 1] - Zero)
         /\ ~IsDigit(t[k + 1]) => Value(t, k + 1) = Value(t, k)
<1> DEFINE S == DigitsTo(t, k)
           v == WeightsTo(t, k)
           w == WeightsTo(t, k + 1)
<1>0. k + 1 \in Nat /\ k + 1 \in 1..Len(t) /\ Len(t) \in Nat
  BY TextTyped
<1>1. CASE ~IsDigit(t[k + 1])
  <2>1. DigitsTo(t, k + 1) = S
    BY <1>0, <1>1, TextTyped DEF DigitsTo
  <2>2. w = v
    BY <2>1 DEF WeightsTo, After
  <2> QED BY <1>1, <2>1, <2>2 DEF Value
<1>2. CASE IsDigit(t[k + 1])
  <2>1. DigitsTo(t, k + 1) = S \cup {k + 1} /\ k + 1 \notin S
    BY <1>0, <1>2, TextTyped DEF DigitsTo
  <2>2. After(t, k + 1, k + 1) = {}
    BY DEF After, DigitsTo
  <2>3. w[k + 1] = t[k + 1] - Zero
    <3>1. w[k + 1] = (t[k + 1] - Zero) * Pow10(Cardinality(After(t, k + 1, k + 1)))
      BY <2>1 DEF WeightsTo
    <3>2. Pow10(Cardinality(After(t, k + 1, k + 1))) = 1
      BY <2>2, FS_EmptySet, PowerUnfolded
    <3>3. PICK a \in Int : a = t[k + 1] - Zero
      BY <1>0, TextTyped DEF Zero
    <3> QED BY <3>1, <3>2, <3>3
  <2>4. ASSUME NEW j \in S PROVE v[j] \in Int /\ w[j] = 10 * v[j]
    <3>1. After(t, k + 1, j) = After(t, k, j) \cup {k + 1} /\ k + 1 \notin After(t, k, j)
      BY <2>1 DEF After, DigitsTo
    <3>2. PICK n \in Nat : n = Cardinality(After(t, k, j)) /\ n + 1 = Cardinality(After(t, k + 1, j))
      <4>1. IsFiniteSet(After(t, k, j)) /\ Cardinality(After(t, k, j)) \in Nat
        BY DigitsToTyped
      <4> QED BY <3>1, <4>1, FS_AddElement, ZenonT(60)
    <3>3. PICK p \in Nat : Pow10(n) = p /\ Pow10(n + 1) = 10 * p
      BY PowerUnfolded
    <3>4. PICK a \in Int : a = t[j] - Zero
      BY TextTyped DEF DigitsTo
    <3>5. v[j] = a * p /\ w[j] = a * (10 * p)
      BY <2>1, <3>2, <3>3, <3>4 DEF WeightsTo
    <3>6. a * p \in Int /\ a * (10 * p) = 10 * (a * p)
      OBVIOUS
    <3> QED BY <3>5, <3>6
  <2>5. IsFiniteSet(S) /\ \A y \in S \cup {k + 1} : w[y] \in Int
    BY <1>0, <2>1, DigitsToTyped
  <2> HIDE DEF S, v, w
  <2>6. SumFunctionOnSet(w, S) = 10 * SumFunctionOnSet(v, S)
    BY <2>4, <2>5, SumScaled
  <2>7. SumFunctionOnSet(w, S \cup {k + 1}) = w[k + 1] + SumFunctionOnSet(w, S)
    BY <2>1, <2>5, SumAdd
  <2>8. Value(t, k + 1) = SumFunctionOnSet(w, S \cup {k + 1}) /\ Value(t, k) = SumFunctionOnSet(v, S)
    BY <2>1 DEF Value, S, v, w
  <2>9. PICK a \in Nat, b \in Int : a = Value(t, k) /\ b = t[k + 1] - Zero
    <3>1. t[k + 1] \in Int
      BY <1>0, TextTyped
    <3>2. t[k + 1] - Zero \in Int
      BY <3>1 DEF Zero
    <3> QED BY <3>2, ValueTyped
  <2>10. Value(t, k + 1) = b + 10 * a
    BY <2>3, <2>6, <2>7, <2>8, <2>9
  <2> QED BY <1>2, <2>9, <2>10
<1> QED BY <1>1, <1>2

-----------------------------------------------------------------------------
\* The state of parse_non_negative_decimal's loop.
Scans == [ok : BOOLEAN, coefficient : Nat, scale : Nat, digit : BOOLEAN, point : BOOLEAN]

LEMMA CharacterRead ==
  ASSUME NEW r \in Scans, NEW c \in Int
  PROVE  ReadCharacter(r, c) \in Scans
<1>1. r.coefficient \in Nat /\ r.scale \in Nat
  BY DEF Scans
<1>2. (IF IsDigit(c) THEN 10 * r.coefficient + (c - Zero) ELSE r.coefficient) \in Nat
  BY <1>1 DEF IsDigit, Zero
<1>3. (IF IsDigit(c) /\ r.point THEN r.scale + 1 ELSE r.scale) \in Nat
  BY <1>1
<1>4. /\ (r.ok /\ IF IsDigit(c) THEN Mul10AddFits(r.coefficient, c - Zero) ELSE c = Point /\ ~r.point) \in BOOLEAN
      /\ (r.digit \/ IsDigit(c)) \in BOOLEAN
      /\ (r.point \/ c = Point) \in BOOLEAN
  BY Zenon
<1> QED BY <1>2, <1>3, <1>4 DEF ReadCharacter, Scans

LEMMA ScanFolded ==
  ASSUME NEW b \in Texts, NEW start \in Scans
  PROVE  \E r : /\ r[0] = start
                /\ \A k \in 0..Len(b) : r[k] \in Scans
                /\ \A k \in 1..Len(b) : r[k] = ReadCharacter(r[k - 1], b[k])
                /\ FoldLeft(ReadCharacter, start, b) = r[Len(b)]
<1>0. PICK n \in Nat : n = Len(b) /\ DOMAIN b = 1..n
  BY TextTyped
<1> DEFINE Read(g) == [s \in SUBSET (DOMAIN b) |->
                         IF s = {} THEN start ELSE ReadCharacter(g[s \ {Max(s)}], b[Max(s)])]
           read == CHOOSE g : g = Read(g)
           h == [q \in Scans \X (1..n) |-> ReadCharacter(q[1], b[q[2]])]
<1>1. FoldLeft(ReadCharacter, start, b) = read[DOMAIN b]
  BY DEF FoldLeft, MapThenFoldSet
<1>2. \A i \in 1..n : b[i] \in Int
  BY <1>0, TextTyped
<1>3. \A v \in Scans : \A i \in 1..n : h[<<v, i>>] = ReadCharacter(v, b[i])
  OBVIOUS
<1>4. \A v \in Scans : \A i \in 1..n : h[<<v, i>>] \in Scans
  <2> HIDE DEF h
  <2> SUFFICES ASSUME NEW v \in Scans, NEW i \in 1..n PROVE h[<<v, i>>] \in Scans
    OBVIOUS
  <2>1. ReadCharacter(v, b[i]) \in Scans
    BY <1>2, CharacterRead
  <2> QED BY <1>3, <2>1
<1>5. PICK g : Folds(g, h, start, SUBSET (1..n))
  <2> HIDE DEF h
  <2> QED BY FoldExists
<1>6. \A s \in SUBSET (1..n) : g[s] \in Scans
  <2> HIDE DEF h
  <2> QED BY <1>4, <1>5, FoldTyped
<1>7. g = Read(g)
  <2> HIDE DEF h
  <2>1. \A s \in SUBSET (1..n) : s # {} =>
          h[<<g[s \ {Max(s)}], Max(s)>>] = ReadCharacter(g[s \ {Max(s)}], b[Max(s)])
    <3> SUFFICES ASSUME NEW s \in SUBSET (1..n), s # {}
                 PROVE  h[<<g[s \ {Max(s)}], Max(s)>>] = ReadCharacter(g[s \ {Max(s)}], b[Max(s)])
      OBVIOUS
    <3>1. Max(s) \in 1..n /\ g[s \ {Max(s)}] \in Scans
      BY <1>6, LastPlace, FewerPlaces
    <3> QED BY <1>3, <3>1
  <2>2. g = [s \in SUBSET (1..n) |-> IF s = {} THEN start ELSE h[<<g[s \ {Max(s)}], Max(s)>>]]
    BY <1>5 DEF Folds
  <2> QED BY <1>0, <2>1, <2>2
<1>8. read = Read(read)
  <2> HIDE DEF Read
  <2> QED BY <1>7
<1>9. /\ read[{}] = start
      /\ \A k \in 1..n : read[1..k] = ReadCharacter(read[1..(k - 1)], b[k])
  <2>1. \A s \in SUBSET (1..n) :
          Read(read)[s] = IF s = {} THEN start ELSE ReadCharacter(read[s \ {Max(s)}], b[Max(s)])
    <3> HIDE DEF read
    <3> QED BY <1>0
  <2>2. \A s \in SUBSET (1..n) :
          read[s] = IF s = {} THEN start ELSE ReadCharacter(read[s \ {Max(s)}], b[Max(s)])
    <3> HIDE DEF read, Read
    <3> QED BY <1>8, <2>1
  <2> HIDE DEF read, Read
  <2> QED BY <2>2, PrefixPlaces
<1> HIDE DEF read, Read
<1>10. \A k \in 0..n : read[1..k] \in Scans
  <2>1. \A k \in 1..n : read[1..(k - 1)] \in Scans => read[1..k] \in Scans
    BY <1>2, <1>9, CharacterRead
  <2>2. read[{}] \in Scans
    BY <1>9
  <2> QED BY <2>1, <2>2, PrefixTyped
<1> DEFINE r == [k \in 0..n |-> read[1..k]]
<1>11. r[0] = start
  <2>1. 1..0 = {}
    OBVIOUS
  <2> QED BY <1>9, <2>1
<1>12. \A k \in 0..n : r[k] = read[1..k]
  OBVIOUS
<1> HIDE DEF r
<1>13. \A k \in 1..n : r[k] = ReadCharacter(r[k - 1], b[k])
  <2> SUFFICES ASSUME NEW k \in 1..n PROVE r[k] = ReadCharacter(r[k - 1], b[k])
    OBVIOUS
  <2>1. k \in 0..n /\ k - 1 \in 0..n
    OBVIOUS
  <2> QED BY <1>9, <1>12, <2>1
<1> QED BY <1>0, <1>1, <1>10, <1>11, <1>12, <1>13, SMTT(60)

-----------------------------------------------------------------------------
\* What the loop knows after the first k characters of which it skipped the first o.
PointsTo(t, k) == Points(t) \cap (1..k)
Behind(t, k)   == {i \in DigitsTo(t, k) : \E p \in Points(t) : p < i}
Regular(t, o, k) ==
  /\ t # << >>
  /\ \A j \in (o + 1)..k : j \in Digits(t) \cup Points(t)
  /\ \A p, q \in PointsTo(t, k) : p = q
  /\ Value(t, k) <= MaxU64

ScannedTo(t, o, k, r) ==
  /\ r.coefficient = Value(t, k)
  /\ r.scale = Cardinality(Behind(t, k))
  /\ r.digit <=> DigitsTo(t, k) # {}
  /\ r.point <=> PointsTo(t, k) # {}
  /\ r.ok <=> Regular(t, o, k)

LEMMA FitsExactly ==
  ASSUME NEW v \in Nat, NEW d \in 0..9
  PROVE  Mul10AddFits(v, d) <=> 10 * v + d <= MaxU64
BY WidthsAssumption DEF Mul10AddFits

LEMMA ScanStep ==
  ASSUME NEW t \in Texts, NEW o \in Nat, NEW k \in Nat, o <= k, k + 1 <= Len(t),
         NEW r \in Scans, ScannedTo(t, o, k, r)
  PROVE  ScannedTo(t, o, k + 1, ReadCharacter(r, t[k + 1]))
<1> DEFINE c == t[k + 1]
           n == ReadCharacter(r, c)
<1>0. /\ k + 1 \in Nat /\ k + 1 \in 1..Len(t) /\ c \in Int /\ DOMAIN t = 1..Len(t) /\ Len(t) \in Nat
      /\ (k + 1 \in Digits(t) <=> IsDigit(c)) /\ (k + 1 \in Points(t) <=> c = Point)
      /\ ~(IsDigit(c) /\ c = Point)
  <2>1. k + 1 \in Nat /\ k + 1 \in 1..Len(t) /\ c \in Int /\ DOMAIN t = 1..Len(t) /\ Len(t) \in Nat
    BY TextTyped
  <2> QED BY <2>1, SMTT(60) DEF Digits, Points, IsDigit, Zero, Point
<1>1. /\ DigitsTo(t, k + 1) = IF IsDigit(c) THEN DigitsTo(t, k) \cup {k + 1} ELSE DigitsTo(t, k)
      /\ PointsTo(t, k + 1) = IF c = Point THEN PointsTo(t, k) \cup {k + 1} ELSE PointsTo(t, k)
  <2>1. 1..(k + 1) = (1..k) \cup {k + 1}
    BY <1>0
  <2> QED BY <1>0, <2>1 DEF DigitsTo, PointsTo
<1>2. PointsTo(t, k) # {} <=> \E p \in Points(t) : p < k + 1
  BY <1>0 DEF PointsTo, Points
<1>3. Value(t, k) \in Nat /\ Value(t, k + 1) = IF IsDigit(c) THEN 10 * Value(t, k) + (c - Zero) ELSE Value(t, k)
  BY ValueStep, ValueTyped
<1>4. n.coefficient = Value(t, k + 1)
  BY <1>3 DEF ReadCharacter, ScannedTo
<1>5. n.digit <=> DigitsTo(t, k + 1) # {}
  <2>1. n.digit <=> r.digit \/ IsDigit(c)
    BY DEF ReadCharacter
  <2> QED BY <1>1, <2>1 DEF ScannedTo
<1>6. n.point <=> PointsTo(t, k + 1) # {}
  <2>1. n.point <=> r.point \/ c = Point
    BY DEF ReadCharacter
  <2> QED BY <1>1, <2>1 DEF ScannedTo
<1>7. n.scale = Cardinality(Behind(t, k + 1))
  <2>1. n.scale = IF IsDigit(c) /\ r.point THEN r.scale + 1 ELSE r.scale
    BY DEF ReadCharacter
  <2>2. r.point <=> \E p \in Points(t) : p < k + 1
    BY <1>2 DEF ScannedTo
  <2>3. CASE IsDigit(c) /\ r.point
    <3>1. Behind(t, k + 1) = Behind(t, k) \cup {k + 1} /\ k + 1 \notin Behind(t, k)
      BY <1>1, <2>2, <2>3 DEF Behind, DigitsTo
    <3>2. IsFiniteSet(Behind(t, k))
      <4>1. Behind(t, k) \in SUBSET (1..k)
        BY DEF Behind, DigitsTo
      <4> QED BY <4>1, PlacesFinite
    <3>3. Cardinality(Behind(t, k + 1)) = Cardinality(Behind(t, k)) + 1
      BY <3>1, <3>2, FS_AddElement
    <3> QED BY <2>1, <2>3, <3>3 DEF ScannedTo
  <2>4. CASE ~(IsDigit(c) /\ r.point)
    <3>1. Behind(t, k + 1) = Behind(t, k)
      BY <1>1, <2>2, <2>4 DEF Behind
    <3> QED BY <2>1, <2>4, <3>1 DEF ScannedTo
  <2> QED BY <2>3, <2>4
<1>8. n.ok <=> r.ok /\ IF IsDigit(c) THEN Mul10AddFits(r.coefficient, c - Zero) ELSE c = Point /\ ~r.point
  BY DEF ReadCharacter
<1>9. \A j : j \in (o + 1)..(k + 1) <=> j \in (o + 1)..k \/ j = k + 1
  BY <1>0
<1>10. CASE IsDigit(c)
  <2>1. c - Zero \in 0..9 /\ c # Point
    BY <1>0, <1>10 DEF IsDigit, Zero
  <2>2. n.ok <=> r.ok /\ Value(t, k + 1) <= MaxU64
    BY <1>3, <1>8, <1>10, <2>1, FitsExactly DEF ScannedTo
  <2>3. Value(t, k + 1) <= MaxU64 => Value(t, k) <= MaxU64
    BY <1>3, <1>10, <2>1, WidthsAssumption, SMTT(60)
  <2>4. Regular(t, o, k + 1) <=> Regular(t, o, k) /\ Value(t, k + 1) <= MaxU64
    BY <1>0, <1>1, <1>9, <1>10, <2>1, <2>3 DEF Regular
  <2> QED BY <1>4, <1>5, <1>6, <1>7, <2>2, <2>4 DEF ScannedTo
<1>11. CASE c = Point
  <2>1. n.ok <=> r.ok /\ PointsTo(t, k) = {}
    BY <1>0, <1>8, <1>11 DEF ScannedTo
  <2>2. Value(t, k + 1) = Value(t, k)
    BY <1>0, <1>3, <1>11
  <2>3. PointsTo(t, k + 1) = PointsTo(t, k) \cup {k + 1} /\ k + 1 \notin PointsTo(t, k)
    BY <1>1, <1>11 DEF PointsTo
  <2>4. (\A p, q \in PointsTo(t, k + 1) : p = q) <=> PointsTo(t, k) = {}
    BY <2>3
  <2>5. Regular(t, o, k + 1) <=> Regular(t, o, k) /\ PointsTo(t, k) = {}
    BY <1>0, <1>9, <1>11, <2>2, <2>4 DEF Regular
  <2> QED BY <1>4, <1>5, <1>6, <1>7, <2>1, <2>5 DEF ScannedTo
<1>12. CASE ~IsDigit(c) /\ c # Point
  <2>1. ~n.ok
    BY <1>8, <1>12
  <2>2. ~Regular(t, o, k + 1)
    <3>1. k + 1 \in (o + 1)..(k + 1) /\ k + 1 \notin Digits(t) \cup Points(t)
      BY <1>0, <1>12
    <3> QED BY <3>1 DEF Regular
  <2> QED BY <1>4, <1>5, <1>6, <1>7, <2>1, <2>2 DEF ScannedTo
<1> QED BY <1>10, <1>11, <1>12

\* What the loop begins with, behind a plus.
Skipped(t) == IF t # << >> /\ t[1] = Plus THEN 1 ELSE 0
Start(t) == [ok |-> t # << >>, coefficient |-> 0, scale |-> 0, digit |-> FALSE, point |-> FALSE]

LEMMA NothingScanned ==
  ASSUME NEW t \in Texts
  PROVE  /\ Start(t) \in Scans /\ Skipped(t) \in Nat /\ Skipped(t) <= Len(t)
         /\ ScannedTo(t, Skipped(t), Skipped(t), Start(t))
<1> DEFINE o == Skipped(t)
<1>1. (t # << >>) \in BOOLEAN
  BY Zenon
<1>2. Start(t) \in Scans
  BY <1>1 DEF Start, Scans
<1>3. o \in Nat /\ o <= Len(t) /\ (o = 0 \/ (o = 1 /\ t # << >> /\ t[1] = Plus /\ 1 <= Len(t)))
  <2>1. Len(t) \in Nat /\ (t # << >> => 1 <= Len(t))
    BY DEF Texts
  <2> QED BY <2>1 DEF Skipped
<1>4. DigitsTo(t, o) = {} /\ PointsTo(t, o) = {}
  BY <1>3 DEF DigitsTo, PointsTo, Digits, Points, IsDigit, Plus, Zero, Point
<1>5. Value(t, o) = 0
  BY <1>4, SumEmpty DEF Value
<1>6. Cardinality(Behind(t, o)) = 0
  BY <1>4, FS_EmptySet DEF Behind
<1>7. Start(t).ok <=> t # << >>
  BY DEF Start
<1>8. Regular(t, o, o) <=> t # << >>
  <2>1. (o + 1)..o = {}
    BY <1>3
  <2>2. 0 <= MaxU64
    BY WidthsAssumption
  <2> HIDE DEF o
  <2> QED BY <1>4, <1>5, <2>1, <2>2 DEF Regular
<1>9. Start(t).coefficient = 0 /\ Start(t).scale = 0 /\ ~Start(t).digit /\ ~Start(t).point
  BY DEF Start
<1> HIDE DEF o
<1>10. ScannedTo(t, o, o, Start(t))
  BY <1>4, <1>5, <1>6, <1>7, <1>8, <1>9 DEF ScannedTo
<1> QED BY <1>2, <1>3, <1>10 DEF o

LEMMA BodyRead ==
  ASSUME NEW t \in Texts, NEW b, b = IF t # << >> /\ t[1] = Plus THEN Tail(t) ELSE t
  PROVE  /\ b \in Texts /\ Len(t) = Len(b) + Skipped(t)
         /\ \A k \in 1..Len(b) : b[k] = t[k + Skipped(t)]
<1>1. t \in Seq(0..255)
  BY DEF Texts
<1>2. CASE t # << >> /\ t[1] = Plus
  <2>1. b = Tail(t) /\ Skipped(t) = 1
    BY <1>2 DEF Skipped
  <2>2. b \in Seq(0..255) /\ Len(t) = Len(b) + 1
    BY <1>1, <1>2, <2>1
  <2>3. \A k \in 1..Len(b) : b[k] = t[k + 1]
    BY <1>1, <1>2, <2>1, <2>2
  <2> QED BY <2>1, <2>2, <2>3 DEF Texts
<1>3. CASE ~(t # << >> /\ t[1] = Plus)
  <2>1. b = t /\ Skipped(t) = 0 /\ Len(t) \in Nat
    BY <1>1, <1>3 DEF Skipped
  <2> QED BY <2>1
<1> QED BY <1>2, <1>3

LEMMA AllScanned ==
  ASSUME NEW t \in Texts
  PROVE  Scanned(t) \in Scans /\ ScannedTo(t, Skipped(t), Len(t), Scanned(t))
<1> DEFINE o == Skipped(t)
<1>1. PICK b : b = IF t # << >> /\ t[1] = Plus THEN Tail(t) ELSE t
  OBVIOUS
<1>2. /\ b \in Texts /\ Len(b) \in Nat /\ Len(t) = Len(b) + o
      /\ \A k \in 1..Len(b) : b[k] = t[k + o]
  BY <1>1, BodyRead, TextTyped
<1>3. Start(t) \in Scans /\ o \in Nat /\ o <= Len(t) /\ ScannedTo(t, o, o, Start(t))
  BY NothingScanned
<1>4. Scanned(t) = FoldLeft(ReadCharacter, Start(t), b)
  BY <1>1 DEF Scanned, Start
<1>5. PICK r : /\ r[0] = Start(t)
               /\ \A k \in 0..Len(b) : r[k] \in Scans
               /\ \A k \in 1..Len(b) : r[k] = ReadCharacter(r[k - 1], b[k])
               /\ FoldLeft(ReadCharacter, Start(t), b) = r[Len(b)]
  BY <1>2, <1>3, ScanFolded
<1> HIDE DEF o
<1> DEFINE T == {k \in 0..Len(b) : ~ScannedTo(t, o, o + k, r[k])}
<1>6. 0 \notin T
  <2>1. o + 0 = o
    BY <1>3
  <2> QED BY <1>3, <1>5, <2>1
<1>7. T = {}
  <2>1. SUFFICES ASSUME T # {} PROVE FALSE
    OBVIOUS
  <2>2. PICK k \in 1..Len(b) : k \in T /\ k - 1 \in 0..Len(b) /\ k - 1 \notin T
    <3>1. T \in SUBSET (0..Len(b))
      OBVIOUS
    <3> HIDE DEF T
    <3> QED BY <1>2, <1>6, <2>1, <3>1, FirstBad
  <2>3. PICK i \in Nat : i = o + (k - 1) /\ i + 1 = o + k /\ i + 1 = k + o
    BY <1>3, <2>2
  <2>4. o <= i /\ i + 1 <= Len(t)
    BY <1>2, <1>3, <2>2, <2>3
  <2>5. r[k - 1] \in Scans /\ ScannedTo(t, o, i, r[k - 1])
    BY <1>5, <2>2, <2>3
  <2>6. ScannedTo(t, o, i + 1, ReadCharacter(r[k - 1], t[i + 1]))
    BY <1>3, <2>4, <2>5, ScanStep
  <2>7. r[k] = ReadCharacter(r[k - 1], t[i + 1])
    BY <1>2, <1>5, <2>2, <2>3
  <2> QED BY <2>2, <2>3, <2>6, <2>7
<1>8. Len(b) \in 0..Len(b) /\ o + Len(b) = Len(t)
  BY <1>2, <1>3
<1>9. ScannedTo(t, o, Len(t), r[Len(b)])
  BY <1>7, <1>8
<1> QED BY <1>4, <1>5, <1>8, <1>9 DEF o

LEMMA PointsAreOne ==
  ASSUME NEW t \in Texts
  PROVE  Cardinality(Points(t)) <= 1 <=> \A p, q \in Points(t) : p = q
<1>1. IsFiniteSet(Points(t)) /\ Cardinality(Points(t)) \in Nat /\ Points(t) \in SUBSET (1..Len(t))
  <2>1. Points(t) \in SUBSET (1..Len(t)) /\ Len(t) \in Nat
    BY TextTyped DEF Points
  <2> QED BY <2>1, PlacesFinite
<1>2. CASE Points(t) = {}
  BY <1>2, FS_EmptySet
<1>3. ASSUME NEW p \in Points(t)
      PROVE  Cardinality(Points(t)) <= 1 <=> \A x, y \in Points(t) : x = y
  <2> DEFINE S == Points(t) \ {p}
  <2>1. IsFiniteSet(S) /\ Cardinality(S) = Cardinality(Points(t)) - 1 /\ Cardinality(S) \in Nat
    <3>1. Cardinality(S) = Cardinality(Points(t)) - 1 /\ IsFiniteSet(S)
      BY <1>1, <1>3, FS_RemoveElement
    <3> QED BY <3>1, FS_CardinalityType
  <2>2. Cardinality(S) = 0 <=> S = {}
    BY <2>1, FS_EmptySet
  <2>3. S = {} <=> \A x, y \in Points(t) : x = y
    BY <1>3
  <2>4. Cardinality(Points(t)) <= 1 <=> Cardinality(S) = 0
    <3> HIDE DEF S
    <3> QED BY <1>1, <2>1
  <2> QED BY <2>2, <2>3, <2>4
<1> QED BY <1>2, <1>3

(* parse_non_negative_decimal accepts decimal notation whose digits fit,   *)
(* and reads the number it denotes.                                        *)
THEOREM ScanMeans ==
  ASSUME NEW t \in Texts
  PROVE  /\ Scanned(t).coefficient = Whole(t) /\ Scanned(t).scale = Places(t)
         /\ Whole(t) \in Nat /\ Places(t) \in Nat
         /\ IsDecimal(t) <=> Plain(t) /\ Whole(t) <= MaxU64
<1> DEFINE n == Len(t)
           r == Scanned(t)
           o == Skipped(t)
<1>1. r \in Scans /\ ScannedTo(t, o, n, r)
  BY AllScanned
<1>2. DOMAIN t = 1..n /\ n \in Nat /\ Digits(t) \in SUBSET (1..n) /\ Points(t) \in SUBSET (1..n)
  BY TextTyped DEF Points
<1>3. DigitsTo(t, n) = Digits(t) /\ PointsTo(t, n) = Points(t)
  BY <1>2 DEF DigitsTo, PointsTo
<1>4. Value(t, n) = Whole(t) /\ Whole(t) \in Nat
  BY <1>2, ValueOfAll, ValueTyped
<1>5. Behind(t, n) = {k \in Digits(t) : \E p \in Points(t) : p < k}
  BY <1>3 DEF Behind
<1>6. r.scale = Places(t) /\ r.coefficient = Whole(t)
  BY <1>1, <1>4, <1>5 DEF ScannedTo, Places
<1>7. Places(t) \in Nat
  BY <1>1, <1>6 DEF Scans
<1>8. IsDecimal(t) <=> Regular(t, o, n) /\ Digits(t) # {}
  BY <1>1, <1>3 DEF IsDecimal, ScannedTo
<1>9. Digits(t) # {} => t # << >>
  BY DEF Digits
<1>10. ASSUME t # << >>
       PROVE  (\A j \in (o + 1)..n : j \in Digits(t) \cup Points(t))
                <=> DOMAIN t = Digits(t) \cup Points(t) \cup (IF t[1] = Plus THEN {1} ELSE {})
  <2>1. 1 \in 1..n
    BY <1>2, <1>10 DEF Texts
  <2>2. CASE t[1] = Plus
    <3>1. o = 1
      BY <1>10, <2>2 DEF Skipped
    <3>2. \A j : j \in 1..n <=> j = 1 \/ j \in (o + 1)..n
      BY <1>2, <2>1, <3>1
    <3>3. 1 \notin (o + 1)..n
      BY <1>2, <3>1
    <3>4. 1 \notin Digits(t) \cup Points(t)
      BY <2>2 DEF Digits, Points, IsDigit, Zero, Plus, Point
    <3> HIDE DEF o, n
    <3> QED BY <1>2, <2>2, <3>2, <3>3, <3>4
  <2>3. CASE t[1] # Plus
    <3>1. o = 0 /\ (o + 1)..n = 1..n
      BY <2>3 DEF Skipped
    <3> HIDE DEF o, n
    <3> QED BY <1>2, <2>3, <3>1
  <2> QED BY <2>2, <2>3
<1> HIDE DEF n, r, o
<1>11. Regular(t, o, n) <=> /\ t # << >> /\ Whole(t) <= MaxU64 /\ Cardinality(Points(t)) <= 1
                            /\ \A j \in (o + 1)..n : j \in Digits(t) \cup Points(t)
  BY <1>3, <1>4, PointsAreOne DEF Regular
<1>12. IsDecimal(t) <=> Plain(t) /\ Whole(t) <= MaxU64
  BY <1>8, <1>9, <1>10, <1>11 DEF Plain
<1> QED BY <1>4, <1>6, <1>7, <1>12 DEF r

LEMMA Divided ==
  ASSUME NEW a \in Nat, NEW b \in Nat, b > 0
  PROVE  /\ a \div b \in Nat /\ a % b \in Nat /\ a % b < b
         /\ a = b * (a \div b) + (a % b)
OBVIOUS

LEMMA DivideExactly ==
  ASSUME NEW a \in Nat, NEW b \in Nat, b > 0, NEW n \in Nat, a = n * b
  PROVE  a % b = 0 /\ a \div b = n
OBVIOUS

(* The coefficient and scale that are left without the final zeros.        *)
LEMMA DecimalIs ==
  ASSUME NEW t \in Texts
  PROVE  \E z \in 0..Places(t) :
           /\ Decimal(t).coefficient \in Nat /\ Decimal(t).scale \in Nat
           /\ Whole(t) = Decimal(t).coefficient * Pow10(z)
           /\ Places(t) = Decimal(t).scale + z
           /\ \A y \in 0..Places(t) : Whole(t) % Pow10(y) = 0 => y <= z
<1>1. /\ Scanned(t).coefficient = Whole(t) /\ Scanned(t).scale = Places(t)
      /\ Whole(t) \in Nat /\ Places(t) \in Nat
  BY ScanMeans
<1> DEFINE S == {z \in 0..Places(t) : Whole(t) % Pow10(z) = 0}
           z == Max(S)
<1>2. S \in SUBSET (0..Places(t)) /\ 0 \in S
  <2>1. Whole(t) % Pow10(0) = 0
    BY <1>1, PowerUnfolded
  <2> QED BY <1>1, <2>1
<1>3. z \in S /\ \A y \in S : y <= z
  <2> HIDE DEF S
  <2> QED BY <1>1, <1>2, LargestNumber
<1>4. Decimal(t) = [coefficient |-> Whole(t) \div Pow10(z), scale |-> Places(t) - z]
  BY <1>1 DEF Decimal
<1>5. z \in 0..Places(t) /\ z \in Nat /\ Whole(t) % Pow10(z) = 0
  BY <1>1, <1>3
<1>6. \A y \in 0..Places(t) : Whole(t) % Pow10(y) = 0 => y <= z
  BY <1>3
<1> HIDE DEF S, z
<1>7. PICK p \in Nat : p = Pow10(z) /\ p > 0
  BY <1>5, PowerPositive
<1>8. Whole(t) \div p \in Nat /\ Whole(t) = (Whole(t) \div p) * p
  <2>1. PICK q \in Nat : q = Whole(t) \div p
    BY <1>1, <1>7, Divided
  <2>2. Whole(t) = p * q + 0
    BY <1>1, <1>5, <1>7, <2>1, Divided, ZenonT(60)
  <2>3. p * q + 0 = q * p
    OBVIOUS
  <2> QED BY <2>1, <2>2, <2>3
<1>9. Places(t) - z \in Nat /\ Places(t) = (Places(t) - z) + z
  BY <1>1, <1>5
<1> QED BY <1>4, <1>5, <1>6, <1>7, <1>8, <1>9

LEMMA FitsIs ==
  ASSUME NEW t \in Texts
  PROVE  Fits(t) <=> Whole(t) <= MaxU64 /\ Pow10Fits(Decimal(t).scale)
<1>1. PICK z \in 0..Places(t) :
           /\ Decimal(t).coefficient \in Nat /\ Decimal(t).scale \in Nat
           /\ Whole(t) = Decimal(t).coefficient * Pow10(z)
           /\ Places(t) = Decimal(t).scale + z
           /\ \A y \in 0..Places(t) : Whole(t) % Pow10(y) = 0 => y <= z
  BY DecimalIs
<1>2. PICK s \in Nat, c \in Nat : s = Decimal(t).scale /\ c = Decimal(t).coefficient
  BY <1>1
<1>3. Places(t) \in Nat /\ z \in Nat /\ Whole(t) \in Nat
  BY ScanMeans
<1>4. ASSUME NEW m \in 0..Places(t), Pow10(m) <= MaxU64, Whole(t) % Pow10(Places(t) - m) = 0
      PROVE  Pow10Fits(s)
  <2>1. Places(t) - m \in 0..Places(t)
    BY <1>3
  <2>2. Places(t) - m <= z
    BY <1>1, <1>4, <2>1
  <2>3. s <= m /\ m \in Nat
    BY <1>1, <1>2, <1>3, <2>2
  <2>4. Pow10(s) <= Pow10(m) /\ Pow10(s) \in Nat /\ Pow10(m) \in Nat
    BY <2>3, PowerMonotone, PowerPositive
  <2>5. Pow10(s) <= MaxU64
    BY <1>4, <2>4, WidthsAssumption
  <2> QED BY <2>5 DEF Pow10Fits
<1>5. ASSUME Pow10Fits(s)
      PROVE  \E m \in 0..Places(t) : Pow10(m) <= MaxU64 /\ Whole(t) % Pow10(Places(t) - m) = 0
  <2>1. s \in 0..Places(t) /\ Places(t) - s = z
    BY <1>1, <1>2, <1>3
  <2>2. PICK p \in Nat : p = Pow10(z) /\ p > 0
    BY <1>3, PowerPositive
  <2>3. Whole(t) = c * p
    BY <1>1, <1>2, <2>2
  <2>4. Whole(t) % p = 0
    BY <1>3, <2>2, <2>3, DivideExactly
  <2>5. Pow10(s) <= MaxU64
    BY <1>5 DEF Pow10Fits
  <2> QED BY <2>1, <2>2, <2>4, <2>5
<1> QED BY <1>2, <1>4, <1>5 DEF Fits

(* validate_tick_size accepts the positive decimals that fit. *)
LEMMA TickSizeIs ==
  ASSUME NEW t \in Texts
  PROVE  IsTickSize(t) <=> GoodTick(t)
<1>1. PICK z \in 0..Places(t) : /\ Decimal(t).coefficient \in Nat
                                /\ Whole(t) = Decimal(t).coefficient * Pow10(z)
  BY DecimalIs
<1>2. /\ Whole(t) \in Nat /\ Places(t) \in Nat /\ z \in Nat
      /\ IsDecimal(t) <=> Plain(t) /\ Whole(t) <= MaxU64
  BY ScanMeans
<1>3. PICK c \in Nat, p \in Nat : c = Decimal(t).coefficient /\ p = Pow10(z) /\ p > 0
  BY <1>1, <1>2, PowerPositive
<1>4. c > 0 <=> c * p > 0
  BY <1>3
<1>5. Decimal(t).coefficient > 0 <=> Whole(t) > 0
  BY <1>1, <1>3, <1>4
<1>6. Whole(t) \in 1..MaxU64 <=> Whole(t) > 0 /\ Whole(t) <= MaxU64
  BY <1>2, WidthsAssumption
<1> QED BY <1>2, <1>5, <1>6 DEF IsTickSize, GoodTick

LEMMA Canceled ==
  ASSUME NEW a \in Nat, NEW b \in Nat, NEW m \in Nat, m > 0
  PROVE  a * m = b * m <=> a = b
OBVIOUS

\* The quotient of price_to_ticks and the one of the two numbers as written.
LEMMA SameQuotient ==
  ASSUME NEW price \in Texts, NEW tick \in Texts, IsTickSize(tick)
  PROVE  /\ Numerator(price, tick) \in Nat /\ Denominator(price, tick) \in Nat
         /\ Denominator(price, tick) > 0
         /\ \A n \in Nat : Numerator(price, tick) = n * Denominator(price, tick)
                             <=> Whole(price) * Pow10(Places(tick)) = n * Whole(tick) * Pow10(Places(price))
<1>1. PICK x \in 0..Places(price) :
           /\ Decimal(price).coefficient \in Nat /\ Decimal(price).scale \in Nat
           /\ Whole(price) = Decimal(price).coefficient * Pow10(x)
           /\ Places(price) = Decimal(price).scale + x
  BY DecimalIs
<1>2. PICK y \in 0..Places(tick) :
           /\ Decimal(tick).coefficient \in Nat /\ Decimal(tick).scale \in Nat
           /\ Whole(tick) = Decimal(tick).coefficient * Pow10(y)
           /\ Places(tick) = Decimal(tick).scale + y
  BY DecimalIs
<1>3. PICK c \in Nat, s \in Nat : c = Decimal(price).coefficient /\ s = Decimal(price).scale
  BY <1>1
<1>4. PICK d \in Nat, u \in Nat : d = Decimal(tick).coefficient /\ u = Decimal(tick).scale /\ d > 0
  BY <1>2 DEF IsTickSize
<1>5. x \in Nat /\ y \in Nat
  BY ScanMeans
<1>6. PICK px \in Nat, ps \in Nat : px = Pow10(x) /\ ps = Pow10(s) /\ px > 0 /\ ps > 0
  BY <1>5, PowerPositive
<1>7. PICK py \in Nat, pu \in Nat : py = Pow10(y) /\ pu = Pow10(u) /\ py > 0 /\ pu > 0
  BY <1>5, PowerPositive
<1>8. Numerator(price, tick) = c * pu /\ Denominator(price, tick) = d * ps
  BY <1>3, <1>4, <1>6, <1>7 DEF Numerator, Denominator
<1>9. c * pu \in Nat /\ d * ps \in Nat /\ d * ps > 0
  BY <1>4, <1>6
<1>10. Whole(price) = c * px /\ Whole(tick) = d * py
  BY <1>1, <1>2, <1>3, <1>4, <1>6, <1>7
<1>11. Pow10(Places(tick)) = pu * py /\ Pow10(Places(price)) = ps * px
  <2>1. Pow10(u + y) = Pow10(u) * Pow10(y) /\ Pow10(s + x) = Pow10(s) * Pow10(x)
    BY <1>5, PowerAdd
  <2>2. Places(tick) = u + y /\ Places(price) = s + x
    BY <1>1, <1>2, <1>3, <1>4
  <2> QED BY <1>6, <1>7, <2>1, <2>2
<1>12. ASSUME NEW n \in Nat
       PROVE  c * pu = n * (d * ps) <=> (c * px) * (pu * py) = n * (d * py) * (ps * px)
  <2>1. (c * px) * (pu * py) = (c * pu) * (px * py)
    OBVIOUS
  <2>2. n * (d * py) * (ps * px) = (n * (d * ps)) * (px * py)
    OBVIOUS
  <2>3. px * py \in Nat /\ px * py > 0
    BY <1>6, <1>7
  <2>4. PICK a \in Nat, b \in Nat, m \in Nat : a = c * pu /\ b = n * (d * ps) /\ m = px * py /\ m > 0
    BY <2>3
  <2> QED BY <2>1, <2>2, <2>4, Canceled
<1> QED BY <1>8, <1>9, <1>10, <1>11, <1>12

LEMMA QuotientIs ==
  ASSUME NEW a \in Nat, NEW b \in Nat, b > 0
  PROVE  a % b = 0 => a \div b \in Nat /\ a = (a \div b) * b
<1>1. PICK q \in Nat, r \in Nat : q = a \div b /\ r = a % b /\ a = b * q + r
  BY Divided
<1>2. r = 0 => b * q + r = q * b
  OBVIOUS
<1> QED BY <1>1, <1>2

(* price_to_ticks accepts the prices that are a whole number of ticks, and *)
(* returns that number.                                                    *)
THEOREM ConvertsIs ==
  ASSUME NEW price \in Texts, NEW tick \in Texts, IsTickSize(tick)
  PROVE  /\ Converts(price, tick) <=> GoodPrice(price, tick)
         /\ Converts(price, tick) => /\ PriceToTicks(price, tick) \in 0..MaxI64
                                     /\ IsTicks(PriceToTicks(price, tick), price, tick)
         /\ \A n \in Nat : IsTicks(n, price, tick) => PriceToTicks(price, tick) = n
<1>1. PICK a \in Nat, b \in Nat : a = Numerator(price, tick) /\ b = Denominator(price, tick) /\ b > 0
  BY SameQuotient
<1>2. \A n \in Nat : a = n * b <=> IsTicks(n, price, tick)
  BY <1>1, SameQuotient DEF IsTicks
<1>3. a % b = 0 => a \div b \in Nat /\ a = (a \div b) * b
  BY <1>1, QuotientIs
<1>4. \A n \in Nat : a = n * b => a % b = 0 /\ a \div b = n
  BY <1>1, DivideExactly
<1>5. PriceToTicks(price, tick) = a \div b
  BY <1>1 DEF PriceToTicks
<1>6. a % b = 0 /\ a \div b <= MaxI64 <=> \E n \in 0..MaxI64 : IsTicks(n, price, tick)
  <2>1. ASSUME a % b = 0, a \div b <= MaxI64 PROVE \E n \in 0..MaxI64 : IsTicks(n, price, tick)
    <3>1. a \div b \in 0..MaxI64
      BY <1>3, <2>1, WidthsAssumption
    <3> QED BY <1>2, <1>3, <2>1, <3>1
  <2>2. ASSUME NEW n \in 0..MaxI64, IsTicks(n, price, tick) PROVE a % b = 0 /\ a \div b <= MaxI64
    <3>1. n \in Nat /\ n <= MaxI64
      BY WidthsAssumption
    <3> QED BY <1>2, <1>4, <2>2, <3>1
  <2> QED BY <2>1, <2>2
<1>7. (IsDecimal(price) <=> Plain(price) /\ Whole(price) <= MaxU64) /\ Whole(tick) <= MaxU64
  BY ScanMeans DEF IsTickSize
<1>8. /\ Fits(price) <=> Whole(price) <= MaxU64 /\ Pow10Fits(Decimal(price).scale)
      /\ Fits(tick) <=> Whole(tick) <= MaxU64 /\ Pow10Fits(Decimal(tick).scale)
  BY FitsIs
<1>9. GoodPrice(price, tick) <=> Plain(price) /\ Fits(price) /\ Fits(tick) /\ \E n \in 0..MaxI64 : IsTicks(n, price, tick)
  <2>1. PICK w \in Nat, e \in Nat : w = Whole(tick) /\ e = Pow10(Places(price))
    BY ScanMeans, PowerPositive
  <2>2. \A n \in 0..MaxI64 : n * (w * e) = n * w * e
    BY WidthsAssumption
  <2> QED BY <2>1, <2>2 DEF GoodPrice, IsTicks
<1>10. Converts(price, tick) <=> /\ IsDecimal(price) /\ Pow10Fits(Decimal(tick).scale) /\ Pow10Fits(Decimal(price).scale)
                                 /\ a % b = 0 /\ a \div b <= MaxI64
  BY <1>1 DEF Converts
<1>11. Converts(price, tick) <=> GoodPrice(price, tick)
  BY <1>6, <1>7, <1>8, <1>9, <1>10
<1>12. ASSUME Converts(price, tick)
       PROVE  PriceToTicks(price, tick) \in 0..MaxI64 /\ IsTicks(PriceToTicks(price, tick), price, tick)
  <2>1. a % b = 0 /\ a \div b <= MaxI64
    BY <1>10, <1>12
  <2>2. a \div b \in Nat /\ a = (a \div b) * b
    BY <1>3, <2>1
  <2> QED BY <1>2, <1>5, <2>1, <2>2, WidthsAssumption
<1>13. \A n \in Nat : IsTicks(n, price, tick) => PriceToTicks(price, tick) = n
  BY <1>2, <1>4, <1>5
<1> QED BY <1>11, <1>12, <1>13

LEMMA NumberFolded ==
  ASSUME NEW t \in Texts
  PROVE  \E r : /\ r[0] = 0
                /\ \A k \in 0..Len(t) : r[k] \in Int
                /\ \A k \in 1..Len(t) : r[k] = 10 * r[k - 1] + (t[k] - Zero)
                /\ Number(t) = r[Len(t)]
<1>0. PICK n \in Nat : n = Len(t) /\ DOMAIN t = 1..n
  BY TextTyped
<1> DEFINE Step(m, c) == 10 * m + (c - Zero)
           Read(g) == [s \in SUBSET (DOMAIN t) |->
                         IF s = {} THEN 0 ELSE Step(g[s \ {Max(s)}], t[Max(s)])]
           read == CHOOSE g : g = Read(g)
           h == [q \in Int \X (1..n) |-> Step(q[1], t[q[2]])]
<1>1. Number(t) = read[DOMAIN t]
  BY DEF Number, FoldLeft, MapThenFoldSet
<1>2. \A i \in 1..n : t[i] \in Int
  BY <1>0, TextTyped
<1>3. \A m \in Int : \A c \in Int : Step(m, c) \in Int
  BY DEF Zero
<1> HIDE DEF Step
<1>4. \A v \in Int : \A i \in 1..n : h[<<v, i>>] = Step(v, t[i]) /\ h[<<v, i>>] \in Int
  BY <1>2, <1>3
<1>5. PICK g : Folds(g, h, 0, SUBSET (1..n))
  <2> HIDE DEF h
  <2> QED BY FoldExists
<1>6. \A s \in SUBSET (1..n) : g[s] \in Int
  <2>1. 0 \in Int /\ \A v \in Int : \A i \in 1..n : h[<<v, i>>] \in Int
    BY <1>4, SMTT(60)
  <2> HIDE DEF h
  <2> QED BY <1>5, <2>1, FoldTyped
<1>7. g = Read(g)
  <2> HIDE DEF h
  <2>1. \A s \in SUBSET (1..n) : s # {} =>
          h[<<g[s \ {Max(s)}], Max(s)>>] = Step(g[s \ {Max(s)}], t[Max(s)])
    <3> SUFFICES ASSUME NEW s \in SUBSET (1..n), s # {}
                 PROVE  h[<<g[s \ {Max(s)}], Max(s)>>] = Step(g[s \ {Max(s)}], t[Max(s)])
      OBVIOUS
    <3>1. Max(s) \in 1..n /\ g[s \ {Max(s)}] \in Int
      BY <1>6, LastPlace, FewerPlaces
    <3> QED BY <1>4, <3>1
  <2>2. g = [s \in SUBSET (1..n) |-> IF s = {} THEN 0 ELSE h[<<g[s \ {Max(s)}], Max(s)>>]]
    BY <1>5 DEF Folds
  <2> QED BY <1>0, <2>1, <2>2
<1>8. read = Read(read)
  <2> HIDE DEF Read
  <2> QED BY <1>7
<1>9. /\ read[{}] = 0
      /\ \A k \in 1..n : read[1..k] = Step(read[1..(k - 1)], t[k])
  <2>1. \A s \in SUBSET (1..n) :
          Read(read)[s] = IF s = {} THEN 0 ELSE Step(read[s \ {Max(s)}], t[Max(s)])
    <3> HIDE DEF read
    <3> QED BY <1>0
  <2>2. \A s \in SUBSET (1..n) :
          read[s] = IF s = {} THEN 0 ELSE Step(read[s \ {Max(s)}], t[Max(s)])
    <3> HIDE DEF read, Read
    <3> QED BY <1>8, <2>1
  <2> HIDE DEF read, Read
  <2> QED BY <2>2, PrefixPlaces
<1> HIDE DEF read, Read
<1>10. \A k \in 0..n : read[1..k] \in Int
  <2>1. \A k \in 1..n : read[1..(k - 1)] \in Int => read[1..k] \in Int
    BY <1>2, <1>3, <1>9, ZenonT(60)
  <2>2. read[{}] \in Int
    BY <1>9
  <2> QED BY <2>1, <2>2, PrefixTyped
<1> DEFINE r == [k \in 0..n |-> read[1..k]]
<1>11. r[0] = 0
  <2>1. 1..0 = {}
    OBVIOUS
  <2> QED BY <1>9, <2>1
<1>12. \A k \in 0..n : r[k] = read[1..k]
  OBVIOUS
<1> HIDE DEF r
<1>13. \A k \in 1..n : r[k] = 10 * r[k - 1] + (t[k] - Zero)
  <2> SUFFICES ASSUME NEW k \in 1..n PROVE r[k] = 10 * r[k - 1] + (t[k] - Zero)
    OBVIOUS
  <2>1. k \in 0..n /\ k - 1 \in 0..n
    OBVIOUS
  <2> QED BY <1>9, <1>12, <2>1 DEF Step
<1> QED BY <1>0, <1>1, <1>10, <1>11, <1>12, <1>13, SMTT(60)

(* parse_non_negative_int64 accepts the digits that fit, and reads their number. *)
LEMMA NumberIs ==
  ASSUME NEW t \in Texts
  PROVE  /\ IsNumber(t) <=> GoodTicks(t)
         /\ IsNumber(t) => Number(t) = Whole(t) /\ Number(t) \in 0..MaxI64
<1>0. PICK n \in Nat : n = Len(t) /\ DOMAIN t = 1..n /\ \A k \in 1..n : k \in Digits(t) <=> IsDigit(t[k])
  BY TextTyped
<1>1. (\A k \in DOMAIN t : IsDigit(t[k])) <=> Digits(t) = DOMAIN t
  BY DEF Digits
<1>2. Value(t, n) = Whole(t) /\ Whole(t) \in Nat
  BY <1>0, ValueOfAll, ValueTyped
<1>3. ASSUME \A k \in DOMAIN t : IsDigit(t[k]) PROVE Number(t) = Whole(t)
  <2>1. PICK r : /\ r[0] = 0
                 /\ \A k \in 1..n : r[k] = 10 * r[k - 1] + (t[k] - Zero)
                 /\ Number(t) = r[n]
    BY <1>0, NumberFolded
  <2> DEFINE T == {k \in 0..n : r[k] # Value(t, k)}
  <2>2. 0 \notin T
    BY <2>1, ValueOfNone
  <2>3. T = {}
    <3>1. SUFFICES ASSUME T # {} PROVE FALSE
      OBVIOUS
    <3>2. PICK k \in 1..n : k \in T /\ k - 1 \in 0..n /\ k - 1 \notin T
      <4>1. T \in SUBSET (0..n)
        OBVIOUS
      <4> HIDE DEF T
      <4> QED BY <2>2, <3>1, <4>1, FirstBad
    <3>3. PICK j \in Nat : j = k - 1 /\ j + 1 = k /\ j + 1 <= Len(t) /\ IsDigit(t[j + 1])
      BY <1>0, <1>3, <3>2
    <3>4. Value(t, j + 1) = 10 * Value(t, j) + (t[j + 1] - Zero)
      BY <3>3, ValueStep
    <3> QED BY <2>1, <3>2, <3>3, <3>4
  <2>4. n \in 0..n
    OBVIOUS
  <2> QED BY <1>2, <2>1, <2>3, <2>4
<1>4. IsNumber(t) <=> GoodTicks(t)
  BY <1>1, <1>3 DEF IsNumber, GoodTicks
<1>5. IsNumber(t) => Number(t) = Whole(t) /\ Number(t) \in 0..MaxI64
  BY <1>2, <1>3, WidthsAssumption DEF IsNumber
<1> QED BY <1>4, <1>5

LEMMA QuotientUnique ==
  ASSUME NEW a \in Nat, NEW b \in Nat, b > 0, NEW q \in Nat, NEW r \in Nat, r < b, a = b * q + r
  PROVE  a \div b = q
OBVIOUS

\* One digit more of a number.
LEMMA DigitStep ==
  ASSUME NEW n \in Nat, NEW i \in Nat
  PROVE  /\ n \div Pow10(i) \in Nat /\ (n \div Pow10(i)) % 10 \in 0..9
         /\ n \div Pow10(i) = 10 * (n \div Pow10(i + 1)) + ((n \div Pow10(i)) % 10)
<1>1. PICK p \in Nat : p = Pow10(i) /\ p > 0 /\ Pow10(i + 1) = 10 * p
  BY PowerPositive, PowerUnfolded
<1>2. PICK a \in Nat, r \in Nat : a = n \div p /\ r < p /\ n = p * a + r
  <2>1. /\ n \div p \in Nat /\ n % p \in Nat /\ n % p < p
        /\ n = p * (n \div p) + (n % p)
    BY <1>1, Divided
  <2> QED BY <2>1
<1>3. PICK b \in Nat, d \in 0..9 : b = a \div 10 /\ d = a % 10 /\ a = 10 * b + d
  OBVIOUS
<1>4. n = (10 * p) * b + (p * d + r)
  <2>1. p * (10 * b + d) = (10 * p) * b + p * d
    OBVIOUS
  <2>2. PICK x \in Nat, y \in Nat : x = p * d /\ y = (10 * p) * b
    OBVIOUS
  <2>3. n = p * a + r /\ p * a = y + x
    BY <1>2, <1>3, <2>1, <2>2
  <2>4. n = y + (x + r)
    BY <2>3
  <2> QED BY <2>2, <2>4
<1>5. p * d + r \in Nat /\ p * d + r < 10 * p
  <2>1. p * d <= p * 9 /\ p * d \in Nat
    OBVIOUS
  <2> QED BY <1>2, <2>1
<1>6. n \div (10 * p) = b
  <2>1. PICK m \in Nat, x \in Nat : m = 10 * p /\ x = p * d + r /\ m > 0 /\ x < m /\ n = m * b + x
    BY <1>1, <1>4, <1>5
  <2> QED BY <2>1, QuotientUnique
<1> QED BY <1>1, <1>2, <1>3, <1>6

\* The k-th of w digits of n.
DigitOf(n, w, k) == Zero + ((n \div Pow10(w - k)) % 10)

\* t is n in w digits, with the point at q if s of them come behind it.
LaidOut(t, n, w, s, q) ==
  /\ q = (IF s = 0 THEN w + 1 ELSE w - s + 1)
  /\ Len(t) = (IF s = 0 THEN w ELSE w + 1)
  /\ \A k \in 1..Len(t) : t[k] = IF k < q THEN DigitOf(n, w, k)
                                 ELSE IF k = q THEN Point ELSE DigitOf(n, w, k - 1)

LEMMA WrittenMeans ==
  ASSUME NEW n \in Nat, NEW w \in Nat, NEW s \in Nat, s < w, n < Pow10(w), NEW t \in Texts,
         NEW q \in Nat, LaidOut(t, n, w, s, q)
  PROVE  Plain(t) /\ Whole(t) = n /\ Places(t) = s
<1>9. /\ q = (IF s = 0 THEN w + 1 ELSE w - s + 1)
        /\ Len(t) = (IF s = 0 THEN w ELSE w + 1)
        /\ \A k \in 1..Len(t) : t[k] = IF k < q THEN DigitOf(n, w, k)
                                       ELSE IF k = q THEN Point ELSE DigitOf(n, w, k - 1)
  BY DEF LaidOut
<1> USE <1>9
<1> DEFINE At(k) == w - (IF k < q THEN k ELSE k - 1)
<1>0. /\ q \in 2..(w + 1) /\ Len(t) \in w..(w + 1) /\ w \in Nat \ {0} /\ Len(t) \in Nat \ {0}
      /\ (s = 0 <=> q = Len(t) + 1) /\ (s # 0 <=> Len(t) = w + 1) /\ (s # 0 => q < Len(t))
      /\ DOMAIN t = 1..Len(t)
  <2>1. DOMAIN t = 1..Len(t)
    BY TextTyped
  <2>2. CASE s = 0
    <3>1. q = w + 1 /\ Len(t) = w
      BY <2>2
    <3> QED BY <2>1, <2>2, <3>1
  <2>3. CASE s # 0
    <3>1. q = w - s + 1 /\ Len(t) = w + 1
      BY <2>3
    <3> QED BY <2>1, <2>3, <3>1
  <2> QED BY <2>2, <2>3
<1>1. ASSUME NEW k \in 1..Len(t)
      PROVE  /\ At(k) \in Nat /\ (k = q => ~IsDigit(t[k]) /\ t[k] = Point)
             /\ k # q => IsDigit(t[k]) /\ t[k] # Point /\ t[k] # Plus /\ t[k] = Zero + ((n \div Pow10(At(k))) % 10)
  <2>1. At(k) \in Nat
    BY <1>0, SMTT(60)
  <2>2. CASE k = q
    <3>1. t[k] = Point
      BY <2>2
    <3> QED BY <2>1, <2>2, <3>1 DEF IsDigit, Zero, Point
  <2>3. CASE k # q
    <3>1. t[k] = Zero + ((n \div Pow10(At(k))) % 10)
      BY <1>0, <2>3 DEF DigitOf
    <3>2. (n \div Pow10(At(k))) % 10 \in 0..9
      BY <2>1, DigitStep
    <3>3. PICK a \in Nat : a = At(k)
      BY <2>1
    <3>4. PICK d \in 0..9 : d = (n \div Pow10(a)) % 10
      BY <3>2, <3>3
    <3> HIDE DEF At
    <3>5. t[k] = Zero + d
      BY <3>1, <3>3, <3>4
    <3>6. IsDigit(t[k]) /\ t[k] # Point /\ t[k] # Plus
      <4> HIDE <1>9
      <4> QED BY <3>5 DEF IsDigit, Zero, Point, Plus
    <3>7. t[k] = Zero + ((n \div Pow10(At(k))) % 10)
      BY <3>1
    <3> QED BY <2>1, <2>3, <3>6, <3>7
  <2> QED BY <2>2, <2>3
<1>2. Digits(t) = (1..Len(t)) \ {q} /\ Points(t) = {q} \cap (1..Len(t))
  BY <1>0, <1>1 DEF Digits, Points
<1> DEFINE T == {k \in 0..Len(t) : Value(t, k) # n \div Pow10(At(k))}
<1>3. 0 \notin T
  <2>1. At(0) = w
    BY <1>0
  <2>2. PICK p \in Nat : p = Pow10(w) /\ p > 0 /\ n < p
    BY PowerPositive
  <2>3. n = p * 0 + n
    BY <2>2
  <2>4. n \div p = 0
    BY <2>2, <2>3, QuotientUnique
  <2> HIDE DEF At
  <2> QED BY <2>1, <2>2, <2>4, ValueOfNone
<1>4. T = {}
  <2>1. SUFFICES ASSUME T # {} PROVE FALSE
    OBVIOUS
  <2>2. PICK k \in 1..Len(t) : k \in T /\ k - 1 \in 0..Len(t) /\ k - 1 \notin T
    <3>1. T \in SUBSET (0..Len(t)) /\ Len(t) \in Nat
      BY <1>0
    <3> HIDE DEF T
    <3> QED BY <1>3, <2>1, <3>1, FirstBad
  <2>3. PICK j \in Nat : j = k - 1 /\ j + 1 = k /\ j + 1 <= Len(t)
    BY <1>0, <2>2
  <2>4. Value(t, j) = n \div Pow10(At(j)) /\ Value(t, k) # n \div Pow10(At(k))
    BY <2>2, <2>3
  <2>5. CASE k = q
    <3>1. At(k) = At(j)
      BY <2>3, <2>5
    <3>2. Value(t, k) = Value(t, j)
      BY <1>1, <2>2, <2>3, <2>5, ValueStep
    <3> HIDE DEF At
    <3> QED BY <2>4, <3>1, <3>2
  <2>6. CASE k # q
    <3>1. At(j) = At(k) + 1 /\ At(k) \in Nat
      BY <1>1, <2>2, <2>3, <2>6, SMTT(60)
    <3>2. IsDigit(t[k]) /\ t[k] = Zero + ((n \div Pow10(At(k))) % 10)
      BY <1>1, <2>2, <2>6
    <3> HIDE DEF At
    <3>3. Value(t, k) = 10 * Value(t, j) + (t[k] - Zero)
      BY <2>3, <3>2, ValueStep
    <3>4. PICK a \in Nat, d \in 0..9 : a = n \div Pow10(At(k)) /\ d = a % 10 /\ a = 10 * (n \div Pow10(At(k) + 1)) + d
      <4>1. PICK i \in Nat : i = At(k)
        BY <3>1
      <4>2. /\ n \div Pow10(i) \in Nat /\ (n \div Pow10(i)) % 10 \in 0..9
            /\ n \div Pow10(i) = 10 * (n \div Pow10(i + 1)) + ((n \div Pow10(i)) % 10)
        BY DigitStep
      <4> QED BY <4>1, <4>2
    <3>5. t[k] - Zero = d
      BY <3>2, <3>4 DEF Zero
    <3> QED BY <2>4, <3>1, <3>3, <3>4, <3>5
  <2> QED BY <2>5, <2>6
<1>5. Whole(t) = n
  <2>1. At(Len(t)) = 0 /\ Len(t) \in 0..Len(t)
    BY <1>0
  <2>2. Pow10(0) = 1
    BY PowerUnfolded
  <2>3. n \div 1 = n
    OBVIOUS
  <2> HIDE DEF At
  <2> QED BY <1>4, <2>1, <2>2, <2>3, ValueOfAll
<1>6. Places(t) = s
  <2>1. CASE s = 0
    <3>1. {k \in Digits(t) : \E p \in Points(t) : p < k} = {}
      BY <1>0, <1>2, <2>1
    <3> QED BY <2>1, <3>1, FS_EmptySet DEF Places
  <2>2. CASE s # 0
    <3>1. Points(t) = {q} /\ Len(t) = w + 1 /\ q = w - s + 1
      BY <1>0, <1>2, <2>2
    <3>2. {k \in Digits(t) : \E p \in Points(t) : p < k} = (q + 1)..(w + 1)
      <4>1. \A k : k \in Digits(t) <=> k \in 1..(w + 1) /\ k # q
        BY <1>2, <3>1
      <4>2. \A k \in 1..(w + 1) : k # q /\ q < k <=> k \in (q + 1)..(w + 1)
        BY <1>0
      <4>3. \A k \in (q + 1)..(w + 1) : k \in 1..(w + 1)
        BY <1>0
      <4> QED BY <3>1, <4>1, <4>2, <4>3
    <3>3. Cardinality((q + 1)..(w + 1)) = s
      <4>1. q + 1 \in Int /\ w + 1 \in Int
        OBVIOUS
      <4>2. Cardinality((q + 1)..(w + 1)) = IF q + 1 > w + 1 THEN 0 ELSE (w + 1) - (q + 1) + 1
        BY <4>1, FS_Interval
      <4> QED BY <2>2, <3>1, <4>2
    <3> QED BY <3>2, <3>3 DEF Places
  <2> QED BY <2>1, <2>2
<1>7. Plain(t)
  <2>1. Digits(t) # {}
    <3>1. 1 \in Digits(t)
      BY <1>0, <1>2
    <3> QED BY <3>1
  <2>2. Cardinality(Points(t)) <= 1
    BY <1>2, PointsAreOne
  <2>3. t[1] # Plus
    BY <1>0, <1>1
  <2>4. DOMAIN t = Digits(t) \cup Points(t)
    BY <1>0, <1>2
  <2> QED BY <2>1, <2>2, <2>3, <2>4 DEF Plain
<1> QED BY <1>5, <1>6, <1>7

\* The width that format_scaled_decimal gives to a number.
LEMMA WidthExists ==
  ASSUME NEW n \in Nat, NEW s \in Nat
  PROVE  \E w \in 1..(n + s + 1) : w > s /\ n < Pow10(w) /\ (w = s + 1 \/ Pow10(w - 1) <= n)
<1> DEFINE T == {k \in Nat : k > s /\ n < Pow10(k)}
<1>1. n + s + 1 \in T
  <2>1. PICK m \in Nat : m = n + s + 1 /\ m > s /\ m > n
    OBVIOUS
  <2>2. Pow10(m) \in Nat /\ Pow10(m) > m
    BY PowerPositive
  <2> QED BY <2>1, <2>2
<1>2. PICK w \in T : \A k \in T : w <= k
  <2>1. T \in SUBSET Nat /\ T # {}
    BY <1>1
  <2> HIDE DEF T
  <2> QED BY <2>1, LeastNatural
<1>3. w \in Nat /\ w > s /\ n < Pow10(w) /\ w <= n + s + 1
  BY <1>1, <1>2
<1>4. w = s + 1 \/ Pow10(w - 1) <= n
  <2>1. SUFFICES ASSUME w # s + 1, ~(Pow10(w - 1) <= n) PROVE FALSE
    OBVIOUS
  <2>2. PICK k \in Nat : k = w - 1 /\ k > s /\ ~(w <= k)
    BY <1>3, <2>1
  <2>3. Pow10(k) \in Nat
    BY PowerPositive
  <2>4. k \in T
    BY <2>1, <2>2, <2>3
  <2> QED BY <1>2, <2>2, <2>4
<1> QED BY <1>3, <1>4

\* Where the part behind the point begins.
LEMMA PartPlaces ==
  ASSUME NEW m \in Nat, NEW s \in Nat
  PROVE  /\ m + 1 \in Nat \ {0} /\ m + 1 <= (m + s) + 1
         /\ (m + s) - (m + 1) + 1 = s /\ (m + s) - s + 1 = m + 1
OBVIOUS

(* format_scaled_decimal writes the number it is given, with all places. *)
LEMMA FormatMeans ==
  ASSUME NEW ticks \in Nat, NEW tick \in Texts, NEW n \in Nat, NEW s \in Nat,
         n = ticks * Decimal(tick).coefficient, s = Decimal(tick).scale,
         NEW t, t = TicksToPrice(ticks, tick)
  PROVE  t \in Texts /\ Plain(t) /\ Whole(t) = n /\ Places(t) = s
<1> DEFINE Fit(x) == x > s /\ n < Pow10(x) /\ (x = s + 1 \/ Pow10(x - 1) <= n)
           width == CHOOSE x \in 1..(n + s + 1) : Fit(x)
           Written(x) == [k \in 1..x |-> Zero + ((n \div Pow10(x - k)) % 10)]
           Laid(x, d) == IF s = 0 THEN d ELSE SubSeq(d, 1, x - s) \o <<Point>> \o SubSeq(d, x - s + 1, x)
<1>1. width \in 1..(n + s + 1) /\ width > s /\ n < Pow10(width)
  <2>1. \E x \in 1..(n + s + 1) : Fit(x)
    BY WidthExists
  <2>2. width \in 1..(n + s + 1) /\ Fit(width)
    <3> HIDE DEF Fit
    <3> QED BY <2>1
  <2> HIDE DEF width
  <2> QED BY <2>2
<1>2. t = Laid(width, Written(width))
  BY DEF TicksToPrice
<1> HIDE DEF width, Laid, Written
<1>3. PICK w \in Nat : w > s /\ n < Pow10(w) /\ t = Laid(w, Written(w))
  BY <1>1, <1>2
<1>4. PICK C : C = 0..255
  OBVIOUS
<1>5. PICK d : d = Written(w)
  OBVIOUS
<1>6. d \in Seq(C) /\ Len(d) = w /\ \A k \in 1..w : d[k] = DigitOf(n, w, k)
  <2>1. ASSUME NEW k \in 1..w PROVE DigitOf(n, w, k) \in C
    <3>1. PICK i \in Nat : i = w - k
      BY <1>3
    <3>2. (n \div Pow10(i)) % 10 \in 0..9
      BY DigitStep
    <3> QED BY <1>4, <3>1, <3>2 DEF Zero, DigitOf
  <2>2. d = [k \in 1..w |-> DigitOf(n, w, k)]
    BY <1>5 DEF Written, DigitOf
  <2>3. d \in [1..w -> C] /\ \A k \in 1..w : d[k] = DigitOf(n, w, k)
    BY <2>1, <2>2
  <2>4. d \in Seq(C) /\ Len(d) = w
    BY <1>3, <2>3
  <2> QED BY <2>3, <2>4
<1>7. PICK q \in Nat : q = (IF s = 0 THEN w + 1 ELSE w - s + 1)
  BY <1>3
<1>8. SUFFICES /\ t \in Seq(C)
               /\ Len(t) = (IF s = 0 THEN w ELSE w + 1)
               /\ \A k \in 1..Len(t) : t[k] = IF k < q THEN DigitOf(n, w, k)
                                               ELSE IF k = q THEN Point ELSE DigitOf(n, w, k - 1)
  <2>1. t \in Texts
    BY <1>4, <1>8 DEF Texts
  <2>2. s < w /\ n < Pow10(w)
    BY <1>3
  <2>3. LaidOut(t, n, w, s, q)
    BY <1>7, <1>8 DEF LaidOut
  <2> QED BY <2>1, <2>2, <2>3, WrittenMeans
<1>9. CASE s = 0
  <2>1. t = d /\ q = w + 1 /\ w \in Nat
    BY <1>3, <1>5, <1>7, <1>9 DEF Laid
  <2>2. \A k \in 1..w : k < q
    BY <2>1
  <2> QED BY <1>6, <1>9, <2>1, <2>2
<1>10. CASE s # 0
  <2>1. PICK whole, part, left : /\ whole = SubSeq(d, 1, w - s) /\ part = SubSeq(d, w - s + 1, w)
                                 /\ left = whole \o <<Point>> /\ t = left \o part
    BY <1>3, <1>5, <1>10 DEF Laid
  <2>2. PICK m \in Nat : m = w - s
    BY <1>3
  <2>3. m # 0 /\ q = m + 1 /\ w = m + s /\ w \in Nat
    BY <1>3, <1>7, <1>10, <2>2
  <2>4. /\ whole \in Seq(C) /\ Len(whole) = m
        /\ \A k \in 1..m : whole[k] = d[k]
    <3>1. m <= Len(d) /\ 1 <= m + 1 /\ m - 1 + 1 = m /\ 1 \in Nat \ {0}
      BY <1>6, <2>3
    <3>2. /\ SubSeq(d, 1, m) \in Seq(C) /\ Len(SubSeq(d, 1, m)) = m - 1 + 1
          /\ \A k \in 1..(m - 1 + 1) : SubSeq(d, 1, m)[k] = d[1 + k - 1]
      BY <1>6, <3>1, SequenceCut
    <3>3. \A k \in 1..m : 1 + k - 1 = k
      BY <3>1, SMTT(60)
    <3> QED BY <2>1, <2>2, <3>1, <3>2, <3>3
  <2>5. /\ part \in Seq(C) /\ Len(part) = s
        /\ \A k \in 1..s : part[k] = d[m + k]
    <3>0. q \in Nat \ {0} /\ q <= w + 1 /\ w - q + 1 = s /\ w - s + 1 = q
      <4>1. q = m + 1 /\ w = m + s
        BY <2>3
      <4>2. /\ m + 1 \in Nat \ {0} /\ m + 1 <= (m + s) + 1
            /\ (m + s) - (m + 1) + 1 = s /\ (m + s) - s + 1 = m + 1
        BY PartPlaces
      <4> QED BY <4>1, <4>2, Zenon
    <3>1. w <= Len(d) /\ w \in Nat
      BY <1>6, <2>3
    <3>2. /\ SubSeq(d, q, w) \in Seq(C) /\ Len(SubSeq(d, q, w)) = w - q + 1
          /\ \A k \in 1..(w - q + 1) : SubSeq(d, q, w)[k] = d[q + k - 1]
      <4>1. d \in Seq(C) /\ q \in Nat \ {0} /\ w \in Nat /\ q <= w + 1 /\ w <= Len(d)
        BY <1>6, <3>0, <3>1
      <4> QED BY <4>1, SequenceCut
    <3>3. \A k \in 1..s : q + k - 1 = m + k
      BY <2>3
    <3> QED BY <2>1, <3>0, <3>2, <3>3, ZenonT(60)
  <2>6. <<Point>> \in Seq(C) /\ Len(<<Point>>) = 1 /\ <<Point>>[1] = Point
    BY <1>4 DEF Point
  <2>7. /\ left \in Seq(C) /\ Len(left) = m + 1
        /\ \A k \in 1..m : left[k] = whole[k]
        /\ left[m + 1] = Point
    <3>1. PICK one : one = <<Point>> /\ one \in Seq(C) /\ Len(one) = 1 /\ one[1] = Point
      BY <2>6
    <3>2. /\ whole \o one \in Seq(C) /\ Len(whole \o one) = Len(whole) + Len(one)
          /\ \A k \in 1..Len(whole) : (whole \o one)[k] = whole[k]
          /\ \A k \in 1..Len(one) : (whole \o one)[Len(whole) + k] = one[k]
      BY <2>4, <3>1, SequencesJoined
    <3>3. left = whole \o one
      BY <2>1, <3>1
    <3>4. 1 \in 1..Len(one)
      BY <3>1
    <3> QED BY <2>4, <3>1, <3>2, <3>3, <3>4
  <2>8. /\ t \in Seq(C) /\ Len(t) = q + s
        /\ \A k \in 1..q : t[k] = left[k]
        /\ \A k \in 1..s : t[q + k] = part[k]
    <3>0. left \in Seq(C) /\ part \in Seq(C) /\ Len(left) = q /\ Len(part) = s
      BY <2>3, <2>5, <2>7
    <3>1. /\ left \o part \in Seq(C) /\ Len(left \o part) = Len(left) + Len(part)
          /\ \A k \in 1..Len(left) : (left \o part)[k] = left[k]
          /\ \A k \in 1..Len(part) : (left \o part)[Len(left) + k] = part[k]
      <4>1. PICK a \in Seq(C), b \in Seq(C) : a = left /\ b = part
        BY <3>0, SMTT(60)
      <4> QED BY <4>1, SequencesJoined
    <3>2. t = left \o part
      BY <2>1
    <3>3. Len(t) = q + s /\ t \in Seq(C)
      BY <3>0, <3>1, <3>2
    <3>4. \A k \in 1..q : t[k] = left[k]
      BY <3>0, <3>1, <3>2, Zenon
    <3>5. \A k \in 1..s : t[q + k] = part[k]
      BY <3>0, <3>1, <3>2, Zenon
    <3> QED BY <3>3, <3>4, <3>5
  <2>9. q + s = w + 1
    BY <2>3
  <2>10. \A k \in 1..(w + 1) : t[k] = IF k < q THEN DigitOf(n, w, k)
                                       ELSE IF k = q THEN Point ELSE DigitOf(n, w, k - 1)
    <3> SUFFICES ASSUME NEW k \in 1..(w + 1)
                 PROVE  t[k] = IF k < q THEN DigitOf(n, w, k)
                               ELSE IF k = q THEN Point ELSE DigitOf(n, w, k - 1)
      OBVIOUS
    <3>1. CASE k < q
      <4>1. k \in 1..m /\ k \in 1..q /\ k \in 1..w
        BY <2>3, <3>1
      <4>2. t[k] = left[k] /\ left[k] = whole[k] /\ whole[k] = d[k] /\ d[k] = DigitOf(n, w, k)
        BY <1>6, <2>4, <2>7, <2>8, <4>1
      <4> QED BY <3>1, <4>2
    <3>2. CASE k = q
      <4>1. q \in 1..q /\ q = m + 1
        BY <2>3
      <4> QED BY <2>7, <2>8, <3>2, <4>1
    <3>3. CASE k > q
      <4>1. PICK j \in 1..s : k = q + j
        <5>1. k - q \in 1..s /\ k = q + (k - q)
          BY <2>3, <3>3
        <5> QED BY <5>1
      <4>2. m + j = k - 1 /\ k - 1 \in 1..w
        BY <2>3, <4>1
      <4>3. t[k] = part[j] /\ part[j] = d[k - 1] /\ d[k - 1] = DigitOf(n, w, k - 1)
        BY <1>6, <2>5, <2>8, <4>1, <4>2
      <4> QED BY <2>3, <3>3, <4>3
    <3>4. k < q \/ k = q \/ k > q
      BY <2>3
    <3> QED BY <3>1, <3>2, <3>3, <3>4
  <2> QED BY <1>10, <2>8, <2>9, <2>10, SMTT(60)
<1> QED BY <1>9, <1>10

\* Prices are compared across the point: products in another order.
LEMMA Regrouped ==
  ASSUME NEW a \in Nat, NEW b \in Nat, NEW c \in Nat, NEW d \in Nat
  PROVE  (a * b) * (c * d) = a * (b * d) * c /\ (a * b) * c = a * (b * c)
<1>1. (a * b) * (c * d) = ((a * b) * c) * d /\ (a * b) * c = a * (b * c)
  OBVIOUS
<1>2. a * (b * d) * c = ((a * b) * c) * d
  OBVIOUS
<1> QED BY <1>1, <1>2

(* What ticks_to_price writes for a number of ticks is that many ticks and *)
(* is read as them.                                                        *)
THEOREM WrittenBack ==
  ASSUME NEW ticks \in Nat, NEW tick \in Texts, ticks <= MaxI64, CanFormat(ticks, tick),
         Pow10Fits(Decimal(tick).scale), NEW t, t = TicksToPrice(ticks, tick)
  PROVE  IsTicks(ticks, t, tick) /\ Converts(t, tick) /\ PriceToTicks(t, tick) = ticks
<1>1. PICK z \in Nat, c \in Nat, s \in Nat :
        /\ c = Decimal(tick).coefficient /\ s = Decimal(tick).scale
        /\ Whole(tick) = c * Pow10(z) /\ Places(tick) = s + z
  BY DecimalIs
<1>2. IsTickSize(tick) /\ ticks * c <= MaxU64
  BY <1>1 DEF CanFormat
<1>3. PICK n \in Nat : n = ticks * c
  OBVIOUS
<1>4. t \in Texts /\ Plain(t) /\ Whole(t) = n /\ Places(t) = s
  BY <1>1, <1>3, FormatMeans
<1>5. PICK x \in Nat, y \in Nat : x = Pow10(s) /\ y = Pow10(z) /\ Pow10(s + z) = x * y
  BY PowerPositive, PowerAdd, ZenonT(60)
<1>6. IsTicks(ticks, t, tick)
  <2>1. n * (x * y) = ticks * (c * y) * x
    BY <1>3, Regrouped
  <2> QED BY <1>1, <1>4, <1>5, <2>1 DEF IsTicks
<1>7. Fits(tick)
  <2>1. Whole(tick) <= MaxU64
    BY <1>2, TickSizeIs, WidthsAssumption DEF GoodTick
  <2> QED BY <2>1, FitsIs
<1>8. Fits(t)
  <2>1. Pow10(s) <= MaxU64 /\ s \in 0..s /\ s - s = 0
    BY <1>1 DEF Pow10Fits
  <2>2. Pow10(0) = 1 /\ n % 1 = 0
    BY PowerUnfolded
  <2>3. n <= MaxU64
    BY <1>2, <1>3
  <2> QED BY <1>4, <2>1, <2>2, <2>3 DEF Fits
<1>9. GoodPrice(t, tick)
  <2>1. PICK w \in Nat : w = Whole(tick)
    BY <1>1, <1>5
  <2>2. ticks * (w * x) = (ticks * w) * x
    BY <1>5, Regrouped
  <2>3. Whole(t) * Pow10(Places(tick)) = ticks * (Whole(tick) * Pow10(Places(t)))
    BY <1>4, <1>5, <1>6, <2>1, <2>2 DEF IsTicks
  <2>4. ticks \in 0..MaxI64
    BY WidthsAssumption
  <2> QED BY <1>4, <1>7, <1>8, <2>3, <2>4 DEF GoodPrice
<1> QED BY <1>2, <1>4, <1>6, <1>9, ConvertsIs
-----------------------------------------------------------------------------
\* The parser, and what it has read so far.

\* Every two events, not only neighbors, are in order.
Increasing(s) == \A i, j \in 1..Len(s) : i < j => KeyBefore(s[i], s[j])

\* Whatever prices conversions may yield.
Prices == {PriceToTicks(t, u) : t, u \in Texts} \cup {Number(t) : t \in Texts}

Events ==
  [source : Sources, line : Nat \ {0}, ts : Nat, seq : Nat, side : Sides \cup {"none", "other"},
   qty : Nat, price : Prices]

ParserInv ==
  /\ disk \in [Sources -> Seq(Lines) \cup {NoFile}]
  /\ parser.tick \in Texts /\ parser.format \in Formats
  /\ text \in [Sources -> Seq(Lines) \cup {NoFile}] /\ line \in Nat
  /\ events \in [Sources -> Seq(Events)]
  /\ stage # "refused" => \A s \in Sources : Increasing(events[s])

LEMMA KeyOrderTransitive ==
  ASSUME NEW a \in Events, NEW b \in Events, NEW c \in Events, KeyBefore(a, b), KeyBefore(b, c)
  PROVE  KeyBefore(a, c)
BY DEF KeyBefore, Events

\* Comparing with the last event is comparing with all of them.
LEMMA AppendKeepsOrder ==
  ASSUME NEW s \in Seq(Events), NEW e \in Events, Increasing(s), InSourceOrder(s, e)
  PROVE  Increasing(Append(s, e))
<1> DEFINE t == Append(s, e)
<1>1. /\ Len(t) = Len(s) + 1 /\ Len(s) \in Nat
      /\ \A i \in 1..Len(s) : t[i] = s[i] /\ s[i] \in Events
      /\ t[Len(s) + 1] = e
  OBVIOUS
<1> HIDE DEF t
<1> SUFFICES ASSUME NEW i \in 1..Len(t), NEW j \in 1..Len(t), i < j
             PROVE  KeyBefore(t[i], t[j])
  BY DEF Increasing, t
<1>2. CASE j \in 1..Len(s)
  BY <1>1, <1>2 DEF Increasing
<1>3. CASE j = Len(s) + 1
  <2>1. i \in 1..Len(s) /\ Len(s) \in 1..Len(s) /\ s # << >>
    BY <1>1, <1>3
  <2>2. KeyBefore(s[Len(s)], e)
    BY <2>1 DEF InSourceOrder
  <2>3. CASE i = Len(s)
    BY <1>1, <1>3, <2>1, <2>2, <2>3
  <2>4. CASE i < Len(s)
    <3>1. KeyBefore(s[i], s[Len(s)])
      BY <2>1, <2>4 DEF Increasing
    <3> QED BY <1>1, <1>3, <2>1, <2>2, <3>1, KeyOrderTransitive
  <2> QED BY <1>1, <2>1, <2>3, <2>4
<1> QED BY <1>1, <1>2, <1>3


\* A row that is read becomes an event of its line.
LEMMA EventRead ==
  ASSUME ParserInv, NEW source \in Sources, text[source] # NoFile, NEW k \in 1..Len(text[source])
  PROVE  Event(source, k) \in Events
<1>1. text[source] \in Seq(Lines)
  BY DEF ParserInv
<1>2. text[source][k] \in Lines
  BY <1>1
<1>3. Price(text[source][k].price) \in Prices
  BY <1>2, SMTT(60) DEF Price, Prices, Lines, ParserInv
<1>4. k \in Nat \ {0}
  BY <1>1
<1> HIDE DEF Prices
<1> QED BY <1>2, <1>3, <1>4 DEF Event, Events, Lines

LEMMA RowRead ==
  ASSUME ParserInv, ReadRow
  PROVE  ParserInv'
<1> DEFINE s == events[stage]
           e == Event(stage, line + 1)
<1>1. /\ stage \in Sources /\ text[stage] # NoFile /\ line + 1 \in 1..Len(text[stage]) /\ line \in Nat
      /\ UNCHANGED <<disk, parser, text>> /\ line' = line + 1
      /\ events' = [events EXCEPT ![stage] = Append(s, e)]
      /\ stage' = IF InSourceOrder(s, e) THEN stage ELSE "refused"
  BY DEF ReadRow, Reading, ParserInv
<1>2. s \in Seq(Events)
  BY <1>1 DEF ParserInv
<1>3. e \in Events
  BY <1>1, EventRead
<1>4. stage # "refused"
  BY <1>1 DEF Sources
<1>5. Increasing(s)
  BY <1>1, <1>4 DEF ParserInv
<1> HIDE DEF s, e
<1>6. events' \in [Sources -> Seq(Events)]
  BY <1>1, <1>2, <1>3 DEF ParserInv
<1>7. ASSUME stage' # "refused", NEW source \in Sources
      PROVE  Increasing(events'[source])
  <2>1. CASE source = stage
    <3>1. InSourceOrder(s, e)
      BY <1>1, <1>7
    <3>2. events'[source] = Append(s, e)
      BY <1>1, <2>1 DEF ParserInv
    <3> QED BY <1>2, <1>3, <1>5, <3>1, <3>2, AppendKeepsOrder
  <2>2. CASE source # stage
    <3>1. events'[source] = events[source]
      BY <1>1, <2>2 DEF ParserInv
    <3> QED BY <1>4, <3>1 DEF ParserInv
  <2> QED BY <2>1, <2>2
<1> QED BY <1>1, <1>6, <1>7 DEF ParserInv

\* Steps that read no row leave the events alone, and a refusal stays one.
LEMMA EventsUntouched ==
  ASSUME ParserInv, UNCHANGED <<disk, parser, text, events>>, line' \in Nat,
         stage = "refused" => stage' = "refused"
  PROVE  ParserInv'
BY DEF ParserInv

LEMMA ParserStep ==
  ASSUME ParserInv, [Next]_feedVars
  PROVE  ParserInv'
<1>1. CASE SkipBlank
  BY <1>1, EventsUntouched DEF SkipBlank, ParserInv
<1>2. CASE SkipHeader
  BY <1>2, EventsUntouched DEF SkipHeader, ParserInv
<1>3. CASE RefuseRow
  BY <1>3, EventsUntouched DEF RefuseRow, ParserInv
<1>4. CASE ReadRow
  BY <1>4, RowRead
<1>5. CASE EndOfFile
  BY <1>5, EventsUntouched DEF EndOfFile, Sources
<1>6. CASE Merge
  BY <1>6, EventsUntouched DEF Merge, ParserInv
<1>7. CASE Open
  BY <1>7 DEF Open, ParserInv, Sources
<1>8. CASE UNCHANGED feedVars
  BY <1>8, EventsUntouched DEF feedVars, reading, ParserInv
<1> QED BY <1>1, <1>2, <1>3, <1>4, <1>5, <1>6, <1>7, <1>8 DEF Next

-----------------------------------------------------------------------------
\* A tick size that the configuration gives is a text.
TickTyped(v) == "tick_size" \in DOMAIN v => v["tick_size"] \in Texts \cup {Empty}

\* Nothing is read before the configuration is accepted.
RunInv ==
  /\ ParserInv
  /\ setup \in UNION Cases /\ at \in Nat
  /\ TickTyped(values)
  /\ phase \in {"arguments", "config", "hash"} => stage = "waiting"

LEMMA RunInitInv == RunInit => RunInv
<1> SUFFICES ASSUME RunInit PROVE RunInv
  OBVIOUS
<1>1. setup \in UNION Cases
  BY DEF RunInit
<1>2. setup.disk \in [Sources -> Seq(Lines) \cup {NoFile}]
  BY <1>1, CasesAssumption
<1>3. << >> \in Texts /\ "decimal" \in Formats
  BY DEF Texts, Formats
<1> QED BY <1>1, <1>2, <1>3 DEF RunInit, Unread, RunInv, ParserInv, Increasing, TickTyped

\* Most steps leave the feed alone, and move at and values forward.
LEMMA FeedUntouched ==
  ASSUME RunInv, UNCHANGED <<setup, feedVars>>, at' \in Nat,
         TickTyped(values'),
         phase' \in {"arguments", "config", "hash"} => phase \in {"arguments", "config", "hash"}
  PROVE  RunInv'
<1>1. ParserInv'
  BY ParserStep DEF RunInv
<1> QED BY <1>1 DEF RunInv, feedVars, reading

LEMMA EntryRead ==
  ASSUME RunInv, ReadEntry
  PROVE  RunInv'
<1>1. /\ UNCHANGED <<setup, phase, feedVars>> /\ at' \in Nat
      /\ setup \in UNION Cases /\ at + 1 \in 1..Len(setup.config)
  BY DEF ReadEntry, InConfig, RunInv
<1>2. Entry.key = "tick_size" => Entry.value \in Texts \cup {Empty}
  <2>1. PICK lines : lines = setup.config /\ lines \in Seq(Range(lines))
    BY <1>1, CasesAssumption
  <2>2. \A n \in 1..Len(lines) : lines[n] \in Range(lines)
    BY <2>1
  <2>3. Entry \in Range(setup.config)
    BY <1>1, <2>1, <2>2 DEF Entry
  <2> QED BY <1>1, <2>3, CasesAssumption
<1>3. CASE UNCHANGED values
  BY <1>1, <1>3, FeedUntouched DEF RunInv
<1>4. CASE values' = [key \in DOMAIN values \cup {Entry.key} |->
                        IF key = Entry.key THEN Entry.value ELSE values[key]]
  <2>1. TickTyped(values')
    BY <1>2, <1>4 DEF RunInv, TickTyped
  <2> QED BY <1>1, <2>1, FeedUntouched
<1> QED BY <1>3, <1>4 DEF ReadEntry

LEMMA Configured ==
  ASSUME RunInv, Configure
  PROVE  RunInv'
<1>1. PICK cast \in NaNCasts :
        LET c == Config(Given(values), cast)
        IN  \/ /\ Accepted(c)
               /\ parser' = [tick |-> c.tick, format |-> c.format] /\ phase' = "hash"
               /\ UNCHANGED <<setup, at, values, disk, reading>>
            \/ phase' = "exited" /\ UNCHANGED <<setup, at, values, feedVars>>
  BY DEF Configure, Exit
<1> DEFINE v == Given(values)
           c == Config(v, cast)
<1>2. v.tick_size \in Texts \cup {Empty}
  <2>1. "tick_size" \in Keys /\ Defaults["tick_size"] = DefaultTick
    BY DEF Keys, Defaults
  <2>2. v["tick_size"] = IF "tick_size" \in DOMAIN values THEN values["tick_size"] ELSE DefaultTick
    BY <2>1 DEF Given
  <2>3. DefaultTick \in Texts
    BY DEF DefaultTick, Texts
  <2> QED BY <2>2, <2>3 DEF RunInv, TickTyped
<1>3. c.tick = (IF v.tick_size = Empty THEN << >> ELSE v.tick_size) /\ c.format = v.price_format
  BY DEF Config
<1>4. c.tick \in Texts
  BY <1>2, <1>3 DEF Texts
<1>5. CASE /\ Accepted(c) /\ parser' = [tick |-> c.tick, format |-> c.format] /\ phase' = "hash"
           /\ UNCHANGED <<setup, at, values, disk, reading>>
  <2>1. stage = "waiting"
    BY DEF Configure, RunInv
  <2>2. c.format \in Formats
    BY <1>3, <1>5 DEF Accepted, Parses, Formats
  <2>3. parser'.tick \in Texts /\ parser'.format \in Formats
    <3> HIDE DEF c
    <3> QED BY <1>4, <1>5, <2>2
  <2> QED BY <1>5, <2>1, <2>3 DEF RunInv, ParserInv, reading
<1>6. CASE phase' = "exited" /\ UNCHANGED <<setup, at, values, feedVars>>
  BY <1>6, FeedUntouched DEF RunInv
<1> QED BY <1>1, <1>5, <1>6

LEMMA RunStep ==
  ASSUME RunInv, [RunNext]_runVars
  PROVE  RunInv'
<1>1. CASE ShowHelp \/ RefuseArguments \/ RefuseEntry \/ RefuseFeed
  BY <1>1, FeedUntouched DEF ShowHelp, RefuseArguments, RefuseEntry, RefuseFeed, Exit, RunInv
<1>2. CASE TakeForce \/ TakePath \/ OpenConfig
  BY <1>2, FeedUntouched DEF TakeForce, TakePath, OpenConfig, Parsing, RunInv
<1>3. CASE Replay \/ Publish \/ FailToWrite
  BY <1>3, FeedUntouched DEF Replay, Publish, FailToWrite, Exit, cliVars, RunInv
<1>4. CASE ReadEntry
  BY <1>4, EntryRead
<1>5. CASE Configure
  BY <1>5, Configured
<1>6. ASSUME NEW s \in Sources, HashInput(s)
      PROVE  RunInv'
  <2>1. /\ UNCHANGED <<setup, at, values, disk, parser, text, line, events>>
        /\ stage = "waiting" /\ (stage' # stage => phase' = "feed")
        /\ phase' \in {"hash", "feed", "exited"}
    BY <1>6 DEF HashInput, Exit, feedVars, reading, RunInv
  <2>2. ParserInv'
    BY <2>1, EventsUntouched DEF RunInv, ParserInv
  <2> QED BY <2>1, <2>2 DEF RunInv
<1>7. CASE ReadFeed
  <2>1. UNCHANGED <<setup, at, values, phase>> /\ phase = "feed" /\ Next
    BY <1>7 DEF ReadFeed, cliVars
  <2>2. ParserInv'
    BY <2>1, ParserStep DEF RunInv
  <2> QED BY <2>1, <2>2 DEF RunInv
<1>8. ASSUME NEW s \in Sources, ReplaceFile(s)
      PROVE  RunInv'
  <2>1. PICK f \in setup.contents : disk' = [disk EXCEPT ![s] = f]
    BY <1>8 DEF ReplaceFile
  <2>2. f \in Seq(Lines)
    BY <2>1, CasesAssumption DEF RunInv
  <2>3. disk' \in [Sources -> Seq(Lines) \cup {NoFile}]
    BY <2>1, <2>2 DEF RunInv, ParserInv
  <2> QED BY <1>8, <2>3 DEF ReplaceFile, reading, RunInv, ParserInv
<1>9. CASE UNCHANGED runVars
  BY <1>9, FeedUntouched DEF runVars, cliVars, RunInv
<1> QED BY <1>1, <1>2, <1>3, <1>4, <1>5, <1>6, <1>7, <1>8, <1>9 DEF RunNext

(* parse_csv of src/market_feed.cpp returns strictly increasing event keys *)
(* for every file, although a row is only compared with its predecessor,   *)
(* whatever files are replaced and reads fail while the program runs.      *)
THEOREM ParsedInOrder == RunSpec => []SourcesOrdered
<1>1. RunInv => SourcesOrdered
  BY DEF RunInv, ParserInv, SourcesOrdered, Increasing
<1> QED BY <1>1, RunInitInv, RunStep, PTL DEF RunSpec
-----------------------------------------------------------------------------
\* Merging: a stable sort by a strict total order lists every event once.

\* The events of both sources, the book's first.
Both == events["book"] \o events["trade"]

\* The events that go before the i-th of them, and its place after the sort.
Earlier(i) == {j \in 1..Len(Both) : Precedes(Both[j], Both[i])}
Rank(i)    == 1 + Cardinality(Earlier(i))

\* Each event knows its source.
SourcesKnown == \A s \in Sources : \A k \in 1..Len(events[s]) : events[s][k].source = s

LEMMA BothTyped ==
  ASSUME ParserInv
  PROVE  /\ Both \in Seq(Events) /\ Len(Both) \in Nat
         /\ Len(events["book"]) \in Nat /\ Len(events["trade"]) \in Nat
         /\ Len(Both) = Len(events["book"]) + Len(events["trade"])
         /\ \A i \in 1..Len(Both) : Both[i] \in Events
         /\ \A i \in 1..Len(events["book"]) : Both[i] = events["book"][i]
         /\ \A i \in 1..Len(events["trade"]) : Both[Len(events["book"]) + i] = events["trade"][i]
<1>1. events["book"] \in Seq(Events) /\ events["trade"] \in Seq(Events)
  BY DEF ParserInv, Sources
<1>2. PICK b \in Seq(Events), t \in Seq(Events) : b = events["book"] /\ t = events["trade"]
  BY <1>1
<1>3. /\ b \o t \in Seq(Events) /\ Len(b) \in Nat /\ Len(t) \in Nat /\ Len(b \o t) = Len(b) + Len(t)
      /\ \A i \in 1..Len(b) : (b \o t)[i] = b[i]
      /\ \A i \in 1..Len(t) : (b \o t)[Len(b) + i] = t[i]
  OBVIOUS
<1>4. Both = b \o t
  BY <1>2 DEF Both
<1>5. \A i \in 1..Len(Both) : Both[i] \in Events
  BY <1>3, <1>4
<1>6. /\ \A i \in 1..Len(b) : Both[i] = b[i]
      /\ \A i \in 1..Len(t) : Both[Len(b) + i] = t[i]
  BY <1>3, <1>4
<1>7. Both \in Seq(Events) /\ Len(Both) = Len(b) + Len(t) /\ Len(Both) \in Nat
  BY <1>3, <1>4
<1>8. /\ \A i \in 1..Len(events["book"]) : Both[i] = events["book"][i]
      /\ \A i \in 1..Len(events["trade"]) : Both[Len(events["book"]) + i] = events["trade"][i]
  BY <1>2, <1>6, Zenon
<1> QED BY <1>2, <1>3, <1>5, <1>7, <1>8

\* The sort's comparison is a strict total order of the events.
LEMMA PrecedesOrder ==
  ASSUME NEW a \in Events, NEW b \in Events, NEW c \in Events
  PROVE  /\ ~Precedes(a, a)
         /\ Precedes(a, b) => ~Precedes(b, a)
         /\ Precedes(a, b) /\ Precedes(b, c) => Precedes(a, c)
         /\ Precedes(a, b) \/ Precedes(b, a) \/ (SameKey(a, b) /\ a.source = b.source)
<1>1. /\ a.ts \in Nat /\ a.seq \in Nat /\ b.ts \in Nat /\ b.seq \in Nat
      /\ c.ts \in Nat /\ c.seq \in Nat
  BY DEF Events
<1>2. /\ a.source \in {"book", "trade"} /\ b.source \in {"book", "trade"}
      /\ c.source \in {"book", "trade"}
  BY DEF Events, Sources
<1>3. "book" # "trade"
  OBVIOUS
<1> QED BY <1>1, <1>2, <1>3 DEF Precedes, KeyBefore, SameKey

LEMMA BothDistinct ==
  ASSUME ParserInv, SourcesKnown, stage # "refused",
         NEW i \in 1..Len(Both), NEW j \in 1..Len(Both), i # j
  PROVE  Precedes(Both[i], Both[j]) \/ Precedes(Both[j], Both[i])
<1>1. Both[i] \in Events /\ Both[j] \in Events
  BY BothTyped
<1>2. SUFFICES ASSUME SameKey(Both[i], Both[j]), Both[i].source = Both[j].source
               PROVE  FALSE
  BY <1>1, PrecedesOrder
<1>3. PICK m \in Nat, n \in Nat :
        /\ m = Len(events["book"]) /\ n = Len(events["trade"]) /\ Len(Both) = m + n
  BY BothTyped
<1>4. \A k \in 1..m : Both[k] = events["book"][k] /\ Both[k].source = "book"
  BY <1>3, BothTyped DEF SourcesKnown, Sources
<1>5. \A k \in 1..n : Both[m + k] = events["trade"][k] /\ Both[m + k].source = "trade"
  BY <1>3, BothTyped, ZenonT(60) DEF SourcesKnown, Sources
<1>6. \A k \in 1..Len(Both) : k \in 1..m \/ (k - m \in 1..n /\ m + (k - m) = k)
  <2>1. \A k \in 1..(m + n) : k \in 1..m \/ (k - m \in 1..n /\ m + (k - m) = k)
    OBVIOUS
  <2> QED BY <1>3, <2>1
<1>7. Increasing(events["book"]) /\ Increasing(events["trade"])
  BY DEF ParserInv, Sources
<1>8. Both[i].ts \in Nat /\ Both[i].seq \in Nat /\ Both[j].ts \in Nat /\ Both[j].seq \in Nat
  BY <1>1 DEF Events
<1>9. ~KeyBefore(Both[i], Both[j]) /\ ~KeyBefore(Both[j], Both[i])
  BY <1>2, <1>8 DEF KeyBefore, SameKey
<1>10. CASE i \in 1..m /\ j \in 1..m
  <2>1. i < j \/ j < i
    BY <1>10
  <2> QED BY <1>3, <1>4, <1>7, <1>9, <1>10, <2>1 DEF Increasing
<1>11. CASE i - m \in 1..n /\ j - m \in 1..n /\ m + (i - m) = i /\ m + (j - m) = j
  <2>1. i - m < j - m \/ j - m < i - m
    BY <1>11
  <2>2. Both[i] = events["trade"][i - m] /\ Both[j] = events["trade"][j - m]
    BY <1>5, <1>11
  <2> QED BY <1>3, <1>7, <1>9, <1>11, <2>1, <2>2 DEF Increasing
<1>12. \/ i \in 1..m /\ j \in 1..m
       \/ i - m \in 1..n /\ j - m \in 1..n /\ m + (i - m) = i /\ m + (j - m) = j
  <2>1. CASE i \in 1..m /\ j - m \in 1..n /\ m + (j - m) = j
    <3>1. Both[i].source = "book" /\ Both[m + (j - m)].source = "trade"
      BY <1>4, <1>5, <2>1
    <3> QED BY <1>2, <2>1, <3>1
  <2>2. CASE j \in 1..m /\ i - m \in 1..n /\ m + (i - m) = i
    <3>1. Both[j].source = "book" /\ Both[m + (i - m)].source = "trade"
      BY <1>4, <1>5, <2>2
    <3> QED BY <1>2, <2>2, <3>1
  <2> QED BY <1>6, <2>1, <2>2
<1> QED BY <1>10, <1>11, <1>12

LEMMA RankTyped ==
  ASSUME ParserInv, NEW i \in 1..Len(Both)
  PROVE  /\ IsFiniteSet(Earlier(i)) /\ Cardinality(Earlier(i)) \in Nat
         /\ Rank(i) \in 1..Len(Both) /\ i \notin Earlier(i)
<1>1. PICK n \in Nat : n = Len(Both)
  BY BothTyped
<1>2. IsFiniteSet(1..n) /\ Cardinality(1..n) = n
  <2>1. 1 \in Int /\ n \in Int
    OBVIOUS
  <2> QED BY <2>1, FS_Interval
<1>3. IsFiniteSet((1..n) \ {i}) /\ Cardinality((1..n) \ {i}) = n - 1
  BY <1>1, <1>2, FS_RemoveElement
<1>4. i \notin Earlier(i)
  BY PrecedesOrder, BothTyped DEF Earlier
<1>5. Earlier(i) \in SUBSET ((1..n) \ {i})
  BY <1>1, <1>4 DEF Earlier
<1>6. IsFiniteSet(Earlier(i)) /\ Cardinality(Earlier(i)) <= n - 1
  BY <1>3, <1>5, FS_Subset
<1>7. Cardinality(Earlier(i)) \in Nat
  BY <1>6, FS_CardinalityType
<1> QED BY <1>1, <1>4, <1>6, <1>7 DEF Rank

LEMMA RankOrder ==
  ASSUME ParserInv, NEW i \in 1..Len(Both), NEW j \in 1..Len(Both), Precedes(Both[i], Both[j])
  PROVE  Rank(i) < Rank(j)
<1>1. Earlier(i) \subseteq Earlier(j)
  BY PrecedesOrder, BothTyped DEF Earlier
<1>2. i \in Earlier(j) /\ i \notin Earlier(i)
  BY RankTyped DEF Earlier
<1>3. /\ IsFiniteSet(Earlier(i)) /\ IsFiniteSet(Earlier(j))
      /\ Cardinality(Earlier(i)) \in Nat /\ Cardinality(Earlier(j)) \in Nat
  BY RankTyped
<1>4. Cardinality(Earlier(i) \cup {i}) = Cardinality(Earlier(i)) + 1
  BY <1>2, <1>3, FS_AddElement
<1>5. Earlier(i) \cup {i} \in SUBSET Earlier(j)
  BY <1>1, <1>2
<1>6. Cardinality(Earlier(i) \cup {i}) <= Cardinality(Earlier(j))
  BY <1>3, <1>5, FS_Subset
<1> QED BY <1>3, <1>4, <1>6 DEF Rank

\* Every place is taken by exactly one event.
LEMMA RankOnto ==
  ASSUME ParserInv, SourcesKnown, stage # "refused", NEW k \in 1..Len(Both)
  PROVE  \E i \in 1..Len(Both) : Rank(i) = k
<1> SUFFICES ASSUME \A i \in 1..Len(Both) : Rank(i) # k
             PROVE  FALSE
  OBVIOUS
<1>1. PICK n \in Nat : n = Len(Both)
  BY BothTyped
<1>2. PICK f : f = [i \in 1..n |-> Rank(i)]
  OBVIOUS
<1>3. f \in [1..n -> (1..n) \ {k}]
  BY <1>1, <1>2, RankTyped
<1>4. IsFiniteSet(1..n) /\ Cardinality(1..n) = n
  <2>1. 1 \in Int /\ n \in Int
    OBVIOUS
  <2> QED BY <2>1, FS_Interval
<1>5. IsFiniteSet((1..n) \ {k}) /\ Cardinality((1..n) \ {k}) = n - 1
  BY <1>1, <1>4, FS_RemoveElement
<1>6. Cardinality((1..n) \ {k}) < Cardinality(1..n)
  BY <1>4, <1>5
<1>7. PICK i \in 1..n, j \in 1..n : i # j /\ f[i] = f[j]
  <2>1. PICK S, T : S = 1..n /\ T = (1..n) \ {k}
    OBVIOUS
  <2>2. IsFiniteSet(S) /\ IsFiniteSet(T) /\ Cardinality(T) < Cardinality(S) /\ f \in [S -> T]
    BY <1>3, <1>4, <1>5, <1>6, <2>1
  <2>3. \E x, y \in S : x # y /\ f[x] = f[y]
    BY <2>2, FS_PigeonHole
  <2> QED BY <2>1, <2>3
<1>8. Rank(i) = Rank(j) /\ i \in 1..Len(Both) /\ j \in 1..Len(Both)
  BY <1>1, <1>2, <1>7
<1>9. Rank(i) < Rank(j) \/ Rank(j) < Rank(i)
  BY <1>7, <1>8, BothDistinct, RankOrder
<1> QED BY <1>1, <1>8, <1>9, RankTyped

\* What the sort returns: the event of each rank.
LEMMA SortedByRank ==
  ASSUME ParserInv, SourcesKnown, stage # "refused"
  PROVE  Sorted = [k \in 1..Len(Both) |-> Both[CHOOSE i \in 1..Len(Both) : Rank(i) = k]]
<1>1. \A i \in 1..Len(Both) :
        {j \in 1..Len(Both) : \/ Precedes(Both[j], Both[i])
                              \/ j < i /\ ~Precedes(Both[i], Both[j])} = Earlier(i)
  <2> SUFFICES ASSUME NEW i \in 1..Len(Both), NEW j \in 1..Len(Both)
               PROVE  j < i /\ ~Precedes(Both[i], Both[j]) => Precedes(Both[j], Both[i])
    BY DEF Earlier
  <2>1. CASE i = j
    BY <2>1
  <2>2. CASE i # j
    BY <2>2, BothDistinct
  <2> QED BY <2>1, <2>2
<1> DEFINE PlaceOf(i) == 1 + Cardinality({j \in 1..Len(Both) :
                         Precedes(Both[j], Both[i]) \/ (j < i /\ ~Precedes(Both[i], Both[j]))})
<1>2. Sorted = [k \in 1..Len(Both) |-> Both[CHOOSE i \in 1..Len(Both) : PlaceOf(i) = k]]
  BY DEF Sorted, StableSort, Both
<1>3. \A i \in 1..Len(Both) : PlaceOf(i) = Rank(i)
  BY <1>1 DEF Rank
<1> DEFINE placed(k) == Both[CHOOSE i \in 1..Len(Both) : PlaceOf(i) = k]
           ranked(k) == Both[CHOOSE i \in 1..Len(Both) : Rank(i) = k]
<1> HIDE DEF PlaceOf
<1>4. \A k \in 1..Len(Both) : placed(k) = ranked(k)
  <2> SUFFICES ASSUME NEW k \in 1..Len(Both)
               PROVE  (CHOOSE i \in 1..Len(Both) : PlaceOf(i) = k)
                        = (CHOOSE i \in 1..Len(Both) : Rank(i) = k)
    OBVIOUS
  <2> QED BY <1>3
<1>5. Sorted = [k \in 1..Len(Both) |-> placed(k)]
  BY <1>2
<1>6. SUFFICES Sorted = [k \in 1..Len(Both) |-> ranked(k)]
  OBVIOUS
<1> HIDE DEF placed, ranked
<1> QED BY <1>4, <1>5

LEMMA MergeSorts ==
  ASSUME ParserInv, SourcesKnown, stage # "refused"
  PROVE  /\ Sorted \in Seq(Events) /\ Len(Sorted) = Len(Both)
         /\ \A k, l \in 1..Len(Sorted) : k < l => Precedes(Sorted[k], Sorted[l])
         /\ \A k \in 1..Len(Sorted) : \E i \in 1..Len(Both) : Sorted[k] = Both[i]
         /\ \A i \in 1..Len(Both) : \E k \in 1..Len(Sorted) : Sorted[k] = Both[i]
<1>1. PICK n \in Nat : n = Len(Both)
  BY BothTyped
<1>2. PICK place : place = [k \in 1..n |-> CHOOSE i \in 1..n : Rank(i) = k]
  OBVIOUS
<1>3. \A k \in 1..n : place[k] \in 1..n /\ Rank(place[k]) = k
  BY <1>1, <1>2, RankOnto
<1>4. Sorted = [k \in 1..n |-> Both[place[k]]]
  BY <1>1, <1>2, SortedByRank
<1>5. Sorted \in Seq(Events) /\ Len(Sorted) = n /\ \A k \in 1..n : Sorted[k] = Both[place[k]]
  <2>1. \A k \in 1..n : Both[place[k]] \in Events
    BY <1>1, <1>3, BothTyped
  <2> QED BY <1>4, <2>1
<1>6. ASSUME NEW k \in 1..n, NEW l \in 1..n, k < l
      PROVE  Precedes(Sorted[k], Sorted[l])
  <2>1. place[k] # place[l] /\ ~(Rank(place[l]) < Rank(place[k]))
    BY <1>3, <1>6
  <2> QED BY <1>1, <1>3, <1>5, <2>1, BothDistinct, RankOrder
<1>7. ASSUME NEW i \in 1..n
      PROVE  \E k \in 1..n : Sorted[k] = Both[i]
  <2>1. PICK k \in 1..n : k = Rank(i)
    BY <1>1, RankTyped
  <2>2. place[k] = i
    <3> SUFFICES ASSUME place[k] # i PROVE FALSE
      OBVIOUS
    <3>1. Rank(place[k]) < Rank(i) \/ Rank(i) < Rank(place[k])
      BY <1>1, <1>3, BothDistinct, RankOrder
    <3> QED BY <1>3, <2>1, <3>1
  <2> QED BY <1>5, <2>2
<1> QED BY <1>1, <1>3, <1>5, <1>6, <1>7
-----------------------------------------------------------------------------
\* What has been read of the files, while every read succeeds.

\* Event e is what a row among the first n lines of a file says.
OfRow(e, s, n) ==
  /\ e.line \in Rows(text[s]) /\ e.line <= n /\ e.source = s
  /\ LET l == text[s][e.line] IN <<e.ts, e.seq, e.side, e.qty>> = <<l.ts, l.seq, l.side, l.qty>>

\* The events of a source are the rows among its first n lines.
ReadUpTo(s, n) ==
  /\ n <= Len(text[s])
  /\ \A k \in 1..Len(events[s]) : OfRow(events[s][k], s, n)
  /\ \A r \in Rows(text[s]) : r <= n => \E k \in 1..Len(events[s]) : events[s][k].line = r

\* Sources that were read to their end.
Finished(s) == stage \in {"merge", "merged"} \/ (stage = "trade" /\ s = "book")

SourceRead(s) ==
  /\ text[s] = NoFile => events[s] = << >>
  /\ s = stage /\ text[s] = NoFile => line = 0
  /\ s = stage /\ text[s] # NoFile => ReadUpTo(s, line)
  /\ Finished(s) => text[s] # NoFile /\ ReadUpTo(s, Len(text[s]))
  /\ s # stage /\ ~Finished(s) => text[s] = NoFile

ReadInv ==
  /\ stage \in Sources \cup {"waiting", "merge", "merged", "refused"}
  /\ stage = "waiting" => line = 0
  /\ stage # "refused" => \A s \in Sources : SourceRead(s)
  /\ stage = "merged" =>
       /\ merged = Sorted
       /\ \A k \in 2..Len(Sorted) : ~SameKey(Sorted[k - 1], Sorted[k])

\* The events of a source say where they are from.
LEMMA ReadSources == ParserInv /\ ReadInv /\ stage # "refused" => SourcesKnown
<1> SUFFICES ASSUME ParserInv, ReadInv, stage # "refused",
                    NEW s \in Sources, NEW k \in 1..Len(events[s])
             PROVE  events[s][k].source = s
  BY DEF SourcesKnown
<1>1. text[s] # NoFile
  BY DEF ReadInv, SourceRead
<1>2. \E n : ReadUpTo(s, n)
  BY <1>1 DEF ReadInv, SourceRead
<1> QED BY <1>2 DEF ReadUpTo, OfRow

\* One more line, with the events of the lines before it.
LEMMA LineSkipped ==
  ASSUME NEW s \in Sources, text[s] \in Seq(Lines), NEW n \in Nat, n < Len(text[s]),
         ReadUpTo(s, n), text[s][n + 1].kind # "row"
  PROVE  ReadUpTo(s, n + 1)
<1>1. Len(text[s]) \in Nat /\ \A r \in Rows(text[s]) : r \in Nat
  BY DEF Rows
<1>2. \A r \in Rows(text[s]) : r <= n + 1 => r <= n
  BY <1>1 DEF Rows
<1>3. ASSUME NEW k \in 1..Len(events[s]) PROVE OfRow(events[s][k], s, n + 1)
  <2>1. OfRow(events[s][k], s, n) /\ events[s][k].line \in Nat
    BY <1>1 DEF ReadUpTo, OfRow
  <2> QED BY <2>1 DEF OfRow
<1>4. \A r \in Rows(text[s]) : r <= n + 1 => \E k \in 1..Len(events[s]) : events[s][k].line = r
  BY <1>2 DEF ReadUpTo
<1> QED BY <1>1, <1>3, <1>4 DEF ReadUpTo

LEMMA RowReadUpTo ==
  ASSUME ParserInv, ReadInv, ReadRow, stage' # "refused"
  PROVE  ReadUpTo(stage, line)' /\ stage' = stage
<1>1. PICK s \in Sources : s = stage
  BY DEF ReadRow, Reading
<1>2. PICK e : e = Event(s, line + 1)
  OBVIOUS
<1>3. PICK es \in Seq(Events) : es = events[s]
  BY DEF ParserInv
<1>4. /\ text[s] \in Seq(Lines) /\ text' = text /\ stage' = stage
      /\ line \in Nat /\ line < Len(text[s]) /\ line' = line + 1
      /\ text[s][line + 1].kind = "row" /\ ReadUpTo(s, line)
      /\ events' = [events EXCEPT ![s] = Append(es, e)]
  <2>1. text[s] # NoFile /\ text[s] \in Seq(Lines)
    BY <1>1 DEF ReadRow, Reading, ParserInv
  <2>2. ReadUpTo(s, line)
    BY <1>1, <2>1 DEF ReadInv, SourceRead, Sources
  <2> QED BY <1>1, <1>2, <1>3, <2>1, <2>2 DEF ReadRow, Reading, Current, ParserInv
<1>5. events'[s] = Append(es, e)
  BY <1>4 DEF ParserInv
<1>6. /\ Len(Append(es, e)) = Len(es) + 1 /\ Len(es) \in Nat
      /\ Append(es, e)[Len(es) + 1] = e
      /\ \A k \in 1..Len(es) : Append(es, e)[k] = es[k]
  BY <1>3
<1>7. line + 1 \in Rows(text[s]) /\ line + 1 <= Len(text[s])
  BY <1>4 DEF Rows
<1>8. OfRow(e, s, line + 1)
  BY <1>2, <1>4, <1>7 DEF OfRow, Event
<1>9. \A k \in 1..Len(es) : OfRow(es[k], s, line + 1)
  <2> SUFFICES ASSUME NEW k \in 1..Len(es) PROVE OfRow(es[k], s, line + 1)
    BY SMTT(60)
  <2>1. OfRow(es[k], s, line) /\ es[k].line \in Nat
    BY <1>3, <1>4 DEF ReadUpTo, OfRow, Rows
  <2> QED BY <1>4, <2>1 DEF OfRow
<1>10. \A k \in 1..Len(Append(es, e)) : OfRow(Append(es, e)[k], s, line + 1)
  <2>1. \A k \in 1..Len(Append(es, e)) : k \in 1..Len(es) \/ k = Len(es) + 1
    BY <1>6
  <2> QED BY <1>6, <1>8, <1>9, <2>1
<1>11. \A r \in Rows(text[s]) : r <= line + 1 =>
         \E k \in 1..Len(Append(es, e)) : Append(es, e)[k].line = r
  <2> SUFFICES ASSUME NEW r \in Rows(text[s]), r <= line + 1
               PROVE  \E k \in 1..Len(Append(es, e)) : Append(es, e)[k].line = r
    OBVIOUS
  <2>1. CASE r = line + 1
    <3>1. e.line = line + 1
      BY <1>2 DEF Event
    <3>2. Len(es) + 1 \in 1..Len(Append(es, e))
      BY <1>6
    <3> QED BY <1>6, <2>1, <3>1, <3>2
  <2>2. CASE r # line + 1
    <3>1. r <= line
      BY <1>4, <2>2 DEF Rows
    <3>2. PICK k \in 1..Len(es) : es[k].line = r
      BY <1>3, <1>4, <3>1 DEF ReadUpTo
    <3> QED BY <1>6, <3>2
  <2> QED BY <2>1, <2>2
<1>12. ASSUME NEW x PROVE OfRow(x, s, line)' <=> OfRow(x, s, line + 1)
  BY <1>4 DEF OfRow, Rows
<1>13. /\ (line <= Len(text[s]))' /\ Rows(text[s])' = Rows(text[s])
       /\ \A k \in 1..Len(events'[s]) : OfRow(events'[s][k], s, line + 1)
       /\ \A r \in Rows(text[s]) : r <= line' => \E k \in 1..Len(events'[s]) : events'[s][k].line = r
  BY <1>4, <1>5, <1>7, <1>10, <1>11 DEF Rows
<1>14. ReadUpTo(s, line)'
  <2>1. ASSUME NEW k \in 1..Len(events'[s]) PROVE OfRow(events[s][k], s, line)'
    <3>1. PICK x : x = events'[s][k]
      OBVIOUS
    <3>2. OfRow(x, s, line)'
      BY <1>12, <1>13, <3>1
    <3> QED BY <3>1, <3>2 DEF OfRow
  <2> QED BY <1>13, <2>1 DEF ReadUpTo
<1> QED BY <1>1, <1>4, <1>14

\* The sort depends on nothing but the events.
SortOf(read) == StableSort(read["book"] \o read["trade"], Precedes)

LEMMA SortKept == ASSUME events' = events PROVE Sorted' = Sorted
<1>1. Sorted = SortOf(events)
  BY DEF Sorted, SortOf, StableSort
<1>2. Sorted' = SortOf(events')
  BY DEF Sorted, SortOf, StableSort, Precedes, KeyBefore, SameKey
<1> QED BY <1>1, <1>2

LEMMA ReadKept ==
  ASSUME ReadInv, UNCHANGED reading
  PROVE  ReadInv'
<1>0. CASE stage = "refused"
  BY <1>0 DEF ReadInv, reading
<1> SUFFICES ASSUME stage # "refused" PROVE ReadInv'
  BY <1>0
<1>1. UNCHANGED <<text, stage, line, events, merged>> /\ Sorted' = Sorted
  BY SortKept DEF reading
<1>2. \A s \in Sources : ReadUpTo(s, Len(text[s]))' <=> ReadUpTo(s, Len(text[s]))
  BY <1>1 DEF ReadUpTo, OfRow, Rows
<1>3. (\A k \in 2..Len(Sorted) : ~SameKey(Sorted[k - 1], Sorted[k]))'
        <=> \A k \in 2..Len(Sorted) : ~SameKey(Sorted[k - 1], Sorted[k])
  BY <1>1 DEF SameKey
<1>4. \A s \in Sources : Finished(s)' <=> Finished(s)
  BY <1>1 DEF Finished
<1>5. (stage = "merged" => merged = Sorted
                           /\ \A k \in 2..Len(Sorted) : ~SameKey(Sorted[k - 1], Sorted[k]))'
  BY <1>1, <1>3 DEF ReadInv
<1>6. ASSUME NEW s \in Sources PROVE SourceRead(s)'
  <2>1. SourceRead(s)
    BY <1>1 DEF ReadInv
  <2>2. (text[s] = NoFile => events[s] = << >>)'
    BY <1>1, <2>1 DEF SourceRead
  <2>3. (s = stage /\ text[s] = NoFile => line = 0)'
    BY <1>1, <2>1 DEF SourceRead
  <2>4. (s = stage /\ text[s] # NoFile => ReadUpTo(s, line))'
    <3>1. s = stage /\ text[s] # NoFile => ReadUpTo(s, line)
      BY <2>1 DEF SourceRead
    <3>2. ReadUpTo(s, line)' <=> ReadUpTo(s, line)
      BY <1>1 DEF ReadUpTo, OfRow, Rows
    <3>3. stage' = stage /\ text'[s] = text[s]
      BY <1>1
    <3>4. CASE s = stage /\ text[s] # NoFile
      BY <3>1, <3>2, <3>4
    <3> QED BY <3>3, <3>4
  <2>5. (Finished(s) => text[s] # NoFile /\ ReadUpTo(s, Len(text[s])))'
    <3>1. Finished(s) => text[s] # NoFile /\ ReadUpTo(s, Len(text[s]))
      BY <2>1 DEF SourceRead
    <3> QED BY <1>1, <1>2, <1>4, <3>1
  <2>6. (s # stage /\ ~Finished(s) => text[s] = NoFile)'
    <3>1. s # stage /\ ~Finished(s) => text[s] = NoFile
      BY <2>1 DEF SourceRead
    <3> QED BY <1>1, <1>4, <3>1
  <2> QED BY <2>2, <2>3, <2>4, <2>5, <2>6 DEF SourceRead
<1> QED BY <1>1, <1>5, <1>6 DEF ReadInv

LEMMA ReadStep ==
  ASSUME ~ReadsFail, ParserInv, ReadInv, [Next]_feedVars
  PROVE  ReadInv'
<1>1. CASE stage' = "refused"
  BY <1>1 DEF ReadInv
<1> SUFFICES ASSUME stage' # "refused" PROVE ReadInv'
  BY <1>1
<1>2. CASE UNCHANGED feedVars
  BY <1>2, ReadKept DEF feedVars
<1>3. CASE SkipBlank \/ SkipHeader
  <2>1. /\ stage \in Sources /\ text[stage] # NoFile /\ text[stage] \in Seq(Lines)
        /\ line \in Nat /\ line < Len(text[stage]) /\ text[stage][line + 1].kind # "row"
        /\ line' = line + 1 /\ UNCHANGED <<disk, parser, text, stage, events, merged>>
    BY <1>3 DEF SkipBlank, SkipHeader, IsHeader, Reading, Current, ParserInv
  <2>2. ReadUpTo(stage, line + 1)
    BY <2>1, LineSkipped, SMTT(60) DEF ReadInv, SourceRead, Sources
  <2>3. ReadUpTo(stage, line)'
    BY <2>1, <2>2 DEF ReadUpTo, OfRow, Rows
  <2>4. \A s \in Sources : ReadUpTo(s, Len(text[s]))' <=> ReadUpTo(s, Len(text[s]))
    BY <2>1 DEF ReadUpTo, OfRow, Rows
  <2>5. stage \notin {"waiting", "merge", "merged", "refused"}
    BY <2>1 DEF Sources
  <2> QED BY <2>1, <2>3, <2>4, <2>5 DEF ReadInv, SourceRead, Finished
<1>4. CASE ReadRow
  <2>1. ReadUpTo(stage, line)' /\ stage' = stage
    BY <1>4, RowReadUpTo
  <2>2. /\ stage \in Sources /\ text[stage] # NoFile
        /\ text' = text /\ \E es : events' = [events EXCEPT ![stage] = es]
    BY <1>4 DEF ReadRow, Reading
  <2>3. \A s \in Sources : s # stage => events'[s] = events[s]
    BY <2>2 DEF ParserInv
  <2>4. ASSUME NEW s \in Sources, s # stage PROVE ReadUpTo(s, Len(text[s]))' <=> ReadUpTo(s, Len(text[s]))
    BY <2>2, <2>3, <2>4 DEF ReadUpTo, OfRow, Rows
  <2>5. stage \notin {"waiting", "merge", "merged", "refused"} /\ ~Finished(stage)
    BY <2>2 DEF Sources, Finished
  <2> QED BY <2>1, <2>2, <2>3, <2>4, <2>5 DEF ReadInv, SourceRead, Finished
<1>5. CASE EndOfFile
  <2>1. PICK s \in Sources : s = stage
    BY <1>5 DEF EndOfFile
  <2>2. /\ text[s] # NoFile /\ line = Len(text[s]) /\ line' = 0
        /\ stage' = (IF stage = "book" THEN "trade" ELSE "merge")
        /\ UNCHANGED <<disk, parser, text, events, merged>>
    BY <1>5, <2>1 DEF EndOfFile
  <2>3. ReadUpTo(s, Len(text[s]))
    BY <2>1, <2>2 DEF ReadInv, SourceRead, Sources
  <2>4. \A r \in Sources : ReadUpTo(r, Len(text[r]))' <=> ReadUpTo(r, Len(text[r]))
    BY <2>2 DEF ReadUpTo, OfRow, Rows
  <2> QED BY <2>1, <2>2, <2>3, <2>4 DEF ReadInv, SourceRead, Finished, Sources
<1>6. CASE Merge
  <2>1. /\ stage = "merge" /\ stage' = "merged" /\ merged' = Sorted
        /\ \A k \in 2..Len(Sorted) : ~SameKey(Sorted[k - 1], Sorted[k])
        /\ UNCHANGED <<disk, parser, text, line, events>>
    BY <1>6 DEF Merge
  <2>2. Sorted' = Sorted
    BY <2>1, SortKept
  <2>3. \A r \in Sources : ReadUpTo(r, Len(text[r]))' <=> ReadUpTo(r, Len(text[r]))
    BY <2>1 DEF ReadUpTo, OfRow, Rows
  <2>4. (\A k \in 2..Len(Sorted) : ~SameKey(Sorted[k - 1], Sorted[k]))'
    BY <2>1, <2>2 DEF SameKey
  <2> QED BY <2>1, <2>2, <2>3, <2>4 DEF ReadInv, SourceRead, Finished, Sources
<1>7. CASE Open
  <2>1. PICK s \in Sources : s = stage
    BY <1>7 DEF Open
  <2>2. /\ text[s] = NoFile /\ text' = [text EXCEPT ![s] = disk[s]]
        /\ disk[s] # NoFile /\ stage' = stage
        /\ UNCHANGED <<disk, parser, line, events, merged>>
    BY <1>7, <2>1 DEF Open
  <2>3. text'[s] = disk[s] /\ disk[s] \in Seq(Lines) /\ \A r \in Sources : r # s => text'[r] = text[r]
    BY <2>2 DEF ParserInv
  <2>4. events[s] = << >> /\ line = 0
    BY <2>1, <2>2 DEF ReadInv, SourceRead, Sources
  <2>5. ReadUpTo(s, line)'
    <3>1. Len(disk[s]) \in Nat /\ \A r \in Rows(disk[s]) : ~(r <= 0)
      BY <2>3, SMTT(60) DEF Rows
    <3> QED BY <2>2, <2>3, <2>4, <3>1 DEF ReadUpTo, Rows
  <2>6. ASSUME NEW r \in Sources, r # s PROVE ReadUpTo(r, Len(text[r]))' <=> ReadUpTo(r, Len(text[r]))
    BY <2>2, <2>3, <2>6, SMTT(60) DEF ReadUpTo, OfRow, Rows
  <2>7. stage \notin {"waiting", "merge", "merged", "refused"} /\ ~Finished(s)
    BY <2>1 DEF Sources, Finished
  <2> QED BY <2>1, <2>2, <2>3, <2>5, <2>6, <2>7 DEF ReadInv, SourceRead, Finished
<1>8. CASE RefuseRow
  BY <1>8 DEF RefuseRow
<1> QED BY <1>2, <1>3, <1>4, <1>5, <1>6, <1>7, <1>8 DEF Next

LEMMA ReadRun ==
  ASSUME ~ReadsFail, RunInv, ReadInv, [RunNext]_runVars
  PROVE  ReadInv'
<1>1. CASE UNCHANGED reading
  BY <1>1, ReadKept
<1>2. CASE ReadFeed
  BY <1>2, ReadStep DEF ReadFeed, RunInv
<1>3. ASSUME NEW s \in Sources, HashInput(s), stage' # stage
      PROVE  ReadInv'
  <2>1. stage = "waiting" /\ stage' = "book" /\ UNCHANGED <<text, line, events, merged>>
    BY <1>3 DEF HashInput, Exit, feedVars, reading, RunInv
  <2>2. line = 0 /\ \A r \in Sources : text[r] = NoFile /\ events[r] = << >>
    BY <2>1 DEF ReadInv, SourceRead, Finished, Sources
  <2> QED BY <2>1, <2>2 DEF ReadInv, SourceRead, Finished, Sources
<1>4. ASSUME NEW s \in Sources, HashInput(s), stage' = stage
      PROVE  UNCHANGED reading
  BY <1>4 DEF HashInput, Exit, feedVars, reading
<1>5. ASSUME NEW s \in Sources, ReplaceFile(s)
      PROVE  UNCHANGED reading
  BY <1>5 DEF ReplaceFile
<1>6. CASE ShowHelp \/ RefuseArguments \/ RefuseEntry \/ RefuseFeed
  BY <1>1, <1>6 DEF ShowHelp, RefuseArguments, RefuseEntry, RefuseFeed, feedVars
<1>7. CASE TakeForce \/ TakePath \/ OpenConfig \/ ReadEntry
  BY <1>1, <1>7 DEF TakeForce, TakePath, OpenConfig, ReadEntry, feedVars
<1>8. CASE Configure
  BY <1>1, <1>8 DEF Configure, feedVars
<1>9. CASE Replay \/ Publish \/ FailToWrite
  BY <1>1, <1>9 DEF Replay, Publish, FailToWrite, feedVars
<1>10. CASE UNCHANGED runVars
  BY <1>1, <1>10 DEF runVars, feedVars
<1> QED BY <1>1, <1>2, <1>3, <1>4, <1>5, <1>6, <1>7, <1>8, <1>9, <1>10 DEF RunNext

\* The events that are merged are those of the two sources.
LEMMA BothSources ==
  ASSUME ParserInv
  PROVE  /\ \A i \in 1..Len(Both) : \E s \in Sources : \E k \in 1..Len(events[s]) : Both[i] = events[s][k]
         /\ \A s \in Sources : \A k \in 1..Len(events[s]) : \E i \in 1..Len(Both) : Both[i] = events[s][k]
<1>1. PICK m \in Nat, n \in Nat :
        /\ m = Len(events["book"]) /\ n = Len(events["trade"]) /\ Len(Both) = m + n
  BY BothTyped
<1>2. /\ \A k \in 1..m : Both[k] = events["book"][k]
      /\ \A k \in 1..n : Both[m + k] = events["trade"][k]
  BY <1>1, BothTyped
<1>3. /\ \A i \in 1..(m + n) : i \in 1..m \/ (i - m \in 1..n /\ m + (i - m) = i)
      /\ \A k \in 1..m : k \in 1..(m + n)
      /\ \A k \in 1..n : m + k \in 1..(m + n)
  OBVIOUS
<1>4. ASSUME NEW i \in 1..Len(Both)
      PROVE  \E s \in Sources : \E k \in 1..Len(events[s]) : Both[i] = events[s][k]
  <2>1. CASE i \in 1..m
    <3>1. "book" \in Sources
      BY DEF Sources
    <3> QED BY <1>1, <1>2, <2>1, <3>1
  <2>2. CASE i - m \in 1..n /\ m + (i - m) = i
    <3>1. "trade" \in Sources
      BY DEF Sources
    <3>2. PICK k \in 1..n : Both[i] = events["trade"][k]
      BY <1>2, <2>2
    <3> QED BY <1>1, <3>1, <3>2
  <2> QED BY <1>1, <1>3, <2>1, <2>2
<1>5. ASSUME NEW s \in Sources, NEW k \in 1..Len(events[s])
      PROVE  \E i \in 1..Len(Both) : Both[i] = events[s][k]
  <2>1. CASE s = "book"
    BY <1>1, <1>2, <1>3, <2>1
  <2>2. CASE s = "trade"
    BY <1>1, <1>2, <1>3, <2>2
  <2> QED BY <2>1, <2>2 DEF Sources
<1> QED BY <1>4, <1>5

\* Precedence and a different key is the order of the keys.
LEMMA PrecedesBefore ==
  ASSUME NEW a \in Events, NEW b \in Events, NEW c \in Events,
         a = b \/ Precedes(a, b), Precedes(b, c), ~SameKey(b, c)
  PROVE  KeyBefore(a, c)
BY DEF Precedes, KeyBefore, SameKey, Events

LEMMA MergedOrdered ==
  ASSUME ParserInv, ReadInv, stage = "merged"
  PROVE  /\ \A i, j \in 1..Len(merged) : i < j => KeyBefore(merged[i], merged[j])
         /\ \A k \in 1..Len(merged) : \E s \in Sources :
              \E i \in 1..Len(events[s]) : merged[k] = events[s][i]
         /\ \A s \in Sources : \A i \in 1..Len(events[s]) :
              \E k \in 1..Len(merged) : merged[k] = events[s][i]
<1>1. SourcesKnown /\ merged = Sorted /\ \A k \in 2..Len(Sorted) : ~SameKey(Sorted[k - 1], Sorted[k])
  BY ReadSources DEF ReadInv
<1>2. /\ Sorted \in Seq(Events) /\ Len(Sorted) \in Nat
      /\ \A k, l \in 1..Len(Sorted) : k < l => Precedes(Sorted[k], Sorted[l])
      /\ \A k \in 1..Len(Sorted) : Sorted[k] \in Events
  BY <1>1, MergeSorts
<1>3. ASSUME NEW i \in 1..Len(Sorted), NEW j \in 1..Len(Sorted), i < j
      PROVE  KeyBefore(Sorted[i], Sorted[j])
  <2>1. j - 1 \in 1..Len(Sorted) /\ j \in 2..Len(Sorted) /\ j - 1 < j /\ (i = j - 1 \/ i < j - 1)
    BY <1>2, <1>3
  <2>2. ~SameKey(Sorted[j - 1], Sorted[j]) /\ Precedes(Sorted[j - 1], Sorted[j])
    BY <1>1, <1>2, <2>1
  <2>3. Sorted[i] = Sorted[j - 1] \/ Precedes(Sorted[i], Sorted[j - 1])
    BY <1>2, <2>1
  <2> QED BY <1>2, <2>1, <2>2, <2>3, PrecedesBefore
<1>4. /\ \A k \in 1..Len(Sorted) : \E i \in 1..Len(Both) : Sorted[k] = Both[i]
      /\ \A i \in 1..Len(Both) : \E k \in 1..Len(Sorted) : Sorted[k] = Both[i]
  BY <1>1, MergeSorts
<1>5. ASSUME NEW k \in 1..Len(Sorted)
      PROVE  \E s \in Sources : \E i \in 1..Len(events[s]) : Sorted[k] = events[s][i]
  <2>1. PICK i \in 1..Len(Both) : Sorted[k] = Both[i]
    BY <1>4
  <2> QED BY <2>1, BothSources
<1>6. ASSUME NEW s \in Sources, NEW i \in 1..Len(events[s])
      PROVE  \E k \in 1..Len(Sorted) : Sorted[k] = events[s][i]
  <2>1. PICK j \in 1..Len(Both) : Both[j] = events[s][i]
    BY BothSources
  <2>2. PICK k \in 1..Len(Sorted) : Sorted[k] = Both[j]
    BY <1>4
  <2> QED BY <2>1, <2>2
<1> QED BY <1>1, <1>3, <1>5, <1>6

LEMMA MergedRows ==
  ASSUME ParserInv, ReadInv, stage = "merged"
  PROVE  MergedFeed
<1>1. \A s \in Sources : text[s] \in Seq(Lines) /\ ReadUpTo(s, Len(text[s]))
  BY DEF ReadInv, SourceRead, Finished, ParserInv
<1>2. ASSUME NEW k \in 1..Len(merged)
      PROVE  /\ merged[k].source \in Sources
             /\ OfRow(merged[k], merged[k].source, Len(text[merged[k].source]))
  <2>1. PICK s \in Sources : \E i \in 1..Len(events[s]) : merged[k] = events[s][i]
    BY MergedOrdered
  <2>2. OfRow(merged[k], s, Len(text[s]))
    BY <1>1, <2>1 DEF ReadUpTo
  <2> QED BY <2>2 DEF OfRow
<1>3. {<<merged[k].source, merged[k].line>> : k \in 1..Len(merged)} =
        UNION {{s} \X Rows(text[s]) : s \in Sources}
  <2>1. ASSUME NEW k \in 1..Len(merged)
        PROVE  <<merged[k].source, merged[k].line>> \in UNION {{s} \X Rows(text[s]) : s \in Sources}
    BY <1>2 DEF OfRow
  <2>2. ASSUME NEW s \in Sources, NEW r \in Rows(text[s])
        PROVE  <<s, r>> \in {<<merged[k].source, merged[k].line>> : k \in 1..Len(merged)}
    <3>1. r <= Len(text[s])
      BY <1>1 DEF Rows
    <3>2. PICK i \in 1..Len(events[s]) : events[s][i].line = r
      BY <1>1, <3>1 DEF ReadUpTo
    <3>3. events[s][i].source = s
      BY <1>1 DEF ReadUpTo, OfRow
    <3>4. PICK k \in 1..Len(merged) : merged[k] = events[s][i]
      BY MergedOrdered
    <3> QED BY <3>2, <3>3, <3>4
  <2> DEFINE listed == {<<merged[k].source, merged[k].line>> : k \in 1..Len(merged)}
             rows   == UNION {{s} \X Rows(text[s]) : s \in Sources}
  <2>3. listed \subseteq rows
    <3> SUFFICES ASSUME NEW x \in listed PROVE x \in rows
      OBVIOUS
    <3>1. PICK k \in 1..Len(merged) : x = <<merged[k].source, merged[k].line>>
      OBVIOUS
    <3> QED BY <2>1, <3>1
  <2>4. rows \subseteq listed
    <3> SUFFICES ASSUME NEW x \in rows PROVE x \in listed
      OBVIOUS
    <3>1. PICK s \in Sources : x \in {s} \X Rows(text[s])
      OBVIOUS
    <3>2. PICK r \in Rows(text[s]) : x = <<s, r>>
      BY <3>1
    <3> QED BY <2>2, <3>2, SMTT(60)
  <2> QED BY <2>3, <2>4
<1>4. ASSUME NEW k \in 1..Len(merged)
      PROVE  /\ merged[k].line \in 1..Len(text[merged[k].source])
             /\ LET l == text[merged[k].source][merged[k].line]
                IN  <<merged[k].ts, merged[k].seq, merged[k].side, merged[k].qty>> = <<l.ts, l.seq, l.side, l.qty>>
  BY <1>2 DEF OfRow, Rows
<1> QED BY <1>3, <1>4, MergedOrdered DEF MergedFeed

(* merge_events of src/replay_engine.cpp returns every row of both files   *)
(* once, strictly ordered by key, with what the row says, or the replay is *)
(* refused: so for all files, as long as no read of an open file fails.    *)
THEOREM MergedCorrect ==
  ASSUME ~ReadsFail
  PROVE  RunSpec => []MergedFeed
<1>1. RunInit => RunInv /\ ReadInv
  BY RunInitInv DEF RunInit, Unread, ReadInv, SourceRead, Finished, Sources
<1>2. RunInv /\ ReadInv /\ [RunNext]_runVars => RunInv' /\ ReadInv'
  BY RunStep, ReadRun
<1>3. RunInv /\ ReadInv => MergedFeed
  BY MergedRows DEF RunInv, MergedFeed
<1> QED BY <1>1, <1>2, <1>3, PTL DEF RunSpec
-----------------------------------------------------------------------------
\* What is hashed is what is there before anything replaces it, and what is
\* published is what was hashed and merged.
HashInv ==
  /\ hashed \in [Sources -> Seq(Lines) \cup {NoFile}]
  /\ \A s \in Sources :
       /\ hashed[s] = NoFile => s \notin replaced
       /\ s \notin replaced => disk[s] = setup.disk[s]
       /\ hashed[s] # NoFile => hashed[s] = setup.disk[s]
       /\ text[s] # NoFile /\ s \notin replaced => text[s] = setup.disk[s]
  /\ phase \in {"feed", "write"} => \A s \in Sources : hashed[s] # NoFile
  /\ phase = "write" => stage = "merged"
  /\ published # None =>
       /\ phase = "exited" /\ stage = "merged"
       /\ published.hashed = hashed /\ published.feed = merged
       /\ \A s \in Sources : hashed[s] # NoFile

\* Most steps, and the end, touch neither the hashes nor the files.
LEMMA HashesKept ==
  ASSUME HashInv, phase # "exited",
         UNCHANGED <<setup, hashed, replaced, published, disk, text, stage>>,
         phase' \in {"feed", "write"} => phase' = phase
  PROVE  HashInv'
BY DEF HashInv

LEMMA WholeHashed ==
  ASSUME ~ReadsFail, RunInv, HashInv, NEW s \in Sources, HashInput(s)
  PROVE  HashInv'
<1>1. phase = "hash" /\ hashed[s] = NoFile /\ published = None /\ s \notin replaced
  BY DEF HashInput, HashInv
<1>2. CASE disk[s] # NoFile
  <2>1. PICK f \in Seq(Lines) : f = disk[s] /\ f = setup.disk[s]
    BY <1>1, <1>2 DEF HashInv, RunInv, ParserInv
  <2>2. hashed' = [hashed EXCEPT ![s] = SubSeq(f, 1, Len(f))]
    BY <1>2, <2>1 DEF HashInput, HashedFile, ReadLengths
  <2>3. SubSeq(f, 1, Len(f)) = f
    BY <2>1
  <2>4. hashed'[s] = f /\ f # NoFile /\ \A r \in Sources : r # s => hashed'[r] = hashed[r]
    BY <2>2, <2>3, <2>1, <1>2 DEF HashInv
  <2>5. /\ UNCHANGED <<setup, replaced, published, disk, text>>
        /\ phase' = "hash" \/ (phase' = "feed" /\ s = "trade" /\ hashed["book"] # NoFile)
    BY <1>1, <1>2 DEF HashInput
  <2>6. hashed' \in [Sources -> Seq(Lines) \cup {NoFile}]
    BY <2>2, <2>3, <2>1 DEF HashInv
  <2>7. phase' = "feed" => \A r \in Sources : hashed'[r] # NoFile
    BY <2>4, <2>5 DEF Sources
  <2> QED BY <1>1, <2>1, <2>4, <2>5, <2>6, <2>7 DEF HashInv
<1>3. CASE disk[s] = NoFile
  BY <1>1, <1>3, HashesKept DEF HashInput, Exit, feedVars, reading
<1> QED BY <1>2, <1>3

LEMMA OpenHashed ==
  ASSUME RunInv, HashInv, ReadFeed
  PROVE  HashInv'
<1>1. /\ phase = "feed" /\ phase' = phase /\ published = None
      /\ UNCHANGED <<setup, hashed, replaced, published>> /\ Next
  BY DEF ReadFeed, cliVars, HashInv
<1>2. disk' = disk
  BY <1>1 DEF Next, Open, SkipBlank, SkipHeader, RefuseRow, ReadRow, EndOfFile, Merge
<1>3. \A s \in Sources : text'[s] = text[s] \/ text'[s] = disk[s]
  <2>1. CASE Open
    BY <2>1 DEF Open, RunInv, ParserInv
  <2>2. CASE ~Open
    BY <1>1, <2>2 DEF Next, SkipBlank, SkipHeader, RefuseRow, ReadRow, EndOfFile, Merge
  <2> QED BY <2>1, <2>2
<1> QED BY <1>1, <1>2, <1>3 DEF HashInv

LEMMA HashStep ==
  ASSUME ~ReadsFail, RunInv, HashInv, [RunNext]_runVars
  PROVE  HashInv'
<1>1. CASE ShowHelp \/ RefuseArguments \/ RefuseEntry \/ RefuseFeed
  BY <1>1, HashesKept DEF ShowHelp, RefuseArguments, RefuseEntry, RefuseFeed, InConfig, Exit, feedVars, reading
<1>2. CASE TakeForce \/ TakePath \/ OpenConfig \/ ReadEntry
  BY <1>2, HashesKept DEF TakeForce, TakePath, OpenConfig, ReadEntry, Parsing, InConfig, feedVars, reading
<1>3. CASE Configure
  BY <1>3, HashesKept DEF Configure, Exit, feedVars, reading
<1>4. CASE Replay
  BY <1>4 DEF Replay, Exit, cliVars, feedVars, reading, HashInv
<1>5. CASE Publish
  BY <1>5 DEF Publish, feedVars, reading, HashInv
<1>6. CASE FailToWrite
  BY <1>6, HashesKept DEF FailToWrite, feedVars, reading
<1>7. CASE ReadFeed
  BY <1>7, OpenHashed
<1>8. ASSUME NEW s \in Sources, ReplaceFile(s)
      PROVE  HashInv'
  BY <1>8 DEF ReplaceFile, reading, HashInv, RunInv, ParserInv
<1>9. ASSUME NEW s \in Sources, HashInput(s)
      PROVE  HashInv'
  BY <1>9, WholeHashed
<1>10. CASE UNCHANGED runVars
  BY <1>10 DEF runVars, cliVars, feedVars, reading, HashInv
<1> QED BY <1>1, <1>2, <1>3, <1>4, <1>5, <1>6, <1>7, <1>8, <1>9, <1>10 DEF RunNext

LEMMA PublishedRows ==
  ASSUME RunInv, ReadInv, HashInv
  PROVE  InputsIdentified
<1> SUFFICES ASSUME published # None, NEW s \in Sources
             PROVE  /\ published.hashed[s] = setup.disk[s]
                    /\ s \notin replaced =>
                         /\ published.hashed[s] = text[s]
                         /\ {published.feed[k].line : k \in {j \in DOMAIN published.feed : published.feed[j].source = s}}
                              = Rows(setup.disk[s])
  BY DEF InputsIdentified
<1>1. /\ stage = "merged" /\ published.hashed = hashed /\ published.feed = merged
      /\ hashed[s] = setup.disk[s]
  BY DEF HashInv
<1>2. text[s] # NoFile
  BY <1>1 DEF ReadInv, SourceRead, Finished
<1>3. s \notin replaced => text[s] = setup.disk[s]
  BY <1>2 DEF HashInv
<1>4. DOMAIN merged = 1..Len(merged)
  <2>1. merged = Sorted /\ Sorted \in Seq(Events)
    BY <1>1, ReadSources, MergeSorts DEF RunInv, ReadInv
  <2>2. PICK m \in Seq(Events) : m = merged
    BY <2>1
  <2>3. DOMAIN m = 1..Len(m)
    OBVIOUS
  <2> QED BY <2>2, <2>3
<1>5. \A k \in 1..Len(merged) : merged[k].source = s => merged[k].line \in Rows(text[s])
  <2> SUFFICES ASSUME NEW k \in 1..Len(merged), merged[k].source = s
               PROVE  merged[k].line \in Rows(text[s])
    OBVIOUS
  <2>1. PICK r \in Sources : \E i \in 1..Len(events[r]) : merged[k] = events[r][i]
    BY <1>1, MergedOrdered DEF RunInv
  <2>2. PICK i \in 1..Len(events[r]) : merged[k] = events[r][i]
    BY <2>1
  <2>3. OfRow(events[r][i], r, Len(text[r]))
    BY <1>1 DEF ReadInv, SourceRead, Finished, ReadUpTo
  <2> QED BY <2>2, <2>3 DEF OfRow
<1>6. \A r \in Rows(text[s]) : \E k \in 1..Len(merged) : merged[k].source = s /\ merged[k].line = r
  <2> SUFFICES ASSUME NEW r \in Rows(text[s])
               PROVE  \E k \in 1..Len(merged) : merged[k].source = s /\ merged[k].line = r
    OBVIOUS
  <2>1. ReadUpTo(s, Len(text[s])) /\ r <= Len(text[s])
    BY <1>1, <1>2 DEF ReadInv, SourceRead, Finished, Rows, RunInv, ParserInv
  <2>2. PICK i \in 1..Len(events[s]) : events[s][i].line = r
    BY <2>1 DEF ReadUpTo
  <2>3. events[s][i].source = s
    BY <2>1 DEF ReadUpTo, OfRow
  <2>4. PICK k \in 1..Len(merged) : merged[k] = events[s][i]
    BY <1>1, MergedOrdered DEF RunInv
  <2> QED BY <2>2, <2>3, <2>4
<1>7. {merged[k].line : k \in {j \in DOMAIN merged : merged[j].source = s}} = Rows(text[s])
  BY <1>4, <1>5, <1>6
<1> QED BY <1>1, <1>3, <1>7

(* The artifacts of a replay name the inputs by the hashes of the files    *)
(* that were there first, and a file that nothing replaced since is what   *)
(* was replayed, every row of it: run_replay_from_config_file hashes each  *)
(* file before it opens it again.                                          *)
THEOREM InputsCorrect ==
  ASSUME ~ReadsFail
  PROVE  RunSpec => []InputsIdentified
<1>1. RunInit => RunInv /\ ReadInv /\ HashInv
  BY RunInitInv DEF RunInit, Unread, ReadInv, SourceRead, Finished, HashInv, Sources
<1>2. RunInv /\ ReadInv /\ HashInv /\ [RunNext]_runVars => RunInv' /\ ReadInv' /\ HashInv'
  BY RunStep, ReadRun, HashStep
<1>3. RunInv /\ ReadInv /\ HashInv => InputsIdentified
  BY PublishedRows
<1> QED BY <1>1, <1>2, <1>3, PTL DEF RunSpec
-----------------------------------------------------------------------------
\* Prices: what an event has of its row.
\* An event has the price of its row, as the parser reads it.
AsWritten(e, s) ==
  /\ e.line \in 1..Len(text[s])
  /\ PriceReads(text[s][e.line].price) /\ e.price = Price(text[s][e.line].price)

\* Neither a file nor the parser changes once events were read with them.
PriceInv ==
  /\ stage = "waiting" => \A s \in Sources : text[s] = NoFile
  /\ \A s \in Sources : text[s] = NoFile => events[s] = << >>
  /\ \A s \in Sources : \A k \in 1..Len(events[s]) : AsWritten(events[s][k], s)

LEMMA PriceKept ==
  ASSUME PriceInv, UNCHANGED <<parser, text, events>>, stage' = "waiting" => stage = "waiting"
  PROVE  PriceInv'
<1>1. \A s \in Sources : \A k \in 1..Len(events[s]) : AsWritten(events[s][k], s)'
  BY DEF PriceInv, AsWritten, PriceReads, Price
<1> QED BY <1>1 DEF PriceInv

LEMMA PriceRead ==
  ASSUME ParserInv, PriceInv, ReadRow
  PROVE  PriceInv'
<1>1. PICK s \in Sources : s = stage
  BY DEF ReadRow, Reading
<1>2. PICK e : e = Event(s, line + 1)
  OBVIOUS
<1>3. PICK es \in Seq(Events) : es = events[s]
  BY DEF ParserInv
<1>4. /\ text[s] # NoFile /\ line + 1 \in 1..Len(text[s]) /\ UNCHANGED <<parser, text>>
      /\ RowReads(s, text[s][line + 1])
      /\ events' = [events EXCEPT ![s] = Append(es, e)]
      /\ stage \in Sources /\ stage' \in {stage, "refused"}
  BY <1>1, <1>2, <1>3 DEF ReadRow, Reading, Current, ParserInv
<1>5. /\ Len(Append(es, e)) = Len(es) + 1 /\ Len(es) \in Nat
      /\ Append(es, e)[Len(es) + 1] = e
      /\ \A k \in 1..Len(es) : Append(es, e)[k] = es[k]
  BY <1>3
<1>6. AsWritten(e, s)
  BY <1>2, <1>4 DEF AsWritten, Event, RowReads
<1>7. \A x, r : AsWritten(x, r)' <=> AsWritten(x, r)
  BY <1>4 DEF AsWritten, PriceReads, Price
<1>8. \A k \in 1..Len(Append(es, e)) : AsWritten(Append(es, e)[k], s)
  <2>1. \A k \in 1..Len(Append(es, e)) : k \in 1..Len(es) \/ k = Len(es) + 1
    BY <1>5
  <2>2. \A k \in 1..Len(es) : AsWritten(es[k], s)
    BY <1>3 DEF PriceInv
  <2> QED BY <1>5, <1>6, <2>1, <2>2
<1>9. events'[s] = Append(es, e) /\ \A r \in Sources : r # s => events'[r] = events[r]
  BY <1>4 DEF ParserInv
<1>10. ASSUME NEW r \in Sources, NEW k \in 1..Len(events'[r])
       PROVE  AsWritten(events[r][k], r)'
  <2>1. PICK x : x = events'[r][k]
    OBVIOUS
  <2>2. AsWritten(x, r)
    <3>1. CASE r = s
      BY <1>8, <1>9, <1>10, <2>1, <3>1
    <3>2. CASE r # s
      BY <1>9, <1>10, <2>1, <3>2 DEF PriceInv
    <3> QED BY <3>1, <3>2
  <2>3. AsWritten(x, r)'
    BY <1>7, <2>2
  <2> QED BY <2>1, <2>3 DEF AsWritten
<1>11. \A r \in Sources : text'[r] = NoFile => events'[r] = << >>
  BY <1>4, <1>9 DEF PriceInv
<1>12. stage' # "waiting"
  BY <1>4 DEF Sources
<1> QED BY <1>10, <1>11, <1>12 DEF PriceInv

LEMMA PriceStep ==
  ASSUME RunInv, PriceInv, [RunNext]_runVars
  PROVE  PriceInv'
<1>1. CASE UNCHANGED <<parser, reading>>
  BY <1>1, PriceKept DEF reading
<1>2. CASE ReadFeed
  <2>1. Next /\ ParserInv
    BY <1>2 DEF ReadFeed, RunInv
  <2>2. CASE ReadRow
    BY <2>1, <2>2, PriceRead
  <2>3. CASE SkipBlank \/ SkipHeader \/ RefuseRow \/ EndOfFile \/ Merge
    BY <2>3, PriceKept DEF SkipBlank, SkipHeader, RefuseRow, EndOfFile, Merge, Reading, Sources
  <2>4. CASE Open
    <3>1. PICK s \in Sources : /\ s = stage /\ text[s] = NoFile /\ text' = [text EXCEPT ![s] = disk[s]]
                               /\ UNCHANGED <<parser, events>> /\ stage' \in {s, "refused"}
      BY <2>4 DEF Open
    <3>2. stage' # "waiting" /\ events[s] = << >> /\ \A r \in Sources : r # s => text'[r] = text[r]
      BY <2>1, <3>1 DEF PriceInv, ParserInv, Sources
    <3>3. ASSUME NEW r \in Sources, NEW k \in 1..Len(events[r]) PROVE AsWritten(events[r][k], r)'
      <4>1. CASE r = s
        BY <3>2, <3>3, <4>1
      <4>2. CASE r # s
        BY <3>1, <3>2, <3>3, <4>2 DEF PriceInv, AsWritten, PriceReads, Price
      <4> QED BY <4>1, <4>2
    <3> QED BY <3>1, <3>2, <3>3 DEF PriceInv
  <2> QED BY <2>1, <2>2, <2>3, <2>4 DEF Next
<1>3. ASSUME NEW s \in Sources, HashInput(s) PROVE PriceInv'
  BY <1>3, PriceKept DEF HashInput, Exit, feedVars, reading, RunInv
<1>4. CASE Configure
  <2>1. stage = "waiting" /\ UNCHANGED reading
    BY <1>4 DEF Configure, RunInv, feedVars
  <2>2. \A s \in Sources : text'[s] = NoFile /\ events'[s] = << >>
    BY <2>1 DEF PriceInv, reading
  <2> QED BY <2>2 DEF PriceInv
<1>5. ASSUME NEW s \in Sources, ReplaceFile(s) PROVE PriceInv'
  BY <1>1, <1>5 DEF ReplaceFile
<1>6. CASE ShowHelp \/ RefuseArguments \/ RefuseEntry \/ RefuseFeed
  BY <1>1, <1>6 DEF ShowHelp, RefuseArguments, RefuseEntry, RefuseFeed, feedVars
<1>7. CASE TakeForce \/ TakePath \/ OpenConfig \/ ReadEntry
  BY <1>1, <1>7 DEF TakeForce, TakePath, OpenConfig, ReadEntry, feedVars
<1>8. CASE Replay \/ Publish \/ FailToWrite
  BY <1>1, <1>8 DEF Replay, Publish, FailToWrite, feedVars
<1>9. CASE UNCHANGED runVars
  BY <1>1, <1>9, SMTT(60) DEF runVars, feedVars
<1> QED BY <1>2, <1>3, <1>4, <1>5, <1>6, <1>7, <1>8, <1>9 DEF RunNext

\* What the two formats make of a text.
LEMMA DecimalReads ==
  ASSUME NEW price \in Texts, NEW tick \in Texts, Converts(price, tick),
         NEW n, n = PriceToTicks(price, tick)
  PROVE  /\ n \in 0..MaxI64 /\ IsTicks(n, price, tick)
         /\ CanFormat(n, tick) =>
              /\ IsTicks(n, TicksToPrice(n, tick), tick)
              /\ Converts(TicksToPrice(n, tick), tick)
              /\ PriceToTicks(TicksToPrice(n, tick), tick) = n
<1>1. IsTickSize(tick) /\ Pow10Fits(Decimal(tick).scale)
  BY Zenon DEF Converts
<1>2. n \in 0..MaxI64 /\ IsTicks(n, price, tick)
  BY <1>1, ConvertsIs
<1>3. n \in Nat /\ n <= MaxI64
  BY <1>2, WidthsAssumption
<1>4. CanFormat(n, tick) =>
        /\ IsTicks(n, TicksToPrice(n, tick), tick)
        /\ Converts(TicksToPrice(n, tick), tick)
        /\ PriceToTicks(TicksToPrice(n, tick), tick) = n
  BY <1>1, <1>3, WrittenBack
<1> QED BY <1>2, <1>4

LEMMA TextOfEvent ==
  ASSUME ParserInv, NEW s \in Sources, text[s] # NoFile, NEW k \in 1..Len(text[s])
  PROVE  text[s][k].price \in Texts
<1>1. text[s] \in Seq(Lines)
  BY DEF ParserInv
<1>2. text[s][k] \in Lines
  BY <1>1
<1> QED BY <1>2 DEF Lines

LEMMA PriceHolds ==
  ASSUME ParserInv, PriceInv
  PROVE  PricesExact
<1>1. ASSUME NEW s \in Sources, NEW k \in 1..Len(events[s])
      PROVE  LET e       == events[s][k]
                 price   == text[s][e.line].price
                 written == TicksToPrice(e.price, parser.tick)
             IN  /\ e.price \in 0..MaxI64
                 /\ parser.format = "ticks" => e.price = Whole(price)
                 /\ parser.format = "decimal" => IsTicks(e.price, price, parser.tick)
                 /\ parser.format = "decimal" /\ CanFormat(e.price, parser.tick) =>
                      /\ IsTicks(e.price, written, parser.tick)
                      /\ Converts(written, parser.tick) /\ PriceToTicks(written, parser.tick) = e.price
  <2>1. text[s] # NoFile
    <3>1. CASE text[s] = NoFile
      <4>1. events[s] = << >>
        BY <3>1 DEF PriceInv
      <4> QED BY <4>1
    <3> QED BY <3>1
  <2>2. AsWritten(events[s][k], s)
    BY DEF PriceInv
  <2>3. PICK n, p : n = events[s][k].price /\ p = text[s][events[s][k].line].price
    OBVIOUS
  <2>4. PriceReads(p) /\ n = Price(p)
    BY <2>2, <2>3 DEF AsWritten
  <2>5. p \in Texts
    <3>1. events[s][k].line \in 1..Len(text[s])
      BY <2>2 DEF AsWritten
    <3> QED BY <2>1, <2>3, <3>1, TextOfEvent
  <2>6. PICK tick \in Texts : tick = parser.tick
    BY DEF ParserInv
  <2>7. parser.format \in {"decimal", "ticks"}
    BY DEF ParserInv, Formats
  <2> DEFINE written == TicksToPrice(n, tick)
             Exact   == /\ n \in 0..MaxI64
                        /\ parser.format = "ticks" => n = Whole(p)
                        /\ parser.format = "decimal" => IsTicks(n, p, tick)
                        /\ parser.format = "decimal" /\ CanFormat(n, tick) =>
                             IsTicks(n, written, tick) /\ Converts(written, tick) /\ PriceToTicks(written, tick) = n
  <2> SUFFICES Exact
    BY <2>3, <2>6
  <2>8. CASE parser.format = "ticks"
    <3>1. IsNumber(p) /\ n = Number(p)
      BY <2>4, <2>8 DEF PriceReads, Price
    <3> QED BY <2>5, <2>8, <3>1, NumberIs
  <2>9. CASE parser.format = "decimal"
    <3>1. Converts(p, tick) /\ n = PriceToTicks(p, tick)
      BY <2>4, <2>6, <2>9 DEF PriceReads, Price
    <3> QED BY <2>5, <2>9, <3>1, DecimalReads
  <2> QED BY <2>7, <2>8, <2>9
<1> QED BY <1>1 DEF PricesExact

(* price_to_ticks of src/types.cpp rounds no price, for any text, tick     *)
(* size and width of its integers, and ticks_to_price is its inverse: the  *)
(* digits written for an event's ticks are read as the same ticks again.   *)
THEOREM PricesCorrect == RunSpec => []PricesExact
<1>1. RunInit => RunInv /\ PriceInv
  BY RunInitInv DEF RunInit, Unread, PriceInv
<1>2. RunInv /\ PriceInv /\ [RunNext]_runVars => RunInv' /\ PriceInv'
  BY RunStep, PriceStep
<1>3. RunInv /\ PriceInv => PricesExact
  BY PriceHolds DEF RunInv
<1> QED BY <1>1, <1>2, <1>3, PTL DEF RunSpec

-----------------------------------------------------------------------------
\* A line that is not refused when it is read.
LineReads(s, k) ==
  LET l == text[s][k]
  IN  \/ l.kind = "blank" \/ (l.kind = "header" /\ k = 1)
      \/ (l.kind = "row" /\ RowReads(s, l))

\* Rows out of the order of their keys.
RowsCross(s) == \E i, j \in Rows(text[s]) : i < j /\ ~KeyBefore(text[s][i], text[s][j])

\* What is wrong with the inputs of a replay that is refused.
Refusal ==
  \/ ~IsTickSize(parser.tick)
  \/ \E s \in Sources : text[s] # NoFile /\ ((\E k \in 1..Len(text[s]) : ~LineReads(s, k)) \/ RowsCross(s))
  \/ (\A s \in Sources : text[s] # NoFile) /\ ~Disjoint(text["book"], text["trade"])

\* Every line read was to be read, events are in the order of their lines, and
\* a refusal has its reason.
ContractInv ==
  /\ stage # "refused" =>
       \A s \in Sources :
         /\ text[s] # NoFile => IsTickSize(parser.tick)
         /\ \A i, j \in 1..Len(events[s]) : i < j => events[s][i].line < events[s][j].line
         /\ s = stage /\ text[s] # NoFile => \A k \in 1..line : LineReads(s, k)
         /\ Finished(s) => \A k \in 1..Len(text[s]) : LineReads(s, k)
  /\ stage = "refused" => Refusal

\* The contract's words, line by line.
LEMMA RowIsGood ==
  ASSUME ParserInv, IsTickSize(parser.tick), NEW s \in Sources, NEW l \in Lines
  PROVE  RowReads(s, l) <=>
           /\ l.ts \in 0..MaxU64 /\ l.seq \in 0..MaxU64 /\ l.qty \in 0..MaxI64
           /\ l.side \in (IF s = "book" THEN Sides ELSE Sides \cup {"none"})
           /\ IF parser.format = "ticks" THEN GoodTicks(l.price) ELSE GoodPrice(l.price, parser.tick)
<1>1. /\ l.price \in Texts /\ l.ts \in Nat /\ l.seq \in Nat /\ l.qty \in Nat
      /\ l.side \in Sides \cup {"none", "other"}
  BY DEF Lines
<1>2. parser.tick \in Texts /\ parser.format \in {"decimal", "ticks"}
  BY DEF ParserInv, Formats
<1>3. PriceReads(l.price) <=> IF parser.format = "ticks" THEN GoodTicks(l.price) ELSE GoodPrice(l.price, parser.tick)
  <2>1. CASE parser.format = "ticks"
    BY <1>1, <2>1, NumberIs DEF PriceReads
  <2>2. CASE parser.format = "decimal"
    BY <1>1, <1>2, <2>2, ConvertsIs DEF PriceReads
  <2> QED BY <1>2, <2>1, <2>2
<1>4. /\ l.ts <= MaxU64 <=> l.ts \in 0..MaxU64
      /\ l.seq <= MaxU64 <=> l.seq \in 0..MaxU64
      /\ l.qty <= MaxI64 <=> l.qty \in 0..MaxI64
  BY <1>1, WidthsAssumption
<1>5. l.side \in Sides \/ (s = "trade" /\ l.side = "none")
        <=> l.side \in (IF s = "book" THEN Sides ELSE Sides \cup {"none"})
  BY DEF Sources
<1> QED BY <1>3, <1>4, <1>5 DEF RowReads

LEMMA AcceptableIs ==
  ASSUME ParserInv, IsTickSize(parser.tick), NEW s \in Sources, text[s] # NoFile
  PROVE  Acceptable(text[s], s) /\ HeaderFirst(text[s])
           <=> (\A k \in 1..Len(text[s]) : LineReads(s, k)) /\ ~RowsCross(s)
<1>1. PICK f \in Seq(Lines) : f = text[s]
  BY DEF ParserInv
<1>2. \A k \in 1..Len(f) : f[k] \in Lines /\ f[k].kind \in {"blank", "header", "malformed", "row"}
  <2>1. \A k \in 1..Len(f) : f[k] \in Lines
    OBVIOUS
  <2>2. \A l \in Lines : l.kind \in {"blank", "header", "malformed", "row"}
    BY DEF Lines, Kinds
  <2> QED BY <2>1, <2>2
<1>3. ASSUME NEW k \in Rows(f)
      PROVE  RowReads(s, f[k]) <=>
           /\ f[k].ts \in 0..MaxU64 /\ f[k].seq \in 0..MaxU64 /\ f[k].qty \in 0..MaxI64
           /\ f[k].side \in (IF s = "book" THEN Sides ELSE Sides \cup {"none"})
           /\ IF parser.format = "ticks" THEN GoodTicks(f[k].price) ELSE GoodPrice(f[k].price, parser.tick)
  <2>1. PICK l \in Lines : l = f[k]
    BY <1>2 DEF Rows
  <2> QED BY <2>1, RowIsGood
<1>4. (\A k \in 1..Len(f) : LineReads(s, k)) <=>
        /\ \A k \in 1..Len(f) : f[k].kind = "malformed" \/ f[k].kind = "header" => k = 1 /\ f[k].kind = "header"
        /\ \A k \in Rows(f) : RowReads(s, f[k])
  <2>1. ASSUME NEW k \in 1..Len(f)
        PROVE  LineReads(s, k) <=> /\ f[k].kind = "malformed" \/ f[k].kind = "header" => k = 1 /\ f[k].kind = "header"
                                   /\ f[k].kind = "row" => RowReads(s, f[k])
    BY <1>1, <1>2, <2>1 DEF LineReads
  <2> QED BY <2>1 DEF Rows
<1>5. ~RowsCross(s) <=> \A i, j \in Rows(f) : i < j => KeyBefore(f[i], f[j])
  BY <1>1 DEF RowsCross
<1>6. Acceptable(f, s) /\ HeaderFirst(f) <=>
        /\ \A k \in 1..Len(f) : f[k].kind = "malformed" \/ f[k].kind = "header" => k = 1 /\ f[k].kind = "header"
        /\ \A k \in Rows(f) : RowReads(s, f[k])
        /\ \A i, j \in Rows(f) : i < j => KeyBefore(f[i], f[j])
  <2>1. f # NoFile
    BY <1>1
  <2>2. (\A k \in 1..Len(f) :
           /\ f[k].kind # "malformed"
           /\ f[k].kind = "header" => \A j \in 1..(k - 1) : f[j].kind = "blank") /\ HeaderFirst(f)
        <=> \A k \in 1..Len(f) : f[k].kind = "malformed" \/ f[k].kind = "header" => k = 1 /\ f[k].kind = "header"
    <3>1. \A k \in 1..Len(f) : k = 1 => 1..(k - 1) = {}
      OBVIOUS
    <3> QED BY <3>1 DEF HeaderFirst
  <2> QED BY <1>3, <2>1, <2>2 DEF Acceptable
<1> QED BY <1>1, <1>4, <1>5, <1>6

\* What a line is, and what is wrong with it, hangs on the file and the parser.
LEMMA LinesKept ==
  ASSUME UNCHANGED parser, NEW s, text'[s] = text[s]
  PROVE  /\ \A k : LineReads(s, k)' <=> LineReads(s, k)
         /\ RowsCross(s)' <=> RowsCross(s)
BY DEF LineReads, RowReads, PriceReads, RowsCross, Rows, KeyBefore

LEMMA RefusalKept ==
  ASSUME Refusal, UNCHANGED <<parser, text>>
  PROVE  Refusal'
<1>1. \A s : (\A k : LineReads(s, k)' <=> LineReads(s, k)) /\ (RowsCross(s)' <=> RowsCross(s))
  BY LinesKept
<1>2. Disjoint(text["book"], text["trade"])' <=> Disjoint(text["book"], text["trade"])
  BY DEF Disjoint, Rows, SameKey
<1> QED BY <1>1, <1>2 DEF Refusal

LEMMA ContractKept ==
  ASSUME ContractInv, UNCHANGED <<parser, text, stage, line, events>>
  PROVE  ContractInv'
<1>1. \A s : \A k : LineReads(s, k)' <=> LineReads(s, k)
  BY LinesKept
<1>2. \A s : Finished(s)' <=> Finished(s)
  BY DEF Finished
<1>3. CASE stage = "refused"
  BY <1>3, RefusalKept DEF ContractInv
<1>4. CASE stage # "refused"
  BY <1>1, <1>2, <1>4 DEF ContractInv
<1> QED BY <1>3, <1>4

\* A line that is no row, and is skipped.
LEMMA ContractSkips ==
  ASSUME ParserInv, ContractInv, SkipBlank \/ SkipHeader
  PROVE  ContractInv'
<1>1. /\ stage \in Sources /\ text[stage] # NoFile /\ line \in Nat /\ line' = line + 1
      /\ UNCHANGED <<parser, text, stage, events>> /\ LineReads(stage, line + 1)
  BY DEF SkipBlank, SkipHeader, IsHeader, Reading, Current, LineReads, ParserInv
<1>2. \A s : \A k : LineReads(s, k)' <=> LineReads(s, k)
  BY <1>1, LinesKept
<1>3. \A k \in 1..(line + 1) : k \in 1..line \/ k = line + 1
  BY <1>1
<1>4. \A k \in 1..(line + 1) : LineReads(stage, k)
  BY <1>1, <1>3 DEF ContractInv, Sources
<1>5. \A s : Finished(s)' <=> Finished(s)
  BY <1>1 DEF Finished
<1>6. stage # "refused"
  BY <1>1 DEF Sources
<1> QED BY <1>1, <1>2, <1>4, <1>5, <1>6 DEF ContractInv

\* Nothing was read from no lines.
LEMMA NoEventsYet ==
  ASSUME ParserInv, ReadInv, stage \in Sources, text[stage] # NoFile, line = 0
  PROVE  events[stage] = << >>
<1>1. ReadUpTo(stage, 0)
  BY DEF ReadInv, SourceRead, Sources
<1>2. PICK es \in Seq(Events) : es = events[stage]
  BY DEF ParserInv
<1>3. \A k \in 1..Len(es) : es[k].line <= 0 /\ es[k].line \in 1..Len(text[stage])
  BY <1>1, <1>2 DEF ReadUpTo, OfRow, Rows
<1>4. \A k \in 1..Len(es) : FALSE
  <2>1. \A x \in 1..Len(text[stage]) : ~(x <= 0)
    OBVIOUS
  <2> QED BY <1>3, <2>1
<1>5. Len(es) \in Nat /\ (Len(es) # 0 => 1 \in 1..Len(es))
  OBVIOUS
<1> QED BY <1>2, <1>4, <1>5

LEMMA ContractRefuses ==
  ASSUME ParserInv, ReadInv, ContractInv, RefuseRow
  PROVE  ContractInv'
<1>1. /\ stage \in Sources /\ text[stage] # NoFile /\ line \in Nat /\ line + 1 \in 1..Len(text[stage])
      /\ UNCHANGED <<parser, text>> /\ stage' = "refused"
  BY DEF RefuseRow, Reading, ParserInv
<1>2. ~LineReads(stage, line + 1)
  <2>1. CASE Current.kind = "malformed"
    BY <2>1 DEF Current, LineReads
  <2>2. CASE Current.kind = "header" /\ ~IsHeader
    <3>1. line # 0
      BY <1>1, <2>2, NoEventsYet DEF IsHeader
    <3> QED BY <1>1, <2>2, <3>1 DEF Current, LineReads
  <2>3. CASE Current.kind = "row" /\ ~RowReads(stage, Current)
    BY <2>3 DEF Current, LineReads
  <2> QED BY <2>1, <2>2, <2>3 DEF RefuseRow
<1>3. Refusal
  BY <1>1, <1>2 DEF Refusal
<1> QED BY <1>1, <1>3, RefusalKept DEF ContractInv

LEMMA ContractReads ==
  ASSUME ParserInv, ReadInv, ContractInv, ReadRow
  PROVE  ContractInv'
<1>1. PICK s \in Sources : s = stage
  BY DEF ReadRow, Reading
<1>2. PICK e : e = Event(s, line + 1)
  OBVIOUS
<1>3. PICK es \in Seq(Events) : es = events[s]
  BY DEF ParserInv
<1>4. /\ text[s] # NoFile /\ line \in Nat /\ line + 1 \in 1..Len(text[s]) /\ UNCHANGED <<parser, text>>
      /\ text[s][line + 1].kind = "row" /\ RowReads(s, text[s][line + 1]) /\ line' = line + 1
      /\ events' = [events EXCEPT ![s] = Append(es, e)]
      /\ stage' = IF InSourceOrder(es, e) THEN stage ELSE "refused"
  BY <1>1, <1>2, <1>3 DEF ReadRow, Reading, Current, ParserInv
<1>5. ReadUpTo(s, line) /\ stage # "refused"
  BY <1>1, <1>4 DEF ReadInv, SourceRead, Sources
<1>6. /\ Len(Append(es, e)) = Len(es) + 1 /\ Len(es) \in Nat
      /\ Append(es, e)[Len(es) + 1] = e
      /\ \A k \in 1..Len(es) : Append(es, e)[k] = es[k]
  BY <1>3
<1>7. \A k \in 1..Len(es) : OfRow(es[k], s, line) /\ es[k].line \in Nat /\ es[k].line < line + 1
  <2>1. \A k \in 1..Len(es) : OfRow(es[k], s, line)
    BY <1>3, <1>5 DEF ReadUpTo
  <2>2. \A k \in 1..Len(es) : es[k].line <= line /\ es[k].line \in Nat
    BY <2>1 DEF OfRow, Rows
  <2> QED BY <1>4, <2>1, <2>2
<1>8. e.line = line + 1 /\ e.ts = text[s][line + 1].ts /\ e.seq = text[s][line + 1].seq
  BY <1>2 DEF Event
<1>9. CASE ~InSourceOrder(es, e)
  <2>1. PICK last : last = es[Len(es)] /\ Len(es) \in 1..Len(es) /\ ~KeyBefore(last, e)
    BY <1>3, <1>9 DEF InSourceOrder
  <2>2. PICK i : i = last.line /\ i \in Rows(text[s]) /\ i < line + 1
                 /\ last.ts = text[s][i].ts /\ last.seq = text[s][i].seq
    BY <1>7, <2>1 DEF OfRow
  <2>3. line + 1 \in Rows(text[s]) /\ ~KeyBefore(text[s][i], text[s][line + 1])
    BY <1>4, <1>8, <2>1, <2>2 DEF Rows, KeyBefore
  <2>4. RowsCross(s)
    BY <2>2, <2>3 DEF RowsCross
  <2>5. Refusal
    BY <1>4, <2>4 DEF Refusal
  <2> QED BY <1>4, <1>9, <2>5, RefusalKept DEF ContractInv
<1>10. CASE InSourceOrder(es, e)
  <2>1. stage' = stage /\ \A r : \A k : LineReads(r, k)' <=> LineReads(r, k)
    BY <1>4, <1>10, LinesKept
  <2>2. \A k \in 1..(line + 1) : LineReads(s, k)
    <3>1. \A k \in 1..(line + 1) : k \in 1..line \/ k = line + 1
      BY <1>4
    <3>2. LineReads(s, line + 1)
      BY <1>4 DEF LineReads
    <3> QED BY <1>1, <1>4, <1>5, <3>1, <3>2 DEF ContractInv
  <2>3. events'[s] = Append(es, e) /\ \A r \in Sources : r # s => events'[r] = events[r]
    BY <1>4 DEF ParserInv
  <2>4. \A i, j \in 1..Len(Append(es, e)) : i < j => Append(es, e)[i].line < Append(es, e)[j].line
    <3> SUFFICES ASSUME NEW i \in 1..Len(Append(es, e)), NEW j \in 1..Len(Append(es, e)), i < j
                 PROVE  Append(es, e)[i].line < Append(es, e)[j].line
      OBVIOUS
    <3>1. i \in 1..Len(es) /\ (j \in 1..Len(es) \/ j = Len(es) + 1)
      BY <1>6
    <3>2. CASE j \in 1..Len(es)
      BY <1>3, <1>5, <1>6, <3>1, <3>2 DEF ContractInv
    <3>3. CASE j = Len(es) + 1
      BY <1>6, <1>7, <1>8, <3>1, <3>3
    <3> QED BY <3>1, <3>2, <3>3
  <2>5. \A r \in Sources : \A i, j \in 1..Len(events'[r]) : i < j => events'[r][i].line < events'[r][j].line
    BY <1>5, <2>3, <2>4 DEF ContractInv
  <2>6. \A r : Finished(r)' <=> Finished(r)
    BY <2>1 DEF Finished
  <2> QED BY <1>1, <1>4, <1>5, <2>1, <2>2, <2>5, <2>6 DEF ContractInv
<1> QED BY <1>9, <1>10

LEMMA ContractOpens ==
  ASSUME ParserInv, ReadInv, ContractInv, \A s \in Sources : disk[s] # NoFile, Open
  PROVE  ContractInv'
<1>1. PICK s \in Sources :
        /\ s = stage /\ text[s] = NoFile /\ text' = [text EXCEPT ![s] = disk[s]]
        /\ stage' = (IF IsTickSize(parser.tick) THEN s ELSE "refused")
        /\ UNCHANGED <<parser, line, events>>
  BY DEF Open
<1>2. stage # "refused" /\ line = 0 /\ \A r \in Sources : r # s => text'[r] = text[r]
  BY <1>1 DEF ReadInv, SourceRead, ParserInv, Sources
<1>3. CASE ~IsTickSize(parser.tick)
  BY <1>1, <1>3 DEF ContractInv, Refusal
<1>4. CASE IsTickSize(parser.tick)
  <2>1. stage' = stage /\ stage' # "refused" /\ IsTickSize(parser.tick)'
    BY <1>1, <1>2, <1>4
  <2>2. \A k \in 1..line' : FALSE
    BY <1>1, <1>2
  <2>3. \A r \in Sources : Finished(r)' => r # s /\ Finished(r)
    BY <1>1, <2>1 DEF Finished, Sources
  <2>4. ASSUME NEW r \in Sources, Finished(r)' PROVE \A k \in 1..Len(text'[r]) : LineReads(r, k)'
    <3>1. text'[r] = text[r] /\ \A k : LineReads(r, k)' <=> LineReads(r, k)
      BY <1>1, <1>2, <2>3, <2>4, LinesKept
    <3> QED BY <1>2, <2>3, <2>4, <3>1 DEF ContractInv
  <2>5. \A r \in Sources : \A i, j \in 1..Len(events[r]) : i < j => events[r][i].line < events[r][j].line
    BY <1>2 DEF ContractInv
  <2> QED BY <1>1, <2>1, <2>2, <2>4, <2>5 DEF ContractInv
<1> QED BY <1>3, <1>4

LEMMA ContractEnds ==
  ASSUME ~ReadsFail, ParserInv, ReadInv, ContractInv, EndOfFile
  PROVE  ContractInv'
<1>1. /\ stage \in Sources /\ text[stage] # NoFile /\ line = Len(text[stage])
      /\ stage' = (IF stage = "book" THEN "trade" ELSE "merge")
      /\ UNCHANGED <<parser, text, events>>
  BY DEF EndOfFile
<1>2. \A s : \A k : LineReads(s, k)' <=> LineReads(s, k)
  BY <1>1, LinesKept
<1>3. \A k \in 1..Len(text[stage]) : LineReads(stage, k)
  BY <1>1 DEF ContractInv, Sources
<1>4. stage # "refused" /\ stage' # "refused"
  BY <1>1 DEF Sources
<1>5. \A s \in Sources : Finished(s)' => s = stage \/ Finished(s)
  BY <1>1 DEF Finished, Sources
<1>6. \A s \in Sources : s = stage' => text[s] = NoFile
  BY <1>1 DEF ReadInv, SourceRead, Finished, Sources
<1> QED BY <1>1, <1>2, <1>3, <1>4, <1>5, <1>6 DEF ContractInv

\* Neighbors with one key come from both sources.
LEMMA SharedKey ==
  ASSUME ParserInv, ReadInv, stage = "merge",
         NEW k \in 2..Len(Sorted), SameKey(Sorted[k - 1], Sorted[k])
  PROVE  ~Disjoint(text["book"], text["trade"])
<1>1. SourcesKnown /\ \A s \in Sources : ReadUpTo(s, Len(text[s]))
  BY ReadSources DEF ReadInv, SourceRead, Finished
<1>2. /\ Len(Sorted) \in Nat
      /\ \A i, j \in 1..Len(Sorted) : i < j => Precedes(Sorted[i], Sorted[j])
      /\ \A i \in 1..Len(Sorted) : \E j \in 1..Len(Both) : Sorted[i] = Both[j]
  <2>1. stage # "refused"
    OBVIOUS
  <2>2. /\ Sorted \in Seq(Events)
        /\ \A i, j \in 1..Len(Sorted) : i < j => Precedes(Sorted[i], Sorted[j])
        /\ \A i \in 1..Len(Sorted) : \E j \in 1..Len(Both) : Sorted[i] = Both[j]
    BY <1>1, <2>1, MergeSorts
  <2> QED BY <2>2
<1>3. k - 1 \in 1..Len(Sorted) /\ k \in 1..Len(Sorted) /\ k - 1 < k
  BY <1>2
<1>4. PICK a, b : a = Sorted[k - 1] /\ b = Sorted[k]
  OBVIOUS
<1>5. Precedes(a, b) /\ SameKey(a, b)
  BY <1>2, <1>3, <1>4
<1>6. \A x \in 1..Len(Sorted) : \E s \in Sources : OfRow(Sorted[x], s, Len(text[s])) /\ Sorted[x] \in Events
  <2> SUFFICES ASSUME NEW x \in 1..Len(Sorted)
               PROVE  \E s \in Sources : OfRow(Sorted[x], s, Len(text[s])) /\ Sorted[x] \in Events
    OBVIOUS
  <2>1. PICK j \in 1..Len(Both) : Sorted[x] = Both[j]
    BY <1>2
  <2>2. PICK s \in Sources : \E i \in 1..Len(events[s]) : Both[j] = events[s][i]
    BY BothSources
  <2>3. Both[j] \in Events
    BY BothTyped
  <2> QED BY <1>1, <2>1, <2>2, <2>3 DEF ReadUpTo
<1>7. PICK s \in Sources : OfRow(a, s, Len(text[s])) /\ a \in Events
  BY <1>3, <1>4, <1>6
<1>8. PICK r \in Sources : OfRow(b, r, Len(text[r])) /\ b \in Events
  BY <1>3, <1>4, <1>6
<1>9. a.source = "book" /\ b.source = "trade"
  BY <1>5, <1>7, <1>8 DEF Precedes, KeyBefore, SameKey, Events
<1>10. /\ a.line \in Rows(text["book"]) /\ b.line \in Rows(text["trade"])
       /\ a.ts = text["book"][a.line].ts /\ a.seq = text["book"][a.line].seq
       /\ b.ts = text["trade"][b.line].ts /\ b.seq = text["trade"][b.line].seq
  BY <1>7, <1>8, <1>9 DEF OfRow
<1> QED BY <1>5, <1>10 DEF Disjoint, SameKey

LEMMA ContractMerges ==
  ASSUME ParserInv, ReadInv, ContractInv, Merge
  PROVE  ContractInv'
<1>1. stage = "merge" /\ UNCHANGED <<parser, text, line, events>>
  BY DEF Merge
<1>2. CASE \E k \in 2..Len(Sorted) : SameKey(Sorted[k - 1], Sorted[k])
  <2>1. ~Disjoint(text["book"], text["trade"])
    BY <1>1, <1>2, SharedKey
  <2>2. \A s \in Sources : text[s] # NoFile
    BY <1>1 DEF ReadInv, SourceRead, Finished
  <2>3. Refusal /\ stage' = "refused"
    BY <1>2, <2>1, <2>2 DEF Merge, Refusal
  <2> QED BY <1>1, <2>3, RefusalKept DEF ContractInv
<1>3. CASE ~\E k \in 2..Len(Sorted) : SameKey(Sorted[k - 1], Sorted[k])
  <2>1. stage' = "merged"
    BY <1>3 DEF Merge
  <2>2. \A s : \A k : LineReads(s, k)' <=> LineReads(s, k)
    BY <1>1, LinesKept
  <2>3. \A s \in Sources : s # stage' /\ Finished(s)
    BY <1>1, <2>1 DEF Finished, Sources
  <2> QED BY <1>1, <2>1, <2>2, <2>3 DEF ContractInv
<1> QED BY <1>2, <1>3

LEMMA ContractStep ==
  ASSUME ~ReadsFail, ParserInv, ReadInv, ContractInv, \A s \in Sources : disk[s] # NoFile, Next
  PROVE  ContractInv'
BY ContractSkips, ContractRefuses, ContractReads, ContractOpens, ContractEnds, ContractMerges DEF Next

\* What the hashes were made of stays in its place, or something else does.
ReplacedThere == \A s \in replaced : disk[s] # NoFile

LEMMA FilesThere ==
  ASSUME RunInv, HashInv, ReplacedThere, phase = "feed", NEW s \in Sources
  PROVE  disk[s] # NoFile
BY DEF HashInv, ReplacedThere

LEMMA ThereStep ==
  ASSUME RunInv, ReplacedThere, [RunNext]_runVars
  PROVE  ReplacedThere'
<1>1. CASE UNCHANGED <<replaced, disk>>
  BY <1>1 DEF ReplacedThere
<1>2. ASSUME NEW s \in Sources, ReplaceFile(s) PROVE ReplacedThere'
  <2>1. PICK f \in setup.contents : disk' = [disk EXCEPT ![s] = f] /\ replaced' = replaced \cup {s}
    BY <1>2 DEF ReplaceFile
  <2>2. f \in Seq(Lines)
    BY <2>1, CasesAssumption DEF RunInv
  <2>3. f # NoFile
    BY <2>2, FilesAssumption
  <2>4. disk'[s] = f /\ \A r \in DOMAIN disk : r # s => disk'[r] = disk[r]
    BY <2>1 DEF RunInv, ParserInv
  <2>5. DOMAIN disk = Sources /\ DOMAIN disk' = Sources
    BY <2>1 DEF RunInv, ParserInv
  <2> QED BY <2>1, <2>3, <2>4, <2>5 DEF ReplacedThere
<1>3. CASE ReadFeed
  BY <1>1, <1>3 DEF ReadFeed, cliVars, Next, Open, SkipBlank, SkipHeader, RefuseRow, ReadRow, EndOfFile, Merge
<1>4. ASSUME NEW s \in Sources, HashInput(s) PROVE ReplacedThere'
  BY <1>1, <1>4 DEF HashInput, Exit, feedVars
<1>5. CASE ShowHelp \/ RefuseArguments \/ RefuseEntry \/ RefuseFeed
  BY <1>1, <1>5 DEF ShowHelp, RefuseArguments, RefuseEntry, RefuseFeed, Exit, feedVars
<1>6. CASE TakeForce \/ TakePath \/ OpenConfig \/ ReadEntry
  BY <1>1, <1>6 DEF TakeForce, TakePath, OpenConfig, ReadEntry, feedVars
<1>7. CASE Replay \/ Publish \/ FailToWrite
  BY <1>1, <1>7 DEF Replay, Publish, FailToWrite, Exit, cliVars, feedVars
<1>8. CASE Configure
  BY <1>1, <1>8 DEF Configure, Exit, feedVars
<1>9. CASE UNCHANGED runVars
  BY <1>1, <1>9 DEF runVars, cliVars, feedVars
<1> QED BY <1>2, <1>3, <1>4, <1>5, <1>6, <1>7, <1>8, <1>9 DEF RunNext

LEMMA ContractRun ==
  ASSUME ~ReadsFail, RunInv, ReadInv, HashInv, PriceInv, ReplacedThere, ContractInv, [RunNext]_runVars
  PROVE  ContractInv'
<1>1. CASE UNCHANGED <<parser, reading>>
  BY <1>1, ContractKept DEF reading
<1>2. CASE ReadFeed
  <2>1. Next /\ phase = "feed"
    BY <1>2 DEF ReadFeed
  <2>2. \A s \in Sources : disk[s] # NoFile
    BY <2>1, FilesThere
  <2> QED BY <2>1, <2>2, ContractStep DEF RunInv
<1>3. ASSUME NEW s \in Sources, HashInput(s), stage' # stage PROVE ContractInv'
  <2>1. stage = "waiting" /\ stage' = "book" /\ UNCHANGED <<parser, text, line, events>>
    BY <1>3 DEF HashInput, Exit, feedVars, reading, RunInv
  <2>2. \A r \in Sources : text[r] = NoFile /\ events[r] = << >> /\ ~Finished(r)'
    BY <2>1 DEF PriceInv, Finished, Sources
  <2> QED BY <2>1, <2>2 DEF ContractInv
<1>4. ASSUME NEW s \in Sources, HashInput(s), stage' = stage PROVE UNCHANGED <<parser, reading>>
  BY <1>4 DEF HashInput, Exit, feedVars, reading
<1>5. CASE Configure
  <2>1. stage = "waiting" /\ UNCHANGED reading
    BY <1>5 DEF Configure, RunInv, feedVars
  <2>2. \A r \in Sources : text[r] = NoFile /\ events[r] = << >> /\ ~Finished(r)' /\ r # stage
    BY <2>1 DEF PriceInv, Finished, Sources, reading
  <2> QED BY <2>1, <2>2 DEF ContractInv, reading
<1>6. ASSUME NEW s \in Sources, ReplaceFile(s) PROVE ContractInv'
  BY <1>1, <1>6 DEF ReplaceFile
<1>7. CASE ShowHelp \/ RefuseArguments \/ RefuseEntry \/ RefuseFeed
  BY <1>1, <1>7 DEF ShowHelp, RefuseArguments, RefuseEntry, RefuseFeed, feedVars
<1>8. CASE TakeForce \/ TakePath \/ OpenConfig \/ ReadEntry
  BY <1>1, <1>8 DEF TakeForce, TakePath, OpenConfig, ReadEntry, feedVars
<1>9. CASE Replay \/ Publish \/ FailToWrite
  BY <1>1, <1>9 DEF Replay, Publish, FailToWrite, feedVars
<1>10. CASE UNCHANGED runVars
  BY <1>1, <1>10 DEF runVars, feedVars
<1> QED BY <1>1, <1>2, <1>3, <1>4, <1>5, <1>6, <1>7, <1>8, <1>9, <1>10 DEF RunNext

\* Rows in the order of their lines are in the order of their events.
LEMMA RowsInOrder ==
  ASSUME ParserInv, ReadInv, ContractInv, stage = "merged", NEW s \in Sources
  PROVE  ~RowsCross(s)
<1> SUFFICES ASSUME NEW i \in Rows(text[s]), NEW j \in Rows(text[s]), i < j
             PROVE  KeyBefore(text[s][i], text[s][j])
  BY DEF RowsCross
<1>1. ReadUpTo(s, Len(text[s])) /\ text[s] \in Seq(Lines)
  BY DEF ReadInv, SourceRead, Finished, ParserInv
<1>2. i \in Nat /\ j \in Nat /\ i <= Len(text[s]) /\ j <= Len(text[s])
  BY <1>1 DEF Rows
<1>3. PICK es \in Seq(Events) : es = events[s]
  BY DEF ParserInv
<1>4. PICK k \in 1..Len(es) : es[k].line = i
  BY <1>1, <1>2, <1>3 DEF ReadUpTo
<1>5. PICK l \in 1..Len(es) : es[l].line = j
  BY <1>1, <1>2, <1>3 DEF ReadUpTo
<1>6. k < l
  <2>1. l < k => es[l].line < es[k].line
    BY <1>3 DEF ContractInv
  <2>2. k # l
    BY <1>2, <1>4, <1>5
  <2> QED BY <1>2, <1>4, <1>5, <2>1, <2>2
<1>7. KeyBefore(es[k], es[l])
  BY <1>3, <1>6 DEF ParserInv, Increasing
<1>8. OfRow(es[k], s, Len(text[s])) /\ OfRow(es[l], s, Len(text[s]))
  BY <1>1, <1>3 DEF ReadUpTo
<1>9. /\ es[k].ts = text[s][i].ts /\ es[k].seq = text[s][i].seq
      /\ es[l].ts = text[s][j].ts /\ es[l].seq = text[s][j].seq
  BY <1>4, <1>5, <1>8 DEF OfRow
<1> QED BY <1>7, <1>9 DEF KeyBefore

LEMMA KeysApart ==
  ASSUME ParserInv, ReadInv, stage = "merged"
  PROVE  Disjoint(text["book"], text["trade"])
<1> SUFFICES ASSUME NEW i \in Rows(text["book"]), NEW j \in Rows(text["trade"])
             PROVE  ~SameKey(text["book"][i], text["trade"][j])
  BY DEF Disjoint
<1>1. \A s \in Sources : ReadUpTo(s, Len(text[s])) /\ text[s] \in Seq(Lines)
  BY DEF ReadInv, SourceRead, Finished, ParserInv
<1>2. "book" \in Sources /\ "trade" \in Sources /\ "book" # "trade"
  BY DEF Sources
<1>3. \A s \in Sources : \A r \in Rows(text[s]) : \E k \in 1..Len(merged) :
        /\ merged[k].source = s /\ merged[k].ts = text[s][r].ts /\ merged[k].seq = text[s][r].seq
        /\ merged[k] \in Events
  <2> SUFFICES ASSUME NEW s \in Sources, NEW r \in Rows(text[s])
               PROVE  \E k \in 1..Len(merged) :
                        /\ merged[k].source = s /\ merged[k].ts = text[s][r].ts /\ merged[k].seq = text[s][r].seq
                        /\ merged[k] \in Events
    OBVIOUS
  <2>1. PICK n \in 1..Len(events[s]) : events[s][n].line = r
    BY <1>1 DEF ReadUpTo, Rows
  <2>2. OfRow(events[s][n], s, Len(text[s]))
    BY <1>1 DEF ReadUpTo
  <2>3. PICK k \in 1..Len(merged) : merged[k] = events[s][n]
    BY MergedOrdered
  <2>4. events[s][n] \in Events
    <3>1. PICK es \in Seq(Events) : es = events[s]
      BY DEF ParserInv
    <3> QED BY <3>1
  <2> QED BY <2>1, <2>2, <2>3, <2>4 DEF OfRow
<1>4. PICK k \in 1..Len(merged) :
        /\ merged[k].source = "book" /\ merged[k].ts = text["book"][i].ts /\ merged[k].seq = text["book"][i].seq
        /\ merged[k] \in Events
  BY <1>2, <1>3
<1>5. PICK l \in 1..Len(merged) :
        /\ merged[l].source = "trade" /\ merged[l].ts = text["trade"][j].ts /\ merged[l].seq = text["trade"][j].seq
        /\ merged[l] \in Events
  BY <1>2, <1>3
<1>6. Len(merged) \in Nat
  BY ReadSources, MergeSorts DEF ReadInv
<1>7. k < l \/ l < k
  BY <1>2, <1>4, <1>5, <1>6
<1>8. KeyBefore(merged[k], merged[l]) \/ KeyBefore(merged[l], merged[k])
  BY <1>7, MergedOrdered
<1> QED BY <1>4, <1>5, <1>8 DEF KeyBefore, SameKey, Events

LEMMA ContractHolds ==
  ASSUME ParserInv, ReadInv, ContractInv
  PROVE  ContractDecides
<1>0. parser.tick \in Texts
  BY DEF ParserInv
<1>1. CASE stage = "merged"
  <2>1. \A s \in Sources : /\ text[s] # NoFile /\ ~RowsCross(s)
                           /\ \A k \in 1..Len(text[s]) : LineReads(s, k)
    BY <1>1, RowsInOrder DEF ReadInv, SourceRead, ContractInv, Finished
  <2>2. IsTickSize(parser.tick) /\ "book" \in Sources /\ "trade" \in Sources
    BY <1>1, <2>1 DEF ContractInv, Sources
  <2>3. \A s \in Sources : Input(s) = text[s] /\ Acceptable(text[s], s) /\ HeaderFirst(text[s])
    BY <2>1, <2>2, AcceptableIs DEF Input
  <2>4. GoodTick(parser.tick)
    BY <1>0, <2>2, TickSizeIs
  <2>5. Disjoint(text["book"], text["trade"])
    BY <1>1, KeysApart
  <2> QED BY <1>1, <2>2, <2>3, <2>4, <2>5 DEF ContractDecides, KeepContract
<1>2. CASE stage = "refused"
  <2> SUFFICES ASSUME GoodTick(parser.tick), Disjoint(Input("book"), Input("trade")),
                      \A s \in Sources : Acceptable(Input(s), s) /\ HeaderFirst(Input(s))
               PROVE  FALSE
    BY <1>2 DEF ContractDecides, KeepContract
  <2>1. Refusal /\ IsTickSize(parser.tick)
    BY <1>0, <1>2, TickSizeIs DEF ContractInv
  <2>2. ASSUME NEW s \in Sources, text[s] # NoFile
        PROVE  (\A k \in 1..Len(text[s]) : LineReads(s, k)) /\ ~RowsCross(s)
    <3>1. Acceptable(text[s], s) /\ HeaderFirst(text[s])
      BY <2>2 DEF Input
    <3> QED BY <2>1, <2>2, <3>1, AcceptableIs
  <2>3. (\A s \in Sources : text[s] # NoFile) => Disjoint(text["book"], text["trade"])
    BY DEF Input, Sources
  <2> QED BY <2>1, <2>2, <2>3 DEF Refusal
<1> QED BY <1>1, <1>2 DEF ContractDecides

(* Whether there is a feed at all is decided as docs/data_contract.md has  *)
(* it, for all files, tick sizes and widths of the integers: parse_csv,    *)
(* validate_source_order and merge_events refuse no pair of files that     *)
(* keeps the contract, but for a header that is not on the first line, and *)
(* let no other pass, while every read succeeds.                           *)
THEOREM ContractCorrect ==
  ASSUME ~ReadsFail
  PROVE  RunSpec => []ContractDecides
<1> DEFINE Inv == RunInv /\ ReadInv /\ HashInv /\ PriceInv /\ ReplacedThere /\ ContractInv
<1>1. RunInit => Inv
  <2> SUFFICES ASSUME RunInit PROVE Inv
    OBVIOUS
  <2>1. RunInv /\ ReadInv /\ HashInv
    BY RunInitInv DEF RunInit, Unread, ReadInv, SourceRead, Finished, HashInv, Sources
  <2>2. PriceInv /\ ReplacedThere /\ ContractInv
    BY DEF RunInit, Unread, PriceInv, ReplacedThere, ContractInv, Finished, Sources
  <2> QED BY <2>1, <2>2
<1>2. Inv /\ [RunNext]_runVars => Inv'
  BY RunStep, ReadRun, HashStep, PriceStep, ThereStep, ContractRun
<1>3. Inv => ContractDecides
  BY ContractHolds DEF RunInv
<1> QED BY <1>1, <1>2, <1>3, PTL DEF RunSpec
-----------------------------------------------------------------------------
\* The command line, as a sequence a of arguments and the options o read from
\* the first n of them.

PathIn(a, k) ==
  Cardinality({i \in 1..(k - 1) : \A j \in i..(k - 1) : a[j] \in {"--config", "--output"}}) % 2 = 1

OutputPath(a, k) == PathIn(a, k) /\ a[k - 1] = "--output"

ArgsRead(a, o, n) ==
  /\ \A k \in 1..n : ~PathIn(a, k) => a[k] \in {"--config", "--output", "--force"}
  /\ o.force = TRUE <=> \E k \in 1..n : a[k] = "--force" /\ ~PathIn(a, k)
  /\ \/ o.output = None /\ \A k \in 1..n : ~OutputPath(a, k)
     \/ \E k \in 1..n : /\ OutputPath(a, k) /\ o.output = a[k]
                        /\ \A j \in 1..n : OutputPath(a, j) => j <= k

\* In a row of options every other word is a path.
LEMMA PathsAlternate ==
  ASSUME NEW a, NEW k \in Nat \ {0}
  PROVE  PathIn(a, k + 1) <=> a[k] \in {"--config", "--output"} /\ ~PathIn(a, k)
<1> DEFINE row(m) == {i \in 1..(m - 1) : \A j \in i..(m - 1) : a[j] \in {"--config", "--output"}}
<1>1. IsFiniteSet(row(k)) /\ k \notin row(k) /\ Cardinality(row(k)) \in Nat
  <2>1. IsFiniteSet(1..(k - 1)) /\ row(k) \in SUBSET (1..(k - 1))
    BY FS_Interval
  <2> QED BY <2>1, FS_Subset, FS_CardinalityType
<1>2. CASE a[k] \in {"--config", "--output"}
  <2>1. row(k + 1) = row(k) \cup {k}
    <3>1. (k + 1) - 1 = k /\ \A i \in 1..k : i \in 1..(k - 1) \/ i = k
      OBVIOUS
    <3>2. \A i \in 1..(k - 1) : \A j \in i..k : j \in i..(k - 1) \/ j = k
      OBVIOUS
    <3>3. \A i \in 1..(k - 1) : \A j \in i..(k - 1) : j \in i..k
      OBVIOUS
    <3>4. \A i \in 1..(k - 1) : i \in row(k + 1) <=> i \in row(k)
      BY <1>2, <3>1, <3>2, <3>3
    <3>5. k \in row(k + 1)
      BY <1>2, <3>1
    <3> QED BY <3>1, <3>4, <3>5
  <2>2. Cardinality(row(k + 1)) = Cardinality(row(k)) + 1
    BY <1>1, <2>1, FS_AddElement
  <2>3. PathIn(a, k + 1) <=> Cardinality(row(k + 1)) % 2 = 1
    BY DEF PathIn
  <2>4. PathIn(a, k) <=> Cardinality(row(k)) % 2 = 1
    BY DEF PathIn
  <2>5. \A c \in Nat : (c + 1) % 2 = 1 <=> ~(c % 2 = 1)
    OBVIOUS
  <2> HIDE DEF row
  <2> QED BY <1>1, <1>2, <2>2, <2>3, <2>4, <2>5
<1>3. CASE a[k] \notin {"--config", "--output"}
  <2>1. row(k + 1) = {}
    <3> SUFFICES ASSUME NEW i \in row(k + 1) PROVE FALSE
      OBVIOUS
    <3>1. k \in i..((k + 1) - 1)
      OBVIOUS
    <3> QED BY <1>3, <3>1
  <2>2. Cardinality(row(k + 1)) = 0
    BY <2>1, FS_EmptySet
  <2>3. PathIn(a, k + 1) <=> Cardinality(row(k + 1)) % 2 = 1
    BY DEF PathIn
  <2>4. 0 % 2 # 1
    OBVIOUS
  <2> HIDE DEF row
  <2> QED BY <1>3, <2>2, <2>3, <2>4
<1> QED BY <1>2, <1>3

LEMMA FirstIsNoPath == ASSUME NEW a PROVE ~PathIn(a, 1)
<1>1. {i \in 1..(1 - 1) : \A j \in i..(1 - 1) : a[j] \in {"--config", "--output"}} = {}
  OBVIOUS
<1>2. 0 % 2 # 1 /\ Cardinality({}) = 0
  BY FS_EmptySet
<1> QED BY <1>1, <1>2 DEF PathIn

OptionNames == {"config", "output", "force"}

LEMMA ForceRead ==
  ASSUME NEW a, NEW o, NEW n \in Nat, NEW p,
         ArgsRead(a, o, n), DOMAIN o = OptionNames, p = [o EXCEPT !.force = TRUE],
         a[n + 1] = "--force", ~PathIn(a, n + 1)
  PROVE  ArgsRead(a, p, n + 1) /\ ~PathIn(a, n + 2) /\ DOMAIN p = OptionNames
<1>1. ~PathIn(a, n + 2)
  <2>1. n + 1 \in Nat \ {0} /\ (n + 1) + 1 = n + 2
    OBVIOUS
  <2> QED BY <2>1, PathsAlternate
<1>2. p.force = TRUE /\ p.output = o.output /\ DOMAIN p = OptionNames
  BY DEF OptionNames
<1>3. \A k \in 1..(n + 1) : k \in 1..n \/ k = n + 1
  OBVIOUS
<1>4. n + 1 \in 1..(n + 1) /\ \A k \in 1..n : k \in 1..(n + 1)
  OBVIOUS
<1>5. ~OutputPath(a, n + 1)
  BY DEF OutputPath
<1> QED BY <1>1, <1>2, <1>3, <1>4, <1>5 DEF ArgsRead

LEMMA PathRead ==
  ASSUME NEW a, NEW o, NEW n \in Nat, NEW p,
         ArgsRead(a, o, n), DOMAIN o = OptionNames,
         a[n + 1] \in {"--config", "--output"}, ~PathIn(a, n + 1),
         p = IF a[n + 1] = "--config" THEN [o EXCEPT !.config = a[n + 2]]
                                      ELSE [o EXCEPT !.output = a[n + 2]]
  PROVE  ArgsRead(a, p, n + 2) /\ ~PathIn(a, n + 3) /\ DOMAIN p = OptionNames
<1>1. PathIn(a, n + 2) /\ ~PathIn(a, n + 3)
  <2>1. n + 1 \in Nat \ {0} /\ (n + 1) + 1 = n + 2 /\ n + 2 \in Nat \ {0} /\ (n + 2) + 1 = n + 3
    OBVIOUS
  <2> QED BY <2>1, PathsAlternate
<1>2. /\ p.force = o.force /\ DOMAIN p = OptionNames
      /\ p.output = IF a[n + 1] = "--config" THEN o.output ELSE a[n + 2]
  BY DEF OptionNames
<1>3. \A k \in 1..(n + 2) : k \in 1..n \/ k = n + 1 \/ k = n + 2
  OBVIOUS
<1>4. /\ n + 1 \in 1..(n + 2) /\ n + 2 \in 1..(n + 2) /\ \A k \in 1..n : k \in 1..(n + 2)
      /\ (n + 2) - 1 = n + 1
      /\ \A k \in 1..(n + 2) : k <= n + 2
  OBVIOUS
<1>5. ~OutputPath(a, n + 1) /\ (OutputPath(a, n + 2) <=> a[n + 1] = "--output")
  BY <1>1, <1>4 DEF OutputPath
<1>6. \A k \in 1..(n + 2) : ~PathIn(a, k) => a[k] \in {"--config", "--output", "--force"}
  BY <1>1, <1>3 DEF ArgsRead
<1>7. p.force = TRUE <=> \E k \in 1..(n + 2) : a[k] = "--force" /\ ~PathIn(a, k)
  BY <1>1, <1>2, <1>3, <1>4 DEF ArgsRead
<1>8. CASE a[n + 1] = "--output"
  <2>1. OutputPath(a, n + 2) /\ p.output = a[n + 2]
    BY <1>2, <1>5, <1>8
  <2> QED BY <1>1, <1>2, <1>4, <1>6, <1>7, <2>1 DEF ArgsRead
<1>9. CASE a[n + 1] = "--config"
  <2>1. ~OutputPath(a, n + 2) /\ p.output = o.output
    BY <1>2, <1>5, <1>9
  <2>2. \A k \in 1..(n + 2) : OutputPath(a, k) => k \in 1..n
    BY <1>3, <1>5, <2>1
  <2> QED BY <1>1, <1>2, <1>4, <1>6, <1>7, <2>1, <2>2 DEF ArgsRead
<1> QED BY <1>8, <1>9

HelpIn(a) ==
  \/ a = << >>
  \/ \E k \in DOMAIN a : a[k] = "--help" /\ ~PathIn(a, k)
        /\ \A j \in 1..(k - 1) : a[j] \in Words \/ PathIn(a, j)

\* Nothing that was read is a request for help, nor is what is read no further.
LEMMA NoHelp ==
  ASSUME NEW S, NEW a \in Seq(S), NEW o, NEW n \in 0..Len(a), a # << >>,
         ArgsRead(a, o, n), ~PathIn(a, n + 1),
         \/ n = Len(a)
         \/ a[n + 1] \notin Words
         \/ a[n + 1] \in {"--config", "--output"} /\ n + 2 > Len(a)
  PROVE  ~HelpIn(a)
<1> SUFFICES ASSUME NEW k \in DOMAIN a, a[k] = "--help", ~PathIn(a, k),
                    \A j \in 1..(k - 1) : a[j] \in Words \/ PathIn(a, j)
             PROVE  FALSE
  BY DEF HelpIn
<1>1. k \in 1..Len(a) /\ Len(a) \in Nat
  OBVIOUS
<1>2. k \notin 1..n
  BY DEF ArgsRead
<1>3. n < k /\ n # Len(a)
  BY <1>1, <1>2
<1>4. CASE a[n + 1] \notin Words
  <2>1. k # n + 1
    BY <1>4 DEF Words
  <2>2. n + 1 \in 1..(k - 1)
    BY <1>1, <1>3, <2>1
  <2> QED BY <1>4, <2>2
<1>5. CASE a[n + 1] \in {"--config", "--output"} /\ n + 2 > Len(a)
  <2>1. k = n + 1
    BY <1>1, <1>3, <1>5
  <2> QED BY <1>5, <2>1
<1> QED BY <1>3, <1>4, <1>5

LEMMA HelpAsked ==
  ASSUME NEW S, NEW a \in Seq(S), NEW o, NEW n \in Nat, n < Len(a),
         ArgsRead(a, o, n), ~PathIn(a, n + 1), a[n + 1] = "--help"
  PROVE  HelpIn(a)
<1>1. n + 1 \in DOMAIN a /\ (n + 1) - 1 = n
  OBVIOUS
<1>2. \A j \in 1..n : a[j] \in Words \/ PathIn(a, j)
  BY DEF ArgsRead, Words
<1> QED BY <1>1, <1>2 DEF HelpIn
-----------------------------------------------------------------------------
\* The configuration, as a sequence c of lines and the values v read from the
\* first n of them.

IsSetting(entry) == entry.kind = "setting"

EntriesRead(c, v, n) ==
  /\ \A k \in 1..n : c[k].kind # "bare"
  /\ \A k \in 1..n : IsSetting(c[k]) =>
       c[k].key # Empty /\ c[k].key \in DOMAIN v /\ v[c[k].key] = c[k].value
  /\ \A key \in DOMAIN v : \E k \in 1..n : IsSetting(c[k]) /\ c[k].key = key
  /\ \A j, k \in 1..n : IsSetting(c[j]) /\ IsSetting(c[k]) /\ c[j].key = c[k].key => j = k

SettingsIn(c, key) == {k \in DOMAIN c : c[k].kind = "setting" /\ c[k].key = key}

SettingIn(c, key) ==
  IF SettingsIn(c, key) = {} THEN Defaults[key] ELSE c[CHOOSE k \in SettingsIn(c, key) : TRUE].value

LEMMA CommentRead ==
  ASSUME NEW c, NEW v, NEW n \in Nat, EntriesRead(c, v, n), c[n + 1].kind = "comment"
  PROVE  EntriesRead(c, v, n + 1)
<1>1. \A k \in 1..(n + 1) : k \in 1..n \/ k = n + 1
  OBVIOUS
<1>2. n + 1 \in 1..(n + 1) /\ \A k \in 1..n : k \in 1..(n + 1)
  OBVIOUS
<1>3. c[n + 1].kind # "bare" /\ ~IsSetting(c[n + 1])
  BY DEF IsSetting
<1> QED BY <1>1, <1>2, <1>3 DEF EntriesRead

LEMMA SettingRead ==
  ASSUME NEW c, NEW v, NEW n \in Nat, EntriesRead(c, v, n), NEW entry, entry = c[n + 1],
         IsSetting(entry), entry.key # Empty, entry.key \notin DOMAIN v, NEW w,
         w = [key \in DOMAIN v \cup {entry.key} |-> IF key = entry.key THEN entry.value ELSE v[key]]
  PROVE  EntriesRead(c, w, n + 1)
<1>1. \A k \in 1..(n + 1) : k \in 1..n \/ k = n + 1
  OBVIOUS
<1>2. n + 1 \in 1..(n + 1) /\ \A k \in 1..n : k \in 1..(n + 1)
  OBVIOUS
<1>3. /\ DOMAIN w = DOMAIN v \cup {entry.key} /\ w[entry.key] = entry.value
      /\ \A key \in DOMAIN v : w[key] = v[key]
  OBVIOUS
<1>4. \A k \in 1..n : IsSetting(c[k]) => c[k].key \in DOMAIN v /\ c[k].key # entry.key
  BY DEF EntriesRead
<1>5. \A k \in 1..(n + 1) : c[k].kind # "bare"
  BY <1>1 DEF EntriesRead, IsSetting
<1>6. \A k \in 1..(n + 1) : IsSetting(c[k]) =>
        c[k].key # Empty /\ c[k].key \in DOMAIN w /\ w[c[k].key] = c[k].value
  BY <1>1, <1>3, <1>4 DEF EntriesRead
<1>7. \A key \in DOMAIN w : \E k \in 1..(n + 1) : IsSetting(c[k]) /\ c[k].key = key
  BY <1>2, <1>3 DEF EntriesRead
<1>8. \A j, k \in 1..(n + 1) : IsSetting(c[j]) /\ IsSetting(c[k]) /\ c[j].key = c[k].key => j = k
  BY <1>1, <1>4 DEF EntriesRead
<1> QED BY <1>5, <1>6, <1>7, <1>8 DEF EntriesRead

\* Each key is set at most once, to what its line says.
LEMMA SettingsRead ==
  ASSUME NEW S, NEW c \in Seq(S), NEW v, EntriesRead(c, v, Len(c)), NEW key
  PROVE  /\ key = Empty => SettingsIn(c, key) = {}
         /\ Cardinality(SettingsIn(c, key)) <= 1
         /\ SettingIn(c, key) = IF key \in DOMAIN v THEN v[key] ELSE Defaults[key]
<1>1. DOMAIN c = 1..Len(c)
  OBVIOUS
<1>2. CASE SettingsIn(c, key) = {}
  <2>1. key \notin DOMAIN v
    BY <1>1, <1>2 DEF EntriesRead, SettingsIn, IsSetting
  <2> QED BY <1>2, <2>1, FS_EmptySet DEF SettingIn
<1>3. CASE SettingsIn(c, key) # {}
  <2>1. PICK k : k \in SettingsIn(c, key)
    BY <1>3
  <2>2. k \in 1..Len(c) /\ IsSetting(c[k]) /\ c[k].key = key
    BY <1>1, <2>1 DEF SettingsIn, IsSetting
  <2>3. key # Empty /\ key \in DOMAIN v /\ v[key] = c[k].value
    BY <2>2 DEF EntriesRead
  <2>4. SettingsIn(c, key) = {k}
    BY <1>1, <2>1, <2>2 DEF SettingsIn, EntriesRead, IsSetting
  <2>5. (CHOOSE j \in SettingsIn(c, key) : TRUE) = k
    BY <2>4
  <2>6. Cardinality(SettingsIn(c, key)) = 1
    BY <2>4, FS_Singleton
  <2> QED BY <2>3, <2>4, <2>5, <2>6 DEF SettingIn
<1> QED BY <1>2, <1>3

\* What the configuration is built from are the settings.
LEMMA GivenSettings ==
  ASSUME NEW S, NEW c \in Seq(S), NEW v, EntriesRead(c, v, Len(c)), NEW key \in Keys
  PROVE  Given(v)[key] = SettingIn(c, key)
BY SettingsRead DEF Given

-----------------------------------------------------------------------------
\* The same of a whole case.

OutputIn(c) ==
  LET given == {k \in DOMAIN c.args : OutputPath(c.args, k)}
  IN  IF given = {} THEN SettingIn(c.config, "output_directory")
      ELSE c.args[CHOOSE k \in given : \A j \in given : j <= k]

ForceIn(c) == \E k \in DOMAIN c.args : c.args[k] = "--force" /\ ~PathIn(c.args, k)

Tells(c, code, pub, outs) ==
  /\ code = 0 <=> HelpIn(c.args) \/ pub # None
  /\ pub # None => ~HelpIn(c.args) /\ outs[OutputIn(c)] = "published"
  /\ \A d \in DOMAIN outs : outs[d] # c.outputs[d] =>
       /\ d = OutputIn(c)
       /\ c.outputs[d] \in {"artifacts", "files"} => ForceIn(c)
       /\ outs[d] = "published" <=> pub # None

Settled(c, cfg) ==
  LET fraction == SettingIn(c.config, "queue_fraction")
  IN  /\ \A k \in DOMAIN c.config : c.config[k].kind # "bare"
      /\ SettingsIn(c.config, Empty) = {}
      /\ \A key \in Keys : Cardinality(SettingsIn(c.config, key)) <= 1
      /\ \A f \in DOMAIN FieldKeys : cfg[f] = SettingIn(c.config, FieldKeys[f])
      /\ cfg.output = OutputIn(c) /\ SettingIn(c.config, "output_directory") # Empty
      /\ cfg.queuePpm \in 0..PpmUnit /\ cfg.feePpm \in 0..PpmUnit
      /\ fraction = Empty => cfg.queuePpm = SettingIn(c.config, "queue_fraction_ppm")
      /\ fraction \notin {Empty, NaN} =>
           2 * fraction[2] * cfg.queuePpm - 2 * fraction[1] * PpmUnit \in (-fraction[2])..fraction[2]

LEMMA PathsOfSetup == \A k : IsPath(k) <=> PathIn(setup.args, k)
BY DEF IsPath, PathIn

LEMMA HelpOfSetup == HelpShown <=> HelpIn(setup.args)
BY PathsOfSetup DEF HelpShown, HelpIn

LEMMA SettingsOfSetup ==
  ASSUME NEW key
  PROVE  Settings(key) = SettingsIn(setup.config, key) /\ Setting(key) = SettingIn(setup.config, key)
BY DEF Settings, SettingsIn, Setting, SettingIn

LEMMA OutputOfSetup == OutputAsked = OutputIn(setup)
<1>1. {k \in DOMAIN setup.args : IsPath(k) /\ setup.args[k - 1] = "--output"}
        = {k \in DOMAIN setup.args : OutputPath(setup.args, k)}
  BY PathsOfSetup DEF OutputPath
<1> DEFINE asked  == {k \in DOMAIN setup.args : IsPath(k) /\ setup.args[k - 1] = "--output"}
           given  == {k \in DOMAIN setup.args : OutputPath(setup.args, k)}
           Final(paths, default) ==
             IF paths = {} THEN default ELSE setup.args[CHOOSE k \in paths : \A j \in paths : j <= k]
<1>2. OutputAsked = Final(asked, Setting("output_directory"))
  BY DEF OutputAsked
<1>3. OutputIn(setup) = Final(given, SettingIn(setup.config, "output_directory"))
  BY DEF OutputIn
<1>4. asked = given /\ Setting("output_directory") = SettingIn(setup.config, "output_directory")
  BY <1>1, SettingsOfSetup
<1> HIDE DEF Final, asked, given
<1> QED BY <1>2, <1>3, <1>4

LEMMA TellsOfSetup ==
  ExitCodeTells <=> (phase = "exited" => Tells(setup, exitCode, published, outputs))
<1>1. Asked("--force") <=> ForceIn(setup)
  BY PathsOfSetup DEF Asked, ForceIn
<1> QED BY <1>1, HelpOfSetup, OutputOfSetup DEF ExitCodeTells, Tells

LEMMA SettledOfSetup ==
  SettingsAsWritten <=> (config # None => Settled(setup, config))
BY SettingsOfSetup, OutputOfSetup DEF SettingsAsWritten, Settled
-----------------------------------------------------------------------------
\* What is accepted is what is written.

LEMMA EmptyIsNoTick == ~IsTickSize(<< >>)
<1> DEFINE start == [ok |-> FALSE, coefficient |-> 0, scale |-> 0, digit |-> FALSE, point |-> FALSE]
           Read(f) == [s \in SUBSET (DOMAIN << >>) |->
                         IF s = {} THEN start
                         ELSE ReadCharacter(f[s \ {Max(s)}], << >>[Max(s)])]
           read == CHOOSE f : f = Read(f)
<1>1. (<< >> # << >>) = FALSE
  OBVIOUS
<1>2. Scanned(<< >>) = FoldLeft(ReadCharacter, start, << >>)
  BY <1>1 DEF Scanned
<1>3. FoldLeft(ReadCharacter, start, << >>) = read[DOMAIN << >>]
  BY DEF FoldLeft, MapThenFoldSet
<1>4. DOMAIN << >> = {} /\ {} \in SUBSET (DOMAIN << >>)
  OBVIOUS
<1>5. read = Read(read)
  <2> DEFINE none == [s \in SUBSET (DOMAIN << >>) |-> start]
  <2>1. \A s \in SUBSET (DOMAIN << >>) : s = {}
    BY <1>4
  <2>2. none = Read(none)
    BY <2>1
  <2> HIDE DEF Read, none
  <2> QED BY <2>2
<1>6. Read(read)[{}] = start
  <2> HIDE DEF read
  <2> QED BY <1>4
<1>7. Scanned(<< >>) = start
  <2> HIDE DEF read, Read, start
  <2> QED BY <1>2, <1>3, <1>4, <1>5, <1>6
<1>8. start.ok = FALSE
  OBVIOUS
<1> QED BY <1>7, <1>8 DEF IsTickSize, IsDecimal

LEMMA RoundedClose ==
  ASSUME NEW n \in Int, NEW d \in Nat \ {0}, NEW unit \in Nat, NEW q,
         q = (2 * n * unit + d) \div (2 * d)
  PROVE  2 * d * q - 2 * n * unit \in (-d)..d
<1>1. PICK m \in Int, e \in Nat : m = 2 * n * unit /\ e = 2 * d /\ e > 0
  OBVIOUS
<1>2. q = (m + d) \div e /\ q \in Int
  BY <1>1
<1>3. PICK p \in Int : p = e * q
  BY <1>1, <1>2
<1>4. p <= m + d /\ m + d < p + e
  BY <1>1, <1>2, <1>3
<1>5. 2 * d * q = p
  BY <1>1, <1>2, <1>3
<1> QED BY <1>1, <1>4, <1>5

LEMMA CaseTyped ==
  ASSUME NEW c \in UNION Cases
  PROVE  /\ c.args \in Seq(DOMAIN c.outputs) /\ None \notin DOMAIN c.outputs
         /\ c.config \in Seq(Range(c.config))
         /\ \A d \in DOMAIN c.outputs : c.outputs[d] \in Outputs
         /\ \A entry \in Range(c.config) :
              /\ entry.kind \in Entries
              /\ entry.key = "output_directory" => entry.value \in DOMAIN c.outputs \cup {Empty}
              /\ entry.key = "queue_fraction" => entry.value \in {Empty, Garbage, NaN} \cup Doubles
BY CasesAssumption

\* A setting is a default or stands on a line.
LEMMA SettingValue ==
  ASSUME NEW c, NEW key
  PROVE  \/ SettingIn(c, key) = Defaults[key]
         \/ \E entry \in Range(c) : entry.key = key /\ entry.value = SettingIn(c, key)
<1>1. CASE SettingsIn(c, key) = {}
  BY <1>1 DEF SettingIn
<1>2. CASE SettingsIn(c, key) # {}
  <2>1. PICK k : k = CHOOSE j \in SettingsIn(c, key) : TRUE
    OBVIOUS
  <2>2. k \in SettingsIn(c, key)
    BY <1>2, <2>1
  <2>3. SettingIn(c, key) = c[k].value
    BY <1>2, <2>1 DEF SettingIn
  <2> QED BY <2>2, <2>3 DEF SettingsIn, Range
<1> QED BY <1>1, <1>2

\* The last --output, if there is one, is what main remembers.
LEMMA OutputRemembered ==
  ASSUME NEW c \in UNION Cases, NEW o, ArgsRead(c.args, o, Len(c.args))
  PROVE  /\ OutputIn(c) = IF o.output = None THEN SettingIn(c.config, "output_directory") ELSE o.output
         /\ o.output # None => o.output \in DOMAIN c.outputs
<1>1. PICK a \in Seq(DOMAIN c.outputs) : a = c.args
  BY CaseTyped
<1> DEFINE given == {k \in DOMAIN a : OutputPath(a, k)}
<1>2. OutputIn(c) = IF given = {} THEN SettingIn(c.config, "output_directory")
                    ELSE a[CHOOSE k \in given : \A j \in given : j <= k]
  BY <1>1 DEF OutputIn
<1>3. DOMAIN a = 1..Len(a) /\ Len(a) \in Nat /\ \A k \in 1..Len(a) : a[k] \in DOMAIN c.outputs
  OBVIOUS
<1>4. CASE o.output = None /\ \A k \in 1..Len(a) : ~OutputPath(a, k)
  BY <1>2, <1>3, <1>4
<1>5. CASE \E k \in 1..Len(a) : /\ OutputPath(a, k) /\ o.output = a[k]
                                /\ \A j \in 1..Len(a) : OutputPath(a, j) => j <= k
  <2>1. PICK k \in 1..Len(a) : /\ OutputPath(a, k) /\ o.output = a[k]
                               /\ \A j \in 1..Len(a) : OutputPath(a, j) => j <= k
    BY <1>5
  <2>2. k \in given /\ \A j \in given : j <= k /\ j \in Nat
    BY <1>3, <2>1
  <2>3. (CHOOSE i \in given : \A j \in given : j <= i) = k
    <3>1. \A i \in given : (\A j \in given : j <= i) => i = k
      BY <1>3, <2>2
    <3> HIDE DEF given
    <3> QED BY <2>2, <3>1
  <2>4. a[k] \in DOMAIN c.outputs /\ a[k] # None
    BY <1>3, CaseTyped
  <2> HIDE DEF given
  <2> QED BY <1>2, <2>1, <2>2, <2>3, <2>4
<1> QED BY <1>1, <1>4, <1>5 DEF ArgsRead

\* A configuration with another output directory.
Redirected(cfg, directory) == [cfg EXCEPT !.output = directory]

LEMMA FieldsWritten ==
  ASSUME NEW cfg, NEW v,
         cfg.tick = v.tick_size, cfg.format = v.price_format, cfg.strategy = v.strategy_type,
         cfg.depth = v.queue_imbalance_depth_levels,
         cfg.buyAbove = v.queue_imbalance_buy_threshold,
         cfg.sellBelow = v.queue_imbalance_sell_threshold,
         cfg.qty = v.strategy_order_quantity, cfg.type = v.strategy_order_type,
         cfg.limit = v.strategy_limit_price_ticks, cfg.latency = v.order_latency_ns,
         cfg.cancelAfter = v.cancel_after_arrival_ns, cfg.feePpm = v.fee_rate_ppm,
         cfg.cash = v.initial_cash, cfg.script = v.scripted_intents,
         NEW f \in DOMAIN FieldKeys
  PROVE  cfg[f] = v[FieldKeys[f]]
<1>1. CASE f \in {"tick", "format", "strategy", "depth"}
  BY <1>1 DEF FieldKeys
<1>2. CASE f \in {"buyAbove", "sellBelow", "qty", "type", "limit"}
  BY <1>2 DEF FieldKeys
<1>3. CASE f \in {"latency", "cancelAfter", "feePpm", "cash", "script"}
  BY <1>3 DEF FieldKeys
<1> QED BY <1>1, <1>2, <1>3 DEF FieldKeys

LEMMA FieldsSettled ==
  ASSUME NEW c \in UNION Cases, NEW v, NEW cast, NEW cfg,
         \A key \in Keys : v[key] = SettingIn(c.config, key), DOMAIN v = Keys,
         Parses(v), Valid(Config(v, cast)),
         cfg = Redirected(Config(v, cast), OutputIn(c))
  PROVE  /\ \A f \in DOMAIN FieldKeys : cfg[f] = SettingIn(c.config, FieldKeys[f])
         /\ cfg.output = OutputIn(c) /\ cfg.feePpm \in 0..PpmUnit /\ cfg.queuePpm \in 0..PpmUnit
         /\ SettingIn(c.config, "output_directory") # Empty
         /\ cfg.queuePpm = IF v.queue_fraction = Empty THEN v.queue_fraction_ppm
                                                       ELSE RoundedPpm(v.queue_fraction, cast)
<1>1. v.tick_size # Empty
  <2>1. Config(v, cast).tick = IF v.tick_size = Empty THEN << >> ELSE v.tick_size
    BY DEF Config
  <2> QED BY <2>1, EmptyIsNoTick DEF Valid
<1>2. DOMAIN FieldKeys = {"tick", "format", "strategy", "depth", "buyAbove", "sellBelow", "qty", "type",
                          "limit", "latency", "cancelAfter", "feePpm", "cash", "script"}
  BY DEF FieldKeys
<1>3. /\ cfg.tick = v.tick_size /\ cfg.format = v.price_format /\ cfg.strategy = v.strategy_type
      /\ cfg.depth = v.queue_imbalance_depth_levels
      /\ cfg.buyAbove = v.queue_imbalance_buy_threshold
      /\ cfg.sellBelow = v.queue_imbalance_sell_threshold
      /\ cfg.qty = v.strategy_order_quantity /\ cfg.type = v.strategy_order_type
      /\ cfg.limit = v.strategy_limit_price_ticks /\ cfg.latency = v.order_latency_ns
      /\ cfg.cancelAfter = v.cancel_after_arrival_ns /\ cfg.feePpm = v.fee_rate_ppm
      /\ cfg.cash = v.initial_cash /\ cfg.script = v.scripted_intents
      /\ cfg.output = OutputIn(c)
      /\ cfg.queuePpm = IF v.queue_fraction = Empty THEN v.queue_fraction_ppm
                                                    ELSE RoundedPpm(v.queue_fraction, cast)
  BY <1>1 DEF Config, Redirected
<1>4. \A f \in DOMAIN FieldKeys : FieldKeys[f] \in Keys /\ cfg[f] = v[FieldKeys[f]]
  <2>1. /\ FieldKeys["tick"] = "tick_size" /\ FieldKeys["format"] = "price_format"
        /\ FieldKeys["strategy"] = "strategy_type"
        /\ FieldKeys["depth"] = "queue_imbalance_depth_levels"
        /\ FieldKeys["buyAbove"] = "queue_imbalance_buy_threshold"
        /\ FieldKeys["sellBelow"] = "queue_imbalance_sell_threshold"
        /\ FieldKeys["qty"] = "strategy_order_quantity" /\ FieldKeys["type"] = "strategy_order_type"
        /\ FieldKeys["limit"] = "strategy_limit_price_ticks"
        /\ FieldKeys["latency"] = "order_latency_ns"
        /\ FieldKeys["cancelAfter"] = "cancel_after_arrival_ns"
        /\ FieldKeys["feePpm"] = "fee_rate_ppm" /\ FieldKeys["cash"] = "initial_cash"
        /\ FieldKeys["script"] = "scripted_intents"
    BY DEF FieldKeys
  <2>2. Keys = {"book_updates_path", "trades_path", "output_directory", "tick_size", "price_format",
                "strategy_type", "queue_imbalance_depth_levels", "queue_imbalance_buy_threshold",
                "queue_imbalance_sell_threshold", "strategy_order_quantity", "strategy_order_type",
                "strategy_limit_price_ticks", "order_latency_ns", "cancel_after_arrival_ns",
                "queue_fraction_ppm", "queue_fraction", "fee_rate_ppm", "initial_cash",
                "scripted_intents", "deterministic"}
    BY DEF Keys, Defaults
  <2>3. \A f \in DOMAIN FieldKeys : FieldKeys[f] \in Keys
    BY <1>2, <2>1, <2>2
  <2>4. \A f \in DOMAIN FieldKeys : cfg[f] = v[FieldKeys[f]]
    BY <1>3, FieldsWritten
  <2> QED BY <2>3, <2>4
<1>5. Config(v, cast).output = v.output_directory /\ "output_directory" \in Keys
  BY DEF Config, Keys, Defaults
<1>6. /\ Config(v, cast).feePpm = cfg.feePpm /\ Config(v, cast).queuePpm = cfg.queuePpm
  BY <1>3 DEF Config, Redirected
<1> QED BY <1>3, <1>4, <1>5, <1>6 DEF Valid

LEMMA ConfigSettled ==
  ASSUME NEW c \in UNION Cases, NEW o, ArgsRead(c.args, o, Len(c.args)),
         NEW values0, EntriesRead(c.config, values0, Len(c.config)),
         NEW cast, NEW cfg,
         Parses(Given(values0)), Valid(Config(Given(values0), cast)),
         cfg = Redirected(Config(Given(values0), cast), OutputIn(c))
  PROVE  Settled(c, cfg)
<1>1. PICK v : v = Given(values0)
  OBVIOUS
<1>2. PICK lines \in Seq(Range(c.config)) : lines = c.config
  BY CaseTyped
<1>3. DOMAIN v = Keys /\ \A key \in Keys : v[key] = SettingIn(c.config, key)
  <2>1. \A key \in Keys : Given(values0)[key] = SettingIn(lines, key)
    BY <1>2, GivenSettings
  <2> QED BY <1>1, <1>2, <2>1 DEF Given
<1>4. /\ \A f \in DOMAIN FieldKeys : cfg[f] = SettingIn(c.config, FieldKeys[f])
      /\ cfg.output = OutputIn(c) /\ cfg.feePpm \in 0..PpmUnit /\ cfg.queuePpm \in 0..PpmUnit
      /\ SettingIn(c.config, "output_directory") # Empty
      /\ cfg.queuePpm = IF v.queue_fraction = Empty THEN v.queue_fraction_ppm
                                                    ELSE RoundedPpm(v.queue_fraction, cast)
  <2>1. /\ Parses(v) /\ Valid(Config(v, cast))
        /\ cfg = Redirected(Config(v, cast), OutputIn(c))
    BY <1>1
  <2> QED BY <1>3, <2>1, FieldsSettled
<1>5. PICK fraction : fraction = v.queue_fraction
  OBVIOUS
<1>6. /\ "queue_fraction" \in Keys /\ "queue_fraction_ppm" \in Keys
      /\ Defaults["queue_fraction"] = Empty
  BY DEF Keys, Defaults
<1>7. /\ fraction = SettingIn(c.config, "queue_fraction")
      /\ v.queue_fraction_ppm = SettingIn(c.config, "queue_fraction_ppm")
  BY <1>3, <1>5, <1>6
<1>8. fraction \notin {Empty, NaN} => fraction \in Doubles
  <2>1. fraction \in {Empty, Garbage, NaN} \cup Doubles
    <3>1. \/ SettingIn(c.config, "queue_fraction") = Defaults["queue_fraction"]
          \/ \E entry \in Range(c.config) :
               entry.key = "queue_fraction" /\ entry.value = SettingIn(c.config, "queue_fraction")
      BY SettingValue
    <3> QED BY <1>6, <1>7, <3>1, CaseTyped
  <2>2. fraction # Empty => fraction # Garbage
    BY <1>1, <1>5 DEF Parses, IsDouble
  <2> QED BY <2>1, <2>2
<1>9. ASSUME fraction \notin {Empty, NaN}
      PROVE  2 * fraction[2] * cfg.queuePpm - 2 * fraction[1] * PpmUnit \in (-fraction[2])..fraction[2]
  <2>1. PICK n \in Int, d \in Nat \ {0} : n = fraction[1] /\ d = fraction[2]
    BY <1>8, <1>9 DEF Doubles
  <2>2. PICK q : q = cfg.queuePpm
    OBVIOUS
  <2>3. q = (2 * n * PpmUnit + d) \div (2 * d)
    BY <1>4, <1>5, <1>9, <2>1, <2>2 DEF RoundedPpm
  <2>4. PpmUnit \in Nat
    BY PpmAssumption
  <2>5. 2 * d * q - 2 * n * PpmUnit \in (-d)..d
    BY <2>3, <2>4, RoundedClose
  <2> QED BY <2>1, <2>2, <2>5
<1>10. /\ \A k \in DOMAIN c.config : c.config[k].kind # "bare"
       /\ SettingsIn(c.config, Empty) = {}
       /\ \A key \in Keys : Cardinality(SettingsIn(c.config, key)) <= 1
  <2>1. DOMAIN lines = 1..Len(lines)
    OBVIOUS
  <2>2. EntriesRead(lines, values0, Len(lines))
    BY <1>2
  <2>3. \A k \in DOMAIN lines : lines[k].kind # "bare"
    BY <2>1, <2>2 DEF EntriesRead
  <2>4. \A key : (key = Empty => SettingsIn(lines, key) = {}) /\ Cardinality(SettingsIn(lines, key)) <= 1
    BY <2>2, SettingsRead
  <2> QED BY <1>2, <2>3, <2>4
<1> QED BY <1>4, <1>5, <1>7, <1>9, <1>10 DEF Settled
-----------------------------------------------------------------------------
\* What the program knows of its case, and that it touched nothing yet, up to
\* its end; how it ended afterwards.
CliInv ==
  /\ phase \in {"arguments", "config", "hash", "feed", "write", "exited"}
  /\ DOMAIN options = OptionNames
  /\ phase = "arguments" =>
       /\ at \in 0..Len(setup.args) /\ ~PathIn(setup.args, at + 1)
       /\ ArgsRead(setup.args, options, at) /\ values = << >>
  /\ phase \in {"config", "hash", "feed", "write"} =>
       ArgsRead(setup.args, options, Len(setup.args)) /\ ~HelpIn(setup.args)
  /\ phase = "config" => at \in 0..Len(setup.config) /\ EntriesRead(setup.config, values, at)
  /\ phase \in {"hash", "feed", "write"} => Settled(setup, config)
  /\ config # None => Settled(setup, config)
  /\ phase # "exited" => outputs = setup.outputs /\ published = None
  /\ phase = "exited" => Tells(setup, exitCode, published, outputs)

\* The mark for what is not there is no record of inputs.
NoneIsNoRecord == \A h, f : None # [hashed |-> h, feed |-> f]

LEMMA SetupTyped ==
  ASSUME RunInv
  PROVE  /\ setup \in UNION Cases
         /\ setup.args \in Seq(DOMAIN setup.outputs) /\ Len(setup.args) \in Nat
         /\ setup.config \in Seq(Range(setup.config)) /\ Len(setup.config) \in Nat
         /\ DOMAIN setup.args = 1..Len(setup.args)
<1>1. setup \in UNION Cases
  BY DEF RunInv
<1>2. setup.args \in Seq(DOMAIN setup.outputs) /\ setup.config \in Seq(Range(setup.config))
  BY <1>1, CaseTyped
<1>3. PICK a \in Seq(DOMAIN setup.outputs) : a = setup.args
  BY <1>2
<1>4. PICK c \in Seq(Range(setup.config)) : c = setup.config
  BY <1>2
<1>5. Len(a) \in Nat /\ DOMAIN a = 1..Len(a) /\ Len(c) \in Nat
  OBVIOUS
<1> QED BY <1>1, <1>2, <1>3, <1>4, <1>5

\* An end before anything was written.
LEMMA EndTells ==
  ASSUME CliInv, phase # "exited", NEW code, Exit(code), UNCHANGED published,
         code = 0 <=> HelpIn(setup.args)
  PROVE  CliInv'
<1>1. outputs' = setup'.outputs /\ published' = None /\ setup' = setup /\ exitCode' = code
  BY DEF CliInv, Exit
<1>2. Tells(setup', exitCode', published', outputs')
  BY <1>1 DEF Tells
<1>3. /\ phase' = "exited" /\ UNCHANGED <<options, config>>
  BY DEF Exit
<1> QED BY <1>1, <1>2, <1>3 DEF CliInv

LEMMA CliInit == RunInit /\ RunInv => CliInv
<1> SUFFICES ASSUME RunInit, RunInv PROVE CliInv
  OBVIOUS
<1>1. Len(setup.args) \in Nat
  BY SetupTyped
<1>2. ~PathIn(setup.args, at + 1)
  BY FirstIsNoPath DEF RunInit
<1>3. ArgsRead(setup.args, options, at)
  BY DEF RunInit, ArgsRead
<1>4. DOMAIN options = OptionNames
  BY DEF RunInit, OptionNames
<1>5. /\ phase = "arguments" /\ config = None /\ outputs = setup.outputs /\ published = None
      /\ at = 0 /\ values = << >>
  BY DEF RunInit
<1> QED BY <1>1, <1>2, <1>3, <1>4, <1>5 DEF CliInv

LEMMA ArgumentsStep ==
  ASSUME RunInv, CliInv, ShowHelp \/ TakeForce \/ TakePath \/ RefuseArguments \/ OpenConfig
  PROVE  CliInv'
<1>1. PICK a, n : a = setup.args /\ n = at
  OBVIOUS
<1>2. /\ phase = "arguments" /\ a \in Seq(DOMAIN setup.outputs) /\ Len(a) \in Nat
      /\ n \in 0..Len(a) /\ ~PathIn(a, n + 1) /\ ArgsRead(a, options, n)
      /\ DOMAIN options = OptionNames /\ values = << >>
  <2>1. phase = "arguments"
    BY DEF ShowHelp, TakeForce, TakePath, RefuseArguments, OpenConfig, Parsing
  <2> QED BY <1>1, <2>1, SetupTyped DEF CliInv
<1>3. n \in Nat
  BY <1>2
<1>4. Argument = a[n + 1] /\ (Parsing <=> n < Len(a))
  BY <1>1, <1>2 DEF Argument, Parsing
<1>5. CASE ShowHelp
  <2>1. HelpIn(a)
    <3>1. CASE a = << >>
      BY <3>1 DEF HelpIn
    <3>2. CASE a # << >>
      <4>1. n < Len(a) /\ a[n + 1] = "--help"
        BY <1>1, <1>4, <1>5, <3>2 DEF ShowHelp
      <4> QED BY <1>2, <1>3, <4>1, HelpAsked
    <3> QED BY <3>1, <3>2
  <2> QED BY <1>1, <1>2, <1>5, <2>1, EndTells DEF ShowHelp
<1>6. CASE TakeForce
  <2>1. PICK p : p = [options EXCEPT !.force = TRUE]
    OBVIOUS
  <2>2. /\ options' = p /\ at' = n + 1 /\ n < Len(a) /\ a[n + 1] = "--force"
        /\ UNCHANGED <<setup, values, phase, config, published, outputs>>
    BY <1>1, <1>4, <1>6, <2>1 DEF TakeForce
  <2>3. ArgsRead(a, p, n + 1) /\ ~PathIn(a, n + 2) /\ DOMAIN p = OptionNames
    BY <1>2, <1>3, <2>1, <2>2, ForceRead
  <2>4. at' \in 0..Len(a) /\ at' + 1 = n + 2
    BY <1>2, <2>2
  <2> QED BY <1>1, <1>2, <2>2, <2>3, <2>4 DEF CliInv
<1>7. CASE TakePath
  <2>1. PICK p : p = IF a[n + 1] = "--config" THEN [options EXCEPT !.config = a[n + 2]]
                                              ELSE [options EXCEPT !.output = a[n + 2]]
    OBVIOUS
  <2>2. /\ options' = p /\ at' = n + 2 /\ n + 2 <= Len(a) /\ a[n + 1] \in {"--config", "--output"}
        /\ UNCHANGED <<setup, values, phase, config, published, outputs>>
    BY <1>1, <1>4, <1>7, <2>1 DEF TakePath
  <2>3. ArgsRead(a, p, n + 2) /\ ~PathIn(a, n + 3) /\ DOMAIN p = OptionNames
    BY <1>2, <1>3, <2>1, <2>2, PathRead
  <2>4. at' \in 0..Len(a) /\ at' + 1 = n + 3
    BY <1>2, <2>2
  <2> QED BY <1>1, <1>2, <2>2, <2>3, <2>4 DEF CliInv
<1>8. CASE RefuseArguments
  <2>1. /\ a # << >>
        /\ \/ n = Len(a)
           \/ a[n + 1] \notin Words
           \/ a[n + 1] \in {"--config", "--output"} /\ n + 2 > Len(a)
    BY <1>1, <1>2, <1>4, <1>8 DEF RefuseArguments
  <2>2. ~HelpIn(a)
    BY <1>2, <2>1, NoHelp
  <2> QED BY <1>1, <1>2, <1>8, <2>2, EndTells DEF RefuseArguments
<1>9. CASE OpenConfig
  <2>1. n = Len(a) /\ a # << >>
    BY <1>1, <1>2, <1>4, <1>9 DEF OpenConfig
  <2>2. ~HelpIn(a)
    BY <1>2, <2>1, NoHelp
  <2>3. EntriesRead(setup.config, << >>, 0)
    BY DEF EntriesRead
  <2>4. Len(setup.config) \in Nat
    BY SetupTyped
  <2>5. /\ phase' = "config" /\ at' = 0
        /\ UNCHANGED <<setup, options, values, config, published, outputs>>
    BY <1>9 DEF OpenConfig
  <2> QED BY <1>1, <1>2, <2>1, <2>2, <2>3, <2>4, <2>5 DEF CliInv
<1> QED BY <1>5, <1>6, <1>7, <1>8, <1>9

LEMMA EntryStep ==
  ASSUME RunInv, CliInv, ReadEntry
  PROVE  CliInv'
<1>1. PICK c, n : c = setup.config /\ n = at
  OBVIOUS
<1>2. /\ phase = "config" /\ n < Len(c) /\ n \in 0..Len(c) /\ Len(c) \in Nat
      /\ EntriesRead(c, values, n) /\ Entry = c[n + 1]
      /\ at' = n + 1
      /\ UNCHANGED <<setup, options, phase, config, published, outputs>>
  BY <1>1, SetupTyped DEF ReadEntry, InConfig, Entry, CliInv
<1>3. n \in Nat /\ at' \in 0..Len(c)
  BY <1>2
<1>4. EntriesRead(c, values', n + 1)
  <2>1. CASE Entry.kind = "comment" /\ UNCHANGED values
    <3>1. EntriesRead(c, values, n + 1)
      BY <1>2, <1>3, <2>1, CommentRead
    <3> QED BY <2>1, <3>1
  <2>2. CASE Entry.kind = "setting" /\ KeyIsNew
    <3>1. PICK w : w = [key \in DOMAIN values \cup {Entry.key} |->
                          IF key = Entry.key THEN Entry.value ELSE values[key]]
      OBVIOUS
    <3>2. values' = w
      <4>1. Entry.kind # "comment"
        BY <2>2
      <4> QED BY <2>2, <3>1, <4>1 DEF ReadEntry
    <3>3. PICK entry : entry = Entry
      OBVIOUS
    <3>4. /\ IsSetting(entry) /\ entry.key # Empty /\ entry.key \notin DOMAIN values /\ entry = c[n + 1]
          /\ w = [key \in DOMAIN values \cup {entry.key} |->
                    IF key = entry.key THEN entry.value ELSE values[key]]
      BY <1>2, <2>2, <3>1, <3>3 DEF IsSetting, KeyIsNew
    <3>5. EntriesRead(c, w, n + 1)
      BY <1>2, <1>3, <3>4, SettingRead
    <3> QED BY <3>2, <3>5
  <2> QED BY <2>1, <2>2 DEF ReadEntry
<1> QED BY <1>1, <1>2, <1>3, <1>4 DEF CliInv

LEMMA ConfigureStep ==
  ASSUME ~ReadsFail, RunInv, CliInv, Configure
  PROVE  CliInv'
<1>1. /\ phase = "config" /\ EntriesRead(setup.config, values, Len(setup.config))
      /\ ArgsRead(setup.args, options, Len(setup.args)) /\ ~HelpIn(setup.args)
  BY DEF Configure, CliInv
<1>2. PICK cast \in NaNCasts :
        \/ /\ Accepted(Config(Given(values), cast))
           /\ config' = Overridden(Config(Given(values), cast)) /\ phase' = "hash"
           /\ UNCHANGED <<setup, options, values, published, outputs>>
        \/ Exit(Caught) /\ UNCHANGED published
  BY DEF Configure
<1>3. CASE Exit(Caught) /\ UNCHANGED published
  BY <1>1, <1>3, EndTells DEF Caught
<1>4. CASE /\ Accepted(Config(Given(values), cast))
           /\ config' = Overridden(Config(Given(values), cast)) /\ phase' = "hash"
           /\ UNCHANGED <<setup, options, values, published, outputs>>
  <2>1. PICK cfg : cfg = Config(Given(values), cast)
    OBVIOUS
  <2>2. cfg.output = Given(values)["output_directory"]
    BY <2>1 DEF Config
  <2>3. "output_directory" \in Keys
    BY DEF Keys, Defaults
  <2>4. Given(values)["output_directory"] = SettingIn(setup.config, "output_directory")
    <3>1. PICK lines \in Seq(Range(setup.config)) : lines = setup.config
      BY SetupTyped
    <3>2. Given(values)["output_directory"] = SettingIn(lines, "output_directory")
      BY <1>1, <2>3, <3>1, GivenSettings
    <3> QED BY <3>1, <3>2
  <2>5. OutputIn(setup) = IF options.output = None THEN cfg.output ELSE options.output
    BY <1>1, <2>2, <2>4, SetupTyped, OutputRemembered
  <2>6. Overridden(cfg) = Redirected(cfg, OutputIn(setup))
    BY <2>5 DEF Overridden, Redirected
  <2>7. Parses(Given(values)) /\ Valid(cfg)
    BY <1>4, <2>1 DEF Accepted
  <2>8. config' = Redirected(Config(Given(values), cast), OutputIn(setup))
    BY <1>4, <2>1, <2>6
  <2>9. Settled(setup, config')
    BY <1>1, <2>1, <2>7, <2>8, SetupTyped, ConfigSettled
  <2> QED BY <1>1, <1>4, <2>9 DEF CliInv
<1> QED BY <1>2, <1>3, <1>4

\* The place that is written to is one of those there are, and the one asked for.
LEMMA OutputPlace ==
  ASSUME RunInv, CliInv, phase = "write"
  PROVE  /\ config.output = OutputIn(setup) /\ config.output \in DOMAIN setup.outputs
         /\ options.force = TRUE => ForceIn(setup)
<1>1. /\ ArgsRead(setup.args, options, Len(setup.args)) /\ Settled(setup, config)
  BY DEF CliInv
<1>2. config.output = OutputIn(setup) /\ SettingIn(setup.config, "output_directory") # Empty
  BY <1>1 DEF Settled
<1>3. SettingIn(setup.config, "output_directory") \in DOMAIN setup.outputs
  <2>1. Defaults["output_directory"] = Empty
    BY DEF Defaults
  <2>2. PICK entry \in Range(setup.config) :
          entry.key = "output_directory" /\ entry.value = SettingIn(setup.config, "output_directory")
    BY <1>2, <2>1, SettingValue
  <2>3. entry.value \in DOMAIN setup.outputs \cup {Empty}
    BY <2>2, SetupTyped, CaseTyped
  <2> QED BY <1>2, <2>2, <2>3
<1>4. /\ OutputIn(setup) = IF options.output = None THEN SettingIn(setup.config, "output_directory")
                                                    ELSE options.output
      /\ options.output # None => options.output \in DOMAIN setup.outputs
  BY <1>1, SetupTyped, OutputRemembered
<1>5. options.force = TRUE => ForceIn(setup)
  BY <1>1, SetupTyped DEF ArgsRead, ForceIn
<1> QED BY <1>2, <1>3, <1>4, <1>5

LEMMA WriteStep ==
  ASSUME NoneIsNoRecord, RunInv, CliInv, Publish \/ FailToWrite
  PROVE  CliInv'
<1>1. /\ phase = "write" /\ phase' = "exited" /\ UNCHANGED <<setup, options, config>>
      /\ outputs = setup.outputs /\ published = None /\ ~HelpIn(setup.args)
  BY DEF Publish, FailToWrite, CliInv
<1>2. PICK place : place = config.output
  OBVIOUS
<1>3. /\ place = OutputIn(setup) /\ place \in DOMAIN outputs
      /\ options.force = TRUE => ForceIn(setup)
  BY <1>1, <1>2, OutputPlace
<1>4. ASSUME MayWrite, outputs[place] \in {"artifacts", "files"} PROVE ForceIn(setup)
  <2>1. options.force
    BY <1>2, <1>4 DEF MayWrite
  <2>2. options.force = TRUE
    BY <2>1
  <2> QED BY <1>3, <2>2
<1>5. CASE Publish
  <2>1. /\ outputs' = [outputs EXCEPT ![place] = "published"] /\ exitCode' = 0
        /\ published' # None /\ MayWrite
    BY <1>2, <1>5 DEF Publish, NoneIsNoRecord
  <2>2. /\ outputs'[place] = "published" /\ DOMAIN outputs' = DOMAIN outputs
        /\ \A d \in DOMAIN outputs : d # place => outputs'[d] = outputs[d]
    BY <1>3, <2>1
  <2>3. Tells(setup, exitCode', published', outputs')
    BY <1>1, <1>3, <1>4, <2>1, <2>2 DEF Tells
  <2> QED BY <1>1, <2>3 DEF CliInv
<1>6. CASE FailToWrite
  <2>1. /\ exitCode' = 1 /\ published' = None
        /\ \/ outputs' = outputs
           \/ MayWrite /\ outputs' = [outputs EXCEPT ![place] = "absent"]
    BY <1>1, <1>2, <1>6 DEF FailToWrite, Caught
  <2>2. CASE outputs' = outputs
    <3>1. Tells(setup, exitCode', published', outputs')
      BY <1>1, <2>1, <2>2 DEF Tells
    <3> QED BY <1>1, <3>1 DEF CliInv
  <2>3. CASE MayWrite /\ outputs' = [outputs EXCEPT ![place] = "absent"]
    <3>1. /\ outputs'[place] # "published" /\ DOMAIN outputs' = DOMAIN outputs
          /\ \A d \in DOMAIN outputs : d # place => outputs'[d] = outputs[d]
      BY <1>3, <2>3
    <3>2. Tells(setup, exitCode', published', outputs')
      BY <1>1, <1>3, <1>4, <2>1, <2>3, <3>1 DEF Tells
    <3> QED BY <1>1, <3>2 DEF CliInv
  <2> QED BY <2>1, <2>2, <2>3
<1> QED BY <1>5, <1>6

LEMMA CliStep ==
  ASSUME ~ReadsFail, NoneIsNoRecord, RunInv, CliInv, [RunNext]_runVars
  PROVE  CliInv'
<1>1. CASE ShowHelp \/ TakeForce \/ TakePath \/ RefuseArguments \/ OpenConfig
  BY <1>1, ArgumentsStep
<1>2. CASE ReadEntry
  BY <1>2, EntryStep
<1>3. CASE Configure
  BY <1>3, ConfigureStep
<1>4. CASE Publish \/ FailToWrite
  BY <1>4, WriteStep
<1>5. ASSUME phase \in {"config", "hash", "feed"}, Exit(Caught), UNCHANGED published
      PROVE  CliInv'
  <2>1. Caught # 0 /\ ~HelpIn(setup.args)
    BY <1>5 DEF Caught, CliInv
  <2> QED BY <1>5, <2>1, EndTells
<1>6. ASSUME phase \in {"hash", "feed"}, phase' \in {"hash", "feed", "write"},
             UNCHANGED <<setup, options, config, published, outputs>>
      PROVE  CliInv'
  BY <1>6 DEF CliInv
<1>7. CASE RefuseEntry \/ RefuseFeed
  BY <1>5, <1>7 DEF RefuseEntry, RefuseFeed, InConfig
<1>8. ASSUME NEW s \in Sources, HashInput(s)
      PROVE  CliInv'
  <2>1. \/ Exit(Caught) /\ UNCHANGED published
        \/ phase' \in {"hash", "feed"} /\ UNCHANGED <<setup, options, config, published, outputs>>
    BY <1>8 DEF HashInput
  <2> QED BY <1>5, <1>6, <1>8, <2>1 DEF HashInput
<1>9. CASE ReadFeed
  BY <1>6, <1>9 DEF ReadFeed, cliVars
<1>10. CASE Replay
  BY <1>5, <1>6, <1>10 DEF Replay, cliVars
<1>11. ASSUME NEW s \in Sources, ReplaceFile(s)
       PROVE  CliInv'
  BY <1>6, <1>11 DEF ReplaceFile
<1>12. CASE UNCHANGED runVars
  BY <1>12 DEF runVars, cliVars, CliInv
<1> QED BY <1>1, <1>2, <1>3, <1>4, <1>7, <1>8, <1>9, <1>10, <1>11, <1>12 DEF RunNext

LEMMA CliHolds ==
  ASSUME ~ReadsFail, NoneIsNoRecord
  PROVE  RunSpec => [](RunInv /\ CliInv)
<1>1. RunInit => RunInv /\ CliInv
  BY RunInitInv, CliInit
<1>2. RunInv /\ CliInv /\ [RunNext]_runVars => RunInv' /\ CliInv'
  BY RunStep, CliStep
<1> QED BY <1>1, <1>2, PTL DEF RunSpec

(* The exit code of replay_cli tells what happened, whatever the arguments *)
(* and the directories: main of apps/replay_cli.cpp returns zero exactly   *)
(* for its usage and for artifacts in place, and what was there before is  *)
(* replaced only where it was asked for, and with --force.                 *)
THEOREM ExitCodeCorrect ==
  ASSUME ~ReadsFail, NoneIsNoRecord
  PROVE  RunSpec => []ExitCodeTells
<1>1. RunInv /\ CliInv => ExitCodeTells
  BY TellsOfSetup DEF CliInv
<1> QED BY <1>1, CliHolds, PTL

(* Whatever configuration parse_key_value_file, load_replay_config and     *)
(* validate_replay_config accept, the replay runs with what its file says, *)
(* and with the last --output in place of the directory named there.       *)
THEOREM SettingsCorrect ==
  ASSUME ~ReadsFail, NoneIsNoRecord
  PROVE  RunSpec => []SettingsAsWritten
<1>1. RunInv /\ CliInv => SettingsAsWritten
  BY SettledOfSetup DEF CliInv
<1> QED BY <1>1, CliHolds, PTL
=============================================================================
