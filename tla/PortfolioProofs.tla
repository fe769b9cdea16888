-------------------------- MODULE PortfolioProofs --------------------------
(***************************************************************************)
(* Theorems about the portfolio for all fills, amounts and books.  The     *)
(* folds of Portfolio are taken apart first, lot by lot.                   *)
(***************************************************************************)
EXTENDS PortfolioFills, DataLemmas

\* The signed quantity of a lot, and the signed amount it was entered with.
Signed(x) == IF x.side = "buy" THEN x.qty ELSE -x.qty
Spent(x)  == Signed(x) * x.price

AnyLots == [side : Sides, qty : Int, price : Int]

SignedQtys(xs) == [k \in 1..Len(xs) |-> Signed(xs[k])]
Amounts(xs)    == [k \in 1..Len(xs) |-> Spent(xs[k])]

\* What the lots have cost: negative for lots that were sold.
Cost(xs) == Total(Amounts(xs), Len(xs))

LEMMA LotTyped ==
  ASSUME NEW xs \in Seq(AnyLots)
  PROVE  /\ Len(xs) \in Nat /\ DOMAIN xs = 1..Len(xs)
         /\ \A k \in 1..Len(xs) :
              /\ xs[k] \in AnyLots /\ xs[k].side \in Sides /\ xs[k].qty \in Int /\ xs[k].price \in Int
              /\ Signed(xs[k]) \in Int /\ Spent(xs[k]) \in Int
<1>1. \A k \in 1..Len(xs) : xs[k] \in AnyLots
  OBVIOUS
<1>2. \A x \in AnyLots : x.side \in Sides /\ x.qty \in Int /\ x.price \in Int /\ Signed(x) \in Int
  BY DEF AnyLots, Signed
<1>3. \A x \in AnyLots : Spent(x) \in Int
  BY <1>2 DEF Spent
<1> QED BY <1>1, <1>2, <1>3

LEMMA PositionIsTotal ==
  ASSUME NEW xs \in Seq(AnyLots)
  PROVE  Position(xs) = Total(SignedQtys(xs), Len(xs))
<1>0. PICK n \in Nat : n = Len(xs) /\ DOMAIN xs = 1..n
  BY LotTyped
<1> DEFINE Op(sum, x) == IF x.side = "buy" THEN sum + x.qty ELSE sum - x.qty
           Read(f) == [s \in SUBSET (DOMAIN xs) |-> IF s = {} THEN 0 ELSE Op(f[s \ {Max(s)}], xs[Max(s)])]
           read == CHOOSE f : f = Read(f)
           w == SignedQtys(xs)
           h == [p \in Int \X (1..n) |-> p[1] + w[p[2]]]
<1>1. Position(xs) = read[DOMAIN xs]
  BY DEF Position, FoldLeft, MapThenFoldSet
<1>2. \A k \in 1..n : w[k] \in Int /\ w[k] = Signed(xs[k])
  BY <1>0, LotTyped DEF SignedQtys
<1>3. \A v \in Int : \A i \in 1..n : h[<<v, i>>] \in Int
  <2> HIDE DEF w
  <2> QED BY <1>2
<1>3a. \A v \in Int : \A i \in 1..n : h[<<v, i>>] = Op(v, xs[i])
  BY <1>0, <1>2, LotTyped DEF Signed
<1>4. PICK g : Folds(g, h, 0, SUBSET (1..n))
  <2> HIDE DEF h
  <2> QED BY FoldExists
<1>5. \A s \in SUBSET (1..n) : g[s] \in Int
  <2> HIDE DEF h, Op
  <2>1. 0 \in Int /\ \A v \in Int : \A i \in 1..n : h[<<v, i>>] \in Int
    BY <1>3
  <2> QED BY <1>4, <2>1, FoldTyped
<1>6. g = Read(g)
  <2> HIDE DEF h, Op
  <2>1. \A s \in SUBSET (1..n) : s # {} =>
          h[<<g[s \ {Max(s)}], Max(s)>>] = Op(g[s \ {Max(s)}], xs[Max(s)])
    <3> SUFFICES ASSUME NEW s \in SUBSET (1..n), s # {}
                 PROVE  h[<<g[s \ {Max(s)}], Max(s)>>] = Op(g[s \ {Max(s)}], xs[Max(s)])
      OBVIOUS
    <3>1. Max(s) \in 1..n /\ g[s \ {Max(s)}] \in Int
      BY <1>5, LastPlace, FewerPlaces
    <3> QED BY <1>3a, <3>1
  <2>2. g = [s \in SUBSET (1..n) |-> IF s = {} THEN 0 ELSE h[<<g[s \ {Max(s)}], Max(s)>>]]
    BY <1>4 DEF Folds
  <2> QED BY <1>0, <2>1, <2>2
<1>7. read = Read(read)
  <2> HIDE DEF Read
  <2> QED BY <1>6
<1>8. /\ read[{}] = 0
      /\ \A k \in 1..n : read[1..k] = Op(read[1..(k - 1)], xs[k])
  <2>1. \A s \in SUBSET (1..n) : Read(read)[s] = IF s = {} THEN 0 ELSE Op(read[s \ {Max(s)}], xs[Max(s)])
    <3> HIDE DEF read, Op
    <3> QED BY <1>0
  <2>2. \A s \in SUBSET (1..n) : read[s] = IF s = {} THEN 0 ELSE Op(read[s \ {Max(s)}], xs[Max(s)])
    <3> HIDE DEF read, Op, Read
    <3> QED BY <1>7, <2>1
  <2> HIDE DEF read, Op, Read
  <2> QED BY <2>2, PrefixPlaces
<1> DEFINE T == {k \in 0..n : read[1..k] # Total(w, k)}
<1>9. 0 \notin T
  <2>1. 1..0 = {} /\ Total(w, 0) = 0
    BY <1>2, TotalUnfolded
  <2> HIDE DEF read
  <2> QED BY <1>8, <2>1
<1>10. T = {}
  <2>1. SUFFICES ASSUME T # {} PROVE FALSE
    OBVIOUS
  <2>2. PICK k \in 1..n : k \in T /\ k - 1 \in 0..n /\ k - 1 \notin T
    <3>1. T \in SUBSET (0..n)
      OBVIOUS
    <3> HIDE DEF T
    <3> QED BY <1>9, <2>1, <3>1, FirstBad
  <2>3. k \in Nat /\ k - 1 \in Nat /\ k # 0 /\ \A j \in 1..k : w[j] \in Int
    BY <1>2, <2>2
  <2>4. Total(w, k) = Total(w, k - 1) + w[k]
    <3> HIDE DEF w
    <3> QED BY <2>3, TotalUnfolded
  <2>5. Total(w, k - 1) \in Int
    <3>1. \A j \in 1..(k - 1) : w[j] \in Int
      BY <2>3
    <3> HIDE DEF w
    <3> QED BY <2>3, <3>1, TotalUnfolded
  <2>6. read[1..k] = Op(Total(w, k - 1), xs[k])
    <3> HIDE DEF read, Op
    <3> QED BY <1>8, <2>2
  <2>7. Op(Total(w, k - 1), xs[k]) = Total(w, k - 1) + w[k]
    <3> HIDE DEF w
    <3> QED BY <1>0, <1>2, <2>5, LotTyped DEF Signed
  <2> HIDE DEF read, Op, w
  <2> QED BY <2>2, <2>4, <2>6, <2>7
<1>11. read[1..n] = Total(w, n)
  <2> HIDE DEF read, w
  <2> QED BY <1>10
<1> HIDE DEF read
<1> QED BY <1>0, <1>1, <1>11
\* The open profit of a lot at twice the mid price m.
Gains(xs, m) == [k \in 1..Len(xs) |-> Profit(xs[k].side, 2 * xs[k].price, m, xs[k].qty)]

OpenProfits(xs, m) ==
  FoldLeft(LAMBDA sum, lot : sum + Profit(lot.side, 2 * lot.price, m, lot.qty), 0, xs)

LEMMA ProfitTyped ==
  \A side : \A entry, exit, n \in Int : Profit(side, entry, exit, n) \in Int
BY DEF Profit

LEMMA GainsAreTotal ==
  ASSUME NEW xs \in Seq(AnyLots), NEW m \in Int
  PROVE  OpenProfits(xs, m) = Total(Gains(xs, m), Len(xs))
<1>0. PICK n \in Nat : n = Len(xs) /\ DOMAIN xs = 1..n
  BY LotTyped
<1> DEFINE Op(sum, x) == sum + Profit(x.side, 2 * x.price, m, x.qty)
           Read(f) == [s \in SUBSET (DOMAIN xs) |-> IF s = {} THEN 0 ELSE Op(f[s \ {Max(s)}], xs[Max(s)])]
           read == CHOOSE f : f = Read(f)
           w == Gains(xs, m)
           h == [q \in Int \X (1..n) |-> q[1] + w[q[2]]]
<1>1. OpenProfits(xs, m) = read[DOMAIN xs]
  BY DEF OpenProfits, FoldLeft, MapThenFoldSet
<1>2. \A k \in 1..n : /\ w[k] \in Int
                      /\ w[k] = Profit(xs[k].side, 2 * xs[k].price, m, xs[k].qty)
  <2>1. \A k \in 1..n : w[k] = Profit(xs[k].side, 2 * xs[k].price, m, xs[k].qty)
    BY <1>0 DEF Gains
  <2>2. \A k \in 1..n : 2 * xs[k].price \in Int /\ xs[k].qty \in Int
    BY <1>0, LotTyped
  <2> HIDE DEF w
  <2> QED BY <2>1, <2>2, ProfitTyped
<1>3. \A v \in Int : \A i \in 1..n : h[<<v, i>>] \in Int
  <2> HIDE DEF w
  <2> QED BY <1>2
<1>3a. ASSUME NEW v \in Int, NEW i \in 1..n PROVE h[<<v, i>>] = Op(v, xs[i])
  <2>1. h[<<v, i>>] = v + w[i]
    OBVIOUS
  <2>2. Op(v, xs[i]) = v + w[i]
    <3> HIDE DEF w
    <3> QED BY <1>2
  <2> QED BY <2>1, <2>2
<1>4. PICK g : Folds(g, h, 0, SUBSET (1..n))
  <2> HIDE DEF h
  <2> QED BY FoldExists
<1>5. \A s \in SUBSET (1..n) : g[s] \in Int
  <2> HIDE DEF h, Op
  <2>1. 0 \in Int /\ \A v \in Int : \A i \in 1..n : h[<<v, i>>] \in Int
    BY <1>3
  <2> QED BY <1>4, <2>1, FoldTyped
<1>6. g = Read(g)
  <2> HIDE DEF h, Op
  <2>1. \A s \in SUBSET (1..n) : s # {} =>
          h[<<g[s \ {Max(s)}], Max(s)>>] = Op(g[s \ {Max(s)}], xs[Max(s)])
    <3> SUFFICES ASSUME NEW s \in SUBSET (1..n), s # {}
                 PROVE  h[<<g[s \ {Max(s)}], Max(s)>>] = Op(g[s \ {Max(s)}], xs[Max(s)])
      OBVIOUS
    <3>1. Max(s) \in 1..n /\ g[s \ {Max(s)}] \in Int
      BY <1>5, LastPlace, FewerPlaces
    <3> QED BY <1>3a, <3>1
  <2>2. g = [s \in SUBSET (1..n) |-> IF s = {} THEN 0 ELSE h[<<g[s \ {Max(s)}], Max(s)>>]]
    BY <1>4 DEF Folds
  <2> QED BY <1>0, <2>1, <2>2
<1>7. read = Read(read)
  <2> HIDE DEF Read
  <2> QED BY <1>6
<1>8. /\ read[{}] = 0
      /\ \A k \in 1..n : read[1..k] = Op(read[1..(k - 1)], xs[k])
  <2>1. \A s \in SUBSET (1..n) : Read(read)[s] = IF s = {} THEN 0 ELSE Op(read[s \ {Max(s)}], xs[Max(s)])
    <3> HIDE DEF read, Op
    <3> QED BY <1>0
  <2>2. \A s \in SUBSET (1..n) : read[s] = IF s = {} THEN 0 ELSE Op(read[s \ {Max(s)}], xs[Max(s)])
    <3> HIDE DEF read, Op, Read
    <3> QED BY <1>7, <2>1
  <2> HIDE DEF read, Op, Read
  <2> QED BY <2>2, PrefixPlaces
<1> DEFINE T == {k \in 0..n : read[1..k] # Total(w, k)}
<1>9. 0 \notin T
  <2>1. 1..0 = {} /\ Total(w, 0) = 0
    BY <1>2, TotalUnfolded
  <2> HIDE DEF read
  <2> QED BY <1>8, <2>1
<1>10. T = {}
  <2>1. SUFFICES ASSUME T # {} PROVE FALSE
    OBVIOUS
  <2>2. PICK k \in 1..n : k \in T /\ k - 1 \in 0..n /\ k - 1 \notin T
    <3>1. T \in SUBSET (0..n)
      OBVIOUS
    <3> HIDE DEF T
    <3> QED BY <1>9, <2>1, <3>1, FirstBad
  <2>3. k \in Nat /\ k - 1 \in Nat /\ k # 0 /\ \A j \in 1..k : w[j] \in Int
    BY <1>2, <2>2
  <2>4. Total(w, k) = Total(w, k - 1) + w[k]
    <3> HIDE DEF w
    <3> QED BY <2>3, TotalUnfolded
  <2>5. Total(w, k - 1) \in Int
    <3>1. \A j \in 1..(k - 1) : w[j] \in Int
      BY <2>3
    <3> HIDE DEF w
    <3> QED BY <2>3, <3>1, TotalUnfolded
  <2>6. read[1..k] = Op(Total(w, k - 1), xs[k])
    <3> HIDE DEF read, Op
    <3> QED BY <1>8, <2>2
  <2>7. Op(Total(w, k - 1), xs[k]) = Total(w, k - 1) + w[k]
    <3> HIDE DEF w
    <3> QED BY <1>0, <1>2, <2>5
  <2> HIDE DEF read, Op, w
  <2> QED BY <2>2, <2>4, <2>6, <2>7
<1>11. read[1..n] = Total(w, n)
  <2> HIDE DEF read, w
  <2> QED BY <1>10
<1> HIDE DEF read
<1> QED BY <1>0, <1>1, <1>11

LEMMA UnrealizedIsTotal ==
  ASSUME NEW p, p.lots \in Seq(AnyLots), NEW book, MidX2(book) \in Int
  PROVE  UnrealizedX2(p, book, Len(p.lots)) = Total(Gains(p.lots, MidX2(book)), Len(p.lots))
<1>1. SubSeq(p.lots, 1, Len(p.lots)) = p.lots
  <2>1. PICK xs \in Seq(AnyLots) : xs = p.lots
    OBVIOUS
  <2>2. SubSeq(xs, 1, Len(xs)) = xs
    OBVIOUS
  <2> QED BY <2>1, <2>2
<1>2. UnrealizedX2(p, book, Len(p.lots)) = OpenProfits(SubSeq(p.lots, 1, Len(p.lots)), MidX2(book))
  BY DEF UnrealizedX2, LotProfitX2, OpenProfits
<1> QED BY <1>1, <1>2, GainsAreTotal
-----------------------------------------------------------------------------
\* What matching a fill with the lots goes through, lot by lot.
Matches == [left : Int, realized : Int, fits : BOOLEAN, lots : Seq(AnyLots)]

Matching(p, f) == FoldLeft(LAMBDA acc, lot : Close(f, acc, lot), Unmatched(p, f), p.lots)

LEMMA CloseTyped ==
  ASSUME NEW f, f.price \in Int, NEW m \in Matches, NEW lot \in AnyLots
  PROVE  Close(f, m, lot) \in Matches
<1>1. /\ m.left \in Int /\ m.realized \in Int /\ m.fits \in BOOLEAN /\ m.lots \in Seq(AnyLots)
      /\ m = [left |-> m.left, realized |-> m.realized, fits |-> m.fits, lots |-> m.lots]
  BY DEF Matches
<1>2. lot.side \in Sides /\ lot.qty \in Int /\ lot.price \in Int
  BY DEF AnyLots
<1> DEFINE n == IF m.left < lot.qty THEN m.left ELSE lot.qty
           profit == Profit(lot.side, lot.price, f.price, n)
<1>3. n \in Int
  BY <1>1, <1>2
<1>4. profit \in Int
  <2> HIDE DEF n
  <2> QED BY <1>2, <1>3, ProfitTyped
<1>5. CASE m.lots # << >> \/ m.left = 0 \/ lot.side = f.side
  <2>1. Close(f, m, lot) = [m EXCEPT !.lots = Append(m.lots, lot)]
    BY <1>5 DEF Close
  <2>2. Append(m.lots, lot) \in Seq(AnyLots)
    BY <1>1
  <2> QED BY <2>1, <2>2 DEF Matches
<1>6. CASE ~(m.lots # << >> \/ m.left = 0 \/ lot.side = f.side)
  <2>1. Close(f, m, lot) =
          [left |-> m.left - n, realized |-> m.realized + profit,
           fits |-> m.fits /\ InRange(profit) /\ InRange(m.realized + profit),
           lots |-> IF n = lot.qty THEN << >> ELSE <<[lot EXCEPT !.qty = lot.qty - n]>>]
    BY <1>6 DEF Close
  <2> HIDE DEF n, profit
  <2>2. [lot EXCEPT !.qty = lot.qty - n] \in AnyLots
    BY <1>2, <1>3 DEF AnyLots
  <2>3. (IF n = lot.qty THEN << >> ELSE <<[lot EXCEPT !.qty = lot.qty - n]>>) \in Seq(AnyLots)
    BY <2>2
  <2>4. m.left - n \in Int /\ m.realized + profit \in Int
    BY <1>1, <1>3, <1>4
  <2>5. (m.fits /\ InRange(profit) /\ InRange(m.realized + profit)) \in BOOLEAN
    BY Zenon
  <2> QED BY <2>1, <2>3, <2>4, <2>5 DEF Matches
<1> QED BY <1>5, <1>6

LEMMA MatchingFolded ==
  ASSUME NEW p, p.lots \in Seq(AnyLots), NEW f, f.price \in Int, Unmatched(p, f) \in Matches
  PROVE  \E r : /\ r[0] = Unmatched(p, f)
                /\ \A k \in 0..Len(p.lots) : r[k] \in Matches
                /\ \A k \in 1..Len(p.lots) : r[k] = Close(f, r[k - 1], p.lots[k])
                /\ Matching(p, f) = r[Len(p.lots)]
<1>0. PICK n \in Nat : n = Len(p.lots) /\ DOMAIN p.lots = 1..n
  BY LotTyped
<1> DEFINE base == Unmatched(p, f)
           Read(g) == [s \in SUBSET (DOMAIN p.lots) |->
                         IF s = {} THEN base ELSE Close(f, g[s \ {Max(s)}], p.lots[Max(s)])]
           read == CHOOSE g : g = Read(g)
           h == [q \in Matches \X (1..n) |-> Close(f, q[1], p.lots[q[2]])]
<1>1. Matching(p, f) = read[DOMAIN p.lots]
  BY DEF Matching, FoldLeft, MapThenFoldSet
<1>2. \A i \in 1..n : p.lots[i] \in AnyLots
  BY <1>0, LotTyped
<1>3. \A v \in Matches : \A i \in 1..n : h[<<v, i>>] = Close(f, v, p.lots[i])
  OBVIOUS
<1>4. \A v \in Matches : \A i \in 1..n : h[<<v, i>>] \in Matches
  <2> HIDE DEF h
  <2> SUFFICES ASSUME NEW v \in Matches, NEW i \in 1..n PROVE h[<<v, i>>] \in Matches
    OBVIOUS
  <2>1. Close(f, v, p.lots[i]) \in Matches
    BY <1>2, CloseTyped
  <2> QED BY <1>3, <2>1
<1>5. PICK g : Folds(g, h, base, SUBSET (1..n))
  <2> HIDE DEF h, base
  <2> QED BY FoldExists
<1>6. \A s \in SUBSET (1..n) : g[s] \in Matches
  <2> HIDE DEF h
  <2>1. base \in Matches
    OBVIOUS
  <2> HIDE DEF base
  <2> QED BY <1>4, <1>5, <2>1, FoldTyped
<1>7. g = Read(g)
  <2> HIDE DEF h, base
  <2>1. \A s \in SUBSET (1..n) : s # {} =>
          h[<<g[s \ {Max(s)}], Max(s)>>] = Close(f, g[s \ {Max(s)}], p.lots[Max(s)])
    <3> SUFFICES ASSUME NEW s \in SUBSET (1..n), s # {}
                 PROVE  h[<<g[s \ {Max(s)}], Max(s)>>] = Close(f, g[s \ {Max(s)}], p.lots[Max(s)])
      OBVIOUS
    <3>1. Max(s) \in 1..n /\ g[s \ {Max(s)}] \in Matches
      BY <1>6, LastPlace, FewerPlaces
    <3> QED BY <1>3, <3>1
  <2>2. g = [s \in SUBSET (1..n) |-> IF s = {} THEN base ELSE h[<<g[s \ {Max(s)}], Max(s)>>]]
    BY <1>5 DEF Folds
  <2> QED BY <1>0, <2>1, <2>2
<1>8. read = Read(read)
  <2> HIDE DEF Read
  <2> QED BY <1>7
<1>9. /\ read[{}] = base
      /\ \A k \in 1..n : read[1..k] = Close(f, read[1..(k - 1)], p.lots[k])
  <2>1. \A s \in SUBSET (1..n) :
          Read(read)[s] = IF s = {} THEN base ELSE Close(f, read[s \ {Max(s)}], p.lots[Max(s)])
    <3> HIDE DEF read, base
    <3> QED BY <1>0
  <2>2. \A s \in SUBSET (1..n) :
          read[s] = IF s = {} THEN base ELSE Close(f, read[s \ {Max(s)}], p.lots[Max(s)])
    <3> HIDE DEF read, base, Read
    <3> QED BY <1>8, <2>1
  <2> HIDE DEF read, base, Read
  <2> QED BY <2>2, PrefixPlaces
<1>10. \A k \in 0..n : read[1..k] \in Matches
  <2>1. read[{}] \in Matches
    <3> HIDE DEF read
    <3> QED BY <1>9
  <2>2. \A k \in 1..n : read[1..(k - 1)] \in Matches => read[1..k] \in Matches
    <3> HIDE DEF read, base
    <3> QED BY <1>2, <1>9, CloseTyped, SMTT(60)
  <2> HIDE DEF read, base
  <2> QED BY <2>1, <2>2, PrefixTyped
<1> DEFINE r == [k \in 0..n |-> read[1..k]]
<1>11. \A k \in 0..n : r[k] = read[1..k]
  OBVIOUS
<1>12. r[0] = base
  <2>1. 1..0 = {} /\ 0 \in 0..n
    OBVIOUS
  <2> HIDE DEF read, base, r
  <2> QED BY <1>9, <1>11, <2>1
<1>13. \A k \in 1..n : r[k] = Close(f, r[k - 1], p.lots[k])
  <2>1. \A k \in 1..n : k \in 0..n /\ k - 1 \in 0..n
    OBVIOUS
  <2> HIDE DEF read, base, r
  <2> QED BY <1>9, <1>11, <2>1
<1>14. Matching(p, f) = r[n]
  <2>1. n \in 0..n
    OBVIOUS
  <2> HIDE DEF read, r
  <2> QED BY <1>0, <1>1, <1>11, <2>1
<1> HIDE DEF read, r
<1> QED BY <1>0, <1>10, <1>11, <1>12, <1>13, <1>14
-----------------------------------------------------------------------------
LEMMA CostEmpty == Cost(<< >>) = 0
<1>1. PICK n \in Nat : n = 0
  OBVIOUS
<1>2. Total(Amounts(<< >>), n) = 0
  <2>1. PICK w : w = Amounts(<< >>)
    OBVIOUS
  <2>2. \A k \in 1..n : w[k] \in Int
    BY <1>1
  <2> QED BY <1>1, <2>1, <2>2, TotalUnfolded
<1> QED BY <1>1, <1>2 DEF Cost

LEMMA CostTyped == \A xs \in Seq(AnyLots) : Cost(xs) \in Int
<1> SUFFICES ASSUME NEW xs \in Seq(AnyLots) PROVE Cost(xs) \in Int
  OBVIOUS
<1>1. PICK n \in Nat : n = Len(xs)
  OBVIOUS
<1>2. PICK w : w = Amounts(xs)
  OBVIOUS
<1>3. \A k \in 1..n : w[k] \in Int
  BY <1>1, <1>2, LotTyped DEF Amounts
<1>4. Total(w, n) \in Int
  BY <1>3, TotalUnfolded
<1> QED BY <1>1, <1>2, <1>4 DEF Cost

LEMMA CostAppend ==
  ASSUME NEW xs \in Seq(AnyLots), NEW x \in AnyLots
  PROVE  Cost(Append(xs, x)) = Cost(xs) + Spent(x)
<1>1. PICK n \in Nat : n = Len(xs)
  OBVIOUS
<1>2. PICK ys \in Seq(AnyLots) : ys = Append(xs, x)
  <2>1. Append(xs, x) \in Seq(AnyLots)
    OBVIOUS
  <2> QED BY <2>1
<1>3. Len(ys) = n + 1 /\ ys[n + 1] = x /\ \A k \in 1..n : ys[k] = xs[k]
  BY <1>1, <1>2
<1>4. PICK v : v = Amounts(xs)
  OBVIOUS
<1>5. PICK w : w = Amounts(ys)
  OBVIOUS
<1>6. PICK m \in Nat : m = n + 1
  OBVIOUS
<1>7. \A k \in 1..m : w[k] \in Int /\ w[k] = Spent(ys[k])
  BY <1>3, <1>5, <1>6, LotTyped DEF Amounts
<1>8. \A k \in 1..n : w[k] \in Int /\ v[k] = w[k]
  <2>1. \A k \in 1..n : v[k] = Spent(xs[k])
    BY <1>1, <1>4 DEF Amounts
  <2>2. \A k \in 1..n : k \in 1..m
    BY <1>6
  <2> QED BY <1>3, <1>7, <2>1, <2>2
<1>9. Total(w, m) = Total(w, m - 1) + w[m]
  BY <1>6, <1>7, TotalUnfolded
<1>10. m - 1 = n /\ m \in 1..m
  BY <1>6
<1>11. Total(w, n) = Total(v, n)
  <2>1. Total(v, n) = Total(w, n)
    BY <1>8, TotalSame
  <2> QED BY <2>1
<1>12. w[m] = Spent(x)
  BY <1>3, <1>6, <1>7, <1>10
<1>13. Cost(ys) = Total(w, m) /\ Cost(xs) = Total(v, n)
  BY <1>1, <1>3, <1>4, <1>5, <1>6 DEF Cost
<1> QED BY <1>2, <1>9, <1>10, <1>11, <1>12, <1>13

LEMMA CostOfOne == \A x \in AnyLots : Cost(<<x>>) = Spent(x)
<1> SUFFICES ASSUME NEW x \in AnyLots PROVE Cost(<<x>>) = Spent(x)
  OBVIOUS
<1>1. PICK ys \in Seq(AnyLots) : ys = <<x>>
  <2>1. <<x>> \in Seq(AnyLots)
    OBVIOUS
  <2> QED BY <2>1
<1>2. PICK n \in Nat : n = 1
  OBVIOUS
<1>3. Len(ys) = n /\ ys[n] = x
  BY <1>1, <1>2
<1>4. PICK w : w = Amounts(ys)
  OBVIOUS
<1>5. \A k \in 1..n : w[k] \in Int /\ w[k] = Spent(ys[k])
  BY <1>3, <1>4, LotTyped DEF Amounts
<1>6. n - 1 = 0 /\ n # 0 /\ n \in 1..n
  BY <1>2
<1>7. Total(w, n) = Total(w, n - 1) + w[n] /\ Total(w, 0) = 0
  BY <1>5, <1>6, TotalUnfolded
<1>8. w[n] = Spent(x) /\ w[n] \in Int
  BY <1>3, <1>5, <1>6
<1>9. Total(w, n) = Spent(x)
  BY <1>6, <1>7, <1>8
<1>10. Cost(ys) = Total(w, n)
  BY <1>3, <1>4 DEF Cost
<1> QED BY <1>1, <1>9, <1>10

-----------------------------------------------------------------------------
\* What the rest of a fill is going to cost.
Due(f, n) == (IF f.side = "buy" THEN n ELSE -n) * f.price

\* A match of the first lots: the cost of what it left of them, net of the
\* profit it took, and what the rest of the fill will cost.
Balance(f, m) == Cost(m.lots) - m.realized + Due(f, m.left)

Reached(f, m, side) ==
  /\ m.left \in 0..f.qty
  /\ m.lots \in Seq(Lots) /\ \A k \in 1..Len(m.lots) : m.lots[k].side = side
  /\ m.fits => InRange(m.realized)
  /\ side # f.side /\ m.left # 0 => m.lots = << >>

LEMMA LotsAreLots == Lots \subseteq AnyLots /\ Seq(Lots) \subseteq Seq(AnyLots)
<1>1. Prices \subseteq Int
  BY FillsAssumption
<1>2. ASSUME NEW x \in Lots PROVE x \in AnyLots
  <2>1. /\ x = [side |-> x.side, qty |-> x.qty, price |-> x.price]
        /\ x.side \in Sides /\ x.qty \in Int /\ x.price \in Prices
    BY DEF Lots
  <2>2. x.price \in Int
    BY <1>1, <2>1
  <2> QED BY <2>1, <2>2 DEF AnyLots
<1> QED BY <1>2

\* What is asked of a fill, whoever it is from.
Fillable(f) ==
  /\ f.side \in Sides /\ f.price \in Prices
  /\ f.qty \in Nat \ {0} /\ f.fee \in Nat

LEMMA FillTyped ==
  ASSUME NEW f, Fillable(f)
  PROVE  /\ f.side \in Sides /\ f.price \in Prices /\ f.price \in Nat
         /\ f.qty \in Nat \ {0} /\ f.fee \in Nat
BY FillsAssumption DEF Fillable

LEMMA FillsAreFillable == \A f \in Fills : Fillable(f)
BY FillsAssumption DEF Fills, Fillable

LEMMA CloseReaches ==
  ASSUME NEW f, Fillable(f), NEW m \in Matches, NEW side \in Sides, Reached(f, m, side),
         NEW lot \in Lots, lot.side = side
  PROVE  Reached(f, Close(f, m, lot), side)
<1>1. /\ m.left \in Int /\ m.realized \in Int /\ m.fits \in BOOLEAN /\ m.lots \in Seq(Lots)
      /\ m = [left |-> m.left, realized |-> m.realized, fits |-> m.fits, lots |-> m.lots]
  BY DEF Matches, Reached
<1>2. lot.side \in Sides /\ lot.qty \in Nat /\ lot.qty # 0
  BY DEF Lots
<1>2a. f.qty \in Nat
  BY FillTyped
<1> DEFINE n == IF m.left < lot.qty THEN m.left ELSE lot.qty
           profit == Profit(lot.side, lot.price, f.price, n)
<1>3. n \in Int /\ 0 <= n /\ n <= m.left /\ n <= lot.qty /\ (n = m.left \/ n = lot.qty)
  BY <1>1, <1>2, <1>2a DEF Reached
<1>5. CASE m.lots # << >> \/ m.left = 0 \/ lot.side = f.side
  <2>1. PICK c : c = Close(f, m, lot)
    OBVIOUS
  <2>2. c = [m EXCEPT !.lots = Append(m.lots, lot)]
    BY <1>5, <2>1 DEF Close
  <2>3. c.left = m.left /\ c.realized = m.realized /\ c.fits = m.fits /\ c.lots = Append(m.lots, lot)
    BY <1>1, <2>2
  <2>4. Append(m.lots, lot) \in Seq(Lots)
    BY <1>1
  <2>5. \A k \in 1..Len(c.lots) : c.lots[k].side = side
    <3>1. PICK xs \in Seq(Lots) : xs = m.lots
      BY <1>1
    <3>2. \A k \in 1..Len(Append(xs, lot)) :
            Append(xs, lot)[k] = IF k <= Len(xs) THEN xs[k] ELSE lot
      OBVIOUS
    <3>3. \A k \in 1..Len(xs) : xs[k].side = side
      BY <3>1 DEF Reached
    <3> QED BY <2>3, <3>1, <3>2, <3>3
  <2>6. side # f.side /\ c.left # 0 => FALSE
    BY <1>5, <2>3 DEF Reached
  <2> QED BY <2>1, <2>3, <2>4, <2>5, <2>6 DEF Reached
<1>6. CASE ~(m.lots # << >> \/ m.left = 0 \/ lot.side = f.side)
  <2>1. PICK c : c = Close(f, m, lot)
    OBVIOUS
  <2>2. c =
          [left |-> m.left - n, realized |-> m.realized + profit,
           fits |-> m.fits /\ InRange(profit) /\ InRange(m.realized + profit),
           lots |-> IF n = lot.qty THEN << >> ELSE <<[lot EXCEPT !.qty = lot.qty - n]>>]
    BY <1>6, <2>1 DEF Close
  <2> HIDE DEF n, profit
  <2>3. m.left \in 0..f.qty
    BY DEF Reached
  <2>4. c.left \in 0..f.qty
    BY <1>2a, <1>3, <2>2, <2>3
  <2>5. c.fits => InRange(c.realized)
    BY <2>2
  <2>6. CASE n = lot.qty
    <3>1. c.lots = << >>
      BY <2>2, <2>6
    <3> QED BY <2>1, <2>4, <2>5, <3>1 DEF Reached
  <2>7. CASE n # lot.qty
    <3>1. c.left = 0
      BY <1>3, <2>2, <2>7, <2>3
    <3>2. lot.qty - n \in Nat \ {0}
      BY <1>2, <1>3, <2>7
    <3>3. PICK l : l = [lot EXCEPT !.qty = lot.qty - n]
      OBVIOUS
    <3>4. l \in Lots /\ l.side = side
      BY <3>2, <3>3 DEF Lots
    <3>5. c.lots = <<l>>
      BY <2>2, <2>7, <3>3
    <3>6. c.lots \in Seq(Lots) /\ \A k \in 1..Len(c.lots) : c.lots[k].side = side
      BY <3>4, <3>5
    <3> QED BY <2>1, <2>4, <2>5, <3>1, <3>6 DEF Reached
  <2> QED BY <2>6, <2>7
<1> QED BY <1>5, <1>6

LEMMA CloseBalances ==
  ASSUME NEW f, Fillable(f), NEW m \in Matches, NEW side \in Sides, Reached(f, m, side),
         NEW lot \in Lots, lot.side = side
  PROVE  Balance(f, Close(f, m, lot)) = Balance(f, m) + Spent(lot)
<1>1. /\ m.left \in Int /\ m.realized \in Int /\ m.fits \in BOOLEAN /\ m.lots \in Seq(AnyLots)
      /\ m = [left |-> m.left, realized |-> m.realized, fits |-> m.fits, lots |-> m.lots]
  BY DEF Matches
<1>2. lot \in AnyLots /\ lot.side \in Sides /\ lot.qty \in Int /\ lot.price \in Int
  BY LotsAreLots DEF AnyLots
<1>3. f.side \in Sides /\ f.price \in Int
  BY FillTyped
<1> DEFINE n == IF m.left < lot.qty THEN m.left ELSE lot.qty
           profit == Profit(lot.side, lot.price, f.price, n)
<1>4. n \in Int /\ (n = m.left \/ n = lot.qty)
  BY <1>1, <1>2
<1>5. Cost(m.lots) \in Int /\ Spent(lot) \in Int /\ \A k \in Int : Due(f, k) \in Int
  BY <1>1, <1>2, <1>3, CostTyped, SMTT(60) DEF Spent, Signed, Due
<1>6. CASE m.lots # << >> \/ m.left = 0 \/ lot.side = f.side
  <2>1. PICK c : c = Close(f, m, lot)
    OBVIOUS
  <2>2. c = [m EXCEPT !.lots = Append(m.lots, lot)]
    BY <1>6, <2>1 DEF Close
  <2>3. c.left = m.left /\ c.realized = m.realized /\ c.lots = Append(m.lots, lot)
    BY <1>1, <2>2
  <2>4. Cost(Append(m.lots, lot)) = Cost(m.lots) + Spent(lot)
    BY <1>1, <1>2, CostAppend
  <2>5. Balance(f, c) = Cost(m.lots) + Spent(lot) - m.realized + Due(f, m.left)
    <3> HIDE DEF n, profit
    <3>1. Balance(f, c) = Cost(c.lots) - c.realized + Due(f, c.left)
      BY DEF Balance
    <3>2. Cost(c.lots) = Cost(m.lots) + Spent(lot)
      BY <2>3, <2>4, Zenon
    <3>3. Due(f, c.left) = Due(f, m.left) /\ c.realized = m.realized
      BY <2>3, Zenon
    <3>4. Due(f, m.left) \in Int
      BY <1>1, <1>5
    <3> QED BY <1>1, <1>5, <3>1, <3>2, <3>3, <3>4
  <2>6. Due(f, m.left) \in Int
    BY <1>1, <1>5
  <2> QED BY <1>1, <1>5, <2>1, <2>5, <2>6 DEF Balance
<1>7. CASE ~(m.lots # << >> \/ m.left = 0 \/ lot.side = f.side)
  <2>1. PICK c : c = Close(f, m, lot)
    OBVIOUS
  <2>2. c =
          [left |-> m.left - n, realized |-> m.realized + profit,
           fits |-> m.fits /\ InRange(profit) /\ InRange(m.realized + profit),
           lots |-> IF n = lot.qty THEN << >> ELSE <<[lot EXCEPT !.qty = lot.qty - n]>>]
    BY <1>7, <2>1 DEF Close
  <2>3. profit \in Int
    <3> HIDE DEF n
    <3> QED BY <1>2, <1>3, <1>4, ProfitTyped
  <2> DEFINE rest == (IF lot.side = "buy" THEN lot.qty - n ELSE -(lot.qty - n)) * lot.price
  <2>4. Cost(c.lots) = rest
    <3> HIDE DEF n, profit
    <3>1. CASE n = lot.qty
      <4>1. c.lots = << >>
        BY <2>2, <3>1
      <4>2. lot.qty - n = 0
        BY <1>2, <3>1
      <4>3. rest = 0
        BY <1>2, <4>2
      <4> QED BY <4>1, <4>3, CostEmpty
    <3>2. CASE n # lot.qty
      <4>1. PICK l : l = [lot EXCEPT !.qty = lot.qty - n]
        OBVIOUS
      <4>2. l \in AnyLots /\ l.side = lot.side /\ l.qty = lot.qty - n /\ l.price = lot.price
        BY <1>2, <1>4, <4>1 DEF AnyLots
      <4>3. c.lots = <<l>>
        BY <2>2, <3>2, <4>1
      <4>4. Spent(l) = rest
        BY <4>2 DEF Spent, Signed
      <4> QED BY <4>2, <4>3, <4>4, CostOfOne
    <3> QED BY <3>1, <3>2
  <2>5. c.left = m.left - n /\ c.realized = m.realized + profit
    <3> HIDE DEF n, profit
    <3> QED BY <2>2
  <2>6. rest - profit + Due(f, m.left - n) = Due(f, m.left) + Spent(lot)
    <3> HIDE DEF n
    <3>1. lot.side # f.side
      BY <1>7
    <3>2. PICK a \in Int : a = m.left
      BY <1>1
    <3>3. PICK b \in Int : b = lot.price
      BY <1>2
    <3>4. PICK p \in Int : p = f.price
      BY <1>3
    <3>5. PICK q \in Int : q = lot.qty
      BY <1>2
    <3>6. PICK k \in Int : k = n
      BY <1>4
    <3>7. /\ (q - k) * b - (p - b) * k + (-(a - k)) * p = (-a) * p + q * b
          /\ (-(q - k)) * b - (b - p) * k + (a - k) * p = a * p + (-q) * b
      OBVIOUS
    <3>8. CASE lot.side = "buy"
      <4>1. f.side # "buy"
        BY <3>1, <3>8
      <4> QED BY <3>2, <3>3, <3>4, <3>5, <3>6, <3>7, <3>8, <4>1 DEF Profit, Due, Spent, Signed
    <3>9. CASE lot.side # "buy"
      <4>1. f.side = "buy"
        BY <1>2, <1>3, <3>1, <3>9 DEF Sides
      <4> QED BY <3>2, <3>3, <3>4, <3>5, <3>6, <3>7, <3>9, <4>1 DEF Profit, Due, Spent, Signed
    <3> QED BY <3>8, <3>9
  <2>7. Cost(m.lots) = 0
    BY <1>7, CostEmpty
  <2>8. rest \in Int /\ Due(f, m.left - n) \in Int /\ Due(f, m.left) \in Int
    <3> HIDE DEF n
    <3> QED BY <1>1, <1>2, <1>4, <1>5, SMTT(60)
  <2> HIDE DEF n, profit, rest
  <2>9. Balance(f, c) = rest - (m.realized + profit) + Due(f, m.left - n)
    BY <2>4, <2>5 DEF Balance
  <2>10. Balance(f, m) = 0 - m.realized + Due(f, m.left)
    BY <2>7 DEF Balance
  <2> QED BY <1>1, <1>5, <2>1, <2>3, <2>6, <2>8, <2>9, <2>10, SMTT(60)
<1> QED BY <1>6, <1>7

\* The open lots are all of one side.
OneSided(xs, side) == \A k \in 1..Len(xs) : xs[k].side = side

LEMMA UnmatchedReached ==
  ASSUME NEW f, Fillable(f), NEW p, InRange(p.realized), NEW side \in Sides
  PROVE  /\ Unmatched(p, f) \in Matches /\ Reached(f, Unmatched(p, f), side)
         /\ p.realized \in Int /\ Due(f, f.qty) \in Int
         /\ Balance(f, Unmatched(p, f)) = Due(f, f.qty) - p.realized
<1>1. f.qty \in Nat /\ f.price \in Int
  BY FillTyped
<1>2. p.realized \in Int
  BY AmountsAssumption DEF InRange
<1>3. PICK m : m = Unmatched(p, f)
  OBVIOUS
<1>4. /\ m = [left |-> f.qty, realized |-> p.realized, fits |-> TRUE, lots |-> << >>]
      /\ m.left = f.qty /\ m.realized = p.realized /\ m.lots = << >>
  BY <1>3 DEF Unmatched
<1>5. m \in Matches
  BY <1>1, <1>2, <1>4 DEF Matches
<1>6. Reached(f, m, side)
  BY <1>1, <1>4 DEF Reached
<1>7. Due(f, f.qty) \in Int
  BY <1>1 DEF Due
<1>8. Balance(f, m) = Due(f, f.qty) - p.realized
  <2>1. Cost(m.lots) = 0 /\ Due(f, m.left) = Due(f, f.qty)
    BY <1>4, CostEmpty
  <2> QED BY <1>2, <1>4, <1>7, <2>1 DEF Balance
<1> QED BY <1>2, <1>3, <1>5, <1>6, <1>7, <1>8

LEMMA BalanceTyped ==
  ASSUME NEW f, Fillable(f), NEW m \in Matches
  PROVE  Balance(f, m) \in Int
<1>1. m.left \in Int /\ m.realized \in Int /\ m.lots \in Seq(AnyLots)
  BY DEF Matches
<1>2. f.price \in Int
  BY FillTyped
<1>3. Due(f, m.left) \in Int /\ Cost(m.lots) \in Int
  BY <1>1, <1>2, CostTyped DEF Due
<1> QED BY <1>1, <1>3 DEF Balance

LEMMA MatchingReaches ==
  ASSUME NEW f, Fillable(f), NEW p, p.lots \in Seq(Lots), InRange(p.realized),
         NEW side \in Sides, OneSided(p.lots, side)
  PROVE  /\ Matching(p, f) \in Matches /\ Reached(f, Matching(p, f), side)
         /\ Balance(f, Matching(p, f)) = Due(f, f.qty) - p.realized + Cost(p.lots)
<1>1. p.lots \in Seq(AnyLots) /\ f.price \in Int
  BY LotsAreLots, FillTyped
<1>2. PICK n \in Nat : n = Len(p.lots)
  BY <1>1, LotTyped
<1>3. PICK r : /\ r[0] = Unmatched(p, f)
               /\ \A k \in 0..n : r[k] \in Matches
               /\ \A k \in 1..n : r[k] = Close(f, r[k - 1], p.lots[k])
               /\ Matching(p, f) = r[n]
  BY <1>1, <1>2, MatchingFolded, UnmatchedReached
<1>4. PICK w : w = Amounts(p.lots)
  OBVIOUS
<1>5. \A k \in 1..n : /\ w[k] \in Int /\ w[k] = Spent(p.lots[k])
                      /\ p.lots[k] \in Lots /\ p.lots[k].side = side
  BY <1>1, <1>2, <1>4, LotTyped DEF Amounts, OneSided
<1>6. PICK c \in Int : c = Due(f, f.qty) - p.realized /\ Balance(f, r[0]) = c
  BY <1>3, UnmatchedReached
<1> DEFINE T == {k \in 0..n : ~(/\ Reached(f, r[k], side)
                                /\ Balance(f, r[k]) = c + Total(w, k))}
<1>7. 0 \notin T
  <2>1. Total(w, 0) = 0
    BY <1>5, TotalUnfolded
  <2>2. Reached(f, r[0], side)
    BY <1>3, UnmatchedReached
  <2> QED BY <1>6, <2>1, <2>2
<1>8. T = {}
  <2>1. SUFFICES ASSUME T # {} PROVE FALSE
    OBVIOUS
  <2>2. PICK k \in 1..n : k \in T /\ k - 1 \in 0..n /\ k - 1 \notin T
    <3>1. T \in SUBSET (0..n)
      OBVIOUS
    <3> HIDE DEF T
    <3> QED BY <1>7, <2>1, <3>1, FirstBad
  <2>3. PICK j \in 0..n : j = k - 1
    BY <2>2
  <2>4. Reached(f, r[j], side) /\ Balance(f, r[j]) = c + Total(w, j) /\ r[j] \in Matches
    BY <1>3, <2>2, <2>3
  <2>5. PICK lot \in Lots : lot = p.lots[k] /\ lot.side = side
    BY <1>5
  <2>6. Reached(f, Close(f, r[j], lot), side)
    BY <2>4, <2>5, CloseReaches
  <2>7. Balance(f, Close(f, r[j], lot)) = Balance(f, r[j]) + Spent(lot)
    BY <2>4, <2>5, CloseBalances
  <2>8. r[k] = Close(f, r[j], lot)
    BY <1>3, <2>3, <2>5
  <2>9. PICK i \in Nat : i = k
    OBVIOUS
  <2>10. \A a \in 1..i : w[a] \in Int
    BY <1>5, <2>9
  <2>11. Total(w, i) = Total(w, i - 1) + w[i] /\ i - 1 = j
    BY <2>3, <2>9, <2>10, TotalUnfolded
  <2>12. w[k] = Spent(lot) /\ w[k] \in Int
    BY <1>5, <2>5
  <2>13. Total(w, j) \in Int
    <3>1. j \in Nat /\ \A a \in 1..j : w[a] \in Int
      BY <1>5
    <3> QED BY <3>1, TotalUnfolded
  <2>14. Balance(f, r[k]) = c + Total(w, k)
    BY <2>4, <2>7, <2>8, <2>9, <2>11, <2>12, <2>13
  <2>15. Reached(f, r[k], side)
    BY <2>6, <2>8
  <2> QED BY <2>2, <2>14, <2>15
<1>9. n \in 0..n /\ n \notin T
  BY <1>8
<1>10. Reached(f, r[n], side) /\ Balance(f, r[n]) = c + Total(w, n) /\ r[n] \in Matches
  BY <1>3, <1>9
<1>11. Cost(p.lots) = Total(w, n)
  BY <1>2, <1>4 DEF Cost
<1> QED BY <1>3, <1>6, <1>10, <1>11

\* apply_buy_lot and apply_sell_lot leave lots of one side, which have cost
\* what the lots and the fill did and what the closed ones have earned.
LEMMA MatchedBalances ==
  ASSUME NEW f, Fillable(f), NEW p, p.lots \in Seq(Lots), InRange(p.realized),
         NEW side \in Sides, OneSided(p.lots, side)
  PROVE  /\ Matched(p, f).lots \in Seq(Lots)
         /\ \E s \in Sides : OneSided(Matched(p, f).lots, s)
         /\ Matched(p, f).fits => InRange(Matched(p, f).realized)
         /\ Matched(p, f).realized \in Int
         /\ Cost(Matched(p, f).lots) - Matched(p, f).realized
              = Due(f, f.qty) - p.realized + Cost(p.lots)
<1>1. PICK m \in Matches : m = Matching(p, f)
  BY MatchingReaches
<1>2. Reached(f, m, side) /\ Balance(f, m) = Due(f, f.qty) - p.realized + Cost(p.lots)
  BY <1>1, MatchingReaches
<1>3. /\ m.left \in Int /\ m.realized \in Int /\ m.fits \in BOOLEAN /\ m.lots \in Seq(AnyLots)
      /\ m = [left |-> m.left, realized |-> m.realized, fits |-> m.fits, lots |-> m.lots]
  BY DEF Matches
<1>4. PICK g : g = Matched(p, f)
  OBVIOUS
<1>5. g = [m EXCEPT !.lots = m.lots \o Opened(f, m)]
  BY <1>1, <1>4 DEF Matched, Matching
<1>6. g.realized = m.realized /\ g.fits = m.fits /\ g.lots = m.lots \o Opened(f, m)
  BY <1>3, <1>5
<1>7. PICK xs \in Seq(Lots) : xs = m.lots
  BY <1>2 DEF Reached
<1>8. f.side \in Sides /\ f.price \in Prices /\ f.price \in Nat /\ f.qty \in Nat
  BY FillTyped
<1>9. /\ g.lots \in Seq(Lots) /\ \E s \in Sides : OneSided(g.lots, s)
      /\ Cost(g.lots) = Cost(m.lots) + Due(f, m.left)
  <2>1. CASE m.left = 0
    <3>1. Opened(f, m) = << >>
      BY <2>1 DEF Opened
    <3>2. g.lots = xs
      BY <1>6, <1>7, <3>1
    <3>3. Due(f, m.left) = 0 /\ Cost(m.lots) \in Int
      BY <1>3, <1>8, <2>1, CostTyped DEF Due
    <3>4. OneSided(xs, side)
      BY <1>2, <1>7 DEF Reached, OneSided
    <3>5. Cost(g.lots) = Cost(m.lots)
      BY <1>7, <3>2
    <3>6. Cost(m.lots) = Cost(m.lots) + Due(f, m.left)
      BY <3>3
    <3> QED BY <3>2, <3>4, <3>5, <3>6
  <2>2. CASE m.left # 0
    <3>1. m.left \in Nat \ {0}
      BY <1>2, <1>8, <2>2 DEF Reached
    <3>2. PICK x : x = [side |-> f.side, qty |-> m.left, price |-> f.price]
      OBVIOUS
    <3>3. x \in Lots /\ x.side = f.side /\ x.qty = m.left /\ x.price = f.price
      BY <1>8, <3>1, <3>2 DEF Lots
    <3>4. Opened(f, m) = <<x>>
      BY <2>2, <3>2 DEF Opened
    <3>5. xs \o <<x>> = Append(xs, x)
      OBVIOUS
    <3>6. g.lots = Append(xs, x)
      BY <1>6, <1>7, <3>4, <3>5
    <3>7. x \in AnyLots /\ xs \in Seq(AnyLots)
      BY <1>3, <1>7, <3>3, LotsAreLots
    <3>8. Spent(x) = Due(f, m.left)
      BY <3>3 DEF Spent, Signed, Due
    <3>9. Cost(Append(xs, x)) = Cost(xs) + Spent(x)
      BY <3>7, CostAppend
    <3>10. OneSided(Append(xs, x), f.side)
      <4>1. \A k \in 1..Len(xs) : xs[k].side = f.side
        <5>1. CASE side = f.side
          BY <1>2, <1>7, <5>1 DEF Reached
        <5>2. CASE side # f.side
          <6>1. xs = << >>
            BY <1>2, <1>7, <2>2, <5>2 DEF Reached
          <6> QED BY <6>1
        <5> QED BY <5>1, <5>2
      <4>2. \A k \in 1..Len(Append(xs, x)) :
              Append(xs, x)[k] = IF k <= Len(xs) THEN xs[k] ELSE x
        BY <3>3
      <4> QED BY <3>3, <4>1, <4>2 DEF OneSided
    <3>11. Append(xs, x) \in Seq(Lots)
      BY <3>3
    <3>12. Cost(g.lots) = Cost(m.lots) + Due(f, m.left)
      BY <1>7, <3>6, <3>8, <3>9
    <3> QED BY <1>8, <3>6, <3>10, <3>11, <3>12
  <2> QED BY <2>1, <2>2
<1>10. g.fits => InRange(g.realized)
  BY <1>2, <1>6 DEF Reached
<1>11. Cost(m.lots) \in Int /\ Due(f, m.left) \in Int
  BY <1>3, <1>8, CostTyped DEF Due
<1>12. Cost(g.lots) - g.realized = Balance(f, m)
  BY <1>3, <1>6, <1>9, <1>11 DEF Balance
<1> QED BY <1>2, <1>3, <1>4, <1>6, <1>9, <1>10, <1>12

-----------------------------------------------------------------------------
\* What each open lot gains at a mid price is its value less its cost.
LEMMA GainsBalance ==
  ASSUME NEW xs \in Seq(AnyLots), NEW mid \in Int
  PROVE  Total(Gains(xs, mid), Len(xs)) = Position(xs) * mid - 2 * Cost(xs)
<1>1. PICK n \in Nat : n = Len(xs)
  BY LotTyped
<1>2. PICK g : g = Gains(xs, mid)
  OBVIOUS
<1>3. PICK q : q = SignedQtys(xs)
  OBVIOUS
<1>4. PICK w : w = Amounts(xs)
  OBVIOUS
<1>5. \A k \in 1..n : /\ g[k] \in Int /\ q[k] \in Int /\ w[k] \in Int
                      /\ g[k] = q[k] * mid - 2 * w[k]
  <2> SUFFICES ASSUME NEW k \in 1..n
               PROVE  /\ g[k] \in Int /\ q[k] \in Int /\ w[k] \in Int
                      /\ g[k] = q[k] * mid - 2 * w[k]
    OBVIOUS
  <2>1. PICK x \in AnyLots : x = xs[k]
    BY <1>1, LotTyped
  <2>2. x.side \in Sides /\ x.qty \in Int /\ x.price \in Int
    BY DEF AnyLots
  <2>3. g[k] = Profit(x.side, 2 * x.price, mid, x.qty) /\ q[k] = Signed(x) /\ w[k] = Spent(x)
    BY <1>1, <1>2, <1>3, <1>4, <2>1 DEF Gains, SignedQtys, Amounts
  <2>4. PICK a \in Int : a = x.qty
    BY <2>2
  <2>5. PICK b \in Int : b = x.price
    BY <2>2
  <2>6. /\ (mid - 2 * b) * a = a * mid - 2 * (a * b)
        /\ (2 * b - mid) * a = (-a) * mid - 2 * ((-a) * b)
    OBVIOUS
  <2>7. CASE x.side = "buy"
    <3>1. g[k] = (mid - 2 * b) * a /\ q[k] = a /\ w[k] = a * b
      BY <2>3, <2>4, <2>5, <2>7 DEF Profit, Spent, Signed
    <3> QED BY <2>6, <3>1
  <2>8. CASE x.side # "buy"
    <3>1. g[k] = (2 * b - mid) * a /\ q[k] = -a /\ w[k] = (-a) * b
      BY <2>3, <2>4, <2>5, <2>8 DEF Profit, Spent, Signed
    <3> QED BY <2>6, <3>1
  <2> QED BY <2>7, <2>8
<1> DEFINE T == {k \in 0..n : Total(g, k) # Total(q, k) * mid - 2 * Total(w, k)}
<1>6. 0 \notin T
  <2>1. Total(g, 0) = 0 /\ Total(q, 0) = 0 /\ Total(w, 0) = 0
    BY <1>5, TotalUnfolded
  <2> QED BY <2>1
<1>7. T = {}
  <2>1. SUFFICES ASSUME T # {} PROVE FALSE
    OBVIOUS
  <2>2. PICK k \in 1..n : k \in T /\ k - 1 \in 0..n /\ k - 1 \notin T
    <3>1. T \in SUBSET (0..n)
      OBVIOUS
    <3> HIDE DEF T
    <3> QED BY <1>6, <2>1, <3>1, FirstBad
  <2>3. PICK j \in Nat : j = k - 1
    BY <2>2
  <2>4. PICK i \in Nat : i = k /\ i # 0 /\ i - 1 = j
    BY <2>3
  <2>5. \A a \in 1..i : g[a] \in Int /\ q[a] \in Int /\ w[a] \in Int
    BY <1>5, <2>4
  <2>6. \A a \in 1..j : g[a] \in Int /\ q[a] \in Int /\ w[a] \in Int
    BY <1>5, <2>3
  <2>7. /\ Total(g, i) = Total(g, i - 1) + g[i] /\ Total(q, i) = Total(q, i - 1) + q[i]
        /\ Total(w, i) = Total(w, i - 1) + w[i]
    BY <2>4, <2>5, TotalUnfolded
  <2>8. Total(g, j) \in Int /\ Total(q, j) \in Int /\ Total(w, j) \in Int
    BY <2>6, TotalUnfolded
  <2>9. Total(g, j) = Total(q, j) * mid - 2 * Total(w, j)
    BY <2>2, <2>3
  <2>10. PICK tq \in Int : tq = Total(q, j)
    BY <2>8
  <2>11. PICK tw \in Int : tw = Total(w, j)
    BY <2>8
  <2>12. PICK a \in Int : a = q[i]
    BY <1>5, <2>4
  <2>13. PICK b \in Int : b = w[i]
    BY <1>5, <2>4
  <2>14. (tq * mid - 2 * tw) + (a * mid - 2 * b) = (tq + a) * mid - 2 * (tw + b)
    OBVIOUS
  <2>15. g[i] = a * mid - 2 * b
    BY <1>5, <2>4, <2>12, <2>13
  <2>16. Total(g, i) = (tq * mid - 2 * tw) + (a * mid - 2 * b)
    BY <2>4, <2>7, <2>9, <2>10, <2>11, <2>15
  <2>17. Total(q, i) = tq + a /\ Total(w, i) = tw + b
    BY <2>4, <2>7, <2>10, <2>11, <2>12, <2>13
  <2> QED BY <2>2, <2>4, <2>14, <2>16, <2>17
<1>8. Total(g, n) = Total(q, n) * mid - 2 * Total(w, n)
  BY <1>7
<1>9. Position(xs) = Total(q, n)
  BY <1>1, <1>3, PositionIsTotal
<1>10. Cost(xs) = Total(w, n)
  BY <1>1, <1>4 DEF Cost
<1> QED BY <1>1, <1>2, <1>8, <1>9, <1>10

LEMMA PositionTyped == \A xs \in Seq(AnyLots) : Position(xs) \in Int
<1> SUFFICES ASSUME NEW xs \in Seq(AnyLots) PROVE Position(xs) \in Int
  OBVIOUS
<1>1. PICK n \in Nat : n = Len(xs)
  BY LotTyped
<1>2. PICK q : q = SignedQtys(xs)
  OBVIOUS
<1>3. \A k \in 1..n : q[k] \in Int
  BY <1>1, <1>2, LotTyped DEF SignedQtys
<1>4. Total(q, n) \in Int
  BY <1>3, TotalUnfolded
<1> QED BY <1>1, <1>2, <1>4, PositionIsTotal

\* Lots of one side do not cancel out.
LEMMA FlatHasNoLots ==
  ASSUME NEW xs \in Seq(Lots), NEW side \in Sides, OneSided(xs, side), Position(xs) = 0
  PROVE  xs = << >>
<1>0. xs \in Seq(AnyLots)
  BY LotsAreLots
<1>1. PICK n \in Nat : n = Len(xs)
  OBVIOUS
<1>2. PICK q : q = SignedQtys(xs)
  OBVIOUS
<1>3. ASSUME NEW k \in 1..n
      PROVE  q[k] \in Int /\ (IF side = "buy" THEN q[k] >= 1 ELSE q[k] <= -1)
  <2>1. PICK x \in Lots : x = xs[k] /\ x.side = side
    BY <1>1 DEF OneSided
  <2>2. x.qty \in Nat \ {0}
    BY DEF Lots
  <2>3. q[k] = Signed(x)
    BY <1>1, <1>2, <2>1 DEF SignedQtys
  <2> QED BY <2>1, <2>2, <2>3 DEF Signed
<1> DEFINE T == {k \in 0..n : ~(IF side = "buy" THEN Total(q, k) >= k ELSE Total(q, k) <= -k)}
<1>4. 0 \notin T
  <2>1. Total(q, 0) = 0
    BY <1>3, TotalUnfolded
  <2> QED BY <2>1
<1>5. T = {}
  <2>1. SUFFICES ASSUME T # {} PROVE FALSE
    OBVIOUS
  <2>2. PICK k \in 1..n : k \in T /\ k - 1 \in 0..n /\ k - 1 \notin T
    <3>1. T \in SUBSET (0..n)
      OBVIOUS
    <3> HIDE DEF T
    <3> QED BY <1>4, <2>1, <3>1, FirstBad
  <2>3. PICK j \in Nat : j = k - 1
    BY <2>2
  <2>4. PICK i \in Nat : i = k /\ i # 0 /\ i - 1 = j
    BY <2>3
  <2>5. \A a \in 1..i : q[a] \in Int
    BY <1>3, <2>4
  <2>6. \A a \in 1..j : q[a] \in Int
    BY <1>3, <2>3
  <2>7. Total(q, i) = Total(q, i - 1) + q[i]
    BY <2>4, <2>5, TotalUnfolded
  <2>8. Total(q, j) \in Int
    BY <2>6, TotalUnfolded
  <2>9. IF side = "buy" THEN Total(q, j) >= j ELSE Total(q, j) <= -j
    BY <2>2, <2>3
  <2>10. q[i] \in Int /\ (IF side = "buy" THEN q[i] >= 1 ELSE q[i] <= -1)
    BY <1>3, <2>4
  <2>11. IF side = "buy" THEN Total(q, i) >= i ELSE Total(q, i) <= -i
    BY <2>4, <2>7, <2>8, <2>9, <2>10
  <2> QED BY <2>2, <2>4, <2>11
<1>6. n \in 0..n /\ n \notin T
  BY <1>5
<1>7. Total(q, n) = 0
  BY <1>0, <1>1, <1>2, PositionIsTotal
<1>8. Len(xs) = 0
  BY <1>1, <1>6, <1>7
<1> HIDE DEF T
<1> QED BY <1>8

\* The best price of a side with levels is one of its prices.
LEMMA BestIsPrice ==
  ASSUME NEW book, NEW side \in Sides, IsFiniteSet(DOMAIN book[side]),
         DOMAIN book[side] \subseteq Nat, DOMAIN book[side] # {}
  PROVE  BestPrice(book, side) \in Nat
<1>1. PICK S : S = DOMAIN book[side]
  OBVIOUS
<1> DEFINE Best(t, p) == \A q \in t : p = q \/ Better(side, p, q)
           Bad == {t \in SUBSET S : t # {} /\ ~ \E p \in t : Best(t, p)}
<1>2. ASSUME Bad # {} PROVE FALSE
  <2>1. PICK t \in Bad : \A r \in SUBSET t : r # t => r \notin Bad
    <3>1. IsFiniteSet(S) /\ Bad \in SUBSET SUBSET S
      BY <1>1
    <3> HIDE DEF Bad
    <3> QED BY <1>2, <3>1, MinimalSubset
  <2>2. PICK x \in t : TRUE
    OBVIOUS
  <2>3. PICK r : r = t \ {x}
    OBVIOUS
  <2>4. r \in SUBSET S /\ r \in SUBSET t /\ r # t /\ r \notin Bad /\ t \in SUBSET Nat
    BY <1>1, <2>1, <2>2, <2>3
  <2>5. r = {} \/ \E z \in r : Best(r, z)
    BY <2>4
  <2>6. \E z \in t : Best(t, z)
    <3>1. CASE r = {}
      <4>1. \A y \in t : y = x
        BY <2>3, <3>1
      <4> QED BY <4>1, <2>2
    <3>2. ASSUME NEW z \in r, Best(r, z) PROVE \E zz \in t : Best(t, zz)
      <4>1. x \in Nat /\ z \in Nat /\ z \in t /\ z # x /\ \A y \in t : y \in Nat /\ (y = x \/ y \in r)
        BY <2>2, <2>3, <2>4, <3>2
      <4>2. CASE Better(side, z, x)
        BY <3>2, <4>1, <4>2
      <4>3. CASE ~Better(side, z, x)
        <5>1. \A y \in r : y = z \/ Better(side, z, y)
          BY <3>2
        <5>2. \A y \in t : y = x \/ Better(side, x, y)
          BY <4>1, <4>3, <5>1 DEF Better
        <5> QED BY <2>2, <5>2
      <4> QED BY <4>2, <4>3
    <3> QED BY <2>5, <3>1, <3>2
  <2> QED BY <2>6
<1>3. \E p \in S : \A q \in S : p = q \/ Better(side, p, q)
  BY <1>1, <1>2
<1>4. BestPrice(book, side) \in S
  BY <1>1, <1>3 DEF BestPrice
<1> QED BY <1>1, <1>4

LEMMA MidTyped == \A book \in MarkBooks : TwoSided(book) => MidX2(book) \in Int
<1> SUFFICES ASSUME NEW book \in MarkBooks, TwoSided(book) PROVE MidX2(book) \in Int
  OBVIOUS
<1>1. "buy" \in Sides /\ "sell" \in Sides
  BY DEF Sides
<1>2. BestPrice(book, "buy") \in Nat
  BY <1>1, BestIsPrice, MarksAssumption DEF TwoSided
<1>3. BestPrice(book, "sell") \in Nat
  BY <1>1, BestIsPrice, MarksAssumption DEF TwoSided
<1> QED BY <1>2, <1>3 DEF MidX2

-----------------------------------------------------------------------------
\* The position through a match.

LEMMA PositionAppend ==
  ASSUME NEW xs \in Seq(AnyLots), NEW x \in AnyLots
  PROVE  Position(Append(xs, x)) = Position(xs) + Signed(x)
<1>1. PICK n \in Nat : n = Len(xs)
  OBVIOUS
<1>2. PICK ys \in Seq(AnyLots) : ys = Append(xs, x)
  <2>1. Append(xs, x) \in Seq(AnyLots)
    OBVIOUS
  <2> QED BY <2>1
<1>3. Len(ys) = n + 1 /\ ys[n + 1] = x /\ \A k \in 1..n : ys[k] = xs[k]
  BY <1>1, <1>2
<1>4. PICK v : v = SignedQtys(xs)
  OBVIOUS
<1>5. PICK w : w = SignedQtys(ys)
  OBVIOUS
<1>6. PICK m \in Nat : m = n + 1
  OBVIOUS
<1>7. \A k \in 1..m : w[k] \in Int /\ w[k] = Signed(ys[k])
  BY <1>3, <1>5, <1>6, LotTyped DEF SignedQtys
<1>8. \A k \in 1..n : w[k] \in Int /\ v[k] = w[k]
  <2>1. \A k \in 1..n : v[k] = Signed(xs[k])
    BY <1>1, <1>4 DEF SignedQtys
  <2>2. \A k \in 1..n : k \in 1..m
    BY <1>6
  <2> QED BY <1>3, <1>7, <2>1, <2>2
<1>9. Total(w, m) = Total(w, m - 1) + w[m]
  BY <1>6, <1>7, TotalUnfolded
<1>10. m - 1 = n /\ m \in 1..m
  BY <1>6
<1>11. Total(v, n) = Total(w, n)
  BY <1>8, TotalSame
<1>12. w[m] = Signed(x)
  BY <1>3, <1>6, <1>7, <1>10
<1>13. Position(ys) = Total(w, m) /\ Position(xs) = Total(v, n)
  BY <1>1, <1>3, <1>4, <1>5, <1>6, PositionIsTotal
<1> QED BY <1>2, <1>9, <1>10, <1>11, <1>12, <1>13

LEMMA PositionOfFew == Position(<< >>) = 0 /\ \A x \in AnyLots : Position(<<x>>) = Signed(x)
<1>1. << >> \in Seq(AnyLots)
  OBVIOUS
<1>2. Position(<< >>) = 0
  <2>1. PICK n \in Nat : n = 0 /\ Len(<< >>) = n
    OBVIOUS
  <2>2. PICK w : w = SignedQtys(<< >>)
    OBVIOUS
  <2>3. \A k \in 1..n : w[k] \in Int
    BY <2>1
  <2>4. Total(w, 0) = 0
    BY <2>3, TotalUnfolded
  <2> QED BY <1>1, <2>1, <2>2, <2>4, PositionIsTotal
<1>3. ASSUME NEW x \in AnyLots PROVE Position(<<x>>) = Signed(x)
  <2>1. PICK xs \in Seq(AnyLots) : xs = << >>
    BY <1>1
  <2>2. Append(xs, x) = <<x>>
    BY <2>1
  <2>3. Position(Append(xs, x)) = Position(xs) + Signed(x)
    BY PositionAppend
  <2>4. Signed(x) \in Int
    BY DEF Signed, AnyLots
  <2> QED BY <1>2, <2>1, <2>2, <2>3, <2>4
<1> QED BY <1>2, <1>3

\* A match of the first lots: the position it left and what the rest of the
\* fill will add to it.
Holding(f, m) == Position(m.lots) + (IF f.side = "buy" THEN m.left ELSE -m.left)

LEMMA CloseHolds ==
  ASSUME NEW f, Fillable(f), NEW m \in Matches, NEW lot \in AnyLots
  PROVE  Holding(f, m) \in Int /\ Holding(f, Close(f, m, lot)) = Holding(f, m) + Signed(lot)
<1>1. /\ m.left \in Int /\ m.realized \in Int /\ m.fits \in BOOLEAN /\ m.lots \in Seq(AnyLots)
      /\ m = [left |-> m.left, realized |-> m.realized, fits |-> m.fits, lots |-> m.lots]
  BY DEF Matches
<1>2. lot.side \in Sides /\ lot.qty \in Int /\ lot.price \in Int /\ f.side \in Sides /\ Signed(lot) \in Int
  BY FillTyped DEF AnyLots, Signed
<1>3. PICK held \in Int : held = Position(m.lots)
  BY <1>1, PositionTyped
<1>4. Holding(f, m) = held + (IF f.side = "buy" THEN m.left ELSE -m.left)
  BY <1>3 DEF Holding
<1> DEFINE n == IF m.left < lot.qty THEN m.left ELSE lot.qty
           profit == Profit(lot.side, lot.price, f.price, n)
<1>5. n \in Int
  BY <1>1, <1>2
<1>6. PICK c : c = Close(f, m, lot)
  OBVIOUS
<1>7. CASE m.lots # << >> \/ m.left = 0 \/ lot.side = f.side
  <2>1. c = [m EXCEPT !.lots = Append(m.lots, lot)]
    BY <1>6, <1>7 DEF Close
  <2>2. c.left = m.left /\ c.lots = Append(m.lots, lot)
    BY <1>1, <2>1
  <2>3. Position(c.lots) = held + Signed(lot)
    BY <1>1, <1>3, <2>2, PositionAppend
  <2> HIDE DEF n, profit
  <2>4. Holding(f, c) = held + Signed(lot) + (IF f.side = "buy" THEN m.left ELSE -m.left)
    BY <2>2, <2>3 DEF Holding
  <2> QED BY <1>1, <1>2, <1>4, <1>6, <2>4
<1>8. CASE ~(m.lots # << >> \/ m.left = 0 \/ lot.side = f.side)
  <2>1. c =
          [left |-> m.left - n, realized |-> m.realized + profit,
           fits |-> m.fits /\ InRange(profit) /\ InRange(m.realized + profit),
           lots |-> IF n = lot.qty THEN << >> ELSE <<[lot EXCEPT !.qty = lot.qty - n]>>]
    BY <1>6, <1>8 DEF Close
  <2> HIDE DEF n, profit
  <2>2. c.left = m.left - n /\ held = 0
    BY <1>3, <1>8, <2>1, PositionOfFew
  <2>3. Position(c.lots) = IF lot.side = "buy" THEN lot.qty - n ELSE -(lot.qty - n)
    <3>1. CASE n = lot.qty
      <4>1. c.lots = << >> /\ lot.qty - n = 0
        BY <1>2, <2>1, <3>1
      <4> QED BY <4>1, PositionOfFew
    <3>2. CASE n # lot.qty
      <4>1. PICK l : l = [lot EXCEPT !.qty = lot.qty - n]
        OBVIOUS
      <4>2. l \in AnyLots /\ l.side = lot.side /\ l.qty = lot.qty - n
        BY <1>2, <1>5, <4>1 DEF AnyLots
      <4>3. c.lots = <<l>>
        BY <2>1, <3>2, <4>1
      <4> QED BY <4>2, <4>3, PositionOfFew DEF Signed
    <3> QED BY <3>1, <3>2
  <2>4. Holding(f, c) = (IF lot.side = "buy" THEN lot.qty - n ELSE -(lot.qty - n))
                          + (IF f.side = "buy" THEN m.left - n ELSE -(m.left - n))
    BY <2>2, <2>3 DEF Holding
  <2>5. lot.side = "buy" <=> f.side # "buy"
    BY <1>2, <1>8 DEF Sides
  <2>6. Holding(f, c) = Signed(lot) + (IF f.side = "buy" THEN m.left ELSE -m.left)
    BY <1>1, <1>2, <1>5, <2>4, <2>5, SMTT(60) DEF Signed
  <2> QED BY <1>1, <1>2, <1>4, <1>6, <2>2, <2>6
<1>9. Holding(f, m) \in Int
  BY <1>1, <1>4
<1> QED BY <1>7, <1>8, <1>9

LEMMA MatchingHolds ==
  ASSUME NEW f, Fillable(f), NEW p, p.lots \in Seq(AnyLots), p.realized \in Int
  PROVE  /\ Matching(p, f) \in Matches
         /\ Holding(f, Matching(p, f)) = Position(p.lots) + Signed(f)
<1>1. f.price \in Int /\ f.qty \in Int /\ Signed(f) \in Int
  BY FillTyped DEF Signed
<1>2. PICK n \in Nat : n = Len(p.lots)
  BY LotTyped
<1>3. PICK m : m = Unmatched(p, f)
  OBVIOUS
<1>4. /\ m = [left |-> f.qty, realized |-> p.realized, fits |-> TRUE, lots |-> << >>]
      /\ m.left = f.qty /\ m.lots = << >>
  BY <1>3 DEF Unmatched
<1>5. m \in Matches /\ Holding(f, m) = Signed(f)
  <2>1. m \in Matches
    BY <1>1, <1>4 DEF Matches
  <2> QED BY <1>1, <1>4, <2>1, PositionOfFew DEF Holding, Signed
<1>6. PICK r : /\ r[0] = m
               /\ \A k \in 0..n : r[k] \in Matches
               /\ \A k \in 1..n : r[k] = Close(f, r[k - 1], p.lots[k])
               /\ Matching(p, f) = r[n]
  BY <1>1, <1>2, <1>3, <1>5, MatchingFolded
<1>7. PICK w : w = SignedQtys(p.lots)
  OBVIOUS
<1>8. \A k \in 1..n : w[k] \in Int /\ w[k] = Signed(p.lots[k]) /\ p.lots[k] \in AnyLots
  BY <1>2, <1>7, LotTyped DEF SignedQtys
<1> DEFINE T == {k \in 0..n : Holding(f, r[k]) # Signed(f) + Total(w, k)}
<1>9. 0 \notin T
  <2>1. Total(w, 0) = 0
    BY <1>8, TotalUnfolded
  <2> QED BY <1>1, <1>5, <1>6, <2>1
<1>10. T = {}
  <2>1. SUFFICES ASSUME T # {} PROVE FALSE
    OBVIOUS
  <2>2. PICK k \in 1..n : k \in T /\ k - 1 \in 0..n /\ k - 1 \notin T
    <3>1. T \in SUBSET (0..n)
      OBVIOUS
    <3> HIDE DEF T
    <3> QED BY <1>9, <2>1, <3>1, FirstBad
  <2>3. PICK j \in Nat : j = k - 1 /\ j \in 0..n
    BY <2>2
  <2>4. PICK i \in Nat : i = k /\ i # 0 /\ i - 1 = j
    BY <2>3
  <2>5. \A a \in 1..i : w[a] \in Int
    BY <1>8, <2>4
  <2>6. \A a \in 1..j : w[a] \in Int
    BY <1>8, <2>3
  <2>7. Total(w, i) = Total(w, j) + w[i] /\ Total(w, j) \in Int
    <3>1. Total(w, i) = Total(w, i - 1) + w[i]
      BY <2>4, <2>5, TotalUnfolded
    <3>2. Total(w, j) \in Int
      BY <2>6, TotalUnfolded
    <3> QED BY <2>4, <3>1, <3>2
  <2>8. Holding(f, r[j]) = Signed(f) + Total(w, j)
    BY <2>2, <2>3
  <2>9. PICK lot \in AnyLots : lot = p.lots[k] /\ w[i] = Signed(lot) /\ w[i] \in Int
    BY <1>8, <2>4
  <2>10. r[k] = Close(f, r[j], lot) /\ r[j] \in Matches
    BY <1>6, <2>3, <2>9
  <2>11. Holding(f, r[k]) = Holding(f, r[j]) + Signed(lot)
    BY <2>10, CloseHolds
  <2>12. Holding(f, r[k]) = Signed(f) + Total(w, i)
    BY <1>1, <2>7, <2>8, <2>9, <2>11
  <2> QED BY <2>2, <2>4, <2>12
<1>11. n \in 0..n /\ n \notin T
  BY <1>10
<1>12. Position(p.lots) = Total(w, n) /\ Total(w, n) \in Int
  BY <1>2, <1>7, <1>8, PositionIsTotal, TotalUnfolded
<1>13. Holding(f, r[n]) = Signed(f) + Total(w, n) /\ r[n] \in Matches
  BY <1>6, <1>11
<1> QED BY <1>1, <1>6, <1>12, <1>13

\* apply_buy_lot and apply_sell_lot change the position by exactly the fill.
LEMMA MatchedHolds ==
  ASSUME NEW f, Fillable(f), NEW p, p.lots \in Seq(AnyLots), p.realized \in Int
  PROVE  Position(Matched(p, f).lots) = Position(p.lots) + Signed(f)
<1>1. PICK m \in Matches : m = Matching(p, f) /\ Holding(f, m) = Position(p.lots) + Signed(f)
  BY MatchingHolds
<1>2. /\ m.left \in Int /\ m.lots \in Seq(AnyLots)
      /\ m = [left |-> m.left, realized |-> m.realized, fits |-> m.fits, lots |-> m.lots]
  BY DEF Matches
<1>3. Matched(p, f) = [m EXCEPT !.lots = m.lots \o Opened(f, m)]
  BY <1>1 DEF Matched, Matching
<1>4. Matched(p, f).lots = m.lots \o Opened(f, m)
  BY <1>2, <1>3
<1>5. PICK xs \in Seq(AnyLots) : xs = m.lots
  BY <1>2
<1>6. CASE m.left = 0
  <2>1. Opened(f, m) = << >>
    BY <1>6 DEF Opened
  <2>2. Matched(p, f).lots = xs /\ Position(xs) \in Int
    BY <1>4, <1>5, <2>1, PositionTyped
  <2> QED BY <1>1, <1>5, <1>6, <2>2 DEF Holding
<1>7. CASE m.left # 0
  <2>1. PICK x : x = [side |-> f.side, qty |-> m.left, price |-> f.price]
    OBVIOUS
  <2>2. x \in AnyLots /\ Opened(f, m) = <<x>>
    BY <1>2, <1>7, <2>1, FillTyped DEF Opened, AnyLots
  <2>3. xs \o <<x>> = Append(xs, x)
    BY <2>2
  <2>4. Position(Append(xs, x)) = Position(xs) + Signed(x)
    BY <2>2, PositionAppend
  <2>5. Signed(x) = IF f.side = "buy" THEN m.left ELSE -m.left
    BY <2>1 DEF Signed
  <2> QED BY <1>1, <1>4, <1>5, <2>2, <2>3, <2>4, <2>5 DEF Holding
<1> QED BY <1>6, <1>7

\* Portfolios whose ledger lists fills from ledgered, with what matching needs.
Sound(ledgered) ==
  {p \in [cash : Int, realized : Int, fees : Int, turnover : Int,
          lots : Seq(Lots), ledger : Seq(ledgered)] :
     InRange(p.realized) /\ \E side \in Sides : OneSided(p.lots, side)}

LEMMA AppliedSound ==
  ASSUME NEW ledgered, NEW f \in ledgered, Fillable(f), NEW p \in Sound(ledgered), Acceptable(p, f)
  PROVE  /\ Applied(p, f) \in Sound(ledgered)
         /\ Position(Applied(p, f).lots) = Position(p.lots) + Signed(f)
         /\ Position(p.lots) \in Int /\ Signed(f) \in Int
         /\ Applied(p, f).cash = p.cash - (IF f.side = "buy" THEN Notional(f) ELSE -Notional(f)) - f.fee
         /\ Notional(f) \in Int
         /\ Applied(p, f).ledger = Append(p.ledger, f)
<1>1. /\ p.cash \in Int /\ p.realized \in Int /\ p.fees \in Int /\ p.turnover \in Int
      /\ p.lots \in Seq(Lots) /\ p.ledger \in Seq(ledgered) /\ InRange(p.realized)
  BY DEF Sound
<1>2. PICK side \in Sides : OneSided(p.lots, side)
  BY DEF Sound
<1>3. f.side \in Sides /\ f.price \in Int /\ f.qty \in Int /\ f.fee \in Int
  BY FillTyped
<1>4. Notional(f) \in Int /\ Signed(f) \in Int
  BY <1>3 DEF Notional, Signed
<1>5. PICK m : m = Matched(p, f)
  OBVIOUS
<1>6. /\ m.lots \in Seq(Lots) /\ \E s \in Sides : OneSided(m.lots, s)
      /\ m.realized \in Int /\ InRange(m.realized)
  <2>1. m.fits
    BY <1>5 DEF Acceptable
  <2> QED BY <1>1, <1>2, <1>5, <2>1, MatchedBalances
<1>7. p.lots \in Seq(AnyLots)
  BY <1>1, LotsAreLots
<1>8. Position(m.lots) = Position(p.lots) + Signed(f) /\ Position(p.lots) \in Int
  BY <1>1, <1>5, <1>7, MatchedHolds, PositionTyped
<1>9. PICK q : q = Applied(p, f)
  OBVIOUS
<1>10. q = [cash |-> Paid(p, f) - f.fee, realized |-> m.realized, lots |-> m.lots,
            fees |-> p.fees + f.fee, turnover |-> p.turnover + Notional(f), ledger |-> Append(p.ledger, f)]
  BY <1>5, <1>9 DEF Applied
<1>11. Paid(p, f) = p.cash - (IF f.side = "buy" THEN Notional(f) ELSE -Notional(f)) /\ Paid(p, f) \in Int
  BY <1>1, <1>4 DEF Paid
<1>12. q \in Sound(ledgered)
  <2>1. Append(p.ledger, f) \in Seq(ledgered)
    BY <1>1
  <2>2. q.realized = m.realized /\ q.lots = m.lots
    BY <1>10
  <2>3. q \in [cash : Int, realized : Int, fees : Int, turnover : Int,
               lots : Seq(Lots), ledger : Seq(ledgered)]
    <3>1. /\ Paid(p, f) - f.fee \in Int /\ p.fees + f.fee \in Int
          /\ p.turnover + Notional(f) \in Int
      BY <1>1, <1>3, <1>4, <1>11, SMTT(60)
    <3> QED BY <1>6, <1>10, <2>1, <3>1, Zenon
  <2> QED BY <1>6, <2>2, <2>3 DEF Sound
<1>13. q.cash = Paid(p, f) - f.fee /\ q.lots = m.lots /\ q.ledger = Append(p.ledger, f)
  BY <1>10
<1> QED BY <1>4, <1>8, <1>9, <1>11, <1>12, <1>13

-----------------------------------------------------------------------------
\* Cash is what was paid in and earned, less the fees and the cost of the open
\* lots, and these are of one side.  AccountingIdentity does not carry itself
\* through a fill: it says nothing of the lots one by one.
BooksBalance(p) == p.cash = InitialCash + p.realized - p.fees - Cost(p.lots)

PortfolioInv ==
  /\ PortfolioTypeOK
  /\ \E side \in Sides : OneSided(portfolio.lots, side)
  /\ BooksBalance(portfolio)

LEMMA RangeIsInt == \A n : InRange(n) => n \in Int
BY AmountsAssumption DEF InRange

LEMMA PortfolioInit == Init => PortfolioInv
<1> SUFFICES ASSUME Init PROVE PortfolioInv
  OBVIOUS
<1>1. PICK p : p = portfolio
  OBVIOUS
<1>2. /\ p.cash = InitialCash /\ p.realized = 0 /\ p.fees = 0 /\ p.turnover = 0
      /\ p.lots = << >> /\ p.ledger = << >>
  BY <1>1 DEF Init, NewPortfolio
<1>3. InRange(0) /\ InRange(InitialCash) /\ 0 \in 0..MaxAmount
  BY AmountsAssumption DEF InRange
<1>4. PortfolioTypeOK
  BY <1>1, <1>2, <1>3 DEF PortfolioTypeOK
<1>5. \E side \in Sides : OneSided(p.lots, side)
  <2>1. Len(p.lots) = 0 /\ "buy" \in Sides
    BY <1>2 DEF Sides
  <2> QED BY <2>1 DEF OneSided
<1>6. BooksBalance(p)
  BY <1>2, <1>3, CostEmpty, RangeIsInt DEF BooksBalance
<1> QED BY <1>1, <1>4, <1>5, <1>6 DEF PortfolioInv

LEMMA ApplyBalances ==
  ASSUME PortfolioInv, NEW f \in Fills, ApplyFill(f)
  PROVE  PortfolioInv'
<1>1. PICK p : p = portfolio
  OBVIOUS
<1>2. /\ InRange(p.cash) /\ InRange(p.realized)
      /\ p.fees \in 0..MaxAmount /\ p.turnover \in 0..MaxAmount
      /\ p.lots \in Seq(Lots) /\ p.ledger \in Seq(Fills)
      /\ \A i, j \in 1..Len(p.ledger) : p.ledger[i].seq = p.ledger[j].seq => i = j
  BY <1>1 DEF PortfolioInv, PortfolioTypeOK
<1>3. PICK side \in Sides : OneSided(p.lots, side)
  BY <1>1 DEF PortfolioInv
<1>4. Acceptable(p, f) /\ portfolio' = Applied(p, f)
  BY <1>1 DEF ApplyFill
<1>5. /\ Fillable(f)
      /\ f.side \in Sides /\ f.price \in Nat /\ f.qty \in Nat /\ f.fee \in Nat
  BY FillsAreFillable, FillTyped
<1>6. PICK m : m = Matched(p, f)
  OBVIOUS
<1>7. /\ m.lots \in Seq(Lots) /\ \E s \in Sides : OneSided(m.lots, s)
      /\ m.fits => InRange(m.realized)
      /\ m.realized \in Int
      /\ Cost(m.lots) - m.realized = Due(f, f.qty) - p.realized + Cost(p.lots)
  BY <1>2, <1>3, <1>5, <1>6, MatchedBalances
<1>8. /\ \A k \in 1..Len(p.ledger) : p.ledger[k].seq # f.seq
      /\ InRange(Paid(p, f) - f.fee) /\ m.fits
      /\ InRange(p.fees + f.fee) /\ InRange(p.turnover + Notional(f))
  BY <1>4, <1>6 DEF Acceptable
<1>9. PICK q : q = Applied(p, f)
  OBVIOUS
<1>10. /\ q.cash = Paid(p, f) - f.fee /\ q.realized = m.realized /\ q.lots = m.lots
       /\ q.fees = p.fees + f.fee /\ q.turnover = p.turnover + Notional(f)
       /\ q.ledger = Append(p.ledger, f)
  BY <1>6, <1>9 DEF Applied
<1>11. InRange(q.cash) /\ InRange(q.realized)
  BY <1>7, <1>8, <1>10
<1>12. Notional(f) \in Nat
  <2>1. f.price * f.qty \in Nat
    BY <1>5
  <2> QED BY <2>1 DEF Notional
<1>13. q.fees \in 0..MaxAmount /\ q.turnover \in 0..MaxAmount
  <2>1. f.fee \in Nat /\ p.fees \in Nat /\ p.turnover \in Nat /\ MaxAmount \in Nat
    BY <1>2, <1>5, AmountsAssumption
  <2>2. q.fees <= MaxAmount /\ q.turnover <= MaxAmount
    BY <1>8, <1>10 DEF InRange
  <2> QED BY <1>10, <1>12, <2>1, <2>2, SMTT(60)
<1>14. q.ledger \in Seq(Fills)
  BY <1>2, <1>10
<1>15. \A i, j \in 1..Len(q.ledger) : q.ledger[i].seq = q.ledger[j].seq => i = j
  <2>1. PICK xs \in Seq(Fills) : xs = p.ledger
    BY <1>2
  <2>2. PICK n \in Nat : n = Len(xs)
    OBVIOUS
  <2>3. PICK ys : ys = Append(xs, f)
    OBVIOUS
  <2>4. Len(ys) = n + 1 /\ ys[n + 1] = f /\ \A k \in 1..n : ys[k] = xs[k]
    BY <2>2, <2>3
  <2>5. \A k \in 1..n : ys[k].seq # f.seq
    BY <1>8, <2>1, <2>2, <2>4
  <2>6. \A i, j \in 1..n : ys[i].seq = ys[j].seq => i = j
    BY <1>2, <2>1, <2>2, <2>4, SMTT(60)
  <2>7. \A i \in 1..(n + 1) : i \in 1..n \/ i = n + 1
    BY <2>2
  <2>8. \A i, j \in 1..(n + 1) : ys[i].seq = ys[j].seq => i = j
    BY <2>4, <2>5, <2>6, <2>7
  <2> QED BY <1>10, <2>1, <2>3, <2>4, <2>8
<1>16. BooksBalance(q)
  <2>1. p.cash = InitialCash + p.realized - p.fees - Cost(p.lots)
    BY <1>1 DEF PortfolioInv, BooksBalance
  <2>2. Due(f, f.qty) = IF f.side = "buy" THEN Notional(f) ELSE -Notional(f)
    BY <1>5 DEF Due, Notional
  <2>3. Cost(p.lots) \in Int /\ Cost(m.lots) \in Int
    BY <1>2, <1>7, LotsAreLots, CostTyped
  <2>4. /\ p.cash \in Int /\ p.realized \in Int /\ p.fees \in Int /\ InitialCash \in Int
    BY <1>2, RangeIsInt, AmountsAssumption
  <2>5. PICK d \in Int : d = Notional(f)
    BY <1>12
  <2>6. PICK a \in Int : a = Cost(p.lots)
    BY <2>3
  <2>7. PICK b \in Int : b = Cost(m.lots)
    BY <2>3
  <2>7a. p.cash = InitialCash + p.realized - p.fees - a
    BY <2>1, <2>6
  <2>7b. m.realized \in Int /\ f.fee \in Int
    BY <1>5, <1>7
  <2>8. CASE f.side = "buy"
    <3>1. Due(f, f.qty) = d /\ Paid(p, f) = p.cash - d
      BY <2>2, <2>5, <2>8 DEF Paid
    <3>2. b - m.realized = d - p.realized + a
      BY <1>7, <2>6, <2>7, <3>1
    <3>3. p.cash - d - f.fee = InitialCash + m.realized - (p.fees + f.fee) - b
      BY <2>4, <2>7a, <2>7b, <3>2
    <3> QED BY <1>10, <2>7, <3>1, <3>3 DEF BooksBalance
  <2>9. CASE f.side # "buy"
    <3>1. Due(f, f.qty) = -d /\ Paid(p, f) = p.cash + d
      BY <2>2, <2>5, <2>9 DEF Paid
    <3>2. b - m.realized = -d - p.realized + a
      BY <1>7, <2>6, <2>7, <3>1
    <3>3. p.cash + d - f.fee = InitialCash + m.realized - (p.fees + f.fee) - b
      BY <2>4, <2>5, <2>6, <2>7, <2>7a, <2>7b, <3>2
    <3>4. q.cash = p.cash + d - f.fee
      BY <1>5, <1>10, <2>4, <3>1
    <3> QED BY <1>10, <2>7, <3>3, <3>4 DEF BooksBalance
  <2> QED BY <2>8, <2>9
<1>17. portfolio' = q
  BY <1>4, <1>9
<1>18. PortfolioTypeOK'
  <2>1. q.lots \in Seq(Lots)
    BY <1>7, <1>10
  <2> QED BY <1>11, <1>13, <1>14, <1>15, <1>17, <2>1 DEF PortfolioTypeOK
<1>19. (\E s \in Sides : OneSided(portfolio.lots, s))'
  BY <1>7, <1>10, <1>17 DEF OneSided
<1>20. BooksBalance(portfolio)'
  BY <1>16, <1>17 DEF BooksBalance
<1> QED BY <1>18, <1>19, <1>20 DEF PortfolioInv

LEMMA PortfolioStep == PortfolioInv /\ [Next]_portfolio => PortfolioInv'
<1> SUFFICES ASSUME PortfolioInv, [Next]_portfolio PROVE PortfolioInv'
  OBVIOUS
<1>1. ASSUME NEW f \in Fills, ApplyFill(f) PROVE PortfolioInv'
  BY <1>1, ApplyBalances
<1>2. CASE UNCHANGED portfolio
  BY <1>2 DEF PortfolioInv, PortfolioTypeOK, OneSided, BooksBalance
<1>3. ASSUME NEW f \in Fills, RejectFill(f) PROVE PortfolioInv'
  BY <1>2, <1>3 DEF RejectFill
<1> QED BY <1>1, <1>2, <1>3 DEF Next

LEMMA BalanceGivesIdentity == PortfolioInv => AccountingIdentity
<1> SUFFICES ASSUME PortfolioInv, NEW book \in MarkBooks, HasMark(portfolio, book)
             PROVE  EquityX2(portfolio, book) - 2 * InitialCash = NetProfitX2(portfolio, book)
  BY DEF AccountingIdentity
<1>1. PICK p : p = portfolio
  OBVIOUS
<1>2. p.lots \in Seq(Lots) /\ p.lots \in Seq(AnyLots)
  BY <1>1, LotsAreLots DEF PortfolioInv, PortfolioTypeOK
<1>3. /\ p.cash \in Int /\ p.realized \in Int /\ p.fees \in Int /\ InitialCash \in Int
  BY <1>1, RangeIsInt, AmountsAssumption DEF PortfolioInv, PortfolioTypeOK
<1>4. p.cash = InitialCash + p.realized - p.fees - Cost(p.lots)
  BY <1>1 DEF PortfolioInv, BooksBalance
<1>5. PICK c \in Int : c = Cost(p.lots)
  BY <1>2, CostTyped
<1>6. InventoryX2(p, book) \in Int /\ InventoryX2(p, book) - 2 * c = OpenProfitX2(p, book)
  <2>1. CASE Markable(book)
    <3>1. PICK mid \in Int : mid = MidX2(book)
      BY <2>1, MidTyped DEF Markable
    <3>2. PICK x \in Int : x = Position(p.lots)
      BY <1>2, PositionTyped
    <3>3. UnrealizedX2(p, book, Len(p.lots)) = Total(Gains(p.lots, mid), Len(p.lots))
      BY <1>2, <3>1, UnrealizedIsTotal
    <3>4. Total(Gains(p.lots, mid), Len(p.lots)) = x * mid - 2 * c
      BY <1>2, <1>5, <3>2, GainsBalance
    <3>5. InventoryX2(p, book) = x * mid
      BY <2>1, <3>1, <3>2 DEF InventoryX2
    <3>6. OpenProfitX2(p, book) = x * mid - 2 * c
      BY <2>1, <3>3, <3>4 DEF OpenProfitX2
    <3> QED BY <3>5, <3>6
  <2>2. CASE ~Markable(book)
    <3>1. Position(p.lots) = 0
      BY <1>1, <2>2 DEF HasMark
    <3>2. PICK side \in Sides : OneSided(p.lots, side)
      BY <1>1 DEF PortfolioInv
    <3>3. p.lots = << >>
      BY <1>2, <3>1, <3>2, FlatHasNoLots
    <3>4. c = 0
      BY <1>5, <3>3, CostEmpty
    <3> QED BY <2>2, <3>4 DEF InventoryX2, OpenProfitX2
  <2> QED BY <2>1, <2>2
<1>7. PICK i \in Int : i = InventoryX2(p, book)
  BY <1>6
<1>8. (2 * p.cash + i) - 2 * InitialCash = 2 * p.realized + (i - 2 * c) - 2 * p.fees
  BY <1>3, <1>4, <1>5
<1> QED BY <1>1, <1>6, <1>7, <1>8 DEF EquityX2, NetProfitX2

LEMMA PortfolioInvariant == Spec => []PortfolioInv
BY PortfolioInit, PortfolioStep, PTL DEF Spec

(* Whatever fills are offered in whatever order, cash, realized profit,    *)
(* fees and turnover stay within the accounting range, every open lot has  *)
(* a quantity and a price, and the ledger holds each sequence id once.     *)
THEOREM PortfolioTypeCorrect == Spec => []PortfolioTypeOK
<1>1. PortfolioInv => PortfolioTypeOK
  BY DEF PortfolioInv
<1> QED BY <1>1, PortfolioInvariant, PTL

(* docs/accounting.md:97 for all fills and books: equity has moved by      *)
(* exactly realized plus unrealized profit less fees, through partial      *)
(* closes and changes between long and short.                              *)
THEOREM IdentityCorrect == Spec => []AccountingIdentity
BY PortfolioInvariant, BalanceGivesIdentity, PTL

-----------------------------------------------------------------------------
(* Units. *)

Repeated(n, x)     == [k \in 1..n |-> x]
Grown(side, us, x) == IF x.side = side THEN us \o Repeated(x.qty, x.price) ELSE us

\* What has a quantity and a price: fills and lots.
Countable(T) == \A x \in T : x.qty \in Nat /\ x.price \in Int

LEMMA RepeatedTyped ==
  ASSUME NEW n \in Nat, NEW x \in Int
  PROVE  /\ Repeated(n, x) \in Seq(Int) /\ Len(Repeated(n, x)) = n
         /\ \A k \in 1..n : Repeated(n, x)[k] = x
<1>1. [k \in 1..n |-> x] \in Seq(Int) /\ Len([k \in 1..n |-> x]) = n
  OBVIOUS
<1> QED BY <1>1 DEF Repeated

LEMMA GrownTyped ==
  ASSUME NEW side, NEW us \in Seq(Int), NEW x, x.qty \in Nat, x.price \in Int
  PROVE  Grown(side, us, x) \in Seq(Int)
<1>1. PICK r \in Seq(Int) : r = Repeated(x.qty, x.price)
  BY RepeatedTyped
<1>2. us \o r \in Seq(Int)
  OBVIOUS
<1> QED BY <1>1, <1>2 DEF Grown

LEMMA UnitsFolded ==
  ASSUME NEW side, NEW T, Countable(T), NEW xs \in Seq(T)
  PROVE  \E u : /\ u[0] = << >>
                /\ \A k \in 0..Len(xs) : u[k] \in Seq(Int)
                /\ \A k \in 1..Len(xs) : u[k] = Grown(side, u[k - 1], xs[k])
                /\ Units(side, xs) = u[Len(xs)]
<1>0. PICK n \in Nat : n = Len(xs) /\ DOMAIN xs = 1..n
  OBVIOUS
<1> DEFINE Read(g) == [s \in SUBSET (DOMAIN xs) |->
                         IF s = {} THEN << >> ELSE Grown(side, g[s \ {Max(s)}], xs[Max(s)])]
           read == CHOOSE g : g = Read(g)
           h == [q \in Seq(Int) \X (1..n) |-> Grown(side, q[1], xs[q[2]])]
<1>1. Units(side, xs) = read[DOMAIN xs]
  BY DEF Units, FoldLeft, MapThenFoldSet, Grown, Repeated
<1>2. \A i \in 1..n : xs[i].qty \in Nat /\ xs[i].price \in Int
  BY <1>0 DEF Countable
<1>3. \A v \in Seq(Int) : \A i \in 1..n : h[<<v, i>>] = Grown(side, v, xs[i])
  OBVIOUS
<1>4. \A v \in Seq(Int) : \A i \in 1..n : h[<<v, i>>] \in Seq(Int)
  <2> SUFFICES ASSUME NEW v \in Seq(Int), NEW i \in 1..n PROVE h[<<v, i>>] \in Seq(Int)
    OBVIOUS
  <2> HIDE DEF h
  <2>1. PICK x : x = xs[i] /\ x.qty \in Nat /\ x.price \in Int
    BY <1>2
  <2>2. Grown(side, v, x) \in Seq(Int)
    BY <2>1, GrownTyped
  <2> QED BY <1>3, <2>1, <2>2
<1>5. PICK g : Folds(g, h, << >>, SUBSET (1..n))
  <2> HIDE DEF h
  <2> QED BY FoldExists
<1>6. \A s \in SUBSET (1..n) : g[s] \in Seq(Int)
  <2> HIDE DEF h
  <2>1. << >> \in Seq(Int)
    OBVIOUS
  <2> QED BY <1>4, <1>5, <2>1, FoldTyped
<1>7. g = Read(g)
  <2> HIDE DEF h
  <2>1. \A s \in SUBSET (1..n) : s # {} =>
          h[<<g[s \ {Max(s)}], Max(s)>>] = Grown(side, g[s \ {Max(s)}], xs[Max(s)])
    <3> SUFFICES ASSUME NEW s \in SUBSET (1..n), s # {}
                 PROVE  h[<<g[s \ {Max(s)}], Max(s)>>] = Grown(side, g[s \ {Max(s)}], xs[Max(s)])
      OBVIOUS
    <3>1. Max(s) \in 1..n /\ g[s \ {Max(s)}] \in Seq(Int)
      BY <1>6, LastPlace, FewerPlaces
    <3> QED BY <1>3, <3>1
  <2>2. g = [s \in SUBSET (1..n) |-> IF s = {} THEN << >> ELSE h[<<g[s \ {Max(s)}], Max(s)>>]]
    BY <1>5 DEF Folds
  <2> QED BY <1>0, <2>1, <2>2
<1>8. read = Read(read)
  <2> HIDE DEF Read
  <2> QED BY <1>7
<1>9. /\ read[{}] = << >>
      /\ \A k \in 1..n : read[1..k] = Grown(side, read[1..(k - 1)], xs[k])
  <2>1. \A s \in SUBSET (1..n) :
          Read(read)[s] = IF s = {} THEN << >> ELSE Grown(side, read[s \ {Max(s)}], xs[Max(s)])
    <3> HIDE DEF read
    <3> QED BY <1>0
  <2>2. \A s \in SUBSET (1..n) :
          read[s] = IF s = {} THEN << >> ELSE Grown(side, read[s \ {Max(s)}], xs[Max(s)])
    <3> HIDE DEF read, Read
    <3> QED BY <1>8, <2>1
  <2> HIDE DEF read, Read
  <2> QED BY <2>2, PrefixPlaces
<1>10. \A k \in 0..n : read[1..k] \in Seq(Int)
  <2>1. read[{}] \in Seq(Int)
    <3> HIDE DEF read
    <3> QED BY <1>9
  <2>2. \A k \in 1..n : read[1..(k - 1)] \in Seq(Int) => read[1..k] \in Seq(Int)
    <3> HIDE DEF read
    <3> QED BY <1>2, <1>9, GrownTyped, SMTT(60)
  <2> HIDE DEF read
  <2> QED BY <2>1, <2>2, PrefixTyped
<1> DEFINE u == [k \in 0..n |-> read[1..k]]
<1>11. \A k \in 0..n : u[k] = read[1..k]
  OBVIOUS
<1>12. u[0] = << >>
  <2>1. 1..0 = {} /\ 0 \in 0..n
    OBVIOUS
  <2> HIDE DEF read, u
  <2> QED BY <1>9, <1>11, <2>1
<1>13. \A k \in 1..n : u[k] = Grown(side, u[k - 1], xs[k])
  <2>1. \A k \in 1..n : k \in 0..n /\ k - 1 \in 0..n
    OBVIOUS
  <2> HIDE DEF read, u
  <2> QED BY <1>9, <1>11, <2>1
<1>14. Units(side, xs) = u[n]
  <2>1. n \in 0..n
    OBVIOUS
  <2> HIDE DEF read, u
  <2> QED BY <1>0, <1>1, <1>11, <2>1
<1> HIDE DEF read, u
<1> QED BY <1>0, <1>10, <1>11, <1>12, <1>13, <1>14

LEMMA UnitsTyped ==
  ASSUME NEW side, NEW T, Countable(T), NEW xs \in Seq(T)
  PROVE  Units(side, xs) \in Seq(Int)
<1>1. PICK u : (\A k \in 0..Len(xs) : u[k] \in Seq(Int)) /\ Units(side, xs) = u[Len(xs)]
  BY UnitsFolded
<1>2. Len(xs) \in 0..Len(xs)
  OBVIOUS
<1> QED BY <1>1, <1>2

LEMMA UnitsOfNone == \A side : Units(side, << >>) = << >>
<1> SUFFICES ASSUME NEW side PROVE Units(side, << >>) = << >>
  OBVIOUS
<1>1. PICK T : T = {}
  OBVIOUS
<1>2. PICK xs \in Seq(T) : xs = << >>
  <2>1. << >> \in Seq(T)
    OBVIOUS
  <2> QED BY <2>1
<1>3. Countable(T)
  BY <1>1 DEF Countable
<1>4. PICK u : u[0] = << >> /\ Units(side, xs) = u[Len(xs)]
  BY <1>3, UnitsFolded
<1>5. Len(xs) = 0
  BY <1>2
<1> QED BY <1>2, <1>4, <1>5

LEMMA UnitsAppend ==
  ASSUME NEW side, NEW T, Countable(T), NEW xs \in Seq(T), NEW x \in T
  PROVE  Units(side, Append(xs, x)) = Grown(side, Units(side, xs), x)
<1>1. PICK n \in Nat : n = Len(xs)
  OBVIOUS
<1>2. PICK ys \in Seq(T) : ys = Append(xs, x)
  <2>1. Append(xs, x) \in Seq(T)
    OBVIOUS
  <2> QED BY <2>1
<1>3. Len(ys) = n + 1 /\ ys[n + 1] = x /\ \A k \in 1..n : ys[k] = xs[k]
  BY <1>1, <1>2
<1>4. PICK u : /\ u[0] = << >>
               /\ \A k \in 1..n : u[k] = Grown(side, u[k - 1], xs[k])
               /\ Units(side, xs) = u[n]
  BY <1>1, UnitsFolded
<1>5a. PICK m : m = n + 1
  OBVIOUS
<1>5b. Len(ys) = m /\ m \in Nat
  BY <1>1, <1>3, <1>5a
<1>5. PICK v : /\ v[0] = << >>
               /\ \A k \in 1..m : v[k] = Grown(side, v[k - 1], ys[k])
               /\ Units(side, ys) = v[m]
  BY <1>5b, UnitsFolded
<1> DEFINE B == {k \in 0..n : u[k] # v[k]}
<1>6. 0 \notin B
  BY <1>4, <1>5
<1>7. B = {}
  <2>1. SUFFICES ASSUME B # {} PROVE FALSE
    OBVIOUS
  <2>2. PICK k \in 1..n : k \in B /\ k - 1 \in 0..n /\ k - 1 \notin B
    <3>1. B \in SUBSET (0..n)
      OBVIOUS
    <3> HIDE DEF B
    <3> QED BY <1>6, <2>1, <3>1, FirstBad
  <2>3. u[k] = Grown(side, u[k - 1], xs[k]) /\ v[k] = Grown(side, v[k - 1], xs[k])
    <3>1. k \in 1..m
      BY <1>5a
    <3> QED BY <1>3, <1>4, <1>5, <3>1
  <2> QED BY <2>2, <2>3
<1>8. u[n] = v[n]
  BY <1>7
<1>9. v[n + 1] = Grown(side, v[n], x)
  <2>1. m \in 1..m /\ m - 1 = n
    BY <1>1, <1>5a
  <2> QED BY <1>3, <1>5, <1>5a, <2>1
<1> QED BY <1>2, <1>4, <1>5, <1>5a, <1>8, <1>9

-----------------------------------------------------------------------------
(* What is left of a sequence. *)

Rest(us, n) == SubSeq(us, n + 1, Len(us))

LEMMA RestTyped ==
  ASSUME NEW us \in Seq(Int), NEW n \in Nat, n <= Len(us)
  PROVE  /\ Rest(us, n) \in Seq(Int) /\ Len(Rest(us, n)) = Len(us) - n
         /\ \A k \in 1..(Len(us) - n) : Rest(us, n)[k] = us[n + k]
<1>1. \A k \in (n + 1)..Len(us) : us[k] \in Int
  OBVIOUS
<1> QED BY <1>1 DEF Rest

\* The same with the lengths named.
LEMMA RestElements ==
  ASSUME NEW us \in Seq(Int), NEW n \in Nat, NEW c \in Nat, Len(us) = n + c
  PROVE  /\ Rest(us, n) \in Seq(Int) /\ Len(Rest(us, n)) = c
         /\ \A k \in 1..c : Rest(us, n)[k] = us[n + k]
<1>1. n <= Len(us) /\ Len(us) - n = c
  OBVIOUS
<1> QED BY <1>1, RestTyped

LEMMA SameUnits ==
  ASSUME NEW us \in Seq(Int), NEW vs \in Seq(Int), Len(us) = Len(vs),
         \A k \in 1..Len(us) : us[k] = vs[k]
  PROVE  us = vs
BY SMTT(60)

LEMMA IsRest ==
  ASSUME NEW us \in Seq(Int), NEW r \in Seq(Int), NEW n \in Nat, Len(us) = n + Len(r),
         \A k \in 1..Len(r) : r[k] = us[n + k]
  PROVE  Rest(us, n) = r
<1>1. Len(r) \in Nat /\ n <= Len(us) /\ Len(us) - n = Len(r)
  OBVIOUS
<1>2. PICK q : q = Rest(us, n)
  OBVIOUS
<1>3. q \in Seq(Int) /\ Len(q) = Len(us) - n /\ \A k \in 1..(Len(us) - n) : q[k] = us[n + k]
  BY <1>1, <1>2, RestTyped
<1>4. Len(q) = Len(r) /\ \A k \in 1..Len(q) : q[k] = r[k]
  BY <1>1, <1>3
<1> QED BY <1>2, <1>3, <1>4, SameUnits

LEMMA NothingLeft ==
  ASSUME NEW us \in Seq(Int), NEW n \in Nat, n >= Len(us)
  PROVE  Rest(us, n) = << >>
BY DEF Rest

LEMMA JoinedTyped ==
  ASSUME NEW us \in Seq(Int), NEW vs \in Seq(Int)
  PROVE  /\ us \o vs \in Seq(Int) /\ Len(us \o vs) = Len(us) + Len(vs)
         /\ Len(us) \in Nat /\ Len(vs) \in Nat
         /\ \A k \in 1..Len(us) : (us \o vs)[k] = us[k]
         /\ \A k \in 1..Len(vs) : (us \o vs)[Len(us) + k] = vs[k]
OBVIOUS

LEMMA RestOfBoth ==
  ASSUME NEW us \in Seq(Int), NEW vs \in Seq(Int), NEW n \in Nat, n <= Len(us)
  PROVE  Rest(us \o vs, n) = Rest(us, n) \o vs
<1>1. PICK a \in Nat : a = Len(us)
  OBVIOUS
<1>2. PICK b \in Nat : b = Len(vs)
  OBVIOUS
<1>3. PICK ws : ws = us \o vs
  OBVIOUS
<1>4. /\ ws \in Seq(Int) /\ Len(ws) = a + b
      /\ \A k \in 1..a : ws[k] = us[k]
      /\ \A k \in 1..b : ws[a + k] = vs[k]
  BY <1>1, <1>2, <1>3, JoinedTyped
<1>5. PICK r : r = Rest(us, n)
  OBVIOUS
<1>5a. PICK c : c = a - n
  OBVIOUS
<1>5b. c \in Nat /\ a = n + c
  BY <1>1, <1>5a
<1>6. r \in Seq(Int) /\ Len(r) = c /\ \A k \in 1..c : r[k] = us[n + k]
  <2>1. Len(us) = n + c
    BY <1>1, <1>5b
  <2>2. /\ Rest(us, n) \in Seq(Int) /\ Len(Rest(us, n)) = c
        /\ \A k \in 1..c : Rest(us, n)[k] = us[n + k]
    BY <1>5b, <2>1, RestElements, ZenonT(60)
  <2> QED BY <1>5, <2>2
<1>7. PICK t : t = r \o vs
  OBVIOUS
<1>9. /\ t \in Seq(Int) /\ Len(t) = c + b
      /\ \A k \in 1..c : t[k] = r[k]
      /\ \A k \in 1..b : t[c + k] = vs[k]
  BY <1>2, <1>5b, <1>6, <1>7, JoinedTyped, ZenonT(60)
<1>10. ASSUME NEW k \in 1..(c + b) PROVE t[k] = ws[n + k]
  <2>1. CASE k <= c
    <3>1. k \in 1..c /\ n + k \in 1..a
      BY <1>5b, <2>1
    <3> QED BY <1>4, <1>6, <1>5b, <1>9, <3>1
  <2>2. CASE ~(k <= c)
    <3>1. PICK i : i = k - c
      OBVIOUS
    <3>2. i \in 1..b /\ k = c + i /\ n + k = a + i
      BY <1>5b, <2>2, <3>1
    <3> QED BY <1>4, <1>9, <3>2
  <2> QED BY <2>1, <2>2
<1>11. Len(ws) = n + Len(t)
  BY <1>4, <1>5b, <1>9
<1>12. Rest(ws, n) = t
  BY <1>4, <1>9, <1>10, <1>11, IsRest
<1> QED BY <1>3, <1>5, <1>7, <1>12

LEMMA RestOfSecond ==
  ASSUME NEW us \in Seq(Int), NEW vs \in Seq(Int), NEW n \in Nat, n <= Len(vs)
  PROVE  Rest(us \o vs, Len(us) + n) = Rest(vs, n)
<1>1. PICK a \in Nat : a = Len(us)
  OBVIOUS
<1>2. PICK b \in Nat : b = Len(vs)
  OBVIOUS
<1>3. PICK ws : ws = us \o vs
  OBVIOUS
<1>4. /\ ws \in Seq(Int) /\ Len(ws) = a + b
      /\ \A k \in 1..b : ws[a + k] = vs[k]
  BY <1>1, <1>2, <1>3, JoinedTyped
<1>5. PICK r : r = Rest(vs, n)
  OBVIOUS
<1>5a. PICK d : d = b - n
  OBVIOUS
<1>5b. d \in Nat /\ b = n + d
  BY <1>2, <1>5a
<1>6. r \in Seq(Int) /\ Len(r) = d /\ \A k \in 1..d : r[k] = vs[n + k]
  <2>1. Len(vs) = n + d
    BY <1>2, <1>5b
  <2>2. /\ Rest(vs, n) \in Seq(Int) /\ Len(Rest(vs, n)) = d
        /\ \A k \in 1..d : Rest(vs, n)[k] = vs[n + k]
    BY <1>5b, <2>1, RestElements, ZenonT(60)
  <2> QED BY <1>5, <2>2
<1>7. PICK m \in Nat : m = a + n
  OBVIOUS
<1>8. ASSUME NEW k \in 1..Len(r) PROVE r[k] = ws[m + k]
  <2>1. n + k \in 1..b /\ m + k = a + (n + k) /\ k \in 1..d
    BY <1>5b, <1>6, <1>7, SMTT(60)
  <2> QED BY <1>4, <1>6, <2>1
<1>9. Len(ws) = m + Len(r)
  BY <1>4, <1>5b, <1>6, <1>7
<1>10. Rest(ws, m) = r
  BY <1>4, <1>6, <1>8, <1>9, IsRest
<1> QED BY <1>1, <1>3, <1>5, <1>7, <1>10

LEMMA RestOfRest ==
  ASSUME NEW us \in Seq(Int), NEW m \in Nat, NEW n \in Nat, m + n <= Len(us)
  PROVE  Rest(Rest(us, m), n) = Rest(us, m + n)
<1>1. PICK a \in Nat : a = Len(us)
  OBVIOUS
<1>2a. PICK d : d = a - (m + n)
  OBVIOUS
<1>2b. d \in Nat
  BY <1>1, <1>2a
<1>2. PICK c \in Nat : c = n + d
  BY <1>2b
<1>2c. Len(us) = m + c
  BY <1>1, <1>2a, <1>2b, <1>2
<1>3. PICK r : r = Rest(us, m)
  OBVIOUS
<1>4. r \in Seq(Int) /\ Len(r) = c /\ \A k \in 1..c : r[k] = us[m + k]
  <2>1. /\ Rest(us, m) \in Seq(Int) /\ Len(Rest(us, m)) = c
        /\ \A k \in 1..c : Rest(us, m)[k] = us[m + k]
    BY <1>2c, RestElements
  <2> QED BY <1>3, <2>1
<1>5. PICK q : q = Rest(r, n)
  OBVIOUS
<1>6. q \in Seq(Int) /\ Len(q) = d /\ \A k \in 1..d : q[k] = r[n + k]
  <2>1. Len(r) = n + d
    BY <1>2, <1>4
  <2>2. r \in Seq(Int)
    BY <1>4
  <2>3. /\ Rest(r, n) \in Seq(Int) /\ Len(Rest(r, n)) = d
        /\ \A k \in 1..d : Rest(r, n)[k] = r[n + k]
    BY <1>2b, <2>1, <2>2, RestElements, ZenonT(60)
  <2> QED BY <1>5, <2>3
<1>7. PICK i \in Nat : i = m + n
  OBVIOUS
<1>8. ASSUME NEW k \in 1..Len(q) PROVE q[k] = us[i + k]
  <2>1. k \in 1..d /\ n + k \in 1..c /\ m + (n + k) = i + k
    BY <1>2, <1>2b, <1>6, <1>7
  <2> QED BY <1>4, <1>6, <2>1
<1>9. Len(us) = i + Len(q)
  BY <1>2, <1>2b, <1>2c, <1>6, <1>7
<1>10. Rest(us, i) = q
  BY <1>6, <1>8, <1>9, IsRest
<1> QED BY <1>3, <1>5, <1>7, <1>10

LEMMA RestOfRepeated ==
  ASSUME NEW n \in Nat, NEW x \in Int, NEW k \in Nat, k <= n
  PROVE  Rest(Repeated(n, x), k) = Repeated(n - k, x)
<1>1. PICK us : us = Repeated(n, x)
  OBVIOUS
<1>2. us \in Seq(Int) /\ Len(us) = n /\ \A i \in 1..n : us[i] = x
  BY <1>1, RepeatedTyped
<1>3. PICK m \in Nat : m = n - k
  OBVIOUS
<1>4. PICK vs : vs = Repeated(m, x)
  OBVIOUS
<1>5. vs \in Seq(Int) /\ Len(vs) = m /\ \A i \in 1..m : vs[i] = x
  BY <1>4, RepeatedTyped
<1>6. ASSUME NEW i \in 1..Len(vs) PROVE vs[i] = us[k + i]
  <2>1. k + i \in 1..n /\ i \in 1..m
    BY <1>3, <1>5
  <2> QED BY <1>2, <1>5, <2>1
<1>7. Len(us) = k + Len(vs)
  BY <1>2, <1>3, <1>5
<1>8. Rest(us, k) = vs
  BY <1>2, <1>5, <1>6, <1>7, IsRest
<1> QED BY <1>1, <1>3, <1>4, <1>8

\* What a unit of a side earns, and what the units us do that are all left at exit.
Gain(side, entry, exit)   == IF side = "buy" THEN exit - entry ELSE entry - exit
UnitGains(side, us, exit) == [k \in 1..Len(us) |-> Gain(side, us[k], exit)]

LEMMA GainTyped ==
  ASSUME NEW side, NEW entry \in Int, NEW exit \in Int
  PROVE  Gain(side, entry, exit) \in Int
BY DEF Gain

\* A match of the first lots, which are the units u: as many units as it has
\* taken of the fill are closed, the first of u, and the lots are the others.
ClosedFirst(f, m, side, u, start) ==
  LET d == f.qty - m.left
  IN  /\ d <= Len(u) /\ (m.left # 0 => d = Len(u))
      /\ Units(side, m.lots) = Rest(u, d)
      /\ m.realized = start + Total(UnitGains(side, u, f.price), d)

LEMMA GainsTyped ==
  ASSUME NEW side, NEW us \in Seq(Int), NEW exit \in Int
  PROVE  \A k \in 1..Len(us) :
           /\ UnitGains(side, us, exit)[k] \in Int
           /\ UnitGains(side, us, exit)[k] = Gain(side, us[k], exit)
<1>1. \A k \in 1..Len(us) : Gain(side, us[k], exit) \in Int
  BY GainTyped
<1> QED BY <1>1 DEF UnitGains

\* Units that follow do not change what the first have earned.
LEMMA GainsKept ==
  ASSUME NEW side, NEW us \in Seq(Int), NEW vs \in Seq(Int), NEW exit \in Int,
         NEW d \in Nat, d <= Len(us)
  PROVE  /\ Total(UnitGains(side, us, exit), d) \in Int
         /\ Total(UnitGains(side, us \o vs, exit), d) = Total(UnitGains(side, us, exit), d)
<1>1. PICK a \in Nat : a = Len(us)
  OBVIOUS
<1>2. PICK b \in Nat : b = Len(vs)
  OBVIOUS
<1>3. PICK ws : ws = us \o vs
  OBVIOUS
<1>4. ws \in Seq(Int) /\ Len(ws) = a + b /\ \A k \in 1..a : ws[k] = us[k]
  BY <1>1, <1>2, <1>3, JoinedTyped
<1>5. PICK v : v = UnitGains(side, us, exit)
  OBVIOUS
<1>6. PICK w : w = UnitGains(side, ws, exit)
  OBVIOUS
<1>7. ASSUME NEW k \in 1..d PROVE v[k] \in Int /\ w[k] = v[k]
  <2>1. k \in 1..a /\ k \in 1..Len(us) /\ k \in 1..Len(ws)
    BY <1>1, <1>2, <1>4, SMTT(60)
  <2>2. v[k] \in Int /\ v[k] = Gain(side, us[k], exit)
    BY <1>5, <2>1, GainsTyped
  <2>3. w[k] = Gain(side, ws[k], exit)
    <3>1. \A i \in 1..Len(ws) : w[i] = Gain(side, ws[i], exit)
      BY <1>4, <1>6, GainsTyped
    <3> QED BY <2>1, <3>1
  <2> QED BY <1>4, <2>1, <2>2, <2>3
<1>8. Total(v, d) \in Int /\ Total(w, d) = Total(v, d)
  BY <1>7, TotalSame, TotalUnfolded
<1> QED BY <1>3, <1>5, <1>6, <1>8

\* Units of one price earn it each.
EarnsOn(side, us, vs, exit, x, n) ==
  Total(UnitGains(side, us \o vs, exit), Len(us) + n)
    = Total(UnitGains(side, us, exit), Len(us)) + Profit(side, x, exit, n)

LEMMA GainsGrow ==
  ASSUME NEW side, NEW us \in Seq(Int), NEW vs \in Seq(Int), NEW exit \in Int,
         NEW x \in Int, NEW n \in Nat, n <= Len(vs), \A k \in 1..n : vs[k] = x
  PROVE  EarnsOn(side, us, vs, exit, x, n)
<1>1. PICK a \in Nat : a = Len(us)
  OBVIOUS
<1>2. PICK q \in Nat : q = Len(vs)
  OBVIOUS
<1>3. n \in 0..q
  BY <1>2
<1>4. PICK ws : ws = us \o vs
  OBVIOUS
<1>5. /\ ws \in Seq(Int) /\ Len(ws) = a + q
      /\ \A k \in 1..q : ws[a + k] = vs[k]
  BY <1>1, <1>2, <1>4, JoinedTyped
<1>6. PICK w : w = UnitGains(side, ws, exit)
  OBVIOUS
<1>7. PICK c : c = Gain(side, x, exit)
  OBVIOUS
<1>8. c \in Int
  BY <1>7, GainTyped
<1>9. \A k \in 1..(a + q) : w[k] \in Int /\ w[k] = Gain(side, ws[k], exit)
  <2>1. \A k \in 1..Len(ws) : w[k] \in Int /\ w[k] = Gain(side, ws[k], exit)
    BY <1>5, <1>6, GainsTyped, ZenonT(60)
  <2> QED BY <1>5, <2>1
<1>10. PICK y : y = [k \in 1..n |-> c]
  OBVIOUS
<1>11. \A k \in 1..n : y[k] = c /\ y[k] \in Int
  BY <1>8, <1>10
<1>12. Total(y, n) = c * n /\ Total(y, n) = Profit(side, x, exit, n)
  <2>1. Total(y, n) = c * n
    BY <1>8, <1>11, TotalOfEqual
  <2> QED BY <1>7, <2>1 DEF Profit, Gain
<1>13. ASSUME NEW k \in 1..n PROVE w[a + k] = y[k]
  <2>1. a + k \in 1..(a + q) /\ k \in 1..q
    BY <1>3
  <2>2. ws[a + k] = x
    BY <1>5, <2>1
  <2>3. w[a + k] = Gain(side, ws[a + k], exit)
    BY <1>9, <2>1
  <2> QED BY <1>7, <1>11, <2>2, <2>3
<1>14. \A k \in 1..a : w[k] \in Int
  BY <1>9
<1>15. Total(w, a + n) = Total(w, a) + Total(y, n)
  BY <1>11, <1>13, <1>14, TotalJoined, SMTT(60)
<1>16. Total(w, a) = Total(UnitGains(side, us, exit), a)
  BY <1>1, <1>4, <1>6, GainsKept
<1> QED BY <1>1, <1>4, <1>6, <1>12, <1>15, <1>16 DEF EarnsOn

LEMMA UnitsOfOne ==
  ASSUME NEW lot \in AnyLots, lot.qty \in Nat
  PROVE  Units(lot.side, <<lot>>) = Repeated(lot.qty, lot.price)
<1>1. PICK T : T = {lot}
  OBVIOUS
<1>2. Countable(T) /\ lot \in T
  BY <1>1 DEF Countable, AnyLots
<1>3. PICK xs \in Seq(T) : xs = << >>
  <2>1. << >> \in Seq(T)
    OBVIOUS
  <2> QED BY <2>1
<1>4. Append(xs, lot) = <<lot>>
  BY <1>3
<1>5. Units(lot.side, <<lot>>) = Grown(lot.side, Units(lot.side, xs), lot)
  <2>1. Units(lot.side, Append(xs, lot)) = Grown(lot.side, Units(lot.side, xs), lot)
    BY <1>2, UnitsAppend
  <2> QED BY <1>4, <2>1
<1>6. Units(lot.side, xs) = << >>
  BY <1>3, UnitsOfNone
<1>7. Repeated(lot.qty, lot.price) \in Seq(Int)
  BY RepeatedTyped DEF AnyLots
<1>8. << >> \o Repeated(lot.qty, lot.price) = Repeated(lot.qty, lot.price)
  BY <1>7
<1> QED BY <1>5, <1>6, <1>8 DEF Grown

LEMMA LotsCountable == Countable(Lots) /\ \A T : (\A f \in T : Fillable(f)) => Countable(T)
<1>1. Countable(Lots)
  <2> SUFFICES ASSUME NEW x \in Lots PROVE x.qty \in Nat /\ x.price \in Int
    BY DEF Countable
  <2>1. x \in AnyLots
    BY LotsAreLots
  <2>2. x.qty \in Nat
    BY DEF Lots
  <2> QED BY <2>1, <2>2 DEF AnyLots
<1>2. \A T : (\A f \in T : Fillable(f)) => Countable(T)
  BY FillTyped DEF Countable
<1> QED BY <1>1, <1>2

LEMMA CloseByUnits ==
  ASSUME NEW f, Fillable(f), NEW m \in Matches, NEW side \in Sides, side # f.side,
         Reached(f, m, side), NEW lot \in Lots, lot.side = side,
         NEW u \in Seq(Int), NEW start \in Int, ClosedFirst(f, m, side, u, start)
  PROVE  ClosedFirst(f, Close(f, m, lot), side, u \o Repeated(lot.qty, lot.price), start)
<1>1. /\ m.left \in Int /\ m.realized \in Int /\ m.fits \in BOOLEAN /\ m.lots \in Seq(Lots)
      /\ m = [left |-> m.left, realized |-> m.realized, fits |-> m.fits, lots |-> m.lots]
  BY DEF Matches, Reached
<1>2. lot.side \in Sides /\ lot.qty \in Nat /\ lot.qty # 0 /\ lot.price \in Int
  <2>1. lot \in AnyLots
    BY LotsAreLots
  <2>2. lot.qty \in Nat \ {0}
    BY DEF Lots
  <2> QED BY <2>1, <2>2 DEF AnyLots
<1>3. f.qty \in Nat /\ f.price \in Int
  BY FillTyped
<1>4. PICK q \in Nat : q = lot.qty
  BY <1>2
<1>5. PICK r : r = Repeated(lot.qty, lot.price)
  OBVIOUS
<1>6. r \in Seq(Int) /\ Len(r) = q
  BY <1>2, <1>4, <1>5, RepeatedTyped
<1>7. PICK a \in Nat : a = Len(u)
  OBVIOUS
<1>8. PICK us : us = u \o r
  OBVIOUS
<1>9. us \in Seq(Int) /\ Len(us) = a + q
  BY <1>6, <1>7, <1>8, JoinedTyped
<1>10. m.left \in 0..f.qty
  BY DEF Reached
<1>11. PICK d : d = f.qty - m.left
  OBVIOUS
<1>12. d \in Nat
  BY <1>3, <1>10, <1>11
<1>13. /\ d <= a /\ (m.left # 0 => d = a) /\ Units(side, m.lots) = Rest(u, d)
       /\ m.realized = start + Total(UnitGains(side, u, f.price), d)
  BY <1>7, <1>11 DEF ClosedFirst
<1>14. PICK c : c = Close(f, m, lot)
  OBVIOUS
<1>15. PICK total : total = Total(UnitGains(side, u, f.price), d)
  OBVIOUS
<1>16. total \in Int /\ Total(UnitGains(side, us, f.price), d) = total
  <2>1. d <= Len(u)
    BY <1>7, <1>13
  <2> QED BY <1>3, <1>6, <1>8, <1>12, <1>15, <2>1, GainsKept
<1> DEFINE n == IF m.left < lot.qty THEN m.left ELSE lot.qty
           profit == Profit(lot.side, lot.price, f.price, n)
<1>17. CASE m.lots # << >> \/ m.left = 0
  <2>1. c = [m EXCEPT !.lots = Append(m.lots, lot)]
    BY <1>14, <1>17 DEF Close
  <2>2. c.left = m.left /\ c.realized = m.realized /\ c.lots = Append(m.lots, lot)
    BY <1>1, <2>1
  <2> HIDE DEF n, profit
  <2>3. m.left = 0
    BY <1>17 DEF Reached
  <2>4. Units(side, c.lots) = Units(side, m.lots) \o r
    <3>1. Units(side, Append(m.lots, lot)) = Grown(side, Units(side, m.lots), lot)
      BY <1>1, LotsCountable, UnitsAppend
    <3> QED BY <1>5, <2>2, <3>1 DEF Grown
  <2>5. Rest(us, d) = Rest(u, d) \o r
    BY <1>6, <1>7, <1>8, <1>12, <1>13, RestOfBoth
  <2>6. f.qty - c.left = d /\ d <= Len(us)
    BY <1>9, <1>11, <1>12, <1>13, <2>2
  <2>7. c.realized = start + Total(UnitGains(side, us, f.price), d)
    BY <1>13, <1>15, <1>16, <2>2
  <2>8. ClosedFirst(f, c, side, us, start)
    BY <1>13, <2>2, <2>3, <2>4, <2>5, <2>6, <2>7 DEF ClosedFirst
  <2> QED BY <1>5, <1>8, <1>14, <2>8
<1>18. CASE ~(m.lots # << >> \/ m.left = 0)
  <2>1. c =
          [left |-> m.left - n, realized |-> m.realized + profit,
           fits |-> m.fits /\ InRange(profit) /\ InRange(m.realized + profit),
           lots |-> IF n = lot.qty THEN << >> ELSE <<[lot EXCEPT !.qty = lot.qty - n]>>]
    BY <1>14, <1>18 DEF Close
  <2>2. /\ n \in 0..q /\ (n = m.left \/ n = q) /\ n <= m.left
    BY <1>2, <1>3, <1>4, <1>10
  <2>3. profit = Profit(side, lot.price, f.price, n)
    OBVIOUS
  <2> HIDE DEF n, profit
  <2>4. /\ c.left = m.left - n /\ c.realized = m.realized + profit
        /\ c.lots = IF n = lot.qty THEN << >> ELSE <<[lot EXCEPT !.qty = lot.qty - n]>>
    BY <2>1
  <2>5. d = a /\ d = Len(u)
    BY <1>7, <1>13, <1>18
  <2>6. PICK i \in Nat : i = d + n
    BY <1>12, <2>2
  <2>7. f.qty - c.left = i /\ i <= Len(us) /\ (c.left # 0 => i = Len(us))
    <3>1. f.qty - c.left = i
      BY <1>1, <1>3, <1>11, <2>2, <2>4, <2>6
    <3>2. i <= a + q
      BY <1>12, <2>2, <2>5, <2>6
    <3>3. ASSUME c.left # 0 PROVE i = a + q
      <4>1. n # m.left
        BY <1>1, <2>4, <3>3
      <4>2. n = q
        BY <2>2, <4>1
      <4> QED BY <2>5, <2>6, <4>2
    <3> QED BY <1>9, <3>1, <3>2, <3>3
  <2>8. c.realized = start + Total(UnitGains(side, us, f.price), i)
    <3>1. Total(UnitGains(side, us, f.price), d + n) = total + profit
      <4>1. \A k \in 1..n : r[k] = lot.price
        <5>1. \A k \in 1..lot.qty : r[k] = lot.price
          BY <1>2, <1>5, RepeatedTyped
        <5> QED BY <1>4, <2>2, <5>1, SMTT(60)
      <4>2. n \in Nat /\ n <= Len(r)
        BY <1>6, <2>2
      <4>3. EarnsOn(side, u, r, f.price, lot.price, n)
        BY <1>2, <1>3, <1>6, <4>1, <4>2, GainsGrow
      <4> QED BY <1>8, <1>15, <2>3, <2>5, <4>3 DEF EarnsOn
    <3>2. profit \in Int
      BY <1>2, <1>3, <2>2, <2>3, ProfitTyped
    <3> QED BY <1>13, <1>15, <1>16, <2>4, <2>6, <3>1, <3>2
  <2>9. Units(side, c.lots) = Rest(us, i)
    <3>1. Rest(us, Len(u) + n) = Rest(r, n)
      BY <1>6, <1>8, <2>2, RestOfSecond
    <3>2. PICK b \in Nat : b = lot.qty - n
      BY <1>2, <1>4, <2>2
    <3>3. Rest(r, n) = Repeated(b, lot.price)
      <4>1. n \in Nat /\ n <= lot.qty
        BY <1>4, <2>2
      <4> QED BY <1>2, <1>5, <3>2, <4>1, RestOfRepeated
    <3>4. CASE n = lot.qty
      <4>1. Units(side, c.lots) = << >>
        BY <2>4, <3>4, UnitsOfNone
      <4>2. Rest(r, n) = << >>
        BY <1>4, <1>6, <3>4, NothingLeft
      <4> QED BY <2>5, <2>6, <3>1, <4>1, <4>2
    <3>5. CASE n # lot.qty
      <4>1. PICK l : l = [lot EXCEPT !.qty = lot.qty - n]
        OBVIOUS
      <4>2. l \in AnyLots /\ l.side = side /\ l.qty = b /\ l.price = lot.price
        <5>1. lot = [side |-> lot.side, qty |-> lot.qty, price |-> lot.price]
          BY DEF Lots
        <5>2. l = [side |-> lot.side, qty |-> b, price |-> lot.price]
          BY <3>2, <4>1, <5>1
        <5> QED BY <1>2, <5>2 DEF AnyLots
      <4>3. Units(side, <<l>>) = Repeated(b, lot.price)
        BY <4>2, UnitsOfOne
      <4>4. c.lots = <<l>>
        BY <2>4, <3>5, <4>1
      <4> QED BY <2>5, <2>6, <3>1, <3>3, <4>3, <4>4
    <3> QED BY <3>4, <3>5
  <2>10. ClosedFirst(f, c, side, us, start)
    BY <2>7, <2>8, <2>9 DEF ClosedFirst
  <2> QED BY <1>5, <1>8, <1>14, <2>10
<1> QED BY <1>17, <1>18

\* Lots that are all of a side have no units of the other.
LEMMA UnitsOfOther ==
  ASSUME NEW xs \in Seq(Lots), NEW side, NEW other, side # other, OneSided(xs, side)
  PROVE  Units(other, xs) = << >>
<1>1. PICK n \in Nat : n = Len(xs)
  OBVIOUS
<1>2. PICK u : /\ u[0] = << >>
               /\ \A k \in 1..n : u[k] = Grown(other, u[k - 1], xs[k])
               /\ Units(other, xs) = u[n]
  BY <1>1, LotsCountable, UnitsFolded
<1> DEFINE T == {k \in 0..n : u[k] # << >>}
<1>3. 0 \notin T
  BY <1>2
<1>4. T = {}
  <2>1. SUFFICES ASSUME T # {} PROVE FALSE
    OBVIOUS
  <2>2. PICK k \in 1..n : k \in T /\ k - 1 \in 0..n /\ k - 1 \notin T
    <3>1. T \in SUBSET (0..n)
      OBVIOUS
    <3> HIDE DEF T
    <3> QED BY <1>3, <2>1, <3>1, FirstBad
  <2>3. xs[k].side # other
    BY <1>1 DEF OneSided
  <2>4. u[k] = u[k - 1]
    BY <1>2, <2>3 DEF Grown
  <2> QED BY <2>2, <2>4
<1>5. n \in 0..n /\ n \notin T
  BY <1>4
<1> QED BY <1>2, <1>5

\* Matching closes the first units of the other side.
LEMMA MatchingByUnits ==
  ASSUME NEW f, Fillable(f), NEW p, p.lots \in Seq(Lots), InRange(p.realized),
         NEW side \in Sides, side # f.side, OneSided(p.lots, side)
  PROVE  /\ Matching(p, f) \in Matches /\ Reached(f, Matching(p, f), side)
         /\ ClosedFirst(f, Matching(p, f), side, Units(side, p.lots), p.realized)
<1>1. p.lots \in Seq(AnyLots) /\ f.price \in Int /\ f.qty \in Nat
  BY LotsAreLots, FillTyped
<1>2. PICK n \in Nat : n = Len(p.lots)
  BY <1>1, LotTyped
<1>3. PICK r : /\ r[0] = Unmatched(p, f)
               /\ \A k \in 0..n : r[k] \in Matches
               /\ \A k \in 1..n : r[k] = Close(f, r[k - 1], p.lots[k])
               /\ Matching(p, f) = r[n]
  BY <1>1, <1>2, MatchingFolded, UnmatchedReached
<1>4. PICK u : /\ u[0] = << >>
               /\ \A k \in 0..n : u[k] \in Seq(Int)
               /\ \A k \in 1..n : u[k] = Grown(side, u[k - 1], p.lots[k])
               /\ Units(side, p.lots) = u[n]
  <2>1. PICK xs \in Seq(Lots) : xs = p.lots
    OBVIOUS
  <2>2. PICK u : /\ u[0] = << >>
                 /\ \A k \in 0..Len(xs) : u[k] \in Seq(Int)
                 /\ \A k \in 1..Len(xs) : u[k] = Grown(side, u[k - 1], xs[k])
                 /\ Units(side, xs) = u[Len(xs)]
    BY LotsCountable, UnitsFolded
  <2> QED BY <1>2, <2>1, <2>2
<1>5. PICK start \in Int : start = p.realized
  BY UnmatchedReached
<1> DEFINE T == {k \in 0..n : ~(Reached(f, r[k], side) /\ ClosedFirst(f, r[k], side, u[k], start))}
<1>6. 0 \notin T
  <2>1. Reached(f, r[0], side)
    BY <1>3, UnmatchedReached
  <2>2. PICK m : m = r[0]
    OBVIOUS
  <2>3. m.left = f.qty /\ m.realized = start /\ m.lots = << >>
    BY <1>3, <1>5, <2>2 DEF Unmatched
  <2>4. PICK us \in Seq(Int) : us = u[0] /\ Len(us) = 0
    <3>1. << >> \in Seq(Int) /\ Len(<< >>) = 0
      OBVIOUS
    <3> QED BY <1>4, <3>1
  <2>5. f.qty - m.left = 0
    BY <1>1, <2>3
  <2>6. Units(side, m.lots) = Rest(us, 0)
    BY <2>3, <2>4, UnitsOfNone, NothingLeft
  <2>7. Total(UnitGains(side, us, f.price), 0) = 0
    <3>1. 0 \in Nat /\ \A k \in 1..0 : UnitGains(side, us, f.price)[k] \in Int
      OBVIOUS
    <3> QED BY <3>1, TotalUnfolded
  <2>8. ClosedFirst(f, m, side, us, start)
    BY <1>5, <2>3, <2>4, <2>5, <2>6, <2>7 DEF ClosedFirst
  <2> QED BY <2>1, <2>2, <2>4, <2>8
<1>7. T = {}
  <2>1. SUFFICES ASSUME T # {} PROVE FALSE
    OBVIOUS
  <2>2. PICK k \in 1..n : k \in T /\ k - 1 \in 0..n /\ k - 1 \notin T
    <3>1. T \in SUBSET (0..n)
      OBVIOUS
    <3> HIDE DEF T
    <3> QED BY <1>6, <2>1, <3>1, FirstBad
  <2>3. PICK j \in 0..n : j = k - 1
    BY <2>2
  <2>4. PICK m \in Matches : m = r[j] /\ Reached(f, m, side) /\ ClosedFirst(f, m, side, u[j], start)
    BY <1>3, <2>2, <2>3
  <2>5. PICK lot \in Lots : lot = p.lots[k] /\ lot.side = side
    BY <1>2 DEF OneSided
  <2>6. PICK us \in Seq(Int) : us = u[j]
    BY <1>4
  <2>7. Reached(f, Close(f, m, lot), side)
    BY <2>4, <2>5, CloseReaches
  <2>8. ClosedFirst(f, Close(f, m, lot), side, us \o Repeated(lot.qty, lot.price), start)
    BY <2>4, <2>5, <2>6, CloseByUnits
  <2>9. u[k] = us \o Repeated(lot.qty, lot.price)
    BY <1>4, <2>3, <2>5, <2>6 DEF Grown
  <2>10. r[k] = Close(f, m, lot)
    BY <1>3, <2>3, <2>4, <2>5
  <2> QED BY <2>2, <2>7, <2>8, <2>9, <2>10
<1>8. n \in 0..n /\ n \notin T
  BY <1>7
<1>9. Reached(f, r[n], side) /\ ClosedFirst(f, r[n], side, u[n], start) /\ r[n] \in Matches
  BY <1>3, <1>8
<1> QED BY <1>3, <1>4, <1>5, <1>9

\* A fill leaves lots of its own side alone.
LEMMA MatchingOwnSide ==
  ASSUME NEW f, Fillable(f), NEW p, p.lots \in Seq(Lots), InRange(p.realized), OneSided(p.lots, f.side)
  PROVE  LET m == Matching(p, f)
         IN  /\ m \in Matches /\ m.left = f.qty /\ m.realized = p.realized
             /\ m.lots \in Seq(Lots) /\ OneSided(m.lots, f.side)
             /\ Units(f.side, m.lots) = Units(f.side, p.lots)
<1>1. p.lots \in Seq(AnyLots) /\ f.price \in Int /\ f.qty \in Nat /\ f.side \in Sides
  BY LotsAreLots, FillTyped
<1>2. PICK n \in Nat : n = Len(p.lots)
  BY <1>1, LotTyped
<1>3. PICK r : /\ r[0] = Unmatched(p, f)
               /\ \A k \in 0..n : r[k] \in Matches
               /\ \A k \in 1..n : r[k] = Close(f, r[k - 1], p.lots[k])
               /\ Matching(p, f) = r[n]
  BY <1>1, <1>2, MatchingFolded, UnmatchedReached
<1>4. PICK u : /\ u[0] = << >>
               /\ \A k \in 1..n : u[k] = Grown(f.side, u[k - 1], p.lots[k])
               /\ Units(f.side, p.lots) = u[n]
  <2>1. PICK xs \in Seq(Lots) : xs = p.lots
    OBVIOUS
  <2>2. PICK u : /\ u[0] = << >>
                 /\ \A k \in 0..Len(xs) : u[k] \in Seq(Int)
                 /\ \A k \in 1..Len(xs) : u[k] = Grown(f.side, u[k - 1], xs[k])
                 /\ Units(f.side, xs) = u[Len(xs)]
    BY LotsCountable, UnitsFolded
  <2> QED BY <1>2, <2>1, <2>2
<1> DEFINE Kept(m, us) == /\ m.left = f.qty /\ m.realized = p.realized
                          /\ Reached(f, m, f.side) /\ Units(f.side, m.lots) = us
           T == {k \in 0..n : ~Kept(r[k], u[k])}
<1>5. 0 \notin T
  <2>1. Reached(f, r[0], f.side)
    BY <1>1, <1>3, UnmatchedReached
  <2>2. PICK m : m = r[0]
    OBVIOUS
  <2>3. m.left = f.qty /\ m.realized = p.realized /\ m.lots = << >>
    BY <1>3, <2>2 DEF Unmatched
  <2>4. Units(f.side, m.lots) = u[0]
    BY <1>4, <2>3, UnitsOfNone
  <2> QED BY <2>1, <2>2, <2>3, <2>4
<1>6. T = {}
  <2>1. SUFFICES ASSUME T # {} PROVE FALSE
    OBVIOUS
  <2>2. PICK k \in 1..n : k \in T /\ k - 1 \in 0..n /\ k - 1 \notin T
    <3>1. T \in SUBSET (0..n)
      OBVIOUS
    <3> HIDE DEF T
    <3> QED BY <1>5, <2>1, <3>1, FirstBad
  <2>3. PICK j \in 0..n : j = k - 1
    BY <2>2
  <2>4. PICK m \in Matches : m = r[j] /\ Kept(m, u[j])
    BY <1>3, <2>2, <2>3
  <2>5. PICK lot \in Lots : lot = p.lots[k] /\ lot.side = f.side
    BY <1>2 DEF OneSided
  <2>6. PICK c : c = Close(f, m, lot)
    OBVIOUS
  <2>7. c = [m EXCEPT !.lots = Append(m.lots, lot)]
    BY <2>5, <2>6 DEF Close
  <2>8. c.left = m.left /\ c.realized = m.realized /\ c.lots = Append(m.lots, lot)
    <3>1. m = [left |-> m.left, realized |-> m.realized, fits |-> m.fits, lots |-> m.lots]
      BY DEF Matches
    <3> QED BY <2>7, <3>1
  <2>9. Reached(f, c, f.side)
    BY <1>1, <2>4, <2>5, <2>6, CloseReaches
  <2>10. Units(f.side, c.lots) = Grown(f.side, u[j], lot)
    <3>1. m.lots \in Seq(Lots)
      BY <2>4 DEF Reached
    <3>2. Units(f.side, Append(m.lots, lot)) = Grown(f.side, Units(f.side, m.lots), lot)
      BY <3>1, LotsCountable, UnitsAppend
    <3> QED BY <2>4, <2>8, <3>2
  <2>11. u[k] = Grown(f.side, u[j], lot) /\ r[k] = c
    BY <1>3, <1>4, <2>3, <2>4, <2>5, <2>6
  <2>12. Kept(r[k], u[k])
    BY <2>4, <2>8, <2>9, <2>10, <2>11
  <2> QED BY <2>2, <2>12
<1>7. n \in 0..n /\ n \notin T
  BY <1>6
<1>8. Kept(r[n], u[n]) /\ r[n] \in Matches
  BY <1>3, <1>7
<1>9. r[n].lots \in Seq(Lots) /\ OneSided(r[n].lots, f.side)
  BY <1>8 DEF Reached, OneSided
<1> QED BY <1>3, <1>4, <1>8, <1>9

\* What the units us of a side earn, each with the unit of vs at its place.
PairGains(side, us, vs) ==
  [k \in DOMAIN us \cap DOMAIN vs |-> Gain(side, us[k], vs[k])]

Shorter(us, vs) == IF Len(us) <= Len(vs) THEN Len(us) ELSE Len(vs)

Earned(side, us, vs) == Total(PairGains(side, us, vs), Shorter(us, vs))

LEMMA PairsTyped ==
  ASSUME NEW side, NEW us \in Seq(Int), NEW vs \in Seq(Int)
  PROVE  /\ Shorter(us, vs) \in Nat /\ DOMAIN us \cap DOMAIN vs = 1..Shorter(us, vs)
         /\ \A k \in 1..Shorter(us, vs) :
              /\ us[k] \in Int /\ vs[k] \in Int /\ PairGains(side, us, vs)[k] \in Int
              /\ PairGains(side, us, vs)[k] = Gain(side, us[k], vs[k])
<1>1. PICK a \in Nat : a = Len(us) /\ DOMAIN us = 1..a
  OBVIOUS
<1>2. PICK b \in Nat : b = Len(vs) /\ DOMAIN vs = 1..b
  OBVIOUS
<1>3. PICK n \in Nat : n = Shorter(us, vs) /\ n = IF a <= b THEN a ELSE b
  BY <1>1, <1>2 DEF Shorter
<1>4. DOMAIN us \cap DOMAIN vs = 1..n
  BY <1>1, <1>2, <1>3
<1>5. \A k \in 1..n : us[k] \in Int /\ vs[k] \in Int
  BY <1>1, <1>2, <1>3
<1>6. \A k \in 1..n : /\ PairGains(side, us, vs)[k] \in Int
                      /\ PairGains(side, us, vs)[k] = Gain(side, us[k], vs[k])
  <2>1. PICK w : w = [k \in 1..n |-> Gain(side, us[k], vs[k])]
    OBVIOUS
  <2>2. PairGains(side, us, vs) = w
    BY <1>4, <2>1 DEF PairGains
  <2>3. \A k \in 1..n : /\ w[k] \in Int
                        /\ w[k] = Gain(side, us[k], vs[k])
    BY <1>5, <2>1, GainTyped
  <2> QED BY <2>2, <2>3
<1> QED BY <1>3, <1>4, <1>5, <1>6

LEMMA EarnedTyped ==
  ASSUME NEW side, NEW us \in Seq(Int), NEW vs \in Seq(Int)
  PROVE  Earned(side, us, vs) \in Int
<1>1. PICK n \in Nat : n = Shorter(us, vs)
  <2>1. Shorter(us, vs) \in Nat
    BY PairsTyped
  <2> QED BY <2>1
<1>2. \A k \in 1..n : PairGains(side, us, vs)[k] \in Int
  BY <1>1, PairsTyped
<1> QED BY <1>1, <1>2, TotalUnfolded DEF Earned

\* It does not matter which side is named first.
LEMMA EarnedEitherWay ==
  ASSUME NEW us \in Seq(Int), NEW vs \in Seq(Int)
  PROVE  Earned("sell", us, vs) = Earned("buy", vs, us)
<1>1. PICK n \in Nat : n = Shorter(us, vs)
  <2>1. Shorter(us, vs) \in Nat
    BY PairsTyped
  <2> QED BY <2>1
<1>2. Len(us) \in Nat /\ Len(vs) \in Nat
  OBVIOUS
<1>3. Shorter(vs, us) = n
  BY <1>1, <1>2 DEF Shorter
<1>4. \A k \in 1..n : PairGains("sell", us, vs)[k] = us[k] - vs[k]
  <2>1. \A k \in 1..Shorter(us, vs) :
          PairGains("sell", us, vs)[k] = Gain("sell", us[k], vs[k])
    BY PairsTyped
  <2> QED BY <1>1, <2>1 DEF Gain
<1>5. \A k \in 1..n : /\ PairGains("buy", vs, us)[k] \in Int
                      /\ PairGains("buy", vs, us)[k] = us[k] - vs[k]
  BY <1>3, PairsTyped DEF Gain
<1>6. Total(PairGains("sell", us, vs), n) = Total(PairGains("buy", vs, us), n)
  BY <1>4, <1>5, TotalSame
<1> QED BY <1>1, <1>3, <1>6 DEF Earned

\* Units that follow earn nothing while the other side has no partner for them.
LEMMA EarnedKept ==
  ASSUME NEW side, NEW us \in Seq(Int), NEW vs \in Seq(Int), NEW more \in Seq(Int), Len(us) <= Len(vs)
  PROVE  Earned(side, us, vs \o more) = Earned(side, us, vs)
<1>1. PICK ws : ws = vs \o more
  OBVIOUS
<1>2. /\ ws \in Seq(Int) /\ Len(ws) = Len(vs) + Len(more)
      /\ Len(vs) \in Nat /\ Len(more) \in Nat
      /\ \A k \in 1..Len(vs) : ws[k] = vs[k]
  BY <1>1, JoinedTyped
<1>3. PICK a \in Nat : a = Len(us)
  OBVIOUS
<1>4. Shorter(us, vs) = a /\ Shorter(us, ws) = a
  BY <1>2, <1>3 DEF Shorter
<1>5. PICK v : v = PairGains(side, us, vs)
  OBVIOUS
<1>6. PICK w : w = PairGains(side, us, ws)
  OBVIOUS
<1>9. ASSUME NEW k \in 1..a PROVE v[k] \in Int /\ w[k] = v[k]
  <2>1. ws[k] = vs[k]
    BY <1>2, <1>3
  <2>2. \A i \in 1..Shorter(us, vs) :
          /\ PairGains(side, us, vs)[i] \in Int
          /\ PairGains(side, us, vs)[i] = Gain(side, us[i], vs[i])
    BY PairsTyped
  <2>3. \A i \in 1..Shorter(us, ws) :
          /\ PairGains(side, us, ws)[i] \in Int
          /\ PairGains(side, us, ws)[i] = Gain(side, us[i], ws[i])
    <3>1. ws \in Seq(Int)
      BY <1>2
    <3> QED BY <3>1, PairsTyped, SMTT(60)
  <2>4. v[k] \in Int /\ v[k] = Gain(side, us[k], vs[k])
    BY <1>4, <1>5, <2>2
  <2>5. w[k] = Gain(side, us[k], ws[k])
    BY <1>4, <1>6, <2>3
  <2> QED BY <2>1, <2>4, <2>5
<1>10. Total(w, a) = Total(v, a)
  BY <1>3, <1>9, TotalSame
<1> QED BY <1>1, <1>4, <1>5, <1>6, <1>10 DEF Earned

\* Units at one price that follow vs earn it with those that vs has left of us.
LEMMA EarnedMore ==
  ASSUME NEW side, NEW us \in Seq(Int), NEW vs \in Seq(Int),
         NEW q \in Nat, NEW x \in Int, NEW d \in Nat
  PROVE  Len(vs) + d <= Len(us) /\ d <= q /\ (d = q \/ Len(vs) + d = Len(us)) =>
           Earned(side, us, vs \o Repeated(q, x))
             = Earned(side, us, vs) + Total(UnitGains(side, Rest(us, Len(vs)), x), d)
<1>1. PICK r : r = Repeated(q, x)
  OBVIOUS
<1>2. r \in Seq(Int) /\ Len(r) = q /\ \A k \in 1..q : r[k] = x
  BY <1>1, RepeatedTyped
<1>3. PICK ws : ws = vs \o r
  OBVIOUS
<1>4. PICK a \in Nat : a = Len(vs)
  OBVIOUS
<1>5. a \in Nat
  BY <1>4
<1>6. /\ ws \in Seq(Int) /\ Len(ws) = a + q
      /\ \A k \in 1..a : ws[k] = vs[k]
      /\ \A k \in 1..q : ws[a + k] = r[k]
  BY <1>2, <1>3, <1>4, JoinedTyped
<1>7. PICK b \in Nat : b = Len(us)
  OBVIOUS
<1>8. ASSUME a + d <= b, d <= q, d = q \/ a + d = b
       PROVE  Earned(side, us, ws) = Earned(side, us, vs) + Total(UnitGains(side, Rest(us, a), x), d)
  <2>1. PICK n \in Nat : n = a + d
    OBVIOUS
  <2>2. Shorter(us, ws) = n /\ Shorter(us, vs) = a
    BY <1>4, <1>6, <1>7, <1>8, <2>1, SMTT(60) DEF Shorter
  <2>3. PICK w : w = PairGains(side, us, ws)
    OBVIOUS
  <2>4. PICK v : v = PairGains(side, us, vs)
    OBVIOUS
  <2>5. \A k \in 1..n : w[k] \in Int /\ w[k] = Gain(side, us[k], ws[k])
    BY <1>6, <2>2, <2>3, PairsTyped, ZenonT(60)
  <2>6. \A k \in 1..a : v[k] \in Int /\ v[k] = Gain(side, us[k], vs[k])
    BY <2>2, <2>4, PairsTyped, ZenonT(60)
  <2>7. Total(w, a) = Total(v, a) /\ Total(v, a) \in Int
    <3>1. ASSUME NEW k \in 1..a PROVE v[k] \in Int /\ w[k] = v[k]
      <4>1. k \in 1..n /\ ws[k] = vs[k]
        BY <1>4, <1>6, <2>1
      <4> QED BY <2>5, <2>6, <4>1
    <3> QED BY <1>4, <3>1, TotalSame, TotalUnfolded
  <2>8. PICK u : u = Rest(us, a)
    OBVIOUS
  <2>9. PICK c : c = b - a
    OBVIOUS
  <2>10. c \in Nat /\ b = a + c /\ d <= c
    BY <1>4, <1>7, <1>8, <2>9
  <2>11. u \in Seq(Int) /\ Len(u) = c /\ \A k \in 1..c : u[k] = us[a + k]
    <3>1. Len(us) = a + c
      BY <1>7, <2>10
    <3>2. c \in Nat
      BY <2>10
    <3>3. /\ Rest(us, a) \in Seq(Int) /\ Len(Rest(us, a)) = c
          /\ \A k \in 1..c : Rest(us, a)[k] = us[a + k]
      BY <1>5, <3>1, <3>2, RestElements, ZenonT(60)
    <3> QED BY <2>8, <3>3
  <2>12. PICK y : y = UnitGains(side, u, x)
    OBVIOUS
  <2>13. \A k \in 1..d : y[k] \in Int /\ w[a + k] = y[k]
    <3> SUFFICES ASSUME NEW k \in 1..d PROVE y[k] \in Int /\ w[a + k] = y[k]
      OBVIOUS
    <3>1. k \in 1..c /\ a + k \in 1..n /\ k \in 1..q
      BY <1>8, <2>1, <2>10
    <3>2. \A i \in 1..Len(u) : y[i] \in Int /\ y[i] = Gain(side, u[i], x)
      BY <2>11, <2>12, GainsTyped, ZenonT(60)
    <3>3. y[k] \in Int /\ y[k] = Gain(side, us[a + k], x)
      BY <2>11, <3>1, <3>2
    <3>4. ws[a + k] = x
      BY <1>2, <1>6, <3>1
    <3>5. w[a + k] = Gain(side, us[a + k], ws[a + k])
      BY <2>5, <3>1
    <3> QED BY <3>3, <3>4, <3>5
  <2>14. Total(w, a + d) = Total(w, a) + Total(y, d)
    <3>1. \A k \in 1..a : w[k] \in Int
      BY <2>1, <2>5
    <3>2. \A k \in 1..d : y[k] \in Int /\ w[a + k] = y[k]
      BY <2>13
    <3> QED BY <1>5, <3>1, <3>2, TotalJoined, SMTT(60)
  <2> QED BY <2>1, <2>2, <2>3, <2>4, <2>7, <2>8, <2>12, <2>14 DEF Earned
<1> QED BY <1>1, <1>3, <1>4, <1>7, <1>8

-----------------------------------------------------------------------------
LEMMA EmptyRest ==
  ASSUME NEW us \in Seq(Int), NEW n \in Nat, Rest(us, n) = << >>
  PROVE  Len(us) <= n
<1>1. PICK c : c = Len(us) - n
  OBVIOUS
<1>2. ASSUME ~(Len(us) <= n) PROVE FALSE
  <2>1. c \in Nat /\ c # 0
    BY <1>1, <1>2
  <2>2. Len(us) = n + c
    BY <1>1
  <2>3. c \in Nat
    BY <2>1
  <2>4. Len(Rest(us, n)) = c
    BY <2>2, <2>3, RestElements
  <2>5. Len(<< >>) = 0
    OBVIOUS
  <2> QED BY <2>1, <2>4, <2>5
<1>3. Len(us) \in Nat
  OBVIOUS
<1> QED BY <1>2, <1>3

\* What the lots of a fill's own and of the other side are to the units ever
\* traded, own and theirs, before the fill and after.
LotsAreRests(f, other, xs, own, theirs) ==
  /\ Units(f.side, xs) = Rest(own, Len(theirs))
  /\ Units(other, xs) = Rest(theirs, Len(own))

LEMMA OwnSideFollows ==
  ASSUME NEW f, Fillable(f), NEW p, p.lots \in Seq(Lots), InRange(p.realized), OneSided(p.lots, f.side),
         NEW other \in Sides, other # f.side, NEW own \in Seq(Int), NEW theirs \in Seq(Int),
         LotsAreRests(f, other, p.lots, own, theirs), p.realized = Earned(other, theirs, own)
  PROVE  LET g == Matched(p, f)
             all == own \o Repeated(f.qty, f.price)
         IN  LotsAreRests(f, other, g.lots, all, theirs) /\ g.realized = Earned(other, theirs, all)
<1>1. f.side \in Sides /\ f.price \in Int /\ f.qty \in Nat /\ f.qty # 0
  BY FillTyped
<1>2. PICK m : m = Matching(p, f)
  OBVIOUS
<1>3. /\ m \in Matches /\ m.left = f.qty /\ m.realized = p.realized
      /\ m.lots \in Seq(Lots) /\ OneSided(m.lots, f.side)
      /\ Units(f.side, m.lots) = Units(f.side, p.lots)
  BY <1>2, MatchingOwnSide
<1>4. PICK g : g = Matched(p, f)
  OBVIOUS
<1>5. g.realized = m.realized /\ g.lots = m.lots \o Opened(f, m)
  <2>1. m = [left |-> m.left, realized |-> m.realized, fits |-> m.fits, lots |-> m.lots]
    BY <1>3 DEF Matches
  <2>2. g = [m EXCEPT !.lots = m.lots \o Opened(f, m)]
    BY <1>2, <1>4 DEF Matched, Matching
  <2> QED BY <2>1, <2>2
<1>6. PICK lot : lot = [side |-> f.side, qty |-> f.qty, price |-> f.price]
  OBVIOUS
<1>7. lot \in Lots /\ lot.side = f.side /\ lot.qty = f.qty /\ lot.price = f.price
  BY <1>1, <1>6, FillTyped DEF Lots
<1>8. g.lots = Append(m.lots, lot)
  <2>1. Opened(f, m) = <<lot>>
    BY <1>1, <1>3, <1>6 DEF Opened
  <2>2. PICK xs \in Seq(Lots) : xs = m.lots
    BY <1>3
  <2>3. xs \o <<lot>> = Append(xs, lot)
    OBVIOUS
  <2> QED BY <1>5, <2>1, <2>2, <2>3
<1>9. PICK r : r = Repeated(f.qty, f.price)
  OBVIOUS
<1>10. r \in Seq(Int) /\ Len(r) = f.qty
  BY <1>1, <1>9, RepeatedTyped
<1>11. PICK all : all = own \o r
  OBVIOUS
<1>12. all \in Seq(Int) /\ Len(all) = Len(own) + f.qty /\ Len(own) \in Nat /\ Len(theirs) \in Nat
  <2>1. Len(theirs) \in Nat
    OBVIOUS
  <2>2. all \in Seq(Int) /\ Len(all) = Len(own) + Len(r) /\ Len(own) \in Nat
    BY <1>10, <1>11, JoinedTyped
  <2> QED BY <1>10, <2>1, <2>2
<1>13. Len(theirs) <= Len(own)
  <2>1. Units(other, p.lots) = << >>
    BY UnitsOfOther
  <2>2. Rest(theirs, Len(own)) = << >>
    BY <2>1 DEF LotsAreRests
  <2> QED BY <1>12, <2>2, EmptyRest
<1>14. Units(f.side, g.lots) = Rest(all, Len(theirs))
  <2>1. Units(f.side, Append(m.lots, lot)) = Units(f.side, m.lots) \o r
    <3>1. Units(f.side, Append(m.lots, lot)) = Grown(f.side, Units(f.side, m.lots), lot)
      BY <1>3, <1>7, LotsCountable, UnitsAppend
    <3> QED BY <1>7, <1>9, <3>1 DEF Grown
  <2>2. Rest(own \o r, Len(theirs)) = Rest(own, Len(theirs)) \o r
    BY <1>10, <1>12, <1>13, RestOfBoth
  <2> QED BY <1>3, <1>8, <1>11, <2>1, <2>2 DEF LotsAreRests
<1>15. Units(other, g.lots) = Rest(theirs, Len(all))
  <2>1. Units(other, Append(m.lots, lot)) = Units(other, m.lots)
    <3>1. Units(other, Append(m.lots, lot)) = Grown(other, Units(other, m.lots), lot)
      BY <1>3, <1>7, LotsCountable, UnitsAppend
    <3> QED BY <1>7, <3>1 DEF Grown
  <2>2. Units(other, m.lots) = << >>
    BY <1>3, UnitsOfOther
  <2>3. Rest(theirs, Len(all)) = << >>
    <3>1. Len(all) \in Nat /\ Len(all) >= Len(theirs)
      BY <1>1, <1>12, <1>13
    <3> QED BY <3>1, NothingLeft
  <2> QED BY <1>8, <2>1, <2>2, <2>3
<1>16. Earned(other, theirs, all) = Earned(other, theirs, own)
  BY <1>10, <1>11, <1>13, EarnedKept
<1> QED BY <1>3, <1>4, <1>5, <1>9, <1>11, <1>14, <1>15, <1>16 DEF LotsAreRests

LEMMA OtherSideFollows ==
  ASSUME NEW f, Fillable(f), NEW p, p.lots \in Seq(Lots), InRange(p.realized),
         NEW other \in Sides, other # f.side, OneSided(p.lots, other),
         NEW own \in Seq(Int), NEW theirs \in Seq(Int),
         LotsAreRests(f, other, p.lots, own, theirs), p.realized = Earned(other, theirs, own)
  PROVE  LET g == Matched(p, f)
             all == own \o Repeated(f.qty, f.price)
         IN  LotsAreRests(f, other, g.lots, all, theirs) /\ g.realized = Earned(other, theirs, all)
<1>1. f.side \in Sides /\ f.price \in Int /\ f.qty \in Nat /\ f.qty # 0
  BY FillTyped
<1>2. PICK m : m = Matching(p, f)
  OBVIOUS
<1>3. /\ m \in Matches /\ Reached(f, m, other)
      /\ ClosedFirst(f, m, other, Units(other, p.lots), p.realized)
  BY <1>2, MatchingByUnits
<1>4. PICK g : g = Matched(p, f)
  OBVIOUS
<1>5. g.realized = m.realized /\ g.lots = m.lots \o Opened(f, m)
  <2>1. m = [left |-> m.left, realized |-> m.realized, fits |-> m.fits, lots |-> m.lots]
    BY <1>3 DEF Matches
  <2>2. g = [m EXCEPT !.lots = m.lots \o Opened(f, m)]
    BY <1>2, <1>4 DEF Matched, Matching
  <2> QED BY <2>1, <2>2
<1>6. /\ m.left \in 0..f.qty /\ m.lots \in Seq(Lots) /\ OneSided(m.lots, other)
      /\ m.left # 0 => m.lots = << >>
  BY <1>3 DEF Reached, OneSided
<1>7. PICK q \in Nat : q = f.qty
  BY <1>1
<1>8. PICK x \in Int : x = f.price
  BY <1>1
<1>9. PICK r : r = Repeated(q, x)
  OBVIOUS
<1>10. r \in Seq(Int) /\ Len(r) = q
  BY <1>7, <1>8, <1>9, RepeatedTyped
<1>11. PICK all : all = own \o r
  OBVIOUS
<1>12. PICK a : a = Len(own)
  OBVIOUS
<1>13. PICK b : b = Len(theirs)
  OBVIOUS
<1>14. a \in Nat /\ b \in Nat
  BY <1>12, <1>13
<1>15. all \in Seq(Int) /\ Len(all) = a + q
  BY <1>10, <1>11, <1>12, JoinedTyped
<1>16. Units(f.side, p.lots) = << >> /\ Rest(own, b) = << >> /\ a <= b
  <2>1. Units(f.side, p.lots) = << >>
    BY UnitsOfOther
  <2>2. Rest(own, b) = << >>
    BY <1>13, <2>1 DEF LotsAreRests
  <2> QED BY <1>12, <1>14, <2>1, <2>2, EmptyRest
<1>17. PICK c : c = b - a
  OBVIOUS
<1>18. c \in Nat
  BY <1>14, <1>16, <1>17
<1>19. PICK u : u = Rest(theirs, a)
  OBVIOUS
<1>20. u = Units(other, p.lots) /\ u \in Seq(Int) /\ Len(u) = c
  <2>1. Len(theirs) = a + c
    BY <1>13, <1>14, <1>17
  <2>2. u \in Seq(Int) /\ Len(u) = c
    BY <1>14, <1>18, <1>19, <2>1, RestElements
  <2> QED BY <1>12, <1>19, <2>2 DEF LotsAreRests
<1>21. PICK d : d = f.qty - m.left
  OBVIOUS
<1>22. d \in Nat /\ d <= q
  BY <1>1, <1>6, <1>7, <1>21
<1>23. /\ d <= c /\ (m.left # 0 => d = c)
       /\ Units(other, m.lots) = Rest(u, d)
       /\ m.realized = p.realized + Total(UnitGains(other, u, f.price), d)
  BY <1>3, <1>20, <1>21 DEF ClosedFirst
<1>24. m.left = q - d /\ (d = q \/ a + d = b)
  <2>1. m.left \in 0..q /\ d = q - m.left
    BY <1>6, <1>7, <1>21
  <2>2. q \in Nat
    BY <1>7
  <2>3. m.left = q - d
    BY <2>1, <2>2
  <2>4. CASE m.left = 0
    BY <2>1, <2>2, <2>3, <2>4
  <2>5. CASE m.left # 0
    BY <1>14, <1>17, <1>23, <2>3, <2>5
  <2> QED BY <2>4, <2>5
<1>25. g.realized = Earned(other, theirs, all)
  <2>1. a + d <= b
    BY <1>14, <1>17, <1>22, <1>23
  <2>2. Len(own) + d <= Len(theirs) /\ (d = q \/ Len(own) + d = Len(theirs))
    BY <1>12, <1>13, <1>24, <2>1
  <2>3. d \in Nat
    BY <1>22
  <2>4. Earned(other, theirs, own \o Repeated(q, x))
          = Earned(other, theirs, own) + Total(UnitGains(other, Rest(theirs, Len(own)), x), d)
    BY <1>7, <1>8, <1>22, <2>2, <2>3, EarnedMore
  <2> QED BY <1>5, <1>8, <1>9, <1>11, <1>12, <1>19, <1>23, <2>4
<1>26. Rest(u, d) = Rest(theirs, Len(all))
  <2>1. a + d <= Len(theirs)
    BY <1>13, <1>14, <1>17, <1>22, <1>23
  <2>2. a \in Nat /\ d \in Nat
    BY <1>14, <1>22
  <2>3. Rest(u, d) = Rest(theirs, a + d)
    BY <1>19, <2>1, <2>2, RestOfRest
  <2>4. CASE d = q
    BY <1>15, <2>3, <2>4
  <2>5. CASE d # q
    <3>1. a + d \in Nat /\ a + d >= Len(theirs) /\ a + q \in Nat /\ a + q >= Len(theirs)
      BY <1>7, <1>13, <1>14, <1>22, <1>24, <2>5, SMTT(60)
    <3>2. Rest(theirs, a + d) = << >> /\ Rest(theirs, a + q) = << >>
      BY <3>1, NothingLeft
    <3> QED BY <1>15, <2>3, <3>2
  <2> QED BY <2>4, <2>5
<1>27. Units(f.side, m.lots) = << >>
  BY <1>6, UnitsOfOther
<1>28. CASE m.left = 0
  <2>1. g.lots = m.lots
    <3>1. Opened(f, m) = << >>
      BY <1>28 DEF Opened
    <3>2. PICK xs \in Seq(Lots) : xs = m.lots
      BY <1>6
    <3>3. xs \o << >> = xs
      OBVIOUS
    <3> QED BY <1>5, <3>1, <3>2, <3>3
  <2>2. Rest(all, b) = << >>
    <3>1. a + q <= b
      BY <1>7, <1>14, <1>17, <1>22, <1>23, <1>24, <1>28, SMTT(60)
    <3> QED BY <1>14, <1>15, <3>1, NothingLeft
  <2>3. LotsAreRests(f, other, g.lots, all, theirs)
    BY <1>13, <1>23, <1>26, <1>27, <2>1, <2>2 DEF LotsAreRests
  <2> QED BY <1>4, <1>7, <1>8, <1>9, <1>11, <1>25, <2>3
<1>29. CASE m.left # 0
  <2>1. PICK lot : lot = [side |-> f.side, qty |-> m.left, price |-> f.price]
    OBVIOUS
  <2>2. /\ lot \in AnyLots /\ lot.side = f.side /\ lot.qty = m.left /\ lot.price = x
        /\ lot.qty \in Nat
    BY <1>1, <1>6, <1>8, <2>1 DEF AnyLots
  <2>3. g.lots = <<lot>>
    <3>1. Opened(f, m) = <<lot>> /\ m.lots = << >>
      BY <1>6, <1>29, <2>1 DEF Opened
    <3>2. << >> \o <<lot>> = <<lot>>
      OBVIOUS
    <3> QED BY <1>5, <3>1, <3>2
  <2>4. Units(f.side, g.lots) = Repeated(m.left, x)
    BY <2>2, <2>3, UnitsOfOne
  <2>5. Rest(all, b) = Repeated(m.left, x)
    <3>1. Rest(own \o r, Len(own) + d) = Rest(r, d)
      BY <1>10, <1>22, RestOfSecond
    <3>2. Rest(r, d) = Repeated(q - d, x)
      BY <1>7, <1>8, <1>9, <1>22, RestOfRepeated
    <3>3. Len(own) + d = b
      BY <1>12, <1>14, <1>17, <1>23, <1>29
    <3> QED BY <1>11, <1>24, <3>1, <3>2, <3>3
  <2>6. Units(other, g.lots) = << >>
    <3>1. g.lots \in Seq(Lots) /\ OneSided(g.lots, f.side)
      <4>1. lot \in Lots
        <5>1. m.left \in Nat \ {0} /\ f.price \in Prices
          BY <1>1, <1>6, <1>29, FillTyped
        <5> QED BY <1>1, <2>1, <5>1 DEF Lots
      <4> QED BY <2>2, <2>3, <4>1 DEF OneSided
    <3> QED BY <3>1, UnitsOfOther
  <2>7. Rest(theirs, Len(all)) = << >>
    <3>1. d >= Len(u)
      BY <1>20, <1>23, <1>29, <1>22
    <3> QED BY <1>20, <1>22, <1>26, <3>1, NothingLeft
  <2>8. LotsAreRests(f, other, g.lots, all, theirs)
    BY <1>13, <2>4, <2>5, <2>6, <2>7 DEF LotsAreRests
  <2> QED BY <1>4, <1>7, <1>8, <1>9, <1>11, <1>25, <2>8
<1> QED BY <1>28, <1>29

-----------------------------------------------------------------------------
\* What FifoToTheUnit says of a portfolio.
Fifo(p) ==
  LET bought == Units("buy", p.ledger)
      sold   == Units("sell", p.ledger)
  IN  /\ p.realized = Earned("buy", bought, sold)
      /\ Units("buy", p.lots) = Rest(bought, Len(sold))
      /\ Units("sell", p.lots) = Rest(sold, Len(bought))
      /\ Position(p.lots) = Len(bought) - Len(sold)

LEMMA FifoInit == Init => Fifo(portfolio)
<1> SUFFICES ASSUME Init PROVE Fifo(portfolio)
  OBVIOUS
<1>1. PICK p : p = portfolio
  OBVIOUS
<1>2. p.realized = 0 /\ p.lots = << >> /\ p.ledger = << >>
  BY <1>1 DEF Init, NewPortfolio
<1>3. PICK us \in Seq(Int) : us = << >> /\ Len(us) = 0
  <2>1. << >> \in Seq(Int) /\ Len(<< >>) = 0
    OBVIOUS
  <2> QED BY <2>1
<1>4. Units("buy", p.ledger) = us /\ Units("sell", p.ledger) = us
  BY <1>2, <1>3, UnitsOfNone
<1>5. Units("buy", p.lots) = us /\ Units("sell", p.lots) = us
  BY <1>2, <1>3, UnitsOfNone
<1>6. Rest(us, Len(us)) = us
  <2>1. 0 \in Nat /\ 0 >= Len(us)
    BY <1>3
  <2>2. Rest(us, 0) = << >>
    BY <2>1, NothingLeft
  <2> QED BY <1>3, <2>2
<1>7. Earned("buy", us, us) = 0
  <2>1. Shorter(us, us) = 0
    BY <1>3 DEF Shorter
  <2>2. 0 \in Nat /\ \A k \in 1..0 : PairGains("buy", us, us)[k] \in Int
    OBVIOUS
  <2> QED BY <2>1, <2>2, TotalUnfolded DEF Earned
<1>8. Position(p.lots) = Len(us) - Len(us)
  BY <1>2, <1>3, PositionOfFew
<1> QED BY <1>1, <1>2, <1>4, <1>5, <1>6, <1>7, <1>8 DEF Fifo

LEMMA FifoStep ==
  ASSUME NEW ledgered, \A g \in ledgered : Fillable(g), NEW f \in ledgered,
         NEW p, p.lots \in Seq(Lots), p.ledger \in Seq(ledgered), InRange(p.realized),
         NEW side \in Sides, OneSided(p.lots, side), Fifo(p),
         NEW q, q.realized = Matched(p, f).realized, q.lots = Matched(p, f).lots,
         q.ledger = Append(p.ledger, f)
  PROVE  Fifo(q)
<1>1. Fillable(f) /\ f.side \in Sides /\ f.price \in Int /\ f.qty \in Nat
  BY FillTyped
<1>2. Countable(ledgered)
  BY LotsCountable
<1>3. PICK bought \in Seq(Int) : bought = Units("buy", p.ledger)
  BY <1>2, UnitsTyped
<1>4. PICK sold \in Seq(Int) : sold = Units("sell", p.ledger)
  BY <1>2, UnitsTyped
<1>5. PICK r : r = Repeated(f.qty, f.price)
  OBVIOUS
<1>6. r \in Seq(Int) /\ Len(r) = f.qty
  BY <1>1, <1>5, RepeatedTyped
<1>7. /\ Units("buy", q.ledger) = IF f.side = "buy" THEN bought \o r ELSE bought
      /\ Units("sell", q.ledger) = IF f.side = "sell" THEN sold \o r ELSE sold
  <2>1. PICK xs \in Seq(ledgered) : xs = p.ledger
    OBVIOUS
  <2>2. /\ Units("buy", Append(xs, f)) = Grown("buy", Units("buy", xs), f)
        /\ Units("sell", Append(xs, f)) = Grown("sell", Units("sell", xs), f)
    BY <1>2, UnitsAppend
  <2> QED BY <1>3, <1>4, <1>5, <2>1, <2>2 DEF Grown
<1>8. /\ p.realized = Earned("buy", bought, sold)
      /\ Units("buy", p.lots) = Rest(bought, Len(sold))
      /\ Units("sell", p.lots) = Rest(sold, Len(bought))
      /\ Position(p.lots) = Len(bought) - Len(sold)
  BY <1>3, <1>4 DEF Fifo
<1>9. Position(q.lots) = Position(p.lots) + Signed(f)
  <2>1. p.lots \in Seq(AnyLots) /\ p.realized \in Int
    BY LotsAreLots, RangeIsInt
  <2> QED BY <1>1, <2>1, MatchedHolds
<1>10. side = "buy" \/ side = "sell"
  BY DEF Sides
<1>11. Len(bought) \in Nat /\ Len(sold) \in Nat
  OBVIOUS
<1>12. CASE f.side = "buy"
  <2>1. PICK all : all = bought \o r
    OBVIOUS
  <2>2. all \in Seq(Int) /\ Len(all) = Len(bought) + Len(r)
    BY <1>6, <2>1, JoinedTyped
  <2>3. p.realized = Earned("sell", sold, bought)
    BY <1>8, EarnedEitherWay
  <2>4. LotsAreRests(f, "sell", p.lots, bought, sold)
    BY <1>8, <1>12 DEF LotsAreRests
  <2>5. "sell" \in Sides /\ "sell" # f.side
    BY <1>12 DEF Sides
  <2>6. LotsAreRests(f, "sell", q.lots, all, sold) /\ q.realized = Earned("sell", sold, all)
    <3>1. CASE side = f.side
      BY <1>1, <1>5, <2>1, <2>3, <2>4, <2>5, <3>1, OwnSideFollows
    <3>2. CASE side # f.side
      <4>1. OneSided(p.lots, "sell")
        BY <1>10, <1>12, <3>2
      <4> QED BY <1>1, <1>5, <2>1, <2>3, <2>4, <2>5, <4>1, OtherSideFollows, ZenonT(60)
    <3> QED BY <3>1, <3>2
  <2>7. q.realized = Earned("buy", all, sold)
    BY <2>2, <2>6, EarnedEitherWay
  <2>8. Units("buy", q.ledger) = all /\ Units("sell", q.ledger) = sold
    BY <1>7, <1>12, <2>1
  <2>9. Position(q.lots) = Len(all) - Len(sold)
    BY <1>1, <1>6, <1>8, <1>9, <1>11, <1>12, <2>2 DEF Signed
  <2> QED BY <1>12, <2>6, <2>7, <2>8, <2>9 DEF Fifo, LotsAreRests
<1>13. CASE f.side = "sell"
  <2>1. PICK all : all = sold \o r
    OBVIOUS
  <2>2. all \in Seq(Int) /\ Len(all) = Len(sold) + Len(r)
    BY <1>6, <2>1, JoinedTyped
  <2>4. LotsAreRests(f, "buy", p.lots, sold, bought)
    BY <1>8, <1>13 DEF LotsAreRests
  <2>5. "buy" \in Sides /\ "buy" # f.side
    BY <1>13 DEF Sides
  <2>6. LotsAreRests(f, "buy", q.lots, all, bought) /\ q.realized = Earned("buy", bought, all)
    <3>1. CASE side = f.side
      BY <1>1, <1>5, <1>8, <2>1, <2>4, <2>5, <3>1, OwnSideFollows, SMTT(60)
    <3>2. CASE side # f.side
      <4>1. OneSided(p.lots, "buy")
        BY <1>10, <1>13, <3>2
      <4> QED BY <1>1, <1>5, <1>8, <2>1, <2>4, <2>5, <4>1, OtherSideFollows, ZenonT(60)
    <3> QED BY <3>1, <3>2
  <2>8. Units("sell", q.ledger) = all /\ Units("buy", q.ledger) = bought
    BY <1>7, <1>13, <2>1
  <2>9. Position(q.lots) = Len(bought) - Len(all)
    BY <1>1, <1>6, <1>8, <1>9, <1>11, <1>13, <2>2 DEF Signed
  <2> QED BY <1>13, <2>6, <2>8, <2>9 DEF Fifo, LotsAreRests
<1> QED BY <1>1, <1>12, <1>13 DEF Sides

LEMMA FifoApplied ==
  ASSUME PortfolioInv, Fifo(portfolio), NEW f \in Fills, ApplyFill(f)
  PROVE  Fifo(portfolio)'
<1>1. PICK p : p = portfolio
  OBVIOUS
<1>2. InRange(p.realized) /\ p.lots \in Seq(Lots) /\ p.ledger \in Seq(Fills)
  BY <1>1 DEF PortfolioInv, PortfolioTypeOK
<1>3. PICK side \in Sides : OneSided(p.lots, side)
  BY <1>1 DEF PortfolioInv
<1>4. PICK q : q = Applied(p, f)
  OBVIOUS
<1>5. /\ q.realized = Matched(p, f).realized /\ q.lots = Matched(p, f).lots
      /\ q.ledger = Append(p.ledger, f)
  BY <1>4 DEF Applied
<1>6. Fifo(q)
  BY <1>1, <1>2, <1>3, <1>5, FillsAreFillable, FifoStep
<1>7. portfolio' = q
  BY <1>1, <1>4 DEF ApplyFill
<1> QED BY <1>6, <1>7 DEF Fifo

LEMMA FifoInvariant == Spec => []Fifo(portfolio)
<1>1. PortfolioInv /\ Fifo(portfolio) /\ [Next]_portfolio => Fifo(portfolio)'
  <2> SUFFICES ASSUME PortfolioInv, Fifo(portfolio), [Next]_portfolio PROVE Fifo(portfolio)'
    OBVIOUS
  <2>1. CASE UNCHANGED portfolio
    BY <2>1 DEF Fifo
  <2>2. ASSUME NEW f \in Fills, ApplyFill(f) PROVE Fifo(portfolio)'
    BY <2>2, FifoApplied
  <2>3. ASSUME NEW f \in Fills, RejectFill(f) PROVE Fifo(portfolio)'
    BY <2>1, <2>3 DEF RejectFill
  <2> QED BY <2>1, <2>2, <2>3 DEF Next
<1> QED BY <1>1, FifoInit, PortfolioInvariant, PTL DEF Spec

(* First in, first out to the unit, for every sequence of fills: the k-th  *)
(* unit ever bought is matched with the k-th ever sold, across partial     *)
(* closes and changes between long and short, and the open lots are the    *)
(* units without a partner.                                                *)
THEOREM FifoCorrect == Spec => []FifoToTheUnit
<1>1. PortfolioInv /\ Fifo(portfolio) => FifoToTheUnit
  <2> SUFFICES ASSUME PortfolioInv, Fifo(portfolio) PROVE FifoToTheUnit
    OBVIOUS
  <2>1. Countable(Fills) /\ portfolio.ledger \in Seq(Fills)
    BY LotsCountable, FillsAreFillable DEF PortfolioInv, PortfolioTypeOK
  <2>2. PICK bought \in Seq(Int) : bought = Units("buy", portfolio.ledger)
    BY <2>1, UnitsTyped
  <2>3. PICK sold \in Seq(Int) : sold = Units("sell", portfolio.ledger)
    BY <2>1, UnitsTyped
  <2>4. PICK closed : closed = DOMAIN bought \cap DOMAIN sold
    OBVIOUS
  <2>5. PICK n \in Nat : n = Shorter(bought, sold) /\ closed = 1..n
    BY <2>4, PairsTyped
  <2>6. PICK w : w = [k \in closed |-> sold[k] - bought[k]]
    OBVIOUS
  <2>7. \A k \in 1..n : w[k] \in Int /\ w[k] = PairGains("buy", bought, sold)[k]
    <3>1. \A k \in 1..n : w[k] = sold[k] - bought[k]
      BY <2>5, <2>6
    <3>2. \A k \in 1..n : /\ PairGains("buy", bought, sold)[k] \in Int
                          /\ PairGains("buy", bought, sold)[k] = sold[k] - bought[k]
      BY <2>5, PairsTyped DEF Gain
    <3> QED BY <3>1, <3>2
  <2>8. SumFunctionOnSet(w, closed) = Total(w, n)
    BY <2>5, <2>7, SumIsTotal
  <2>9. Total(PairGains("buy", bought, sold), n) = Total(w, n)
    BY <2>7, TotalSame
  <2>10. portfolio.realized = SumFunctionOnSet([k \in closed |-> sold[k] - bought[k]], closed)
    BY <2>2, <2>3, <2>5, <2>6, <2>8, <2>9 DEF Fifo, Earned
  <2> QED BY <2>2, <2>3, <2>4, <2>10 DEF Fifo, FifoToTheUnit, Beyond, Rest
<1> QED BY <1>1, FifoInvariant, PortfolioInvariant, PTL

=============================================================================
