--------------------------- MODULE PortfolioFills ---------------------------
(***************************************************************************)
(* A portfolio given any sequence of fills, and what accounting promises   *)
(* of it whatever they are.                                                *)
(***************************************************************************)
EXTENDS Portfolio

CONSTANTS
  Prices,         \* price ticks of fills and books
  FillQtys,       \* quantities of fills
  FillFees,       \* fee amounts of fills
  MaxFills,       \* bound on fill sequence ids
  MarkBooks       \* books the portfolio may be marked against

ASSUME FillsAssumption == /\ Prices \subseteq Nat /\ FillQtys \subseteq Nat \ {0}
                          /\ FillFees \subseteq Nat /\ MaxFills \in Nat

\* A book has a finite number of levels, at prices.
ASSUME MarksAssumption ==
  \A book \in MarkBooks : \A side \in Sides :
    IsFiniteSet(DOMAIN book[side]) /\ DOMAIN book[side] \subseteq Nat

VARIABLE portfolio

Fills == [seq : 1..MaxFills, side : Sides, price : Prices, qty : FillQtys, fee : FillFees]
Lots  == [side : Sides, qty : Nat \ {0}, price : Prices]

Init == portfolio = NewPortfolio

ApplyFill(f) == Acceptable(portfolio, f) /\ portfolio' = Applied(portfolio, f)

\* apply_fill works on a copy: an exception leaves the portfolio as it was.
RejectFill(f) == ~Acceptable(portfolio, f) /\ UNCHANGED portfolio

Next == \E f \in Fills : ApplyFill(f) \/ RejectFill(f)

Spec == Init /\ [][Next]_portfolio
-----------------------------------------------------------------------------
PortfolioTypeOK ==
  LET ledger == portfolio.ledger
  IN  /\ InRange(portfolio.cash) /\ InRange(portfolio.realized)
      /\ portfolio.fees \in 0..MaxAmount /\ portfolio.turnover \in 0..MaxAmount
      /\ portfolio.lots \in Seq(Lots) /\ ledger \in Seq(Fills)
      /\ \A i, j \in 1..Len(ledger) : ledger[i].seq = ledger[j].seq => i = j

(* The identity of docs/accounting.md:97: whatever was traded and whatever *)
(* the mark, equity has moved by exactly the net profit.                   *)
AccountingIdentity ==
  \A book \in MarkBooks :
    HasMark(portfolio, book) =>
      EquityX2(portfolio, book) - 2 * InitialCash = NetProfitX2(portfolio, book)

\* The prices of the fills or lots of a side, one entry for each unit.
Units(side, xs) ==
  FoldLeft(LAMBDA us, x : IF x.side = side THEN us \o [k \in 1..x.qty |-> x.price] ELSE us, << >>, xs)

Beyond(xs, ys) == SubSeq(xs, Len(ys) + 1, Len(xs))

(* First in, first out to the unit: the k-th unit ever bought is matched   *)
(* with the k-th unit ever sold, through any number of changes between     *)
(* long and short, and the open lots are the units without a partner, in   *)
(* the order they were traded.                                             *)
FifoToTheUnit ==
  LET bought == Units("buy", portfolio.ledger)
      sold   == Units("sell", portfolio.ledger)
      closed == DOMAIN bought \cap DOMAIN sold
  IN  /\ portfolio.realized = SumFunctionOnSet([k \in closed |-> sold[k] - bought[k]], closed)
      /\ Units("buy", portfolio.lots) = Beyond(bought, sold)
      /\ Units("sell", portfolio.lots) = Beyond(sold, bought)
      /\ Position(portfolio.lots) = Len(bought) - Len(sold)

(* docs/accounting.md:21-29: applying a fill fails when mark arithmetic    *)
(* would exceed the accounting range, so an accepted portfolio has a mark. *)
AcceptedCanBeMarked ==
  \A book \in MarkBooks : HasMark(portfolio, book) => MarkFits(portfolio, book)
=============================================================================
