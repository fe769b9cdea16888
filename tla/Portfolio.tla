------------------------------ MODULE Portfolio ------------------------------
(***************************************************************************)
(* The portfolio of src/portfolio.cpp as a value: cash, fees, turnover,    *)
(* FIFO lots and realized PnL.  Operators stand for the member functions.  *)
(* All amounts are checked 64-bit integers; a fill that does not fit is    *)
(* rejected as a whole.                                                    *)
(***************************************************************************)
EXTENDS OrderBook, FiniteSetsExt

CONSTANTS
  InitialCash,    \* initial_cash_
  MaxAmount       \* largest AccountingAmount; the smallest is -MaxAmount - 1

InRange(n) == n \in (-MaxAmount - 1)..MaxAmount

ASSUME AmountsAssumption == MaxAmount \in Nat /\ InRange(InitialCash)

\* lots_ and ledger_ list the oldest first; the ledger holds the fills applied.
NewPortfolio ==
  [cash |-> InitialCash, realized |-> 0, fees |-> 0, turnover |-> 0,
   lots |-> << >>, ledger |-> << >>]

-----------------------------------------------------------------------------
\* Profit of n units entered on `side' at price `entry' and left at `exit'.
Profit(side, entry, exit, n) == (IF side = "buy" THEN exit - entry ELSE entry - exit) * n

\* The signed quantity of lots or of fills.
Position(xs) == FoldLeft(LAMBDA sum, x : IF x.side = "buy" THEN sum + x.qty ELSE sum - x.qty, 0, xs)

\* The front lot is closed by the fill unless a lot before it has survived.
Close(f, m, lot) ==
  LET n == IF m.left < lot.qty THEN m.left ELSE lot.qty
      profit == Profit(lot.side, lot.price, f.price, n)
  IN  IF m.lots # << >> \/ m.left = 0 \/ lot.side = f.side
      THEN [m EXCEPT !.lots = Append(@, lot)]
      ELSE [left |-> m.left - n, realized |-> m.realized + profit,
            fits |-> m.fits /\ InRange(profit) /\ InRange(m.realized + profit),
            lots |-> IF n = lot.qty THEN << >> ELSE <<[lot EXCEPT !.qty = lot.qty - n]>>]

\* What matching starts from, and the lot that is opened with what it leaves.
Unmatched(p, f) == [left |-> f.qty, realized |-> p.realized, fits |-> TRUE, lots |-> << >>]
Opened(f, m) == IF m.left = 0 THEN << >> ELSE <<[side |-> f.side, qty |-> m.left, price |-> f.price]>>

\* Seeded error: the newest lot is closed first.
MatchedNewestFirst(p, f) ==
  LET m == FoldRight(LAMBDA lot, acc : Close(f, acc, lot), p.lots, Unmatched(p, f))
  IN  [m EXCEPT !.lots = Reverse(m.lots) \o Opened(f, m)]

\* apply_buy_lot, apply_sell_lot: what the fill leaves of the lots.
Matched(p, f) ==
  LET m == FoldLeft(LAMBDA acc, lot : Close(f, acc, lot), Unmatched(p, f), p.lots)
  IN  [m EXCEPT !.lots = @ \o Opened(f, m)]

Notional(f) == f.price * f.qty
Paid(p, f)  == IF f.side = "buy" THEN p.cash - Notional(f) ELSE p.cash + Notional(f)

\* Seeded error: the totals are added up unchecked.
AcceptableTotals(p, f) ==
  /\ \A k \in 1..Len(p.ledger) : p.ledger[k].seq # f.seq
  /\ InRange(Notional(f)) /\ InRange(Paid(p, f)) /\ InRange(Paid(p, f) - f.fee)
  /\ Matched(p, f).fits
  /\ InRange(Position(Matched(p, f).lots))

\* Everything apply_fill checks on its way.
Acceptable(p, f) ==
  /\ \A k \in 1..Len(p.ledger) : p.ledger[k].seq # f.seq
  /\ InRange(Notional(f)) /\ InRange(Paid(p, f)) /\ InRange(Paid(p, f) - f.fee)
  /\ Matched(p, f).fits
  /\ InRange(p.fees + f.fee) /\ InRange(p.turnover + Notional(f))
  /\ InRange(Position(Matched(p, f).lots))

\* Seeded error: the fee is booked but not paid.
AppliedFeeUnpaid(p, f) ==
  [cash |-> Paid(p, f), realized |-> Matched(p, f).realized, lots |-> Matched(p, f).lots,
   fees |-> p.fees + f.fee, turnover |-> p.turnover + Notional(f), ledger |-> Append(p.ledger, f)]

\* The portfolio after an acceptable fill.
Applied(p, f) ==
  [cash |-> Paid(p, f) - f.fee, realized |-> Matched(p, f).realized, lots |-> Matched(p, f).lots,
   fees |-> p.fees + f.fee, turnover |-> p.turnover + Notional(f), ledger |-> Append(p.ledger, f)]

-----------------------------------------------------------------------------
\* mark_to_market: nothing to say of a position without an uncrossed two-sided book.
Markable(book)   == TwoSided(book) /\ ~IsCrossed(book)
HasMark(p, book) == Position(p.lots) = 0 \/ Markable(book)

LotProfitX2(lot, book) == Profit(lot.side, 2 * lot.price, MidX2(book), lot.qty)

UnrealizedX2(p, book, n) ==
  FoldLeft(LAMBDA sum, lot : sum + LotProfitX2(lot, book), 0, SubSeq(p.lots, 1, n))

OpenProfitX2(p, book) == IF Markable(book) THEN UnrealizedX2(p, book, Len(p.lots)) ELSE 0
InventoryX2(p, book)  == IF Markable(book) THEN Position(p.lots) * MidX2(book) ELSE 0
EquityX2(p, book)     == 2 * p.cash + InventoryX2(p, book)
NetProfitX2(p, book)  == 2 * p.realized + OpenProfitX2(p, book) - 2 * p.fees

\* The mark's own checks; one that fails throws out of mark_to_market.
MarkFits(p, book) ==
  /\ Markable(book) => /\ MidFits(book)
                       /\ \A n \in 1..Len(p.lots) : /\ InRange(LotProfitX2(p.lots[n], book))
                                                     /\ InRange(UnrealizedX2(p, book, n))
  /\ InRange(2 * p.cash) /\ InRange(InventoryX2(p, book))
  /\ InRange(EquityX2(p, book)) /\ InRange(NetProfitX2(p, book))
=============================================================================
