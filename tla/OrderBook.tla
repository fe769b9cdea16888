------------------------------ MODULE OrderBook ------------------------------
(***************************************************************************)
(* The price-level book of src/order_book.cpp as a value: each side maps   *)
(* the prices that have a level to a positive quantity.  Operators stand   *)
(* for the member functions; LevelSeq is the iteration order of the maps,  *)
(* best price first.                                                       *)
(***************************************************************************)
EXTENDS Ordering, Sequences, Functions, SequencesExt

CONSTANT MaxPriceSum    \* largest bid + ask that fits the mid price's width

Sides == {"buy", "sell"}

Opposite(side) == IF side = "buy" THEN "sell" ELSE "buy"

\* Bids are the "buy" side of the book, asks the "sell" side.
Books(prices, quantities) ==
  [Sides -> UNION {[levels -> quantities \ {0}] : levels \in SUBSET prices}]

EmptyBook == [side \in Sides |-> << >>]

\* Seeded error: a zero leaves an empty level.
ApplyKeepingZeros(book, update) ==
  [book EXCEPT ![update.side] =
     [p \in DOMAIN book[update.side] \cup {update.price} |->
        IF p = update.price THEN update.qty ELSE book[update.side][p]]]

\* apply: an absolute quantity replaces the level, zero erases it.
Apply(book, update) ==
  LET others == Restrict(book[update.side], DOMAIN book[update.side] \ {update.price})
  IN  [book EXCEPT ![update.side] =
         IF update.qty = 0 THEN others
         ELSE [p \in DOMAIN others \cup {update.price} |->
                 IF p = update.price THEN update.qty ELSE others[p]]]

\* Strictly better price on a side: higher for bids, lower for asks.
Better(side, p, q) == IF side = "buy" THEN p > q ELSE p < q

\* Seeded error: both sides are listed by ascending price.
AscendingLevelSeq(book, side) == InOrder(DOMAIN book[side], [p \in DOMAIN book[side] |-> p])

\* top_bids / top_asks over the whole depth.
LevelSeq(book, side) ==
  InOrder(DOMAIN book[side], [p \in DOMAIN book[side] |-> IF side = "buy" THEN -p ELSE p])

TopLevels(book, side, n) ==
  LET levels == LevelSeq(book, side)
  IN  SubSeq(levels, 1, IF n < Len(levels) THEN n ELSE Len(levels))

\* bid_quantity_at / ask_quantity_at with value_or(0).
QuantityAt(book, side, price) ==
  IF price \in DOMAIN book[side] THEN book[side][price] ELSE 0

TwoSided(book) == \A side \in Sides : DOMAIN book[side] # {}

\* best_bid / best_ask of a side that has levels.
BestPrice(book, side) ==
  CHOOSE p \in DOMAIN book[side] : \A q \in DOMAIN book[side] : p = q \/ Better(side, p, q)

\* spread_ticks, mid_price_x2_ticks and the market states of a two-sided book.
Spread(book)    == BestPrice(book, "sell") - BestPrice(book, "buy")
MidX2(book)     == BestPrice(book, "buy") + BestPrice(book, "sell")
MidFits(book)   == MidX2(book) <= MaxPriceSum
IsLocked(book)  == TwoSided(book) /\ Spread(book) = 0
IsCrossed(book) == TwoSided(book) /\ Spread(book) < 0
IsValid(book)   == TwoSided(book) /\ Spread(book) > 0
=============================================================================
