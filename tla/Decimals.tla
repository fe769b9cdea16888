------------------------------ MODULE Decimals ------------------------------
(***************************************************************************)
(* The numbers of src/types.cpp: decimal prices and tick sizes, their      *)
(* exact conversion to ticks and back, and plain integers.  A text is the  *)
(* sequence of its character codes, and the widths are constants, so that  *)
(* every limit of the code's 64-bit arithmetic is met by short texts.      *)
(***************************************************************************)
EXTENDS Integers, Sequences, SequencesExt, FiniteSetsExt

CONSTANTS
  MaxU64,    \* largest std::uint64_t, the width of coefficients
  MaxI64     \* largest PriceTicks and Quantity, std::int64_t

ASSUME WidthsAssumption == MaxI64 \in Nat /\ MaxU64 \in Nat /\ MaxI64 <= MaxU64

Plus == 43
Point == 46
Zero == 48

Texts == Seq(0..255)

IsDigit(c) == c \in Zero..(Zero + 9)

\* pow10, without its check: Pow10Fits.
Pow10(exponent) ==
  LET value[count \in 0..exponent] == IF count = 0 THEN 1 ELSE 10 * value[count - 1]
  IN  value[exponent]

-----------------------------------------------------------------------------
\* checked_mul10_add
Mul10AddFits(value, digit) == value <= (MaxU64 - digit) \div 10

\* One turn of the loop over the characters.
ReadCharacter(r, c) ==
  [ok          |-> r.ok /\ IF IsDigit(c) THEN Mul10AddFits(r.coefficient, c - Zero)
                                         ELSE c = Point /\ ~r.point,
   coefficient |-> IF IsDigit(c) THEN 10 * r.coefficient + (c - Zero) ELSE r.coefficient,
   scale       |-> IF IsDigit(c) /\ r.point THEN r.scale + 1 ELSE r.scale,
   digit       |-> r.digit \/ IsDigit(c),
   point       |-> r.point \/ c = Point]

\* parse_non_negative_decimal: a single leading plus is skipped; a minus is
\* no more welcome than any other character.
Scanned(text) ==
  FoldLeft(ReadCharacter,
           [ok |-> text # << >>, coefficient |-> 0, scale |-> 0, digit |-> FALSE, point |-> FALSE],
           IF text # << >> /\ text[1] = Plus THEN Tail(text) ELSE text)

IsDecimal(text) == Scanned(text).ok /\ Scanned(text).digit

\* Final zeros behind the point are dropped, after they had to fit.
Decimal(text) ==
  LET s     == Scanned(text)
      zeros == Max({z \in 0..s.scale : s.coefficient % Pow10(z) = 0})
  IN  [coefficient |-> s.coefficient \div Pow10(zeros), scale |-> s.scale - zeros]

\* pow10 throws otherwise.
Pow10Fits(exponent) == Pow10(exponent) <= MaxU64

\* validate_tick_size: nothing is asked of the scale.
IsTickSize(text) == IsDecimal(text) /\ Decimal(text).coefficient > 0

-----------------------------------------------------------------------------
\* The quotient of price_to_ticks, which is exact in 128 bits.
Numerator(price, tick)   == Decimal(price).coefficient * Pow10(Decimal(tick).scale)
Denominator(price, tick) == Decimal(tick).coefficient * Pow10(Decimal(price).scale)

\* Seeded error: a remainder is cut off.
ConvertsDown(price, tick) ==
  /\ IsDecimal(price) /\ IsTickSize(tick)
  /\ Pow10Fits(Decimal(tick).scale) /\ Pow10Fits(Decimal(price).scale)
  /\ Numerator(price, tick) \div Denominator(price, tick) <= MaxI64

\* price_to_ticks returns; it throws otherwise.
Converts(price, tick) ==
  /\ IsDecimal(price) /\ IsTickSize(tick)
  /\ Pow10Fits(Decimal(tick).scale) /\ Pow10Fits(Decimal(price).scale)
  /\ Numerator(price, tick) % Denominator(price, tick) = 0
  /\ Numerator(price, tick) \div Denominator(price, tick) <= MaxI64

PriceToTicks(price, tick) == Numerator(price, tick) \div Denominator(price, tick)

\* ticks_to_price returns.
CanFormat(ticks, tick) == IsTickSize(tick) /\ ticks * Decimal(tick).coefficient <= MaxU64

\* format_scaled_decimal: at least one digit before the point.
TicksToPrice(ticks, tick) ==
  LET n      == ticks * Decimal(tick).coefficient
      scale  == Decimal(tick).scale
      width  == CHOOSE w \in 1..(n + scale + 1) :
                  w > scale /\ n < Pow10(w) /\ (w = scale + 1 \/ Pow10(w - 1) <= n)
      digits == [k \in 1..width |-> Zero + ((n \div Pow10(width - k)) % 10)]
  IN  IF scale = 0 THEN digits
      ELSE SubSeq(digits, 1, width - scale) \o <<Point>> \o SubSeq(digits, width - scale + 1, width)

-----------------------------------------------------------------------------
\* parse_non_negative_int64, by which ticks and quantities are read; digits only.
Number(text)    == FoldLeft(LAMBDA n, c : 10 * n + (c - Zero), 0, text)
IsNumber(text)  == text # << >> /\ (\A k \in DOMAIN text : IsDigit(text[k])) /\ Number(text) <= MaxI64
=============================================================================
