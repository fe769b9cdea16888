----------------------------- MODULE MarketFeed -----------------------------
(***************************************************************************)
(* How a replay gets its feed: load_book_updates_csv and load_trades_csv   *)
(* of src/market_feed.cpp open and read the two files, line by line, and   *)
(* merge_events of src/replay_engine.cpp merges what they return.  The     *)
(* first line that is refused ends the replay.  A line is what the parser  *)
(* makes of its text: blank, the header of its file, malformed, or a row   *)
(* of an event key, a side, a quantity and the text of a price.  ReplayRun *)
(* says where the files and the parser's configuration come from.          *)
(***************************************************************************)
EXTENDS Decimals, FiniteSetsExt

CONSTANTS
  NoFile,     \* there is no such file, or it was not opened yet
  ReadsFail   \* whether reads of an open file may fail

Sources == {"book", "trade"}
Sides   == {"buy", "sell"}

\* "none" is an empty column, "other" one that names no side; a malformed line
\* has the wrong number of columns, or a key or quantity that is no number.
Kinds == {"blank", "header", "malformed", "row"}
Lines == [kind : Kinds, ts : Nat, seq : Nat, side : Sides \cup {"none", "other"},
          qty : Nat, price : Texts]

Formats == {"decimal", "ticks"}

ASSUME FilesAssumption == NoFile \notin Seq(Lines)

VARIABLES
  disk,       \* the two files
  parser,     \* config_.feed_parser
  text,       \* the files as they were when they were opened
  stage,      \* "waiting", the source being read, "merge", "merged" or "refused"
  line,       \* line_number: lines read of that source
  events,     \* the events read, by source; each remembers its line
  merged      \* what merge_events returns

reading  == <<text, stage, line, events, merged>>
feedVars == <<disk, parser, reading>>

-----------------------------------------------------------------------------
\* EventKey's order.
KeyBefore(a, b) == a.ts < b.ts \/ (a.ts = b.ts /\ a.seq < b.seq)

SameKey(a, b) == a.ts = b.ts /\ a.seq = b.seq

Current == text[stage][line + 1]

\* parse_price_field
PriceReads(price) ==
  IF parser.format = "decimal" THEN Converts(price, parser.tick) ELSE IsNumber(price)

Price(price) ==
  IF parser.format = "decimal" THEN PriceToTicks(price, parser.tick) ELSE Number(price)

\* Seeded error: a book update may leave its side open as well.
SideOptional(source, l) ==
  /\ l.ts <= MaxU64 /\ l.seq <= MaxU64 /\ l.qty <= MaxI64
  /\ l.side \in Sides \cup {"none"}
  /\ PriceReads(l.price)

\* The columns of a row in their types; only a trade may leave its side open.
RowReads(source, l) ==
  /\ l.ts <= MaxU64 /\ l.seq <= MaxU64 /\ l.qty <= MaxI64
  /\ l.side \in Sides \/ (source = "trade" /\ l.side = "none")
  /\ PriceReads(l.price)

Event(source, k) ==
  LET l == text[source][k]
  IN  [source |-> source, line |-> k, ts |-> l.ts, seq |-> l.seq,
       side |-> l.side, qty |-> l.qty, price |-> Price(l.price)]

Unread ==
  /\ text = [s \in Sources |-> NoFile]
  /\ line = 0
  /\ events = [s \in Sources |-> << >>]
  /\ merged = << >>

\* parse_csv looks at the tick size first, whatever the format.
Open ==
  /\ stage \in Sources /\ text[stage] = NoFile
  /\ text' = [text EXCEPT ![stage] = disk[stage]]
  /\ stage' = IF disk[stage] # NoFile /\ IsTickSize(parser.tick) THEN stage ELSE "refused"
  /\ UNCHANGED <<disk, parser, line, events, merged>>

Reading == stage \in Sources /\ text[stage] # NoFile /\ line < Len(text[stage])

SkipBlank ==
  /\ Reading /\ Current.kind = "blank"
  /\ line' = line + 1
  /\ UNCHANGED <<disk, parser, text, stage, events, merged>>

\* The header is known by its line number, which counts blank lines.
IsHeader == Current.kind = "header" /\ events[stage] = << >> /\ line = 0

SkipHeader ==
  /\ Reading /\ IsHeader
  /\ line' = line + 1
  /\ UNCHANGED <<disk, parser, text, stage, events, merged>>

\* Any check of a row's columns that fails; a header elsewhere is such a row.
RefuseRow ==
  /\ Reading
  /\ \/ Current.kind = "malformed"
     \/ Current.kind = "header" /\ ~IsHeader
     \/ Current.kind = "row" /\ ~RowReads(stage, Current)
  /\ stage' = "refused" /\ line' = line + 1
  /\ UNCHANGED <<disk, parser, text, events, merged>>

\* Seeded error: sequence ids are not looked at.
TimeNotBackward(s, e) == s = << >> \/ s[Len(s)].ts <= e.ts

\* validate_source_order
InSourceOrder(s, e) == s = << >> \/ KeyBefore(s[Len(s)], e)

\* The event is appended, and only then compared with the one before it.
ReadRow ==
  /\ Reading /\ Current.kind = "row" /\ RowReads(stage, Current)
  /\ line' = line + 1
  /\ LET s == events[stage]
         e == Event(stage, line + 1)
     IN  /\ events' = [events EXCEPT ![stage] = Append(s, e)]
         /\ stage' = IF InSourceOrder(s, e) THEN stage ELSE "refused"
  /\ UNCHANGED <<disk, parser, text, merged>>

\* std::getline returns nothing; a failed read ends a file as its end does.
EndOfFile ==
  /\ stage \in Sources /\ text[stage] # NoFile
  /\ line = Len(text[stage]) \/ ReadsFail
  /\ stage' = IF stage = "book" THEN "trade" ELSE "merge"
  /\ line' = 0
  /\ UNCHANGED <<disk, parser, text, events, merged>>

\* The comparison of merge_events: book updates first among equal keys.
Precedes(a, b) ==
  KeyBefore(a, b) \/ (SameKey(a, b) /\ a.source = "book" /\ b.source = "trade")

\* What a stable sort returns: an entry comes after those that precede it and
\* after those before it in s that it does not precede.
StableSort(s, Before(_, _)) ==
  LET Place(i) == 1 + Cardinality({j \in 1..Len(s) :
                        Before(s[j], s[i]) \/ (j < i /\ ~Before(s[i], s[j]))})
  IN  [k \in 1..Len(s) |-> s[CHOOSE i \in 1..Len(s) : Place(i) = k]]

\* Seeded error: the sort compares times only.
SortedByTime == StableSort(events["book"] \o events["trade"], LAMBDA a, b : a.ts < b.ts)

Sorted == StableSort(events["book"] \o events["trade"], Precedes)

\* A key that occurs in both sources is refused: neighbors are compared.
Merge ==
  /\ stage = "merge"
  /\ IF \E k \in 2..Len(Sorted) : SameKey(Sorted[k - 1], Sorted[k])
     THEN stage' = "refused" /\ UNCHANGED merged
     ELSE stage' = "merged" /\ merged' = Sorted
  /\ UNCHANGED <<disk, parser, text, line, events>>

Next == Open \/ SkipBlank \/ SkipHeader \/ RefuseRow \/ ReadRow \/ EndOfFile \/ Merge
-----------------------------------------------------------------------------
(* What parse_csv returns is strictly ordered as a whole, and so free of   *)
(* duplicates, though each row is only compared with the one before it.    *)
SourcesOrdered ==
  stage # "refused" =>
    \A s \in Sources : \A i, j \in 1..Len(events[s]) :
      i < j => KeyBefore(events[s][i], events[s][j])

\* Decimal notation, and the number it denotes: the digits without the point
\* over ten to the places behind it.
Digits(t)  == {k \in DOMAIN t : IsDigit(t[k])}
Points(t)  == {k \in DOMAIN t : t[k] = Point}
Plain(t)   == /\ Digits(t) # {} /\ Cardinality(Points(t)) <= 1
              /\ DOMAIN t = Digits(t) \cup Points(t) \cup (IF t[1] = Plus THEN {1} ELSE {})
Weights(t) == [k \in Digits(t) |-> (t[k] - Zero) * Pow10(Cardinality({j \in Digits(t) : j > k}))]
Whole(t)   == SumFunctionOnSet(Weights(t), Digits(t))
Places(t)  == Cardinality({k \in Digits(t) : \E p \in Points(t) : p < k})

\* It is n ticks, on the nose.
IsTicks(n, price, tick) == Whole(price) * Pow10(Places(tick)) = n * Whole(tick) * Pow10(Places(price))

\* The digits of a price or tick size fit a coefficient, and its scale a power of ten.
Fits(t) == /\ Whole(t) <= MaxU64
           /\ \E m \in 0..Places(t) : Pow10(m) <= MaxU64 /\ Whole(t) % Pow10(Places(t) - m) = 0

GoodTick(tick) == Plain(tick) /\ Whole(tick) \in 1..MaxU64

\* docs/data_contract.md:31-37 and docs/domain_types.md:14-20, of a price.
GoodPrice(price, tick) ==
  /\ Plain(price) /\ Fits(price) /\ Fits(tick)
  /\ LET amount == Whole(price) * Pow10(Places(tick))
         unit   == Whole(tick) * Pow10(Places(price))
     IN  \E n \in 0..MaxI64 : amount = n * unit

GoodTicks(price) == price # << >> /\ Digits(price) = DOMAIN price /\ Whole(price) <= MaxI64

\* The lines of a file that hold rows.
Rows(f) == {k \in 1..Len(f) : f[k].kind = "row"}

\* docs/data_contract.md:7-56, of whole files: blank lines are ignored, and
\* whatever is left of a file may begin with the header.
Acceptable(f, source) ==
  /\ f # NoFile
  /\ \A k \in 1..Len(f) :
       /\ f[k].kind # "malformed"
       /\ f[k].kind = "header" => \A j \in 1..(k - 1) : f[j].kind = "blank"
  /\ \A k \in Rows(f) :
       /\ f[k].ts \in 0..MaxU64 /\ f[k].seq \in 0..MaxU64 /\ f[k].qty \in 0..MaxI64
       /\ f[k].side \in (IF source = "book" THEN Sides ELSE Sides \cup {"none"})
       /\ IF parser.format = "ticks" THEN GoodTicks(f[k].price) ELSE GoodPrice(f[k].price, parser.tick)
  /\ \A i, j \in Rows(f) : i < j => KeyBefore(f[i], f[j])

\* What the code asks of a header beyond the contract.
HeaderFirst(f) == \A k \in 1..Len(f) : f[k].kind = "header" => k = 1

\* A file as it was opened, or as it would be.
Input(s) == IF text[s] = NoFile THEN disk[s] ELSE text[s]

Disjoint(f, g) == \A i \in Rows(f), j \in Rows(g) : ~SameKey(f[i], g[j])

\* Both files keep the contract, and no key is in both.
KeepContract ==
  /\ GoodTick(parser.tick)
  /\ \A s \in Sources : Acceptable(Input(s), s)
  /\ Disjoint(Input("book"), Input("trade"))

(* With one exception it is the data contract that decides whether a       *)
(* replay gets a feed: the checks on columns, on neighboring rows and on   *)
(* neighboring events of the merge let nothing else pass, and refuse       *)
(* nothing that keeps the contract and fits the code's integers but a      *)
(* header behind blank lines, which is taken for a row.                    *)
ContractDecides ==
  stage \in {"merged", "refused"} =>
    (stage = "merged" <=> KeepContract /\ \A s \in Sources : HeaderFirst(Input(s)))

(* The merged feed is what the event loop relies on: strictly ordered by   *)
(* key, every row of both files in it once, and nothing else.              *)
MergedFeed ==
  stage = "merged" =>
    /\ \A i, j \in 1..Len(merged) : i < j => KeyBefore(merged[i], merged[j])
    /\ {<<merged[k].source, merged[k].line>> : k \in 1..Len(merged)} =
         UNION {{s} \X Rows(text[s]) : s \in Sources}
    /\ \A k \in 1..Len(merged) : merged[k].line \in 1..Len(text[merged[k].source])
         /\ LET l == text[merged[k].source][merged[k].line]
            IN  <<merged[k].ts, merged[k].seq, merged[k].side, merged[k].qty>> = <<l.ts, l.seq, l.side, l.qty>>

(* No price is rounded on its way in: an event has exactly as many ticks   *)
(* as its row says, and what ticks_to_price writes for them denotes the    *)
(* same price and is read as the same ticks, where it fits at all.         *)
PricesExact ==
  \A s \in Sources : \A k \in 1..Len(events[s]) :
    LET e       == events[s][k]
        price   == text[s][e.line].price
        written == TicksToPrice(e.price, parser.tick)
    IN  /\ e.price \in 0..MaxI64
        /\ parser.format = "ticks" => e.price = Whole(price)
        /\ parser.format = "decimal" => IsTicks(e.price, price, parser.tick)
        /\ parser.format = "decimal" /\ CanFormat(e.price, parser.tick) =>
             /\ IsTicks(e.price, written, parser.tick)
             /\ Converts(written, parser.tick) /\ PriceToTicks(written, parser.tick) = e.price
=============================================================================
