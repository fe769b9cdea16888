----------------------------- MODULE MCReplayRun -----------------------------
(***************************************************************************)
(* Invocations of the program: all short input files, all short prices     *)
(* under several tick sizes, all short command lines, every kind of error  *)
(* in the configuration, and input files that are replaced meanwhile.      *)
(***************************************************************************)
EXTENDS ReplayRun, SequencesExt

CONSTANTS Numbers, MaxBookLines, MaxTradeLines, MaxLines, MaxText, MaxArguments

Row == [kind |-> "row", ts |-> 0, seq |-> 0, side |-> "buy", qty |-> 1, price |-> <<49>>]

Set(key, value) == [kind |-> "setting", key |-> key, value |-> value]

BaseConfig ==
  <<Set("book_updates_path", "book.csv"), Set("trades_path", "trades.csv"), Set("output_directory", "out")>>

\* Every word may be taken as an output; run.kv is the configuration itself.
MCOutputs(out, elsewhere) ==
  [d \in Words \cup {"run.kv", "out", "elsewhere"} |->
     CASE d = "out" -> out [] d = "elsewhere" -> elsewhere [] d = "run.kv" -> "not a directory" [] OTHER -> "absent"]

Case ==
  [args |-> <<"--config", "run.kv">>, path |-> "run.kv", config |-> BaseConfig,
   disk |-> [s \in Sources |-> << >>], outputs |-> MCOutputs("absent", "absent"), contents |-> {}]

-----------------------------------------------------------------------------
\* The structure of files.
MCLines ==
  {[Row EXCEPT !.kind = kind] : kind \in Kinds \ {"row"}} \cup
  {[Row EXCEPT !.ts = ts, !.seq = seq] : ts \in Numbers, seq \in Numbers}

StructureInputs ==
  {f \in [book : BoundedSeq(MCLines, MaxBookLines), trade : BoundedSeq(MCLines, MaxTradeLines)] :
     Len(f.book) + Len(f.trade) <= MaxLines}
    \cup {[book |-> NoFile, trade |-> << >>], [book |-> << >>, trade |-> NoFile]}

StructureCases == {[Case EXCEPT !.disk = f] : f \in StructureInputs}

\* Columns other than the price, at their limits.
OddRows ==
  {[Row EXCEPT !.ts = MaxU64], [Row EXCEPT !.ts = MaxU64 + 1], [Row EXCEPT !.seq = MaxU64 + 1],
   [Row EXCEPT !.qty = 0], [Row EXCEPT !.qty = MaxI64], [Row EXCEPT !.qty = MaxI64 + 1]}
    \cup {[Row EXCEPT !.side = side] : side \in Sides \cup {"none", "other"}}

\* Texts of 0 1 5 . +, where a plus that is not the first is a character no
\* number has; and short ones with x, which is one everywhere.
PriceTexts == BoundedSeq({48, 49, 53, 46, 43}, MaxText) \cup BoundedSeq({49, 46, 43, 120}, MaxText - 2)

PriceRows == {[Row EXCEPT !.price = t] : t \in PriceTexts}

\* 0.1  0.5  2.5  1  0.25  0.001  1.00  0  x
Ticks ==
  {<<48, 46, 49>>, <<48, 46, 53>>, <<50, 46, 53>>, <<49>>, <<48, 46, 50, 53>>, <<48, 46, 48, 48, 49>>,
   <<49, 46, 48, 48>>, <<48>>, <<120>>}

Parsers == {<<t, "decimal">> : t \in Ticks} \cup {<<<<49>>, "ticks">>}

ColumnCases ==
  {[Case EXCEPT !.config = BaseConfig \o <<Set("tick_size", p[1]), Set("price_format", p[2])>>,
                !.disk = [s \in Sources |-> IF s = source THEN <<r>> ELSE << >>]] :
     p \in Parsers, source \in Sources, r \in OddRows}
    \cup {[Case EXCEPT !.config = BaseConfig \o <<Set("tick_size", p[1]), Set("price_format", p[2])>>,
                       !.disk = [book |-> <<r>>, trade |-> << >>]] : p \in Parsers, r \in PriceRows}

-----------------------------------------------------------------------------
\* Command lines: any, and any that goes on after the configuration.
Arguments == BoundedSeq(Words \cup {"run.kv", "elsewhere"}, MaxArguments)

ArgumentCases ==
  {[Case EXCEPT !.args = a, !.outputs = MCOutputs("artifacts", "files")] : a \in Arguments}
    \cup {[Case EXCEPT !.args = Case.args \o a, !.outputs = MCOutputs(o, e)] :
            a \in {b \in Arguments : Len(b) <= 3}, o \in {"absent", "artifacts"}, e \in Outputs}

\* Configurations: each key with a value of each kind, alone and in pairs
\* that are judged together.
Values(key) ==
  CASE key \in {"book_updates_path", "trades_path", "output_directory"} -> {Empty, "elsewhere"}
    [] key = "tick_size" -> {Empty, <<48>>, <<49>>}
    [] key \in {"price_format", "strategy_type", "strategy_order_type", "deterministic"} ->
         {Empty, Garbage, "decimal", "ticks", "queue_imbalance", "scripted", "market", "limit", "true", "0"}
    [] key \in {"queue_imbalance_buy_threshold", "queue_imbalance_sell_threshold", "queue_fraction"} ->
         {Empty, Garbage, NaN, <<-1, 2>>, <<0, 1>>, <<1, 3>>, <<1, 8>>, <<1, 1>>, <<9, 8>>}
    [] key = "scripted_intents" -> {Empty, Garbage, "intents"}
    [] OTHER -> {Empty, Garbage, -(MaxI64 + 1), -1, 0, 1, PpmUnit, PpmUnit + 1, MaxI64, MaxI64 + 1, MaxU64 + 1}

SettingsOf(keys) == {Set(key, v) : <<key, v>> \in UNION {{key} \X Values(key) : key \in keys}}

Together ==
  {{"queue_imbalance_buy_threshold", "queue_imbalance_sell_threshold"},
   {"queue_fraction", "queue_fraction_ppm"},
   {"strategy_type", "scripted_intents"}, {"strategy_order_type", "strategy_limit_price_ticks"}}

Pairs == UNION {{<<a, b>> : a \in SettingsOf(keys), b \in SettingsOf(keys)} : keys \in Together}

ConfigCases ==
  LET Written ==
        {BaseConfig \o <<l>> : l \in SettingsOf(Keys)} \cup {BaseConfig \o p : p \in Pairs}
          \cup {[BaseConfig EXCEPT ![k] = l] : k \in 1..3,
                 l \in SettingsOf({"book_updates_path", "trades_path", "output_directory"})
                         \cup {[Set("other", "x") EXCEPT !.kind = kind] : kind \in Entries}
                         \cup {Set(Empty, "x")}}
  IN  {[Case EXCEPT !.args = @ \o a, !.config = c] : a \in {<< >>, <<"--output", "elsewhere">>}, c \in Written}

-----------------------------------------------------------------------------
\* Input files that are replaced, with more, less or nothing of use.
ReplaceCases ==
  {[Case EXCEPT !.disk = [s \in Sources |-> [f[s] EXCEPT ![1].seq = IF s = "book" THEN 0 ELSE 1]],
                !.contents = {<< >>, <<Row>>, <<[Row EXCEPT !.ts = 1], [Row EXCEPT !.kind = "malformed"]>>}] :
     f \in [Sources -> {<<Row>>, <<Row, [Row EXCEPT !.ts = 1]>>}]}

MCCases == {StructureCases, ColumnCases, ArgumentCases, ConfigCases, ReplaceCases}

OneRowCase == {{[Case EXCEPT !.disk = [book |-> <<Row>>, trade |-> << >>]]}}
=============================================================================
