---------------------------- MODULE ReplayConfig ----------------------------
(***************************************************************************)
(* The configuration of a replay: what load_replay_config of               *)
(* src/replay_engine.cpp makes of the keys and values of its file, and     *)
(* what validate_replay_config accepts.  A value is a number, a name, a    *)
(* fraction <<n, d>> or a text, or one of the marks below.  StrategyRun    *)
(* models what is inside of scripted_intents.                              *)
(***************************************************************************)
EXTENDS Decimals

CONSTANTS
  PpmUnit,   \* 1'000'000, the denominator of ppm rates
  Empty,     \* nothing behind the equals sign, and an optional that is not set
  Garbage,   \* what does not parse, whatever the key
  NaN        \* a floating point "nan"

ASSUME PpmAssumption == PpmUnit \in Nat \ {0}

Int64 == -(MaxI64 + 1)..MaxI64

\* "0.01"
DefaultTick == <<48, 46, 48, 49>>

Defaults ==
  [book_updates_path |-> Empty, trades_path |-> Empty, output_directory |-> Empty,
   tick_size |-> DefaultTick, price_format |-> "decimal", strategy_type |-> "queue_imbalance",
   queue_imbalance_depth_levels |-> 1,
   queue_imbalance_buy_threshold |-> <<1, 4>>, queue_imbalance_sell_threshold |-> <<-1, 4>>,
   strategy_order_quantity |-> 1, strategy_order_type |-> "market",
   strategy_limit_price_ticks |-> Empty, order_latency_ns |-> 0, cancel_after_arrival_ns |-> Empty,
   queue_fraction_ppm |-> 0, queue_fraction |-> Empty, fee_rate_ppm |-> 0, initial_cash |-> 0,
   scripted_intents |-> Empty, deterministic |-> "true"]

Keys == DOMAIN Defaults

\* optional_value, and required_value, whose default is refused.
Given(values) == [key \in Keys |-> IF key \in DOMAIN values THEN values[key] ELSE Defaults[key]]

\* Comparisons of doubles: none holds of NaN.
IsDouble(x)   == x \notin {Empty, Garbage}
Greater(x, y) == x # NaN /\ y # NaN /\ x[1] * y[2] > y[1] * x[2]

\* The conversions of load_replay_config, none of which throws.
Parses(v) ==
  /\ v.book_updates_path # Empty /\ v.trades_path # Empty
  /\ v.price_format \in {"decimal", "ticks"}
  /\ v.queue_imbalance_depth_levels \in 0..MaxU64
  /\ IsDouble(v.queue_imbalance_buy_threshold) /\ IsDouble(v.queue_imbalance_sell_threshold)
  /\ v.strategy_order_quantity \in Int64
  /\ v.strategy_order_type \in {"market", "limit"}
  /\ v.strategy_limit_price_ticks \in {Empty} \cup 0..MaxI64
  /\ v.order_latency_ns \in 0..MaxI64
  /\ v.cancel_after_arrival_ns \in {Empty} \cup 0..MaxI64
  /\ v.queue_fraction_ppm \in Int64
  /\ v.queue_fraction # Empty =>
       /\ IsDouble(v.queue_fraction)
       /\ ~Greater(<<0, 1>>, v.queue_fraction) /\ ~Greater(v.queue_fraction, <<1, 1>>)
  /\ v.fee_rate_ppm \in Int64 /\ v.initial_cash \in Int64
  /\ v.scripted_intents # Garbage
  /\ v.deterministic \in {"true", "1", "false", "0"}

\* Casting a NaN is undefined: the indefinite integer of x86-64, or the zero of AArch64.
NaNCasts == {-(MaxI64 + 1), 0}

\* static_cast<std::int64_t>(parsed * 1'000'000.0 + 0.5)
RoundedPpm(fraction, cast) ==
  IF fraction = NaN THEN cast ELSE (2 * fraction[1] * PpmUnit + fraction[2]) \div (2 * fraction[2])

\* The configuration that is built; `deterministic' is read and forgotten.
Config(v, cast) ==
  [output      |-> v.output_directory,
   tick        |-> IF v.tick_size = Empty THEN << >> ELSE v.tick_size,
   format      |-> v.price_format,
   strategy    |-> v.strategy_type,
   depth       |-> v.queue_imbalance_depth_levels,
   buyAbove    |-> v.queue_imbalance_buy_threshold,
   sellBelow   |-> v.queue_imbalance_sell_threshold,
   qty         |-> v.strategy_order_quantity,
   type        |-> v.strategy_order_type,
   limit       |-> v.strategy_limit_price_ticks,
   latency     |-> v.order_latency_ns,
   cancelAfter |-> v.cancel_after_arrival_ns,
   queuePpm    |-> IF v.queue_fraction = Empty THEN v.queue_fraction_ppm
                                               ELSE RoundedPpm(v.queue_fraction, cast),
   feePpm      |-> v.fee_rate_ppm,
   cash        |-> v.initial_cash,
   script      |-> v.scripted_intents]

\* Seeded error: the fraction is not looked at again.
ValidButFraction(c) ==
  /\ IsTickSize(c.tick) /\ c.output # Empty
  /\ c.strategy \in {"queue_imbalance", "scripted"} /\ c.qty > 0
  /\ c.strategy = "queue_imbalance" /\ c.type = "limit" => c.limit # Empty
  /\ ~Greater(c.sellBelow, c.buyAbove)
  /\ c.feePpm \in 0..PpmUnit
  /\ c.strategy = "scripted" => c.script # Empty

\* validate_replay_config, with the constructors of QueueFraction and FeeModel.
Valid(c) ==
  /\ IsTickSize(c.tick) /\ c.output # Empty
  /\ c.strategy \in {"queue_imbalance", "scripted"} /\ c.qty > 0
  /\ c.strategy = "queue_imbalance" /\ c.type = "limit" => c.limit # Empty
  /\ ~Greater(c.sellBelow, c.buyAbove)
  /\ c.queuePpm \in 0..PpmUnit /\ c.feePpm \in 0..PpmUnit
  /\ c.strategy = "scripted" => c.script # Empty
=============================================================================
