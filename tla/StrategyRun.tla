----------------------------- MODULE StrategyRun -----------------------------
(***************************************************************************)
(* A strategy shown a feed: run_strategy of src/strategy.cpp with the two  *)
(* strategies of the repository, QueueImbalanceStrategy and the scripted   *)
(* one of src/replay_engine.cpp, built from a configuration as             *)
(* load_replay_config accepts or refuses it.  ReplayEngine::run calls a    *)
(* strategy from the same places; there its intents become orders.         *)
(***************************************************************************)
EXTENDS OrderBook, FiniteSetsExt

CONSTANTS
  Prices,        \* price ticks in the feeds
  Feeds,         \* market events in the order the loop is given them
  Cases,         \* what is run: a setting of the configuration, and a feed
  TimerTimes,    \* timestamps of StrategyTimers
  MaxTimers,     \* bound on the timers of one run
  MaxQuantity,   \* largest Quantity
  NoLimit,       \* an absent limit price
  Divide(_, _)   \* the double that two integers divided as doubles give, as a fraction

None == "none"

\* EventKey
Key(x) == <<x.ts, x.seq>>
KeyBefore(a, b) == a.ts < b.ts \/ (a.ts = b.ts /\ a.seq < b.seq)

\* What the feed's parser lets through; a feed never goes back, but may repeat a key.
Updates      == [type : {"book"}, side : Sides, price : Prices, qty : Nat] \cup [type : {"trade"}]
MarketEvents == [ts : Nat, seq : Nat, event : Updates]

ASSUME PricesAssumption == Prices \subseteq Nat /\ IsFiniteSet(Prices)
ASSUME FeedsAssumption ==
  \A f \in Feeds : f \in Seq(MarketEvents) /\ \A i, j \in DOMAIN f : i < j => ~KeyBefore(f[j], f[i])

Limits   == Int \cup {NoLimit}
Entries  == [ts : Nat, seq : Nat, side : Sides, type : {"market", "limit"}, qty : Int, limit : Limits]
Settings ==
  [strategy : {"queue_imbalance", "scripted"}, side : {None}, script : Seq(Entries), depth : Nat, qty : Int,
   type : {"market", "limit"}, limit : Limits, buyAbove : Int \X (Nat \ {0}), sellBelow : Int \X (Nat \ {0})]

ASSUME CasesAssumption ==
  /\ \A c \in Cases : c.feed \in Feeds /\ c.setting \in Settings
  /\ TimerTimes \subseteq Nat

\* Division rounds, but not beyond one in size.
ASSUME DivisionAssumption ==
  /\ MaxQuantity \in Nat /\ NoLimit \notin Int
  /\ \A d \in 1..MaxQuantity : \A n \in (-d)..d :
       LET q == Divide(n, d) IN q[1] \in Int /\ q[2] \in Nat \ {0} /\ q[1] \in (-q[2])..q[2]

VARIABLES
  setting,       \* the strategy's part of ReplayConfig
  loaded,        \* whether the configuration was read: "no", "yes", "refused"
  script,        \* intents_ of the scripted strategy, as sorted when loaded
  emitted,       \* emitted_, as the set of the places that are true
  imbalance,     \* last_queue_imbalance_ as a fraction, or None
  intents,       \* what the sink was given
  book,          \* the book the loop updates
  feed, next, now, queue, nextSeq, trace, status   \* the event loop

strategyVars == <<script, emitted, imbalance, intents>>
loopVars     == <<feed, next, now, queue, nextSeq, trace, status>>
runVars      == <<setting, loaded, strategyVars, book, loopVars>>

Loop == INSTANCE EventLoop WITH
  Events       <- {m.event : m \in UNION {Range(f) : f \in Feeds}} \cup {"timer"},
  Handlers     <- {},
  MaxScheduled <- MaxTimers

-----------------------------------------------------------------------------
(* The configuration. *)

\* Fractions with positive denominators.  Seeded error: a threshold is passed when met.
Reaches(x, y) == x[1] * y[2] >= y[1] * x[2]
Above(x, y)   == x[1] * y[2] > y[1] * x[2]

\* validate_price_ticks of an optional limit.
ValidLimit(limit) == limit # NoLimit => limit >= 0

\* parse_scripted_intent
ValidEntry(e) == ValidLimit(e.limit) /\ e.qty > 0 /\ (e.type = "limit" <=> e.limit # NoLimit)

\* Seeded error: strategy_limit_price_ticks is not looked at.
ValidWithoutLimit(s) ==
  /\ \A k \in DOMAIN s.script : ValidEntry(s.script[k])
  /\ s.qty > 0 /\ ~Above(s.sellBelow, s.buyAbove)
  /\ s.strategy = "queue_imbalance" /\ s.type = "limit" => s.limit # NoLimit
  /\ s.strategy = "scripted" => s.script # << >>

\* load_replay_config and validate_replay_config, after the scripted intents were parsed.
ValidSetting(s) ==
  /\ \A k \in DOMAIN s.script : ValidEntry(s.script[k])
  /\ ValidLimit(s.limit)
  /\ s.qty > 0 /\ ~Above(s.sellBelow, s.buyAbove)
  /\ s.strategy = "queue_imbalance" /\ s.type = "limit" => s.limit # NoLimit
  /\ s.strategy = "scripted" => s.script # << >>

\* Seeded error: the type goes before the trigger.
TypeThenTrigger(a, b) ==
  (a.type = "limit" /\ b.type = "market") \/ (a.type = b.type /\ KeyBefore(a, b))

\* By trigger, then by the name of the type: "limit" before "market".
EntryBefore(a, b) == KeyBefore(a, b) \/ (Key(a) = Key(b) /\ a.type = "limit" /\ b.type = "market")

\* std::sort is not stable: any order that the comparison allows.
Sorted(s) ==
  {t \in {[k \in DOMAIN s |-> s[p[k]]] : p \in {q \in [DOMAIN s -> DOMAIN s] : IsInjective(q)}} :
     \A i, j \in DOMAIN s : i < j => ~EntryBefore(t[j], t[i])}

Load ==
  /\ status = "idle" /\ loaded = "no"
  /\ IF ValidSetting(setting) THEN loaded' = "yes" /\ script' \in Sorted(setting.script)
                              ELSE loaded' = "refused" /\ UNCHANGED script
  /\ UNCHANGED <<setting, emitted, imbalance, intents, book, loopVars>>

-----------------------------------------------------------------------------
(* The strategies. *)

Intent(x, ts) == [side |-> x.side, type |-> x.type, qty |-> x.qty, limit |-> x.limit, ts |-> ts]

\* emit_for_key
Due(m) == {k \in DOMAIN script \ emitted : Key(script[k]) = Key(m)}

Follow(m) ==
  /\ emitted' = emitted \cup Due(m)
  /\ intents' = intents \o [i \in 1..Cardinality(Due(m)) |-> Intent(script[Turns(Due(m))[i]], m.ts)]

\* sum_quantity of the best levels of a side.
Volume(b, side) ==
  LET top == TopLevels(b, side, setting.depth)
  IN  SumFunctionOnSet([i \in DOMAIN top |-> QuantityAt(b, side, top[i])], DOMAIN top)

\* compute_queue_imbalance: what it looks at, when it throws, what it returns.
Measurable(b) == setting.depth > 0 /\ IsValid(b)
Overflows(b)  == Measurable(b) /\ Volume(b, "buy") + Volume(b, "sell") > MaxQuantity
Imbalance(b)  == Divide(Volume(b, "buy") - Volume(b, "sell"), Volume(b, "buy") + Volume(b, "sell"))

\* The side that a book calls for, if any.
Signal(b) ==
  IF ~Measurable(b) THEN None
  ELSE IF Above(Imbalance(b), setting.buyAbove) THEN "buy"
  ELSE IF Above(setting.sellBelow, Imbalance(b)) THEN "sell" ELSE None

\* QueueImbalanceStrategy::on_book
Measure(b, m) ==
  /\ imbalance' = IF Measurable(b) THEN Imbalance(b) ELSE None
  /\ intents' = IF Signal(b) = None THEN intents
                ELSE Append(intents, Intent([setting EXCEPT !.side = Signal(b)], m.ts))

-----------------------------------------------------------------------------
(* The run. *)

Init ==
  /\ \E c \in Cases : setting = c.setting /\ feed = c.feed
  /\ loaded = "no" /\ script = << >> /\ emitted = {} /\ imbalance = None /\ intents = << >>
  /\ book = EmptyBook
  /\ Loop!Init

ScheduleTimer ==
  /\ loaded = "yes"
  /\ \E t \in TimerTimes : Loop!ScheduleBeforeRun([ts |-> t, event |-> "timer"])
  /\ UNCHANGED <<setting, loaded, strategyVars, book>>

Start == loaded = "yes" /\ Loop!Run /\ UNCHANGED <<setting, loaded, strategyVars, book>>

\* The loop has updated the book when the strategy is called.
OnBook ==
  /\ Loop!MarketFirst
  /\ feed[next].event.type = "book"
  /\ book' = Apply(book, feed[next].event)
  /\ \/ setting.strategy = "scripted" /\ Follow(feed[next]) /\ UNCHANGED imbalance
     \/ /\ setting.strategy = "queue_imbalance" /\ ~Overflows(book')
        /\ Measure(book', feed[next]) /\ UNCHANGED emitted
     \/ /\ setting.strategy = "queue_imbalance" /\ Overflows(book')
        /\ UNCHANGED <<emitted, imbalance, intents>>
  /\ Loop!DispatchMarket([requests |-> << >>,
                          throws |-> setting.strategy = "queue_imbalance" /\ Overflows(book')])
  /\ UNCHANGED <<setting, loaded, script>>

OnTrade ==
  /\ Loop!MarketFirst
  /\ feed[next].event.type = "trade"
  /\ IF setting.strategy = "scripted" THEN Follow(feed[next]) ELSE UNCHANGED <<emitted, intents>>
  /\ Loop!DispatchMarket([requests |-> << >>, throws |-> FALSE])
  /\ UNCHANGED <<setting, loaded, script, imbalance, book>>

\* Neither strategy does anything on a timer.
OnTimer ==
  /\ Loop!DispatchInternal([requests |-> << >>, throws |-> FALSE])
  /\ UNCHANGED <<setting, loaded, strategyVars, book>>

Finish == Loop!Return /\ UNCHANGED <<setting, loaded, strategyVars, book>>

Over == (loaded = "refused" \/ status \in {"returned", "handler_threw"}) /\ UNCHANGED runVars

Next == Load \/ ScheduleTimer \/ Start \/ OnBook \/ OnTrade \/ OnTimer \/ Finish \/ Over

Spec == Init /\ [][Next]_runVars
-----------------------------------------------------------------------------
(* A strategy from an accepted configuration emits only intents that can   *)
(* become orders: the checks of the configuration, of which a market       *)
(* strategy with a limit is no exception, leave nothing for those of the   *)
(* Order constructor to refuse, which come much later.                     *)
StrategyTypeOK ==
  /\ imbalance # None => imbalance[2] > 0 /\ imbalance[1] \in (-imbalance[2])..imbalance[2]
  /\ emitted \subseteq DOMAIN script
  /\ \A k \in 1..Len(intents) :
       /\ intents[k].side \in Sides /\ intents[k].qty > 0 /\ intents[k].ts <= now
       /\ intents[k].limit # NoLimit => intents[k].limit \in Nat
       /\ intents[k].type = "limit" => intents[k].limit # NoLimit
       /\ intents[k].type \in {"market", "limit"}

\* The quantity that the first n events of the feed last reported for a level.
LastReported(side, price, n) ==
  LET at == {k \in 1..n : /\ feed[k].event.type = "book"
                          /\ feed[k].event.side = side /\ feed[k].event.price = price}
  IN  IF at = {} THEN 0 ELSE feed[CHOOSE k \in at : \A j \in at : j <= k].event.qty

\* The levels they have left on a side, and how many of those are better than one.
Live(side, n)     == {p \in Prices : LastReported(side, p, n) > 0}
Ahead(side, n, p) == Cardinality({q \in Live(side, n) : Better(side, q, p)})

(* The book is what the feed last said of every level and nothing else,    *)
(* listed best price first on both sides, to any depth.                    *)
DepthShowsLastReports ==
  \A side \in Sides :
    LET n    == next - 1
        live == Live(side, n)
        rank == [p \in live |-> Ahead(side, n, p)]
    IN  /\ \A p \in Prices : QuantityAt(book, side, p) = LastReported(side, p, n)
        /\ \A depth \in 0..(Cardinality(Prices) + 1) :
             LET top == TopLevels(book, side, depth)
             IN  \A p \in Prices : \A k \in 1..(Cardinality(Prices) + 1) :
                   (k <= Len(top) /\ top[k] = p) <=> (p \in live /\ k <= depth /\ rank[p] = k - 1)

(* What a scripted strategy has emitted is its script, in its order,       *)
(* without the entries whose trigger has not occurred: nothing twice, also *)
(* if a key occurs twice in the feed, and nothing out of turn.             *)
ScriptFollowed ==
  setting.strategy = "scripted" =>
    LET seen == {Key(feed[k]) : k \in 1..(next - 1)}
        due  == {k \in DOMAIN script : Key(script[k]) \in seen}
        turn == Turns(due)
    IN  intents = [i \in 1..Cardinality(due) |-> Intent(script[turn[i]], script[turn[i]].ts)]

\* What the best levels hold after n events, as last reported, and together.
Shown(side, n) ==
  SumFunctionOnSet([p \in Live(side, n) |-> LastReported(side, p, n)],
                   {p \in Live(side, n) : Ahead(side, n, p) < setting.depth})
AllShown(n) == Shown("buy", n) + Shown("sell", n)
Lean(n)     == Shown("buy", n) - Shown("sell", n)
Apart(n)    == \A b \in Live("buy", n) : \A a \in Live("sell", n) : b < a

\* The side an update that leaves the market open calls for.
Called(n) ==
  IF feed[n].event.type # "book" \/ Shown("buy", n) = 0 \/ Shown("sell", n) = 0
     \/ ~Apart(n) \/ AllShown(n) > MaxQuantity THEN None
  ELSE LET lean == Divide(Lean(n), AllShown(n))
       IN  IF lean[1] * setting.buyAbove[2] > setting.buyAbove[1] * lean[2] THEN "buy"
           ELSE IF setting.sellBelow[1] * lean[2] > lean[1] * setting.sellBelow[2] THEN "sell"
           ELSE None

(* The queue imbalance strategy has emitted one intent for each update     *)
(* after which the best levels, as last reported, were unbalanced beyond   *)
(* a threshold in an uncrossed and unlocked market, as far as a double     *)
(* can tell; it stops the run only for volumes that do not fit.            *)
SignalsMatchDepth ==
  setting.strategy = "queue_imbalance" =>
    LET calls == {n \in 1..(next - 1) : Called(n) # None}
        turn  == Turns(calls)
    IN  /\ Len(intents) = Cardinality(calls)
        /\ \A k \in 1..Len(intents) :
             intents[k].side = Called(turn[k]) /\ intents[k].ts = feed[turn[k]].ts
        /\ status = "handler_threw" =>
             /\ AllShown(next - 1) > MaxQuantity
             /\ feed[next - 1].event.type = "book" /\ Apart(next - 1)
=============================================================================
