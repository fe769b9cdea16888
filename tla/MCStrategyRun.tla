---------------------------- MODULE MCStrategyRun ----------------------------
(***************************************************************************)
(* Small instances of StrategyRun: the queue imbalance on all short feeds  *)
(* of levels, scripts on all short feeds of keys.                          *)
(***************************************************************************)
EXTENDS StrategyRun

CONSTANTS MaxFeed, MaxLevel, MaxScript

Base ==
  [strategy |-> "queue_imbalance", side |-> None, script |-> << >>, depth |-> 1, qty |-> 1,
   type |-> "market", limit |-> NoLimit, buyAbove |-> <<1, 4>>, sellBelow |-> <<-1, 4>>]

\* Doubles that only know quarters: 1/3 becomes 1/4, the default threshold.
MCDivide(n, d) == <<(8 * n + d) \div (2 * d), 4>>

\* Defaults; two levels with thresholds at zero; the rest are refused or silent.
ImbalanceSettings ==
  {Base,
   [Base EXCEPT !.depth = 2, !.buyAbove = <<0, 1>>, !.sellBelow = <<0, 1>>, !.type = "limit", !.limit = 1]}

OddSettings ==
  {[Base EXCEPT !.depth = 0], [Base EXCEPT !.qty = 0], [Base EXCEPT !.type = "limit", !.buyAbove = <<0, 1>>],
   [Base EXCEPT !.limit = 0, !.buyAbove = <<0, 1>>], [Base EXCEPT !.limit = -1, !.buyAbove = <<0, 1>>],
   [Base EXCEPT !.sellBelow = <<1, 2>>], [Base EXCEPT !.strategy = "scripted"]}

Levels == [type : {"book"}, side : Sides, price : Prices, qty : 0..MaxLevel]

\* One event per timestamp, the first of which makes a level: shorter feeds are
\* what these have shown half way, and nothing can be taken from an empty book.
LevelFeeds ==
  {[k \in 1..MaxFeed |-> [ts |-> k, seq |-> k, event |-> s[k]]] :
     s \in {f \in [1..MaxFeed -> Levels] : f[1].qty > 0}}

\* Two markets to lean either way, ending with a trade.
OddFeeds ==
  {<<[ts |-> 1, seq |-> 1, event |-> [type |-> "book", side |-> "buy", price |-> 1, qty |-> 3 - q]],
     [ts |-> 1, seq |-> 2, event |-> [type |-> "book", side |-> "sell", price |-> 2, qty |-> q]],
     [ts |-> 2, seq |-> 3, event |-> [type |-> "trade"]]>> : q \in 1..2}

Keys == [ts : 0..1, seq : 1..2] \ {[ts |-> 1, seq |-> 2]}

MCEntries ==
  {k @@ e : k \in Keys,
            e \in {[side |-> "buy", type |-> "market", qty |-> 1, limit |-> NoLimit],
                   [side |-> "sell", type |-> "limit", qty |-> 1, limit |-> 1],
                   [side |-> "sell", type |-> "limit", qty |-> 2, limit |-> 1]}}

\* A market order with a limit, a limit order without one and with a negative one.
BadEntries ==
  [ts : {0}, seq : {1}, side : {"buy"}, type : {"market"}, qty : {1}, limit : {1}]
    \cup [ts : {0}, seq : {1}, side : {"buy"}, type : {"limit"}, qty : {1}, limit : {NoLimit, -1}]

Scripts ==
  {[Base EXCEPT !.strategy = "scripted", !.script = s] :
     s \in (BoundedSeq(MCEntries, MaxScript) \cup {<<e>> : e \in BadEntries}) \ {<< >>}}

\* Keys may repeat but not go back; a book update or a trade at each.
KeyFeeds ==
  {f \in BoundedSeq({k @@ [event |-> e] : k \in Keys,
                       e \in {[type |-> "trade"],
                              [type |-> "book", side |-> "buy", price |-> 1, qty |-> 1]}}, MaxFeed) :
     \A i \in 1..(Len(f) - 1) : ~KeyBefore(f[i + 1], f[i])}

MCFeeds == LevelFeeds \cup OddFeeds \cup KeyFeeds

MCCases ==
  [setting : ImbalanceSettings, feed : LevelFeeds] \cup [setting : OddSettings, feed : OddFeeds]
    \cup [setting : Scripts, feed : KeyFeeds]
=============================================================================
