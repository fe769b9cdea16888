-------------------------- MODULE LatencyExecution --------------------------
(***************************************************************************)
(* LatencyAwareExecution of src/latency_execution.cpp with the market      *)
(* order sweep and the fill and order factories of                         *)
(* src/execution_simulator.cpp and the lifecycle of src/order.cpp.  Each   *)
(* public call is one action, and a call that throws sets `threw'.  Any    *)
(* caller is allowed: events may be delivered in any order, repeatedly, to *)
(* the wrong order, and against any book.  ReplayEngine composes this      *)
(* module with the event loop, which is the only caller in the engine.     *)
(*                                                                         *)
(* Amounts handed out along a list (levels of a side, orders in the        *)
(* registry) are written from what the entries ahead in the list want,     *)
(* instead of with the loop's running remainder.                           *)
(***************************************************************************)
EXTENDS OrderBook, FiniteSetsExt

CONSTANTS
  Prices,            \* price ticks in use
  MaxQty,            \* bound on order, level and trade quantities
  MaxOrders,         \* bound on order ids handed out (64-bit in the code)
  MaxTimestamp,      \* largest TimestampNs
  MaxFills,          \* bound on fill ids used up by failing calls (64-bit in the code)
  QueueFractionPpm,  \* config_.queue_fraction_ppm
  FeePpm,            \* fee_rate_ppm of the fee model
  MaxFee,            \* largest FeeAmount
  IntentLists        \* what one strategy callback may emit

Ppm     == 1000000
NoLimit == -1        \* an absent limit price
NoSide  == "none"    \* an absent aggressor side

ASSUME PricesAssumption    == Prices \subseteq Nat
ASSUME BoundsAssumption    == MaxQty \in Nat /\ MaxOrders \in Nat /\ MaxTimestamp \in Nat
ASSUME FractionsAssumption == QueueFractionPpm \in 0..Ppm /\ FeePpm \in 0..Ppm
ASSUME FeesAssumption      == MaxFills \in Nat /\ MaxFee \in Nat

VARIABLES
  orders,       \* orders_, by order id
  nextOrder,    \* next_order_id_
  executions,   \* executions_.size(): arrivals processed so far
  resting,      \* active_limit_orders_, by order id; rank is the vector order
  fills,        \* fills_, each with its fill_sequence_id
  nextFill,     \* next_fill_sequence_id_
  threw         \* the last call ended in an exception

execVars == <<orders, nextOrder, executions, resting, fills, nextFill, threw>>

Types    == {"market", "limit"}
Statuses == {"Pending", "Acknowledged", "PartiallyFilled", "Filled", "Canceled", "Rejected"}
Intents  == [side : Sides, type : Types, qty : 0..MaxQty, limit : Prices \cup {NoLimit}]
Trades   == [price : Prices, qty : 0..MaxQty, aggressor : Sides \cup {NoSide}]

ASSUME IntentsAssumption == IntentLists \subseteq Seq(Intents)

\* The books an order may arrive against: levels are positive.
BookFits(book) ==
  \A side \in Sides :
    /\ DOMAIN book[side] \subseteq Prices
    /\ IsFiniteSet(DOMAIN book[side])
    /\ \A p \in DOMAIN book[side] : book[side][p] \in Nat \ {0}

-----------------------------------------------------------------------------
Least(a, b) == IF a <= b THEN a ELSE b

\* What is left of a after b has been taken from it.
Left(a, b) == IF b \in 0..a THEN a - b ELSE 0

\* Half-up ppm share: initial_queue_ahead and calculate_fee.
HalfUp(n) == (n + Ppm \div 2) \div Ppm
InitialQueueAhead(visible) == HalfUp(visible * QueueFractionPpm)
Fee(price, qty)            == HalfUp(price * qty * FeePpm)

\* calculate_fee throws otherwise, before the fill's id is used.
FeeFits(price, qty) == Fee(price, qty) <= MaxFee

Remaining(o) == o.qty - o.filled

\* is_active_resting_status
Active(o) == o.status \in {"Acknowledged", "PartiallyFilled"}

\* The Order constructor's checks.
ValidIntent(i) == i.qty > 0 /\ (i.type = "limit" => i.limit # NoLimit)

NewOrder(i, t, latency) ==
  [side |-> i.side, type |-> i.type, limit |-> i.limit, qty |-> i.qty,
   filled |-> 0, status |-> "Pending", arrival |-> t + latency]

Fill(id, price, qty, t, seq) ==
  [order |-> id, side |-> orders[id].side, price |-> price, qty |-> qty,
   ts |-> t, seq |-> seq, fee |-> Fee(price, qty)]

Throws == threw' = TRUE /\ UNCHANGED <<orders, nextOrder, executions, resting, fills, nextFill>>

-----------------------------------------------------------------------------
\* Seeded error: the limit is not looked at.
AllowsAll(o, price) == TRUE

\* limit_price_allows_level; market orders take any level.
Allows(o, price) ==
  o.type = "limit" => price = o.limit \/ Better(Opposite(o.side), price, o.limit)

\* Levels of the opposite side an arriving order may take, and how much it
\* takes from each after the levels better than it.
Reachable(o, book) ==
  {p \in DOMAIN book[Opposite(o.side)] : Allows(o, p)}

DepthAhead(o, book, price) ==
  SumFunctionOnSet(book[Opposite(o.side)],
                   {q \in Reachable(o, book) : Better(Opposite(o.side), q, price)})

TakenAt(o, book, price) ==
  Least(book[Opposite(o.side)][price], Left(o.qty, DepthAhead(o, book, price)))

Swept(o, book) == {p \in Reachable(o, book) : TakenAt(o, book, p) > 0}

\* The levels whose fills are made before one cannot be charged.
Charged(o, book) ==
  {p \in Swept(o, book) :
     \A q \in Swept(o, book) :
       q = p \/ Better(Opposite(o.side), q, p) => FeeFits(q, TakenAt(o, book, q))}

SweepFilled(o, book) ==
  IF Reachable(o, book) = {} THEN 0
  ELSE o.qty - Left(o.qty, SumFunctionOnSet(book[Opposite(o.side)], Reachable(o, book)))

SweepFills(id, book) ==
  LET o     == orders[id]
      swept == Swept(o, book)
      Turn(p) == Cardinality({q \in swept : Better(Opposite(o.side), q, p)})
  IN  {Fill(id, p, TakenAt(o, book, p), o.arrival, nextFill + Turn(p)) : p \in swept}

\* Seeded error: a market order with a remainder is always rejected.
StatusWithoutCancel(o, book, filled) ==
  CASE filled = o.qty -> "Filled"
    [] filled < o.qty /\ o.type = "limit" -> IF filled = 0 THEN "Acknowledged" ELSE "PartiallyFilled"
    [] filled < o.qty /\ o.type = "market" -> "Rejected"

\* Where an order stands after taking `filled' from the book at its arrival:
\* a market order never rests, and is rejected by an empty opposite side.
StatusOnArrival(o, book, filled) ==
  CASE filled = o.qty -> "Filled"
    [] filled < o.qty /\ o.type = "limit" -> IF filled = 0 THEN "Acknowledged" ELSE "PartiallyFilled"
    [] filled < o.qty /\ o.type = "market" ->
         IF DOMAIN book[Opposite(o.side)] = {} THEN "Rejected" ELSE "Canceled"

\* Seeded error: the order queues behind whatever is visible.
QueueOfVisible(o, book) == InitialQueueAhead(QuantityAt(book, o.side, o.limit))

\* The queue a resting order joins: none if it just took liquidity at its limit.
QueueOnArrival(o, book) ==
  IF o.limit \in Swept(o, book) THEN 0
  ELSE InitialQueueAhead(QuantityAt(book, o.side, o.limit))

-----------------------------------------------------------------------------
\* exact_price_trade_qualifies, trade_through_qualifies
Hits(o, trade) == trade.aggressor = Opposite(o.side)
At(o, trade) == Hits(o, trade) /\ trade.price = o.limit
Through(o, trade) == Hits(o, trade) /\ Better(Opposite(o.side), trade.price, o.limit)

\* Registry entries a trade reaches, and the volume each wants of it: first
\* the queue ahead of the order, which a trade-through clears, then the order.
Reached(trade) ==
  {id \in DOMAIN resting : /\ Active(orders[id])
                           /\ At(orders[id], trade) \/ Through(orders[id], trade)}

Queue(id, trade) == IF Through(orders[id], trade) THEN 0 ELSE resting[id].ahead

\* Seeded error: each order is offered the whole trade.
WholeVolume(id, trade) == trade.qty

Wanted(trade) == [id \in Reached(trade) |-> Queue(id, trade) + Remaining(orders[id])]

Ahead(id, trade) == {j \in Reached(trade) : resting[j].rank < resting[id].rank}

VolumeBefore(id, trade) == Left(trade.qty, SumFunctionOnSet(Wanted(trade), Ahead(id, trade)))

\* Seeded errors: the order may be overfilled; the queue ahead does not count.
OverfilledBy(id, trade) == Left(VolumeBefore(id, trade), Queue(id, trade))

FilledAheadOfQueue(id, trade) == Least(Remaining(orders[id]), VolumeBefore(id, trade))

FilledBy(id, trade) ==
  Least(Remaining(orders[id]), Left(VolumeBefore(id, trade), Queue(id, trade)))

Met(trade)  == {id \in Reached(trade) : VolumeBefore(id, trade) > 0}
Owed(trade) == {id \in Met(trade) : FilledBy(id, trade) > 0}

\* Those whose fill cannot be charged: the first of them ends the call.
Uncharged(trade) == {id \in Owed(trade) : ~FeeFits(orders[id].limit, FilledBy(id, trade))}

FeeThrows(trade) == Uncharged(trade) # {}

Filled(trade) ==
  LET uncharged == Uncharged(trade)
  IN  {id \in Owed(trade) : \A j \in uncharged : resting[id].rank < resting[j].rank}

\* The entries whose queue is consumed, the one that ends the call included.
Consumed(trade) ==
  LET uncharged == Uncharged(trade)
  IN  {id \in Met(trade) : \A j \in uncharged : resting[id].rank <= resting[j].rank}

\* Seeded error: the last fill leaves the order partially filled.
AlwaysPartial(id, trade) ==
  [orders[id] EXCEPT !.filled = orders[id].filled + FilledBy(id, trade), !.status = "PartiallyFilled"]

AfterTrade(id, trade) ==
  LET o == orders[id]  filled == o.filled + FilledBy(id, trade)
  IN  [o EXCEPT !.filled = filled,
                !.status = IF filled = o.qty THEN "Filled" ELSE "PartiallyFilled"]

TradeFills(trade, t) ==
  LET filled == Filled(trade)
      Turn(id) == Cardinality({j \in filled : resting[j].rank < resting[id].rank})
  IN  {Fill(id, orders[id].limit, FilledBy(id, trade), t, nextFill + Turn(id)) : id \in filled}

-----------------------------------------------------------------------------
ExecInit ==
  /\ orders = << >>
  /\ nextOrder = 1
  /\ executions = 0
  /\ resting = << >>
  /\ fills = {}
  /\ nextFill = 1
  /\ threw = FALSE

\* A strategy callback at time t emits intents in turn while `known' are the
\* orders so far; the first intent that cannot be timed or is malformed throws,
\* the latter after its id is consumed.
Submit(intents, latency, t, known) ==
  LET timed == t + latency <= MaxTimestamp
  IN  \E n \in 0..Len(intents) :
        /\ \A i \in 1..n : timed /\ ValidIntent(intents[i])
        /\ n < Len(intents) => ~timed \/ ~ValidIntent(intents[n + 1])
        /\ nextOrder' = nextOrder + n + (IF n < Len(intents) /\ timed THEN 1 ELSE 0)
        /\ nextOrder' <= MaxOrders + 1
        /\ orders' = [id \in DOMAIN known \cup nextOrder..(nextOrder + n - 1) |->
                        IF id < nextOrder THEN known[id]
                        ELSE NewOrder(intents[id - nextOrder + 1], t, latency)]
        /\ threw' = (n < Len(intents))

SubmitIntents(intents, latency, t) ==
  /\ Submit(intents, latency, t, orders)
  /\ UNCHANGED <<executions, resting, fills, nextFill>>

\* Seeded error: partially filled orders cannot be canceled.
CanCancelUnfilled(id, latency, t) ==
  /\ id \in DOMAIN orders /\ orders[id].status = "Acknowledged"
  /\ id \in DOMAIN resting
  /\ t + latency <= MaxTimestamp

\* request_cancel only schedules an event; it needs a resting order and a time.
CanCancel(id, latency, t) ==
  /\ id \in DOMAIN orders /\ Active(orders[id])
  /\ id \in DOMAIN resting
  /\ t + latency <= MaxTimestamp

RequestCancel(id, latency, t) ==
  /\ threw' = ~CanCancel(id, latency, t)
  /\ UNCHANGED <<orders, nextOrder, executions, resting, fills, nextFill>>

\* What is found at an arrival: a fee that overflows in the middle of the
\* sweep throws the order's copy and its fills away, but not their ids.
ArrivalAccepted(id, t) ==
  id \in DOMAIN orders /\ orders[id].status = "Pending" /\ orders[id].arrival = t

ProcessOrderArrival(id, t, book) ==
  \/ /\ ArrivalAccepted(id, t)
     /\ Charged(orders[id], book) = Swept(orders[id], book)
     /\ LET o == orders[id]  filled == SweepFilled(o, book)
        IN  /\ orders' = [orders EXCEPT ![id].filled = filled,
                                        ![id].status = StatusOnArrival(o, book, filled)]
            /\ fills' = fills \cup SweepFills(id, book)
            /\ nextFill' = nextFill + Cardinality(Swept(o, book))
            /\ resting' =
                 IF o.type = "limit" /\ filled < o.qty
                 THEN [j \in DOMAIN resting \cup {id} |->
                         IF j = id THEN [ahead |-> QueueOnArrival(o, book), rank |-> executions]
                                   ELSE resting[j]]
                 ELSE resting
     /\ executions' = executions + 1
     /\ threw' = FALSE
     /\ UNCHANGED nextOrder
  \/ /\ ArrivalAccepted(id, t)
     /\ Charged(orders[id], book) # Swept(orders[id], book)
     /\ nextFill' = nextFill + Cardinality(Charged(orders[id], book))
     /\ nextFill' <= MaxFills + 1
     /\ threw' = TRUE
     /\ UNCHANGED <<orders, nextOrder, executions, resting, fills>>
  \/ ~ArrivalAccepted(id, t) /\ Throws

ProcessCancelArrival(id) ==
  \/ /\ id \in DOMAIN orders /\ Active(orders[id])
     /\ id \in DOMAIN resting
     /\ orders' = [orders EXCEPT ![id].status = "Canceled"]
     /\ resting' = Restrict(resting, DOMAIN resting \ {id})
     /\ threw' = FALSE
     /\ UNCHANGED <<nextOrder, executions, fills, nextFill>>
  \/ /\ ~(id \in DOMAIN orders /\ Active(orders[id]) /\ id \in DOMAIN resting)
     /\ Throws

\* Seeded error: the fill is recorded on the order before it is made.
RecordedUncharged(trade) ==
  [id \in DOMAIN orders |->
     IF id \in Consumed(trade) \cap Owed(trade) THEN AfterTrade(id, trade) ELSE orders[id]]

\* Public trades fill resting orders in registry order while volume lasts
\* and fees fit; a trade that is ignored or throws does not reach the erase.
\* TradeEffects is everything a trade does but the change to the orders.
OrdersAfterTrade(trade) ==
  LET filled == Filled(trade)
  IN  [id \in DOMAIN orders |-> IF id \in filled THEN AfterTrade(id, trade) ELSE orders[id]]

Ignored(trade) == trade.qty = 0 \/ trade.aggressor = NoSide

\* Seeded error: filled orders are not erased.
KeptAll(trade) == DOMAIN resting

Kept(trade) ==
  IF Ignored(trade) \/ FeeThrows(trade) THEN DOMAIN resting
  ELSE LET after == OrdersAfterTrade(trade) IN {id \in DOMAIN resting : Active(after[id])}

TradeEffects(trade, t) ==
  /\ fills' = fills \cup TradeFills(trade, t)
  /\ nextFill' = nextFill + Cardinality(Filled(trade))
  /\ LET consumed == Consumed(trade) IN
     resting' = [id \in Kept(trade) |->
                   IF id \in consumed
                   THEN [resting[id] EXCEPT
                           !.ahead = Left(Queue(id, trade), VolumeBefore(id, trade))]
                   ELSE resting[id]]

ProcessTrade(trade, t) ==
  /\ orders' = OrdersAfterTrade(trade)
  /\ TradeEffects(trade, t)
  /\ threw' = FeeThrows(trade)
  /\ UNCHANGED <<nextOrder, executions>>
-----------------------------------------------------------------------------
Orders == [side : Sides, type : Types, limit : Prices \cup {NoLimit}, qty : 1..MaxQty,
           filled : 0..MaxQty, status : Statuses, arrival : 0..MaxTimestamp]

Resting == [ahead : Nat, rank : Nat]

ExecTypeOK ==
  /\ nextOrder \in 1..(MaxOrders + 1)
  /\ DOMAIN orders \subseteq 1..(nextOrder - 1)
  /\ \A id \in DOMAIN orders : orders[id] \in Orders
  /\ executions \in Nat
  /\ \A id \in DOMAIN resting : resting[id] \in Resting
  /\ \A f \in fills : f.order \in DOMAIN orders /\ f.qty \in 1..MaxQty /\ f.seq \in 1..(nextFill - 1)
  /\ nextFill \in Nat \ {0}
  /\ threw \in BOOLEAN

\* The registry has every active order, each a limit order in a place of its own,
\* and besides them only filled ones.
RegistryHoldsActive ==
  /\ {id \in DOMAIN orders : Active(orders[id])} \subseteq DOMAIN resting
  /\ DOMAIN resting \subseteq {id \in DOMAIN orders : Active(orders[id]) \/ orders[id].status = "Filled"}
  /\ \A id \in DOMAIN resting : orders[id].type = "limit" /\ resting[id].rank < executions
  /\ \A i, j \in DOMAIN resting : resting[i].rank = resting[j].rank => i = j

\* The filled ones among them.  Only a call that throws leaves one behind, and
\* the next trade that fills an order without throwing clears them all away.
Leftover == {id \in DOMAIN resting : ~Active(orders[id])}

RegistryStep ==
  ~threw' => /\ Leftover' \subseteq Leftover
             /\ fills' # fills /\ executions' = executions => Leftover' = {}

(* The registry has every order whose status is active, so that the linear *)
(* searches of the code find what the statuses promise.  What it may have  *)
(* besides are filled orders that a call which threw half way left behind, *)
(* and they are gone after the next trade that fills an order and returns. *)
RegistryMatchesStatus == []RegistryHoldsActive /\ [][RegistryStep]_execVars

\* What a status says about how much of the order is filled.
StatusFits(o) ==
  /\ o.status \in {"Pending", "Acknowledged", "Rejected"} => o.filled = 0
  /\ o.status = "PartiallyFilled" => o.filled \in 1..(o.qty - 1)
  /\ o.status = "Filled" => o.filled = o.qty
  /\ o.status = "Canceled" => o.filled < o.qty
  /\ o.type = "limit" => o.limit # NoLimit

(* Every order's status and filled quantity agree, though arrivals and     *)
(* trades set them in separate calls on the order.                         *)
StatusMatchesQuantity == \A id \in DOMAIN orders : StatusFits(orders[id])

(* The fills of an order add up to its filled quantity, also when a fee    *)
(* overflows and the call throws half way: the sweep and the allocation of *)
(* a trade hand out what they book on the order.  Across orders and both   *)
(* ways of filling, no id is given to two fills.                           *)
FillsAddUp ==
  /\ \A id \in DOMAIN orders :
       orders[id].filled =
         SumFunctionOnSet([f \in fills |-> f.qty], {f \in fills : f.order = id})
  /\ \A f, g \in fills : f.seq = g.seq => f = g

(* No fill of a limit order is worse than its limit, and successive fills  *)
(* of one order, on arrival and later, never go back to a better price.    *)
FillsWithinLimit ==
  \A f \in fills :
    LET o == orders[f.order]
    IN  /\ Allows(o, f.price)
        /\ \A g \in fills : g.order = f.order /\ f.seq < g.seq
                              => f.price = g.price \/ Better(Opposite(o.side), f.price, g.price)

\* Of two orders on one side, the earlier at no worse a limit is served first.
PriorityStep ==
  \A i, j \in DOMAIN resting :
    /\ resting[i].rank < resting[j].rank
    /\ orders[i].side = orders[j].side
    /\ orders[i].limit = orders[j].limit \/ Better(orders[i].side, orders[i].limit, orders[j].limit)
    /\ orders'[j].filled > orders[j].filled
    => orders'[i].status = "Filled"

(* Time priority: volume reaches a resting order only past every order     *)
(* that rested before it at the same or a better limit on its side.        *)
TimePriority == [][PriorityStep]_execVars

(* The calls only ever move orders along their lifecycle.                  *)
Lifecycle == INSTANCE OrderLifecycle
OrdersFollowLifecycle == Lifecycle!Spec

=============================================================================
