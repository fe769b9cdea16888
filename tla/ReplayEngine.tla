---------------------------- MODULE ReplayEngine ----------------------------
(***************************************************************************)
(* A replay: the handlers that ReplayEngine::run of src/replay_engine.cpp  *)
(* (and run_latency_aware_strategy of src/latency_execution.cpp, which is  *)
(* the case without automatic cancels) gives to the event loop.  EventLoop *)
(* decides what is dispatched; the handler drives the book, the execution  *)
(* layer, the portfolio and the strategy, and schedules arrivals and       *)
(* cancels back into the loop.  The strategy is any program: after a       *)
(* market event it may emit any of IntentLists.                            *)
(***************************************************************************)
EXTENDS LatencyExecution, Portfolio

CONSTANTS
  Payloads,      \* the book updates and trades in the feeds
  Feeds,         \* merged market feeds, as merge_events delivers them
  Configs        \* order_latency, and cancel_after_arrival or NoCancel

NoCancel == -1

ASSUME ConfigsAssumption == Configs \subseteq [orderLatency : Nat, cancelAfter : Nat \cup {NoCancel}]

\* What the feed's parser lets through.
ASSUME PayloadsAssumption ==
  \A e \in Payloads :
    /\ e.price \in Prices /\ e.qty \in Nat
    /\ (e.type = "book" /\ e.side \in Sides) \/ e.type = "trade"

VARIABLES
  config,                                          \* config_
  book,                                            \* the book the loop updates
  portfolio,                                       \* portfolio, and with it applied_fill_count
  result,                                          \* "none" until run() has returned or thrown
  feed, next, now, queue, nextSeq, trace, status   \* the event loop

loopVars   == <<feed, next, now, queue, nextSeq, trace, status>>
engineVars == <<config, execVars, book, portfolio, result, loopVars>>

OrderLatency == config.orderLatency
CancelAfter  == config.cancelAfter

OrderEvent(type, id) == [type |-> type, order |-> id]

OrderEvents == {OrderEvent(type, id) : type \in {"order_arrival", "cancel_arrival"}, id \in 1..MaxOrders}

\* An order is scheduled at most twice: its arrival and one automatic cancel.
Loop == INSTANCE EventLoop WITH
  Events       <- Payloads \cup OrderEvents,
  Handlers     <- {},
  MaxScheduled <- 2 * MaxOrders

\* merge_events: sorted by key, and no key occurs twice.
Merged(f) ==
  \A i, j \in 1..Len(f) :
    i < j => f[i].ts < f[j].ts \/ (f[i].ts = f[j].ts /\ f[i].seq < f[j].seq)

ASSUME FeedsMerged ==
  \A f \in Feeds : Merged(f) /\ f \in Seq([ts : Nat, seq : Nat, event : Payloads])

-----------------------------------------------------------------------------
\* Seeded error: the latency is not added at all.
ArrivalsAtOnce ==
  [i \in 1..Cardinality(DOMAIN orders' \ DOMAIN orders) |->
     LET id == nextOrder + i - 1
     IN  [ts |-> orders'[id].arrival - OrderLatency, event |-> OrderEvent("order_arrival", id)]]

\* The arrival events of the orders this step creates.
NewArrivals ==
  [i \in 1..Cardinality(DOMAIN orders' \ DOMAIN orders) |->
     LET id == nextOrder + i - 1
     IN  [ts |-> orders'[id].arrival, event |-> OrderEvent("order_arrival", id)]]

\* The fills the portfolio has not seen, in the order of fills_.
NewFills ==
  LET applied == Len(portfolio.ledger)
  IN  [n \in 1..Cardinality({f \in fills' : f.seq > applied}) |->
         CHOOSE f \in fills' : f.seq = applied + n]

\* Seeded error: one new fill is applied at a time.
ApplyOneFill ==
  portfolio' = IF NewFills = << >> \/ ~Acceptable(portfolio, Head(NewFills)) THEN portfolio
               ELSE Applied(portfolio, Head(NewFills))

\* apply_new_fills: all of them, up to the first that the portfolio rejects.
ApplyNewFills ==
  portfolio' =
    FoldLeft(LAMBDA p, f : IF Len(p.ledger) = f.seq - 1 /\ Acceptable(p, f) THEN Applied(p, f) ELSE p,
             portfolio, NewFills)

Rejected ==
  \E f \in fills' : f.seq = Len(portfolio'.ledger) + 1 /\ ~Acceptable(portfolio', f)

EngineInit ==
  /\ config \in Configs
  /\ ExecInit
  /\ book = EmptyBook
  /\ portfolio = NewPortfolio
  /\ result = "none"
  /\ Loop!Init

Start == Loop!Run /\ UNCHANGED <<config, execVars, book, portfolio, result>>

\* The loop applies the update, then the strategy looks at the new book.
OnBook ==
  /\ Loop!MarketFirst
  /\ feed[next].event.type = "book"
  /\ book' = Apply(book, feed[next].event)
  /\ \E intents \in IntentLists : SubmitIntents(intents, OrderLatency, feed[next].ts)
  /\ Loop!DispatchMarket([requests |-> NewArrivals, throws |-> threw'])
  /\ UNCHANGED <<config, portfolio, result>>

\* Resting orders meet the trade and their fills are accounted for before the
\* strategy hears of it; a fee that overflows ends the handler before the fills
\* made so far reach the portfolio, a fill that is rejected ends it there.
OnTrade ==
  /\ Loop!MarketFirst
  /\ feed[next].event.type = "trade"
  /\ TradeEffects(feed[next].event, feed[next].ts)
  /\ IF FeeThrows(feed[next].event) THEN UNCHANGED portfolio ELSE ApplyNewFills
  /\ \/ /\ ~FeeThrows(feed[next].event) /\ ~Rejected
        /\ \E intents \in IntentLists :
             Submit(intents, OrderLatency, feed[next].ts, OrdersAfterTrade(feed[next].event))
     \/ /\ FeeThrows(feed[next].event) \/ Rejected
        /\ orders' = OrdersAfterTrade(feed[next].event)
        /\ threw' = FeeThrows(feed[next].event)
        /\ UNCHANGED nextOrder
  /\ Loop!DispatchMarket([requests |-> NewArrivals, throws |-> threw' \/ Rejected])
  /\ UNCHANGED <<executions, book, config, result>>

\* An arriving order that comes to rest has its cancel scheduled at once.
OnOrderArrival ==
  \E e \in queue :
    LET id       == e.event.order
        cancels  == CancelAfter # NoCancel /\ ~threw' /\ ~Rejected /\ id \in DOMAIN resting'
        accepted == cancels /\ CanCancel(id, CancelAfter, e.ts)'
        cancel   == [ts |-> e.ts + CancelAfter, event |-> OrderEvent("cancel_arrival", id)]
    IN  /\ Loop!IsTop(e) /\ e.event.type = "order_arrival"
        /\ UNCHANGED <<book, config, result>>
        /\ ProcessOrderArrival(id, e.ts, book)
        /\ ApplyNewFills
        /\ Loop!DispatchInternal([requests |-> IF accepted THEN <<cancel>> ELSE << >>,
                                  throws   |-> threw' \/ Rejected \/ (cancels /\ ~accepted)])

OnCancelArrival ==
  \E e \in queue :
    /\ Loop!IsTop(e) /\ e.event.type = "cancel_arrival"
    /\ ProcessCancelArrival(e.event.order)
    /\ Loop!DispatchInternal([requests |-> << >>, throws |-> threw'])
    /\ UNCHANGED <<book, portfolio, config, result>>

Finish == Loop!Return /\ UNCHANGED <<config, execVars, book, portfolio, result>>

\* After the loop: final_portfolio_mark, whose arithmetic may throw.
Report ==
  /\ status = "returned" /\ result = "none"
  /\ result' = IF HasMark(portfolio, book) => MarkFits(portfolio, book) THEN "returned" ELSE "threw"
  /\ UNCHANGED <<config, execVars, book, portfolio, loopVars>>

Step == OnBook \/ OnTrade \/ OnOrderArrival \/ OnCancelArrival \/ Finish \/ Report

Over ==
  /\ Loop!Ended /\ (status = "returned" => result # "none")
  /\ UNCHANGED <<config, execVars, book, portfolio, result>>

EngineNext == Start \/ Step \/ Over

EngineSpec == EngineInit /\ [][EngineNext]_engineVars
-----------------------------------------------------------------------------
(* While the replay runs, the scheduler and the orders agree: each pending *)
(* order has its one arrival event at its arrival time, and arrival events *)
(* belong to pending orders only, so no arrival can ever be refused, and   *)
(* nothing that is to come lies behind the clock.                          *)
ArrivalsMatchOrders ==
  LET Arrivals(id) == {e \in queue : e.event = OrderEvent("order_arrival", id)}
  IN  status = "running" =>
        /\ \A id \in 1..MaxOrders :
             /\ Cardinality(Arrivals(id)) <= 1
             /\ Arrivals(id) # {} <=> id \in DOMAIN orders /\ orders[id].status = "Pending"
             /\ \A e \in Arrivals(id) : e.ts = orders[id].arrival
        /\ \A u \in Loop!Upcoming : u.ts >= now

(* A replay that ends normally leaves no order in flight, and none resting *)
(* if orders are canceled automatically.                                   *)
OrdersResolved ==
  status = "returned" =>
    \A id \in DOMAIN orders :
      /\ orders[id].status # "Pending"
      /\ CancelAfter # NoCancel => ~Active(orders[id])

(* The only ways a replay of well-formed intents stops early: a timestamp  *)
(* that does not fit, a cancel that finds its order already filled, a fill *)
(* that does not fit the portfolio, or a fee that does not fit its type,   *)
(* for an order that is still open.                                        *)
AbortExplained ==
  status = "handler_threw" =>
    LET last == trace[Len(trace)]
    IN  \/ last.ts + OrderLatency > MaxTimestamp
        \/ CancelAfter # NoCancel /\ last.ts + CancelAfter > MaxTimestamp
        \/ /\ last.class = "internal" /\ last.event.type = "cancel_arrival"
           /\ orders[last.event.order].status = "Filled"
        \/ \E f \in fills : f.seq = Len(portfolio.ledger) + 1 /\ ~Acceptable(portfolio, f)
        \/ \E id \in DOMAIN orders, price \in Prices :
             /\ orders[id].status = "Pending" \/ Active(orders[id])
             /\ Allows(orders[id], price)
             /\ ~FeeFits(price, Remaining(orders[id]))

(* Between handlers the portfolio and the orders tell one story, though    *)
(* fills reach it in two ways: its position is what the orders are filled  *)
(* with, and its cash what the fills cost.                                 *)
PortfolioFollowsOrders ==
  LET held == [id \in DOMAIN orders |-> IF orders[id].side = "buy" THEN orders[id].filled ELSE -orders[id].filled]
      paid == [f \in fills |-> (IF f.side = "buy" THEN Notional(f) ELSE -Notional(f)) + f.fee]
  IN  status # "handler_threw" =>
        /\ Position(portfolio.lots) = SumFunctionOnSet(held, DOMAIN orders)
        /\ InitialCash - portfolio.cash = SumFunctionOnSet(paid, fills)

\* What a trade takes off the queues at its price, and what it fills.
VolumeShared(trade) ==
  LET left     == [id \in DOMAIN resting |-> IF id \in DOMAIN resting' THEN resting'[id].ahead ELSE 0]
      consumed == [id \in DOMAIN resting |-> resting[id].ahead - left[id]]
      sold     == [f \in fills' |-> f.qty]
  IN  SumFunctionOnSet(sold, fills' \ fills)
        + SumFunctionOnSet(consumed, {id \in DOMAIN resting : At(orders[id], trade)}) <= trade.qty

(* docs/execution_model.md:250: what one trade fills and what it takes off *)
(* the queues at its price is at most what was traded, however many of our *)
(* own orders it meets.                                                    *)
TradeVolumeShared ==
  [][next' > next /\ feed[next].event.type = "trade" => VolumeShared(feed[next].event)]_engineVars

\* The book as the feed makes it up to and including time t.
BookAsOf(t) ==
  LET updates == {k \in 1..Len(feed) : feed[k].event.type = "book" /\ feed[k].ts <= t}
  IN  FoldLeft(LAMBDA b, k : IF k \in updates THEN Apply(b, feed[k].event) ELSE b,
               EmptyBook, [k \in 1..Len(feed) |-> k])

(* No look-ahead and no staleness: an order meets the book exactly as the  *)
(* feed made it up to and including its arrival time, and trades only from *)
(* then on; one stamped with the arrival time itself went before it.       *)
ArrivalSeesBookAsOf ==
  [][/\ executions' > executions => book = BookAsOf(now')
     /\ \A f \in fills' \ fills :
          IF next' > next THEN f.ts > orders[f.order].arrival
                          ELSE f.ts = orders[f.order].arrival]_engineVars

\* The trades since an order arrived, and what was traded of them at its limit.
Since(id) == {k \in 1..(next - 1) : feed[k].event.type = "trade" /\ feed[k].ts > orders[id].arrival}

TradedAt(id) ==
  LET at == {k \in Since(id) : At(orders[id], feed[k].event)}
  IN  SumFunctionOnSet([k \in at |-> feed[k].event.qty], at)

Jumped(id) == \E k \in Since(id) : Through(orders[id], feed[k].event)

\* The fills an order made as it arrived.
SweptBy(id)  == {f \in fills : f.order = id /\ f.ts = orders[id].arrival}
SweptQty(id) == SumFunctionOnSet([f \in SweptBy(id) |-> f.qty], SweptBy(id))

\* The queue it joined: the configured share of what was visible at its limit,
\* or none if it took the last of the other side at that very price.
Joined(id) ==
  LET o == orders[id]
  IN  IF \E f \in SweptBy(id) : f.price = o.limit THEN 0
      ELSE InitialQueueAhead(QuantityAt(BookAsOf(o.arrival), o.side, o.limit))

(* Over its whole life a resting order is filled by what was traded at its *)
(* limit after it arrived, less the queue it joined.  It never gets more,  *)
(* and an order on its own gets exactly that; a trade through its limit    *)
(* lets it jump the queue.                                                 *)
QueueEarned ==
  status \in {"running", "returned"} =>
    \A id \in {j \in DOMAIN orders : orders[j].type = "limit" /\ orders[j].status # "Pending"} :
      LET o      == orders[id]
          earned == o.filled - SweptQty(id)
          past   == Left(TradedAt(id), Joined(id))
      IN  \/ Jumped(id)
          \/ /\ earned <= past
             /\ DOMAIN orders = {id} /\ o.status # "Canceled" =>
                  earned = Least(o.qty - SweptQty(id), past)

(* docs/event_loop.md:50-57: the loop continues until the feed and the     *)
(* scheduler are both exhausted, so whatever is scheduled is processed --  *)
(* also a cancel whose order a same-timestamp trade has filled, which is   *)
(* foreseen at docs/execution_model.md:272.                                *)
RunsToTheEnd ==
  status \notin {"idle", "running"} => queue = {} /\ next = Len(feed) + 1
=============================================================================
