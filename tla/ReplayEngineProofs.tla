------------------------- MODULE ReplayEngineProofs -------------------------
(***************************************************************************)
(* Theorems about a replay, for every feed a parser may deliver, every     *)
(* strategy, every latency and every size of book: what the handlers keep  *)
(* between the orders, the resting registry and the scheduler's queue, so  *)
(* that no event is refused and no order forgotten.                        *)
(***************************************************************************)
EXTENDS ReplayEngine, ExecutionProofs

Arrival(id) == OrderEvent("order_arrival", id)
Cancel(id)  == OrderEvent("cancel_arrival", id)

LoopTyped ==
  /\ config \in Configs
  /\ feed \in Feeds /\ next \in 1..(Len(feed) + 1)
  /\ now \in Nat /\ nextSeq \in Nat
  /\ status \in {"idle", "running", "returned", "handler_threw"}
  /\ trace \in Seq(Loop!TraceEntries)
  /\ \A e \in queue : e.ts \in Nat /\ e.seq \in Nat /\ e.event \in OrderEvents

\* Nothing that is to come lies behind the clock.
NothingLate ==
  /\ \A e \in queue : e.ts >= now
  /\ \A k \in next..Len(feed) : feed[k].ts >= now

\* What the queue holds belongs to an order that can take it.
EventsHaveOrders ==
  /\ \A e, f \in queue : e.event = f.event => e = f
  /\ \A e \in queue, id \in 1..MaxOrders :
       /\ e.event = Arrival(id) =>
            id \in DOMAIN orders /\ orders[id].status = "Pending" /\ e.ts = orders[id].arrival
       /\ e.event = Cancel(id) =>
            id \in DOMAIN orders /\ (Active(orders[id]) \/ orders[id].status = "Filled")

\* What the orders still wait for is in the queue.
OrdersHaveEvents ==
  \A id \in DOMAIN orders :
    /\ orders[id].status = "Pending" => \E e \in queue : e.event = Arrival(id)
    /\ CancelAfter # NoCancel /\ Active(orders[id]) => \E e \in queue : e.event = Cancel(id)

\* Until a handler throws.
InStep ==
  /\ EventsHaveOrders /\ OrdersHaveEvents
  /\ \A id \in DOMAIN resting : Active(orders[id])
  /\ status = "returned" => queue = {}

EngineInv ==
  /\ ExecInv /\ FillsInv
  /\ DOMAIN book = Sides /\ BookFits(book)
  /\ LoopTyped /\ NothingLate
  /\ status # "handler_threw" => InStep

-----------------------------------------------------------------------------
\* The loop.

LEMMA EventNames ==
  /\ \A id, j : /\ Arrival(id) # Cancel(j)
                /\ Arrival(id) = Arrival(j) => id = j
                /\ Cancel(id) = Cancel(j) => id = j
  /\ \A id \in 1..MaxOrders : Arrival(id) \in OrderEvents /\ Cancel(id) \in OrderEvents
  /\ \A event \in OrderEvents :
       /\ event.order \in 1..MaxOrders /\ event.type \in {"order_arrival", "cancel_arrival"}
       /\ event.type = "order_arrival" => event = Arrival(event.order)
       /\ event.type = "cancel_arrival" => event = Cancel(event.order)
<1>1. \A id, j : /\ Arrival(id) # Cancel(j)
                 /\ Arrival(id) = Arrival(j) => id = j
                 /\ Cancel(id) = Cancel(j) => id = j
  BY DEF Arrival, Cancel, OrderEvent
<1>2. \A id \in 1..MaxOrders : Arrival(id) \in OrderEvents /\ Cancel(id) \in OrderEvents
  BY DEF Arrival, Cancel, OrderEvents
<1>3. ASSUME NEW event \in OrderEvents
      PROVE  /\ event.order \in 1..MaxOrders /\ event.type \in {"order_arrival", "cancel_arrival"}
             /\ event.type = "order_arrival" => event = Arrival(event.order)
             /\ event.type = "cancel_arrival" => event = Cancel(event.order)
  <2>1. PICK type \in {"order_arrival", "cancel_arrival"}, id \in 1..MaxOrders : event = OrderEvent(type, id)
    BY DEF OrderEvents
  <2> QED BY <2>1 DEF OrderEvent, Arrival, Cancel
<1> QED BY <1>1, <1>2, <1>3

LEMMA FeedTyped ==
  ASSUME LoopTyped, NEW k \in 1..Len(feed)
  PROVE  /\ feed[k].ts \in Nat /\ feed[k].seq \in Nat /\ feed[k].event \in Payloads
         /\ Len(feed) \in Nat
         /\ \A j \in 1..Len(feed) : k < j => feed[k].ts <= feed[j].ts
<1>1. PICK E : E = [ts : Nat, seq : Nat, event : Payloads]
  OBVIOUS
<1>2. feed \in Seq(E) /\ Merged(feed)
  BY <1>1, FeedsMerged DEF LoopTyped
<1>3. Len(feed) \in Nat /\ \A j \in 1..Len(feed) : feed[j] \in E
  BY <1>2
<1>4. \A j \in 1..Len(feed) : feed[j].ts \in Nat /\ feed[j].seq \in Nat /\ feed[j].event \in Payloads
  BY <1>1, <1>3
<1>5. \A j \in 1..Len(feed) : k < j => feed[k].ts <= feed[j].ts
  BY <1>2, <1>4 DEF Merged
<1> QED BY <1>3, <1>4, <1>5

\* What the loop has queued once a handler's calls, none of them late, are made.
Queues(q, reqs) ==
  /\ queue' = q \cup {[ts |-> reqs[i].ts, seq |-> nextSeq + i - 1, event |-> reqs[i].event] : i \in 1..Len(reqs)}
  /\ nextSeq' = nextSeq + Len(reqs)

LEMMA Handled ==
  ASSUME NEW reqs, Len(reqs) \in Nat, NEW throws \in BOOLEAN, NEW t \in Nat, NEW q,
         \A i \in 1..Len(reqs) : reqs[i].ts \in Nat /\ reqs[i].ts >= t,
         Loop!Handle([requests |-> reqs, throws |-> throws], t, q)
  PROVE  /\ Queues(q, reqs)
         /\ status' = IF throws THEN "handler_threw" ELSE "running"
<1>1. PICK n \in 0..Len(reqs) :
        /\ Loop!Accepts(reqs, n, t)
        /\ queue' = q \cup Loop!Numbered(reqs, n)
        /\ nextSeq' = nextSeq + n
        /\ status' = IF n = Len(reqs) /\ ~throws THEN "running" ELSE "handler_threw"
  BY DEF Loop!Handle
<1>2. n = Len(reqs)
  <2>1. CASE n < Len(reqs)
    <3>1. reqs[n + 1].ts < t /\ n + 1 \in 1..Len(reqs)
      BY <1>1, <2>1 DEF Loop!Accepts
    <3> QED BY <3>1
  <2> QED BY <2>1
<1> QED BY <1>1, <1>2 DEF Queues, Loop!Numbered

\* The event that a new order's arrival is queued as.
ArrivalOf(id) ==
  [ts |-> orders'[id].arrival, seq |-> nextSeq + (id - nextOrder), event |-> Arrival(id)]

\* The step creates the n orders from nextOrder on, none to arrive before t.
Creates(n, t) ==
  /\ DOMAIN orders' = DOMAIN orders \cup nextOrder..(nextOrder + n - 1)
  /\ nextOrder + n <= MaxOrders + 1
  /\ \A id \in nextOrder..(nextOrder + n - 1) : orders'[id].arrival \in Nat /\ orders'[id].arrival >= t

LEMMA ArrivalsRequested ==
  ASSUME ExecTypeOK, NEW n \in Nat, NEW t, Creates(n, t)
  PROVE  /\ Len(NewArrivals) = n
         /\ \A i \in 1..n : NewArrivals[i] =
              [ts |-> orders'[nextOrder + i - 1].arrival, event |-> Arrival(nextOrder + i - 1)]
<1>1. nextOrder \in Nat /\ DOMAIN orders \subseteq 1..(nextOrder - 1)
  BY BoundsAssumption DEF ExecTypeOK
<1>2. DOMAIN orders' \ DOMAIN orders = nextOrder..(nextOrder + n - 1)
  BY <1>1 DEF Creates
<1>3. Cardinality(DOMAIN orders' \ DOMAIN orders) = n
  <2>1. Cardinality(nextOrder..(nextOrder + n - 1)) =
          IF nextOrder > nextOrder + n - 1 THEN 0 ELSE (nextOrder + n - 1) - nextOrder + 1
    BY <1>1, FS_Interval
  <2>2. Cardinality(nextOrder..(nextOrder + n - 1)) = n
    BY <1>1, <2>1
  <2> QED BY <1>2, <2>2
<1>4. NewArrivals = [i \in 1..n |-> [ts |-> orders'[nextOrder + i - 1].arrival,
                                     event |-> Arrival(nextOrder + i - 1)]]
  BY <1>3 DEF NewArrivals, Arrival
<1> QED BY <1>4

LEMMA MarketDispatched ==
  ASSUME ExecTypeOK, LoopTyped, NothingLate, NEW n \in Nat, Creates(n, feed[next].ts),
         NEW throws \in BOOLEAN,
         Loop!DispatchMarket([requests |-> NewArrivals, throws |-> throws]), config' = config
  PROVE  /\ status = "running" /\ status' = IF throws THEN "handler_threw" ELSE "running"
         /\ queue \subseteq queue'
         /\ \A e \in queue' : e \in queue \/ \E id \in nextOrder..(nextOrder + n - 1) : e = ArrivalOf(id)
         /\ \A id \in nextOrder..(nextOrder + n - 1) : ArrivalOf(id) \in queue'
         /\ trace'[Len(trace')].ts = feed[next].ts
         /\ LoopTyped' /\ NothingLate'
<1>1. /\ status = "running" /\ next <= Len(feed) /\ \A e \in queue : feed[next].ts <= e.ts
      /\ now' = feed[next].ts /\ next' = next + 1 /\ feed' = feed
      /\ trace' = Append(trace, Loop!MarketEntry(feed[next]))
      /\ Loop!Handle([requests |-> NewArrivals, throws |-> throws], feed[next].ts, queue)
  BY DEF Loop!DispatchMarket, Loop!MarketFirst
<1>2. next \in 1..Len(feed) /\ Len(feed) \in Nat /\ feed[next].ts \in Nat
      /\ feed[next].seq \in Nat /\ feed[next].event \in Payloads
      /\ \A j \in 1..Len(feed) : next < j => feed[next].ts <= feed[j].ts
  <2>1. next \in 1..Len(feed)
    <3>1. feed \in Seq([ts : Nat, seq : Nat, event : Payloads])
      BY FeedsMerged DEF LoopTyped
    <3> QED BY <1>1, <3>1 DEF LoopTyped
  <2> QED BY <2>1, FeedTyped
<1>3. nextOrder \in Nat /\ nextOrder >= 1 /\ nextSeq \in Nat /\ MaxOrders \in Nat
  BY BoundsAssumption DEF ExecTypeOK, LoopTyped
<1>4. /\ Len(NewArrivals) = n
      /\ \A i \in 1..n : NewArrivals[i] =
           [ts |-> orders'[nextOrder + i - 1].arrival, event |-> Arrival(nextOrder + i - 1)]
  BY ArrivalsRequested
<1>5. \A i \in 1..n : nextOrder + i - 1 \in nextOrder..(nextOrder + n - 1)
  BY <1>3
<1>6. \A i \in 1..n : /\ NewArrivals[i].ts = orders'[nextOrder + i - 1].arrival
                      /\ NewArrivals[i].event = Arrival(nextOrder + i - 1)
                      /\ NewArrivals[i].ts \in Nat /\ NewArrivals[i].ts >= feed[next].ts
  BY <1>4, <1>5 DEF Creates
<1>7. Queues(queue, NewArrivals) /\ status' = IF throws THEN "handler_threw" ELSE "running"
  BY <1>1, <1>2, <1>4, <1>6, Handled
<1>8. \A i \in 1..n : [ts |-> NewArrivals[i].ts, seq |-> nextSeq + i - 1, event |-> NewArrivals[i].event]
                        = ArrivalOf(nextOrder + i - 1)
  <2> SUFFICES ASSUME NEW i \in 1..n
               PROVE  [ts |-> NewArrivals[i].ts, seq |-> nextSeq + i - 1, event |-> NewArrivals[i].event]
                        = ArrivalOf(nextOrder + i - 1)
    OBVIOUS
  <2>1. nextSeq + i - 1 = nextSeq + ((nextOrder + i - 1) - nextOrder)
    BY <1>3
  <2> QED BY <1>6, <2>1 DEF ArrivalOf
<1>9. /\ queue' = queue \cup {[ts |-> NewArrivals[i].ts, seq |-> nextSeq + i - 1,
                                event |-> NewArrivals[i].event] : i \in 1..n}
      /\ nextSeq' = nextSeq + n
  BY <1>4, <1>7 DEF Queues
<1>10. \A e \in queue' : e \in queue \/ \E id \in nextOrder..(nextOrder + n - 1) : e = ArrivalOf(id)
  BY <1>5, <1>8, <1>9
<1>11. ASSUME NEW id \in nextOrder..(nextOrder + n - 1)
       PROVE  ArrivalOf(id) \in queue'
  <2>1. id - nextOrder + 1 \in 1..n /\ nextOrder + (id - nextOrder + 1) - 1 = id
    BY <1>3
  <2> QED BY <1>8, <1>9, <2>1
<1>12. \A e \in queue' : e.ts \in Nat /\ e.seq \in Nat /\ e.event \in OrderEvents /\ e.ts >= now'
  <2>1. \A e \in queue : e.ts \in Nat /\ e.seq \in Nat /\ e.event \in OrderEvents /\ e.ts >= now'
    BY <1>1, <1>2 DEF LoopTyped
  <2>2. ASSUME NEW id \in nextOrder..(nextOrder + n - 1)
        PROVE  LET e == ArrivalOf(id)
               IN  e.ts \in Nat /\ e.seq \in Nat /\ e.event \in OrderEvents /\ e.ts >= now'
    <3>1. id \in 1..MaxOrders /\ nextSeq + (id - nextOrder) \in Nat
      BY <1>3 DEF Creates
    <3>2. Arrival(id) \in OrderEvents
      BY <3>1, EventNames
    <3> QED BY <1>1, <3>1, <3>2 DEF ArrivalOf, Creates
  <2> QED BY <1>10, <2>1, <2>2
<1>13. Loop!MarketEntry(feed[next]) \in Loop!TraceEntries /\ Loop!MarketEntry(feed[next]).ts = feed[next].ts
  BY <1>2 DEF Loop!MarketEntry, Loop!TraceEntries
<1>14. trace' \in Seq(Loop!TraceEntries) /\ trace'[Len(trace')].ts = feed[next].ts
  <2>1. trace \in Seq(Loop!TraceEntries)
    BY DEF LoopTyped
  <2> QED BY <1>1, <1>13, <2>1
<1>15. \A k \in next'..Len(feed') : feed'[k].ts >= now'
  <2>1. \A k \in (next + 1)..Len(feed) : k \in 1..Len(feed) /\ next < k /\ feed[k].ts \in Nat
    <3>1. \A k \in (next + 1)..Len(feed) : k \in 1..Len(feed) /\ next < k
      BY <1>2
    <3> QED BY <3>1, FeedTyped
  <2> QED BY <1>1, <1>2, <2>1
<1>16. LoopTyped'
  <2>1. next' \in 1..(Len(feed') + 1) /\ now' \in Nat /\ nextSeq' \in Nat
    BY <1>1, <1>2, <1>3, <1>9
  <2>2. status' \in {"idle", "running", "returned", "handler_threw"}
    BY <1>7
  <2>3. config' \in Configs /\ feed' \in Feeds
    BY <1>1 DEF LoopTyped
  <2> QED BY <1>12, <1>14, <2>1, <2>2, <2>3 DEF LoopTyped
<1> QED BY <1>1, <1>7, <1>9, <1>10, <1>11, <1>12, <1>14, <1>15, <1>16 DEF NothingLate

LEMMA InternalDispatched ==
  ASSUME LoopTyped, NothingLate, NEW e \in queue, Loop!IsTop(e),
         NEW reqs, Len(reqs) \in Nat,
         \A i \in 1..Len(reqs) : reqs[i].ts \in Nat /\ reqs[i].ts >= e.ts /\ reqs[i].event \in OrderEvents,
         NEW throws \in BOOLEAN,
         Loop!DispatchInternal([requests |-> reqs, throws |-> throws]), config' = config
  PROVE  /\ status = "running" /\ status' = IF throws THEN "handler_threw" ELSE "running"
         /\ Queues(queue \ {e}, reqs)
         /\ trace'[Len(trace')] = Loop!InternalEntry(e)
         /\ LoopTyped' /\ NothingLate'
<1>1. PICK f \in queue :
        /\ Loop!IsTop(f) /\ now' = f.ts /\ trace' = Append(trace, Loop!InternalEntry(f))
        /\ Loop!Handle([requests |-> reqs, throws |-> throws], f.ts, queue \ {f})
  BY DEF Loop!DispatchInternal
<1>2. status = "running" /\ ~Loop!MarketFirst /\ feed' = feed /\ next' = next
  BY DEF Loop!DispatchInternal
<1>3. \A g \in queue : g.ts \in Nat /\ g.seq \in Nat /\ g.event \in OrderEvents
  BY DEF LoopTyped
<1>4. f = e
  BY <1>1, <1>3 DEF Loop!IsTop, Loop!EarlierScheduled
<1>5. \A g \in queue : e.ts <= g.ts
  BY <1>3 DEF Loop!IsTop, Loop!EarlierScheduled
<1>6. Queues(queue \ {e}, reqs) /\ status' = IF throws THEN "handler_threw" ELSE "running"
  BY <1>1, <1>3, <1>4, Handled
<1>7. /\ nextSeq \in Nat /\ nextSeq' \in Nat
      /\ \A g \in queue' : \/ g \in queue
                           \/ \E i \in 1..Len(reqs) :
                                g = [ts |-> reqs[i].ts, seq |-> nextSeq + i - 1, event |-> reqs[i].event]
  BY <1>6 DEF LoopTyped, Queues
<1>8. ASSUME NEW g \in queue'
      PROVE  g.ts \in Nat /\ g.seq \in Nat /\ g.event \in OrderEvents /\ g.ts >= e.ts
  <2>1. CASE g \in queue
    BY <1>3, <1>5, <2>1
  <2>2. ASSUME NEW i \in 1..Len(reqs),
               g = [ts |-> reqs[i].ts, seq |-> nextSeq + i - 1, event |-> reqs[i].event]
        PROVE  g.ts \in Nat /\ g.seq \in Nat /\ g.event \in OrderEvents /\ g.ts >= e.ts
    BY <1>7, <2>2
  <2> QED BY <1>7, <2>1, <2>2
<1>9. /\ Loop!InternalEntry(e) \in Loop!TraceEntries
      /\ trace' \in Seq(Loop!TraceEntries) /\ trace'[Len(trace')] = Loop!InternalEntry(e)
  <2>1. trace \in Seq(Loop!TraceEntries)
    BY DEF LoopTyped
  <2>2. Loop!InternalEntry(e) \in Loop!TraceEntries
    BY <1>3 DEF Loop!InternalEntry, Loop!TraceEntries
  <2> QED BY <1>1, <1>4, <2>1, <2>2
<1>10. \A k \in next..Len(feed) : feed[k].ts >= e.ts
  <2> SUFFICES ASSUME NEW k \in next..Len(feed) PROVE feed[k].ts >= e.ts
    OBVIOUS
  <2>1. Len(feed) \in Nat
    <3>1. feed \in Seq([ts : Nat, seq : Nat, event : Payloads])
      BY FeedsMerged DEF LoopTyped
    <3> QED BY <3>1
  <2>2. next \in 1..Len(feed) /\ k \in 1..Len(feed)
    BY <2>1 DEF LoopTyped
  <2>3. PICK g \in queue : ~(feed[next].ts <= g.ts)
    BY <1>2, <2>1, <2>2 DEF Loop!MarketFirst
  <2>4. /\ feed[next].ts \in Nat /\ feed[k].ts \in Nat /\ feed[next].ts <= feed[k].ts
    BY <2>1, <2>2, FeedTyped
  <2> QED BY <1>3, <1>5, <2>3, <2>4, SMTT(60)
<1>11. NothingLate'
  BY <1>1, <1>2, <1>4, <1>8, <1>10 DEF NothingLate
<1>12. LoopTyped'
  BY <1>1, <1>2, <1>3, <1>4, <1>6, <1>7, <1>8, <1>9 DEF LoopTyped
<1> QED BY <1>2, <1>6, <1>9, <1>11, <1>12

-----------------------------------------------------------------------------
\* Market events.

\* No order is decided but by its own events, except that it may be filled.
Settles ==
  \A id \in DOMAIN orders :
    /\ id \in DOMAIN orders'
    /\ orders[id].status = "Pending" => orders'[id] = orders[id]
    /\ orders'[id].status = "Pending" => orders[id].status = "Pending"
    /\ Active(orders[id]) \/ orders[id].status = "Filled"
         => Active(orders'[id]) \/ orders'[id].status = "Filled"
    /\ Active(orders'[id]) => Active(orders[id])

LEMMA MarketInStep ==
  ASSUME EngineInv, status = "running", status' = "running", config' = config,
         NEW n \in Nat, NEW t, Creates(n, t), Settles,
         \A id \in nextOrder..(nextOrder + n - 1) : orders'[id].status = "Pending",
         \A id \in DOMAIN resting' : Active(orders'[id]),
         queue \subseteq queue',
         \A e \in queue' : e \in queue \/ \E id \in nextOrder..(nextOrder + n - 1) : e = ArrivalOf(id),
         \A id \in nextOrder..(nextOrder + n - 1) : ArrivalOf(id) \in queue'
  PROVE  InStep'
<1> DEFINE New == nextOrder..(nextOrder + n - 1)
<1>1. /\ nextOrder \in Nat /\ nextOrder >= 1 /\ DOMAIN orders \subseteq 1..(nextOrder - 1)
      /\ DOMAIN orders' = DOMAIN orders \cup New
      /\ \A id \in New : id \notin DOMAIN orders
      /\ nextSeq \in Nat /\ OrdersHaveEvents /\ EventsHaveOrders
  BY BoundsAssumption DEF EngineInv, ExecInv, ExecTypeOK, LoopTyped, InStep, Creates
<1>2. \A id \in New : /\ ArrivalOf(id).event = Arrival(id) /\ ArrivalOf(id).ts = orders'[id].arrival
                      /\ orders'[id].status = "Pending" /\ ~Active(orders'[id])
  BY DEF ArrivalOf, Active
<1>3. \A e \in queue : \A id \in 1..MaxOrders :
        e.event = Arrival(id) \/ e.event = Cancel(id) => id \in DOMAIN orders
  BY <1>1 DEF EventsHaveOrders
<1>4. New \subseteq 1..MaxOrders
  BY <1>1, BoundsAssumption DEF Creates
<1> HIDE DEF New
<1>5. ASSUME NEW e \in queue', NEW f \in queue', e.event = f.event
      PROVE  e = f
  <2>1. CASE e \in queue /\ f \in queue
    BY <1>1, <1>5, <2>1 DEF EventsHaveOrders
  <2>2. ASSUME NEW id \in New, e = ArrivalOf(id), f \in queue
        PROVE  FALSE
    BY <1>1, <1>2, <1>3, <1>4, <1>5, <2>2
  <2>3. ASSUME NEW id \in New, f = ArrivalOf(id), e \in queue
        PROVE  FALSE
    BY <1>1, <1>2, <1>3, <1>4, <1>5, <2>3
  <2>4. ASSUME NEW id \in New, NEW j \in New, e = ArrivalOf(id), f = ArrivalOf(j)
        PROVE  e = f
    BY <1>2, <1>5, <2>4, EventNames
  <2> QED BY <2>1, <2>2, <2>3, <2>4 DEF New
<1>6. ASSUME NEW e \in queue', NEW id \in 1..MaxOrders
      PROVE  /\ e.event = Arrival(id) =>
                  id \in DOMAIN orders' /\ orders'[id].status = "Pending" /\ e.ts = orders'[id].arrival
             /\ e.event = Cancel(id) =>
                  id \in DOMAIN orders' /\ (Active(orders'[id]) \/ orders'[id].status = "Filled")
  <2>1. CASE e \in queue
    BY <1>1, <2>1 DEF EventsHaveOrders, Settles
  <2>2. ASSUME NEW j \in New, e = ArrivalOf(j)
        PROVE  /\ e.event = Arrival(id) =>
                    id \in DOMAIN orders' /\ orders'[id].status = "Pending" /\ e.ts = orders'[id].arrival
               /\ e.event # Cancel(id)
    BY <1>1, <1>2, <2>2, EventNames
  <2> QED BY <2>1, <2>2 DEF New
<1>7. EventsHaveOrders'
  BY <1>5, <1>6 DEF EventsHaveOrders
<1>8. ASSUME NEW id \in DOMAIN orders'
      PROVE  /\ orders'[id].status = "Pending" => \E e \in queue' : e.event = Arrival(id)
             /\ (CancelAfter # NoCancel)' /\ Active(orders'[id]) => \E e \in queue' : e.event = Cancel(id)
  <2>1. CASE id \in New
    BY <1>2, <2>1 DEF New
  <2>2. CASE id \in DOMAIN orders
    <3>1. (CancelAfter # NoCancel)' <=> CancelAfter # NoCancel
      BY DEF CancelAfter
    <3> QED BY <1>1, <2>2, <3>1 DEF OrdersHaveEvents, Settles
  <2> QED BY <1>1, <2>1, <2>2
<1>9. OrdersHaveEvents'
  BY <1>8 DEF OrdersHaveEvents
<1> QED BY <1>7, <1>9 DEF InStep

\* Fills leave an order active or fill it; nothing else happens in a trade.
LEMMA TradeSettles ==
  ASSUME ExecInv, NEW trade, TradeFits(trade), \A id \in DOMAIN orders : orders'[id] = OrdersAfterTrade(trade)[id],
         DOMAIN orders \subseteq DOMAIN orders'
  PROVE  Settles
<1> SUFFICES ASSUME NEW id \in DOMAIN orders
             PROVE  /\ orders[id].status = "Pending" => orders'[id] = orders[id]
                    /\ orders'[id].status = "Pending" => orders[id].status = "Pending"
                    /\ Active(orders[id]) \/ orders[id].status = "Filled"
                         => Active(orders'[id]) \/ orders'[id].status = "Filled"
                    /\ Active(orders'[id]) => Active(orders[id])
  BY DEF Settles
<1>1. CASE id \notin Filled(trade)
  BY <1>1, TradeOrders
<1>2. CASE id \in Filled(trade)
  <2>1. orders'[id] = [orders[id] EXCEPT !.filled = orders[id].filled + FilledBy(id, trade),
                                         !.status = IF FilledBy(id, trade) = Remaining(orders[id])
                                                    THEN "Filled" ELSE "PartiallyFilled"]
    <3>1. orders'[id] = AfterTrade(id, trade)
      BY <1>2, TradeOrders
    <3> QED BY <1>2, <3>1, TradeFillsOrder
  <2>2. orders[id] \in Orders /\ Active(orders[id])
    BY <1>2, TradeFillsOrder, OrderTyped DEF ExecInv
  <2>3. orders'[id].status \in {"Filled", "PartiallyFilled"}
    BY <2>1, <2>2 DEF Orders
  <2> QED BY <2>2, <2>3 DEF Active
<1> QED BY <1>1, <1>2

\* The erase leaves active orders only, unless the trade was cut short.
LEMMA KeptActive ==
  ASSUME ExecInv, NEW trade, TradeFits(trade), ~FeeThrows(trade),
         \A id \in DOMAIN resting : Active(orders[id]), NEW id \in Kept(trade)
  PROVE  Active(OrdersAfterTrade(trade)[id])
<1>1. CASE Ignored(trade)
  <2>1. id \in DOMAIN resting /\ id \in DOMAIN orders
    BY <1>1 DEF Kept, ExecInv, RegistryHoldsActive
  <2>2. id \notin Filled(trade)
    <3> SUFFICES ASSUME id \in Filled(trade) PROVE FALSE
      OBVIOUS
    <3>1. /\ Hits(orders[id], trade) /\ VolumeBefore(id, trade) > 0
      BY FilledAreConsumed DEF Met, Reached, At, Through
    <3>2. orders[id].side \in Sides /\ trade.aggressor # NoSide
      BY <2>1, <3>1, OrderTyped DEF Hits, Opposite, NoSide, Sides, ExecInv
    <3>3. trade.qty = 0
      BY <1>1, <3>2 DEF Ignored
    <3>4. Left(0, SumFunctionOnSet(Wanted(trade), Ahead(id, trade))) \in 0..0
      BY LeftBounds
    <3> QED BY <3>1, <3>3, <3>4 DEF VolumeBefore
  <2> QED BY <2>1, <2>2, TradeOrders
<1>2. CASE ~Ignored(trade)
  BY <1>2 DEF Kept
<1> QED BY <1>1, <1>2

LEMMA ConfigTyped ==
  ASSUME LoopTyped
  PROVE  OrderLatency \in Nat /\ CancelAfter \in Nat \cup {NoCancel}
<1>1. config \in [orderLatency : Nat, cancelAfter : Nat \cup {NoCancel}]
  BY ConfigsAssumption DEF LoopTyped
<1> QED BY <1>1 DEF OrderLatency, CancelAfter

LEMMA ApplyFits ==
  ASSUME NEW levels, DOMAIN levels = Sides, BookFits(levels),
         NEW update, update.side \in Sides, update.price \in Prices, update.qty \in Nat
  PROVE  DOMAIN Apply(levels, update) = Sides /\ BookFits(Apply(levels, update))
<1>1. PICK side, price, qty, old :
        side = update.side /\ price = update.price /\ qty = update.qty /\ old = levels[side]
  OBVIOUS
<1>2. PICK others : others = Restrict(old, DOMAIN old \ {price})
  OBVIOUS
<1>3. PICK new : new = IF qty = 0 THEN others
                       ELSE [p \in DOMAIN others \cup {price} |-> IF p = price THEN qty ELSE others[p]]
  OBVIOUS
<1>4. Apply(levels, update) = [levels EXCEPT ![side] = new]
  BY <1>1, <1>2, <1>3 DEF Apply
<1>5. /\ DOMAIN old \subseteq Prices /\ IsFiniteSet(DOMAIN old)
      /\ \A p \in DOMAIN old : old[p] \in Nat \ {0}
  BY <1>1 DEF BookFits
<1>6. DOMAIN others = DOMAIN old \ {price} /\ \A p \in DOMAIN others : others[p] = old[p]
  BY <1>2 DEF Restrict
<1>7. DOMAIN new \subseteq DOMAIN old \cup {price} /\ \A p \in DOMAIN new : new[p] \in Nat \ {0}
  BY <1>1, <1>3, <1>5, <1>6
<1>8. IsFiniteSet(DOMAIN new)
  BY <1>5, <1>7, FS_AddElement, FS_Subset
<1>9. ASSUME NEW s \in Sides
      PROVE  LET after == Apply(levels, update)[s]
             IN  /\ DOMAIN after \subseteq Prices /\ IsFiniteSet(DOMAIN after)
                 /\ \A p \in DOMAIN after : after[p] \in Nat \ {0}
  <2>1. CASE s = side
    <3>1. Apply(levels, update)[s] = new
      BY <1>1, <1>4, <2>1
    <3>2. DOMAIN new \subseteq Prices
      BY <1>1, <1>5, <1>7
    <3> QED BY <1>7, <1>8, <3>1, <3>2
  <2>2. CASE s # side
    <3>1. Apply(levels, update)[s] = levels[s]
      BY <1>1, <1>4, <2>2
    <3> QED BY <3>1 DEF BookFits
  <2> QED BY <2>1, <2>2
<1>10. DOMAIN Apply(levels, update) = Sides
  BY <1>4
<1> QED BY <1>9, <1>10 DEF BookFits

LEMMA NextPayload ==
  ASSUME LoopTyped, Loop!MarketFirst
  PROVE  /\ next \in 1..Len(feed) /\ feed[next].ts \in Nat /\ feed[next].event \in Payloads
         /\ feed[next].event.type = "trade" => TradeFits(feed[next].event)
         /\ feed[next].event.type = "book" =>
              /\ feed[next].event.side \in Sides
              /\ feed[next].event.price \in Prices /\ feed[next].event.qty \in Nat
<1>1. feed \in Seq([ts : Nat, seq : Nat, event : Payloads])
  BY FeedsMerged DEF LoopTyped
<1>2. next \in 1..Len(feed)
  BY <1>1 DEF LoopTyped, Loop!MarketFirst
<1>3. feed[next].ts \in Nat /\ feed[next].event \in Payloads
  BY <1>2, FeedTyped
<1> QED BY <1>2, <1>3, PayloadsAssumption DEF TradeFits

\* What a callback submits is what the loop is asked to queue.
LEMMA SubmitCreates ==
  ASSUME ExecTypeOK, LoopTyped, NEW intents \in IntentLists, NEW t \in Nat,
         NEW known, DOMAIN known = DOMAIN orders, Submit(intents, OrderLatency, t, known)
  PROVE  /\ Extends(known) /\ threw' \in BOOLEAN
         /\ \E n \in Nat :
              Creates(n, t) /\ \A id \in nextOrder..(nextOrder + n - 1) : orders'[id].status = "Pending"
         /\ threw' => \/ t + OrderLatency > MaxTimestamp
                     \/ \E i \in DOMAIN intents : ~ValidIntent(intents[i])
<1>1. intents \in Seq(Intents) /\ OrderLatency \in Nat
  BY IntentsAssumption, ConfigTyped
<1>2. PICK n \in 0..Len(intents) : Submitted(n, intents, OrderLatency, t, known)
  BY <1>1, SubmitEffect
<1>3. n \in Nat /\ nextOrder \in Nat /\ MaxOrders \in Nat
  BY BoundsAssumption DEF ExecTypeOK
<1>4. Creates(n, t)
  <2>1. nextOrder + n <= MaxOrders + 1
    BY <1>2, <1>3 DEF Submitted
  <2>2. \A id \in nextOrder..(nextOrder + n - 1) : orders'[id].arrival = t + OrderLatency
    BY <1>2 DEF Submitted
  <2>3. t + OrderLatency \in Nat /\ t + OrderLatency >= t
    BY <1>1
  <2>4. DOMAIN orders' = DOMAIN orders \cup nextOrder..(nextOrder + n - 1)
    BY <1>2 DEF Submitted
  <2> QED BY <2>1, <2>2, <2>3, <2>4 DEF Creates
<1>5. \A id \in nextOrder..(nextOrder + n - 1) : orders'[id].status = "Pending"
  BY <1>2 DEF Submitted, Fresh
<1>6. Extends(known) /\ threw' \in BOOLEAN
  BY <1>1, SubmitExtends
<1>7. threw' => \/ t + OrderLatency > MaxTimestamp
                \/ \E i \in DOMAIN intents : ~ValidIntent(intents[i])
  BY <1>2 DEF Submitted
<1> QED BY <1>3, <1>4, <1>5, <1>6, <1>7

LEMMA BookKeepsInv ==
  ASSUME EngineInv, OnBook
  PROVE  EngineInv'
<1> USE DEF EngineInv
<1>1. /\ Loop!MarketFirst /\ feed[next].event.type = "book"
      /\ book' = Apply(book, feed[next].event)
      /\ config' = config
      /\ Loop!DispatchMarket([requests |-> NewArrivals, throws |-> threw'])
  BY DEF OnBook
<1>2. PICK intents \in IntentLists : SubmitIntents(intents, OrderLatency, feed[next].ts)
  BY DEF OnBook
<1>3. /\ next \in 1..Len(feed) /\ feed[next].ts \in Nat /\ feed[next].event.side \in Sides
      /\ feed[next].event.price \in Prices /\ feed[next].event.qty \in Nat
  BY <1>1, NextPayload
<1>4. BookFits(book') /\ DOMAIN book' = Sides
  BY <1>1, <1>3, ApplyFits
<1>5. Submit(intents, OrderLatency, feed[next].ts, orders) /\ UNCHANGED <<executions, resting, fills, nextFill>>
  BY <1>2 DEF SubmitIntents
<1>6. Extends(orders) /\ threw' \in BOOLEAN
  BY <1>3, <1>5, SubmitCreates DEF ExecInv
<1>7. PICK n \in Nat : /\ Creates(n, feed[next].ts)
                       /\ \A id \in nextOrder..(nextOrder + n - 1) : orders'[id].status = "Pending"
  BY <1>3, <1>5, SubmitCreates DEF ExecInv
<1>8. ExecInv' /\ FillsInv'
  <2>1. ExecInv'
    BY <1>5, <1>6, SubmitKeepsInv
  <2> QED BY <1>5, <1>6, <2>1, SubmitKeepsFills
<1>9. /\ status = "running" /\ status' = IF threw' THEN "handler_threw" ELSE "running"
      /\ queue \subseteq queue'
      /\ \A e \in queue' : e \in queue \/ \E id \in nextOrder..(nextOrder + n - 1) : e = ArrivalOf(id)
      /\ \A id \in nextOrder..(nextOrder + n - 1) : ArrivalOf(id) \in queue'
      /\ LoopTyped' /\ NothingLate'
  BY <1>1, <1>6, <1>7, MarketDispatched DEF ExecInv
<1>10. \A id \in DOMAIN orders : id \in DOMAIN orders' /\ orders'[id] = orders[id]
  BY <1>6 DEF Extends
<1>11. Settles
  BY <1>10 DEF Settles
<1>12. ASSUME status' # "handler_threw"
       PROVE  InStep'
  <2>1. \A id \in DOMAIN resting' : Active(orders'[id])
    <3>1. DOMAIN resting \subseteq DOMAIN orders /\ \A id \in DOMAIN resting : Active(orders[id])
      BY <1>9 DEF InStep, ExecInv, RegistryHoldsActive
    <3> QED BY <1>5, <1>10, <3>1
  <2>2. status' = "running"
    BY <1>9, <1>12
  <2> QED BY <1>1, <1>7, <1>9, <1>11, <2>1, <2>2, MarketInStep
<1> QED BY <1>4, <1>8, <1>9, <1>12

\* What a trade, and a strategy that hears of it, do to the orders.
LEMMA TradeExtends ==
  ASSUME EngineInv, OnTrade, NEW trade, trade = feed[next].event
  PROVE  /\ Extends(OrdersAfterTrade(trade)) /\ threw' \in BOOLEAN
         /\ DOMAIN OrdersAfterTrade(trade) = DOMAIN orders
         /\ \E n \in Nat : /\ Creates(n, feed[next].ts)
                          /\ \A id \in nextOrder..(nextOrder + n - 1) : orders'[id].status = "Pending"
         /\ FeeThrows(trade) => threw'
<1> USE DEF EngineInv
<1>1. PICK t : t = feed[next].ts
  OBVIOUS
<1>2. Loop!MarketFirst /\ trade.type = "trade"
  BY DEF OnTrade
<1>3. t \in Nat /\ TradeFits(trade)
  BY <1>1, <1>2, NextPayload
<1>4. DOMAIN OrdersAfterTrade(trade) = DOMAIN orders
  BY <1>3, TradeOrders
<1>5. /\ Extends(OrdersAfterTrade(trade)) /\ threw' \in BOOLEAN
      /\ \E n \in Nat : Creates(n, t) /\ \A id \in nextOrder..(nextOrder + n - 1) : orders'[id].status = "Pending"
      /\ FeeThrows(trade) => threw'
  <2>1. CASE ~FeeThrows(trade) /\ ~Rejected /\ \E intents \in IntentLists :
               Submit(intents, OrderLatency, t, OrdersAfterTrade(trade))
    <3>1. PICK intents \in IntentLists : Submit(intents, OrderLatency, t, OrdersAfterTrade(trade))
      BY <2>1
    <3> QED BY <1>3, <1>4, <2>1, <3>1, SubmitCreates DEF ExecInv
  <2>2. CASE /\ orders' = OrdersAfterTrade(trade) /\ threw' = FeeThrows(trade) /\ UNCHANGED nextOrder
    <3>1. nextOrder \in Nat /\ nextOrder \in nextOrder..(MaxOrders + 1) /\ MaxOrders \in Nat
      BY BoundsAssumption DEF ExecInv, ExecTypeOK
    <3>2. Extends(OrdersAfterTrade(trade))
      BY <2>2, <3>1 DEF Extends
    <3>3. Creates(0, t) /\ \A id \in nextOrder..(nextOrder + 0 - 1) : orders'[id].status = "Pending"
      BY <1>4, <2>2, <3>1 DEF Creates
    <3>4. threw' \in BOOLEAN
      BY <2>2 DEF FeeThrows
    <3> QED BY <2>2, <3>2, <3>3, <3>4
  <2> QED BY <1>1, <2>1, <2>2 DEF OnTrade
<1> QED BY <1>1, <1>4, <1>5

LEMMA TradeKeepsEngineInv ==
  ASSUME EngineInv, OnTrade
  PROVE  EngineInv'
<1> USE DEF EngineInv
<1>1. PICK trade, t : trade = feed[next].event /\ t = feed[next].ts
  OBVIOUS
<1>2. /\ Loop!MarketFirst /\ trade.type = "trade" /\ TradeEffects(trade, t)
      /\ config' = config /\ book' = book /\ executions' = executions
      /\ Loop!DispatchMarket([requests |-> NewArrivals, throws |-> threw' \/ Rejected])
  BY <1>1 DEF OnTrade
<1>3. next \in 1..Len(feed) /\ t \in Nat /\ TradeFits(trade)
  BY <1>1, <1>2, NextPayload
<1>4. DOMAIN OrdersAfterTrade(trade) = DOMAIN orders
  BY <1>3, TradeOrders
<1>5. /\ Extends(OrdersAfterTrade(trade)) /\ threw' \in BOOLEAN
      /\ \E n \in Nat : Creates(n, t) /\ \A id \in nextOrder..(nextOrder + n - 1) : orders'[id].status = "Pending"
      /\ FeeThrows(trade) => threw'
  BY <1>1, TradeExtends
<1>6. PICK n \in Nat : /\ Creates(n, t)
                       /\ \A id \in nextOrder..(nextOrder + n - 1) : orders'[id].status = "Pending"
  BY <1>5
<1>7. ExecInv' /\ FillsInv'
  <2>1. ExecInv'
    BY <1>2, <1>3, <1>5, TradeKeepsInv
  <2> QED BY <1>2, <1>3, <1>5, <2>1, TradeKeepsFills
<1>8. PICK throws \in BOOLEAN : throws = (threw' \/ Rejected)
  BY <1>5
<1>9. /\ status = "running" /\ status' = IF throws THEN "handler_threw" ELSE "running"
      /\ queue \subseteq queue'
      /\ \A e \in queue' : e \in queue \/ \E id \in nextOrder..(nextOrder + n - 1) : e = ArrivalOf(id)
      /\ \A id \in nextOrder..(nextOrder + n - 1) : ArrivalOf(id) \in queue'
      /\ LoopTyped' /\ NothingLate'
  BY <1>1, <1>2, <1>6, <1>8, MarketDispatched DEF ExecInv
<1>10. \A id \in DOMAIN orders : id \in DOMAIN orders' /\ orders'[id] = OrdersAfterTrade(trade)[id]
  BY <1>4, <1>5 DEF Extends
<1>11. Settles
  BY <1>3, <1>10, TradeSettles
<1>12. ASSUME status' # "handler_threw"
       PROVE  InStep'
  <2>1. status' = "running" /\ ~FeeThrows(trade)
    BY <1>5, <1>8, <1>9, <1>12
  <2>2. \A id \in DOMAIN resting : Active(orders[id])
    BY <1>9 DEF InStep
  <2>3. DOMAIN resting' = Kept(trade) /\ Kept(trade) \subseteq DOMAIN orders
    <3>1. Kept(trade) \subseteq DOMAIN resting
      BY <1>3, TradeOrders
    <3> QED BY <1>2, <1>3, <3>1, TradeQueues DEF ExecInv, RegistryHoldsActive
  <2>4. \A id \in DOMAIN resting' : Active(orders'[id])
    BY <1>3, <1>10, <2>1, <2>2, <2>3, KeptActive
  <2> QED BY <1>2, <1>6, <1>9, <1>11, <2>1, <2>4, MarketInStep
<1> QED BY <1>2, <1>7, <1>9, <1>12

-----------------------------------------------------------------------------
\* Order events.

LEMMA QueuesNothing ==
  ASSUME NEW q, Queues(q, << >>)
  PROVE  queue' = q
BY DEF Queues

LEMMA QueuesOne ==
  ASSUME nextSeq \in Nat, NEW q, NEW req, Queues(q, <<req>>)
  PROVE  \E new : queue' = q \cup {new} /\ new.ts = req.ts /\ new.event = req.event
<1> DEFINE new == [ts |-> req.ts, seq |-> nextSeq + 1 - 1, event |-> req.event]
<1>1. queue' = q \cup {new}
  BY DEF Queues
<1>2. new.ts = req.ts /\ new.event = req.event
  OBVIOUS
<1> HIDE DEF new
<1> QED BY <1>1, <1>2

\* The order events of a running replay find their orders as they need them.
LEMMA TopFitsOrder ==
  ASSUME EngineInv, status = "running", NEW e \in queue
  PROVE  /\ e.event \in OrderEvents /\ e.event.order \in 1..MaxOrders /\ e.ts \in Nat
         /\ e.event.type = "order_arrival" =>
              /\ e.event = Arrival(e.event.order) /\ ArrivalAccepted(e.event.order, e.ts)
              /\ e.ts \in 0..MaxTimestamp
         /\ e.event.type = "cancel_arrival" =>
              /\ e.event = Cancel(e.event.order) /\ e.event.order \in DOMAIN orders
              /\ \/ Active(orders[e.event.order]) /\ e.event.order \in DOMAIN resting
                 \/ orders[e.event.order].status = "Filled"
<1>1. LoopTyped /\ EventsHaveOrders /\ ExecInv
  BY DEF EngineInv, InStep
<1>2. e.event \in OrderEvents /\ e.ts \in Nat
  BY <1>1 DEF LoopTyped
<1>3. PICK id \in 1..MaxOrders : id = e.event.order
  BY <1>2, EventNames
<1>4. /\ e.event.type = "order_arrival" => e.event = Arrival(id)
      /\ e.event.type = "cancel_arrival" => e.event = Cancel(id)
  BY <1>2, <1>3, EventNames
<1>5. e.event.type = "order_arrival" => ArrivalAccepted(id, e.ts) /\ e.ts \in 0..MaxTimestamp
  BY <1>1, <1>4, OrderTyped DEF EventsHaveOrders, ArrivalAccepted, ExecInv
<1>6. e.event.type = "cancel_arrival" =>
        /\ id \in DOMAIN orders
        /\ (Active(orders[id]) /\ id \in DOMAIN resting) \/ orders[id].status = "Filled"
  BY <1>1, <1>4 DEF EventsHaveOrders, ExecInv, RegistryHoldsActive
<1> QED BY <1>2, <1>3, <1>4, <1>5, <1>6

\* Whether an order that arrives has its cancel requested, and if so accepted.
Cancels(id) == CancelAfter # NoCancel /\ ~threw' /\ ~Rejected /\ id \in DOMAIN resting'
CancelAccepted(e, id) == Cancels(id) /\ CanCancel(id, CancelAfter, e.ts)'

\* What an arrival asks the loop to queue, and whether it ends in an exception.
CancelsQueued(e, id) ==
  IF CancelAccepted(e, id) THEN <<[ts |-> e.ts + CancelAfter, event |-> Cancel(id)]>> ELSE << >>

ArrivalThrows(e, id) == threw' \/ Rejected \/ (Cancels(id) /\ ~CancelAccepted(e, id))

ArrivalStep(e, id) ==
  /\ Loop!IsTop(e) /\ e.event.type = "order_arrival" /\ id = e.event.order
  /\ UNCHANGED <<book, config, result>>
  /\ ProcessOrderArrival(id, e.ts, book)
  /\ ApplyNewFills
  /\ Loop!DispatchInternal([requests |-> CancelsQueued(e, id), throws |-> ArrivalThrows(e, id)])

LEMMA ArrivalOfOrder == OnOrderArrival => \E e \in queue : ArrivalStep(e, e.event.order)
BY DEF OnOrderArrival, ArrivalStep, CancelsQueued, ArrivalThrows, CancelAccepted, Cancels, Cancel

\* The cancel that is queued, if any, is not late.
LEMMA CancelRequested ==
  ASSUME EngineInv, NEW e, e.ts \in Nat, NEW id \in 1..MaxOrders, NEW reqs, reqs = CancelsQueued(e, id)
  PROVE  /\ Len(reqs) \in Nat
         /\ \A i \in 1..Len(reqs) : reqs[i].ts \in Nat /\ reqs[i].ts >= e.ts /\ reqs[i].event \in OrderEvents
<1>1. Cancel(id) \in OrderEvents
  BY EventNames
<1>2. CASE CancelAccepted(e, id)
  <2>1. CancelAfter \in Nat
    BY <1>2, ConfigTyped DEF CancelAccepted, Cancels, EngineInv
  <2>2. reqs = <<[ts |-> e.ts + CancelAfter, event |-> Cancel(id)]>>
    BY <1>2 DEF CancelsQueued
  <2> QED BY <1>1, <2>1, <2>2
<1>3. CASE ~CancelAccepted(e, id)
  BY <1>3 DEF CancelsQueued
<1> QED BY <1>2, <1>3

\* Once an order has arrived, and its cancel is queued if it rests.
LEMMA ArrivalInStep ==
  ASSUME EngineInv, status = "running", status' = "running", config' = config,
         NEW e \in queue, NEW id, e.event = Arrival(id), id \in 1..MaxOrders,
         Completes(id, e.ts, book), ExecInv',
         \/ queue' = queue \ {e} /\ ~(CancelAfter # NoCancel /\ id \in DOMAIN resting')
         \/ \E new : /\ queue' = (queue \ {e}) \cup {new} /\ new.event = Cancel(id)
                     /\ id \in DOMAIN resting'
  PROVE  InStep'
<1> DEFINE o == orders[id]
           p == Arrived(o, book)
           rests == o.type = "limit" /\ SweepFilled(o, book) < o.qty
<1>1. /\ id \in DOMAIN orders /\ o.status = "Pending" /\ DOMAIN orders' = DOMAIN orders
      /\ orders'[id] = p /\ \A j \in DOMAIN orders : j # id => orders'[j] = orders[j]
      /\ DOMAIN resting' = IF rests THEN DOMAIN resting \cup {id} ELSE DOMAIN resting
  BY DEF Completes, ArrivalAccepted
<1>2. /\ EventsHaveOrders /\ OrdersHaveEvents /\ \A j \in DOMAIN resting : j \in DOMAIN orders /\ Active(orders[j])
      /\ ExecInv /\ BookFits(book)
  BY DEF EngineInv, InStep, ExecInv, RegistryHoldsActive
<1>3. p.status # "Pending" /\ (Active(p) <=> rests)
  <2>1. Lifecycle!Arrives(o, p) /\ (Active(p) <=> p.type = "limit" /\ SweepFilled(o, book) < o.qty) /\ p.type = o.type
    BY <1>1, <1>2, ArrivedOrder, ArrivesAsAllowed
  <2> QED BY <2>1 DEF Lifecycle!Arrives, Lifecycle!Becomes
<1> HIDE DEF o, p, rests
<1>4. id \notin DOMAIN resting
  BY <1>1, <1>2 DEF Active, o
<1>5. \A j \in DOMAIN resting' : Active(orders'[j])
  BY <1>1, <1>2, <1>3, <1>4
<1>6. \A f \in queue \ {e} : f.event # Arrival(id) /\ f.event # Cancel(id)
  BY <1>1, <1>2 DEF EventsHaveOrders, Active, o
<1>7. /\ \A f \in queue' : f \in queue \ {e} \/ f.event = Cancel(id)
      /\ \A f, g \in queue' : f.event = Cancel(id) /\ g.event = Cancel(id) => f = g
      /\ \A f \in queue \ {e} : f \in queue'
      /\ (\E f \in queue' : f.event = Cancel(id)) => id \in DOMAIN resting'
      /\ CancelAfter # NoCancel /\ id \in DOMAIN resting' => \E f \in queue' : f.event = Cancel(id)
  BY <1>6
<1>8. ASSUME NEW f \in queue', NEW j \in 1..MaxOrders
      PROVE  /\ f.event = Arrival(j) =>
                  j \in DOMAIN orders' /\ orders'[j].status = "Pending" /\ f.ts = orders'[j].arrival
             /\ f.event = Cancel(j) =>
                  j \in DOMAIN orders' /\ (Active(orders'[j]) \/ orders'[j].status = "Filled")
  <2>1. CASE f \in queue \ {e}
    <3>1. f.event = Arrival(j) \/ f.event = Cancel(j) => j # id
      BY <1>6, <2>1
    <3> QED BY <1>1, <1>2, <2>1, <3>1 DEF EventsHaveOrders
  <2>2. CASE f.event = Cancel(id)
    <3>1. f.event = Cancel(j) => j = id
      BY <2>2, EventNames
    <3>2. f.event # Arrival(j)
      BY <2>2, EventNames
    <3> QED BY <1>1, <1>5, <1>7, <2>2, <3>1, <3>2
  <2> QED BY <1>7, <2>1, <2>2
<1>9. \A f, g \in queue' : f.event = g.event => f = g
  BY <1>2, <1>6, <1>7 DEF EventsHaveOrders
<1>10. ASSUME NEW j \in DOMAIN orders'
       PROVE  /\ orders'[j].status = "Pending" => \E f \in queue' : f.event = Arrival(j)
              /\ (CancelAfter # NoCancel)' /\ Active(orders'[j]) => \E f \in queue' : f.event = Cancel(j)
  <2>1. (CancelAfter # NoCancel)' <=> CancelAfter # NoCancel
    BY DEF CancelAfter
  <2>2. CASE j = id
    BY <1>1, <1>3, <1>7, <2>1, <2>2
  <2>3. CASE j # id
    <3>1. e.event # Arrival(j) /\ e.event # Cancel(j)
      BY <2>3, EventNames
    <3> QED BY <1>1, <1>2, <1>7, <2>1, <2>3, <3>1 DEF OrdersHaveEvents
  <2> QED BY <2>2, <2>3
<1>11. EventsHaveOrders' /\ OrdersHaveEvents'
  BY <1>8, <1>9, <1>10 DEF EventsHaveOrders, OrdersHaveEvents
<1> QED BY <1>5, <1>11 DEF InStep

LEMMA ArrivalKeepsEngineInv ==
  ASSUME EngineInv, OnOrderArrival
  PROVE  EngineInv'
<1> USE DEF EngineInv
<1>1. PICK e \in queue : ArrivalStep(e, e.event.order)
  BY ArrivalOfOrder
<1>2. status = "running"
  BY <1>1 DEF ArrivalStep, Loop!DispatchInternal
<1>3. PICK id \in 1..MaxOrders : id = e.event.order
  BY <1>2, TopFitsOrder
<1>4. /\ Loop!IsTop(e) /\ e.ts \in 0..MaxTimestamp /\ e.ts \in Nat
      /\ e.event = Arrival(id) /\ ArrivalAccepted(id, e.ts)
      /\ config' = config /\ book' = book /\ ProcessOrderArrival(id, e.ts, book)
  BY <1>1, <1>2, <1>3, TopFitsOrder DEF ArrivalStep
<1>5. ExecInv' /\ FillsInv' /\ threw' \in BOOLEAN
  <2>1. ExecInv'
    BY <1>4, ArrivalKeepsInv
  <2> QED BY <1>4, <2>1, ArrivalKeepsFills, ArrivalOutcome
<1>6. PICK reqs, throws : reqs = CancelsQueued(e, id) /\ throws = ArrivalThrows(e, id)
  OBVIOUS
<1>7. throws \in BOOLEAN
  BY <1>5, <1>6 DEF ArrivalThrows
<1>8. /\ Len(reqs) \in Nat
      /\ \A i \in 1..Len(reqs) : reqs[i].ts \in Nat /\ reqs[i].ts >= e.ts /\ reqs[i].event \in OrderEvents
  BY <1>4, <1>6, CancelRequested
<1>9. Loop!DispatchInternal([requests |-> reqs, throws |-> throws])
  BY <1>1, <1>3, <1>6 DEF ArrivalStep
<1>10. /\ status' = IF throws THEN "handler_threw" ELSE "running"
       /\ Queues(queue \ {e}, reqs) /\ LoopTyped' /\ NothingLate'
  BY <1>4, <1>7, <1>8, <1>9, InternalDispatched
<1>11. ASSUME status' # "handler_threw"
       PROVE  InStep'
  <2>1. status' = "running" /\ ~threw' /\ ~Rejected /\ (Cancels(id) => CancelAccepted(e, id))
    BY <1>5, <1>6, <1>7, <1>10, <1>11 DEF ArrivalThrows
  <2>2. Completes(id, e.ts, book)
    BY <1>4, <2>1, ArrivalOutcome
  <2>3. CASE CancelAccepted(e, id)
    <3>1. nextSeq \in Nat
      BY DEF LoopTyped
    <3>2. \E new : queue' = (queue \ {e}) \cup {new} /\ new.event = Cancel(id)
      <4>1. PICK req : req = [ts |-> e.ts + CancelAfter, event |-> Cancel(id)]
        OBVIOUS
      <4>2. Queues(queue \ {e}, <<req>>) /\ req.event = Cancel(id)
        BY <1>6, <1>10, <2>3, <4>1 DEF CancelsQueued
      <4> QED BY <3>1, <4>2, QueuesOne
    <3>3. id \in DOMAIN resting'
      BY <2>3 DEF CancelAccepted, Cancels
    <3> QED BY <1>2, <1>4, <1>5, <2>1, <2>2, <3>2, <3>3, ArrivalInStep
  <2>4. CASE ~CancelAccepted(e, id)
    <3>1. queue' = queue \ {e}
      BY <1>6, <1>10, <2>4, QueuesNothing DEF CancelsQueued
    <3>2. ~(CancelAfter # NoCancel /\ id \in DOMAIN resting')
      BY <2>1, <2>4 DEF Cancels
    <3> QED BY <1>2, <1>4, <1>5, <2>1, <2>2, <3>1, <3>2, ArrivalInStep
  <2> QED BY <2>3, <2>4
<1> QED BY <1>4, <1>5, <1>10, <1>11

\* What processing a cancel comes down to in the loop.
CancelStep(e, id) ==
  /\ Loop!IsTop(e) /\ e.event.type = "cancel_arrival" /\ id = e.event.order
  /\ ProcessCancelArrival(id)
  /\ UNCHANGED <<book, portfolio, config, result>>

LEMMA CancelKeepsEngineInv ==
  ASSUME EngineInv, OnCancelArrival
  PROVE  EngineInv'
<1> USE DEF EngineInv
<1>0. PICK e \in queue : \E id :
        /\ CancelStep(e, id)
        /\ Loop!DispatchInternal([requests |-> << >>, throws |-> threw'])
  BY DEF OnCancelArrival, CancelStep
<1>1. PICK id :
        /\ CancelStep(e, id)
        /\ Loop!DispatchInternal([requests |-> << >>, throws |-> threw'])
  BY <1>0
<1>2. status = "running"
  BY <1>1 DEF Loop!DispatchInternal
<1>3. /\ Loop!IsTop(e) /\ id \in 1..MaxOrders /\ id \in DOMAIN orders /\ e.event = Cancel(id)
      /\ config' = config /\ book' = book /\ ProcessCancelArrival(id)
  BY <1>1, <1>2, TopFitsOrder DEF CancelStep
<1>4. ExecInv' /\ FillsInv' /\ threw' \in BOOLEAN
  <2>1. ExecInv'
    BY <1>3, CancelKeepsInv
  <2> QED BY <1>3, <2>1, CancelKeepsFills, CancelOutcome
<1>5. PICK reqs : reqs = << >>
  OBVIOUS
<1>6. /\ status' = IF threw' THEN "handler_threw" ELSE "running"
      /\ Queues(queue \ {e}, reqs) /\ LoopTyped' /\ NothingLate'
  <2>1. Len(reqs) \in Nat
        /\ \A i \in 1..Len(reqs) : reqs[i].ts \in Nat /\ reqs[i].ts >= e.ts /\ reqs[i].event \in OrderEvents
    BY <1>5
  <2>2. Loop!DispatchInternal([requests |-> reqs, throws |-> threw'])
    BY <1>1, <1>5
  <2> QED BY <1>3, <1>4, <2>1, <2>2, InternalDispatched
<1>7. queue' = queue \ {e}
  BY <1>5, <1>6, QueuesNothing
<1>8. ASSUME status' # "handler_threw"
      PROVE  InStep'
  <2>1. status' = "running" /\ ~threw'
    BY <1>4, <1>6, <1>8
  <2>2. /\ orders'[id].status = "Canceled" /\ DOMAIN orders' = DOMAIN orders
        /\ \A j \in DOMAIN orders : j # id => orders'[j] = orders[j]
        /\ Active(orders[id]) /\ id \in DOMAIN resting
    BY <1>3, <2>1, CancelOutcome
  <2>3. /\ EventsHaveOrders /\ OrdersHaveEvents /\ \A j \in DOMAIN resting : Active(orders[j])
    BY <1>2 DEF InStep
  <2>4. \A f \in queue' : f.event # Cancel(id) /\ f.event # Arrival(id)
    BY <1>3, <1>7, <2>2, <2>3 DEF EventsHaveOrders, Active
  <2>5. EventsHaveOrders'
    <3> SUFFICES ASSUME NEW f \in queue', NEW j \in 1..MaxOrders
                 PROVE  /\ f.event = Arrival(j) =>
                             j \in DOMAIN orders' /\ orders'[j].status = "Pending" /\ f.ts = orders'[j].arrival
                        /\ f.event = Cancel(j) =>
                             j \in DOMAIN orders' /\ (Active(orders'[j]) \/ orders'[j].status = "Filled")
      BY <1>7, <2>3 DEF EventsHaveOrders
    <3>1. f.event = Arrival(j) \/ f.event = Cancel(j) => j # id
      BY <2>4
    <3> QED BY <1>7, <2>2, <2>3, <3>1 DEF EventsHaveOrders
  <2>6. OrdersHaveEvents'
    <3> SUFFICES ASSUME NEW j \in DOMAIN orders'
                 PROVE  /\ orders'[j].status = "Pending" => \E f \in queue' : f.event = Arrival(j)
                        /\ (CancelAfter # NoCancel)' /\ Active(orders'[j]) => \E f \in queue' : f.event = Cancel(j)
      BY DEF OrdersHaveEvents
    <3>1. (CancelAfter # NoCancel)' <=> CancelAfter # NoCancel
      BY <1>3 DEF CancelAfter
    <3>2. CASE j = id
      BY <2>2, <3>2 DEF Active
    <3>3. CASE j # id
      <4>1. e.event # Arrival(j) /\ e.event # Cancel(j)
        BY <1>3, <3>3, EventNames
      <4> QED BY <1>7, <2>2, <2>3, <3>1, <3>3, <4>1 DEF OrdersHaveEvents
    <3> QED BY <3>2, <3>3
  <2>7. \A j \in DOMAIN resting' : Active(orders'[j])
    <3>1. /\ \A j \in DOMAIN resting' : j \in DOMAIN orders' /\ (Active(orders'[j]) \/ orders'[j].status = "Filled")
      BY <1>4 DEF ExecInv, RegistryHoldsActive
    <3>2. DOMAIN resting' \subseteq DOMAIN resting
      BY <1>3, <2>1 DEF ProcessCancelArrival, Restrict, Throws
    <3>3. \A j \in DOMAIN resting' : j # id
      BY <2>2, <3>1 DEF Active
    <3> QED BY <2>2, <2>3, <3>1, <3>2, <3>3
  <2> QED BY <2>1, <2>5, <2>6, <2>7 DEF InStep
<1> QED BY <1>3, <1>4, <1>6, <1>8

-----------------------------------------------------------------------------
\* The replay.

LEMMA EngineInitInv == EngineInit => EngineInv
<1> SUFFICES ASSUME EngineInit PROVE EngineInv
  OBVIOUS
<1>1. /\ config \in Configs /\ ExecInit /\ book = EmptyBook
      /\ feed \in Feeds /\ next = 1 /\ now = 0 /\ queue = {} /\ nextSeq = 0
      /\ trace = << >> /\ status = "idle"
  BY DEF EngineInit, Loop!Init
<1>2. ExecInv /\ FillsInv
  BY <1>1, ExecInitInv
<1>3. DOMAIN book = Sides /\ BookFits(book)
  <2>1. \A side \in Sides : DOMAIN book[side] = {}
    BY <1>1 DEF EmptyBook
  <2> QED BY <1>1, <2>1, FS_EmptySet DEF EmptyBook, BookFits
<1>4. Len(feed) \in Nat
  <2>1. feed \in Seq([ts : Nat, seq : Nat, event : Payloads])
    BY <1>1, FeedsMerged
  <2> QED BY <2>1
<1>5. LoopTyped
  BY <1>1, <1>4 DEF LoopTyped
<1>6. NothingLate
  <2>1. \A k \in next..Len(feed) : feed[k].ts \in Nat
    BY <1>1, <1>5, FeedTyped
  <2> QED BY <1>1, <2>1 DEF NothingLate
<1>7. InStep
  <2>1. DOMAIN orders = {} /\ DOMAIN resting = {}
    BY <1>1 DEF ExecInit
  <2> QED BY <1>1, <2>1 DEF InStep, EventsHaveOrders, OrdersHaveEvents
<1> QED BY <1>2, <1>3, <1>5, <1>6, <1>7 DEF EngineInv

\* Steps that leave all but the loop's status alone.
LEMMA OthersKeepEngineInv ==
  ASSUME EngineInv, Start \/ Finish \/ Report \/ Over \/ UNCHANGED engineVars
  PROVE  EngineInv'
<1> USE DEF EngineInv
<1>1. /\ UNCHANGED <<config, orders, nextOrder, executions, resting, fills, nextFill, threw, book>>
      /\ UNCHANGED <<feed, next, now, queue, nextSeq, trace>>
  BY DEF Start, Finish, Report, Over, engineVars, execVars, loopVars, Loop!Run, Loop!Return, Loop!Ended, Loop!vars
<1>2. \/ status' = status
      \/ status = "idle" /\ status' = "running"
      \/ status = "running" /\ status' = "returned" /\ queue = {}
  BY DEF Start, Finish, Report, Over, engineVars, execVars, loopVars, Loop!Run, Loop!Return, Loop!Ended, Loop!vars
<1>3. ExecInv' /\ FillsInv' /\ DOMAIN book' = Sides /\ BookFits(book')
  BY <1>1 DEF ExecInv, ExecTypeOK, RegistryHoldsActive, StatusMatchesQuantity, Active,
              FillsInv, FillsAddUp, FillsWithinLimit
<1>4. LoopTyped' /\ NothingLate'
  BY <1>1, <1>2 DEF LoopTyped, NothingLate
<1>5. ASSUME status' # "handler_threw" PROVE InStep'
  <2>1. InStep
    BY <1>2, <1>5
  <2>2. EventsHaveOrders' /\ OrdersHaveEvents'
    BY <1>1, <2>1 DEF InStep, EventsHaveOrders, OrdersHaveEvents, Active, CancelAfter
  <2>3. status' = "returned" => queue' = {}
    BY <1>1, <1>2, <2>1 DEF InStep
  <2>4. \A id \in DOMAIN resting' : Active(orders'[id])
    BY <1>1, <2>1 DEF InStep
  <2> QED BY <2>2, <2>3, <2>4 DEF InStep
<1> QED BY <1>3, <1>4, <1>5

LEMMA EngineStepInv ==
  ASSUME EngineInv, [EngineNext]_engineVars
  PROVE  EngineInv'
<1>1. CASE OnBook
  BY <1>1, BookKeepsInv
<1>2. CASE OnTrade
  BY <1>2, TradeKeepsEngineInv
<1>3. CASE OnOrderArrival
  BY <1>3, ArrivalKeepsEngineInv
<1>4. CASE OnCancelArrival
  BY <1>4, CancelKeepsEngineInv
<1>5. CASE Start \/ Finish \/ Report \/ Over \/ UNCHANGED engineVars
  BY <1>5, OthersKeepEngineInv
<1> QED BY <1>1, <1>2, <1>3, <1>4, <1>5 DEF EngineNext, Step

LEMMA EngineInvariant == EngineSpec => []EngineInv
BY EngineInitInv, EngineStepInv, PTL DEF EngineSpec

-----------------------------------------------------------------------------
\* What the invariant says of the replay's states.

LEMMA UpcomingNotLate ==
  ASSUME EngineInv, status = "running", NEW u \in Loop!Upcoming
  PROVE  u.ts >= now
<1>1. LoopTyped /\ NothingLate
  BY DEF EngineInv
<1>2. CASE Loop!MarketFirst
  <2>1. u = Loop!MarketEntry(feed[next])
    BY <1>2 DEF Loop!Upcoming
  <2>2. next \in 1..Len(feed)
    BY <1>1, <1>2, NextPayload
  <2>3. next \in next..Len(feed)
    <3>1. Len(feed) \in Nat
      BY <1>1, <2>2, FeedTyped
    <3> QED BY <2>2, <3>1
  <2> QED BY <1>1, <2>1, <2>3 DEF NothingLate, Loop!MarketEntry
<1>3. CASE ~Loop!MarketFirst
  <2>1. PICK e \in queue : u = Loop!InternalEntry(e)
    BY <1>3 DEF Loop!Upcoming
  <2> QED BY <1>1, <2>1 DEF NothingLate, Loop!InternalEntry
<1> QED BY <1>2, <1>3

LEMMA EventsMatchOrders == EngineInv => ArrivalsMatchOrders
<1> SUFFICES ASSUME EngineInv, status = "running" PROVE ArrivalsMatchOrders
  BY DEF ArrivalsMatchOrders
<1>1. EventsHaveOrders /\ OrdersHaveEvents /\ ExecTypeOK
  BY DEF EngineInv, InStep, ExecInv
<1> DEFINE Arrivals(id) == {e \in queue : e.event = OrderEvent("order_arrival", id)}
<1>2. \A id : \A e \in Arrivals(id) : e \in queue /\ e.event = Arrival(id)
  BY DEF Arrival
<1>3. \A id : \A e \in queue : e.event = Arrival(id) => e \in Arrivals(id)
  BY DEF Arrival
<1> HIDE DEF Arrivals
<1>4. ASSUME NEW id \in 1..MaxOrders
      PROVE  /\ Cardinality(Arrivals(id)) <= 1
             /\ Arrivals(id) # {} <=> id \in DOMAIN orders /\ orders[id].status = "Pending"
             /\ \A e \in Arrivals(id) : e.ts = orders[id].arrival
  <2>1. Arrivals(id) = {} \/ \E e : Arrivals(id) = {e}
    BY <1>1, <1>2 DEF EventsHaveOrders
  <2>2. Cardinality(Arrivals(id)) <= 1
    <3>1. CASE Arrivals(id) = {}
      <4>1. Cardinality(Arrivals(id)) = 0
        BY <3>1, FS_EmptySet
      <4> QED BY <4>1
    <3>2. CASE \E e : Arrivals(id) = {e}
      <4>1. Cardinality(Arrivals(id)) = 1
        BY <3>2, FS_Singleton
      <4> QED BY <4>1
    <3> QED BY <2>1, <3>1, <3>2
  <2>3. Arrivals(id) # {} <=> id \in DOMAIN orders /\ orders[id].status = "Pending"
    BY <1>1, <1>2, <1>3 DEF EventsHaveOrders, OrdersHaveEvents
  <2>4. \A e \in Arrivals(id) : e.ts = orders[id].arrival
    BY <1>1, <1>2 DEF EventsHaveOrders
  <2> QED BY <2>2, <2>3, <2>4
<1>5. \A u \in Loop!Upcoming : u.ts >= now
  BY UpcomingNotLate
<1> QED BY <1>4, <1>5 DEF ArrivalsMatchOrders, Arrivals

LEMMA NoneForgotten == EngineInv => OrdersResolved
BY DEF EngineInv, InStep, OrdersHaveEvents, OrdersResolved

(* ReplayEngine::run and the scheduler of src/event_loop.cpp agree on what *)
(* is to come: at every step each order in flight has exactly one arrival  *)
(* event, at the time it is to arrive, no other order has any, and nothing *)
(* upcoming lies behind the clock, whatever the strategy submits.          *)
THEOREM ArrivalsCorrect == EngineSpec => []ArrivalsMatchOrders
BY EngineInvariant, EventsMatchOrders, PTL

(* A replay that ReplayEngine::run ends normally has delivered every order *)
(* to the book, and canceled or filled each one if it cancels orders.      *)
THEOREM ResolvedCorrect == EngineSpec => []OrdersResolved
BY EngineInvariant, NoneForgotten, PTL

(* The execution layer's invariants also hold where the engine composes it *)
(* with the event loop and the portfolio, and submits new orders in the    *)
(* middle of a trade: the engine's calls are of the kind ExecutionCalls    *)
(* makes, but at times and against books the replay decides.               *)
THEOREM EngineOrdersCorrect ==
  EngineSpec => [](ExecTypeOK /\ RegistryHoldsActive /\ StatusMatchesQuantity
                     /\ FillsAddUp /\ FillsWithinLimit)
<1>1. EngineInv => ExecTypeOK /\ RegistryHoldsActive /\ StatusMatchesQuantity
                     /\ FillsAddUp /\ FillsWithinLimit
  BY DEF EngineInv, ExecInv, FillsInv
<1> QED BY <1>1, EngineInvariant, PTL

\* What a step of the replay does to the orders.
LEMMA StepServesInTurn ==
  ASSUME EngineInv, EngineNext
  PROVE  Lifecycle!Next /\ PriorityStep
<1>0. DOMAIN resting \subseteq DOMAIN orders /\ ExecInv /\ LoopTyped /\ BookFits(book)
  BY DEF EngineInv, ExecInv, RegistryHoldsActive
<1>1. CASE OnBook
  <2>1. PICK intents \in IntentLists : SubmitIntents(intents, OrderLatency, feed[next].ts)
    BY <1>1 DEF OnBook
  <2>2. Submit(intents, OrderLatency, feed[next].ts, orders) /\ feed[next].ts \in Nat
    BY <1>0, <1>1, <2>1, NextPayload DEF OnBook, SubmitIntents
  <2>3. Extends(orders)
    BY <1>0, <2>2, SubmitCreates DEF ExecInv
  <2>4. \A j \in DOMAIN resting : orders'[j].filled = orders[j].filled
    BY <1>0, <2>3 DEF Extends
  <2> QED BY <1>0, <2>3, <2>4, CallFollowsLifecycle, QuietPriority
<1>2. CASE OnTrade
  <2>1. PICK trade : trade = feed[next].event
    OBVIOUS
  <2>2. TradeFits(trade)
    BY <1>0, <1>2, <2>1, NextPayload DEF OnTrade
  <2>3. Extends(OrdersAfterTrade(trade)) /\ DOMAIN OrdersAfterTrade(trade) = DOMAIN orders
    BY <1>2, <2>1, TradeExtends
  <2>4. \A id \in DOMAIN orders :
          LET o == orders[id]  p == OrdersAfterTrade(trade)[id]
          IN  Lifecycle!SameTerms(o, p) /\ (o = p \/ Lifecycle!Progresses(o, p))
    BY <1>0, <2>2, TradeBooks
  <2>5. Lifecycle!Next
    BY <2>3, <2>4, CallFollowsLifecycle
  <2> QED BY <1>0, <2>2, <2>3, <2>5, TradePriority
<1>3. CASE OnOrderArrival
  <2>0. PICK e \in queue : \E id : ArrivalStep(e, id)
    BY <1>3, ArrivalOfOrder
  <2>1. PICK id : ArrivalStep(e, id)
    BY <2>0
  <2>2. ProcessOrderArrival(id, e.ts, book)
    BY <2>1 DEF ArrivalStep
  <2>3. CASE threw'
    <3>1. orders' = orders
      BY <2>2, <2>3, ArrivalOutcome
    <3> QED BY <1>0, <3>1, QuietPriority DEF Lifecycle!Next
  <2>4. CASE ~threw'
    <3>1. /\ id \in DOMAIN orders /\ orders[id].status = "Pending" /\ DOMAIN orders' = DOMAIN orders
          /\ orders'[id] = Arrived(orders[id], book)
          /\ \A j \in DOMAIN orders : j # id => orders'[j] = orders[j]
      BY <2>2, <2>4, ArrivalOutcome, ZenonT(60) DEF Completes, ArrivalAccepted
    <3>2. Lifecycle!SameTerms(orders[id], orders'[id]) /\ Lifecycle!Arrives(orders[id], orders'[id])
      BY <1>0, <3>1, ArrivesAsAllowed
    <3>3. id \notin DOMAIN resting
      BY <3>1, <1>0 DEF ExecInv, RegistryHoldsActive, Active
    <3>4. \A j \in DOMAIN resting : orders'[j].filled = orders[j].filled
      BY <1>0, <3>1, <3>3
    <3>5. PriorityStep
      BY <1>0, <3>4, QuietPriority
    <3> QED BY <3>1, <3>2, <3>5 DEF Lifecycle!Next
  <2> QED BY <2>3, <2>4
<1>4. CASE OnCancelArrival
  <2>1. PICK id : ProcessCancelArrival(id)
    BY <1>4 DEF OnCancelArrival
  <2>2. /\ DOMAIN orders' = DOMAIN orders
        /\ \A j \in DOMAIN orders :
             /\ Lifecycle!SameTerms(orders[j], orders'[j]) /\ orders'[j].filled = orders[j].filled
             /\ orders'[j] = orders[j] \/ Lifecycle!Progresses(orders[j], orders'[j])
    BY <1>0, <2>1, CancelOutcome
  <2>3. \A j \in DOMAIN resting : orders'[j].filled = orders[j].filled
    BY <1>0, <2>2
  <2>4. PriorityStep
    BY <1>0, <2>3, QuietPriority
  <2> QED BY <2>2, <2>4 DEF Lifecycle!Next
<1>5. CASE Start \/ Finish \/ Report \/ Over
  <2>1. orders' = orders
    BY <1>5 DEF Start, Finish, Report, Over, execVars
  <2> QED BY <1>0, <2>1, QuietPriority DEF Lifecycle!Next
<1> QED BY <1>1, <1>2, <1>3, <1>4, <1>5 DEF EngineNext, Step

(* The whole replay implements OrderLifecycle: however market data, order  *)
(* and cancel events, fills and strategy callbacks interleave, what        *)
(* happens to an order is a step of the diagram in src/order.cpp.          *)
THEOREM EngineImplementsLifecycle == EngineSpec => OrdersFollowLifecycle
<1>1. EngineInit => Lifecycle!Init
  BY DEF EngineInit, ExecInit, Lifecycle!Init
<1>2. EngineInv /\ [EngineNext]_engineVars => [Lifecycle!Next]_orders
  BY StepServesInTurn DEF engineVars, execVars
<1> QED BY <1>1, <1>2, EngineInvariant, PTL DEF EngineSpec, OrdersFollowLifecycle, Lifecycle!Spec

(* A replay serves resting orders in the order they came to rest, also     *)
(* when the trade that fills them lets the strategy submit new ones.       *)
THEOREM EnginePriorityCorrect == EngineSpec => TimePriority
<1>1. EngineInv /\ [EngineNext]_engineVars => [PriorityStep]_execVars
  BY StepServesInTurn DEF engineVars, execVars
<1> QED BY <1>1, EngineInvariant, PTL DEF EngineSpec, TimePriority

\* What a trade takes off the queue of an order at its price: no more than the
\* queue, and no more than the volume that is left to it.
LEMMA ConsumedBounds ==
  ASSUME ExecInv, NEW trade, TradeFits(trade), NEW t, TradeEffects(trade, t),
         NEW id \in DOMAIN resting, Active(orders[id]), At(orders[id], trade),
         NEW left, left = IF id \in DOMAIN resting' THEN resting'[id].ahead ELSE 0
  PROVE  /\ id \in Reached(trade) /\ resting[id].ahead - left \in Nat
         /\ resting[id].ahead - left <= Queue(id, trade)
         /\ resting[id].ahead - left <= VolumeBefore(id, trade)
<1>1. id \in Reached(trade) /\ id \in DOMAIN orders
  BY DEF Reached, ExecInv, RegistryHoldsActive
<1>2. orders[id].side \in Sides /\ orders[id].limit \in Int /\ trade.price \in Int
  <2>1. Prices \subseteq Int /\ NoLimit \in Int
    BY PricesAssumption DEF NoLimit
  <2> QED BY <1>1, <2>1, OrderTyped DEF ExecInv, TradeFits
<1>3. Queue(id, trade) = resting[id].ahead
  BY <1>2 DEF Queue, At, Through, Better
<1>4. VolumeBefore(id, trade) \in Nat /\ Queue(id, trade) \in Nat /\ resting[id].ahead \in Nat
  BY <1>1, <1>3, FilledByTrade
<1>5. CASE id \in DOMAIN resting' /\ id \in Consumed(trade)
  <2>1. left = Left(Queue(id, trade), VolumeBefore(id, trade))
    BY <1>5, TradeQueues
  <2> QED BY <1>1, <1>3, <1>4, <2>1 DEF Left
<1>6. CASE id \in DOMAIN resting' /\ id \notin Consumed(trade)
  <2>1. left = resting[id].ahead
    BY <1>6, TradeQueues
  <2> QED BY <1>1, <1>3, <1>4, <2>1
<1>7. CASE id \notin DOMAIN resting'
  <2>1. id \notin Kept(trade) /\ left = 0
    BY <1>7, TradeQueues
  <2>2. ~Active(OrdersAfterTrade(trade)[id])
    BY <2>1 DEF Kept
  <2>3. id \in Filled(trade)
    BY <1>1, <2>2, TradeOrders
  <2>4. FilledBy(id, trade) > 0 /\ Remaining(orders[id]) \in Nat
    BY <1>1, <2>3, FilledAreConsumed, ReachedFinite
  <2>5. Left(VolumeBefore(id, trade), Queue(id, trade)) > 0
    BY <1>4, <2>4, LeftBounds DEF FilledBy, Least
  <2>6. Queue(id, trade) <= VolumeBefore(id, trade)
    BY <1>4, <2>5 DEF Left
  <2> QED BY <1>1, <1>3, <1>4, <2>1, <2>6
<1> QED BY <1>5, <1>6, <1>7

LEMMA VolumeIsShared ==
  ASSUME ExecInv, NEW trade, TradeFits(trade), NEW t, TradeEffects(trade, t),
         \A id \in DOMAIN resting : Active(orders[id])
  PROVE  VolumeShared(trade)
<1>1. PICK R, A, left, consumed, sold, off, made :
        /\ R = Reached(trade) /\ A = {id \in DOMAIN resting : At(orders[id], trade)}
        /\ left = [id \in DOMAIN resting |-> IF id \in DOMAIN resting' THEN resting'[id].ahead ELSE 0]
        /\ consumed = [id \in DOMAIN resting |-> resting[id].ahead - left[id]]
        /\ sold = [f \in fills' |-> f.qty]
        /\ off = [id \in R |-> IF id \in A THEN consumed[id] ELSE 0]
        /\ made = fills' \ fills
  OBVIOUS
<1>2. \A id \in A : /\ id \in R /\ consumed[id] \in Nat
                    /\ consumed[id] <= Queue(id, trade) /\ consumed[id] <= VolumeBefore(id, trade)
  <2> SUFFICES ASSUME NEW id \in A
               PROVE  /\ id \in R /\ consumed[id] \in Nat
                      /\ consumed[id] <= Queue(id, trade) /\ consumed[id] <= VolumeBefore(id, trade)
    OBVIOUS
  <2>1. id \in DOMAIN resting /\ Active(orders[id]) /\ At(orders[id], trade)
    BY <1>1
  <2>2. PICK l : l = IF id \in DOMAIN resting' THEN resting'[id].ahead ELSE 0
    OBVIOUS
  <2>3. consumed[id] = resting[id].ahead - l
    BY <1>1, <2>1, <2>2
  <2> QED BY <1>1, <2>1, <2>2, <2>3, ConsumedBounds
<1>3. /\ IsFiniteSet(R) /\ A \in SUBSET R
      /\ \A id \in R : Queue(id, trade) \in Nat /\ VolumeBefore(id, trade) \in Nat
  BY <1>1, <1>2, ReachedFinite
<1>4. \A id \in R : off[id] \in Nat /\ off[id] <= Queue(id, trade) /\ off[id] <= VolumeBefore(id, trade)
  BY <1>1, <1>2, <1>3
<1>5. PICK w : w = FilledOf(trade)
  OBVIOUS
<1>6. /\ SumFunctionOnSet(w, R) + SumFunctionOnSet(off, R) <= trade.qty
      /\ \A id \in R : w[id] \in Nat
  BY <1>1, <1>4, <1>5, TradeVolume
<1>7. SumFunctionOnSet(consumed, A) <= SumFunctionOnSet(off, R) /\ SumFunctionOnSet(consumed, A) \in Nat
  <2>1. IsFiniteSet(A)
    BY <1>3, FS_Subset
  <2>2. \A id \in A : consumed[id] \in Int /\ consumed[id] = off[id]
    BY <1>1, <1>2
  <2>3. SumFunctionOnSet(consumed, A) = SumFunctionOnSet(off, A)
    BY <2>1, <2>2, SumSame
  <2> QED BY <1>3, <1>4, <2>3, SumSubset
<1>8. SumFunctionOnSet(sold, made) \in Nat /\ SumFunctionOnSet(sold, made) <= SumFunctionOnSet(w, R)
  <2>1. fills' = fills \cup TradeFills(trade, t)
    BY DEF TradeEffects
  <2>2. made \in SUBSET TradeFills(trade, t) /\ \A f \in TradeFills(trade, t) : sold[f] = f.qty
    BY <1>1, <2>1
  <2> QED BY <1>1, <1>5, <2>2, TradeSold
<1>9. SumFunctionOnSet(w, R) \in Nat /\ SumFunctionOnSet(off, R) \in Nat /\ trade.qty \in Nat
  BY <1>3, <1>4, <1>6, SumNatural DEF TradeFits
<1>10. SumFunctionOnSet(sold, made) + SumFunctionOnSet(consumed, A) <= trade.qty
  BY <1>6, <1>7, <1>8, <1>9
<1> QED BY <1>1, <1>10 DEF VolumeShared

\* Only a trade moves the feed on over one.
LEMMA TradeSharesVolume ==
  ASSUME EngineInv, [EngineNext]_engineVars, next' > next, feed[next].event.type = "trade"
  PROVE  VolumeShared(feed[next].event)
<1>1. next \in Int /\ next' # next
  BY DEF EngineInv, LoopTyped
<1>2. OnTrade
  <2>1. ~Start /\ ~Finish /\ ~Report /\ ~Over /\ ~UNCHANGED engineVars
    BY <1>1 DEF Start, Finish, Report, Over, engineVars, loopVars, Loop!Run, Loop!Return, Loop!Ended, Loop!vars
  <2>2. ~OnOrderArrival /\ ~OnCancelArrival
    BY <1>1 DEF OnOrderArrival, OnCancelArrival, Loop!DispatchInternal
  <2>3. ~OnBook
    BY DEF OnBook
  <2> QED BY <2>1, <2>2, <2>3 DEF EngineNext, Step
<1>3. /\ TradeEffects(feed[next].event, feed[next].ts) /\ Loop!MarketFirst /\ status = "running"
  BY <1>2 DEF OnTrade, Loop!DispatchMarket
<1>4. TradeFits(feed[next].event)
  BY <1>2, <1>3, NextPayload DEF OnTrade, EngineInv
<1>5. ExecInv /\ \A id \in DOMAIN resting : Active(orders[id])
  BY <1>3 DEF EngineInv, InStep
<1> QED BY <1>3, <1>4, <1>5, VolumeIsShared

(* What a public trade fills and what it takes off the queues at its price *)
(* is never more than was traded: TradeVolumeShared, however many of our   *)
(* orders rest and in whatever order they came, by process_trade's running *)
(* remainder in src/latency_execution.cpp.                                 *)
THEOREM VolumeCorrect == EngineSpec => TradeVolumeShared
<1>1. EngineInv /\ [EngineNext]_engineVars
        => [next' > next /\ feed[next].event.type = "trade" => VolumeShared(feed[next].event)]_engineVars
  BY TradeSharesVolume
<1> QED BY <1>1, EngineInvariant, PTL DEF EngineSpec, TradeVolumeShared

-----------------------------------------------------------------------------
\* Why a replay stops early.

\* The strategy builds its orders as the Order constructor wants them.
WellFormed == \A intents \in IntentLists : \A i \in DOMAIN intents : ValidIntent(intents[i])

\* The reasons AbortExplained gives, for the handler call that ended last.
OutOfTime(last) ==
  \/ last.ts + OrderLatency > MaxTimestamp
  \/ CancelAfter # NoCancel /\ last.ts + CancelAfter > MaxTimestamp

CancelOfFilled(last) ==
  /\ last.class = "internal" /\ last.event.type = "cancel_arrival"
  /\ orders[last.event.order].status = "Filled"

FillRefused == \E f \in fills : f.seq = Len(portfolio.ledger) + 1 /\ ~Acceptable(portfolio, f)

OrderUnaffordable ==
  \E id \in DOMAIN orders :
    (orders[id].status = "Pending" \/ Active(orders[id])) /\ Unaffordable(orders[id])

Explained(last) == OutOfTime(last) \/ CancelOfFilled(last) \/ FillRefused \/ OrderUnaffordable

LEMMA ReasonsExplain == Explained(trace[Len(trace)]) => AbortExplained
BY DEF Explained, OutOfTime, CancelOfFilled, FillRefused, OrderUnaffordable, Unaffordable, AbortExplained

LEMMA RejectedIsRefused == Rejected => FillRefused'
BY DEF Rejected, FillRefused

LEMMA BookAborts ==
  ASSUME WellFormed, EngineInv, OnBook, status' = "handler_threw"
  PROVE  Explained(trace[Len(trace)])'
<1> USE DEF EngineInv
<1>1. /\ Loop!MarketFirst /\ config' = config
      /\ Loop!DispatchMarket([requests |-> NewArrivals, throws |-> threw'])
  BY DEF OnBook
<1>0. PICK t : t = feed[next].ts
  OBVIOUS
<1>2. PICK intents \in IntentLists : t = feed[next].ts /\ SubmitIntents(intents, OrderLatency, t)
  BY <1>0 DEF OnBook
<1>3. t \in Nat /\ Submit(intents, OrderLatency, t, orders)
  BY <1>1, <1>2, NextPayload DEF SubmitIntents
<1>4. PICK n \in Nat : Creates(n, t)
  BY <1>3, SubmitCreates DEF ExecInv
<1>5. threw' \in BOOLEAN /\ (threw' => t + OrderLatency > MaxTimestamp)
  BY <1>3, SubmitCreates DEF ExecInv, WellFormed
<1>6. threw' /\ trace'[Len(trace')].ts = t
  BY <1>1, <1>2, <1>4, <1>5, MarketDispatched DEF ExecInv
<1> QED BY <1>1, <1>5, <1>6 DEF Explained, OutOfTime, OrderLatency

LEMMA TradeAborts ==
  ASSUME WellFormed, EngineInv, OnTrade, status' = "handler_threw"
  PROVE  Explained(trace[Len(trace)])'
<1> USE DEF EngineInv
<1>1. PICK trade, t : trade = feed[next].event /\ t = feed[next].ts
  OBVIOUS
<1>2. /\ Loop!MarketFirst /\ config' = config /\ trade.type = "trade"
      /\ Loop!DispatchMarket([requests |-> NewArrivals, throws |-> threw' \/ Rejected])
  BY <1>1 DEF OnTrade
<1>3. t \in Nat /\ TradeFits(trade)
  BY <1>1, <1>2, NextPayload
<1>4. threw' \in BOOLEAN /\ DOMAIN OrdersAfterTrade(trade) = DOMAIN orders
  BY <1>1, TradeExtends
<1>5. PICK n \in Nat : Creates(n, t)
  BY <1>1, TradeExtends
<1>6. PICK throws \in BOOLEAN : throws = (threw' \/ Rejected)
  BY <1>4
<1>7. (threw' \/ Rejected) /\ trace'[Len(trace')].ts = t
  BY <1>1, <1>2, <1>5, <1>6, MarketDispatched DEF ExecInv
<1>8. CASE Rejected
  BY <1>8, RejectedIsRefused DEF Explained
<1>9. CASE ~Rejected /\ FeeThrows(trade)
  <2>1. PICK id \in DOMAIN orders : /\ OrdersAfterTrade(trade)[id] = orders[id]
                                    /\ Active(orders[id]) /\ Unaffordable(orders[id])
    BY <1>3, <1>9, TradeUnaffordable
  <2>2. orders' = OrdersAfterTrade(trade)
    BY <1>1, <1>9 DEF OnTrade
  <2>3. id \in DOMAIN orders' /\ orders'[id] = orders[id]
    BY <1>4, <2>1, <2>2
  <2>4. OrderUnaffordable'
    BY <2>1, <2>3 DEF OrderUnaffordable, Unaffordable, Active
  <2> QED BY <2>4 DEF Explained
<1>10. CASE ~Rejected /\ ~FeeThrows(trade)
  <2>1. PICK intents \in IntentLists : Submit(intents, OrderLatency, t, OrdersAfterTrade(trade))
    BY <1>1, <1>10 DEF OnTrade
  <2>2. threw' => t + OrderLatency > MaxTimestamp
    BY <1>3, <1>4, <2>1, SubmitCreates DEF ExecInv, WellFormed
  <2> QED BY <1>2, <1>7, <1>10, <2>2 DEF Explained, OutOfTime, OrderLatency
<1> QED BY <1>8, <1>9, <1>10

LEMMA ArrivalAborts ==
  ASSUME EngineInv, OnOrderArrival, status' = "handler_threw"
  PROVE  Explained(trace[Len(trace)])'
<1> USE DEF EngineInv
<1>1. PICK e \in queue, id \in 1..MaxOrders : /\ ArrivalStep(e, id) /\ id = e.event.order
  <2>1. PICK e \in queue : ArrivalStep(e, e.event.order)
    BY ArrivalOfOrder
  <2>2. status = "running"
    BY <2>1 DEF ArrivalStep, Loop!DispatchInternal
  <2> QED BY <2>1, <2>2, TopFitsOrder
<1>2. /\ status = "running" /\ Loop!IsTop(e) /\ e.ts \in 0..MaxTimestamp /\ e.ts \in Nat
      /\ e.event = Arrival(id) /\ ArrivalAccepted(id, e.ts)
      /\ config' = config /\ book' = book /\ ProcessOrderArrival(id, e.ts, book)
  <2>1. status = "running"
    BY <1>1 DEF ArrivalStep, Loop!DispatchInternal
  <2> QED BY <1>1, <2>1, TopFitsOrder DEF ArrivalStep
<1>3. id \in DOMAIN orders /\ orders[id].status = "Pending"
  BY <1>2 DEF ArrivalAccepted
<1>4. threw' \in BOOLEAN
  BY <1>2, ArrivalOutcome
<1>5. PICK throws \in BOOLEAN : throws = ArrivalThrows(e, id)
  BY <1>4 DEF ArrivalThrows
<1>6. throws /\ trace'[Len(trace')] = Loop!InternalEntry(e)
  <2>1. PICK reqs : reqs = CancelsQueued(e, id)
    OBVIOUS
  <2>2. Loop!DispatchInternal([requests |-> reqs, throws |-> throws])
    BY <1>1, <1>5, <2>1 DEF ArrivalStep
  <2>3. /\ Len(reqs) \in Nat
        /\ \A i \in 1..Len(reqs) : reqs[i].ts \in Nat /\ reqs[i].ts >= e.ts /\ reqs[i].event \in OrderEvents
    BY <1>2, <2>1, CancelRequested
  <2> QED BY <1>2, <2>2, <2>3, InternalDispatched
<1>7. CASE Rejected
  BY <1>7, RejectedIsRefused DEF Explained
<1>8. CASE threw'
  <2>1. Charged(orders[id], book) # Swept(orders[id], book) /\ orders' = orders
    BY <1>2, <1>8 DEF ProcessOrderArrival
  <2>2. Unaffordable(orders[id])
    BY <1>2, <1>3, <2>1, ArrivalUnaffordable
  <2>3. OrderUnaffordable'
    BY <1>3, <2>1, <2>2 DEF OrderUnaffordable, Unaffordable
  <2> QED BY <2>3 DEF Explained
<1>9. CASE ~threw' /\ ~Rejected
  <2>1. Cancels(id) /\ ~CancelAccepted(e, id)
    BY <1>5, <1>6, <1>9 DEF ArrivalThrows
  <2>2. /\ CancelAfter # NoCancel /\ id \in DOMAIN resting'
        /\ ~(/\ id \in DOMAIN orders' /\ Active(orders'[id])
             /\ id \in DOMAIN resting' /\ e.ts + CancelAfter <= MaxTimestamp)
    BY <1>2, <2>1 DEF Cancels, CancelAccepted, CanCancel, Active, CancelAfter
  <2>3. Completes(id, e.ts, book)
    BY <1>2, <1>9, ArrivalOutcome
  <2>4. id \in DOMAIN orders' /\ Active(orders'[id])
    <3>1. id \notin DOMAIN resting
      BY <1>3 DEF ExecInv, RegistryHoldsActive, Active
    <3>2. /\ orders'[id] = Arrived(orders[id], book) /\ id \in DOMAIN orders'
          /\ orders[id].type = "limit" /\ SweepFilled(orders[id], book) < orders[id].qty
      BY <1>3, <2>2, <2>3, <3>1 DEF Completes
    <3> QED BY <1>3, <3>2, ArrivedOrder
  <2>5. CancelAfter \in Nat /\ MaxTimestamp \in Nat
    BY <2>2, ConfigTyped, BoundsAssumption
  <2>6. e.ts + CancelAfter > MaxTimestamp
    BY <1>2, <2>2, <2>4, <2>5
  <2>7. trace'[Len(trace')].ts = e.ts
    BY <1>6 DEF Loop!InternalEntry
  <2> QED BY <1>2, <2>2, <2>6, <2>7 DEF Explained, OutOfTime, CancelAfter
<1> QED BY <1>7, <1>8, <1>9

LEMMA CancelAborts ==
  ASSUME EngineInv, OnCancelArrival, status' = "handler_threw"
  PROVE  Explained(trace[Len(trace)])'
<1> USE DEF EngineInv
<1>0. PICK e \in queue : \E id :
        /\ CancelStep(e, id)
        /\ Loop!DispatchInternal([requests |-> << >>, throws |-> threw'])
  BY DEF OnCancelArrival, CancelStep
<1>1. PICK id :
        /\ CancelStep(e, id)
        /\ Loop!DispatchInternal([requests |-> << >>, throws |-> threw'])
  BY <1>0
<1>2. status = "running"
  BY <1>1 DEF Loop!DispatchInternal
<1>3. /\ Loop!IsTop(e) /\ id \in DOMAIN orders /\ e.event = Cancel(id) /\ id = e.event.order
      /\ e.event.type = "cancel_arrival"
      /\ (Active(orders[id]) /\ id \in DOMAIN resting) \/ orders[id].status = "Filled"
      /\ config' = config /\ ProcessCancelArrival(id)
  BY <1>1, <1>2, TopFitsOrder DEF CancelStep
<1>4. threw' \in BOOLEAN
  BY <1>3, CancelOutcome
<1>5. threw' /\ trace'[Len(trace')] = Loop!InternalEntry(e)
  <2>1. PICK reqs : reqs = << >>
    OBVIOUS
  <2>2. Len(reqs) \in Nat
        /\ \A i \in 1..Len(reqs) : reqs[i].ts \in Nat /\ reqs[i].ts >= e.ts /\ reqs[i].event \in OrderEvents
    BY <2>1
  <2>3. Loop!DispatchInternal([requests |-> reqs, throws |-> threw'])
    BY <1>1, <2>1
  <2> QED BY <1>3, <1>4, <2>2, <2>3, InternalDispatched
<1>6. orders' = orders /\ orders[id].status = "Filled"
  BY <1>3, <1>5, CancelOutcome
<1>7. /\ trace'[Len(trace')].class = "internal" /\ trace'[Len(trace')].event = e.event
  BY <1>5 DEF Loop!InternalEntry
<1> QED BY <1>3, <1>6, <1>7 DEF Explained, CancelOfFilled

LEMMA AbortsExplained ==
  ASSUME WellFormed, EngineInv, AbortExplained, [EngineNext]_engineVars
  PROVE  AbortExplained'
<1> SUFFICES ASSUME status' = "handler_threw" PROVE AbortExplained'
  BY DEF AbortExplained
<1>1. CASE OnBook \/ OnTrade \/ OnOrderArrival \/ OnCancelArrival
  <2>1. Explained(trace[Len(trace)])'
    BY <1>1, BookAborts, TradeAborts, ArrivalAborts, CancelAborts
  <2> QED BY <2>1, ReasonsExplain, PTL
<1>2. CASE Start \/ Finish \/ Report \/ Over \/ UNCHANGED engineVars
  <2>1. UNCHANGED <<config, orders, fills, portfolio, trace, status>>
    BY <1>2 DEF Start, Finish, Report, Over, engineVars, execVars, loopVars, Loop!Run, Loop!Return,
                Loop!Ended, Loop!vars
  <2> QED BY <2>1 DEF AbortExplained, OrderLatency, CancelAfter, Active
<1> QED BY <1>1, <1>2 DEF EngineNext, Step

(* If the strategy's intents are well formed, ReplayEngine::run ends early *)
(* only for the reasons AbortExplained names, and in no other state of the *)
(* book, the scheduler or the registry does any of its handlers throw.     *)
THEOREM AbortsCorrect == WellFormed /\ EngineSpec => []AbortExplained
<1>1. EngineInit => AbortExplained
  BY DEF EngineInit, Loop!Init, AbortExplained
<1>2. WellFormed /\ EngineInv /\ AbortExplained /\ [EngineNext]_engineVars => AbortExplained'
  BY AbortsExplained
<1>3. SUFFICES ASSUME WellFormed PROVE EngineSpec => []AbortExplained
  OBVIOUS
<1>4. EngineInv /\ AbortExplained /\ [EngineNext]_engineVars => AbortExplained'
  BY <1>2, <1>3
<1> QED BY <1>1, <1>4, EngineInvariant, PTL DEF EngineSpec

-----------------------------------------------------------------------------
\* The lemmas about folds and about the portfolio that PortfolioProofs has.
Accounting == INSTANCE PortfolioProofs WITH
  FillQtys <- 1..MaxQty, FillFees <- 0..MaxFee, MarkBooks <- {}

LEMMA AccountingAssumed ==
  /\ \A levels \in {} : \A side \in Accounting!Sides :
       Accounting!IsFiniteSet(DOMAIN levels[side]) /\ DOMAIN levels[side] \subseteq Nat
  /\ /\ Prices \subseteq Nat /\ 1..MaxQty \subseteq Nat \ {0}
     /\ 0..MaxFee \subseteq Nat /\ MaxFills \in Nat
  /\ MaxAmount \in Nat /\ Accounting!InRange(InitialCash)
<1>1. 1..MaxQty \subseteq Nat \ {0} /\ 0..MaxFee \subseteq Nat
  BY BoundsAssumption, FeesAssumption
<1>2. MaxAmount \in Nat /\ Accounting!InRange(InitialCash)
  BY AmountsAssumption DEF InRange, Accounting!InRange
<1> QED BY <1>1, <1>2, PricesAssumption, FeesAssumption

-----------------------------------------------------------------------------
\* The book as the feed makes it.

Updates == {k \in 1..Len(feed) : feed[k].event.type = "book"}

\* The book that the first n entries of the feed make.
BookAfter(n) ==
  LET made[k \in 0..Len(feed)] ==
        IF k = 0 THEN EmptyBook
        ELSE IF k \in Updates THEN Apply(made[k - 1], feed[k].event) ELSE made[k - 1]
  IN  made[n]

\* The fold of BookAsOf over some of the updates, on all sets of places.
FoldsBook(made, updates) ==
  made = [s \in SUBSET (1..Len(feed)) |->
            IF s = {} THEN EmptyBook
            ELSE IF Max(s) \in updates THEN Apply(made[s \ {Max(s)}], feed[Max(s)].event)
            ELSE made[s \ {Max(s)}]]

LEMMA ApplyIsBook ==
  ASSUME NEW levels \in Books(Prices, Nat),
         NEW update, update.side \in Sides, update.price \in Prices, update.qty \in Nat
  PROVE  Apply(levels, update) \in Books(Prices, Nat)
<1> DEFINE Side == UNION {[ps -> Nat \ {0}] : ps \in SUBSET Prices}
<1>1. PICK side, price, qty, old :
        side = update.side /\ price = update.price /\ qty = update.qty /\ old = levels[side]
  OBVIOUS
<1>2. PICK others : others = Restrict(old, DOMAIN old \ {price})
  OBVIOUS
<1>3. PICK new : new = IF qty = 0 THEN others
                       ELSE [p \in DOMAIN others \cup {price} |-> IF p = price THEN qty ELSE others[p]]
  OBVIOUS
<1>4. Apply(levels, update) = [levels EXCEPT ![side] = new]
  BY <1>1, <1>2, <1>3 DEF Apply
<1>5. levels \in [Sides -> Side] /\ old \in Side
  BY <1>1 DEF Books
<1>6. PICK ps \in SUBSET Prices : old \in [ps -> Nat \ {0}]
  BY <1>5
<1>7. others \in [ps \ {price} -> Nat \ {0}]
  BY <1>2, <1>6 DEF Restrict
<1>8. new \in [ps \ {price} -> Nat \ {0}] \/ new \in [(ps \ {price}) \cup {price} -> Nat \ {0}]
  <2>1. CASE qty = 0
    BY <1>3, <1>7, <2>1
  <2>2. CASE qty # 0
    <3>1. DOMAIN others = ps \ {price} /\ qty \in Nat \ {0} /\ \A p \in ps \ {price} : others[p] \in Nat \ {0}
      BY <1>1, <1>7, <2>2
    <3>2. new = [p \in (ps \ {price}) \cup {price} |-> IF p = price THEN qty ELSE others[p]]
      BY <1>3, <2>2, <3>1
    <3> QED BY <3>1, <3>2
  <2> QED BY <2>1, <2>2
<1>9. new \in Side
  <2>1. ps \ {price} \in SUBSET Prices /\ (ps \ {price}) \cup {price} \in SUBSET Prices
    BY <1>1
  <2> QED BY <1>8, <2>1
<1>10. [levels EXCEPT ![side] = new] \in [Sides -> Side]
  <2> HIDE DEF Side
  <2> QED BY <1>1, <1>5, <1>9
<1> QED BY <1>4, <1>10 DEF Books

LEMMA UpdatesAreUpdates ==
  ASSUME LoopTyped
  PROVE  /\ Len(feed) \in Nat
         /\ \A k \in Updates : LET update == feed[k].event
                               IN  update.side \in Sides /\ update.price \in Prices /\ update.qty \in Nat
<1>1. Len(feed) \in Nat
  <2>1. feed \in Seq([ts : Nat, seq : Nat, event : Payloads])
    BY FeedsMerged DEF LoopTyped
  <2> QED BY <2>1
<1>2. ASSUME NEW k \in Updates
      PROVE  LET update == feed[k].event
             IN  update.side \in Sides /\ update.price \in Prices /\ update.qty \in Nat
  <2>1. k \in 1..Len(feed) /\ feed[k].event.type = "book"
    BY DEF Updates
  <2> QED BY <2>1, FeedTyped, PayloadsAssumption
<1> QED BY <1>1, <1>2

LEMMA BookFoldExists ==
  ASSUME LoopTyped, NEW updates \in SUBSET Updates
  PROVE  \E made : FoldsBook(made, updates)
<1>1. PICK n \in Nat : n = Len(feed)
  BY UpdatesAreUpdates
<1>2. PICK V : V = Books(Prices, Nat)
  OBVIOUS
<1> DEFINE h == [p \in V \X (1..n) |-> IF p[2] \in updates THEN Apply(p[1], feed[p[2]].event) ELSE p[1]]
<1>3. EmptyBook \in V
  <2> DEFINE Side == UNION {[ps -> Nat \ {0}] : ps \in SUBSET Prices}
  <2>1. << >> \in [{} -> Nat \ {0}]
    OBVIOUS
  <2>2. << >> \in Side
    BY <2>1
  <2> HIDE DEF Side
  <2>3. EmptyBook \in [Sides -> Side]
    BY <2>2 DEF EmptyBook
  <2> QED BY <1>2, <2>3 DEF Books, Side
<1>4. \A v \in V : \A i \in 1..n :
        h[<<v, i>>] = IF i \in updates THEN Apply(v, feed[i].event) ELSE v
  OBVIOUS
<1>5. \A v \in V : \A i \in 1..n : h[<<v, i>>] \in V
  <2>1. \A v \in V : \A i \in updates : Apply(v, feed[i].event) \in V
    BY <1>2, UpdatesAreUpdates, ApplyIsBook
  <2> HIDE DEF h
  <2> QED BY <1>4, <2>1, ZenonT(60)
<1> HIDE DEF h
<1>6. PICK made : Accounting!Folds(made, h, EmptyBook, SUBSET (1..n))
  BY AccountingAssumed, Accounting!FoldExists
<1>7. \A s \in SUBSET (1..n) : made[s] \in V
  BY <1>3, <1>5, <1>6, AccountingAssumed, Accounting!FoldTyped
<1>8. \A s \in SUBSET (1..n) : s # {} =>
        h[<<made[s \ {Max(s)}], Max(s)>>] =
          IF Max(s) \in updates THEN Apply(made[s \ {Max(s)}], feed[Max(s)].event) ELSE made[s \ {Max(s)}]
  <2> SUFFICES ASSUME NEW s \in SUBSET (1..n), s # {}
               PROVE  h[<<made[s \ {Max(s)}], Max(s)>>] =
                        IF Max(s) \in updates THEN Apply(made[s \ {Max(s)}], feed[Max(s)].event)
                        ELSE made[s \ {Max(s)}]
    OBVIOUS
  <2>1. Max(s) = Accounting!Max(s)
    BY DEF Max, Accounting!Max
  <2>2. Accounting!Max(s) \in s
    BY AccountingAssumed, Accounting!LastPlace
  <2>3. Max(s) \in 1..n /\ made[s \ {Max(s)}] \in V
    BY <1>7, <2>1, <2>2
  <2> QED BY <1>4, <2>3
<1>9. made = [s \in SUBSET (1..n) |-> IF s = {} THEN EmptyBook ELSE h[<<made[s \ {Max(s)}], Max(s)>>]]
  BY <1>6 DEF Accounting!Folds, Accounting!Max, Max
<1>10. made = [s \in SUBSET (1..n) |->
                 IF s = {} THEN EmptyBook
                 ELSE IF Max(s) \in updates THEN Apply(made[s \ {Max(s)}], feed[Max(s)].event)
                 ELSE made[s \ {Max(s)}]]
  BY <1>8, <1>9
<1> QED BY <1>1, <1>10 DEF FoldsBook

\* What such a fold makes of the first k places.
LEMMA BookFoldPrefixes ==
  ASSUME LoopTyped, NEW updates, NEW made, FoldsBook(made, updates)
  PROVE  /\ made[1..0] = EmptyBook
         /\ \A k \in 1..Len(feed) :
              made[1..k] = IF k \in updates THEN Apply(made[1..(k - 1)], feed[k].event) ELSE made[1..(k - 1)]
<1>1. PICK n \in Nat : n = Len(feed)
  BY UpdatesAreUpdates
<1>2. 1..0 = {} /\ {} \in SUBSET (1..n)
  OBVIOUS
<1>3. ASSUME NEW k \in 1..n
      PROVE  made[1..k] = IF k \in updates THEN Apply(made[1..(k - 1)], feed[k].event) ELSE made[1..(k - 1)]
  <2>1. 1..k \in SUBSET (1..n) /\ 1..k # {} /\ Max(1..k) = k /\ (1..k) \ {k} = 1..(k - 1)
    BY AccountingAssumed, Accounting!PrefixPlaces DEF Max, Accounting!Max
  <2> QED BY <1>1, <2>1 DEF FoldsBook
<1> QED BY <1>1, <1>2, <1>3 DEF FoldsBook

LEMMA BookAfterUnfolded ==
  ASSUME LoopTyped
  PROVE  /\ BookAfter(0) = EmptyBook
         /\ \A k \in 1..Len(feed) :
              BookAfter(k) = IF k \in Updates THEN Apply(BookAfter(k - 1), feed[k].event) ELSE BookAfter(k - 1)
<1>1. PICK n \in Nat : n = Len(feed)
  BY UpdatesAreUpdates
<1> DEFINE Read(f) == [k \in 0..n |-> IF k = 0 THEN EmptyBook
                                      ELSE IF k \in Updates THEN Apply(f[k - 1], feed[k].event) ELSE f[k - 1]]
           read == CHOOSE f : f = Read(f)
<1>2. \A k : BookAfter(k) = read[k]
  BY <1>1 DEF BookAfter
<1>3. \E f : f = Read(f)
  <2>1. PICK made : FoldsBook(made, Updates)
    BY BookFoldExists
  <2>2. PICK f : f = [k \in 0..n |-> made[1..k]]
    OBVIOUS
  <2>3. \A k \in 0..n : f[k] = Read(f)[k]
    <3> SUFFICES ASSUME NEW k \in 0..n
                 PROVE  f[k] = IF k = 0 THEN EmptyBook
                               ELSE IF k \in Updates THEN Apply(f[k - 1], feed[k].event) ELSE f[k - 1]
      OBVIOUS
    <3>1. CASE k = 0
      BY <2>1, <2>2, <3>1, BookFoldPrefixes
    <3>2. CASE k # 0
      <4>1. k \in 1..n /\ k - 1 \in 0..n
        BY <3>2
      <4>2. f[k - 1] = made[1..(k - 1)] /\ f[k] = made[1..k]
        BY <2>2, <4>1
      <4>3. made[1..k] = IF k \in Updates THEN Apply(made[1..(k - 1)], feed[k].event) ELSE made[1..(k - 1)]
        BY <1>1, <2>1, <4>1, BookFoldPrefixes
      <4> QED BY <3>2, <4>2, <4>3
    <3> QED BY <3>1, <3>2
  <2>4. f = Read(f)
    BY <2>2, <2>3
  <2> QED BY <2>4
<1>4. read = Read(read)
  <2> HIDE DEF Read
  <2> QED BY <1>3
<1>5. \A k \in 0..n : read[k] = IF k = 0 THEN EmptyBook
                                ELSE IF k \in Updates THEN Apply(read[k - 1], feed[k].event) ELSE read[k - 1]
  <2>1. \A k \in 0..n : Read(read)[k] = IF k = 0 THEN EmptyBook
                                ELSE IF k \in Updates THEN Apply(read[k - 1], feed[k].event) ELSE read[k - 1]
    <3> HIDE DEF read
    <3> QED OBVIOUS
  <2> HIDE DEF read, Read
  <2> QED BY <1>4, <2>1
<1> HIDE DEF read
<1>6. \A k \in 1..n : k \in 0..n /\ k # 0
  OBVIOUS
<1> QED BY <1>1, <1>2, <1>5, <1>6

\* A book as of a time is what the entries up to that time have made.
LEMMA BookAsOfTime ==
  ASSUME LoopTyped, NEW t \in Nat, NEW m \in 0..Len(feed),
         \A k \in 1..m : feed[k].ts <= t, \A k \in (m + 1)..Len(feed) : feed[k].ts > t
  PROVE  BookAsOf(t) = BookAfter(m)
<1>1. PICK n \in Nat : n = Len(feed)
  BY UpdatesAreUpdates
<1>2. PICK updates : updates = {k \in 1..Len(feed) : feed[k].event.type = "book" /\ feed[k].ts <= t}
  OBVIOUS
<1>3. updates \in SUBSET Updates /\ \A k \in 1..n : k \in updates <=> k \in Updates /\ k <= m
  <2>1. \A k \in 1..n : feed[k].ts \in Nat
    BY <1>1, FeedTyped
  <2>2. \A k \in 1..n : k \in 1..m \/ k \in (m + 1)..n
    BY <1>1
  <2>3. \A k \in 1..n : feed[k].ts <= t <=> k <= m
    BY <1>1, <2>1, <2>2
  <2> QED BY <1>1, <1>2, <2>3 DEF Updates
<1> DEFINE seq == [k \in 1..n |-> k]
           Read(f) == [s \in SUBSET (DOMAIN seq) |->
                         IF s = {} THEN EmptyBook
                         ELSE IF seq[Max(s)] \in updates
                              THEN Apply(f[s \ {Max(s)}], feed[seq[Max(s)]].event) ELSE f[s \ {Max(s)}]]
           made == CHOOSE f : f = Read(f)
<1>4. BookAsOf(t) = made[1..n]
  BY <1>1, <1>2 DEF BookAsOf, FoldLeft, MapThenFoldSet
<1>5. DOMAIN seq = 1..n /\ \A s \in SUBSET (1..n) : s # {} => seq[Max(s)] = Max(s)
  <2> SUFFICES ASSUME NEW s \in SUBSET (1..n), s # {} PROVE Max(s) \in 1..n
    OBVIOUS
  <2>1. Max(s) = Accounting!Max(s)
    BY DEF Max, Accounting!Max
  <2>2. Accounting!Max(s) \in s
    BY AccountingAssumed, Accounting!LastPlace
  <2> QED BY <2>1, <2>2
<1>6. \A f : FoldsBook(f, updates) <=> f = Read(f)
  <2> SUFFICES ASSUME NEW f
               PROVE  Read(f) = [s \in SUBSET (1..n) |->
                                   IF s = {} THEN EmptyBook
                                   ELSE IF Max(s) \in updates THEN Apply(f[s \ {Max(s)}], feed[Max(s)].event)
                                   ELSE f[s \ {Max(s)}]]
    BY <1>1, ZenonT(60) DEF FoldsBook
  <2> HIDE DEF seq
  <2> QED BY <1>5
<1>7. FoldsBook(made, updates)
  <2>1. \E f : f = Read(f)
    <3> HIDE DEF Read
    <3> QED BY <1>3, <1>6, BookFoldExists
  <2>2. made = Read(made)
    <3> HIDE DEF Read
    <3> QED BY <2>1
  <2> HIDE DEF made, Read
  <2> QED BY <1>6, <2>2
<1> HIDE DEF made, Read, seq
<1> DEFINE T == {k \in 0..n : made[1..k] # BookAfter(IF k <= m THEN k ELSE m)}
<1>8. 0 \notin T
  BY <1>7, BookFoldPrefixes, BookAfterUnfolded
<1>9. T = {}
  <2>1. SUFFICES ASSUME T # {} PROVE FALSE
    OBVIOUS
  <2>2. PICK k \in 1..n : k \in T /\ k - 1 \in 0..n /\ k - 1 \notin T
    <3>1. T \in SUBSET (0..n)
      OBVIOUS
    <3> HIDE DEF T
    <3> QED BY <1>8, <2>1, <3>1, AccountingAssumed, Accounting!FirstBad
  <2>3. made[1..k] = IF k \in updates THEN Apply(made[1..(k - 1)], feed[k].event) ELSE made[1..(k - 1)]
    BY <1>1, <1>7, BookFoldPrefixes
  <2>4. made[1..(k - 1)] = BookAfter(IF k - 1 <= m THEN k - 1 ELSE m)
    BY <2>2
  <2>5. CASE k <= m
    <3>1. k \in updates <=> k \in Updates
      BY <1>3, <2>5
    <3>2. made[1..(k - 1)] = BookAfter(k - 1)
      BY <2>4, <2>5
    <3>3. made[1..k] = BookAfter(k)
      BY <1>1, <2>3, <3>1, <3>2, BookAfterUnfolded
    <3> QED BY <2>2, <2>5, <3>3
  <2>6. CASE ~(k <= m)
    <3>1. k \notin updates /\ made[1..(k - 1)] = BookAfter(m)
      <4>1. (IF k - 1 <= m THEN k - 1 ELSE m) = m
        BY <1>1, <2>6
      <4> QED BY <1>3, <2>4, <2>6, <4>1, SMTT(60)
    <3> QED BY <2>2, <2>3, <2>6, <3>1
  <2> QED BY <2>5, <2>6
<1>10. made[1..n] = BookAfter(m)
  <2>1. n \in 0..n /\ (IF n <= m THEN n ELSE m) = m
    BY <1>1
  <2> QED BY <1>9, <2>1
<1> QED BY <1>4, <1>10

-----------------------------------------------------------------------------
\* What has been read of the feed is in the past and in the book, and an order
\* that has arrived did so before everything that is still to be read.
Seen ==
  /\ \A k \in 1..(next - 1) : feed[k].ts <= now
  /\ book = BookAfter(next - 1)
  /\ \A id \in DOMAIN orders : orders[id].status # "Pending" =>
       \A k \in next..Len(feed) : orders[id].arrival < feed[k].ts

LEMMA BookAfterFixed ==
  ASSUME feed' = feed
  PROVE  \A k : BookAfter(k)' = BookAfter(k)
<1>1. Updates' = Updates
  BY DEF Updates
<1> QED BY <1>1 DEF BookAfter

LEMMA OrdersStaySeen ==
  ASSUME EngineInv, Seen, Lifecycle!Next, feed' = feed, next' \in {next, next + 1},
         \A id \in DOMAIN orders :
           orders[id].status = "Pending" /\ orders'[id].status # "Pending" =>
             \A k \in next'..Len(feed) : orders'[id].arrival < feed[k].ts
  PROVE  \A id \in DOMAIN orders' : orders'[id].status # "Pending" =>
           \A k \in next'..Len(feed') : orders'[id].arrival < feed'[k].ts
<1> SUFFICES ASSUME NEW id \in DOMAIN orders', orders'[id].status # "Pending", NEW k \in next'..Len(feed)
             PROVE  orders'[id].arrival < feed[k].ts
  OBVIOUS
<1>1. Len(feed) \in Nat /\ next \in Nat
  BY UpdatesAreUpdates DEF EngineInv, LoopTyped
<1>2. id \in DOMAIN orders /\ orders'[id].arrival = orders[id].arrival
  BY DEF Lifecycle!Next, Lifecycle!SameTerms
<1>3. k \in next..Len(feed)
  BY <1>1
<1> QED BY <1>2, <1>3 DEF Seen

LEMMA MarketStaysSeen ==
  ASSUME EngineInv, Seen, EngineNext, OnBook \/ OnTrade
  PROVE  Seen'
<1>0. EngineInv /\ ExecInv /\ LoopTyped
  BY DEF EngineInv
<1>1. /\ Loop!MarketFirst /\ feed' = feed /\ next' = next + 1 /\ now' = feed[next].ts /\ feed[next].ts >= now
  BY DEF OnBook, OnTrade, Loop!DispatchMarket
<1>2. next \in 1..Len(feed) /\ feed[next].ts \in Nat /\ now \in Nat /\ Len(feed) \in Nat
  BY <1>0, <1>1, NextPayload, UpdatesAreUpdates DEF LoopTyped
<1>3. \A k \in 1..(next' - 1) : feed'[k].ts <= now'
  <2>1. \A k \in 1..next : k = next \/ k \in 1..(next - 1)
    BY <1>2
  <2>2. \A k \in 1..(next - 1) : feed[k].ts <= now /\ feed[k].ts \in Nat
    <3>1. \A k \in 1..(next - 1) : k \in 1..Len(feed)
      BY <1>2
    <3> QED BY <1>0, <3>1, FeedTyped DEF Seen
  <2>3. next' - 1 = next
    BY <1>1, <1>2
  <2> QED BY <1>1, <1>2, <2>1, <2>2, <2>3
<1>4. book' = BookAfter(next - 1 + 1)
  <2>1. BookAfter(next) = IF next \in Updates THEN Apply(BookAfter(next - 1), feed[next].event)
                          ELSE BookAfter(next - 1)
    BY <1>0, <1>2, BookAfterUnfolded
  <2>2. next - 1 + 1 = next /\ book = BookAfter(next - 1)
    BY <1>2 DEF Seen
  <2>3. CASE OnBook
    <3>1. book' = Apply(book, feed[next].event) /\ next \in Updates
      BY <1>2, <2>3 DEF OnBook, Updates
    <3> QED BY <2>1, <2>2, <3>1
  <2>4. CASE OnTrade
    <3>1. book' = book /\ next \notin Updates
      BY <1>2, <2>4 DEF OnTrade, Updates
    <3> QED BY <2>1, <2>2, <3>1
  <2> QED BY <2>3, <2>4
<1>5. book' = (BookAfter(next - 1))'
  <2>1. next' - 1 = next - 1 + 1
    BY <1>1, <1>2
  <2>2. BookAfter(next - 1)' = BookAfter(next - 1 + 1)
    BY <1>1, <2>1, BookAfterFixed DEF BookAfter, Updates
  <2> QED BY <1>4, <2>2
<1>6. \A id \in DOMAIN orders : orders[id].status = "Pending" => orders'[id].status = "Pending"
  <2>1. CASE OnBook
    <3>1. PICK intents \in IntentLists : Submit(intents, OrderLatency, feed[next].ts, orders)
      BY <2>1 DEF OnBook, SubmitIntents
    <3>2. Extends(orders)
      BY <1>0, <1>2, <3>1, SubmitCreates DEF ExecInv
    <3> QED BY <3>2 DEF Extends
  <2>2. CASE OnTrade
    <3>1. PICK trade : trade = feed[next].event
      OBVIOUS
    <3>2. Extends(OrdersAfterTrade(trade)) /\ DOMAIN OrdersAfterTrade(trade) = DOMAIN orders
      BY <2>2, <3>1, TradeExtends
    <3>3. TradeFits(trade)
      BY <1>0, <1>1, <2>2, <3>1, NextPayload, SMTT(60) DEF OnTrade
    <3>4. Settles
      BY <1>0, <3>2, <3>3, TradeSettles DEF Extends
    <3> QED BY <3>4 DEF Settles
  <2> QED BY <2>1, <2>2
<1>7. \A id \in DOMAIN orders' : orders'[id].status # "Pending" =>
        \A k \in next'..Len(feed') : orders'[id].arrival < feed'[k].ts
  BY <1>1, <1>6, StepServesInTurn, OrdersStaySeen
<1> QED BY <1>3, <1>5, <1>7 DEF Seen

\* An internal event comes after what has been read and before the rest.
LEMMA InternalTime ==
  ASSUME EngineInv, Seen, NEW e \in queue, Loop!IsTop(e), NEW h, Loop!DispatchInternal(h)
  PROVE  /\ feed' = feed /\ next' = next /\ now' = e.ts /\ e.ts \in Nat
         /\ \A k \in 1..(next - 1) : feed[k].ts <= e.ts
         /\ \A k \in next..Len(feed) : feed[k].ts > e.ts
         /\ next - 1 \in 0..Len(feed)
<1>1. LoopTyped /\ NothingLate /\ Len(feed) \in Nat
  BY UpdatesAreUpdates DEF EngineInv
<1>2. ~Loop!MarketFirst /\ feed' = feed /\ next' = next
  BY DEF Loop!DispatchInternal
<1>3. \A g \in queue : g.ts \in Nat /\ g.seq \in Nat
  BY <1>1 DEF LoopTyped
<1>4. now' = e.ts /\ \A g \in queue : e.ts <= g.ts
  <2>1. PICK f \in queue : Loop!IsTop(f) /\ now' = f.ts
    BY DEF Loop!DispatchInternal
  <2>2. f = e
    BY <1>3, <2>1 DEF Loop!IsTop, Loop!EarlierScheduled
  <2> QED BY <1>3, <2>1, <2>2 DEF Loop!IsTop, Loop!EarlierScheduled
<1>5. next \in 1..(Len(feed) + 1) /\ now \in Nat /\ e.ts >= now
  BY <1>1 DEF LoopTyped, NothingLate
<1>6. ASSUME NEW k \in 1..(next - 1) PROVE feed[k].ts <= e.ts
  <2>1. k \in 1..Len(feed)
    BY <1>1, <1>5
  <2>2. feed[k].ts \in Nat /\ feed[k].ts <= now
    BY <1>1, <2>1, FeedTyped DEF Seen
  <2> QED BY <1>3, <1>5, <2>2
<1>7. ASSUME NEW k \in next..Len(feed) PROVE feed[k].ts > e.ts
  <2>1. next \in 1..Len(feed) /\ k \in 1..Len(feed)
    BY <1>1, <1>5
  <2>2. PICK g \in queue : ~(feed[next].ts <= g.ts)
    BY <1>1, <1>2, <2>1 DEF Loop!MarketFirst
  <2>3. feed[next].ts \in Nat /\ feed[k].ts \in Nat /\ feed[next].ts <= feed[k].ts
    BY <1>1, <2>1, FeedTyped
  <2> QED BY <1>3, <1>4, <2>2, <2>3, SMTT(60)
<1>8. next - 1 \in 0..Len(feed)
  BY <1>1, <1>5
<1> QED BY <1>2, <1>3, <1>4, <1>6, <1>7, <1>8, SMTT(60)

LEMMA InternalStaysSeen ==
  ASSUME EngineInv, Seen, EngineNext, OnOrderArrival \/ OnCancelArrival
  PROVE  Seen'
<1>0. PICK e \in queue : /\ Loop!IsTop(e) /\ book' = book
                         /\ \E h : Loop!DispatchInternal(h)
                         /\ \/ ProcessOrderArrival(e.event.order, e.ts, book)
                            \/ ProcessCancelArrival(e.event.order)
  BY DEF OnOrderArrival, OnCancelArrival
<1>1. PICK h : Loop!DispatchInternal(h)
  BY <1>0
<1>2. /\ feed' = feed /\ next' = next /\ now' = e.ts /\ e.ts \in Nat
      /\ \A k \in 1..(next - 1) : feed[k].ts <= e.ts
      /\ \A k \in next..Len(feed) : feed[k].ts > e.ts
  BY <1>0, <1>1, InternalTime
<1>3. ASSUME NEW id \in DOMAIN orders, orders[id].status = "Pending", orders'[id].status # "Pending"
      PROVE  orders'[id].arrival = e.ts
  <2>1. CASE ProcessCancelArrival(e.event.order)
    <3>1. orders'[id] = orders[id]
      <4>1. CASE orders' = orders
        BY <4>1
      <4>2. CASE /\ Active(orders[e.event.order])
                 /\ orders' = [orders EXCEPT ![e.event.order].status = "Canceled"]
        <5>1. id # e.event.order
          BY <1>3, <4>2 DEF Active
        <5> QED BY <4>2, <5>1
      <4> QED BY <2>1, <4>1, <4>2 DEF ProcessCancelArrival, Throws
    <3> QED BY <1>3, <3>1
  <2>2. CASE ProcessOrderArrival(e.event.order, e.ts, book)
    <3>1. orders' # orders /\ Completes(e.event.order, e.ts, book)
      BY <1>3, <2>2, ArrivalOutcome
    <3>2. id = e.event.order /\ orders[id].arrival = e.ts
      BY <1>3, <3>1 DEF Completes, ArrivalAccepted
    <3>3. orders'[id].arrival = orders[id].arrival
      BY <1>3, StepServesInTurn DEF Lifecycle!Next, Lifecycle!SameTerms
    <3> QED BY <3>2, <3>3
  <2> QED BY <1>0, <2>1, <2>2
<1>4. \A id \in DOMAIN orders :
        orders[id].status = "Pending" /\ orders'[id].status # "Pending" =>
          \A k \in next'..Len(feed) : orders'[id].arrival < feed[k].ts
  <2>1. \A k \in next..Len(feed) : feed[k].ts \in Nat
    <3>1. LoopTyped /\ Len(feed) \in Nat /\ next \in Nat /\ next >= 1
      BY UpdatesAreUpdates DEF EngineInv, LoopTyped
    <3>2. \A k \in next..Len(feed) : k \in 1..Len(feed)
      BY <3>1
    <3> QED BY <3>1, <3>2, FeedTyped
  <2> QED BY <1>2, <1>3, <2>1
<1>5. \A id \in DOMAIN orders' : orders'[id].status # "Pending" =>
        \A k \in next'..Len(feed') : orders'[id].arrival < feed'[k].ts
  BY <1>2, <1>4, StepServesInTurn, OrdersStaySeen, SMTT(60)
<1>6. book' = BookAfter(next - 1)'
  BY <1>0, <1>2 DEF Seen, BookAfter, Updates
<1> QED BY <1>2, <1>5, <1>6 DEF Seen

LEMMA SeenInit == EngineInit => Seen
<1> SUFFICES ASSUME EngineInit PROVE Seen
  OBVIOUS
<1>1. next = 1 /\ orders = << >> /\ book = EmptyBook
  BY DEF EngineInit, ExecInit, Loop!Init
<1>2. BookAfter(0) = EmptyBook
  BY EngineInitInv, BookAfterUnfolded DEF EngineInv
<1> QED BY <1>1, <1>2 DEF Seen

LEMMA SeenStep ==
  ASSUME EngineInv, Seen, [EngineNext]_engineVars
  PROVE  Seen'
<1>1. CASE OnBook \/ OnTrade \/ OnOrderArrival \/ OnCancelArrival
  <2>1. EngineNext
    BY <1>1 DEF EngineNext, Step
  <2> QED BY <1>1, <2>1, MarketStaysSeen, InternalStaysSeen
<1>2. CASE Start \/ Finish \/ Report \/ Over \/ UNCHANGED engineVars
  <2>1. UNCHANGED <<orders, book, feed, next, now>>
    BY <1>2 DEF Start, Finish, Report, Over, engineVars, execVars, loopVars, Loop!Run, Loop!Return,
                Loop!Ended, Loop!vars
  <2> QED BY <2>1 DEF Seen, BookAfter, Updates
<1> QED BY <1>1, <1>2 DEF EngineNext, Step

LEMMA SeenInvariant == EngineSpec => []Seen
BY SeenInit, SeenStep, EngineInvariant, PTL DEF EngineSpec

\* The step property of ArrivalSeesBookAsOf.
SeesBookAsOf ==
  /\ executions' > executions => book = BookAsOf(now')
  /\ \A f \in fills' \ fills :
       IF next' > next THEN f.ts > orders[f.order].arrival
                       ELSE f.ts = orders[f.order].arrival

LEMMA StepSeesBookAsOf ==
  ASSUME EngineInv, Seen, EngineNext
  PROVE  SeesBookAsOf
<1>0. EngineInv /\ ExecInv /\ LoopTyped /\ BookFits(book) /\ executions \in Int /\ next \in Int
  BY DEF EngineInv, ExecInv, ExecTypeOK, LoopTyped
<1>1. CASE UNCHANGED <<executions, fills>>
  BY <1>0, <1>1 DEF SeesBookAsOf
<1>2. CASE OnTrade
  <2>1. PICK trade, t : trade = feed[next].event /\ t = feed[next].ts
    OBVIOUS
  <2>2. /\ TradeFits(trade) /\ TradeEffects(trade, t) /\ next' = next + 1 /\ executions' = executions
        /\ next \in 1..Len(feed) /\ t \in Nat
    BY <1>0, <1>2, <2>1, NextPayload DEF OnTrade, Loop!DispatchMarket
  <2>3. ASSUME NEW f \in fills' \ fills PROVE f.ts > orders[f.order].arrival
    <3>1. f \in TradeFills(trade, t)
      BY <2>2 DEF TradeEffects
    <3>2. f.order \in Filled(trade) /\ f.ts = t
      BY <1>0, <2>2, <3>1, TradeFillTyped, SMTT(60)
    <3>3. f.order \in DOMAIN orders /\ orders[f.order].status # "Pending"
      BY <1>0, <2>2, <3>2, TradeFillsOrder DEF Active
    <3>4. orders[f.order].arrival \in Nat
      BY <1>0, <3>3, BoundsAssumption DEF ExecInv, ExecTypeOK, Orders
    <3>5. next \in next..Len(feed)
      BY <2>2
    <3> QED BY <2>1, <2>2, <3>2, <3>3, <3>4, <3>5, SMTT(60) DEF Seen
  <2> QED BY <1>0, <2>2, <2>3 DEF SeesBookAsOf
<1>3. CASE OnOrderArrival
  <2>1. PICK e \in queue : ArrivalStep(e, e.event.order)
    BY <1>3, ArrivalOfOrder
  <2>2. PICK id : id = e.event.order
    OBVIOUS
  <2>3. ProcessOrderArrival(id, e.ts, book) /\ Loop!IsTop(e) /\ \E h : Loop!DispatchInternal(h)
    BY <2>1, <2>2 DEF ArrivalStep
  <2>4. PICK h : Loop!DispatchInternal(h)
    BY <2>3
  <2>5. /\ next' = next /\ now' = e.ts /\ e.ts \in Nat /\ next - 1 \in 0..Len(feed)
        /\ \A k \in 1..(next - 1) : feed[k].ts <= e.ts
        /\ \A k \in next..Len(feed) : feed[k].ts > e.ts
    BY <2>3, <2>4, InternalTime
  <2>6. book = BookAsOf(now')
    <3>1. (next - 1) + 1 = next
      BY <1>0
    <3> QED BY <1>0, <2>5, <3>1, BookAsOfTime DEF Seen
  <2>7. CASE threw'
    <3>1. UNCHANGED <<executions, fills>>
      BY <2>3, <2>7, ArrivalOutcome
    <3> QED BY <1>1, <3>1
  <2>8. CASE ~threw'
    <3>1. id \in DOMAIN orders /\ fills' = fills \cup SweepFills(id, book)
      BY <2>3, <2>8, ArrivalOutcome DEF Completes, ArrivalAccepted
    <3>2. \A f \in SweepFills(id, book) : f.order = id /\ f.ts = orders[id].arrival
      BY <1>0, <3>1, SweepFillTyped
    <3> QED BY <1>0, <2>5, <2>6, <3>1, <3>2 DEF SeesBookAsOf
  <2> QED BY <2>7, <2>8
<1>4. CASE OnBook \/ OnCancelArrival \/ Start \/ Finish \/ Report \/ Over
  <2>1. UNCHANGED <<executions, fills>>
    BY <1>4 DEF OnBook, SubmitIntents, OnCancelArrival, ProcessCancelArrival, Throws,
                Start, Finish, Report, Over, execVars
  <2> QED BY <1>1, <2>1
<1> QED BY <1>2, <1>3, <1>4 DEF EngineNext, Step

(* No look-ahead and no staleness for every feed and every strategy: when  *)
(* process_order_arrival runs, the book it is given is exactly what the    *)
(* feed made of it up to and including the arrival time, and a trade fills *)
(* only orders that arrived before it.                                     *)
THEOREM BookSeenCorrect == EngineSpec => ArrivalSeesBookAsOf
<1>1. EngineSpec => []Seen
  BY SeenInvariant
<1>2. EngineInv /\ Seen /\ [EngineNext]_engineVars => [SeesBookAsOf]_engineVars
  BY StepSeesBookAsOf
<1>3. [][SeesBookAsOf]_engineVars <=> ArrivalSeesBookAsOf
  BY DEF SeesBookAsOf, ArrivalSeesBookAsOf
<1> QED BY <1>1, <1>2, <1>3, EngineInvariant, PTL DEF EngineSpec

-----------------------------------------------------------------------------
\* The portfolio and the fills.

\* What a fill adds to the position, and what it costs.
Gained(f) == IF f.side = "buy" THEN f.qty ELSE -f.qty
Outlay(f) == (IF f.side = "buy" THEN Notional(f) ELSE -Notional(f)) + f.fee

FirstFills(made, n) == {f \in made : f.seq <= n}

\* The portfolio has seen the first n of the fills made, and nothing else.
Accounts(p, made, n) ==
  /\ Len(p.ledger) = n
  /\ Position(p.lots) = SumFunctionOnSet([f \in made |-> Gained(f)], FirstFills(made, n))
  /\ InitialCash - p.cash = SumFunctionOnSet([f \in made |-> Outlay(f)], FirstFills(made, n))

\* The fills are numbered from 1 to n.
NumberedTo(made, n) ==
  /\ IsFiniteSet(made) /\ Cardinality(made) = n
  /\ \A f \in made : f.seq \in 1..n
  /\ \A f, g \in made : f.seq = g.seq => f = g

LEMMA FillOfEachNumber ==
  ASSUME NEW n \in Nat, NEW made, NumberedTo(made, n), NEW k \in 1..n
  PROVE  \E f \in made : f.seq = k
<1> DEFINE seqs == [f \in made |-> f.seq]
<1>1. seqs \in Injection(made, 1..n)
  BY DEF NumberedTo, Injection, IsInjective
<1>2. IsFiniteSet(1..n) /\ Cardinality(1..n) = n
  <2>1. 1 \in Int /\ n \in Int
    OBVIOUS
  <2> QED BY <2>1, FS_Interval
<1>3. seqs \in Surjection(made, 1..n)
  <2> HIDE DEF seqs
  <2>1. Cardinality(made) = Cardinality(1..n)
    BY <1>2 DEF NumberedTo
  <2> QED BY <1>1, <1>2, <2>1, FS_Injection
<1> QED BY <1>3 DEF Surjection

\* The engine's portfolio is the one PortfolioProofs speaks of.
LEMMA SamePortfolio ==
  /\ \A xs : Position(xs) = Accounting!Position(xs)
  /\ \A f : Notional(f) = Accounting!Notional(f) /\ Gained(f) = Accounting!Signed(f)
  /\ \A p, f : /\ Acceptable(p, f) <=> Accounting!Acceptable(p, f)
               /\ Applied(p, f) = Accounting!Applied(p, f)
<1>1. \A xs : Position(xs) = Accounting!Position(xs)
  BY SMTT(60) DEF Position, Accounting!Position, FoldLeft, Accounting!FoldLeft,
         MapThenFoldSet, Accounting!MapThenFoldSet, Max, Accounting!Max
<1>2. \A p, f : Matched(p, f) = Accounting!Matched(p, f)
  BY DEF Matched, Accounting!Matched, Close, Accounting!Close, Unmatched, Accounting!Unmatched,
         Opened, Accounting!Opened, Profit, Accounting!Profit, InRange, Accounting!InRange,
         FoldLeft, Accounting!FoldLeft, MapThenFoldSet, Accounting!MapThenFoldSet, Max, Accounting!Max
<1>3. \A f : Notional(f) = Accounting!Notional(f) /\ Gained(f) = Accounting!Signed(f)
  BY DEF Notional, Accounting!Notional, Gained, Accounting!Signed
<1>4. \A p, f : Paid(p, f) = Accounting!Paid(p, f)
  BY <1>3 DEF Paid, Accounting!Paid
<1>5. \A n : InRange(n) <=> Accounting!InRange(n)
  BY DEF InRange, Accounting!InRange
<1>6. \A p, f : Acceptable(p, f) <=> Accounting!Acceptable(p, f)
  BY <1>1, <1>2, <1>3, <1>4, <1>5 DEF Acceptable, Accounting!Acceptable
<1>7. \A p, f : Applied(p, f) = Accounting!Applied(p, f)
  BY <1>2, <1>3, <1>4 DEF Applied, Accounting!Applied
<1> QED BY <1>1, <1>3, <1>6, <1>7

LEMMA FillAmounts ==
  ASSUME NEW f, Accounting!Fillable(f)
  PROVE  f.price \in Nat /\ f.qty \in Nat /\ f.fee \in Nat /\ Gained(f) \in Int /\ Outlay(f) \in Int
<1>1. f.price \in Nat /\ f.qty \in Nat /\ f.fee \in Nat
  BY PricesAssumption DEF Accounting!Fillable
<1>2. Notional(f) \in Int
  BY <1>1 DEF Notional
<1> QED BY <1>1, <1>2 DEF Gained, Outlay

\* The sum over one more fill.
LEMMA OneFillMore ==
  ASSUME NEW n \in Nat, NEW made, IsFiniteSet(made), NEW w, \A f \in made : w[f] \in Int /\ f.seq \in Nat,
         NEW f \in made, f.seq = n + 1, \A g \in made : g.seq = f.seq => g = f
  PROVE  SumFunctionOnSet(w, FirstFills(made, n + 1)) = w[f] + SumFunctionOnSet(w, FirstFills(made, n))
<1>1. PICK S : S = FirstFills(made, n)
  OBVIOUS
<1>2. S \in SUBSET made /\ f \notin S
  BY <1>1 DEF FirstFills
<1>3. FirstFills(made, n + 1) = S \cup {f}
  <2>1. ASSUME NEW g \in made PROVE g.seq <= n + 1 <=> g.seq <= n \/ g = f
    <3>1. g.seq \in Nat
      OBVIOUS
    <3>2. CASE g.seq = n + 1
      BY <3>1, <3>2
    <3>3. CASE g.seq # n + 1
      BY <3>1, <3>3
    <3> QED BY <3>2, <3>3
  <2> QED BY <1>1, <2>1 DEF FirstFills
<1>4. IsFiniteSet(S)
  BY <1>2, FS_Subset
<1>5. \A y \in S \cup {f} : w[y] \in Int
  BY <1>2
<1> QED BY <1>1, <1>2, <1>3, <1>4, <1>5, SumAdd, ZenonT(60)

LEMMA AppliedAccounts ==
  ASSUME NEW n \in Nat, NEW made, IsFiniteSet(made),
         \A f, g \in made : f.seq = g.seq => f = g,
         \A f \in made : Accounting!Fillable(f) /\ f.seq \in Nat,
         NEW p \in Accounting!Sound(made), Accounts(p, made, n),
         NEW f \in made, f.seq = n + 1, Acceptable(p, f)
  PROVE  Accounts(Applied(p, f), made, n + 1)
<1>1. PICK q : q = Applied(p, f) /\ q = Accounting!Applied(p, f)
  BY SamePortfolio
<1>2. /\ Accounting!Position(q.lots) = Accounting!Position(p.lots) + Accounting!Signed(f)
      /\ Accounting!Position(p.lots) \in Int /\ Accounting!Signed(f) \in Int
      /\ q.cash = p.cash - (IF f.side = "buy" THEN Accounting!Notional(f) ELSE -Accounting!Notional(f)) - f.fee
      /\ Accounting!Notional(f) \in Int
      /\ q.ledger = Append(p.ledger, f)
  <2>1. Accounting!Acceptable(p, f) /\ Accounting!Fillable(f)
    BY SamePortfolio
  <2> QED BY <1>1, <2>1, AccountingAssumed, Accounting!AppliedSound, SMTT(60)
<1>3. p.cash \in Int /\ p.ledger \in Seq(made) /\ InitialCash \in Int
  BY AmountsAssumption DEF Accounting!Sound, InRange
<1>4. Len(q.ledger) = n + 1
  BY <1>2, <1>3, SMTT(60) DEF Accounts
<1>5. PICK gained, paid : gained = [g \in made |-> Gained(g)] /\ paid = [g \in made |-> Outlay(g)]
  OBVIOUS
<1>6. \A g \in made : gained[g] \in Int /\ paid[g] \in Int /\ gained[g] = Gained(g) /\ paid[g] = Outlay(g)
  BY <1>5, FillAmounts
<1>7. PICK S, T : S = FirstFills(made, n) /\ T = FirstFills(made, n + 1)
  OBVIOUS
<1>8. /\ SumFunctionOnSet(gained, T) = gained[f] + SumFunctionOnSet(gained, S)
      /\ SumFunctionOnSet(paid, T) = paid[f] + SumFunctionOnSet(paid, S)
  BY <1>6, <1>7, OneFillMore
<1>9. /\ Position(p.lots) = SumFunctionOnSet(gained, S)
      /\ InitialCash - p.cash = SumFunctionOnSet(paid, S)
  BY <1>5, <1>7 DEF Accounts
<1>10. Position(q.lots) = SumFunctionOnSet(gained, T)
  <2>1. Position(q.lots) = Position(p.lots) + gained[f] /\ Position(p.lots) \in Int
    BY <1>2, <1>6, SamePortfolio
  <2> QED BY <1>6, <1>8, <1>9, <2>1
<1>11. InitialCash - q.cash = SumFunctionOnSet(paid, T)
  <2>1. q.cash = p.cash - paid[f]
    <3>1. paid[f] = (IF f.side = "buy" THEN Notional(f) ELSE -Notional(f)) + f.fee
      BY <1>6 DEF Outlay
    <3>2. Notional(f) \in Int /\ Notional(f) = Accounting!Notional(f) /\ f.fee \in Int
      BY <1>2, SamePortfolio, FillAmounts
    <3> QED BY <1>2, <1>3, <3>1, <3>2, SMTT(60)
  <2> QED BY <1>3, <1>6, <1>8, <1>9, <2>1
<1> QED BY <1>1, <1>4, <1>5, <1>7, <1>10, <1>11 DEF Accounts

\* apply_new_fills goes through the fills that are new, in their order.
LEMMA NewFillsInTurn ==
  ASSUME NEW n \in Nat, NEW m \in Nat, NumberedTo(fills', n + m), Len(portfolio.ledger) = n
  PROVE  /\ DOMAIN NewFills = 1..m
         /\ \A k \in 1..m : NewFills[k] \in fills' /\ NewFills[k].seq = n + k
<1>1. PICK made : made = fills'
  OBVIOUS
<1>2. PICK new : new = {f \in made : f.seq > n}
  OBVIOUS
<1>3. Cardinality(new) = m
  <2> DEFINE T == (n + 1)..(n + m)
             seqs == [f \in new |-> f.seq]
  <2>1. IsFiniteSet(T) /\ Cardinality(T) = m
    <3>1. n + 1 \in Int /\ n + m \in Int
      OBVIOUS
    <3>2. IsFiniteSet(T) /\ Cardinality(T) = IF n + 1 > n + m THEN 0 ELSE (n + m) - (n + 1) + 1
      BY <3>1, FS_Interval
    <3> QED BY <3>2
  <2>2. /\ \A f \in new : f \in made /\ f.seq \in T
        /\ \A f, g \in new : f.seq = g.seq => f = g
    <3>1. \A f \in new : f \in made /\ f.seq \in 1..(n + m) /\ f.seq > n
      BY <1>1, <1>2 DEF NumberedTo
    <3> QED BY <1>1, <3>1 DEF NumberedTo
  <2>3. \A k \in T : \E f \in new : f.seq = k
    <3> SUFFICES ASSUME NEW k \in T PROVE \E f \in new : f.seq = k
      OBVIOUS
    <3>1. k \in 1..(n + m) /\ k > n /\ n + m \in Nat
      OBVIOUS
    <3>2. PICK f \in made : f.seq = k
      BY <1>1, <3>1, FillOfEachNumber
    <3> QED BY <1>2, <3>1, <3>2
  <2> HIDE DEF T
  <2>4. seqs \in Bijection(new, T)
    BY <2>2, <2>3 DEF Bijection, Injection, Surjection, IsInjective
  <2>5. IsFiniteSet(new)
    <3>1. new \in SUBSET made /\ IsFiniteSet(made)
      BY <1>1, <1>2 DEF NumberedTo
    <3> QED BY <3>1, FS_Subset
  <2>6. ExistsBijection(new, T)
    BY <2>4 DEF ExistsBijection
  <2> QED BY <2>1, <2>5, <2>6, FS_Bijection
<1>4. NewFills = [k \in 1..m |-> CHOOSE f \in made : f.seq = n + k]
  BY <1>1, <1>2, <1>3 DEF NewFills
<1>5. ASSUME NEW k \in 1..m PROVE NewFills[k] \in fills' /\ NewFills[k].seq = n + k
  <2>1. n + k \in 1..(n + m) /\ n + m \in Nat
    OBVIOUS
  <2>2. \E f \in made : f.seq = n + k
    BY <1>1, <2>1, FillOfEachNumber
  <2> QED BY <1>1, <1>4, <2>2
<1> QED BY <1>4, <1>5

\* One fill after the other, each only if all before it were applied.
AppliedInTurn(p, fs) ==
  FoldLeft(LAMBDA q, f : IF Len(q.ledger) = f.seq - 1 /\ Acceptable(q, f) THEN Applied(q, f) ELSE q, p, fs)

\* The portfolios it goes through.
PassesThrough(r, p, fs, n, made) ==
  /\ r[0] = p
  /\ \A k \in 0..n : r[k] \in Accounting!Sound(made)
  /\ \A k \in 1..n : r[k] = IF Len(r[k - 1].ledger) = fs[k].seq - 1 /\ Acceptable(r[k - 1], fs[k])
                            THEN Applied(r[k - 1], fs[k]) ELSE r[k - 1]
  /\ AppliedInTurn(p, fs) = r[n]

LEMMA InTurnFolded ==
  ASSUME NEW made, NEW p \in Accounting!Sound(made), NEW fs, NEW n \in Nat, DOMAIN fs = 1..n,
         \A k \in 1..n : fs[k] \in made /\ Accounting!Fillable(fs[k])
  PROVE  \E r : PassesThrough(r, p, fs, n, made)
<1> DEFINE Turn(q, f) == IF Len(q.ledger) = f.seq - 1 /\ Acceptable(q, f) THEN Applied(q, f) ELSE q
           Read(g) == [s \in SUBSET (DOMAIN fs) |-> IF s = {} THEN p ELSE Turn(g[s \ {Max(s)}], fs[Max(s)])]
           read == CHOOSE g : g = Read(g)
           V == Accounting!Sound(made)
           h == [q \in V \X (1..n) |-> Turn(q[1], fs[q[2]])]
<1>1. AppliedInTurn(p, fs) = read[DOMAIN fs]
  BY DEF AppliedInTurn, FoldLeft, MapThenFoldSet
<1>2. \A v \in V : \A i \in 1..n : Turn(v, fs[i]) \in V
  BY SamePortfolio, AccountingAssumed, Accounting!AppliedSound
<1> HIDE DEF Turn
<1>3. \A v \in V : \A i \in 1..n : h[<<v, i>>] = Turn(v, fs[i])
  OBVIOUS
<1>4. \A v \in V : \A i \in 1..n : h[<<v, i>>] \in V
  <2> HIDE DEF h, V
  <2> QED BY <1>2, <1>3
<1>5. PICK g : Accounting!Folds(g, h, p, SUBSET (1..n))
  <2> HIDE DEF h
  <2> QED BY AccountingAssumed, Accounting!FoldExists
<1>6. \A s \in SUBSET (1..n) : g[s] \in V
  <2> HIDE DEF h
  <2>1. p \in V
    OBVIOUS
  <2> HIDE DEF V
  <2> QED BY <1>4, <1>5, <2>1, AccountingAssumed, Accounting!FoldTyped
<1>7. g = Read(g)
  <2> HIDE DEF h, V
  <2>1. \A s \in SUBSET (1..n) : s # {} =>
          h[<<g[s \ {Max(s)}], Max(s)>>] = Turn(g[s \ {Max(s)}], fs[Max(s)])
    <3> SUFFICES ASSUME NEW s \in SUBSET (1..n), s # {}
                 PROVE  h[<<g[s \ {Max(s)}], Max(s)>>] = Turn(g[s \ {Max(s)}], fs[Max(s)])
      OBVIOUS
    <3>1. Max(s) = Accounting!Max(s) /\ Accounting!Max(s) \in s
      BY AccountingAssumed, Accounting!LastPlace DEF Max, Accounting!Max
    <3>2. Max(s) \in 1..n /\ g[s \ {Max(s)}] \in V
      BY <1>6, <3>1
    <3> QED BY <1>3, <3>2
  <2>2. g = [s \in SUBSET (1..n) |-> IF s = {} THEN p ELSE h[<<g[s \ {Max(s)}], Max(s)>>]]
    BY <1>5 DEF Accounting!Folds, Accounting!Max, Max
  <2> QED BY <2>1, <2>2
<1>8. read = Read(read)
  <2> HIDE DEF Read
  <2> QED BY <1>7
<1>9. /\ read[{}] = p
      /\ \A k \in 1..n : read[1..k] = Turn(read[1..(k - 1)], fs[k])
  <2>1. \A s \in SUBSET (1..n) :
          Read(read)[s] = IF s = {} THEN p ELSE Turn(read[s \ {Max(s)}], fs[Max(s)])
    <3> HIDE DEF read
    <3> QED OBVIOUS
  <2>2. \A s \in SUBSET (1..n) :
          read[s] = IF s = {} THEN p ELSE Turn(read[s \ {Max(s)}], fs[Max(s)])
    <3> HIDE DEF read, Read
    <3> QED BY <1>8, <2>1
  <2> HIDE DEF read, Read
  <2>3. QED
    <3>1. \A k \in 1..n : 1..k \in SUBSET (1..n) /\ 1..k # {} /\ Max(1..k) = k /\ (1..k) \ {k} = 1..(k - 1)
      BY AccountingAssumed, Accounting!PrefixPlaces DEF Max, Accounting!Max
    <3> QED BY <2>2, <3>1
<1>10. \A k \in 0..n : read[1..k] \in V
  <2>1. read[{}] \in V
    <3> HIDE DEF read
    <3> QED BY <1>9
  <2>2. \A k \in 1..n : read[1..(k - 1)] \in V => read[1..k] \in V
    <3> HIDE DEF read, V
    <3> QED BY <1>2, <1>9
  <2> HIDE DEF read, V
  <2> QED BY <2>1, <2>2, AccountingAssumed, Accounting!PrefixTyped
<1> DEFINE r == [k \in 0..n |-> read[1..k]]
<1>11. \A k \in 0..n : r[k] = read[1..k]
  OBVIOUS
<1>12. r[0] = p
  <2>1. 1..0 = {} /\ 0 \in 0..n
    OBVIOUS
  <2> HIDE DEF read, r
  <2> QED BY <1>9, <1>11, <2>1
<1>13. \A k \in 1..n : r[k] = Turn(r[k - 1], fs[k])
  <2>1. \A k \in 1..n : k \in 0..n /\ k - 1 \in 0..n
    OBVIOUS
  <2> HIDE DEF read, r
  <2> QED BY <1>9, <1>11, <2>1
<1>14. AppliedInTurn(p, fs) = r[n]
  <2>1. n \in 0..n
    OBVIOUS
  <2> HIDE DEF read, r
  <2> QED BY <1>1, <1>11, <2>1
<1>15. \A k \in 0..n : r[k] \in V
  <2> HIDE DEF read, r, V
  <2> QED BY <1>10, <1>11
<1> HIDE DEF read, r
<1> QED BY <1>12, <1>13, <1>14, <1>15 DEF Turn, PassesThrough

\* The portfolio stopped before the n-th fill made, at one that does not fit.
StuckBefore(p, made, n) ==
  Len(p.ledger) < n /\ \E f \in made : f.seq = Len(p.ledger) + 1 /\ ~Acceptable(p, f)

\* apply_new_fills applies every new fill, or stops at one that is rejected.
LEMMA NewFillsApplied ==
  ASSUME NEW n \in Nat, NEW m \in Nat, NEW made, made = fills', NumberedTo(made, n + m),
         \A f \in made : Accounting!Fillable(f),
         portfolio \in Accounting!Sound(made), Accounts(portfolio, made, n), ApplyNewFills
  PROVE  /\ portfolio' \in Accounting!Sound(made)
         /\ Accounts(portfolio', made, n + m) \/ StuckBefore(portfolio', made, n + m)
<1>1. PICK fs : fs = NewFills
  OBVIOUS
<1>2. DOMAIN fs = 1..m /\ \A k \in 1..m : fs[k] \in made /\ fs[k].seq = n + k
  BY <1>1, NewFillsInTurn DEF Accounts
<1>3. portfolio' = AppliedInTurn(portfolio, fs)
  BY <1>1 DEF ApplyNewFills, AppliedInTurn
<1>4. PICK r : PassesThrough(r, portfolio, fs, m, made)
  <2>1. \A k \in 1..m : fs[k] \in made /\ Accounting!Fillable(fs[k])
    BY <1>2
  <2> QED BY <1>2, <2>1, InTurnFolded
<1> DEFINE T == {k \in 0..m : ~(Accounts(r[k], made, n + k) \/ StuckBefore(r[k], made, n + k))}
<1>5. 0 \notin T
  <2>1. r[0] = portfolio /\ n + 0 = n
    BY <1>4 DEF PassesThrough
  <2> QED BY <2>1
<1>6. T = {}
  <2>1. SUFFICES ASSUME T # {} PROVE FALSE
    OBVIOUS
  <2>2. PICK k \in 1..m : k \in T /\ k - 1 \in 0..m /\ k - 1 \notin T
    <3>1. T \in SUBSET (0..m)
      OBVIOUS
    <3> HIDE DEF T
    <3> QED BY <1>5, <2>1, <3>1, AccountingAssumed, Accounting!FirstBad
  <2>3. PICK p, f, j : p = r[k - 1] /\ f = fs[k] /\ j = n + (k - 1) /\ j \in Nat
    <3>1. n + (k - 1) \in Nat
      OBVIOUS
    <3> QED BY <3>1
  <2>4. n + k = j + 1 /\ f \in made /\ f.seq = j + 1 /\ f.seq - 1 = j
    BY <1>2, <2>3
  <2>5. p \in Accounting!Sound(made) /\ Len(p.ledger) \in Nat
    <3>1. p \in Accounting!Sound(made)
      BY <1>4, <2>2, <2>3 DEF PassesThrough
    <3>2. p.ledger \in Seq(made)
      BY <3>1 DEF Accounting!Sound
    <3> QED BY <3>1, <3>2
  <2>6. r[k] = IF Len(p.ledger) = j /\ Acceptable(p, f) THEN Applied(p, f) ELSE p
    BY <1>4, <2>3, <2>4 DEF PassesThrough
  <2>7. Accounts(p, made, j) \/ StuckBefore(p, made, j)
    BY <2>2, <2>3
  <2>8. ~(Accounts(r[k], made, j + 1) \/ StuckBefore(r[k], made, j + 1))
    BY <2>2, <2>4
  <2>9. CASE Accounts(p, made, j) /\ Acceptable(p, f)
    <3>1. r[k] = Applied(p, f)
      BY <2>6, <2>9 DEF Accounts
    <3>2. /\ IsFiniteSet(made)
          /\ \A g, h \in made : g.seq = h.seq => g = h
          /\ \A g \in made : Accounting!Fillable(g) /\ g.seq \in Nat
      BY DEF NumberedTo
    <3>3. Accounts(Applied(p, f), made, j + 1)
      BY <2>3, <2>4, <2>5, <2>9, <3>2, AppliedAccounts
    <3> QED BY <2>8, <3>1, <3>3
  <2>10. CASE Accounts(p, made, j) /\ ~Acceptable(p, f)
    <3>1. r[k] = p /\ Len(p.ledger) = j
      BY <2>6, <2>10 DEF Accounts
    <3>2. StuckBefore(p, made, j + 1)
      BY <2>3, <2>4, <2>10, <3>1 DEF StuckBefore
    <3> QED BY <2>8, <3>1, <3>2
  <2>11. CASE StuckBefore(p, made, j)
    <3>1. Len(p.ledger) < j
      BY <2>11 DEF StuckBefore
    <3>2. r[k] = p
      BY <2>3, <2>5, <2>6, <3>1
    <3>3. StuckBefore(p, made, j + 1)
      BY <2>3, <2>5, <2>11, <3>1 DEF StuckBefore
    <3> QED BY <2>8, <3>2, <3>3
  <2> QED BY <2>7, <2>9, <2>10, <2>11
<1>7. m \in 0..m /\ m \notin T
  BY <1>6
<1> QED BY <1>3, <1>4, <1>7 DEF PassesThrough

-----------------------------------------------------------------------------
\* Between handlers the portfolio has seen every fill.
Ledger ==
  /\ NumberedTo(fills, nextFill - 1)
  /\ \A f \in fills : Accounting!Fillable(f) /\ f.side = orders[f.order].side
  /\ portfolio \in Accounting!Sound(fills)
  /\ Accounts(portfolio, fills, nextFill - 1)

LedgerInv == status # "handler_threw" => Ledger

LEMMA MoreFillsSound ==
  ASSUME NEW made, NEW more, made \subseteq more
  PROVE  Accounting!Sound(made) \subseteq Accounting!Sound(more)
<1>1. Seq(made) \subseteq Seq(more)
  OBVIOUS
<1> QED BY <1>1 DEF Accounting!Sound

\* A step that makes fills and has all of them applied.
LEMMA FillsReachPortfolio ==
  ASSUME ExecInv, ExecInv', FillsInv', Ledger, Lifecycle!Next,
         NEW made, IsFiniteSet(made), fills' = fills \cup made,
         nextFill' = nextFill + Cardinality(made),
         \A f \in made : /\ f.seq \in Nat /\ f.seq >= nextFill
                         /\ Accounting!Fillable(f)
                         /\ f.order \in DOMAIN orders /\ f.side = orders[f.order].side,
         ApplyNewFills, ~Rejected
  PROVE  Ledger'
<1>1. PICK n, m, all : /\ n = nextFill - 1 /\ m = Cardinality(made) /\ all = fills'
                       /\ n \in Nat /\ m \in Nat /\ nextFill' - 1 = n + m /\ nextFill = n + 1
  <2>1. nextFill - 1 \in Nat /\ Cardinality(made) \in Nat
        /\ nextFill' - 1 = (nextFill - 1) + Cardinality(made) /\ nextFill = (nextFill - 1) + 1
    BY FS_CardinalityType DEF ExecInv, ExecTypeOK
  <2> QED BY <2>1
<1>2. /\ NumberedTo(fills, n) /\ portfolio \in Accounting!Sound(fills) /\ Accounts(portfolio, fills, n)
      /\ \A f \in fills : Accounting!Fillable(f) /\ f.side = orders[f.order].side
  BY <1>1 DEF Ledger
<1>3. \A f \in fills : f.seq \in 1..n
  BY <1>2 DEF NumberedTo
<1>4. NumberedTo(all, n + m)
  <2>1. \A f \in all : f.seq \in 1..(n + m)
    BY <1>1 DEF ExecInv, ExecTypeOK
  <2>2. IsFiniteSet(all) /\ \A f, g \in all : f.seq = g.seq => f = g
    BY <1>1 DEF FillsInv, FillsAddUp
  <2>3. fills \cap made = {}
    BY <1>1, <1>3
  <2>4. Cardinality(all) = n + m
    <3>1. IsFiniteSet(fills) /\ Cardinality(fills) = n
      BY <1>2 DEF NumberedTo
    <3>2. Cardinality(fills \cup made) = Cardinality(fills) + Cardinality(made) - Cardinality({})
      BY <2>3, <3>1, FS_Union
    <3> QED BY <1>1, <3>1, <3>2, FS_EmptySet
  <2> QED BY <2>1, <2>2, <2>4 DEF NumberedTo
<1>5. \A f \in all : Accounting!Fillable(f)
  BY <1>1, <1>2
<1>6. portfolio \in Accounting!Sound(all)
  BY <1>1, <1>2, MoreFillsSound
<1>7. Accounts(portfolio, all, n)
  <2>1. FirstFills(all, n) = fills /\ FirstFills(fills, n) = fills
    <3>1. \A f \in made : ~(f.seq <= n)
      BY <1>1
    <3>2. \A f \in fills : f.seq <= n
      BY <1>1, <1>3
    <3> QED BY <1>1, <3>1, <3>2 DEF FirstFills
  <2>2. PICK gained, paid : gained = [f \in fills |-> Gained(f)] /\ paid = [f \in fills |-> Outlay(f)]
    OBVIOUS
  <2>3. PICK gainedAll, paidAll : gainedAll = [f \in all |-> Gained(f)] /\ paidAll = [f \in all |-> Outlay(f)]
    OBVIOUS
  <2>4. \A f \in fills : /\ gained[f] \in Int /\ gained[f] = gainedAll[f]
                         /\ paid[f] \in Int /\ paid[f] = paidAll[f]
    BY <1>1, <1>2, <2>2, <2>3, FillAmounts
  <2>5. IsFiniteSet(fills)
    BY <1>2 DEF NumberedTo
  <2>6. /\ SumFunctionOnSet(gained, fills) = SumFunctionOnSet(gainedAll, fills)
        /\ SumFunctionOnSet(paid, fills) = SumFunctionOnSet(paidAll, fills)
    BY <2>4, <2>5, SumSame
  <2> QED BY <1>2, <2>1, <2>2, <2>3, <2>6 DEF Accounts
<1>8. /\ portfolio' \in Accounting!Sound(all)
      /\ Accounts(portfolio', all, n + m) \/ StuckBefore(portfolio', all, n + m)
  BY <1>1, <1>4, <1>5, <1>6, <1>7, NewFillsApplied, SMTT(60)
<1>9. ~StuckBefore(portfolio', all, n + m)
  BY <1>1 DEF StuckBefore, Rejected
<1>10. \A f \in all : f.side = orders'[f.order].side
  <2>1. \A id \in DOMAIN orders : orders'[id].side = orders[id].side
    BY DEF Lifecycle!Next, Lifecycle!SameTerms
  <2>2. \A f \in fills : f.order \in DOMAIN orders
    BY DEF ExecInv, ExecTypeOK
  <2> QED BY <1>1, <1>2, <2>1, <2>2
<1> QED BY <1>1, <1>4, <1>5, <1>8, <1>9, <1>10 DEF Ledger

LEMMA FeeTyped == \A price, qty \in Nat : Fee(price, qty) \in Nat
<1> SUFFICES ASSUME NEW price \in Nat, NEW qty \in Nat PROVE Fee(price, qty) \in Nat
  OBVIOUS
<1>1. FeePpm \in Nat
  <2>1. Ppm \in Nat
    BY SMT DEF Ppm
  <2> QED BY <2>1, FractionsAssumption
<1>2. PICK x : x = price * qty * FeePpm /\ x \in Nat
  <2>1. price * qty \in Nat
    OBVIOUS
  <2>2. \A y \in Nat : y * FeePpm \in Nat
    BY <1>1
  <2> QED BY <2>1, <2>2
<1>3. (x + 500000) \div 1000000 \in Nat
  BY <1>2, SMT
<1> QED BY <1>2, <1>3, SMT DEF Fee, HalfUp, Ppm

LEMMA TradeFillsFillable ==
  ASSUME ExecInv, NEW trade, TradeFits(trade), NEW t
  PROVE  /\ IsFiniteSet(TradeFills(trade, t)) /\ Cardinality(TradeFills(trade, t)) = Cardinality(Filled(trade))
         /\ \A f \in TradeFills(trade, t) :
              /\ f.seq \in Nat /\ f.seq >= nextFill
              /\ Accounting!Fillable(f)
              /\ f.order \in DOMAIN orders /\ f.side = orders[f.order].side
<1>1. PICK made, S : made = TradeFills(trade, t) /\ S = Filled(trade)
  OBVIOUS
<1>2. /\ IsFiniteSet(made)
      /\ \A id \in S : \E f \in made : f.order = id
      /\ \A f, g \in made : f.order = g.order => f = g
  BY <1>1, TradeFillsDiffer
<1>3. \A f \in made :
        /\ f.order \in S /\ f.order \in DOMAIN orders
        /\ f.qty = FilledBy(f.order, trade) /\ f.qty \in 1..MaxQty
        /\ f.price = orders[f.order].limit
        /\ f.seq \in nextFill..(nextFill + Cardinality(S) - 1)
  BY <1>1, TradeFillTyped
<1>4. Cardinality(made) = Cardinality(S)
  <2>1. PICK order : order = [f \in made |-> f.order]
    OBVIOUS
  <2>2. order \in Bijection(made, S)
    BY <1>2, <1>3, <2>1 DEF Bijection, Injection, Surjection, IsInjective
  <2>3. ExistsBijection(made, S)
    BY <2>2 DEF ExistsBijection
  <2> QED BY <1>2, <2>3, FS_Bijection
<1>5. ASSUME NEW f \in made
      PROVE  /\ f.seq \in Nat /\ f.seq >= nextFill /\ Accounting!Fillable(f) /\ f.side = orders[f.order].side
  <2>1. PICK id : id = f.order /\ id \in S /\ id \in DOMAIN orders
    BY <1>3
  <2>2. nextFill \in Nat /\ Cardinality(S) \in Nat /\ MaxQty \in Nat
    BY <1>1, FilledFinite, BoundsAssumption, SMTT(60) DEF ExecInv, ExecTypeOK
  <2>3. id \in DOMAIN resting
    BY <1>1, <2>1, TradeFillsOrder
  <2>4. f.price \in Prices
    <3>1. orders[id].limit \in Prices \cup {NoLimit} /\ orders[id].type = "limit" /\ orders[id].limit # NoLimit
      BY <2>1, <2>3, OrderTyped DEF ExecInv, RegistryHoldsActive, StatusMatchesQuantity, StatusFits
    <3> QED BY <1>3, <2>1, <3>1
  <2>5. f.qty \in Nat \ {0}
    BY <1>3, <2>2
  <2>6. f.side = orders[id].side /\ f.fee = Fee(f.price, f.qty)
    <3>1. \E j, price, qty, n : f = Fill(j, price, qty, t, n)
      BY <1>1 DEF TradeFills
    <3> QED BY <2>1, <3>1 DEF Fill
  <2>7. f.fee \in Nat
    BY <2>4, <2>5, <2>6, PricesAssumption, FeeTyped
  <2>8. f.side \in Sides
    BY <2>1, <2>6, OrderTyped DEF ExecInv
  <2> QED BY <1>3, <2>1, <2>2, <2>4, <2>5, <2>6, <2>7, <2>8, SMTT(60)
      DEF Accounting!Fillable, Accounting!Sides, Sides
<1> QED BY <1>1, <1>2, <1>3, <1>4, <1>5

LEMMA SweepFillsFillable ==
  ASSUME ExecInv, NEW id \in DOMAIN orders, NEW met, BookFits(met)
  PROVE  /\ IsFiniteSet(SweepFills(id, met))
         /\ Cardinality(SweepFills(id, met)) = Cardinality(Swept(orders[id], met))
         /\ \A f \in SweepFills(id, met) :
              /\ f.seq \in Nat /\ f.seq >= nextFill
              /\ Accounting!Fillable(f)
              /\ f.order \in DOMAIN orders /\ f.side = orders[f.order].side
<1>1. PICK o, made, S : o = orders[id] /\ made = SweepFills(id, met) /\ S = Swept(o, met)
  OBVIOUS
<1>2. o.side \in Sides /\ Opposite(o.side) \in Sides /\ o.qty \in Nat
  BY <1>1, OrderTyped DEF ExecInv, Opposite, Sides
<1>3. /\ IsFiniteSet(S)
      /\ \A f \in made :
           /\ f.order = id /\ f.price \in S /\ f.qty = TakenAt(o, met, f.price)
           /\ f.qty \in Nat /\ f.seq \in Nat /\ f.seq >= nextFill
           /\ \A g \in made : /\ f.seq = g.seq => f = g
                              /\ f.seq < g.seq => Better(Opposite(o.side), f.price, g.price)
  BY <1>1, SweepFillTyped
<1>4. S \subseteq Prices /\ \A p \in S : TakenAt(o, met, p) > 0
  BY <1>1, <1>2, BetterIsLowerRank DEF Swept
<1>5. \A p \in S : \E f \in made : f.price = p
  <2> SUFFICES ASSUME NEW p \in S PROVE \E f \in made : f.price = p
    OBVIOUS
  <2>1. \E f \in made : \E n : f = Fill(id, p, TakenAt(o, met, p), o.arrival, n)
    BY <1>1 DEF SweepFills
  <2> QED BY <2>1 DEF Fill
<1>6. \A f, g \in made : f.price = g.price => f = g
  <2> SUFFICES ASSUME NEW f \in made, NEW g \in made, f.price = g.price PROVE f.seq = g.seq
    BY <1>3
  <2>1. \A p \in Nat : ~Better(Opposite(o.side), p, p)
    BY DEF Better
  <2>2. f.price \in Nat
    BY <1>3, <1>4, PricesAssumption
  <2>3. ~(f.seq < g.seq) /\ ~(g.seq < f.seq)
    BY <1>3, <2>1, <2>2
  <2> QED BY <1>3, <2>3
<1>7. IsFiniteSet(made) /\ Cardinality(made) = Cardinality(S)
  <2>1. IsFiniteSet(made)
    BY <1>1, SweepBooked
  <2>2. PICK price : price = [f \in made |-> f.price]
    OBVIOUS
  <2>3. price \in Bijection(made, S)
    BY <1>3, <1>5, <1>6, <2>2 DEF Bijection, Injection, Surjection, IsInjective
  <2>4. ExistsBijection(made, S)
    BY <2>3 DEF ExistsBijection
  <2> QED BY <2>1, <2>4, FS_Bijection
<1>8. ASSUME NEW f \in made PROVE Accounting!Fillable(f) /\ f.side = o.side
  <2>1. f.side = o.side /\ f.fee = Fee(f.price, f.qty)
    <3>1. \E price, qty, n : f = Fill(id, price, qty, o.arrival, n)
      BY <1>1 DEF SweepFills
    <3> QED BY <1>1, <3>1 DEF Fill
  <2>2. f.price \in Prices /\ f.price \in Nat /\ f.qty \in Nat \ {0}
    <3>1. f.price \in S /\ f.qty = TakenAt(o, met, f.price) /\ f.qty \in Nat
      BY <1>3
    <3>2. f.qty > 0
      BY <1>4, <3>1
    <3>3. f.price \in Prices /\ f.price \in Nat
      BY <1>4, <3>1, PricesAssumption
    <3>4. f.qty # 0
      BY <3>1, <3>2
    <3> QED BY <3>1, <3>3, <3>4
  <2>3. f.fee \in Nat
    BY <2>1, <2>2, FeeTyped
  <2> QED BY <1>2, <2>1, <2>2, <2>3 DEF Accounting!Fillable, Accounting!Sides, Sides
<1> QED BY <1>1, <1>3, <1>7, <1>8

LEMMA LedgerInit == EngineInit => Ledger
<1> SUFFICES ASSUME EngineInit PROVE Ledger
  OBVIOUS
<1>1. fills = {} /\ nextFill = 1 /\ portfolio = NewPortfolio
  BY DEF EngineInit, ExecInit
<1>2. NumberedTo(fills, nextFill - 1)
  BY <1>1, FS_EmptySet DEF NumberedTo
<1>3. portfolio \in Accounting!Sound(fills)
  <2>1. << >> \in Seq(Accounting!Lots) /\ << >> \in Seq(fills) /\ Accounting!OneSided(<< >>, "buy")
    BY DEF Accounting!OneSided
  <2>2. InitialCash \in Int /\ Accounting!InRange(0) /\ "buy" \in Accounting!Sides
    BY AmountsAssumption DEF InRange, Accounting!InRange, Accounting!Sides
  <2> QED BY <1>1, <2>1, <2>2 DEF NewPortfolio, Accounting!Sound
<1>4. Accounts(portfolio, fills, nextFill - 1)
  <2>1. Position(<< >>) = 0
    BY SamePortfolio, AccountingAssumed, Accounting!PositionOfFew
  <2>2. FirstFills(fills, nextFill - 1) = {}
    BY <1>1 DEF FirstFills
  <2>3. InitialCash - InitialCash = 0
    BY AmountsAssumption DEF InRange
  <2>4. \A w : SumFunctionOnSet(w, FirstFills(fills, nextFill - 1)) = 0
    BY <2>2, SumEmpty
  <2>5. portfolio.cash = InitialCash /\ portfolio.lots = << >> /\ portfolio.ledger = << >>
    BY <1>1 DEF NewPortfolio
  <2>6. Len(portfolio.ledger) = nextFill - 1
    BY <1>1, <2>5
  <2> QED BY <2>1, <2>3, <2>4, <2>5, <2>6, SMTT(60) DEF Accounts
<1> QED BY <1>1, <1>2, <1>3, <1>4 DEF Ledger

\* A step that neither fills nor pays.
LEMMA LedgerKept ==
  ASSUME ExecInv, Ledger, Lifecycle!Next, UNCHANGED <<fills, nextFill, portfolio>>
  PROVE  Ledger'
<1>1. \A f \in fills : orders'[f.order].side = orders[f.order].side
  BY DEF ExecInv, ExecTypeOK, Lifecycle!Next, Lifecycle!SameTerms
<1> QED BY <1>1 DEF Ledger

LEMMA TradeReachesPortfolio ==
  ASSUME EngineInv, EngineInv', Lifecycle!Next, Ledger, OnTrade, status' # "handler_threw"
  PROVE  Ledger'
<1>1. PICK trade, t : trade = feed[next].event /\ t = feed[next].ts
  OBVIOUS
<1>2. TradeFits(trade) /\ TradeEffects(trade, t)
  BY <1>1, NextPayload DEF OnTrade, EngineInv
<1>3. ~FeeThrows(trade) /\ ~Rejected
  <2>1. Loop!DispatchMarket([requests |-> NewArrivals, throws |-> threw' \/ Rejected])
    BY DEF OnTrade
  <2>2. ~(threw' \/ Rejected)
    BY <2>1 DEF Loop!DispatchMarket, Loop!Handle
  <2> QED BY <1>1, <2>2, TradeExtends
<1>4. ApplyNewFills
  BY <1>1, <1>3 DEF OnTrade
<1>5. PICK made : made = TradeFills(trade, t)
  OBVIOUS
<1>6. fills' = fills \cup made /\ nextFill' = nextFill + Cardinality(Filled(trade))
  BY <1>2, <1>5 DEF TradeEffects
<1>7. /\ IsFiniteSet(made) /\ Cardinality(made) = Cardinality(Filled(trade))
      /\ \A f \in made : /\ f.seq \in Nat /\ f.seq >= nextFill
                         /\ Accounting!Fillable(f)
                         /\ f.order \in DOMAIN orders /\ f.side = orders[f.order].side
  BY <1>2, <1>5, TradeFillsFillable DEF EngineInv
<1>8. ExecInv /\ ExecInv' /\ FillsInv'
  BY DEF EngineInv
<1> QED BY <1>3, <1>4, <1>6, <1>7, <1>8, FillsReachPortfolio, SMTT(60)

LEMMA ArrivalReachesPortfolio ==
  ASSUME EngineInv, EngineInv', Lifecycle!Next, Ledger, OnOrderArrival, status' # "handler_threw"
  PROVE  Ledger'
<1>1. PICK e \in queue : ArrivalStep(e, e.event.order)
  BY ArrivalOfOrder
<1>2. PICK id : id = e.event.order
  OBVIOUS
<1>3. ~threw' /\ ~Rejected
  <2>1. Loop!DispatchInternal([requests |-> CancelsQueued(e, id), throws |-> ArrivalThrows(e, id)])
    BY <1>1, <1>2 DEF ArrivalStep
  <2>2. ~ArrivalThrows(e, id)
    BY <2>1 DEF Loop!DispatchInternal, Loop!Handle
  <2> QED BY <2>2 DEF ArrivalThrows
<1>4. ApplyNewFills /\ ProcessOrderArrival(id, e.ts, book)
  BY <1>1, <1>2 DEF ArrivalStep
<1>5. Completes(id, e.ts, book)
  BY <1>3, <1>4, ArrivalOutcome
<1>6. PICK made : made = SweepFills(id, book)
  OBVIOUS
<1>7. /\ id \in DOMAIN orders /\ fills' = fills \cup made
      /\ nextFill' = nextFill + Cardinality(Swept(orders[id], book))
  BY <1>5, <1>6 DEF Completes, ArrivalAccepted
<1>8. /\ IsFiniteSet(made) /\ Cardinality(made) = Cardinality(Swept(orders[id], book))
      /\ \A f \in made : /\ f.seq \in Nat /\ f.seq >= nextFill
                         /\ Accounting!Fillable(f)
                         /\ f.order \in DOMAIN orders /\ f.side = orders[f.order].side
  BY <1>6, <1>7, SweepFillsFillable DEF EngineInv
<1>9. ExecInv /\ ExecInv' /\ FillsInv'
  BY DEF EngineInv
<1> QED BY <1>3, <1>4, <1>7, <1>8, <1>9, FillsReachPortfolio, SMTT(60)

LEMMA LedgerStep ==
  ASSUME EngineInv, LedgerInv, [EngineNext]_engineVars
  PROVE  LedgerInv'
<1> SUFFICES ASSUME status' # "handler_threw" PROVE Ledger'
  BY DEF LedgerInv
<1>1. EngineInv' /\ ExecInv
  BY EngineStepInv DEF EngineInv
<1>2. CASE OnTrade \/ OnOrderArrival
  <2>1. status = "running" /\ EngineNext
    BY <1>2 DEF OnTrade, OnOrderArrival, Loop!DispatchMarket, Loop!DispatchInternal, Loop!MarketFirst,
                EngineNext, Step
  <2>2. Ledger /\ Lifecycle!Next
    BY <2>1, StepServesInTurn DEF LedgerInv
  <2> QED BY <1>1, <1>2, <2>2, TradeReachesPortfolio, ArrivalReachesPortfolio, SMTT(60)
<1>3. CASE OnBook \/ OnCancelArrival \/ Start \/ Finish \/ Report \/ Over
  <2>1. EngineNext
    BY <1>3 DEF EngineNext, Step
  <2>2. UNCHANGED <<fills, nextFill, portfolio>>
    BY <1>3 DEF OnBook, SubmitIntents, OnCancelArrival, ProcessCancelArrival, Throws,
                Start, Finish, Report, Over, execVars
  <2>3. status # "handler_threw"
    BY <1>3 DEF OnBook, OnCancelArrival, Start, Finish, Report, Over, loopVars, Loop!DispatchMarket,
                Loop!DispatchInternal, Loop!MarketFirst, Loop!Run, Loop!Return, Loop!Ended, Loop!vars
  <2> QED BY <1>1, <2>1, <2>2, <2>3, StepServesInTurn, LedgerKept DEF LedgerInv
<1>4. CASE UNCHANGED engineVars
  <2>1. UNCHANGED <<orders, fills, nextFill, portfolio, status>>
    BY <1>4 DEF engineVars, execVars, loopVars
  <2>2. Lifecycle!Next
    BY <2>1 DEF Lifecycle!Next
  <2> QED BY <1>1, <2>1, <2>2, LedgerKept DEF LedgerInv
<1> QED BY <1>2, <1>3, <1>4 DEF EngineNext, Step

\* What the fills of one order, or of all of a set of orders, add to the position.
LEMMA GainedByOrder ==
  ASSUME ExecInv, FillsInv, Ledger, NEW id \in DOMAIN orders
  PROVE  SumFunctionOnSet([f \in fills |-> Gained(f)], {f \in fills : f.order = id})
           = IF orders[id].side = "buy" THEN orders[id].filled ELSE -orders[id].filled
<1>1. PICK own : own = {f \in fills : f.order = id}
  OBVIOUS
<1>2. PICK gained, sold, none : /\ gained = [f \in fills |-> Gained(f)]
                                /\ sold = [f \in fills |-> f.qty]
                                /\ none = [f \in fills |-> 0]
  OBVIOUS
<1>3. IsFiniteSet(own)
  <2>1. own \in SUBSET fills /\ IsFiniteSet(fills)
    BY <1>1 DEF FillsInv
  <2> QED BY <2>1, FS_Subset
<1>4. \A f \in own : /\ gained[f] \in Int /\ sold[f] \in Int /\ none[f] = 0
                     /\ gained[f] = IF orders[id].side = "buy" THEN sold[f] ELSE -sold[f]
  <2> SUFFICES ASSUME NEW f \in own
               PROVE  /\ gained[f] \in Int /\ sold[f] \in Int /\ none[f] = 0
                      /\ gained[f] = IF orders[id].side = "buy" THEN sold[f] ELSE -sold[f]
    OBVIOUS
  <2>1. f \in fills /\ f.order = id /\ Accounting!Fillable(f) /\ f.side = orders[id].side
    BY <1>1 DEF Ledger
  <2>2. gained[f] = Gained(f) /\ sold[f] = f.qty /\ none[f] = 0
    BY <1>2, <2>1
  <2> QED BY <2>1, <2>2, FillAmounts DEF Gained
<1>5. orders[id].filled = SumFunctionOnSet(sold, own)
  BY <1>1, <1>2 DEF FillsInv, FillsAddUp
<1>6. CASE orders[id].side = "buy"
  <2>1. SumFunctionOnSet(gained, own) = SumFunctionOnSet(sold, own)
    BY <1>3, <1>4, <1>6, SumSame
  <2> QED BY <1>1, <1>2, <1>5, <1>6, <2>1, SMTT(60)
<1>7. CASE orders[id].side # "buy"
  <2>1. \A f \in own : none[f] \in Int /\ gained[f] \in Int /\ sold[f] \in Int
    BY <1>4
  <2>2. \A f \in own : none[f] = gained[f] + sold[f] /\ none[f] = none[f] + none[f]
    BY <1>4, <1>7
  <2>3. SumFunctionOnSet(none, own) = SumFunctionOnSet(gained, own) + SumFunctionOnSet(sold, own)
    BY <1>3, <2>1, <2>2, SumPlus
  <2>4. SumFunctionOnSet(none, own) = SumFunctionOnSet(none, own) + SumFunctionOnSet(none, own)
    BY <1>3, <2>1, <2>2, SumPlus, SMTT(60)
  <2>5. /\ SumFunctionOnSet(none, own) \in Int /\ SumFunctionOnSet(gained, own) \in Int
        /\ SumFunctionOnSet(sold, own) \in Int
    BY <1>3, <2>1, SumWithout
  <2>6. SumFunctionOnSet(gained, own) = -SumFunctionOnSet(sold, own)
    <3>1. PICK x, y, z : /\ x = SumFunctionOnSet(none, own) /\ y = SumFunctionOnSet(gained, own)
                         /\ z = SumFunctionOnSet(sold, own)
      OBVIOUS
    <3>2. x \in Int /\ y \in Int /\ z \in Int /\ x = y + z /\ x = x + x
      BY <2>3, <2>4, <2>5, <3>1
    <3>3. y = -z
      BY <3>2
    <3> QED BY <3>1, <3>3
  <2> QED BY <1>1, <1>2, <1>5, <1>7, <2>6
<1> QED BY <1>6, <1>7

LEMMA GainedByOrders ==
  ASSUME ExecInv, FillsInv, Ledger, NEW held,
         \A id \in DOMAIN orders :
           held[id] = IF orders[id].side = "buy" THEN orders[id].filled ELSE -orders[id].filled
  PROVE  SumFunctionOnSet([f \in fills |-> Gained(f)], fills) = SumFunctionOnSet(held, DOMAIN orders)
<1>1. PICK gained : gained = [f \in fills |-> Gained(f)]
  OBVIOUS
<1> DEFINE Of(s) == {f \in fills : f.order \in s}
           Bad == {s \in SUBSET (DOMAIN orders) :
                     SumFunctionOnSet(gained, Of(s)) # SumFunctionOnSet(held, s)}
<1>2. IsFiniteSet(DOMAIN orders)
  <2>1. DOMAIN orders \in SUBSET (1..(nextOrder - 1)) /\ nextOrder \in Int
    BY BoundsAssumption DEF ExecInv, ExecTypeOK
  <2>2. IsFiniteSet(1..(nextOrder - 1))
    <3>1. 1 \in Int /\ nextOrder - 1 \in Int
      BY <2>1
    <3> QED BY <3>1, FS_Interval
  <2> QED BY <2>1, <2>2, FS_Subset
<1>3. \A f \in fills : gained[f] \in Int
  BY <1>1, FillAmounts DEF Ledger
<1>4. \A id \in DOMAIN orders : held[id] \in Int
  BY OrderTyped DEF ExecInv
<1>5. ASSUME Bad # {} PROVE FALSE
  <2>1. PICK s \in Bad : \A r \in SUBSET s : r # s => r \notin Bad
    <3>1. Bad \in SUBSET SUBSET (DOMAIN orders)
      OBVIOUS
    <3> HIDE DEF Bad
    <3> QED BY <1>2, <1>5, <3>1, MinimalSubset
  <2>2. s # {}
    <3>1. ASSUME s = {} PROVE FALSE
      <4>1. Of(s) = {}
        BY <3>1
      <4> QED BY <2>1, <3>1, <4>1, SumEmpty
    <3> QED BY <3>1
  <2>3. PICK id, r : id \in s /\ r = s \ {id}
    BY <2>2
  <2>4. r \in SUBSET s /\ r # s /\ r \in SUBSET (DOMAIN orders) /\ id \in DOMAIN orders
        /\ s = r \cup {id} /\ id \notin r
    BY <2>1, <2>3
  <2>5. SumFunctionOnSet(gained, Of(r)) = SumFunctionOnSet(held, r)
    BY <2>1, <2>4
  <2>6. PICK own, others : own = {f \in fills : f.order = id} /\ others = Of(r)
    OBVIOUS
  <2>7. SumFunctionOnSet(held, s) = held[id] + SumFunctionOnSet(held, r)
    <3>1. IsFiniteSet(r) /\ \A y \in r \cup {id} : held[y] \in Int
      BY <1>2, <1>4, <2>4, FS_Subset
    <3> QED BY <2>4, <3>1, SumAdd
  <2>8. IsFiniteSet(own) /\ IsFiniteSet(others) /\ own \subseteq fills /\ others \subseteq fills
    <3>1. own \in SUBSET fills /\ others \in SUBSET fills /\ IsFiniteSet(fills)
      BY <2>6 DEF FillsInv
    <3> QED BY <3>1, FS_Subset
  <2>9. Of(s) = own \cup others /\ own \cap others = {}
    BY <2>4, <2>6
  <2>10. SumFunctionOnSet(gained, Of(s)) = SumFunctionOnSet(gained, own) + SumFunctionOnSet(gained, others)
    <3>1. \A y \in own \cup others : gained[y] \in Int
      BY <1>3, <2>8
    <3> HIDE DEF Of
    <3> QED BY <2>8, <2>9, <3>1, SumUnion
  <2>11. SumFunctionOnSet(gained, own) = held[id]
    BY <1>1, <2>4, <2>6, GainedByOrder
  <2>12. s \notin Bad
    BY <2>5, <2>6, <2>7, <2>10, <2>11
  <2> QED BY <2>1, <2>12
<1>6. DOMAIN orders \notin Bad
  BY <1>5
<1>7. Of(DOMAIN orders) = fills
  BY DEF ExecInv, ExecTypeOK
<1>8. SumFunctionOnSet(gained, Of(DOMAIN orders)) = SumFunctionOnSet(held, DOMAIN orders)
  BY <1>6
<1> HIDE DEF Of
<1> QED BY <1>1, <1>7, <1>8

LEMMA LedgerFollowsOrders == EngineInv /\ LedgerInv => PortfolioFollowsOrders
<1> SUFFICES ASSUME EngineInv, Ledger
             PROVE  LET held == [id \in DOMAIN orders |->
                                   IF orders[id].side = "buy" THEN orders[id].filled ELSE -orders[id].filled]
                        paid == [f \in fills |-> (IF f.side = "buy" THEN Notional(f) ELSE -Notional(f)) + f.fee]
                    IN  /\ Position(portfolio.lots) = SumFunctionOnSet(held, DOMAIN orders)
                        /\ InitialCash - portfolio.cash = SumFunctionOnSet(paid, fills)
  BY DEF LedgerInv, PortfolioFollowsOrders
<1>1. PICK held : held = [id \in DOMAIN orders |->
                            IF orders[id].side = "buy" THEN orders[id].filled ELSE -orders[id].filled]
  OBVIOUS
<1>2. [f \in fills |-> (IF f.side = "buy" THEN Notional(f) ELSE -Notional(f)) + f.fee]
        = [f \in fills |-> Outlay(f)]
  BY DEF Outlay
<1>3. FirstFills(fills, nextFill - 1) = fills
  <2>1. \A f \in fills : f.seq \in 1..(nextFill - 1)
    BY DEF Ledger, NumberedTo
  <2> QED BY <2>1 DEF FirstFills
<1>4. /\ Position(portfolio.lots) = SumFunctionOnSet([f \in fills |-> Gained(f)], fills)
      /\ InitialCash - portfolio.cash = SumFunctionOnSet([f \in fills |-> Outlay(f)], fills)
  BY <1>3 DEF Ledger, Accounts
<1>5. SumFunctionOnSet([f \in fills |-> Gained(f)], fills) = SumFunctionOnSet(held, DOMAIN orders)
  BY <1>1, GainedByOrders DEF EngineInv
<1> QED BY <1>1, <1>2, <1>4, <1>5

(* The two ways fills take to the portfolio, after a trade and after an    *)
(* arrival, never lose, repeat or reorder one: unless a handler has thrown *)
(* the position is what the orders are filled with, and the cash spent is  *)
(* what the fills cost, fees included.                                     *)
THEOREM PortfolioFollows == EngineSpec => []PortfolioFollowsOrders
<1>1. EngineInit => LedgerInv
  BY LedgerInit DEF LedgerInv
<1>2. EngineSpec => []LedgerInv
  BY <1>1, LedgerStep, EngineInvariant, PTL DEF EngineSpec
<1> QED BY <1>2, LedgerFollowsOrders, EngineInvariant, PTL

-----------------------------------------------------------------------------
\* What an order in a queue has earned.

\* While it rests, when t was traded at its limit and it joined behind j: the
\* volume that did not fill it has been taken off the queue.
Queued(earned, ahead, t, j) ==
  /\ ahead <= j /\ earned + (j - ahead) <= t
  /\ earned > 0 => ahead = 0

LEMMA QueuedEarns ==
  ASSUME NEW e \in Nat, NEW a \in Nat, NEW t \in Nat, NEW j \in Nat, Queued(e, a, t, j)
  PROVE  e <= Left(t, j)
BY DEF Queued, Left

\* A trade of q at the limit, of which v reaches the order's place in the queue.
LEMMA QueueMoves ==
  ASSUME NEW e \in Nat, NEW a \in Nat, NEW t \in Nat, NEW j \in Nat, Queued(e, a, t, j),
         NEW q \in Nat, NEW v \in 0..q, NEW r \in Nat
  PROVE  Queued(e + Least(r, Left(v, a)), Left(a, v), t + q, j)
<1>1. CASE v <= a
  <2>1. Left(v, a) = 0 /\ Left(a, v) = a - v
    BY <1>1 DEF Left
  <2>2. Least(r, Left(v, a)) = 0
    BY <2>1 DEF Least
  <2> QED BY <1>1, <2>1, <2>2 DEF Queued
<1>2. CASE v > a
  <2>1. Left(v, a) = v - a /\ Left(a, v) = 0
    BY <1>2 DEF Left
  <2>2. PICK g : g = Least(r, v - a)
    OBVIOUS
  <2>3. g \in 0..(v - a)
    BY <1>2, <2>2, LeastBounds
  <2>4. e + (j - a) <= t /\ a <= j
    BY DEF Queued
  <2>5. e + g + j <= t + q
    BY <1>2, <2>3, <2>4
  <2> QED BY <2>1, <2>2, <2>3, <2>5 DEF Queued
<1> QED BY <1>1, <1>2

\* On its own, an order is reached by all that is traded.
LEMMA AloneEarns ==
  ASSUME NEW w \in Nat, NEW t \in Nat, NEW j \in Nat, NEW q \in Nat,
         NEW e, e = Least(w, Left(t, j)), NEW a, a = Left(j, t)
  PROVE  /\ e + Least(w - e, Left(q, a)) = Least(w, Left(t + q, j))
         /\ Left(a, q) = Left(j, t + q)
<1>1. CASE t < j
  <2>1. Left(t, j) = 0 /\ a = j - t
    BY <1>1 DEF Left
  <2>2. e = 0
    BY <2>1 DEF Least
  <2>3. Left(q, a) = Left(t + q, j) /\ Left(a, q) = Left(j, t + q)
    BY <1>1, <2>1 DEF Left
  <2>4. Left(t + q, j) \in Nat
    BY LeftBounds
  <2> QED BY <2>2, <2>3, <2>4 DEF Least
<1>2. CASE t >= j
  <2>1. Left(t, j) = t - j /\ a = 0 /\ Left(t + q, j) = t + q - j
    BY <1>2 DEF Left
  <2>2. Left(q, a) = q /\ Left(a, q) = 0 /\ Left(j, t + q) = 0
    BY <1>2, <2>1 DEF Left
  <2> QED BY <1>2, <2>1, <2>2 DEF Least
<1> QED BY <1>1, <1>2

\* Its terms and what it met at its arrival are all that an order's share of
\* the trades depends on.
LEMMA BookAsOfFixed ==
  ASSUME feed' = feed
  PROVE  \A t : BookAsOf(t)' = BookAsOf(t)
BY DEF BookAsOf, FoldLeft, MapThenFoldSet

LEMMA SweptKept ==
  ASSUME NEW id, Lifecycle!SameTerms(orders[id], orders'[id]), feed' = feed, fills \subseteq fills',
         \A f \in fills' \ fills : f.order # id \/ f.ts # orders[id].arrival
  PROVE  /\ SweptBy(id)' = SweptBy(id) /\ SweptQty(id)' = SweptQty(id)
         /\ Joined(id)' = Joined(id)
<1>1. /\ orders'[id].arrival = orders[id].arrival /\ orders'[id].side = orders[id].side
      /\ orders'[id].limit = orders[id].limit
  BY DEF Lifecycle!SameTerms
<1>2. SweptBy(id)' = SweptBy(id)
  BY <1>1 DEF SweptBy
<1>3. SweptQty(id)' = SweptQty(id)
  BY <1>2 DEF SweptQty
<1>4. Joined(id)' = Joined(id)
  BY <1>1, <1>2, BookAsOfFixed DEF Joined
<1> QED BY <1>2, <1>3, <1>4

LEMMA TradesKept ==
  ASSUME NEW id, Lifecycle!SameTerms(orders[id], orders'[id]), feed' = feed, Since(id)' = Since(id)
  PROVE  TradedAt(id)' = TradedAt(id) /\ Jumped(id)' = Jumped(id)
<1>1. /\ orders'[id].side = orders[id].side /\ orders'[id].limit = orders[id].limit
  BY DEF Lifecycle!SameTerms
<1>2. \A trade : /\ At(orders'[id], trade) <=> At(orders[id], trade)
                 /\ Through(orders'[id], trade) <=> Through(orders[id], trade)
  BY <1>1 DEF At, Through, Hits
<1>3. {k \in Since(id)' : At(orders'[id], feed'[k].event)} = {k \in Since(id) : At(orders[id], feed[k].event)}
  BY <1>2
<1>4. TradedAt(id)' = TradedAt(id)
  BY <1>3 DEF TradedAt
<1> QED BY <1>2, <1>4 DEF Jumped

LEMMA TradesCounted ==
  ASSUME LoopTyped, NEW id
  PROVE  /\ IsFiniteSet(Since(id)) /\ Since(id) \in SUBSET (1..(next - 1)) /\ next \notin Since(id)
         /\ \A k \in Since(id) : feed[k].event.type = "trade" /\ feed[k].event.qty \in Nat
         /\ TradedAt(id) \in Nat
<1>1. next \in 1..(Len(feed) + 1) /\ Len(feed) \in Nat
  BY UpdatesAreUpdates DEF LoopTyped
<1>2. Since(id) \in SUBSET (1..(next - 1)) /\ next \notin Since(id)
  BY <1>1 DEF Since
<1>3. IsFiniteSet(1..(next - 1))
  BY <1>1, FS_Interval
<1>4. IsFiniteSet(Since(id))
  BY <1>2, <1>3, FS_Subset
<1>5. \A k \in Since(id) : feed[k].event.type = "trade" /\ feed[k].event.qty \in Nat
  <2>1. \A k \in 1..Len(feed) : feed[k].event \in Payloads
    BY FeedTyped
  <2>2. \A k \in Since(id) : k \in 1..Len(feed)
    BY <1>1, <1>2
  <2> QED BY <2>1, <2>2, PayloadsAssumption DEF Since
<1>6. TradedAt(id) \in Nat
  <2>1. PICK at : at = {k \in Since(id) : At(orders[id], feed[k].event)}
    OBVIOUS
  <2>2. IsFiniteSet(at) /\ \A k \in at : [i \in at |-> feed[i].event.qty][k] \in Nat
    BY <1>4, <1>5, <2>1, FS_Subset
  <2>3. SumFunctionOnSet([k \in at |-> feed[k].event.qty], at) \in Nat
    BY <2>2, SumNatural
  <2> QED BY <2>1, <2>3 DEF TradedAt
<1> QED BY <1>2, <1>4, <1>5, <1>6

\* The event read is one of those since an order arrived if it is a later trade.
LEMMA SinceNext ==
  ASSUME LoopTyped, NEW id, Lifecycle!SameTerms(orders[id], orders'[id]),
         feed' = feed, next \in 1..Len(feed), next' = next + 1
  PROVE  Since(id)' = IF feed[next].event.type = "trade" /\ feed[next].ts > orders[id].arrival
                      THEN Since(id) \cup {next} ELSE Since(id)
<1>1. next \in Nat /\ \A k : k \in 1..(next' - 1) <=> k \in 1..(next - 1) \/ k = next
  BY DEF LoopTyped
<1>2. orders'[id].arrival = orders[id].arrival
  BY DEF Lifecycle!SameTerms
<1> QED BY <1>1, <1>2 DEF Since

LEMMA OneTradeMore ==
  ASSUME LoopTyped, NEW id, Lifecycle!SameTerms(orders[id], orders'[id]),
         feed' = feed, next \in 1..Len(feed), next' = next + 1,
         NEW trade, trade = feed[next].event, trade.type = "trade", feed[next].ts > orders[id].arrival
  PROVE  /\ Jumped(id)' <=> Jumped(id) \/ Through(orders[id], trade)
         /\ TradedAt(id)' = IF At(orders[id], trade) THEN TradedAt(id) + trade.qty ELSE TradedAt(id)
<1>1. Since(id)' = Since(id) \cup {next}
  BY SinceNext
<1>2. \A event : /\ At(orders'[id], event) <=> At(orders[id], event)
                 /\ Through(orders'[id], event) <=> Through(orders[id], event)
  BY DEF At, Through, Hits, Lifecycle!SameTerms
<1>3. Jumped(id)' <=> Jumped(id) \/ Through(orders[id], trade)
  BY <1>1, <1>2 DEF Jumped
<1>4. PICK at : at = {k \in Since(id) : At(orders[id], feed[k].event)}
  OBVIOUS
<1>5. PICK more : more = {k \in Since(id)' : At(orders'[id], feed'[k].event)}
  OBVIOUS
<1>6. PICK w : w = [k \in at |-> feed[k].event.qty]
  OBVIOUS
<1>7. PICK v : v = [k \in more |-> feed[k].event.qty]
  OBVIOUS
<1>8. TradedAt(id) = SumFunctionOnSet(w, at) /\ TradedAt(id)' = SumFunctionOnSet(v, more)
  BY <1>4, <1>5, <1>6, <1>7 DEF TradedAt
<1>9. /\ IsFiniteSet(at) /\ next \notin at
      /\ \A k \in at : w[k] \in Nat /\ w[k] = feed[k].event.qty
  BY <1>4, <1>6, TradesCounted, FS_Subset
<1>10. CASE At(orders[id], trade)
  <2>1. more = at \cup {next}
    BY <1>1, <1>2, <1>4, <1>5, <1>10
  <2>2. trade.qty \in Nat
    <3>1. trade \in Payloads
      BY FeedTyped
    <3> QED BY <3>1, PayloadsAssumption
  <2>3. v[next] = trade.qty /\ \A k \in at : v[k] = w[k]
    BY <1>7, <1>9, <2>1
  <2>4. \A k \in at \cup {next} : v[k] \in Int
    BY <1>9, <2>2, <2>3
  <2>5. SumFunctionOnSet(v, at \cup {next}) = v[next] + SumFunctionOnSet(v, at)
    BY <1>9, <2>4, SumAdd
  <2>6. \A k \in at : w[k] \in Int /\ w[k] = v[k]
    BY <1>9, <2>3
  <2>7. SumFunctionOnSet(w, at) = SumFunctionOnSet(v, at)
    BY <1>9, <2>6, SumSame
  <2>8. TradedAt(id) \in Nat
    BY TradesCounted
  <2> QED BY <1>3, <1>8, <1>10, <2>1, <2>2, <2>3, <2>5, <2>7, <2>8
<1>11. CASE ~At(orders[id], trade)
  <2>1. more = at
    BY <1>1, <1>2, <1>4, <1>5, <1>11, SMTT(60)
  <2> QED BY <1>3, <1>6, <1>7, <1>8, <1>11, <2>1, SMTT(60)
<1> QED BY <1>10, <1>11

\* What a trade does to an order that rests and is not jumped: the volume that
\* reaches its place fills it beyond what is ahead of it, also when that is nothing.
LEMMA TradeServes ==
  ASSUME ExecInv, NEW trade, TradeFits(trade), NEW t, TradeEffects(trade, t), ~FeeThrows(trade),
         NEW id \in DOMAIN resting, id \in DOMAIN orders, Active(orders[id]),
         At(orders[id], trade), ~Through(orders[id], trade)
  PROVE  \E v \in 0..trade.qty :
           LET o == orders[id] ahead == resting[id].ahead
           IN  /\ DOMAIN orders = {id} => v = trade.qty
               /\ OrdersAfterTrade(trade)[id].filled = o.filled + Least(Remaining(o), Left(v, ahead))
               /\ id \in DOMAIN resting' => resting'[id].ahead = Left(ahead, v)
<1>1. PICK o : o = orders[id]
  OBVIOUS
<1>2. PICK a : a = resting[id].ahead
  OBVIOUS
<1>3. PICK v : v = VolumeBefore(id, trade)
  OBVIOUS
<1>4. trade.qty \in Nat /\ v \in 0..trade.qty
  BY <1>3, LeftBounds DEF VolumeBefore, TradeFits
<1>5. a \in Nat /\ resting[id] \in Resting
  BY <1>2 DEF ExecInv, ExecTypeOK, Resting
<1>6. id \in Reached(trade) /\ Queue(id, trade) = a
  BY <1>2 DEF Reached, Queue
<1>7. PICK g : g = FilledBy(id, trade) /\ g = Least(Remaining(o), Left(v, a))
  BY <1>1, <1>3, <1>6 DEF FilledBy
<1>8. Remaining(o) \in Nat /\ Left(v, a) \in Nat /\ g \in Nat
  <2>1. Remaining(o) \in Nat
    BY <1>1, ActiveOrders
  <2>2. Left(v, a) \in Nat
    BY <1>4, LeftBounds
  <2> QED BY <1>7, <2>1, <2>2, LeastBounds
<1>9. v = 0 => g = 0
  BY <1>5, <1>7, <1>8 DEF Left, Least
<1>10. \A j : j \in Filled(trade) <=> j \in Owed(trade)
  BY DEF FeeThrows, Filled
<1>11. \A j : j \in Consumed(trade) <=> j \in Met(trade)
  BY DEF FeeThrows, Consumed
<1>12. o.filled \in Nat
  BY <1>1, OrderTyped DEF ExecInv
<1>13. OrdersAfterTrade(trade)[id].filled = o.filled + g
  <2>1. CASE g > 0
    <3>0. v > 0
      BY <1>4, <1>9, <2>1
    <3>3. id \in Met(trade)
      BY <1>3, <1>6, <3>0 DEF Met
    <3>1. id \in Owed(trade)
      BY <1>7, <2>1, <3>3 DEF Owed
    <3>2. OrdersAfterTrade(trade)[id] = AfterTrade(id, trade)
      BY <1>10, <3>1, TradeOrders
    <3>4. o \in Orders
      BY <1>1, OrderTyped DEF ExecInv
    <3> QED BY <1>1, <1>7, <3>2, <3>4 DEF AfterTrade, Orders
  <2>2. CASE ~(g > 0)
    <3>0. g = 0
      BY <1>8, <2>2
    <3>3. id \notin Owed(trade)
      BY <1>7, <2>2 DEF Owed
    <3>1. id \notin Filled(trade) /\ g = 0
      BY <1>10, <3>0, <3>3
    <3>2. OrdersAfterTrade(trade)[id] = o
      BY <1>1, <3>1, TradeOrders
    <3> QED BY <1>12, <3>1, <3>2
  <2> QED BY <2>1, <2>2
<1>14. ASSUME id \in DOMAIN resting' PROVE resting'[id].ahead = Left(a, v)
  <2>1. /\ id \in Consumed(trade) => resting'[id].ahead = Left(Queue(id, trade), VolumeBefore(id, trade))
        /\ id \notin Consumed(trade) => resting'[id] = resting[id]
    BY <1>14, TradeQueues
  <2>2. CASE v > 0
    BY <1>3, <1>6, <1>11, <2>1, <2>2 DEF Met
  <2>3. CASE ~(v > 0)
    <3>1. v = 0 /\ id \notin Met(trade)
      BY <1>3, <1>4, <2>3 DEF Met
    <3>2. Left(a, v) = a
      BY <1>5, <3>1 DEF Left
    <3> QED BY <1>2, <1>11, <2>1, <3>1, <3>2
  <2> QED BY <2>2, <2>3
<1>15. ASSUME DOMAIN orders = {id} PROVE v = trade.qty
  <2>1. \A j \in Reached(trade) : j = id
    BY <1>15, FilledByTrade
  <2>2. Ahead(id, trade) = {}
    <3>1. ~(resting[id].rank < resting[id].rank)
      BY <1>5 DEF Resting
    <3> QED BY <2>1, <3>1 DEF Ahead
  <2>3. SumFunctionOnSet(Wanted(trade), Ahead(id, trade)) = 0
    BY <2>2, SumEmpty
  <2> QED BY <1>3, <1>4, <2>3 DEF VolumeBefore, Left
<1> QED BY <1>1, <1>2, <1>4, <1>7, <1>13, <1>14, <1>15, SMTT(60)

\* An order in the queue, or out of it, has earned its share of the t traded at
\* its limit, if it joined behind j and s of it was filled at its arrival.
InQueue(o, rests, ahead, alone, s, t, j) ==
  LET e == o.filled - s
  IN  /\ e <= Left(t, j)
      /\ rests => Queued(e, ahead, t, j)
      /\ alone /\ o.status # "Canceled" =>
           e = Least(o.qty - s, Left(t, j)) /\ (rests => ahead = Left(j, t))

Served(id) ==
  /\ SweptQty(id) \in 0..orders[id].filled /\ Joined(id) \in Nat
  /\ id \in DOMAIN resting \/ orders[id].status \in {"Filled", "Canceled"}
  /\ \/ Jumped(id)
     \/ InQueue(orders[id], id \in DOMAIN resting, resting[id].ahead, DOMAIN orders = {id},
                SweptQty(id), TradedAt(id), Joined(id))

LimitArrived(o) == o.type = "limit" /\ o.status # "Pending"

Earned == \A id \in DOMAIN orders : LimitArrived(orders[id]) => Served(id)

EarnedInv == status # "handler_threw" => Earned

\* Of the q that a trade sold at its limit, v reaches an order at rest.
Moves(o, a, alone, s, t, j, q, v, p, r, after, alone2) ==
  /\ o.filled \in Nat /\ o.qty \in Nat /\ o.filled <= o.qty /\ o.status # "Canceled"
  /\ a \in Nat /\ s \in 0..o.filled /\ t \in Nat /\ j \in Nat
  /\ q \in Nat /\ v \in 0..q /\ (alone => v = q)
  /\ p.filled = o.filled + Least(o.qty - o.filled, Left(v, a)) /\ p.qty = o.qty
  /\ (r => after = Left(a, v)) /\ (alone2 => alone)
  /\ InQueue(o, TRUE, a, alone, s, t, j)

LEMMA MovesInQueue ==
  ASSUME NEW o, NEW a, NEW alone \in BOOLEAN, NEW s, NEW t, NEW j, NEW q, NEW v,
         NEW p, NEW r2 \in BOOLEAN, NEW a2, NEW alone2 \in BOOLEAN,
         Moves(o, a, alone, s, t, j, q, v, p, r2, a2, alone2)
  PROVE  InQueue(p, r2, a2, alone2, s, t + q, j)
<1>0. /\ o.filled \in Nat /\ o.qty \in Nat /\ o.filled <= o.qty /\ o.status # "Canceled"
      /\ a \in Nat /\ s \in 0..o.filled /\ t \in Nat /\ j \in Nat
      /\ q \in Nat /\ v \in 0..q /\ (alone => v = q)
      /\ p.filled = o.filled + Least(o.qty - o.filled, Left(v, a)) /\ p.qty = o.qty
      /\ (r2 => a2 = Left(a, v)) /\ (alone2 => alone)
      /\ InQueue(o, TRUE, a, alone, s, t, j)
  BY DEF Moves
<1>1. PICK e : e = o.filled - s
  OBVIOUS
<1>2. PICK w : w = o.qty - s
  OBVIOUS
<1>3. PICK r : r = o.qty - o.filled
  OBVIOUS
<1>4. e \in Nat /\ w \in Nat /\ r \in Nat /\ r = w - e
  BY <1>0, <1>1, <1>2, <1>3
<1>5. PICK g : g = Least(r, Left(v, a))
  OBVIOUS
<1>6. g \in Nat
  BY <1>0, <1>4, <1>5, LeastBounds, LeftBounds, SMTT(60)
<1>7. p.filled - s = e + g /\ p.qty - s = w
  BY <1>0, <1>1, <1>2, <1>3, <1>5, <1>6, SMTT(60)
<1>8. Queued(e, a, t, j)
  BY <1>0, <1>1 DEF InQueue
<1>9. Queued(e + Least(r, Left(v, a)), Left(a, v), t + q, j)
  BY <1>0, <1>4, <1>8, QueueMoves
<1>10. Queued(e + g, Left(a, v), t + q, j)
  BY <1>5, <1>9
<1>11. Left(a, v) \in Nat /\ e + g \in Nat /\ t + q \in Nat
  BY <1>0, <1>4, <1>6, LeftBounds
<1>12. e + g <= Left(t + q, j)
  BY <1>0, <1>10, <1>11, QueuedEarns, SMTT(60)
<1>13. ASSUME alone
       PROVE  e + g = Least(w, Left(t + q, j)) /\ Left(a, v) = Left(j, t + q)
  <2>1. e = Least(w, Left(t, j)) /\ a = Left(j, t) /\ v = q
    BY <1>0, <1>1, <1>2, <1>13 DEF InQueue
  <2>2. e + Least(w - e, Left(q, a)) = Least(w, Left(t + q, j)) /\ Left(a, q) = Left(j, t + q)
    BY <1>0, <1>4, <2>1, AloneEarns, SMTT(60)
  <2> QED BY <1>4, <1>5, <2>1, <2>2
<1> QED BY <1>0, <1>7, <1>10, <1>12, <1>13, SMTT(60) DEF InQueue

\* No more reaches one that has left the queue.
LEMMA LeftInQueue ==
  ASSUME NEW o, o.filled \in Nat, o.status = "Filled" => o.filled = o.qty, o.status \in {"Filled", "Canceled"},
         NEW s \in 0..o.filled, NEW t \in Nat, NEW j \in Nat, o.filled - s <= Left(t, j),
         NEW q \in Nat, NEW a, NEW alone \in BOOLEAN
  PROVE  InQueue(o, FALSE, a, alone, s, t + q, j)
<1>1. PICK e : e = o.filled - s
  OBVIOUS
<1>2. e \in Nat
  BY <1>1
<1>3. e <= Left(t + q, j)
  BY <1>1, <1>2 DEF Left
<1>4. ASSUME o.status # "Canceled" PROVE e = Least(o.qty - s, Left(t + q, j))
  <2>1. o.qty - s = e
    BY <1>1, <1>4
  <2> QED BY <1>3, <2>1 DEF Least
<1> QED BY <1>1, <1>3, <1>4 DEF InQueue

LEMMA JoinsQueue ==
  ASSUME NEW o, NEW s, o.filled = s, s \in Nat, o.qty \in Nat, s <= o.qty, NEW j \in Nat,
         NEW r \in BOOLEAN, NEW a, r => a = j, NEW alone \in BOOLEAN
  PROVE  InQueue(o, r, a, alone, s, 0, j)
<1>1. Left(0, j) = 0 /\ Left(j, 0) = j
  BY DEF Left
<1>2. o.filled - s = 0 /\ o.qty - s \in Nat
  OBVIOUS
<1>3. Least(o.qty - s, 0) = 0
  BY <1>2 DEF Least
<1>4. r => Queued(0, a, 0, j)
  BY DEF Queued
<1> QED BY <1>1, <1>2, <1>3, <1>4 DEF InQueue

\* Nothing happens to an order, except that it may be canceled.
LEMMA ServedKept ==
  ASSUME NEW id \in DOMAIN orders, Served(id), DOMAIN orders \subseteq DOMAIN orders',
         Lifecycle!SameTerms(orders[id], orders'[id]), orders'[id].filled = orders[id].filled,
         orders'[id].status \in {orders[id].status, "Canceled"},
         id \in DOMAIN resting' => id \in DOMAIN resting /\ resting'[id] = resting[id],
         id \in DOMAIN resting \ DOMAIN resting' => orders'[id].status = "Canceled",
         feed' = feed, fills \subseteq fills',
         \A f \in fills' \ fills : f.order # id \/ f.ts # orders[id].arrival,
         Since(id)' = Since(id)
  PROVE  Served(id)'
<1>1. SweptQty(id)' = SweptQty(id) /\ Joined(id)' = Joined(id)
  BY SweptKept
<1>2. TradedAt(id)' = TradedAt(id) /\ Jumped(id)' = Jumped(id)
  BY TradesKept
<1>3. SweptQty(id)' \in 0..orders'[id].filled /\ Joined(id)' \in Nat
  BY <1>1 DEF Served
<1>4. id \in DOMAIN resting' \/ orders'[id].status \in {"Filled", "Canceled"}
  BY DEF Served
<1>5. orders'[id].qty = orders[id].qty
  BY DEF Lifecycle!SameTerms
<1>6. CASE Jumped(id)
  BY <1>2, <1>3, <1>4, <1>6 DEF Served
<1>7. CASE ~Jumped(id)
  <2>1. PICK s, t, j : s = SweptQty(id) /\ t = TradedAt(id) /\ j = Joined(id)
    OBVIOUS
  <2>2. InQueue(orders[id], id \in DOMAIN resting, resting[id].ahead, DOMAIN orders = {id}, s, t, j)
    BY <1>7, <2>1 DEF Served
  <2>3. InQueue(orders'[id], id \in DOMAIN resting', resting'[id].ahead, DOMAIN orders' = {id}, s, t, j)
    <3>2. id \in DOMAIN resting' => id \in DOMAIN resting /\ resting'[id].ahead = resting[id].ahead
      OBVIOUS
    <3>3. DOMAIN orders' = {id} => DOMAIN orders = {id}
      OBVIOUS
    <3> QED BY <1>5, <2>2, <3>2, <3>3 DEF InQueue
  <2> QED BY <1>1, <1>2, <1>3, <1>4, <2>1, <2>3, SMTT(60) DEF Served
<1> QED BY <1>6, <1>7

\* What stays true of an order whatever a trade does to it.
LEMMA TradedStillStands ==
  ASSUME ExecInv, ExecInv', Lifecycle!Next, \A j \in DOMAIN resting : Active(orders[j]),
         NEW trade, TradeFits(trade), NEW id \in DOMAIN orders,
         orders'[id] = OrdersAfterTrade(trade)[id], Served(id)
  PROVE  /\ id \in DOMAIN resting' \/ orders'[id].status \in {"Filled", "Canceled"}
         /\ orders'[id].filled \in Nat /\ orders'[id].filled >= orders[id].filled
         /\ id \notin DOMAIN resting => orders'[id] = orders[id]
<1>1. CASE id \in DOMAIN resting
  <2>1. Active(orders'[id]) \/ orders'[id].status = "Filled"
    BY <1>1, TradeOrders
  <2>2. id \in DOMAIN orders'
    BY DEF Lifecycle!Next
  <2>3. Active(orders'[id]) => id \in DOMAIN resting'
    BY <2>2 DEF ExecInv, RegistryHoldsActive
  <2>4. orders[id].filled \in Nat /\ orders[id].qty \in Nat /\ orders[id].filled < orders[id].qty
    <3>1. Remaining(orders[id]) \in 1..MaxQty
      BY <1>1, ActiveOrders
    <3> QED BY <3>1, OrderTyped DEF Remaining, ExecInv
  <2>5. orders'[id].filled \in Nat /\ orders'[id].filled >= orders[id].filled
    <3>1. orders[id].status # "Pending"
      BY <1>1 DEF Active
    <3>2. orders'[id] = orders[id] \/ Lifecycle!Progresses(orders[id], orders'[id])
      BY <3>1 DEF Lifecycle!Next, Lifecycle!Arrives
    <3> QED BY <2>4, <3>2 DEF Lifecycle!Progresses, Lifecycle!Becomes
  <2> QED BY <1>1, <2>1, <2>3, <2>5
<1>2. CASE id \notin DOMAIN resting
  <2>1. orders'[id] = orders[id]
    <3>1. id \notin Filled(trade)
      BY <1>2, TradeFillsOrder
    <3> QED BY <3>1, TradeOrders, SMTT(60)
  <2>2. orders[id].filled \in Nat
    BY OrderTyped DEF ExecInv
  <2> QED BY <1>2, <2>1, <2>2 DEF Served
<1> QED BY <1>1, <1>2

\* A trade that is not for the queue of an order's limit leaves it as it was.
LEMMA NotTraded ==
  ASSUME ExecInv, NEW trade, TradeFits(trade), NEW t, TradeEffects(trade, t),
         NEW id \in DOMAIN orders, ~At(orders[id], trade), ~Through(orders[id], trade)
  PROVE  /\ OrdersAfterTrade(trade)[id] = orders[id]
         /\ id \in DOMAIN resting' => id \in DOMAIN resting /\ resting'[id] = resting[id]
<1>1. id \notin Reached(trade)
  BY DEF Reached
<1>2. id \notin Filled(trade) /\ id \notin Consumed(trade)
  BY <1>1, FilledAreConsumed
<1>3. DOMAIN resting' \subseteq DOMAIN resting
  BY TradeQueues, TradeOrders
<1> QED BY <1>2, <1>3, TradeQueues, TradeOrders

LEMMA TradeInQueue ==
  ASSUME ExecInv, NEW trade, TradeFits(trade), NEW x, TradeEffects(trade, x), ~FeeThrows(trade),
         \A j \in DOMAIN resting : Active(orders[j]), DOMAIN orders \subseteq DOMAIN orders',
         NEW id \in DOMAIN orders, orders'[id] = OrdersAfterTrade(trade)[id], ~Through(orders[id], trade),
         Served(id), ~Jumped(id), NEW s, s = SweptQty(id), NEW t \in Nat, t = TradedAt(id), NEW j, j = Joined(id),
         NEW u, u = IF At(orders[id], trade) THEN t + trade.qty ELSE t
  PROVE  InQueue(orders'[id], id \in DOMAIN resting', resting'[id].ahead, DOMAIN orders' = {id}, s, u, j)
<1>1. PICK o, p : o = orders[id] /\ p = orders'[id]
  OBVIOUS
<1>2. /\ InQueue(o, id \in DOMAIN resting, resting[id].ahead, DOMAIN orders = {id}, s, t, j)
      /\ id \in DOMAIN resting \/ o.status \in {"Filled", "Canceled"}
  BY <1>1 DEF Served
<1>8. s \in 0..o.filled /\ j \in Nat
  BY <1>1 DEF Served
<1>3. DOMAIN orders' = {id} => DOMAIN orders = {id}
  OBVIOUS
<1>4. o.filled \in Nat /\ o.qty \in Nat /\ trade.qty \in Nat /\ (o.status = "Filled" => o.filled = o.qty)
  BY <1>1, OrderTyped DEF ExecInv, StatusMatchesQuantity, StatusFits, TradeFits
<1>5. CASE ~At(o, trade)
  <2>1. p = o /\ (id \in DOMAIN resting' => id \in DOMAIN resting /\ resting'[id] = resting[id])
    BY <1>1, <1>5, NotTraded
  <2>2. u = t
    BY <1>1, <1>5
  <2> QED BY <1>1, <1>2, <1>3, <2>1, <2>2, SMTT(60) DEF InQueue
<1>6. CASE At(o, trade) /\ id \notin DOMAIN resting
  <2>1. p = o
    <3>1. id \notin Filled(trade)
      BY <1>6, TradeFillsOrder
    <3> QED BY <1>1, <3>1, TradeOrders, SMTT(60)
  <2>2. id \notin DOMAIN resting'
    BY <1>6, TradeQueues, TradeOrders
  <2>3. u = t + trade.qty
    BY <1>1, <1>6
  <2>4. o.status \in {"Filled", "Canceled"}
    BY <1>2, <1>6
  <2>5. InQueue(o, FALSE, resting'[id].ahead, DOMAIN orders' = {id}, s, u, j)
    <3>1. PICK alone \in BOOLEAN : alone <=> DOMAIN orders' = {id}
      OBVIOUS
    <3>2. o.filled - s <= Left(t, j)
      BY <1>2 DEF InQueue
    <3>3. \A a : InQueue(o, FALSE, a, alone, s, t + trade.qty, j)
      BY <1>4, <1>8, <2>4, <3>2, LeftInQueue, ZenonT(60)
    <3> QED BY <2>3, <3>1, <3>3 DEF InQueue
  <2> QED BY <1>1, <2>1, <2>2, <2>5, SMTT(60) DEF InQueue
<1>7. CASE At(o, trade) /\ id \in DOMAIN resting
  <2>1. Active(o)
    BY <1>1, <1>7
  <2>2. PICK a : a = resting[id].ahead
    OBVIOUS
  <2>3. PICK v \in 0..trade.qty :
          /\ DOMAIN orders = {id} => v = trade.qty
          /\ p.filled = o.filled + Least(Remaining(o), Left(v, a))
          /\ id \in DOMAIN resting' => resting'[id].ahead = Left(a, v)
    BY <1>1, <1>7, <2>1, <2>2, TradeServes, SMTT(60)
  <2>4. a \in Nat
    BY <1>7, <2>2 DEF ExecInv, ExecTypeOK, Resting
  <2>5. o.filled <= o.qty
    <3>1. Remaining(o) \in Nat
      BY <1>1, <2>1, ActiveOrders
    <3> QED BY <1>4, <3>1 DEF Remaining
  <2>6. p.qty = o.qty
    BY <1>1, TradeBooks DEF Lifecycle!SameTerms
  <2>7. o.status # "Canceled"
    BY <2>1 DEF Active
  <2>8. u = t + trade.qty
    BY <1>1, <1>7
  <2>9. p.filled = o.filled + Least(o.qty - o.filled, Left(v, a))
    BY <2>3 DEF Remaining
  <2>10. InQueue(o, TRUE, a, DOMAIN orders = {id}, s, t, j)
    BY <1>2, <1>7, <2>2 DEF InQueue
  <2>11. InQueue(p, id \in DOMAIN resting', resting'[id].ahead, DOMAIN orders' = {id}, s, u, j)
    <3>1. PICK alone \in BOOLEAN : alone <=> DOMAIN orders = {id}
      OBVIOUS
    <3>2. PICK alone2 \in BOOLEAN : alone2 <=> DOMAIN orders' = {id}
      OBVIOUS
    <3>3. PICK r2 \in BOOLEAN : r2 <=> id \in DOMAIN resting'
      OBVIOUS
    <3>4. InQueue(o, TRUE, a, alone, s, t, j)
      BY <2>10, <3>1 DEF InQueue
    <3>5. PICK a2 : a2 = resting'[id].ahead
      OBVIOUS
    <3>6. (alone => v = trade.qty) /\ (r2 => a2 = Left(a, v)) /\ (alone2 => alone)
      BY <1>3, <2>3, <3>1, <3>2, <3>3, <3>5, SMTT(60)
    <3>8. Moves(o, a, alone, s, t, j, trade.qty, v, p, r2, a2, alone2)
      BY <1>4, <1>8, <2>3, <2>4, <2>5, <2>6, <2>7, <2>9, <3>4, <3>6 DEF Moves
    <3>9. InQueue(p, r2, a2, alone2, s, t + trade.qty, j)
      BY <3>8, MovesInQueue
    <3>7. InQueue(p, r2, a2, alone2, s, u, j)
      BY <2>8, <3>9
    <3> QED BY <3>2, <3>3, <3>5, <3>7 DEF InQueue
  <2> QED BY <1>1, <2>11
<1> QED BY <1>5, <1>6, <1>7

\* An order that a trade may touch has arrived before it.
LEMMA ArrivedBefore ==
  ASSUME EngineInv, Seen, NEW id \in DOMAIN orders, orders[id].status # "Pending", next \in 1..Len(feed)
  PROVE  feed[next].ts > orders[id].arrival
<1>1. next \in next..Len(feed) /\ feed[next].ts \in Nat
  BY FeedTyped DEF EngineInv
<1>2. orders[id].arrival \in Nat
  BY BoundsAssumption DEF EngineInv, ExecInv, ExecTypeOK, Orders
<1> QED BY <1>1, <1>2 DEF Seen

LEMMA TradeKeepsServed ==
  ASSUME EngineInv, EngineInv', Seen, Earned, Lifecycle!Next, OnTrade, status' # "handler_threw"
  PROVE  Earned'
<1>1. PICK trade, x : trade = feed[next].event /\ x = feed[next].ts
  OBVIOUS
<1>2. TradeFits(trade) /\ TradeEffects(trade, x) /\ trade.type = "trade" /\ next \in 1..Len(feed) /\ x \in Nat
      /\ feed' = feed /\ next' = next + 1
  BY <1>1, NextPayload DEF OnTrade, EngineInv, Loop!DispatchMarket
<1>3. ~FeeThrows(trade)
  <2>1. Loop!DispatchMarket([requests |-> NewArrivals, throws |-> threw' \/ Rejected])
    BY DEF OnTrade
  <2>2. ~(threw' \/ Rejected)
    BY <2>1 DEF Loop!DispatchMarket, Loop!Handle
  <2> QED BY <1>1, <2>2, TradeExtends
<1>4. \A id \in DOMAIN orders : orders'[id] = OrdersAfterTrade(trade)[id]
  BY <1>1, TradeExtends DEF Extends
<1>5. ExecInv /\ ExecInv' /\ LoopTyped /\ \A j \in DOMAIN resting : Active(orders[j])
  <2>1. status = "running"
    BY DEF OnTrade, Loop!DispatchMarket, Loop!MarketFirst
  <2> QED BY <2>1 DEF EngineInv, InStep
<1>6. DOMAIN orders \subseteq DOMAIN orders'
  BY DEF Lifecycle!Next
<1> SUFFICES ASSUME NEW id \in DOMAIN orders', LimitArrived(orders'[id])
             PROVE  Served(id)'
  BY DEF Earned
<1>7. id \in DOMAIN orders
  BY DEF Lifecycle!Next, LimitArrived
<1>8. Lifecycle!SameTerms(orders[id], orders'[id])
  BY <1>2, <1>4, <1>5, <1>7, TradeBooks
<1>9. orders[id].status # "Pending"
  <2> SUFFICES ASSUME orders[id].status = "Pending" PROVE FALSE
    BY SMTT(60)
  <2>1. id \notin Filled(trade)
    BY <1>2, <1>5, TradeFillsOrder DEF Active
  <2>2. orders'[id] = orders[id]
    BY <1>2, <1>4, <1>5, <1>7, <2>1, TradeOrders, SMTT(60)
  <2> QED BY <2>2 DEF LimitArrived
<1>10. Served(id)
  BY <1>7, <1>8, <1>9 DEF Earned, LimitArrived, Lifecycle!SameTerms
<1>11. x > orders[id].arrival
  BY <1>1, <1>2, <1>7, <1>9, ArrivedBefore
<1>12. SweptQty(id)' = SweptQty(id) /\ Joined(id)' = Joined(id)
  <2>1. fills \subseteq fills' /\ \A f \in fills' \ fills : f \in TradeFills(trade, x)
    BY <1>2 DEF TradeEffects
  <2>2. \A f \in fills' \ fills : f.ts = x
    BY <1>2, <1>5, <2>1, TradeFillTyped
  <2>3. orders[id].arrival \in Nat
    BY <1>5, <1>7, BoundsAssumption DEF ExecInv, ExecTypeOK, Orders
  <2>4. \A f \in fills' \ fills : f.ts # orders[id].arrival
    BY <1>2, <1>11, <2>2, <2>3
  <2> QED BY <1>2, <1>8, <2>1, <2>4, SweptKept
<1>13. /\ Jumped(id)' <=> Jumped(id) \/ Through(orders[id], trade)
       /\ TradedAt(id)' = IF At(orders[id], trade) THEN TradedAt(id) + trade.qty ELSE TradedAt(id)
  BY <1>1, <1>2, <1>5, <1>8, <1>11, OneTradeMore, SMTT(60)
<1>14. /\ id \in DOMAIN resting' \/ orders'[id].status \in {"Filled", "Canceled"}
       /\ orders'[id].filled \in Nat /\ orders'[id].filled >= orders[id].filled
  BY <1>2, <1>4, <1>5, <1>7, <1>10, TradedStillStands, SMTT(60)
<1>15. SweptQty(id)' \in 0..orders'[id].filled /\ Joined(id)' \in Nat
  <2>1. SweptQty(id) \in 0..orders[id].filled /\ Joined(id) \in Nat /\ orders[id].filled \in Nat
    BY <1>5, <1>7, <1>10, OrderTyped DEF Served, ExecInv
  <2> QED BY <1>12, <1>14, <2>1
<1>16. CASE Jumped(id) \/ Through(orders[id], trade)
  BY <1>13, <1>14, <1>15, <1>16 DEF Served
<1>17. CASE ~Jumped(id) /\ ~Through(orders[id], trade)
  <2>1. PICK s, j : s = SweptQty(id) /\ j = Joined(id)
    OBVIOUS
  <2>2. PICK t \in Nat : t = TradedAt(id)
    BY <1>5, TradesCounted
  <2>3. PICK u : u = IF At(orders[id], trade) THEN t + trade.qty ELSE t
    OBVIOUS
  <2>4. InQueue(orders'[id], id \in DOMAIN resting', resting'[id].ahead, DOMAIN orders' = {id}, s, u, j)
    BY <1>2, <1>3, <1>4, <1>5, <1>6, <1>7, <1>10, <1>17, <2>1, <2>2, <2>3, TradeInQueue
  <2>5. TradedAt(id)' = u
    BY <1>13, <2>2, <2>3
  <2>6. InQueue(orders'[id], id \in DOMAIN resting', resting'[id].ahead, DOMAIN orders' = {id},
                SweptQty(id)', TradedAt(id)', Joined(id)')
    BY <1>12, <2>1, <2>4, <2>5
  <2> QED BY <1>14, <1>15, <2>6 DEF Served
<1> QED BY <1>16, <1>17

LEMMA ArrivalQueues ==
  ASSUME NEW id, NEW t, NEW met, ProcessOrderArrival(id, t, met), ~threw',
         orders[id].type = "limit", SweepFilled(orders[id], met) < orders[id].qty
  PROVE  resting'[id].ahead = QueueOnArrival(orders[id], met)
<1>1. PICK filled : filled = SweepFilled(orders[id], met)
  OBVIOUS
<1>2. resting' = [j \in DOMAIN resting \cup {id} |->
                    IF j = id THEN [ahead |-> QueueOnArrival(orders[id], met), rank |-> executions]
                              ELSE resting[j]]
  BY DEF ProcessOrderArrival, Throws
<1> QED BY <1>2

\* What an order that arrives has behind it: the fills of its sweep, and no trade.
LEMMA ArrivalMeets ==
  ASSUME ExecInv, FillsInv, BookFits(book), NEW id, NEW t \in Nat, Completes(id, t, book), feed' = feed,
         book = BookAsOf(t)
  PROVE  /\ SweptQty(id)' = SweepFilled(orders[id], book)
         /\ Joined(id)' = QueueOnArrival(orders[id], book) /\ Joined(id)' \in Nat
<1>1. PICK o, p : o = orders[id] /\ p = orders'[id]
  OBVIOUS
<1>2. /\ id \in DOMAIN orders /\ o.status = "Pending" /\ o.arrival = t
      /\ p = Arrived(o, book) /\ fills' = fills \cup SweepFills(id, book)
  BY <1>1 DEF Completes, ArrivalAccepted
<1>3. Lifecycle!SameTerms(o, p)
  BY <1>1, <1>2, ArrivesAsAllowed
<1>4. o.filled = 0 /\ o.side \in Sides
  BY <1>1, <1>2, OrderTyped DEF ExecInv, StatusMatchesQuantity, StatusFits
<1>5. \A f \in fills : f.order # id
  BY <1>1, <1>2, <1>4, NoFillsYet
<1>6. \A f \in SweepFills(id, book) : f.order = id /\ f.ts = o.arrival /\ f.price \in Swept(o, book)
  BY <1>1, <1>2, SweepFillTyped
<1>7. SweptBy(id)' = SweepFills(id, book)
  <2>1. SweptBy(id)' = {f \in fills' : f.order = id /\ f.ts = o.arrival}
    BY <1>1, <1>3 DEF SweptBy, Lifecycle!SameTerms
  <2> QED BY <1>2, <1>5, <1>6, <2>1
<1>8. SweptQty(id)' = SweepFilled(o, book)
  <2>1. PICK made : made = SweepFills(id, book)
    OBVIOUS
  <2>2. {f \in made : f.order = id} = made
    BY <1>6, <2>1
  <2>3. SumFunctionOnSet([f \in made |-> f.qty], made) = Booked(made, id)
    BY <2>2 DEF Booked
  <2>4. SweptQty(id)' = SumFunctionOnSet([f \in made |-> f.qty], made)
    BY <1>7, <2>1 DEF SweptQty
  <2> QED BY <1>1, <1>2, <2>1, <2>3, <2>4, SweepBooked, SMTT(60)
<1>9. (\E f \in SweptBy(id)' : f.price = o.limit) <=> o.limit \in Swept(o, book)
  <2>1. ASSUME o.limit \in Swept(o, book) PROVE \E f \in SweepFills(id, book) : f.price = o.limit
    <3>1. PICK Turn : Turn = [q \in Swept(o, book) |->
                                Cardinality({r \in Swept(o, book) : Better(Opposite(o.side), r, q)})]
      OBVIOUS
    <3>2. SweepFills(id, book) = {Fill(id, q, TakenAt(o, book, q), o.arrival, nextFill + Turn[q]) : q \in Swept(o, book)}
      BY <1>1, <3>1 DEF SweepFills
    <3>3. Fill(id, o.limit, TakenAt(o, book, o.limit), o.arrival, nextFill + Turn[o.limit]) \in SweepFills(id, book)
      BY <2>1, <3>2
    <3> QED BY <3>3 DEF Fill
  <2> QED BY <1>6, <1>7, <2>1
<1>10. BookAsOf(o.arrival)' = book
  BY <1>2, BookAsOfFixed
<1>11. Joined(id)' = IF \E f \in SweptBy(id)' : f.price = o.limit THEN 0
                     ELSE InitialQueueAhead(QuantityAt(book, o.side, o.limit))
  BY <1>1, <1>3, <1>10 DEF Joined, Lifecycle!SameTerms
<1>12. Joined(id)' = QueueOnArrival(o, book)
  BY <1>9, <1>11 DEF QueueOnArrival
<1> QED BY <1>1, <1>4, <1>8, <1>12, QueueJoined, SMTT(60)

LEMMA ArrivalKeepsServed ==
  ASSUME EngineInv, EngineInv', Seen, Earned, EngineNext, Lifecycle!Next, OnOrderArrival, status' # "handler_threw"
  PROVE  Earned'
<1>1. PICK e \in queue : ArrivalStep(e, e.event.order)
  BY ArrivalOfOrder
<1>2. PICK id, t : id = e.event.order /\ t = e.ts
  OBVIOUS
<1>3. ~threw' /\ \E h : Loop!DispatchInternal(h)
  <2>1. Loop!DispatchInternal([requests |-> CancelsQueued(e, id), throws |-> ArrivalThrows(e, id)])
    BY <1>1, <1>2 DEF ArrivalStep
  <2>2. ~ArrivalThrows(e, id)
    BY <2>1 DEF Loop!DispatchInternal, Loop!Handle
  <2> QED BY <2>1, <2>2 DEF ArrivalThrows
<1>4. ProcessOrderArrival(id, t, book) /\ Loop!IsTop(e)
  BY <1>1, <1>2 DEF ArrivalStep
<1>5. Completes(id, t, book)
  BY <1>3, <1>4, ArrivalOutcome
<1>6. /\ feed' = feed /\ next' = next /\ now' = t /\ t \in Nat
      /\ \A k \in 1..(next - 1) : feed[k].ts <= t
  BY <1>2, <1>3, <1>4, InternalTime
<1>7. ExecInv /\ ExecInv' /\ FillsInv /\ LoopTyped /\ BookFits(book)
  BY DEF EngineInv
<1>8. /\ id \in DOMAIN orders /\ orders[id].status = "Pending" /\ orders[id].arrival = t
      /\ DOMAIN orders' = DOMAIN orders /\ orders'[id] = Arrived(orders[id], book)
      /\ \A j \in DOMAIN orders : j # id => orders'[j] = orders[j]
      /\ fills' = fills \cup SweepFills(id, book)
  BY <1>5 DEF Completes, ArrivalAccepted
<1> SUFFICES ASSUME NEW i \in DOMAIN orders', LimitArrived(orders'[i])
             PROVE  Served(i)'
  BY DEF Earned
<1>9. Lifecycle!SameTerms(orders[id], orders'[id]) /\ Lifecycle!Arrives(orders[id], orders'[id])
  BY <1>7, <1>8, ArrivesAsAllowed
<1>10. CASE i # id
  <2>1. orders'[i] = orders[i] /\ i \in DOMAIN orders /\ Served(i)
    BY <1>8, <1>10 DEF Earned
  <2>2. Lifecycle!SameTerms(orders[i], orders'[i])
    BY <2>1, SameTermsReflexive
  <2>3. Since(i)' = Since(i)
    BY <1>6, <2>1 DEF Since
  <2>4. \A f \in fills' \ fills : f.order # i
    BY <1>7, <1>8, <1>10, SweepFillTyped
  <2>5. /\ i \in DOMAIN resting' <=> i \in DOMAIN resting
        /\ i \in DOMAIN resting => resting'[i] = resting[i]
    BY <1>5, <1>10 DEF Completes
  <2> QED BY <1>6, <1>8, <2>1, <2>2, <2>3, <2>4, <2>5, ServedKept
<1>11. CASE i = id
  <2>1. PICK o, p : o = orders[id] /\ p = orders'[id]
    OBVIOUS
  <2>2. executions' > executions
    <3>1. executions \in Nat
      BY <1>7 DEF ExecInv, ExecTypeOK
    <3> QED BY <1>5, <3>1 DEF Completes
  <2>3. book = BookAsOf(t)
    BY <1>6, <2>2, StepSeesBookAsOf DEF SeesBookAsOf
  <2>4. /\ SweptQty(id)' = SweepFilled(o, book)
        /\ Joined(id)' = QueueOnArrival(o, book) /\ Joined(id)' \in Nat
    BY <1>5, <1>6, <1>7, <2>1, <2>3, ArrivalMeets, SMTT(60)
  <2>5. p.filled = SweepFilled(o, book) /\ p.qty = o.qty /\ p.type = "limit" /\ o.type = "limit"
    BY <1>7, <1>8, <1>9, <1>11, <2>1, ArrivesAsAllowed, SMTT(60) DEF LimitArrived, Lifecycle!SameTerms
  <2>6. o.qty \in Nat /\ SweepFilled(o, book) \in 0..o.qty
    <3>1. o.qty \in 1..MaxQty /\ MaxQty \in Nat
      BY <1>7, <1>8, <2>1, OrderTyped DEF ExecInv
    <3> QED BY <3>1, SweepBounds
  <2>7. Since(id)' = {}
    <3>1. orders'[id].arrival = t
      BY <1>8, <1>9 DEF Lifecycle!SameTerms
    <3>2. \A k \in 1..(next - 1) : feed[k].ts \in Nat
      <4>1. \A k \in 1..(next - 1) : k \in 1..Len(feed)
        BY <1>7, UpdatesAreUpdates DEF LoopTyped
      <4> QED BY <1>7, <4>1, FeedTyped
    <3> QED BY <1>6, <3>1, <3>2 DEF Since
  <2>8. TradedAt(id)' = 0
    <3>1. {k \in Since(id)' : At(orders'[id], feed'[k].event)} = {}
      BY <2>7
    <3> QED BY <3>1, SumEmpty DEF TradedAt
  <2>9. id \in DOMAIN resting' \/ p.status \in {"Filled", "Canceled"}
    <3>1. Active(p) \/ p.status = "Filled"
      BY <1>9, <2>1, <2>5 DEF Lifecycle!Arrives, Lifecycle!Becomes, Active
    <3> QED BY <1>7, <1>8, <2>1, <3>1 DEF ExecInv, RegistryHoldsActive
  <2>10. id \in DOMAIN resting' => resting'[id].ahead = QueueOnArrival(o, book)
    <3>1. id \in DOMAIN resting' => SweepFilled(o, book) < o.qty
      <4>1. id \notin DOMAIN resting
        BY <1>7, <1>8 DEF ExecInv, RegistryHoldsActive, Active
      <4> QED BY <1>5, <2>1, <4>1 DEF Completes
    <3> QED BY <1>3, <1>4, <2>1, <2>5, <3>1, ArrivalQueues, SMTT(60)
  <2>11. PICK s, j : s = SweptQty(id)' /\ j = Joined(id)'
    OBVIOUS
  <2>12. InQueue(p, id \in DOMAIN resting', resting'[id].ahead, DOMAIN orders' = {id}, s, 0, j)
    <3>1. PICK r \in BOOLEAN : r <=> id \in DOMAIN resting'
      OBVIOUS
    <3>2. PICK alone \in BOOLEAN : alone <=> DOMAIN orders' = {id}
      OBVIOUS
    <3>3. PICK a : a = resting'[id].ahead
      OBVIOUS
    <3>4. p.filled = s /\ s \in Nat /\ p.qty \in Nat /\ s <= p.qty /\ j \in Nat /\ (r => a = j)
      BY <2>4, <2>5, <2>6, <2>10, <2>11, <3>1, <3>3, SMTT(60)
    <3>5. InQueue(p, r, a, alone, s, 0, j)
      BY <3>4, JoinsQueue
    <3> QED BY <3>1, <3>2, <3>3, <3>5 DEF InQueue
  <2>13. SweptQty(id)' \in 0..p.filled /\ Joined(id)' \in Nat
    BY <2>4, <2>5, <2>6
  <2> QED BY <1>11, <2>1, <2>8, <2>9, <2>11, <2>12, <2>13 DEF Served
<1> QED BY <1>10, <1>11

LEMMA CancelKeepsServed ==
  ASSUME EngineInv, EngineInv', Seen, Earned, Lifecycle!Next, OnCancelArrival
  PROVE  Earned'
<1>1. PICK e \in queue : \E id : CancelStep(e, id) /\ \E h : Loop!DispatchInternal(h)
  BY DEF OnCancelArrival, CancelStep
<1>2. PICK id : ProcessCancelArrival(id) /\ Loop!IsTop(e) /\ \E h : Loop!DispatchInternal(h)
  BY <1>1 DEF CancelStep
<1>3. feed' = feed /\ next' = next
  BY <1>2, InternalTime
<1> SUFFICES ASSUME NEW i \in DOMAIN orders', LimitArrived(orders'[i])
             PROVE  Served(i)'
  BY DEF Earned
<1>4. /\ fills' = fills /\ DOMAIN orders' = DOMAIN orders
      /\ Lifecycle!SameTerms(orders[i], orders'[i]) /\ orders'[i].filled = orders[i].filled
  BY <1>2, CancelOutcome DEF EngineInv
<1>5. \/ orders' = orders /\ resting' = resting
      \/ /\ Active(orders[id]) /\ id \in DOMAIN orders
         /\ orders' = [orders EXCEPT ![id].status = "Canceled"]
         /\ resting' = Restrict(resting, DOMAIN resting \ {id})
  BY <1>2 DEF ProcessCancelArrival, Throws
<1>6. /\ orders'[i].status \in {orders[i].status, "Canceled"} /\ orders[i].status # "Pending"
      /\ i \in DOMAIN resting' => i \in DOMAIN resting /\ resting'[i] = resting[i]
      /\ i \in DOMAIN resting \ DOMAIN resting' => orders'[i].status = "Canceled"
  <2>1. CASE orders' = orders /\ resting' = resting
    BY <2>1 DEF LimitArrived
  <2>2. CASE /\ Active(orders[id]) /\ id \in DOMAIN orders
             /\ orders' = [orders EXCEPT ![id].status = "Canceled"]
             /\ resting' = Restrict(resting, DOMAIN resting \ {id})
    <3>1. /\ DOMAIN resting' = DOMAIN resting \ {id}
          /\ \A j \in DOMAIN resting' : resting'[j] = resting[j]
      BY <2>2 DEF Restrict
    <3>2. orders'[id].status = "Canceled" /\ (i # id => orders'[i] = orders[i])
      <4>1. orders[id] \in Orders
        BY <2>2, OrderTyped DEF EngineInv, ExecInv
      <4> QED BY <2>2, <4>1 DEF Orders
    <3> QED BY <2>2, <3>1, <3>2 DEF LimitArrived, Active
  <2> QED BY <1>5, <2>1, <2>2
<1>7. Served(i)
  BY <1>4, <1>6 DEF Earned, LimitArrived, Lifecycle!SameTerms
<1>8. Since(i)' = Since(i)
  BY <1>3, <1>4 DEF Since, Lifecycle!SameTerms
<1> QED BY <1>3, <1>4, <1>6, <1>7, <1>8, ServedKept, SMTT(60)

LEMMA BookKeepsServed ==
  ASSUME EngineInv, Earned, Lifecycle!Next, OnBook
  PROVE  Earned'
<1>1. PICK intents \in IntentLists : SubmitIntents(intents, OrderLatency, feed[next].ts)
  BY DEF OnBook
<1>2. /\ feed' = feed /\ next' = next + 1 /\ next \in 1..Len(feed) /\ feed[next].ts \in Nat
      /\ feed[next].event.type = "book"
  BY NextPayload DEF OnBook, Loop!DispatchMarket, EngineInv
<1>3. Extends(orders) /\ resting' = resting /\ fills' = fills
  BY <1>1, <1>2, SubmitCreates DEF EngineInv, ExecInv, SubmitIntents
<1> SUFFICES ASSUME NEW i \in DOMAIN orders', LimitArrived(orders'[i])
             PROVE  Served(i)'
  BY DEF Earned
<1>4. i \in DOMAIN orders /\ orders'[i] = orders[i] /\ DOMAIN orders \subseteq DOMAIN orders'
  BY <1>3 DEF Lifecycle!Next, LimitArrived, Extends
<1>5. Served(i) /\ Lifecycle!SameTerms(orders[i], orders'[i])
  BY <1>4, SameTermsReflexive DEF Earned
<1>6. Since(i)' = Since(i)
  <2>1. feed[next].event.type # "trade"
    BY <1>2
  <2> QED BY <1>2, <1>5, <2>1, SinceNext DEF EngineInv
<1> QED BY <1>2, <1>3, <1>4, <1>5, <1>6, ServedKept, SMTT(60)

LEMMA OthersKeepServed ==
  ASSUME Earned, UNCHANGED <<orders, resting, fills, feed, next>>
  PROVE  Earned'
<1> SUFFICES ASSUME NEW i \in DOMAIN orders', LimitArrived(orders'[i])
             PROVE  Served(i)'
  BY DEF Earned
<1>1. Served(i) /\ i \in DOMAIN orders /\ Lifecycle!SameTerms(orders[i], orders'[i])
  BY SameTermsReflexive DEF Earned
<1>2. Since(i)' = Since(i)
  BY DEF Since
<1> QED BY <1>1, <1>2, ServedKept

LEMMA EarnedInit == EngineInit => EarnedInv
<1> SUFFICES ASSUME EngineInit PROVE Earned
  BY DEF EarnedInv
<1>1. DOMAIN orders = {}
  BY DEF EngineInit, ExecInit
<1> QED BY <1>1 DEF Earned

LEMMA EarnedStep ==
  ASSUME EngineInv, Seen, EarnedInv, [EngineNext]_engineVars
  PROVE  EarnedInv'
<1> SUFFICES ASSUME status' # "handler_threw" PROVE Earned'
  BY DEF EarnedInv
<1>1. EngineInv'
  BY EngineStepInv
<1>2. status # "handler_threw"
  <2>1. CASE EngineNext
    BY <2>1 DEF EngineNext, Step, OnBook, OnTrade, OnOrderArrival, OnCancelArrival, Start, Finish, Report, Over,
                loopVars, Loop!DispatchMarket, Loop!DispatchInternal, Loop!MarketFirst, Loop!Run, Loop!Return,
                Loop!Ended, Loop!vars
  <2>2. CASE UNCHANGED engineVars
    BY <2>2 DEF engineVars, loopVars
  <2> QED BY <2>1, <2>2, SMTT(60)
<1>3. Earned
  BY <1>2 DEF EarnedInv
<1>4. CASE OnBook \/ OnTrade \/ OnOrderArrival \/ OnCancelArrival
  <2>1. EngineNext
    BY <1>4 DEF EngineNext, Step
  <2>2. Lifecycle!Next
    BY <2>1, StepServesInTurn
  <2> QED BY <1>1, <1>3, <1>4, <2>1, <2>2, BookKeepsServed, TradeKeepsServed, ArrivalKeepsServed, CancelKeepsServed
<1>5. CASE Start \/ Finish \/ Report \/ Over \/ UNCHANGED engineVars
  <2>1. UNCHANGED <<orders, resting, fills, feed, next>>
    BY <1>5 DEF Start, Finish, Report, Over, engineVars, execVars, loopVars, Loop!Run, Loop!Return,
                Loop!Ended, Loop!vars
  <2> QED BY <1>3, <2>1, OthersKeepServed
<1> QED BY <1>4, <1>5 DEF EngineNext, Step

LEMMA ServedEarns == EngineInv /\ EarnedInv => QueueEarned
<1> SUFFICES ASSUME EngineInv, Earned,
                    NEW id \in DOMAIN orders, orders[id].type = "limit", orders[id].status # "Pending", ~Jumped(id)
             PROVE  LET o    == orders[id]
                        past == Left(TradedAt(id), Joined(id))
                    IN  /\ o.filled - SweptQty(id) <= past
                        /\ DOMAIN orders = {id} /\ o.status # "Canceled" =>
                             o.filled - SweptQty(id) = Least(o.qty - SweptQty(id), past)
  BY DEF QueueEarned, EarnedInv
<1>1. Served(id)
  BY DEF Earned, LimitArrived
<1> QED BY <1>1 DEF Served, InQueue

(* An order at rest is filled by what was traded at its limit after it     *)
(* arrived, less the queue it joined, however its life is spread over      *)
(* process_order_arrival and process_trade and whoever rests beside it:    *)
(* never more, and on its own exactly that, unless a trade went through    *)
(* its limit.                                                              *)
THEOREM QueueEarnedCorrect == EngineSpec => []QueueEarned
<1>1. EngineSpec => []EarnedInv
  BY EarnedInit, EarnedStep, SeenInvariant, EngineInvariant, PTL DEF EngineSpec
<1> QED BY <1>1, ServedEarns, EngineInvariant, PTL
=============================================================================
