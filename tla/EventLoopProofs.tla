--------------------------- MODULE EventLoopProofs ---------------------------
(***************************************************************************)
(* Theorems about the event loop for every feed, every handler program and *)
(* every number of scheduled events.  The run loop is proved to implement  *)
(* EventOrder when the feed is in source order; the order of the trace and *)
(* the causality of handlers follow from the abstract theorems.            *)
(***************************************************************************)
EXTENDS EventLoop, FiniteSetTheorems, FunctionTheorems, TLAPS

\* Scheduled events are numbered apart and below the counter.
QueueNumbered ==
  /\ \A e \in queue : e.seq < nextSeq
  /\ \A e, f \in queue : e.seq = f.seq => e = f
  /\ \A i \in 1..Len(trace) : trace[i].class = "internal" => trace[i].seq < nextSeq

LoopInv == TypeOK /\ QueueNotInPast /\ QueueNumbered

\* With a feed in source order the clock never passes the next market event.
FeedAhead == next <= Len(feed) => now <= feed[next].ts

-----------------------------------------------------------------------------
\* Entries of the trace have a time and a number.
LEMMA TraceTyped ==
  ASSUME TypeOK, NEW i \in 1..Len(trace)
  PROVE  trace[i] \in TraceEntries /\ trace[i].seq \in Nat /\ trace[i].ts \in Nat
<1>1. trace[i] \in TraceEntries
  BY DEF TypeOK
<1> QED BY <1>1 DEF TraceEntries

\* What one handler call at time t does to a queue q of events not before t.
LEMMA HandleEffect ==
  ASSUME TypeOK, NEW h \in Handlers, NEW t \in Nat, NEW q \in SUBSET Scheduled,
         \A e \in q : e.ts >= t /\ e.seq < nextSeq,
         \A e, f \in q : e.seq = f.seq => e = f,
         Handle(h, t, q)
  PROVE  /\ queue' \subseteq Scheduled
         /\ nextSeq' \in nextSeq..MaxScheduled
         /\ status' \in {"running", "handler_threw"}
         /\ q \subseteq queue'
         /\ \A e \in queue' : e.ts >= t /\ e.seq < nextSeq'
         /\ \A e \in queue' \ q : e.seq >= nextSeq
         /\ \A e, f \in queue' : e.seq = f.seq => e = f
<1> DEFINE reqs == h.requests
<1>1. PICK n \in 0..Len(reqs) :
        /\ Accepts(reqs, n, t)
        /\ nextSeq + n <= MaxScheduled
        /\ queue' = q \cup Numbered(reqs, n)
        /\ nextSeq' = nextSeq + n
        /\ status' = IF n = Len(reqs) /\ ~h.throws THEN "running" ELSE "handler_threw"
  BY DEF Handle
<1>2. reqs \in Seq(Requests) /\ n \in Nat /\ nextSeq \in Nat /\ MaxScheduled \in Nat
  BY HandlersAssumption, BoundAssumption DEF TypeOK
<1> HIDE DEF reqs
<1>3. \A i \in 1..n : reqs[i] \in Requests /\ reqs[i].ts >= t
  BY <1>1, <1>2 DEF Accepts
<1>4. \A e \in Numbered(reqs, n) : \E i \in 1..n :
        e = [ts |-> reqs[i].ts, seq |-> nextSeq + i - 1, event |-> reqs[i].event]
  BY DEF Numbered
<1>5. \A e \in Numbered(reqs, n) :
        e \in Scheduled /\ e.ts >= t /\ e.seq >= nextSeq /\ e.seq < nextSeq + n
  BY <1>2, <1>3, <1>4, SMTT(60) DEF Scheduled, Requests
<1>6. \A e, f \in Numbered(reqs, n) : e.seq = f.seq => e = f
  <2> SUFFICES ASSUME NEW e \in Numbered(reqs, n), NEW f \in Numbered(reqs, n), e.seq = f.seq
               PROVE  e = f
    OBVIOUS
  <2>1. PICK i \in 1..n :
          e = [ts |-> reqs[i].ts, seq |-> nextSeq + i - 1, event |-> reqs[i].event]
    BY <1>4
  <2>2. PICK j \in 1..n :
          f = [ts |-> reqs[j].ts, seq |-> nextSeq + j - 1, event |-> reqs[j].event]
    BY <1>4
  <2>3. i = j
    BY <1>2, <2>1, <2>2
  <2> QED BY <2>1, <2>2, <2>3
<1>7. \A e \in q : e.seq \in Nat
  BY DEF Scheduled
<1>8. \A e, f \in queue' : e.seq = f.seq => e = f
  BY <1>1, <1>2, <1>5, <1>6, <1>7
<1> QED BY <1>1, <1>2, <1>5, <1>7, <1>8

LEMMA LoopInit == Init => LoopInv
BY FeedsAssumption, BoundAssumption
   DEF Init, LoopInv, TypeOK, QueueNotInPast, QueueNumbered, Statuses

\* A call made before run() is a handler of one request at time now.
LEMMA LoopSchedule ==
  ASSUME LoopInv, NEW h \in Handlers, NEW k \in 1..Len(h.requests), ScheduleBeforeRun(h.requests[k])
  PROVE  /\ LoopInv'
         /\ \A e \in queue' \ queue : e \in Scheduled /\ e.ts >= now /\ e.seq = nextSeq
<1> DEFINE new == [ts |-> h.requests[k].ts, seq |-> nextSeq, event |-> h.requests[k].event]
<1>1. h.requests[k] \in Requests /\ nextSeq \in Nat /\ MaxScheduled \in Nat
  <2>1. h.requests \in Seq(Requests)
    BY HandlersAssumption
  <2> QED BY <2>1, BoundAssumption DEF LoopInv, TypeOK
<1>2. Numbered(<<h.requests[k]>>, 1) = {new}
  BY <1>1 DEF Numbered
<1>3. /\ queue' = queue \cup {new}
      /\ nextSeq' = nextSeq + 1 /\ nextSeq < MaxScheduled
      /\ new \in Scheduled /\ new.ts >= now /\ new.seq = nextSeq
      /\ UNCHANGED <<feed, next, now, trace, status>>
  BY <1>1, <1>2 DEF ScheduleBeforeRun, Scheduled, Requests
<1>4. TypeOK'
  BY <1>1, <1>3 DEF LoopInv, TypeOK
<1>5. QueueNotInPast'
  BY <1>3 DEF LoopInv, QueueNotInPast
<1>6. QueueNumbered'
  <2>1. \A e \in queue : e.seq \in Nat /\ e.seq < nextSeq
    BY DEF LoopInv, TypeOK, QueueNumbered, Scheduled
  <2>2. \A e, f \in queue' : e.seq = f.seq => e = f
    BY <1>1, <1>3, <2>1 DEF LoopInv, QueueNumbered
  <2>3. \A i \in 1..Len(trace) : trace[i].class = "internal" => trace[i].seq < nextSeq + 1
    <3>1. \A i \in 1..Len(trace) : trace[i].seq \in Nat
      BY TraceTyped DEF LoopInv
    <3> QED BY <1>1, <3>1 DEF LoopInv, QueueNumbered
  <2>4. \A e \in queue' : e.seq < nextSeq'
    BY <1>1, <1>3, <2>1
  <2>5. nextSeq' = nextSeq + 1 /\ trace' = trace
    BY <1>3
  <2> HIDE DEF new
  <2> QED BY <2>2, <2>3, <2>4, <2>5 DEF QueueNumbered
<1> HIDE DEF new
<1> QED BY <1>3, <1>4, <1>5, <1>6 DEF LoopInv

\* A dispatch at time t of an event taken from the feed or the queue, whose
\* handler finds the events q in the queue.
LEMMA LoopDispatch ==
  ASSUME LoopInv, NEW h \in Handlers, NEW t \in Nat, NEW q \in SUBSET queue,
         NEW entry \in TraceEntries,
         entry.class = "internal" => entry.seq < nextSeq,
         \A e \in q : e.ts >= t,
         now' = t, trace' = Append(trace, entry), feed' = feed,
         next' \in 1..(Len(feed) + 1),
         Handle(h, t, q)
  PROVE  LoopInv'
<1> USE DEF LoopInv
<1>1. nextSeq \in Nat /\ MaxScheduled \in Nat
  BY BoundAssumption DEF TypeOK
<1>2. /\ queue' \subseteq Scheduled
      /\ nextSeq' \in nextSeq..MaxScheduled
      /\ status' \in {"running", "handler_threw"}
      /\ \A e \in queue' : e.ts >= t /\ e.seq < nextSeq'
      /\ \A e, f \in queue' : e.seq = f.seq => e = f
  <2>1. q \in SUBSET Scheduled /\ TypeOK
    BY DEF TypeOK
  <2>2. \A e \in q : e.ts >= t /\ e.seq < nextSeq
    BY DEF QueueNumbered
  <2>3. \A e, f \in q : e.seq = f.seq => e = f
    BY DEF QueueNumbered
  <2> QED BY <2>1, <2>2, <2>3, HandleEffect
<1>3. TypeOK'
  BY <1>1, <1>2 DEF TypeOK, Statuses
<1>4. QueueNotInPast'
  BY <1>2 DEF QueueNotInPast
<1>5. \A i \in 1..Len(trace') : trace'[i].class = "internal" => trace'[i].seq < nextSeq'
  <2> SUFFICES ASSUME NEW i \in 1..Len(trace'), trace'[i].class = "internal"
               PROVE  trace'[i].seq < nextSeq'
    OBVIOUS
  <2>1. CASE i \in 1..Len(trace)
    <3>1. trace'[i] = trace[i] /\ trace[i].seq \in Nat
      BY <2>1, TraceTyped DEF TypeOK
    <3>2. trace[i].seq < nextSeq
      BY <2>1, <3>1 DEF QueueNumbered
    <3> QED BY <1>1, <1>2, <3>1, <3>2
  <2>2. CASE i = Len(trace) + 1
    <3>1. trace'[i] = entry /\ entry.seq \in Nat
      BY <2>2 DEF TypeOK, TraceEntries
    <3> QED BY <1>1, <1>2, <3>1
  <2> QED BY <2>1, <2>2 DEF TypeOK
<1> QED BY <1>2, <1>3, <1>4, <1>5 DEF QueueNumbered

LEMMA LoopMarket ==
  ASSUME LoopInv, NEW h \in Handlers, DispatchMarket(h)
  PROVE  LoopInv'
<1>1. next \in 1..Len(feed) /\ feed \in Seq(MarketEvents)
  BY FeedsAssumption DEF DispatchMarket, MarketFirst, LoopInv, TypeOK
<1>2. /\ feed[next].ts \in Nat
      /\ MarketEntry(feed[next]) \in TraceEntries
      /\ MarketEntry(feed[next]).class = "market"
  <2>1. feed[next] \in MarketEvents
    BY <1>1
  <2> QED BY <2>1 DEF MarketEvents, MarketEntry, TraceEntries
<1>3. \A e \in queue : e.ts >= feed[next].ts
  BY <1>2 DEF DispatchMarket, MarketFirst, LoopInv, TypeOK, Scheduled
<1>4. next' \in 1..(Len(feed) + 1)
  BY <1>1 DEF DispatchMarket
<1> QED BY <1>2, <1>3, <1>4, LoopDispatch DEF DispatchMarket

LEMMA LoopInternal ==
  ASSUME LoopInv, NEW h \in Handlers, DispatchInternal(h)
  PROVE  LoopInv'
<1>1. PICK e \in queue :
        /\ IsTop(e)
        /\ now' = e.ts
        /\ trace' = Append(trace, InternalEntry(e))
        /\ Handle(h, e.ts, queue \ {e})
  BY DEF DispatchInternal
<1>2. /\ e.ts \in Nat
      /\ InternalEntry(e) \in TraceEntries
      /\ InternalEntry(e).seq < nextSeq
  BY DEF LoopInv, TypeOK, QueueNumbered, Scheduled, InternalEntry, TraceEntries
<1>3. \A f \in queue \ {e} : f.ts >= e.ts
  BY <1>1 DEF IsTop, EarlierScheduled, LoopInv, TypeOK, Scheduled
<1>4. feed' = feed /\ next' \in 1..(Len(feed) + 1)
  BY DEF DispatchInternal, LoopInv, TypeOK
<1> QED BY <1>1, <1>2, <1>3, <1>4, LoopDispatch

LEMMA LoopStepInv == LoopInv /\ [Next]_vars => LoopInv'
<1> SUFFICES ASSUME LoopInv, [Next]_vars PROVE LoopInv'
  OBVIOUS
<1>1. ASSUME NEW h \in Handlers, NEW k \in 1..Len(h.requests), ScheduleBeforeRun(h.requests[k])
      PROVE  LoopInv'
  BY <1>1, LoopSchedule
<1>2. CASE Run
  BY <1>2 DEF Run, LoopInv, TypeOK, QueueNotInPast, QueueNumbered, Statuses
<1>3. ASSUME NEW h \in Handlers, DispatchMarket(h) PROVE LoopInv'
  BY <1>3, LoopMarket
<1>4. ASSUME NEW h \in Handlers, DispatchInternal(h) PROVE LoopInv'
  BY <1>4, LoopInternal
<1>5. CASE ClockBackward
  BY <1>5 DEF ClockBackward, LoopInv, TypeOK, QueueNotInPast, QueueNumbered, Statuses
<1>6. CASE Return
  BY <1>6 DEF Return, LoopInv, TypeOK, QueueNotInPast, QueueNumbered, Statuses
<1>7. CASE Ended \/ UNCHANGED vars
  BY <1>7 DEF Ended, vars, LoopInv, TypeOK, QueueNotInPast, QueueNumbered
<1> QED BY <1>1, <1>2, <1>3, <1>4, <1>5, <1>6, <1>7 DEF Next, LoopStep

\* Every state of the loop is well formed.
THEOREM LoopTypeCorrect == Spec => []TypeOK
<1>1. LoopInv => TypeOK
  BY DEF LoopInv
<1> QED BY <1>1, LoopInit, LoopStepInv, PTL DEF Spec

\* No event waits in the past, for any feed and any handlers: popping the queue
\* and advancing the clock cannot throw.
THEOREM NoEventOvertaken == Spec => []QueueNotInPast
<1>1. LoopInv => QueueNotInPast
  BY DEF LoopInv
<1> QED BY <1>1, LoopInit, LoopStepInv, PTL DEF Spec
-----------------------------------------------------------------------------
\* Every market event read so far is in the trace.
MarketsDispatched ==
  \A k \in 1..(next - 1) : \E j \in 1..Len(trace) : trace[j] = MarketEntry(feed[k])

FeedInv ==
  /\ SourceOrdered(feed) => FeedAhead /\ status # "clock_backward"
  /\ MarketsDispatched

LEMMA FeedTyped ==
  ASSUME TypeOK, NEW k \in 1..Len(feed)
  PROVE  /\ feed[k] \in MarketEvents /\ feed[k].ts \in Nat /\ feed[k].seq \in Nat
         /\ feed[k].event \in Events
<1>1. feed[k] \in MarketEvents
  BY FeedsAssumption DEF TypeOK
<1> QED BY <1>1 DEF MarketEvents

LEMMA HandlerStatus ==
  ASSUME NEW h, NEW t, NEW q, Handle(h, t, q)
  PROVE  status' \in {"running", "handler_threw"}
BY DEF Handle

LEMMA FeedMarket ==
  ASSUME LoopInv, FeedInv, NEW h \in Handlers, DispatchMarket(h)
  PROVE  FeedInv'
<1>1. /\ next \in 1..Len(feed) /\ Len(feed) \in Nat
      /\ next' = next + 1 /\ feed' = feed /\ now' = feed[next].ts
      /\ trace' = Append(trace, MarketEntry(feed[next]))
  BY FeedsAssumption DEF DispatchMarket, MarketFirst, LoopInv, TypeOK
<1>2. SourceOrdered(feed) => FeedAhead'
  <2> SUFFICES ASSUME SourceOrdered(feed), next + 1 <= Len(feed)
               PROVE  feed[next].ts <= feed[next + 1].ts
    BY <1>1 DEF FeedAhead
  <2>1. next + 1 \in 1..Len(feed) /\ next < next + 1
    BY <1>1
  <2> QED BY <1>1, <2>1, FeedTyped DEF SourceOrdered, KeyBefore, LoopInv
<1>3. status' # "clock_backward"
  BY HandlerStatus DEF DispatchMarket
<1>4. MarketsDispatched'
  <2> SUFFICES ASSUME NEW k \in 1..next
               PROVE  \E j \in 1..Len(trace') : trace'[j] = MarketEntry(feed[k])
    BY <1>1 DEF MarketsDispatched, MarketEntry
  <2>1. /\ Len(trace') = Len(trace) + 1 /\ Len(trace) \in Nat
        /\ trace'[Len(trace) + 1] = MarketEntry(feed[next])
        /\ \A j \in 1..Len(trace) : trace'[j] = trace[j]
    BY <1>1 DEF LoopInv, TypeOK
  <2>2. CASE k = next
    BY <2>1, <2>2
  <2>3. CASE k \in 1..(next - 1)
    BY <2>1, <2>3 DEF FeedInv, MarketsDispatched
  <2> QED BY <1>1, <2>2, <2>3
<1> QED BY <1>1, <1>2, <1>3, <1>4 DEF FeedInv, SourceOrdered

LEMMA FeedInternal ==
  ASSUME LoopInv, FeedInv, NEW h \in Handlers, DispatchInternal(h)
  PROVE  FeedInv'
<1>1. PICK e \in queue :
        /\ IsTop(e) /\ now' = e.ts
        /\ trace' = Append(trace, InternalEntry(e))
        /\ Handle(h, e.ts, queue \ {e})
  BY DEF DispatchInternal
<1>2. ~MarketFirst /\ feed' = feed /\ next' = next
  BY DEF DispatchInternal
<1>3. \A f \in queue : f.ts \in Nat /\ e.ts <= f.ts
  BY <1>1, SMTT(60) DEF IsTop, EarlierScheduled, LoopInv, TypeOK, Scheduled
<1>4. FeedAhead'
  <2> SUFFICES ASSUME next <= Len(feed) PROVE e.ts <= feed[next].ts
    BY <1>1, <1>2 DEF FeedAhead
  <2>1. PICK f \in queue : ~(feed[next].ts <= f.ts)
    BY <1>2 DEF MarketFirst
  <2>2. next \in 1..Len(feed)
    BY FeedsAssumption DEF LoopInv, TypeOK
  <2>3. feed[next].ts \in Nat
    BY <2>2, FeedTyped DEF LoopInv
  <2> QED BY <1>3, <2>1, <2>3
<1>5. status' # "clock_backward"
  BY <1>1, HandlerStatus
<1>6. MarketsDispatched'
  <2>1. /\ Len(trace') = Len(trace) + 1 /\ Len(trace) \in Nat
        /\ \A j \in 1..Len(trace) : trace'[j] = trace[j]
    BY <1>1 DEF LoopInv, TypeOK
  <2> QED BY <1>2, <2>1 DEF FeedInv, MarketsDispatched, MarketEntry
<1> QED BY <1>2, <1>4, <1>5, <1>6 DEF FeedInv, SourceOrdered

LEMMA FeedBackward ==
  ASSUME LoopInv, FeedInv, ClockBackward
  PROVE  FeedInv' /\ ~SourceOrdered(feed)
<1>1. PICK u \in Upcoming : u.ts < now
  BY DEF ClockBackward
<1>2. next \in Nat /\ now \in Nat
  BY DEF LoopInv, TypeOK
<1>3. ~SourceOrdered(feed)
  <2>1. CASE MarketFirst
    <3>1. next \in 1..Len(feed) /\ u.ts = feed[next].ts
      BY <1>1, <2>1 DEF MarketFirst, Upcoming, MarketEntry, LoopInv, TypeOK
    <3>2. feed[next].ts \in Nat
      BY <3>1, FeedTyped DEF LoopInv
    <3> QED BY <1>1, <1>2, <2>1, <3>1, <3>2 DEF FeedInv, FeedAhead, MarketFirst
  <2>2. CASE ~MarketFirst
    <3>1. PICK e \in queue : u = InternalEntry(e)
      BY <1>1, <2>2 DEF Upcoming
    <3>2. e.ts \in Nat /\ e.ts >= now /\ u.ts = e.ts
      BY <3>1 DEF LoopInv, TypeOK, QueueNotInPast, Scheduled, InternalEntry
    <3> QED BY <1>1, <1>2, <3>2
  <2> QED BY <2>1, <2>2
<1>4. FeedInv'
  BY <1>3 DEF ClockBackward, FeedInv, MarketsDispatched, SourceOrdered, MarketEntry
<1> QED BY <1>3, <1>4

LEMMA FeedStep == LoopInv /\ FeedInv /\ [Next]_vars => FeedInv'
<1> SUFFICES ASSUME LoopInv, FeedInv, [Next]_vars PROVE FeedInv'
  OBVIOUS
<1>1. CASE /\ UNCHANGED <<feed, next, now, trace>>
           /\ status' = status \/ status' \in {"running", "returned"}
  BY <1>1 DEF FeedInv, FeedAhead, MarketsDispatched, SourceOrdered, MarketEntry
<1>2. ASSUME NEW h \in Handlers, DispatchMarket(h) PROVE FeedInv'
  BY <1>2, FeedMarket
<1>3. ASSUME NEW h \in Handlers, DispatchInternal(h) PROVE FeedInv'
  BY <1>3, FeedInternal
<1>4. CASE ClockBackward
  BY <1>4, FeedBackward
<1> QED
  BY <1>1, <1>2, <1>3, <1>4
     DEF Next, LoopStep, ScheduleBeforeRun, Run, Return, Ended, vars

LEMMA FeedInit == Init => FeedInv
BY FeedTyped, LoopInit DEF Init, FeedInv, FeedAhead, MarketsDispatched, LoopInv

\* The clock cannot be asked to move backward by a feed in source order,
\* however many internal events the handlers put between the market events.
THEOREM NeverBackward == Spec => []OrderedFeedNeverBackward
<1>1. FeedInv => OrderedFeedNeverBackward
  BY DEF FeedInv, OrderedFeedNeverBackward
<1> QED BY <1>1, LoopInit, LoopStepInv, FeedInit, FeedStep, PTL DEF Spec
-----------------------------------------------------------------------------
\* The events the abstract dispatcher holds in a state of the loop.
Pending == {MarketEntry(feed[k]) : k \in next..Len(feed)}
           \cup {InternalEntry(e) : e \in queue}

-----------------------------------------------------------------------------
\* The abstract dispatch order keeps its promise for any set of events and any
\* number of them, whatever the loop is: OrderInv says of pending and dispatched
\* events that they are well formed, with the clock between them.
OrderType ==
  /\ Pending \subseteq Order!Entries
  /\ now \in Nat
  /\ trace \in Seq(Order!Entries)

ClockBetween ==
  /\ \A i \in 1..Len(trace) : trace[i].ts <= now
  /\ \A e \in Pending : e.ts >= now

OrderInv == OrderType /\ ClockBetween /\ Order!TraceOrdered /\ Order!NoLateEvent

\* The order is transitive on events, so the least Pending event precedes the rest.
LEMMA BeforeTransitive ==
  \A a, b, c \in Order!Entries : Order!Before(a, b) /\ Order!Before(b, c) => Order!Before(a, c)
BY DEF Order!Before, Order!Entries, Order!Classes

\* A newly scheduled event follows whatever has been dispatched by time t.
LEMMA ScheduledComesLater ==
  ASSUME NEW t \in Nat, NEW n, NEW d \in Order!Entries,
         Order!Scheduled(n, t), d.ts <= t,
         d.class = "internal" => d.seq < n.seq
  PROVE  Order!Before(d, n)
BY DEF Order!Scheduled, Order!Before, Order!Entries, Order!Classes

LEMMA OrderInit == Order!Init => OrderInv
BY DEF Order!Init, OrderInv, OrderType, ClockBetween, Order!TraceOrdered, Order!NoLateEvent,
       Order!Entries, Order!Classes, Pending

LEMMA OrderSchedule == ASSUME OrderInv, Order!Schedule PROVE OrderInv'
<1> USE DEF OrderInv
<1>1. /\ OrderType /\ now' = now /\ trace' = trace
      /\ \A e \in Pending' : e \in Pending \/ Order!Scheduled(e, now)
  BY DEF Order!Schedule, Pending
<1>2. OrderType'
  BY <1>1 DEF OrderType, Order!Scheduled
<1>3. ClockBetween'
  BY <1>1 DEF ClockBetween, OrderType, Order!Scheduled, Order!Entries
<1>4. Order!TraceOrdered'
  BY <1>1 DEF Order!TraceOrdered
<1>5. Order!NoLateEvent'
  <2> SUFFICES ASSUME NEW i \in 1..Len(trace), NEW e \in Pending'
               PROVE  Order!Before(trace[i], e)
    BY <1>1 DEF Order!NoLateEvent, Pending
  <2>1. CASE e \in Pending
    BY <2>1 DEF Order!NoLateEvent, Pending
  <2>2. CASE Order!Scheduled(e, now)
    <3>1. trace[i] \in Order!Entries /\ trace[i].ts <= now
      BY <1>1 DEF OrderType, ClockBetween
    <3>2. trace[i].class = "internal" => trace[i].seq < e.seq
      BY <2>2 DEF Order!Scheduled, Order!Fresh, Pending
    <3> QED BY <1>1, <2>2, <3>1, <3>2, ScheduledComesLater DEF OrderType
  <2> QED BY <1>1, <2>1, <2>2
<1> QED BY <1>2, <1>3, <1>4, <1>5

LEMMA OrderDispatch == ASSUME OrderInv, Order!Dispatch PROVE OrderInv'
<1> USE DEF OrderInv
<1>1. PICK e \in Pending :
        /\ Order!IsLeast(e)
        /\ now' = e.ts
        /\ trace' = Append(trace, e)
        /\ e \notin Pending'
        /\ \A n \in Pending' \ Pending : Order!Scheduled(n, e.ts)
  BY DEF Order!Dispatch, Pending
<1>2. e \in Order!Entries /\ e.ts \in Nat /\ e.ts >= now /\ now \in Nat
  BY DEF OrderType, ClockBetween, Order!Entries
<1>3. /\ Len(trace') = Len(trace) + 1
      /\ \A i \in 1..Len(trace) : trace'[i] = trace[i]
      /\ trace'[Len(trace) + 1] = e
      /\ Len(trace) \in Nat
  BY <1>1, <1>2 DEF OrderType
<1>4. \A f \in Pending' : \/ f \in Pending /\ Order!Before(e, f)
                          \/ Order!Scheduled(f, e.ts)
  BY <1>1 DEF Order!IsLeast, Pending
<1>5. OrderType'
  BY <1>1, <1>2, <1>4 DEF OrderType, Order!Scheduled
<1>6. \A i \in 1..Len(trace) :
        trace[i] \in Order!Entries /\ trace[i].ts <= now /\ Order!Before(trace[i], e)
  BY DEF OrderType, ClockBetween, Order!NoLateEvent, Pending
<1>7. ClockBetween'
  <2>1. \A f \in Pending' : f.ts >= e.ts
    BY <1>2, <1>4 DEF Order!Before, Order!Scheduled, OrderType, Order!Entries
  <2>2. \A i \in 1..Len(trace') : trace'[i].ts <= e.ts
    BY <1>2, <1>3, <1>6, SMTT(60) DEF Order!Entries
  <2> QED BY <1>1, <2>1, <2>2 DEF ClockBetween
<1>8. Order!TraceOrdered'
  BY <1>3, <1>6 DEF Order!TraceOrdered
<1>9. Order!NoLateEvent'
  <2> SUFFICES ASSUME NEW i \in 1..Len(trace'), NEW f \in Pending'
               PROVE  Order!Before(trace'[i], f)
    BY DEF Order!NoLateEvent, Pending
  <2>1. trace'[i] \in Order!Entries /\ trace'[i].ts <= e.ts
    BY <1>2, <1>3, <1>6 DEF Order!Entries
  <2>2. CASE f \in Pending /\ Order!Before(e, f)
    <3>1. i = Len(trace) + 1 \/ i \in 1..Len(trace)
      BY <1>3
    <3> QED BY <1>2, <1>3, <1>6, <2>2, <3>1, BeforeTransitive DEF OrderType
  <2>3. CASE Order!Scheduled(f, e.ts)
    <3>1. trace'[i].class = "internal" => trace'[i].seq < f.seq
      <4>1. CASE i \in 1..Len(trace)
        BY <1>3, <2>3, <4>1 DEF Order!Scheduled, Order!Fresh, Pending
      <4>2. CASE i = Len(trace) + 1
        BY <1>3, <2>3, <4>2 DEF Order!Scheduled, Order!Fresh, Pending
      <4> QED BY <1>3, <4>1, <4>2
    <3> QED BY <1>2, <2>1, <2>3, <3>1, ScheduledComesLater
  <2> QED BY <1>4, <2>2, <2>3
<1> QED BY <1>5, <1>7, <1>8, <1>9

\* Any dispatcher that always takes the least Pending event and is never given
\* one in the past produces a strictly ordered trace.
THEOREM OrderKept == Order!Spec => [](Order!TraceOrdered /\ Order!NoLateEvent)
<1>1. OrderInv /\ [Order!Next]_(Order!vars) => OrderInv'
  <2> SUFFICES ASSUME OrderInv, [Order!Next]_(Order!vars) PROVE OrderInv'
    OBVIOUS
  <2>1. CASE UNCHANGED Order!vars
    BY <2>1 DEF Order!vars, OrderInv, OrderType, ClockBetween, Order!TraceOrdered, Order!NoLateEvent, Pending
  <2> QED BY <2>1, OrderSchedule, OrderDispatch DEF Order!Next
<1>2. OrderInv => Order!TraceOrdered /\ Order!NoLateEvent
  BY DEF OrderInv
<1> QED BY <1>1, <1>2, OrderInit, PTL DEF Order!Spec
-----------------------------------------------------------------------------

RefInv == LoopInv /\ FeedInv /\ SourceOrdered(feed)

\* Entries of an ordered feed are ordered, and market entries come first.
LEMMA FeedEntriesOrdered ==
  ASSUME RefInv, NEW k \in 1..Len(feed), NEW l \in 1..Len(feed), k < l
  PROVE  Order!Before(MarketEntry(feed[k]), MarketEntry(feed[l]))
BY FeedTyped DEF RefInv, LoopInv, SourceOrdered, KeyBefore, Order!Before, MarketEntry

LEMMA PendingTyped ==
  ASSUME TypeOK, NEW p \in Pending
  PROVE  /\ p \in TraceEntries /\ p.ts \in Nat /\ p.seq \in Nat
         /\ p.class = "internal" => \E e \in queue : p = InternalEntry(e)
<1>1. CASE \E k \in next..Len(feed) : p = MarketEntry(feed[k])
  <2>1. PICK k \in next..Len(feed) : p = MarketEntry(feed[k])
    BY <1>1
  <2>2. k \in 1..Len(feed)
    BY FeedsAssumption DEF TypeOK
  <2> QED BY <2>1, <2>2, FeedTyped DEF MarketEntry, TraceEntries
<1>2. CASE \E e \in queue : p = InternalEntry(e)
  <2>1. PICK e \in queue : p = InternalEntry(e)
    BY <1>2
  <2>2. e \in Scheduled
    BY DEF TypeOK
  <2> QED BY <2>1, <2>2 DEF Scheduled, InternalEntry, TraceEntries
<1> QED BY <1>1, <1>2 DEF Pending

\* A newly queued event is one the abstract dispatcher may schedule.
LEMMA NewIsFresh ==
  ASSUME RefInv, NEW t \in Nat, NEW e \in Scheduled, e.ts >= t, e.seq >= nextSeq
  PROVE  Order!Scheduled(InternalEntry(e), t)
<1>1. nextSeq \in Nat
  BY BoundAssumption DEF RefInv, LoopInv, TypeOK
<1>2. /\ InternalEntry(e) \in Order!Entries /\ InternalEntry(e).class = "internal"
      /\ InternalEntry(e).ts = e.ts /\ InternalEntry(e).seq = e.seq /\ e.seq \in Nat
  BY DEF Scheduled, InternalEntry, Order!Entries, Order!Classes
<1>3. ASSUME NEW p \in Pending, p.class = "internal" PROVE p.seq < e.seq
  <2>1. PICK f \in queue : p = InternalEntry(f)
    BY <1>3, PendingTyped DEF RefInv, LoopInv
  <2>2. p.seq \in Nat /\ p.seq = f.seq /\ f.seq < nextSeq
    BY <2>1, PendingTyped DEF InternalEntry, QueueNumbered, RefInv, LoopInv
  <2> QED BY <1>1, <1>2, <2>2
<1>4. ASSUME NEW i \in 1..Len(trace), trace[i].class = "internal" PROVE trace[i].seq < e.seq
  <2>1. trace[i].seq \in Nat /\ trace[i].seq < nextSeq
    BY <1>4, TraceTyped DEF RefInv, LoopInv, QueueNumbered
  <2> QED BY <1>1, <1>2, <2>1
<1> QED BY <1>2, <1>3, <1>4 DEF Order!Scheduled, Order!Fresh, Pending

\* Dispatching entry p at time t with q left in the queue is an abstract dispatch.
LEMMA RefDispatch ==
  ASSUME RefInv, NEW h \in Handlers, NEW t \in Nat, NEW q \in SUBSET queue,
         NEW p \in Pending, p.ts = t, now' = t, trace' = Append(trace, p),
         \A e \in q : e.ts >= t,
         \A o \in Pending \ {p} : Order!Before(p, o),
         Handle(h, t, q),
         p \notin {InternalEntry(e) : e \in q},
         Pending \ {p} = {MarketEntry(feed[k]) : k \in next'..Len(feed)}
                         \cup {InternalEntry(e) : e \in q},
         feed' = feed
  PROVE  Order!Dispatch
<1> DEFINE left == {MarketEntry(feed[k]) : k \in next'..Len(feed)}
<1>1. nextSeq \in Nat
  BY BoundAssumption DEF RefInv, LoopInv, TypeOK
<1>2. /\ q \subseteq queue' /\ queue' \subseteq Scheduled
      /\ \A e \in queue' \ q : e.ts >= t /\ e.seq >= nextSeq
  <2>1. q \in SUBSET Scheduled /\ TypeOK
    BY DEF RefInv, LoopInv, TypeOK
  <2>2. /\ \A e \in q : e.ts >= t /\ e.seq < nextSeq
        /\ \A e, f \in q : e.seq = f.seq => e = f
    BY DEF RefInv, LoopInv, QueueNumbered
  <2> QED BY <2>1, <2>2, HandleEffect
<1>3. Pending' = left \cup {InternalEntry(e) : e \in queue'}
  BY DEF Pending, MarketEntry, InternalEntry
<1>4. Pending \ {p} \subseteq Pending'
  BY <1>2, <1>3
<1>5. \A n \in Pending' \ (Pending \ {p}) : Order!Scheduled(n, t)
  <2> SUFFICES ASSUME NEW n \in Pending', n \notin Pending \ {p} PROVE Order!Scheduled(n, t)
    OBVIOUS
  <2>1. PICK e \in queue' : n = InternalEntry(e)
    BY <1>3
  <2>2. e \in Scheduled /\ e.ts >= t /\ e.seq >= nextSeq
    BY <1>2, <2>1
  <2> QED BY <2>1, <2>2, NewIsFresh
<1>6. p \notin Pending'
  <2> SUFFICES ASSUME p \in Pending' PROVE FALSE
    OBVIOUS
  <2>1. Order!Scheduled(p, t)
    BY <1>5
  <2>2. p.class = "internal" /\ p.seq < p.seq
    BY <2>1 DEF Order!Scheduled, Order!Fresh, Pending
  <2> QED BY <2>2, PendingTyped DEF RefInv, LoopInv
<1>7. Order!IsLeast(p)
  BY DEF Order!IsLeast, Pending
<1>8. \A n \in Pending' \ Pending : Order!Scheduled(n, p.ts)
  BY <1>5
<1> QED BY <1>4, <1>6, <1>7, <1>8 DEF Order!Dispatch, Pending
LEMMA RefMarket ==
  ASSUME RefInv, NEW h \in Handlers, DispatchMarket(h)
  PROVE  Order!Dispatch
<1> DEFINE p == MarketEntry(feed[next])
<1>1. /\ next \in 1..Len(feed) /\ Len(feed) \in Nat /\ next' = next + 1 /\ feed' = feed
      /\ now' = feed[next].ts /\ trace' = Append(trace, p)
      /\ Handle(h, feed[next].ts, queue)
      /\ \A e \in queue : feed[next].ts <= e.ts
  BY FeedsAssumption DEF DispatchMarket, MarketFirst, RefInv, LoopInv, TypeOK
<1>2. p \in Pending /\ p.ts = feed[next].ts /\ p.class = "market" /\ feed[next].ts \in Nat
  BY <1>1, FeedTyped DEF Pending, MarketEntry, RefInv, LoopInv
<1>3. \A e \in queue : e.ts \in Nat /\ e.ts >= feed[next].ts
  BY <1>1, <1>2 DEF RefInv, LoopInv, TypeOK, Scheduled
<1>4. \A o \in Pending \ {p} : Order!Before(p, o)
  <2> SUFFICES ASSUME NEW o \in Pending, o # p PROVE Order!Before(p, o)
    OBVIOUS
  <2>1. ASSUME NEW k \in next..Len(feed), o = MarketEntry(feed[k]) PROVE Order!Before(p, o)
    <3>1. k \in 1..Len(feed) /\ next < k
      BY <1>1, <2>1
    <3> QED BY <1>1, <2>1, <3>1, FeedEntriesOrdered
  <2>2. ASSUME NEW e \in queue, o = InternalEntry(e) PROVE Order!Before(p, o)
    BY <1>2, <1>3, <2>2 DEF Order!Before, InternalEntry
  <2> QED BY <2>1, <2>2 DEF Pending
<1>5. p \notin {InternalEntry(e) : e \in queue}
  <2>1. \A e \in queue : InternalEntry(e).class = "internal"
    BY DEF InternalEntry
  <2> HIDE DEF p
  <2> QED BY <1>2, <2>1
<1>6. Pending \ {p} = {MarketEntry(feed[k]) : k \in next'..Len(feed)}
                      \cup {InternalEntry(e) : e \in queue}
  <2>1. \A k \in (next + 1)..Len(feed) : MarketEntry(feed[k]) # p
    <3> SUFFICES ASSUME NEW k \in (next + 1)..Len(feed), MarketEntry(feed[k]) = p PROVE FALSE
      OBVIOUS
    <3>1. k \in 1..Len(feed) /\ next < k
      BY <1>1
    <3>2. Order!Before(p, p)
      BY <1>1, <3>1, FeedEntriesOrdered
    <3> QED BY <1>1, <3>2, FeedTyped DEF Order!Before, MarketEntry, RefInv, LoopInv
  <2>2. next..Len(feed) = {next} \cup ((next + 1)..Len(feed))
    BY <1>1
  <2> HIDE DEF p
  <2>3. {MarketEntry(feed[k]) : k \in next..Len(feed)}
          = {p} \cup {MarketEntry(feed[k]) : k \in (next + 1)..Len(feed)}
    BY <2>2 DEF p
  <2> QED BY <1>1, <1>5, <2>1, <2>3 DEF Pending
<1> HIDE DEF p
<1> QED BY <1>1, <1>2, <1>3, <1>4, <1>5, <1>6, RefDispatch

LEMMA RefInternal ==
  ASSUME RefInv, NEW h \in Handlers, DispatchInternal(h)
  PROVE  Order!Dispatch
<1>1. PICK e \in queue :
        /\ IsTop(e) /\ now' = e.ts
        /\ trace' = Append(trace, InternalEntry(e))
        /\ Handle(h, e.ts, queue \ {e})
  BY DEF DispatchInternal
<1> DEFINE p == InternalEntry(e)
<1>2. ~MarketFirst /\ feed' = feed /\ next' = next
  BY DEF DispatchInternal
<1>3. \A f \in queue : f.ts \in Nat /\ f.seq \in Nat /\ f \in Scheduled
  BY DEF RefInv, LoopInv, TypeOK, Scheduled
<1>4. \A f \in queue \ {e} : f.ts >= e.ts /\ EarlierScheduled(e, f)
  BY <1>1, <1>3 DEF IsTop, EarlierScheduled
<1>5. p \in Pending /\ p.ts = e.ts /\ p.class = "internal" /\ p.seq = e.seq
  BY DEF Pending, InternalEntry
<1>6. ASSUME NEW k \in next..Len(feed)
      PROVE  MarketEntry(feed[k]).class = "market" /\ Order!Before(p, MarketEntry(feed[k]))
  <2>1. PICK f \in queue : ~(feed[next].ts <= f.ts)
    BY <1>2, <1>6 DEF MarketFirst, RefInv, LoopInv, TypeOK
  <2>2. next \in 1..Len(feed) /\ k \in 1..Len(feed) /\ (next = k \/ next < k)
    BY <1>6, FeedsAssumption DEF RefInv, LoopInv, TypeOK
  <2>3. feed[next].ts \in Nat /\ feed[k].ts \in Nat /\ feed[next].ts <= feed[k].ts
    BY <2>2, FeedTyped DEF RefInv, LoopInv, SourceOrdered, KeyBefore
  <2>4. e.ts < feed[k].ts
    BY <1>3, <1>4, <2>1, <2>3
  <2> QED BY <1>5, <2>4 DEF Order!Before, MarketEntry
<1>7. \A o \in Pending \ {p} : Order!Before(p, o)
  <2> SUFFICES ASSUME NEW o \in Pending, o # p PROVE Order!Before(p, o)
    OBVIOUS
  <2>1. ASSUME NEW f \in queue, o = InternalEntry(f) PROVE Order!Before(p, o)
    <3>1. f # e
      BY <2>1
    <3> QED BY <1>3, <1>4, <2>1, <3>1 DEF Order!Before, EarlierScheduled, InternalEntry
  <2> QED BY <1>6, <2>1 DEF Pending
<1>8. p \notin {InternalEntry(f) : f \in queue \ {e}}
  BY <1>5 DEF InternalEntry, RefInv, LoopInv, QueueNumbered
<1>9. Pending \ {p} = {MarketEntry(feed[k]) : k \in next'..Len(feed)}
                      \cup {InternalEntry(f) : f \in queue \ {e}}
  <2> HIDE DEF p
  <2>1. \A k \in next..Len(feed) : MarketEntry(feed[k]) # p
    BY <1>5, <1>6
  <2>2. {InternalEntry(f) : f \in queue} = {p} \cup {InternalEntry(f) : f \in queue \ {e}}
    BY DEF p
  <2> QED BY <1>2, <1>8, <2>1, <2>2 DEF Pending
<1>10. trace' = Append(trace, p) /\ e.ts \in Nat
  BY <1>1, <1>3
<1> HIDE DEF p
<1> QED BY <1>1, <1>2, <1>4, <1>5, <1>7, <1>8, <1>9, <1>10, RefDispatch

LEMMA RefSchedule ==
  ASSUME RefInv, NEW h \in Handlers, NEW k \in 1..Len(h.requests), ScheduleBeforeRun(h.requests[k])
  PROVE  Order!Schedule
<1>1. /\ queue \subseteq queue'
      /\ UNCHANGED <<feed, next, now, trace>>
  BY DEF ScheduleBeforeRun
<1>2. /\ now \in Nat /\ nextSeq \in Nat
      /\ \A e \in queue' \ queue : e \in Scheduled /\ e.ts >= now /\ e.seq >= nextSeq
  <2>1. now \in Nat /\ nextSeq \in Nat
    BY BoundAssumption DEF RefInv, LoopInv, TypeOK
  <2> QED BY <2>1, LoopSchedule DEF RefInv
<1>3. Pending' = {MarketEntry(feed[j]) : j \in next..Len(feed)}
                 \cup {InternalEntry(e) : e \in queue'}
  BY <1>1 DEF Pending, MarketEntry, InternalEntry
<1>4. Pending \subseteq Pending'
  BY <1>1, <1>3 DEF Pending
<1>5. \A n \in Pending' \ Pending : Order!Scheduled(n, now)
  <2> SUFFICES ASSUME NEW n \in Pending', n \notin Pending PROVE Order!Scheduled(n, now)
    OBVIOUS
  <2>1. PICK e \in queue' : n = InternalEntry(e) /\ e \notin queue
    BY <1>3 DEF Pending
  <2> QED BY <1>2, <2>1, NewIsFresh
<1> QED BY <1>1, <1>4, <1>5 DEF Order!Schedule, Pending

LEMMA RefInit ==
  ASSUME Init, SourceOrdered(feed)
  PROVE  RefInv /\ Order!Init
<1>1. RefInv
  BY LoopInit, FeedInit DEF RefInv
<1>2. Pending = {MarketEntry(feed[k]) : k \in 1..Len(feed)}
  BY DEF Init, Pending
<1>3. Pending \subseteq [class : {"market"}, ts : Nat, seq : Nat, event : Events]
  BY <1>1, <1>2, FeedTyped DEF MarketEntry, RefInv, LoopInv
<1>4. \A a, b \in Pending : a = b \/ Order!Before(a, b) \/ Order!Before(b, a)
  <2> SUFFICES ASSUME NEW k \in 1..Len(feed), NEW l \in 1..Len(feed)
               PROVE  \/ k = l
                      \/ Order!Before(MarketEntry(feed[k]), MarketEntry(feed[l]))
                      \/ Order!Before(MarketEntry(feed[l]), MarketEntry(feed[k]))
    BY <1>2
  <2> QED BY <1>1, FeedEntriesOrdered
<1> QED BY <1>1, <1>3, <1>4 DEF Order!Init, Init, Pending

LEMMA RefStep ==
  ASSUME RefInv, [Next]_vars
  PROVE  RefInv' /\ [Order!Next]_(Order!vars)
<1>1. RefInv'
  <2>1. feed' = feed
    BY DEF Next, LoopStep, ScheduleBeforeRun, Run, DispatchMarket, DispatchInternal,
           ClockBackward, Return, Ended, vars
  <2>2. LoopInv' /\ FeedInv'
    BY LoopStepInv, FeedStep DEF RefInv
  <2> QED BY <2>1, <2>2 DEF RefInv, SourceOrdered
<1>2. ASSUME UNCHANGED <<feed, next, now, queue, trace>> PROVE UNCHANGED Order!vars
  BY <1>2 DEF Order!vars, MarketEntry, InternalEntry
<1>3. ~ClockBackward
  BY FeedBackward DEF RefInv
<1> QED
  BY <1>1, <1>2, <1>3, RefSchedule, RefMarket, RefInternal
     DEF Next, LoopStep, Run, Return, Ended, vars, Order!Next

\* On a feed in source order the cursor and the heap implement the single
\* totally ordered pending set.
THEOREM LoopImplementsOrder == Spec => OneTotalOrder
<1> DEFINE I == LoopInv /\ FeedInv
           A == SourceOrdered(feed) => Order!Next
<1>1. Init => I
  BY LoopInit, FeedInit
<1>2. I /\ [Next]_vars => I' /\ [A]_(Order!vars)
  BY LoopStepInv, FeedStep, RefStep DEF RefInv
<1>3. Init => (SourceOrdered(feed) => Order!Init)
  BY RefInit
<1> HIDE DEF I, A
<1>4. Spec => [][A]_(Order!vars)
  BY <1>1, <1>2, PTL DEF Spec
<1>5. Spec => (SourceOrdered(feed) => Order!Init)
  BY <1>3, PTL DEF Spec
<1> QED BY <1>4, <1>5 DEF A, OneTotalOrder
-----------------------------------------------------------------------------
\* What has been dispatched, in an order that leaves nothing behind, is the past.
LEMMA OrderGivesNoLookAhead ==
  ASSUME RefInv, Order!TraceOrdered, Order!NoLateEvent
  PROVE  NoLookAhead
<1> SUFFICES ASSUME NEW i \in 1..Len(trace), trace[i].class = "internal",
                    NEW k \in 1..Len(feed)
             PROVE  feed[k].ts <= trace[i].ts
                      <=> \E j \in 1..(i - 1) : trace[j] = MarketEntry(feed[k])
  BY DEF NoLookAhead
<1>1. /\ feed[k].ts \in Nat /\ trace[i].ts \in Nat /\ next \in Nat /\ Len(trace) \in Nat
      /\ MarketEntry(feed[k]).class = "market" /\ MarketEntry(feed[k]).ts = feed[k].ts
  BY FeedTyped, TraceTyped DEF RefInv, LoopInv, TypeOK, MarketEntry
<1>2. ASSUME feed[k].ts <= trace[i].ts
      PROVE  \E j \in 1..(i - 1) : trace[j] = MarketEntry(feed[k])
  <2>1. ~Order!Before(trace[i], MarketEntry(feed[k]))
    BY <1>1, <1>2 DEF Order!Before
  <2>2. ~(k \in next..Len(feed))
    BY <2>1 DEF Order!NoLateEvent
  <2>3. k \in 1..(next - 1)
    BY <1>1, <2>2
  <2>4. PICK j \in 1..Len(trace) : trace[j] = MarketEntry(feed[k])
    BY <2>3 DEF RefInv, FeedInv, MarketsDispatched
  <2>5. j # i
    BY <1>1, <2>4
  <2>6. ~(i < j)
    BY <2>1, <2>4 DEF Order!TraceOrdered
  <2> QED BY <1>1, <2>4, <2>5, <2>6
<1>3. ASSUME NEW j \in 1..(i - 1), trace[j] = MarketEntry(feed[k])
      PROVE  feed[k].ts <= trace[i].ts
  <2>1. j \in 1..Len(trace) /\ j < i
    BY <1>1
  <2>2. Order!Before(MarketEntry(feed[k]), trace[i])
    BY <1>3, <2>1 DEF Order!TraceOrdered
  <2> QED BY <1>1, <2>2, SMTT(60) DEF Order!Before
<1> QED BY <1>2, <1>3

\* A handler of an internal event at time T runs after exactly the market
\* events at or before T: no strategy or execution step can look ahead.
THEOREM HandlersSeeThePast == Spec => []NoLookAhead
<1>1. Init /\ SourceOrdered(feed) => RefInv /\ Order!Init
  BY RefInit
<1>2. RefInv /\ [Next]_vars => RefInv' /\ [Order!Next]_(Order!vars)
  BY RefStep
<1>3. RefInv /\ Order!TraceOrdered /\ Order!NoLateEvent => NoLookAhead
  BY OrderGivesNoLookAhead
<1>4. Order!Spec => [](Order!TraceOrdered /\ Order!NoLateEvent)
  BY OrderKept
<1>5. ~SourceOrdered(feed) /\ [Next]_vars => ~SourceOrdered(feed)'
  <2>1. [Next]_vars => feed' = feed
    BY DEF Next, LoopStep, ScheduleBeforeRun, Run, DispatchMarket, DispatchInternal,
           ClockBackward, Return, Ended, vars
  <2> QED BY <2>1 DEF SourceOrdered
<1>6. ~SourceOrdered(feed) => NoLookAhead
  BY DEF NoLookAhead
<1> QED BY <1>1, <1>2, <1>3, <1>4, <1>5, <1>6, PTL DEF Spec, Order!Spec
-----------------------------------------------------------------------------
\* Every number given out is waiting or dispatched, once, and the number of
\* events waiting and dispatched is that of the events read and scheduled.
OnceInv ==
  /\ \A i, j \in 1..Len(trace) :
       trace[i].class = "internal" /\ trace[j].class = "internal" /\ trace[i].seq = trace[j].seq
         => i = j
  /\ \A e \in queue : \A i \in 1..Len(trace) :
       trace[i].class = "internal" => trace[i].seq # e.seq
  /\ \A s \in 0..(nextSeq - 1) :
       \/ \E i \in 1..Len(trace) : trace[i].class = "internal" /\ trace[i].seq = s
       \/ \E e \in queue : e.seq = s
  /\ IsFiniteSet(queue)
  /\ Len(trace) + Cardinality(queue) = next - 1 + nextSeq
  /\ status = "returned" => next = Len(feed) + 1 /\ queue = {}

\* The numbers below b are those below a and those from a on.
LEMMA BelowOrIn ==
  ASSUME NEW a \in Nat, NEW b \in Nat, NEW s \in 0..(b - 1), ~(s \in a..(b - 1))
  PROVE  s \in 0..(a - 1)
OBVIOUS

\* The n accepted requests of a call become n events, numbered in a row.
LEMMA NumberedEffect ==
  ASSUME NEW reqs, NEW n \in Nat, nextSeq \in Nat
  PROVE  /\ IsFiniteSet(Numbered(reqs, n)) /\ Cardinality(Numbered(reqs, n)) = n
         /\ \A e \in Numbered(reqs, n) : e.seq \in nextSeq..(nextSeq + n - 1)
         /\ \A s \in nextSeq..(nextSeq + n - 1) : \E e \in Numbered(reqs, n) : e.seq = s
<1> DEFINE new(i) == [ts |-> reqs[i].ts, seq |-> nextSeq + i - 1, event |-> reqs[i].event]
           number == [i \in 1..n |-> new(i)]
<1>1. \A i \in 1..n : new(i).seq = nextSeq + i - 1 /\ new(i) \in Numbered(reqs, n)
  BY DEF Numbered
<1>2. \A e \in Numbered(reqs, n) : \E i \in 1..n : e = new(i)
  BY DEF Numbered
<1> HIDE DEF new
<1>3. ExistsBijection(1..n, Numbered(reqs, n))
  <2>1. \A i, j \in 1..n : number[i] = number[j] => i = j
    BY <1>1
  <2>2. number \in [1..n -> Numbered(reqs, n)]
    BY <1>1
  <2>3. \A e \in Numbered(reqs, n) : \E i \in 1..n : number[i] = e
    BY <1>2
  <2> HIDE DEF number
  <2>4. number \in Bijection(1..n, Numbered(reqs, n))
    BY <2>1, <2>2, <2>3, Fun_IsBij
  <2> QED BY <2>4 DEF ExistsBijection
<1>4. IsFiniteSet(1..n) /\ Cardinality(1..n) = n
  <2>1. 1 \in Int /\ n \in Int
    OBVIOUS
  <2> QED BY <2>1, FS_Interval
<1>5. IsFiniteSet(Numbered(reqs, n)) /\ Cardinality(Numbered(reqs, n)) = n
  BY <1>3, <1>4, FS_Bijection
<1>6. \A e \in Numbered(reqs, n) : e.seq \in nextSeq..(nextSeq + n - 1)
  BY <1>1, <1>2
<1>7. \A s \in nextSeq..(nextSeq + n - 1) : \E e \in Numbered(reqs, n) : e.seq = s
  <2> SUFFICES ASSUME NEW s \in nextSeq..(nextSeq + n - 1)
               PROVE  \E e \in Numbered(reqs, n) : e.seq = s
    OBVIOUS
  <2>1. s - nextSeq + 1 \in 1..n /\ nextSeq + (s - nextSeq + 1) - 1 = s
    OBVIOUS
  <2> QED BY <1>1, <2>1
<1> QED BY <1>5, <1>6, <1>7

\* A handler call adds as many events as it uses numbers.
LEMMA HandleNumbers ==
  ASSUME TypeOK, NEW h \in Handlers, NEW t, NEW q \in SUBSET Scheduled,
         IsFiniteSet(q), \A e \in q : e.seq < nextSeq, Handle(h, t, q)
  PROVE  /\ IsFiniteSet(queue') /\ nextSeq \in Nat /\ nextSeq' \in Nat
         /\ Cardinality(queue') = Cardinality(q) + nextSeq' - nextSeq
         /\ \A e \in queue' \ q : e.seq >= nextSeq
         /\ \A s \in nextSeq..(nextSeq' - 1) : \E e \in queue' : e.seq = s
<1>1. PICK n \in 0..Len(h.requests) :
        queue' = q \cup Numbered(h.requests, n) /\ nextSeq' = nextSeq + n
  BY DEF Handle
<1>2. n \in Nat /\ nextSeq \in Nat
  <2>1. h.requests \in Seq(Requests)
    BY HandlersAssumption
  <2> QED BY <2>1, BoundAssumption DEF TypeOK
<1>3. PICK new : new = Numbered(h.requests, n)
  OBVIOUS
<1>4. /\ IsFiniteSet(new) /\ Cardinality(new) = n
      /\ \A e \in new : e.seq \in nextSeq..(nextSeq + n - 1)
      /\ \A s \in nextSeq..(nextSeq + n - 1) : \E e \in new : e.seq = s
  BY <1>2, <1>3, NumberedEffect
<1>5. q \cap new = {}
  BY <1>2, <1>4 DEF Scheduled
<1>6. IsFiniteSet(q \cup new) /\ Cardinality(q \cup new) = Cardinality(q) + n
  <2>1. Cardinality(q \cap new) = 0
    BY <1>5, FS_EmptySet
  <2>2. Cardinality(q) \in Nat
    BY FS_CardinalityType
  <2>3. /\ IsFiniteSet(q \cup new)
        /\ Cardinality(q \cup new) = Cardinality(q) + Cardinality(new) - Cardinality(q \cap new)
    BY <1>4, FS_Union
  <2> QED BY <1>2, <1>4, <2>1, <2>2, <2>3
<1>7. Cardinality(q) \in Nat
  BY FS_CardinalityType
<1> QED BY <1>1, <1>2, <1>3, <1>4, <1>6, <1>7

LEMMA OnceInit == Init => OnceInv
BY FS_EmptySet DEF Init, OnceInv

\* A dispatch moves the cursor over one market event or takes one event out of
\* the queue, and puts it in the trace.
LEMMA OnceDispatch ==
  ASSUME LoopInv, OnceInv, NEW h \in Handlers, NEW t, NEW q \in SUBSET queue,
         NEW entry \in TraceEntries, trace' = Append(trace, entry), feed' = feed,
         \/ entry.class = "market" /\ q = queue /\ next' = next + 1
         \/ /\ entry.class = "internal" /\ next' = next
            /\ \E e \in queue : q = queue \ {e} /\ entry.seq = e.seq,
         Handle(h, t, q)
  PROVE  OnceInv'
<1>1. /\ queue \subseteq Scheduled /\ trace \in Seq(TraceEntries) /\ TypeOK
      /\ next \in Nat /\ nextSeq \in Nat /\ Len(trace) \in Nat
      /\ \A e \in queue : e.seq \in Nat /\ e.seq < nextSeq
      /\ \A e, f \in queue : e.seq = f.seq => e = f
  <2>1. queue \subseteq Scheduled /\ trace \in Seq(TraceEntries) /\ TypeOK
    BY DEF LoopInv, TypeOK
  <2>2. next \in Nat /\ nextSeq \in Nat
    BY BoundAssumption DEF LoopInv, TypeOK
  <2> QED BY <2>1, <2>2 DEF LoopInv, QueueNumbered, Scheduled
<1>2. IsFiniteSet(queue) /\ IsFiniteSet(q) /\ Cardinality(queue) \in Nat /\ Cardinality(q) \in Nat
  BY FS_Subset, FS_CardinalityType DEF OnceInv
<1>3. /\ IsFiniteSet(queue') /\ nextSeq' \in Nat
      /\ Cardinality(queue') = Cardinality(q) + nextSeq' - nextSeq
      /\ \A e \in queue' \ q : e.seq >= nextSeq
      /\ \A s \in nextSeq..(nextSeq' - 1) : \E e \in queue' : e.seq = s
  <2>1. q \in SUBSET Scheduled /\ \A e \in q : e.seq < nextSeq
    BY <1>1
  <2> QED BY <1>1, <1>2, <2>1, HandleNumbers
<1>4. q \subseteq queue' /\ status' # "returned"
  BY DEF Handle
<1>5. /\ Len(trace') = Len(trace) + 1 /\ trace'[Len(trace) + 1] = entry
      /\ \A i \in 1..Len(trace) : trace'[i] = trace[i] /\ trace[i].seq \in Nat
      /\ entry.seq \in Nat
  <2>1. entry.seq \in Nat
    BY DEF TraceEntries
  <2>2. \A i \in 1..Len(trace) : trace[i].seq \in Nat
    BY <1>1, TraceTyped
  <2> QED BY <1>1, <2>1, <2>2
<1>6. \A i \in 1..Len(trace) : trace[i].class = "internal" => trace[i].seq < nextSeq
  BY DEF LoopInv, QueueNumbered
<1>7. entry.class = "internal" =>
        /\ entry.seq < nextSeq
        /\ \A i \in 1..Len(trace) : trace[i].class = "internal" => trace[i].seq # entry.seq
        /\ \A e \in q : e.seq # entry.seq
  BY <1>1 DEF OnceInv
<1>8. \A i, j \in 1..Len(trace') :
        trace'[i].class = "internal" /\ trace'[j].class = "internal" /\ trace'[i].seq = trace'[j].seq
          => i = j
  <2>1. \A i, j \in 1..Len(trace) :
          trace[i].class = "internal" /\ trace[j].class = "internal" /\ trace[i].seq = trace[j].seq
            => i = j
    BY DEF OnceInv
  <2>2. \A i \in 1..Len(trace') : i \in 1..Len(trace) \/ i = Len(trace) + 1
    BY <1>1, <1>5
  <2> QED BY <1>5, <1>7, <2>1, <2>2
<1>9. \A e \in queue' : \A i \in 1..Len(trace') :
        trace'[i].class = "internal" => trace'[i].seq # e.seq
  <2> SUFFICES ASSUME NEW e \in queue', NEW i \in 1..Len(trace'), trace'[i].class = "internal"
               PROVE  trace'[i].seq # e.seq
    OBVIOUS
  <2>1. trace'[i].seq \in Nat /\ trace'[i].seq < nextSeq
    BY <1>1, <1>5, <1>6, <1>7
  <2>2. CASE e \notin q
    <3>1. e.seq >= nextSeq
      BY <1>3, <2>2
    <3>2. ~(trace'[i].seq >= nextSeq)
      BY <1>1, <2>1
    <3> QED BY <3>1, <3>2
  <2>3. CASE e \in q
    BY <1>1, <1>5, <1>7, <2>3, SMTT(60) DEF OnceInv
  <2> QED BY <2>2, <2>3
<1>10. \A s \in 0..(nextSeq' - 1) :
        \/ \E i \in 1..Len(trace') : trace'[i].class = "internal" /\ trace'[i].seq = s
        \/ \E e \in queue' : e.seq = s
  <2> SUFFICES ASSUME NEW s \in 0..(nextSeq' - 1), \A e \in queue' : e.seq # s
               PROVE  \E i \in 1..Len(trace') : trace'[i].class = "internal" /\ trace'[i].seq = s
    OBVIOUS
  <2>1. s \in 0..(nextSeq - 1)
    <3>1. nextSeq' \in Nat /\ ~(s \in nextSeq..(nextSeq' - 1))
      BY <1>3
    <3> QED BY <1>1, <3>1, BelowOrIn
  <2>2. CASE \E i \in 1..Len(trace) : trace[i].class = "internal" /\ trace[i].seq = s
    BY <1>1, <1>5, <2>2
  <2>3. CASE \E e \in queue : e.seq = s
    <3>1. entry.class = "internal" /\ entry.seq = s
      BY <1>4, <2>3
    <3>2. Len(trace) + 1 \in 1..Len(trace')
      BY <1>1, <1>5
    <3> QED BY <1>5, <3>1, <3>2
  <2> QED BY <2>1, <2>2, <2>3 DEF OnceInv
<1>11. Len(trace') + Cardinality(queue') = next' - 1 + nextSeq'
  <2>1. Len(trace) + Cardinality(queue) = next - 1 + nextSeq
    BY DEF OnceInv
  <2>2. Cardinality(q) - next' = Cardinality(queue) - next - 1 /\ next' \in Nat
    <3>1. CASE q = queue /\ next' = next + 1
      BY <1>1, <1>2, <3>1
    <3>2. CASE next' = next /\ \E e \in queue : q = queue \ {e}
      <4>1. Cardinality(q) = Cardinality(queue) - 1
        BY <1>2, <3>2, FS_RemoveElement
      <4> QED BY <1>1, <1>2, <3>2, <4>1
    <3> QED BY <3>1, <3>2
  <2>3. Cardinality(queue') = Cardinality(q) + nextSeq' - nextSeq /\ Len(trace') = Len(trace) + 1
    BY <1>3, <1>5
  <2>4. /\ Len(trace) \in Nat /\ next \in Nat /\ nextSeq \in Nat /\ nextSeq' \in Nat
        /\ Cardinality(q) \in Nat /\ Cardinality(queue) \in Nat
    BY <1>1, <1>2, <1>3
  <2>5. PICK l \in Nat, c \in Nat, n \in Nat, s \in Nat, cq \in Nat, nn \in Nat, ss \in Nat :
          /\ l = Len(trace) /\ c = Cardinality(queue) /\ n = next /\ s = nextSeq
          /\ cq = Cardinality(q) /\ nn = next' /\ ss = nextSeq'
    BY <2>2, <2>4
  <2>6. l + c = n - 1 + s /\ cq - nn = c - n - 1
    BY <2>1, <2>2, <2>5
  <2>7. (l + 1) + (cq + ss - s) = nn - 1 + ss
    BY <2>6, SMTT(60)
  <2>8. Len(trace') = l + 1 /\ Cardinality(queue') = cq + ss - s /\ next' = nn /\ nextSeq' = ss
    BY <2>3, <2>5
  <2> QED BY <2>7, <2>8
<1> QED BY <1>3, <1>4, <1>8, <1>9, <1>10, <1>11 DEF OnceInv

LEMMA OnceMarket ==
  ASSUME LoopInv, OnceInv, NEW h \in Handlers, DispatchMarket(h)
  PROVE  OnceInv'
<1>1. next \in 1..Len(feed)
  BY FeedsAssumption DEF DispatchMarket, MarketFirst, LoopInv, TypeOK
<1>2. PICK entry : entry = MarketEntry(feed[next])
  OBVIOUS
<1>3. entry \in TraceEntries /\ entry.class = "market"
  BY <1>1, <1>2, FeedTyped DEF MarketEntry, TraceEntries, LoopInv
<1>4. /\ trace' = Append(trace, entry) /\ feed' = feed /\ next' = next + 1
      /\ Handle(h, feed[next].ts, queue) /\ queue \in SUBSET queue
  BY <1>2 DEF DispatchMarket
<1> QED BY <1>3, <1>4, OnceDispatch

LEMMA OnceInternal ==
  ASSUME LoopInv, OnceInv, NEW h \in Handlers, DispatchInternal(h)
  PROVE  OnceInv'
<1>1. PICK e \in queue :
        trace' = Append(trace, InternalEntry(e)) /\ Handle(h, e.ts, queue \ {e})
  BY DEF DispatchInternal
<1>2. PICK entry : entry = InternalEntry(e)
  OBVIOUS
<1>3. entry \in TraceEntries /\ entry.class = "internal" /\ entry.seq = e.seq
  BY <1>2 DEF InternalEntry, TraceEntries, LoopInv, TypeOK, Scheduled
<1>4. next' = next /\ feed' = feed
  BY DEF DispatchInternal
<1> QED BY <1>1, <1>2, <1>3, <1>4, OnceDispatch

LEMMA OnceSchedule ==
  ASSUME LoopInv, OnceInv, NEW req, ScheduleBeforeRun(req)
  PROVE  OnceInv'
<1>1. /\ nextSeq \in Nat /\ next \in Nat /\ Len(trace) \in Nat
      /\ \A e \in queue : e.seq \in Nat /\ e.seq < nextSeq
  <2>1. queue \subseteq Scheduled /\ nextSeq \in Nat /\ next \in Nat /\ Len(trace) \in Nat
    BY BoundAssumption DEF LoopInv, TypeOK
  <2> QED BY <2>1 DEF LoopInv, QueueNumbered, Scheduled
<1>2. PICK new : new = [ts |-> req.ts, seq |-> nextSeq, event |-> req.event]
  OBVIOUS
<1>3. Numbered(<<req>>, 1) = {new}
  BY <1>1, <1>2 DEF Numbered
<1>4. /\ queue' = queue \cup {new} /\ nextSeq' = nextSeq + 1 /\ new.seq = nextSeq
      /\ UNCHANGED <<feed, next, now, trace, status>> /\ status = "idle"
  BY <1>2, <1>3 DEF ScheduleBeforeRun
<1>5. new \notin queue
  BY <1>1, <1>4
<1>6. /\ IsFiniteSet(queue) /\ Cardinality(queue) \in Nat
      /\ IsFiniteSet(queue') /\ Cardinality(queue') = Cardinality(queue) + 1
  <2>1. IsFiniteSet(queue)
    BY DEF OnceInv
  <2> QED BY <1>4, <1>5, <2>1, FS_CardinalityType, FS_AddElement
<1>7. \A i \in 1..Len(trace) :
        trace[i].class = "internal" => trace[i].seq \in Nat /\ trace[i].seq < nextSeq
  BY TraceTyped DEF LoopInv, QueueNumbered
<1>8. \A e \in queue' : \A i \in 1..Len(trace) :
        trace[i].class = "internal" => trace[i].seq # e.seq
  BY <1>1, <1>4, <1>7 DEF OnceInv
<1>9. \A s \in 0..nextSeq :
        \/ \E i \in 1..Len(trace) : trace[i].class = "internal" /\ trace[i].seq = s
        \/ \E e \in queue' : e.seq = s
  <2>1. \A s \in 0..nextSeq : s = nextSeq \/ s \in 0..(nextSeq - 1)
    BY <1>1
  <2> QED BY <1>4, <2>1 DEF OnceInv
<1>10. Len(trace) + Cardinality(queue') = next - 1 + nextSeq'
  BY <1>1, <1>4, <1>6 DEF OnceInv
<1>11. nextSeq' - 1 = nextSeq
  BY <1>1, <1>4
<1> QED BY <1>4, <1>6, <1>8, <1>9, <1>10, <1>11 DEF OnceInv

\* advance_to can throw for a market event only, so nothing popped is lost.
LEMMA OnceBackward ==
  ASSUME LoopInv, OnceInv, ClockBackward
  PROVE  OnceInv'
<1>1. PICK u \in Upcoming : u.ts < now /\ queue' = {e \in queue : InternalEntry(e) # u}
  BY DEF ClockBackward
<1>2. \A e \in queue : InternalEntry(e) # u
  <2>1. now \in Nat /\ \A e \in queue : e.ts \in Nat /\ e.ts >= now
    BY DEF LoopInv, TypeOK, QueueNotInPast, Scheduled
  <2>2. \A e \in queue : InternalEntry(e).ts = e.ts
    BY DEF InternalEntry
  <2> QED BY <1>1, <2>1, <2>2
<1>3. queue' = queue
  BY <1>1, <1>2
<1> QED BY <1>3 DEF ClockBackward, OnceInv

LEMMA OnceStep == LoopInv /\ OnceInv /\ [Next]_vars => OnceInv'
<1> SUFFICES ASSUME LoopInv, OnceInv, [Next]_vars PROVE OnceInv'
  OBVIOUS
<1>1. ASSUME NEW h \in Handlers, DispatchMarket(h) PROVE OnceInv'
  BY <1>1, OnceMarket
<1>2. ASSUME NEW h \in Handlers, DispatchInternal(h) PROVE OnceInv'
  BY <1>2, OnceInternal
<1>3. ASSUME NEW h \in Handlers, NEW k \in 1..Len(h.requests), ScheduleBeforeRun(h.requests[k])
      PROVE  OnceInv'
  BY <1>3, OnceSchedule
<1>4. CASE Return
  <2>1. next = Len(feed) + 1
    BY <1>4, FeedsAssumption DEF Return, LoopInv, TypeOK
  <2> QED BY <1>4, <2>1 DEF Return, OnceInv
<1>5. CASE Run
  BY <1>5 DEF Run, OnceInv
<1>6. CASE Ended \/ UNCHANGED vars
  BY <1>6 DEF Ended, vars, OnceInv
<1> QED BY <1>1, <1>2, <1>3, <1>4, <1>5, <1>6, OnceBackward DEF Next, LoopStep

\* Every event scheduled is dispatched once or still waiting, for any feed and
\* any handlers and also when an exception ends the run; a run that returns has
\* processed the feed and every event scheduled.
THEOREM EventsDispatchedOnce == Spec => []ExactlyOnce
<1>1. LoopInv /\ OnceInv => ExactlyOnce
  <2> SUFFICES ASSUME LoopInv, OnceInv PROVE ExactlyOnce
    OBVIOUS
  <2>1. PICK done : done = {i \in 1..Len(trace) : trace[i].class = "internal"}
    OBVIOUS
  <2>2. PICK seqs : seqs = {trace[i].seq : i \in done}
    OBVIOUS
  <2>3. nextSeq \in Nat /\ Len(trace) \in Nat /\ Len(feed) \in Nat
    BY BoundAssumption, FeedsAssumption DEF LoopInv, TypeOK
  <2>4. \A i, j \in done : trace[i].seq = trace[j].seq => i = j
    BY <2>1 DEF OnceInv
  <2>5. \A e \in queue : e.seq \notin seqs
    BY <2>1, <2>2 DEF OnceInv
  <2>6. seqs \cup {e.seq : e \in queue} = 0..(nextSeq - 1)
    <3>1. \A s \in seqs : s \in 0..(nextSeq - 1)
      BY <2>1, <2>2, <2>3, TraceTyped DEF LoopInv, QueueNumbered
    <3>2. \A e \in queue : e.seq \in 0..(nextSeq - 1)
      BY <2>3 DEF LoopInv, TypeOK, QueueNumbered, Scheduled
    <3>3. \A s \in 0..(nextSeq - 1) : s \in seqs \/ \E e \in queue : e.seq = s
      BY <2>1, <2>2 DEF OnceInv
    <3> QED BY <3>1, <3>2, <3>3
  <2>7. status = "returned" => Len(trace) = Len(feed) + nextSeq
    BY <2>3, FS_EmptySet DEF OnceInv
  <2> QED BY <2>1, <2>2, <2>4, <2>5, <2>6, <2>7 DEF ExactlyOnce
<1> QED BY <1>1, LoopInit, LoopStepInv, OnceInit, OnceStep, PTL DEF Spec
=============================================================================
