------------------------------ MODULE EventLoop ------------------------------
(***************************************************************************)
(* The event loop of src/event_loop.cpp with its clock and its scheduler:  *)
(* a cursor over the historical market feed, a priority queue of internal  *)
(* events, and a run loop that picks between them.  Handlers are any       *)
(* program: a handler call is the sequence of schedule_internal calls it   *)
(* makes and whether it throws after them.  A request in the past makes    *)
(* schedule itself throw.  Either exception leaves run().                  *)
(***************************************************************************)
EXTENDS Integers, Sequences, FiniteSets

CONSTANTS
  Events,        \* payloads of market and internal events
  Feeds,         \* the historical feeds a loop may be constructed with
  Handlers,      \* the handler calls the loop may make
  MaxScheduled   \* bound on schedule_internal calls (std::uint64_t in the code)

MarketEvents == [ts : Nat, seq : Nat, event : Events]
Requests     == [ts : Nat, event : Events]
Scheduled    == [ts : Nat, seq : Nat, event : Events]
TraceEntries == [class : {"market", "internal"}, ts : Nat, seq : Nat, event : Events]

ASSUME FeedsAssumption    == Feeds \subseteq Seq(MarketEvents)
ASSUME HandlersAssumption == Handlers \subseteq [requests : Seq(Requests), throws : BOOLEAN]
ASSUME BoundAssumption    == MaxScheduled \in Nat

VARIABLES
  feed,          \* historical_events_
  next,          \* next_market_index_, counted from 1
  now,           \* clock_
  queue,         \* scheduler_.queue_, as a set: its order is EarlierScheduled
  nextSeq,       \* scheduler_.next_internal_sequence_id_
  trace,         \* result.trace
  status         \* idle before run(); then how the run stands or ended

vars == <<feed, next, now, queue, nextSeq, trace, status>>

Statuses == {"idle", "running", "returned", "clock_backward", "handler_threw"}

-----------------------------------------------------------------------------
\* EventKey order of the feed, as the feed's parser and merger deliver it.
KeyBefore(a, b) == a.ts < b.ts \/ (a.ts = b.ts /\ a.seq < b.seq)

SourceOrdered(f) == \A i, j \in 1..Len(f) : i < j => KeyBefore(f[i], f[j])

\* Seeded error: newest first among events of one timestamp.
NewestScheduled(a, b) == a.ts < b.ts \/ (a.ts = b.ts /\ a.seq > b.seq)

\* LaterScheduledEvent: the top of the queue is earlier than all others.
EarlierScheduled(a, b) == a.ts < b.ts \/ (a.ts = b.ts /\ a.seq < b.seq)

IsTop(e) == \A f \in queue \ {e} : EarlierScheduled(e, f)

MarketEntry(m) ==
  [class |-> "market", ts |-> m.ts, seq |-> m.seq, event |-> m.event]

InternalEntry(e) ==
  [class |-> "internal", ts |-> e.ts, seq |-> e.seq, event |-> e.event]

\* Seeded errors: the queue wins a tie; the queue is drained first.
MarketFirstStrictly ==
  /\ next <= Len(feed)
  /\ \A e \in queue : feed[next].ts < e.ts

MarketWhenQueueEmpty == next <= Len(feed) /\ queue = {}

\* should_process_market_next: a market event wins a tie with the queue's top.
MarketFirst ==
  /\ next <= Len(feed)
  /\ \A e \in queue : feed[next].ts <= e.ts

\* The entry the loop is about to process, if any.
Upcoming ==
  IF MarketFirst THEN {MarketEntry(feed[next])}
                 ELSE {InternalEntry(e) : e \in {f \in queue : IsTop(f)}}

\* Seeded error: requests in the past are accepted.
AcceptsAny(reqs, n, t) == n = Len(reqs)

\* The first n requests are accepted and the next one, if any, is in the past.
Accepts(reqs, n, t) ==
  /\ \A i \in 1..n : reqs[i].ts >= t
  /\ n < Len(reqs) => reqs[n + 1].ts < t

\* The n accepted requests, numbered in the order of the calls.
Numbered(reqs, n) ==
  {[ts |-> reqs[i].ts, seq |-> nextSeq + i - 1, event |-> reqs[i].event] : i \in 1..n}

\* Seeded error: refused requests use up sequence ids too.
HandleCountingRefused(h, t, q) ==
  \E n \in 0..Len(h.requests) :
    /\ Accepts(h.requests, n, t)
    /\ nextSeq + n <= MaxScheduled
    /\ queue' = q \cup Numbered(h.requests, n)
    /\ nextSeq' = nextSeq + Len(h.requests)
    /\ status' = IF n = Len(h.requests) /\ ~h.throws THEN "running" ELSE "handler_threw"

\* Handler call h runs at time t with q queued; an exception ends the run.
Handle(h, t, q) ==
  \E n \in 0..Len(h.requests) :
    /\ Accepts(h.requests, n, t)
    /\ nextSeq + n <= MaxScheduled
    /\ queue' = q \cup Numbered(h.requests, n)
    /\ nextSeq' = nextSeq + n
    /\ status' = IF n = Len(h.requests) /\ ~h.throws THEN "running" ELSE "handler_threw"

-----------------------------------------------------------------------------
Init ==
  /\ feed \in Feeds
  /\ next = 1
  /\ now = 0
  /\ queue = {}
  /\ nextSeq = 0
  /\ trace = << >>
  /\ status = "idle"

\* The owner of the loop schedules an event before it calls run().
ScheduleBeforeRun(req) ==
  /\ status = "idle"
  /\ req.ts >= now
  /\ nextSeq < MaxScheduled
  /\ queue' = queue \cup Numbered(<<req>>, 1)
  /\ nextSeq' = nextSeq + 1
  /\ UNCHANGED <<feed, next, now, trace, status>>

Run ==
  /\ status = "idle"
  /\ status' = "running"
  /\ UNCHANGED <<feed, next, now, queue, nextSeq, trace>>

DispatchMarket(h) ==
  /\ status = "running"
  /\ MarketFirst
  /\ feed[next].ts >= now
  /\ now' = feed[next].ts
  /\ trace' = Append(trace, MarketEntry(feed[next]))
  /\ next' = next + 1
  /\ Handle(h, feed[next].ts, queue)
  /\ UNCHANGED feed

DispatchInternal(h) ==
  /\ status = "running"
  /\ ~MarketFirst
  /\ \E e \in queue :
       /\ IsTop(e)
       /\ e.ts >= now
       /\ now' = e.ts
       /\ trace' = Append(trace, InternalEntry(e))
       /\ Handle(h, e.ts, queue \ {e})
  /\ UNCHANGED <<feed, next>>

\* Seeded error: the exception clears the scheduler.
ClockBackwardClears ==
  /\ status = "running"
  /\ \E u \in Upcoming : u.ts < now
  /\ queue' = {}
  /\ status' = "clock_backward"
  /\ UNCHANGED <<feed, next, now, nextSeq, trace>>

\* advance_to throws: a market event stays unread, a popped event is gone.
ClockBackward ==
  /\ status = "running"
  /\ \E u \in Upcoming :
       /\ u.ts < now
       /\ queue' = {e \in queue : InternalEntry(e) # u}
  /\ status' = "clock_backward"
  /\ UNCHANGED <<feed, next, now, nextSeq, trace>>

\* Seeded errors: the run ends with the feed; the run never ends.
ReturnAtFeedEnd ==
  /\ status = "running"
  /\ next > Len(feed)
  /\ status' = "returned"
  /\ UNCHANGED <<feed, next, now, queue, nextSeq, trace>>

KeepPolling ==
  /\ status = "running"
  /\ next > Len(feed)
  /\ queue = {}
  /\ UNCHANGED vars

Return ==
  /\ status = "running"
  /\ next > Len(feed)
  /\ queue = {}
  /\ status' = "returned"
  /\ UNCHANGED <<feed, next, now, queue, nextSeq, trace>>

\* The run is over, normally or by an exception; nothing else happens.
Ended ==
  /\ status \in {"returned", "clock_backward", "handler_threw"}
  /\ UNCHANGED vars

LoopStep ==
  \/ \E h \in Handlers : DispatchMarket(h)
  \/ \E h \in Handlers : DispatchInternal(h)
  \/ ClockBackward
  \/ Return

Next ==
  \/ \E h \in Handlers : \E i \in 1..Len(h.requests) : ScheduleBeforeRun(h.requests[i])
  \/ Run
  \/ LoopStep
  \/ Ended

\* run() is a plain while loop: once called, it keeps stepping.
Spec == Init /\ [][Next]_vars /\ WF_vars(LoopStep)

-----------------------------------------------------------------------------
TypeOK ==
  /\ feed \in Feeds
  /\ next \in 1..(Len(feed) + 1)
  /\ now \in Nat
  /\ queue \subseteq Scheduled
  /\ nextSeq \in 0..MaxScheduled
  /\ trace \in Seq(TraceEntries)
  /\ status \in Statuses

(* No scheduled event is ever overtaken by the clock, whatever the feed,   *)
(* so pop_next followed by advance_to cannot throw and lose the event.     *)
QueueNotInPast == \A e \in queue : e.ts >= now

(* A feed in source order never makes advance_to throw: internal events    *)
(* processed in between do not push the clock past the next market event.  *)
OrderedFeedNeverBackward == SourceOrdered(feed) => status # "clock_backward"

(* Every schedule call is accounted for exactly once, waiting or           *)
(* dispatched, even when an exception ends the run, and a run that returns *)
(* has processed everything:                                               *)
(* processed_event_count is the feed plus every event ever scheduled.      *)
ExactlyOnce ==
  LET done == {i \in 1..Len(trace) : trace[i].class = "internal"}
      seqs == {trace[i].seq : i \in done}
  IN  /\ \A i, j \in done : trace[i].seq = trace[j].seq => i = j
      /\ \A e \in queue : e.seq \notin seqs
      /\ seqs \cup {e.seq : e \in queue} = 0..(nextSeq - 1)
      /\ status = "returned" => Len(trace) = Len(feed) + nextSeq

(* An internal event at time T is dispatched after every market event at   *)
(* or before T and before every later one: its handler sees exactly the    *)
(* history up to T.                                                        *)
NoLookAhead ==
  SourceOrdered(feed) =>
    \A i \in 1..Len(trace) : trace[i].class = "internal" =>
      \A k \in 1..Len(feed) :
        feed[k].ts <= trace[i].ts <=> \E j \in 1..(i - 1) : trace[j] = MarketEntry(feed[k])

\* The abstract dispatcher, holding what the cursor and the heap hold.
Order == INSTANCE EventOrder WITH
  pending <- {MarketEntry(feed[k]) : k \in next..Len(feed)}
             \cup {InternalEntry(e) : e \in queue}

(* On a feed in source order the cursor and the heap together behave as    *)
(* the one totally ordered pending set the event-loop documentation        *)
(* describes: the run is one of the abstract dispatcher's.                 *)
OneTotalOrder ==
  /\ SourceOrdered(feed) => Order!Init
  /\ [][SourceOrdered(feed) => Order!Next]_(Order!vars)

(* Once run() is called it ends, by returning or by an exception, since    *)
(* handlers make finitely many requests.                                   *)
RunEnds == status = "running" ~> status \in {"returned", "clock_backward", "handler_threw"}

=============================================================================
