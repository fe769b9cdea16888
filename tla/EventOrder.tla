----------------------------- MODULE EventOrder -----------------------------
(***************************************************************************)
(* What the event loop promises, whatever its data structures: every event *)
(* it is given is dispatched in one total order -- timestamp, then market  *)
(* events before internal ones, then the sequence number of the source.    *)
(* The order is the one the code builds from EventKey, the scheduler's     *)
(* comparison and the market-first rule; here it is a single pending set.  *)
(* EventLoop, with its feed cursor and its heap, is shown to implement it. *)
(***************************************************************************)
EXTENDS Integers, Sequences

CONSTANT Events     \* payloads: what a dispatched event means to a handler

VARIABLES
  pending,          \* events known to the loop and not yet dispatched
  now,              \* simulation time
  trace             \* events dispatched, oldest first

vars == <<pending, now, trace>>

Classes == {"market", "internal"}

Entries == [class : Classes, ts : Nat, seq : Nat, event : Events]

\* The total order of dispatch.
Before(a, b) ==
  \/ a.ts < b.ts
  \/ a.ts = b.ts /\ a.class = "market" /\ b.class = "internal"
  \/ a.ts = b.ts /\ a.class = b.class /\ a.seq < b.seq

\* Nothing else pending comes before e.
IsLeast(e) == \A f \in pending \ {e} : Before(e, f)

\* n is numbered after every internal event seen so far.
Fresh(n) ==
  /\ \A f \in pending : f.class = "internal" => f.seq < n.seq
  /\ \A i \in 1..Len(trace) : trace[i].class = "internal" => trace[i].seq < n.seq

\* Only internal events may appear, and never in the past of time t.
Scheduled(n, t) == /\ n \in Entries
                   /\ n.class = "internal"
                   /\ n.ts >= t
                   /\ Fresh(n)

Init ==
  /\ pending \subseteq [class : {"market"}, ts : Nat, seq : Nat, event : Events]
  /\ \A a, b \in pending : a = b \/ Before(a, b) \/ Before(b, a)
  /\ now = 0
  /\ trace = << >>

Schedule ==
  /\ pending \subseteq pending'
  /\ \A n \in pending' \ pending : Scheduled(n, now)
  /\ UNCHANGED <<now, trace>>

Dispatch ==
  \E e \in pending :
    /\ IsLeast(e)
    /\ now' = e.ts
    /\ trace' = Append(trace, e)
    /\ pending \ {e} \subseteq pending'
    /\ e \notin pending'
    /\ \A n \in pending' \ pending : Scheduled(n, e.ts)

Next == Schedule \/ Dispatch

Spec == Init /\ [][Next]_vars

-----------------------------------------------------------------------------
(* The trace is strictly ordered: no event is dispatched after one that    *)
(* the order puts behind it, and none is dispatched twice.                 *)
TraceOrdered ==
  \A i, j \in 1..Len(trace) : i < j => Before(trace[i], trace[j])

(* No event still pending should already have been dispatched: a handler   *)
(* at time T has seen every event ordered before its own.                  *)
NoLateEvent ==
  \A i \in 1..Len(trace) : \A e \in pending : Before(trace[i], e)
=============================================================================
