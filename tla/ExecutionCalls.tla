--------------------------- MODULE ExecutionCalls ---------------------------
(***************************************************************************)
(* LatencyExecution under an arbitrary caller: every public call, at any   *)
(* time, in any order, with any of the books.  What holds here holds for   *)
(* every program that drives the execution layer.                          *)
(***************************************************************************)
EXTENDS LatencyExecution

CONSTANTS
  Latencies,     \* latencies of submissions and cancels
  Times,         \* timestamps of calls
  BookStates     \* books an order may arrive against

ASSUME CallsAssumption ==
  /\ Latencies \subseteq Nat
  /\ Times \subseteq Nat

ASSUME BooksAssumption == \A book \in BookStates : BookFits(book)

ExecNext ==
  \/ \E intents \in IntentLists, latency \in Latencies, t \in Times : SubmitIntents(intents, latency, t)
  \/ \E id \in 1..MaxOrders, latency \in Latencies, t \in Times : RequestCancel(id, latency, t)
  \/ \E id \in 1..MaxOrders, t \in 0..MaxTimestamp, book \in BookStates : ProcessOrderArrival(id, t, book)
  \/ \E id \in 1..MaxOrders : ProcessCancelArrival(id)
  \/ \E trade \in Trades, t \in Times : ProcessTrade(trade, t)

ExecSpec == ExecInit /\ [][ExecNext]_execVars
-----------------------------------------------------------------------------
\* Of an order that goes on resting: its queue, and whether it is served.
QueueStep ==
  \A id \in DOMAIN resting \cap DOMAIN resting' :
    /\ resting'[id].ahead <= resting[id].ahead
    /\ orders'[id].filled > orders[id].filled => resting'[id].ahead = 0

\* Of any order a trade fills, those it fills for good included: it gets at
\* most what the queue ahead leaves of the trade.
VolumeStep ==
  \A id \in DOMAIN resting : orders'[id].filled > orders[id].filled =>
    \A trade \in Trades, t \in Times :
      \/ orders'[id].filled - orders[id].filled <= Left(trade.qty, Queue(id, trade))
      \/ ~ProcessTrade(trade, t)

(* A resting order is filled only once nothing is queued ahead of it, and  *)
(* only from what a trade has left then; what is queued ahead never grows. *)
QueueRespected == [][QueueStep /\ VolumeStep]_execVars
=============================================================================
