-------------------------- MODULE MCExecutionCalls --------------------------
(***************************************************************************)
(* Small instances of ExecutionCalls.                                      *)
(***************************************************************************)
EXTENDS ExecutionCalls

CONSTANTS MCSides, MCTypes, MCQtys, MaxIntents

\* One malformed intent stands for all: they fail in the same constructor.
Malformed == [side |-> "buy", type |-> "limit", qty |-> 1, limit |-> NoLimit]

GoodIntents ==
  {i \in [side : MCSides, type : MCTypes, qty : MCQtys, limit : Prices \cup {NoLimit}] :
     i.limit = NoLimit <=> i.type = "market"}

MCIntentLists == BoundedSeq(GoodIntents \cup {Malformed}, MaxIntents) \ {<< >>}

\* Something to take on one side: two lots at price 2, or one at price 1 and up
\* to two behind or before it.  A fill of two lots at price 2 has a fee too
\* large, one at price 1 has not.
MCBooks ==
  {book \in Books(Prices, {1, 2}) :
     /\ \E side \in Sides : DOMAIN book[side] = {}
     /\ \A side \in Sides :
          \/ book[side] = [p \in {2} |-> 2]
          \/ 1 \in DOMAIN book[side] /\ book[side][1] = 1
          \/ DOMAIN book[side] = {}}

\* Books that make a difference to who waits behind what: some queue on the
\* buy side, and at most one lot to take on the sell side.
MCQueueBooks ==
  {book \in Books(Prices, {1, 2}) :
     /\ book["buy"] \in {<< >>, [p \in Prices |-> 2]}
     /\ book["sell"] \in {<< >>, [p \in {2} |-> 1]}}

\* No call depends on how the last one ended; where every fee fits, none
\* depends on the fills that were made.
CallsView == <<orders, nextOrder, executions, resting, fills, nextFill>>
QueueView == <<orders, nextOrder, executions, resting>>
=============================================================================
