--------------------------- MODULE OrderLifecycle ---------------------------
(***************************************************************************)
(* What a strategy may rely on about its orders, whatever the book, the    *)
(* queue model and the calls: src/order.cpp's transition diagram with the  *)
(* quantities that go with each status.  One step may carry an order       *)
(* through several transitions of the diagram, as one call does in the     *)
(* code.                                                                   *)
(***************************************************************************)
EXTENDS Integers

VARIABLE orders      \* by order id

Terminal == {"Filled", "Canceled", "Rejected"}

SameTerms(o, p) == /\ p.side = o.side /\ p.type = o.type /\ p.limit = o.limit
                   /\ p.qty = o.qty /\ p.arrival = o.arrival

Becomes(p, status, low, high) == p.status = status /\ p.filled \in low..high

\* From its arrival an order is filled in full, rests (limit orders only), or
\* ends: a market order's remainder is canceled, and without any depth rejected.
Arrives(o, p) ==
  /\ o.status = "Pending"
  /\ \/ Becomes(p, "Filled", o.qty, o.qty)
     \/ p.type = "limit" /\ Becomes(p, "Acknowledged", 0, 0)
     \/ p.type = "limit" /\ Becomes(p, "PartiallyFilled", 1, o.qty - 1)
     \/ p.type = "market" /\ Becomes(p, "Canceled", 1, o.qty - 1)
     \/ p.type = "market" /\ Becomes(p, "Rejected", 0, 0)

\* A resting order is filled further or canceled with what it has.
Progresses(o, p) ==
  /\ o.status \in {"Acknowledged", "PartiallyFilled"}
  /\ o.type = "limit"
  /\ \/ Becomes(p, "PartiallyFilled", o.filled + 1, o.qty - 1)
     \/ o.filled < o.qty /\ Becomes(p, "Filled", o.qty, o.qty)
     \/ Becomes(p, "Canceled", o.filled, o.filled)

Init == orders = << >>

Next ==
  /\ DOMAIN orders \subseteq DOMAIN orders'
  /\ \A id \in DOMAIN orders :
       LET o == orders[id]  p == orders'[id]
       IN  o = p \/ (SameTerms(o, p) /\ (Arrives(o, p) \/ Progresses(o, p)))
  /\ \A id \in DOMAIN orders' \ DOMAIN orders :
       orders'[id].status = "Pending" /\ orders'[id].filled = 0

Spec == Init /\ [][Next]_orders
=============================================================================
