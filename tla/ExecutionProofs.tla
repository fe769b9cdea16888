-------------------------- MODULE ExecutionProofs --------------------------
(***************************************************************************)
(* Theorems about the execution layer under any caller.  First what each   *)
(* call does, whoever the caller is: lemmas that the theorems about        *)
(* ExecutionCalls and those about ReplayEngine share.  Nothing in them     *)
(* depends on which intents, times or books a caller uses.                 *)
(***************************************************************************)
EXTENDS ExecutionCalls, DataLemmas

ExecInv == ExecTypeOK /\ RegistryHoldsActive /\ StatusMatchesQuantity

\* Nothing left is negative or more than there was.
LEMMA LeftBounds ==
  ASSUME NEW a \in Nat, NEW b
  PROVE  Left(a, b) \in 0..a
BY DEF Left

LEMMA LeastBounds ==
  ASSUME NEW a \in Nat, NEW b \in Nat
  PROVE  Least(a, b) \in 0..a /\ Least(a, b) \in 0..b
BY DEF Least

LEMMA OrderTyped ==
  ASSUME ExecTypeOK, NEW id \in DOMAIN orders
  PROVE  /\ orders[id] \in Orders
         /\ orders[id].side \in Sides /\ orders[id].type \in Types
         /\ orders[id].qty \in 1..MaxQty /\ orders[id].filled \in 0..MaxQty
         /\ orders[id].status \in Statuses
         /\ orders[id].limit \in Prices \cup {NoLimit}
         /\ orders[id].arrival \in 0..MaxTimestamp
         /\ MaxQty \in Nat /\ nextOrder \in Nat /\ id \in 1..(nextOrder - 1)
<1>1. orders[id] \in Orders
  BY DEF ExecTypeOK
<1> QED BY <1>1, BoundsAssumption DEF ExecTypeOK, Orders

\* A step that changes no state but the outcome keeps the invariant.
LEMMA NothingChanges ==
  ASSUME ExecInv, UNCHANGED <<orders, nextOrder, executions, resting, fills, nextFill>>,
         threw' \in BOOLEAN
  PROVE  ExecInv'
BY DEF ExecInv, ExecTypeOK, RegistryHoldsActive, StatusMatchesQuantity, Active

-----------------------------------------------------------------------------
\* Submissions.

\* An order as the Order constructor leaves it.
Fresh(o) ==
  /\ o \in Orders /\ o.status = "Pending" /\ o.filled = 0
  /\ o.type = "limit" => o.limit # NoLimit

\* The step adds fresh orders, under new ids, to the orders in `known'.
Extends(known) ==
  /\ nextOrder' \in nextOrder..(MaxOrders + 1)
  /\ DOMAIN known \subseteq DOMAIN orders'
  /\ \A id \in DOMAIN known : orders'[id] = known[id]
  /\ \A id \in DOMAIN orders' \ DOMAIN known :
       id \in nextOrder..(nextOrder' - 1) /\ Fresh(orders'[id])

\* Ids are given without gaps to the n intents accepted, which arrive after the
\* latency; the call throws for want of time or at a malformed intent.
Submitted(n, intents, latency, t, known) ==
  /\ DOMAIN orders' = DOMAIN orders \cup nextOrder..(nextOrder + n - 1)
  /\ nextOrder + n <= nextOrder' /\ nextOrder' \in 1..(MaxOrders + 1)
  /\ \A id \in DOMAIN orders : id < nextOrder /\ orders'[id] = known[id]
  /\ \A id \in nextOrder..(nextOrder + n - 1) :
       Fresh(orders'[id]) /\ orders'[id].arrival = t + latency
  /\ n > 0 => t + latency <= MaxTimestamp
  /\ threw' = (n < Len(intents))
  /\ threw' => \/ t + latency > MaxTimestamp
              \/ \E i \in DOMAIN intents : ~ValidIntent(intents[i])

LEMMA SubmitEffect ==
  ASSUME ExecTypeOK, NEW intents \in Seq(Intents), NEW latency \in Nat, NEW t \in Nat,
         NEW known, DOMAIN known = DOMAIN orders, Submit(intents, latency, t, known)
  PROVE  \E n \in 0..Len(intents) : Submitted(n, intents, latency, t, known)
<1> DEFINE timed == t + latency <= MaxTimestamp
           New(id) == NewOrder(intents[id - nextOrder + 1], t, latency)
<1>1. PICK n \in 0..Len(intents) :
        /\ \A i \in 1..n : timed /\ ValidIntent(intents[i])
        /\ n < Len(intents) => ~timed \/ ~ValidIntent(intents[n + 1])
        /\ nextOrder' = nextOrder + n + (IF n < Len(intents) /\ timed THEN 1 ELSE 0)
        /\ nextOrder' <= MaxOrders + 1
        /\ orders' = [id \in DOMAIN known \cup nextOrder..(nextOrder + n - 1) |->
                        IF id < nextOrder THEN known[id] ELSE New(id)]
        /\ threw' = (n < Len(intents))
  BY DEF Submit
<1>2. /\ n \in Nat /\ Len(intents) \in Nat /\ DOMAIN intents = 1..Len(intents)
      /\ nextOrder \in Nat /\ nextOrder >= 1 /\ MaxTimestamp \in Nat /\ MaxOrders \in Nat /\ MaxQty \in Nat
      /\ DOMAIN orders \subseteq 1..(nextOrder - 1)
  BY BoundsAssumption DEF ExecTypeOK
<1>3. DOMAIN orders' = DOMAIN orders \cup nextOrder..(nextOrder + n - 1)
  BY <1>1
<1>4. nextOrder + n <= nextOrder' /\ nextOrder' \in 1..(MaxOrders + 1)
  BY <1>1, <1>2
<1>5. \A id \in DOMAIN orders : id < nextOrder /\ orders'[id] = known[id]
  BY <1>1, <1>2
<1>6. ASSUME NEW id \in nextOrder..(nextOrder + n - 1)
      PROVE  Fresh(orders'[id]) /\ orders'[id].arrival = t + latency
  <2>1. id \in DOMAIN orders' /\ ~(id < nextOrder) /\ id - nextOrder + 1 \in 1..n
    BY <1>2, <1>3
  <2>2. PICK intent \in Intents : intent = intents[id - nextOrder + 1]
    BY <1>2, <2>1
  <2>3. timed /\ ValidIntent(intent)
    BY <1>1, <2>1, <2>2
  <2>4. orders'[id] = NewOrder(intent, t, latency)
    BY <1>1, <2>1, <2>2
  <2> QED BY <1>2, <2>2, <2>3, <2>4, SMTT(60) DEF Intents, ValidIntent, NewOrder, Orders, Statuses, Fresh
<1>7. n > 0 => timed
  BY <1>1, <1>2, SMTT(60)
<1>8. n < Len(intents) => n + 1 \in DOMAIN intents
  BY <1>2
<1> HIDE DEF New, timed
<1>9. threw' => ~timed \/ \E i \in DOMAIN intents : ~ValidIntent(intents[i])
  BY <1>1, <1>8
<1>10. n \in 0..Len(intents) /\ (~timed => t + latency > MaxTimestamp)
  BY <1>2 DEF timed
<1>11. threw' = (n < Len(intents))
  BY <1>1
<1>12. /\ n > 0 => t + latency <= MaxTimestamp
       /\ threw' => t + latency > MaxTimestamp \/ \E i \in DOMAIN intents : ~ValidIntent(intents[i])
  BY <1>7, <1>9, <1>10 DEF timed
<1>13. Submitted(n, intents, latency, t, known)
  BY <1>3, <1>4, <1>5, <1>6, <1>11, <1>12 DEF Submitted
<1> QED BY <1>10, <1>13

LEMMA SubmitExtends ==
  ASSUME ExecTypeOK, NEW intents \in Seq(Intents), NEW latency \in Nat, NEW t \in Nat,
         NEW known, DOMAIN known = DOMAIN orders, Submit(intents, latency, t, known)
  PROVE  Extends(known) /\ threw' \in BOOLEAN
<1>1. PICK n \in 0..Len(intents) : Submitted(n, intents, latency, t, known)
  BY SubmitEffect
<1>2. nextOrder \in Nat /\ MaxOrders \in Nat /\ n \in Nat
  BY BoundsAssumption DEF ExecTypeOK
<1>3. nextOrder' \in nextOrder..(MaxOrders + 1)
  BY <1>1, <1>2 DEF Submitted
<1>4. \A id \in DOMAIN orders' \ DOMAIN known : id \in nextOrder..(nextOrder' - 1) /\ Fresh(orders'[id])
  BY <1>1, <1>2 DEF Submitted
<1> QED BY <1>1, <1>3, <1>4 DEF Extends, Submitted

\* Fresh orders change neither the types nor what the registry has to hold.
LEMMA ExtendsDomain ==
  ASSUME ExecTypeOK, NEW known, DOMAIN known = DOMAIN orders, Extends(known)
  PROVE  /\ nextOrder' \in 1..(MaxOrders + 1) /\ DOMAIN orders' \subseteq 1..(nextOrder' - 1)
         /\ \A id \in DOMAIN orders' \ DOMAIN orders : ~Active(orders'[id]) /\ StatusFits(orders'[id])
<1>1. nextOrder \in 1..(MaxOrders + 1) /\ MaxOrders \in Nat /\ DOMAIN orders \subseteq 1..(nextOrder - 1)
  BY BoundsAssumption DEF ExecTypeOK
<1>2. nextOrder' \in 1..(MaxOrders + 1) /\ DOMAIN orders' \subseteq 1..(nextOrder' - 1)
  BY <1>1 DEF Extends
<1>3. \A id \in DOMAIN orders' \ DOMAIN orders : ~Active(orders'[id]) /\ StatusFits(orders'[id])
  BY DEF Extends, Fresh, Active, StatusFits
<1> QED BY <1>2, <1>3

LEMMA SubmitKeepsInv ==
  ASSUME ExecInv, Extends(orders), threw' \in BOOLEAN,
         UNCHANGED <<executions, resting, fills, nextFill>>
  PROVE  ExecInv'
<1> USE DEF ExecInv
<1>1. /\ nextOrder' \in 1..(MaxOrders + 1) /\ DOMAIN orders' \subseteq 1..(nextOrder' - 1)
      /\ \A id \in DOMAIN orders' \ DOMAIN orders : ~Active(orders'[id]) /\ StatusFits(orders'[id])
  BY ExtendsDomain
<1>2. /\ DOMAIN orders \subseteq DOMAIN orders'
      /\ \A id \in DOMAIN orders : orders'[id] = orders[id]
      /\ \A id \in DOMAIN orders' \ DOMAIN orders : orders'[id] \in Orders
  BY DEF Extends, Fresh
<1>3. ExecTypeOK'
  BY <1>1, <1>2 DEF ExecTypeOK
<1>4. RegistryHoldsActive'
  BY <1>1, <1>2 DEF RegistryHoldsActive, Active
<1>5. StatusMatchesQuantity'
  BY <1>1, <1>2 DEF StatusMatchesQuantity
<1> QED BY <1>3, <1>4, <1>5

LEMMA CancelKeepsInv ==
  ASSUME ExecInv, NEW id \in 1..MaxOrders, ProcessCancelArrival(id)
  PROVE  ExecInv'
<1>1. CASE Throws
  BY <1>1, NothingChanges DEF Throws
<1>2. CASE ~Throws
  <2>1. /\ id \in DOMAIN orders /\ Active(orders[id]) /\ id \in DOMAIN resting
        /\ orders' = [orders EXCEPT ![id].status = "Canceled"]
        /\ resting' = Restrict(resting, DOMAIN resting \ {id})
        /\ threw' = FALSE
        /\ UNCHANGED <<nextOrder, executions, fills, nextFill>>
    BY <1>2 DEF ProcessCancelArrival
  <2>2. /\ DOMAIN orders' = DOMAIN orders
        /\ orders'[id] = [orders[id] EXCEPT !.status = "Canceled"]
        /\ \A j \in DOMAIN orders : j # id => orders'[j] = orders[j]
    BY <2>1
  <2>3. /\ DOMAIN resting' = DOMAIN resting \ {id}
        /\ \A j \in DOMAIN resting' : resting'[j] = resting[j]
    BY <2>1 DEF Restrict
  <2>4. /\ orders[id] \in Orders /\ orders'[id] \in Orders
        /\ orders'[id].status = "Canceled" /\ orders'[id].filled = orders[id].filled
        /\ orders'[id].qty = orders[id].qty /\ orders'[id].type = orders[id].type
        /\ orders'[id].limit = orders[id].limit
    BY <2>1, <2>2, OrderTyped DEF ExecInv, Orders, Statuses
  <2>5. orders[id].filled < orders[id].qty
    BY <2>1, OrderTyped DEF ExecInv, StatusMatchesQuantity, StatusFits, Active
  <2>6. ExecTypeOK'
    <3>1. \A j \in DOMAIN orders' : orders'[j] \in Orders
      BY <2>2, <2>4 DEF ExecInv, ExecTypeOK
    <3>2. \A j \in DOMAIN resting' : resting'[j] \in Resting
      BY <2>3 DEF ExecInv, ExecTypeOK
    <3> QED BY <2>1, <2>2, <3>1, <3>2 DEF ExecInv, ExecTypeOK
  <2>7. RegistryHoldsActive'
    <3>1. \A j \in DOMAIN orders' : /\ Active(orders'[j]) => j \in DOMAIN resting'
                                    /\ j \in DOMAIN resting' => Active(orders'[j]) \/ orders'[j].status = "Filled"
      <4>1. ~Active(orders'[id])
        BY <2>4 DEF Active
      <4> QED BY <2>2, <2>3, <4>1 DEF ExecInv, RegistryHoldsActive
    <3>5. DOMAIN resting' \subseteq DOMAIN orders'
      BY <2>2, <2>3 DEF ExecInv, RegistryHoldsActive
    <3>2. \A j \in DOMAIN resting' : orders'[j] = orders[j] /\ resting'[j] = resting[j]
      BY <2>2, <2>3 DEF ExecInv, RegistryHoldsActive
    <3>3. /\ \A j \in DOMAIN resting : orders[j].type = "limit" /\ resting[j].rank < executions
          /\ \A i, j \in DOMAIN resting : resting[i].rank = resting[j].rank => i = j
      BY DEF ExecInv, RegistryHoldsActive
    <3>4. executions' = executions /\ DOMAIN resting' \subseteq DOMAIN resting
      BY <2>1, <2>3
    <3> QED BY <3>1, <3>2, <3>3, <3>4, <3>5 DEF RegistryHoldsActive
  <2>8. StatusMatchesQuantity'
    <3>1. StatusFits(orders'[id])
      BY <2>1, <2>4, <2>5 DEF ExecInv, StatusMatchesQuantity, StatusFits
    <3> QED BY <2>2, <3>1 DEF ExecInv, StatusMatchesQuantity
  <2> QED BY <2>6, <2>7, <2>8 DEF ExecInv
<1> QED BY <1>1, <1>2

\* An active order is not filled.
LEMMA ActiveOrders ==
  ASSUME ExecInv, NEW id \in DOMAIN orders, Active(orders[id])
  PROVE  Remaining(orders[id]) \in 1..MaxQty
BY OrderTyped DEF ExecInv, StatusMatchesQuantity, StatusFits, Active, Remaining

\* What a public trade is to the execution layer, whatever else an event holds.
TradeFits(trade) == trade.price \in Prices /\ trade.qty \in Nat

LEMMA TradesFit == \A trade \in Trades : TradeFits(trade)
BY BoundsAssumption DEF Trades, TradeFits

\* What a trade gives to the orders it reaches.
LEMMA FilledByTrade ==
  ASSUME ExecInv, NEW trade, TradeFits(trade), NEW id \in Reached(trade)
  PROVE  /\ id \in DOMAIN resting /\ id \in DOMAIN orders /\ Active(orders[id])
         /\ VolumeBefore(id, trade) \in Nat /\ Queue(id, trade) \in Nat
         /\ FilledBy(id, trade) \in 0..Remaining(orders[id])
<1>1. id \in DOMAIN resting /\ id \in DOMAIN orders /\ Active(orders[id])
  BY DEF Reached, ExecInv, RegistryHoldsActive
<1>2. VolumeBefore(id, trade) \in Nat
  <2>1. trade.qty \in Nat
    BY BoundsAssumption DEF TradeFits
  <2> QED BY <2>1, LeftBounds DEF VolumeBefore
<1>3. Queue(id, trade) \in Nat
  <2>1. resting[id] \in Resting
    BY <1>1 DEF ExecInv, ExecTypeOK
  <2>2. resting[id].ahead \in Nat
    BY <2>1 DEF Resting
  <2> QED BY <2>2 DEF Queue
<1>4. Left(VolumeBefore(id, trade), Queue(id, trade)) \in Nat
  BY <1>2, LeftBounds
<1>5. Remaining(orders[id]) \in Nat
  BY <1>1, ActiveOrders
<1>6. FilledBy(id, trade) \in 0..Remaining(orders[id])
  BY <1>4, <1>5, LeastBounds DEF FilledBy
<1> QED BY <1>1, <1>2, <1>3, <1>6

\* Orders are filled only among those a trade reaches, and whatever is filled
\* had the queue ahead of it consumed; the registry loses no active order.
LEMMA FilledAreConsumed ==
  ASSUME ExecInv, NEW trade, TradeFits(trade)
  PROVE  /\ \A id \in Filled(trade) : id \in Owed(trade) /\ id \in Consumed(trade)
         /\ \A id \in Consumed(trade) : id \in Met(trade)
         /\ \A id \in Met(trade) : id \in Reached(trade)
         /\ \A id \in Owed(trade) : id \in Met(trade) /\ FilledBy(id, trade) > 0
         /\ \A id \in Filled(trade) : id \in Reached(trade) /\ FilledBy(id, trade) > 0
<1>1. \A id \in Met(trade) : id \in Reached(trade) /\ id \in DOMAIN resting
  BY DEF Met, Reached
<1>2. \A id \in Owed(trade) : id \in Met(trade) /\ FilledBy(id, trade) > 0
  BY DEF Owed
<1>3. \A id \in Uncharged(trade) : id \in Owed(trade)
  BY DEF Uncharged
<1>4. \A id \in DOMAIN resting : resting[id].rank \in Nat
  BY DEF ExecInv, ExecTypeOK, Resting
<1>5. \A id \in Filled(trade) : id \in Owed(trade) /\ id \in Consumed(trade)
  BY <1>1, <1>2, <1>3, <1>4 DEF Filled, Consumed
<1>6. \A id \in Consumed(trade) : id \in Met(trade)
  BY DEF Consumed
<1> QED BY <1>1, <1>2, <1>5, <1>6

\* An order a trade fills: more is filled, within its quantity, and the status
\* says so.
LEMMA TradeFillsOrder ==
  ASSUME ExecInv, NEW trade, TradeFits(trade), NEW id \in Filled(trade)
  PROVE  /\ id \in DOMAIN resting /\ id \in DOMAIN orders /\ id \in Reached(trade)
         /\ Active(orders[id])
         /\ FilledBy(id, trade) \in 1..Remaining(orders[id]) /\ FilledBy(id, trade) \in 1..MaxQty
         /\ AfterTrade(id, trade) \in Orders /\ StatusFits(AfterTrade(id, trade))
         /\ AfterTrade(id, trade) =
              [orders[id] EXCEPT !.filled = orders[id].filled + FilledBy(id, trade),
                                 !.status = IF FilledBy(id, trade) = Remaining(orders[id])
                                            THEN "Filled" ELSE "PartiallyFilled"]
<1>1. id \in Reached(trade) /\ FilledBy(id, trade) > 0
  BY FilledAreConsumed
<1>2. id \in DOMAIN resting /\ id \in DOMAIN orders /\ Active(orders[id])
      /\ FilledBy(id, trade) \in 0..Remaining(orders[id])
  BY <1>1, FilledByTrade
<1>3. Remaining(orders[id]) \in 1..MaxQty
  BY <1>2, ActiveOrders
<1>4. FilledBy(id, trade) \in 1..Remaining(orders[id]) /\ FilledBy(id, trade) \in 1..MaxQty
  BY <1>1, <1>2, <1>3, BoundsAssumption
<1>5. orders[id] \in Orders /\ StatusFits(orders[id])
  BY <1>2 DEF ExecInv, ExecTypeOK, StatusMatchesQuantity
<1>6. orders[id].qty \in 1..MaxQty /\ orders[id].filled \in 0..MaxQty /\ MaxQty \in Nat
  BY <1>2, OrderTyped DEF ExecInv
<1> DEFINE filled == orders[id].filled + FilledBy(id, trade)
           status == IF filled = orders[id].qty THEN "Filled" ELSE "PartiallyFilled"
<1>7. filled \in 1..orders[id].qty
  BY <1>4, <1>6 DEF Remaining
<1>8. AfterTrade(id, trade) = [orders[id] EXCEPT !.filled = filled, !.status = status]
  BY DEF AfterTrade
<1>9. filled \in 0..MaxQty /\ status \in Statuses
  BY <1>6, <1>7 DEF Statuses
<1>10. filled = orders[id].qty <=> FilledBy(id, trade) = Remaining(orders[id])
  BY <1>4, <1>6 DEF Remaining
<1>11. LET p == AfterTrade(id, trade)
       IN  /\ p.filled = filled /\ p.status = status
           /\ p.qty = orders[id].qty /\ p.type = orders[id].type /\ p.limit = orders[id].limit
  BY <1>5, <1>8 DEF Orders
<1>12. AfterTrade(id, trade) \in Orders
  <2> HIDE DEF filled, status
  <2> QED BY <1>5, <1>8, <1>9 DEF Orders
<1>13. StatusFits(AfterTrade(id, trade))
  BY <1>5, <1>6, <1>7, <1>11 DEF StatusFits
<1> QED BY <1>1, <1>2, <1>4, <1>8, <1>10, <1>12, <1>13

\* All the orders after a trade, and the registry it leaves.
LEMMA TradeOrders ==
  ASSUME ExecInv, NEW trade, TradeFits(trade)
  PROVE  LET after == OrdersAfterTrade(trade)
         IN  /\ DOMAIN after = DOMAIN orders
             /\ \A id \in DOMAIN orders :
                  /\ id \notin Filled(trade) => after[id] = orders[id]
                  /\ id \in Filled(trade) => after[id] = AfterTrade(id, trade)
                  /\ after[id] \in Orders /\ StatusFits(after[id])
                  /\ after[id].type = orders[id].type
                  /\ Active(after[id]) => id \in DOMAIN resting
             /\ \A id \in DOMAIN resting : Active(after[id]) \/ after[id].status = "Filled"
             /\ Kept(trade) \subseteq DOMAIN resting
             /\ \A id \in DOMAIN resting : Active(after[id]) => id \in Kept(trade)
<1> DEFINE after == OrdersAfterTrade(trade)
<1>1. after = [id \in DOMAIN orders |-> IF id \in Filled(trade) THEN AfterTrade(id, trade) ELSE orders[id]]
  BY DEF OrdersAfterTrade
<1>2. Kept(trade) \subseteq DOMAIN resting /\ \A id \in DOMAIN resting : Active(after[id]) => id \in Kept(trade)
  BY DEF Kept
<1> HIDE DEF after
<1>3. \A id \in DOMAIN orders : orders[id] \in Orders /\ StatusFits(orders[id])
  BY DEF ExecInv, ExecTypeOK, StatusMatchesQuantity
<1>4. /\ DOMAIN resting \subseteq DOMAIN orders
      /\ \A id \in DOMAIN orders : Active(orders[id]) => id \in DOMAIN resting
      /\ \A id \in DOMAIN resting : Active(orders[id]) \/ orders[id].status = "Filled"
  BY DEF ExecInv, RegistryHoldsActive
<1>5. ASSUME NEW id \in Filled(trade)
      PROVE  /\ id \in DOMAIN resting /\ after[id] = AfterTrade(id, trade)
             /\ after[id] \in Orders /\ StatusFits(after[id])
             /\ after[id].type = orders[id].type
             /\ Active(after[id]) \/ after[id].status = "Filled"
  <2>1. /\ id \in DOMAIN resting /\ id \in DOMAIN orders
        /\ AfterTrade(id, trade) \in Orders /\ StatusFits(AfterTrade(id, trade))
        /\ AfterTrade(id, trade) =
              [orders[id] EXCEPT !.filled = orders[id].filled + FilledBy(id, trade),
                                 !.status = IF FilledBy(id, trade) = Remaining(orders[id])
                                            THEN "Filled" ELSE "PartiallyFilled"]
    BY TradeFillsOrder
  <2>2. after[id] = AfterTrade(id, trade)
    BY <1>1, <2>1
  <2>3. after[id].type = orders[id].type /\ after[id].status \in {"Filled", "PartiallyFilled"}
    BY <1>3, <2>1, <2>2 DEF Orders
  <2> QED BY <2>1, <2>2, <2>3 DEF Active
<1>6. DOMAIN after = DOMAIN orders
  BY <1>1
<1>7. \A id \in DOMAIN orders : id \notin Filled(trade) => after[id] = orders[id]
  BY <1>1
<1>8. \A id \in DOMAIN orders :
        /\ id \in Filled(trade) => after[id] = AfterTrade(id, trade)
        /\ after[id] \in Orders /\ StatusFits(after[id]) /\ after[id].type = orders[id].type
        /\ Active(after[id]) => id \in DOMAIN resting
  BY <1>3, <1>4, <1>5, <1>7
<1>9. \A id \in DOMAIN resting : Active(after[id]) \/ after[id].status = "Filled"
  BY <1>4, <1>5, <1>7
<1> QED BY <1>2, <1>6, <1>7, <1>8, <1>9 DEF after

LEMMA FilledFinite ==
  ASSUME ExecInv, NEW trade, TradeFits(trade)
  PROVE  IsFiniteSet(Filled(trade)) /\ Cardinality(Filled(trade)) \in Nat
<1>1. Filled(trade) \subseteq 1..(nextOrder - 1) /\ nextOrder \in Nat
  <2>1. \A id \in Filled(trade) : id \in DOMAIN orders
    BY TradeFillsOrder
  <2> QED BY <2>1, BoundsAssumption DEF ExecInv, ExecTypeOK
<1>2. IsFiniteSet(1..(nextOrder - 1))
  BY <1>1, FS_Interval
<1> QED BY <1>1, <1>2, FS_Subset, FS_CardinalityType

\* A fill of a trade is for one of the orders filled, by what that order gets,
\* under an id that is new.
LEMMA TradeFillIds ==
  ASSUME ExecInv, NEW trade, TradeFits(trade), NEW t, NEW id \in Filled(trade)
  PROVE  LET turn == Cardinality({j \in Filled(trade) : resting[j].rank < resting[id].rank})
         IN  turn \in Nat /\ turn < Cardinality(Filled(trade))
<1> DEFINE Earlier == {j \in Filled(trade) : resting[j].rank < resting[id].rank}
<1>1. resting[id].rank \in Nat
  BY TradeFillsOrder DEF ExecInv, ExecTypeOK, Resting
<1>2. id \notin Earlier /\ Earlier \in SUBSET Filled(trade)
  BY <1>1
<1> HIDE DEF Earlier
<1>3. Cardinality(Earlier) \in Nat /\ Cardinality(Earlier) < Cardinality(Filled(trade))
  BY <1>2, FilledFinite, FewerAhead
<1> QED BY <1>3 DEF Earlier

LEMMA TradeFillTyped ==
  ASSUME ExecInv, NEW trade, TradeFits(trade), NEW t, NEW f \in TradeFills(trade, t)
  PROVE  /\ f.order \in Filled(trade) /\ f.order \in DOMAIN orders
         /\ f.qty = FilledBy(f.order, trade) /\ f.qty \in 1..MaxQty
         /\ f.price = orders[f.order].limit /\ f.ts = t
         /\ f.seq \in nextFill..(nextFill + Cardinality(Filled(trade)) - 1)
<1> DEFINE turn(id) == Cardinality({j \in Filled(trade) : resting[j].rank < resting[id].rank})
<1>1. PICK id \in Filled(trade) :
        f = Fill(id, orders[id].limit, FilledBy(id, trade), t, nextFill + turn(id))
  BY DEF TradeFills
<1>2. /\ f.order = id /\ f.qty = FilledBy(id, trade) /\ f.seq = nextFill + turn(id)
      /\ f.price = orders[id].limit /\ f.ts = t
  BY <1>1 DEF Fill
<1>3. FilledBy(id, trade) \in 1..MaxQty /\ id \in DOMAIN orders
  BY TradeFillsOrder
<1>4. turn(id) \in Nat /\ turn(id) < Cardinality(Filled(trade))
  BY TradeFillIds
<1> HIDE DEF turn
<1>5. nextFill \in Nat /\ Cardinality(Filled(trade)) \in Nat
  BY FilledFinite DEF ExecInv, ExecTypeOK
<1>6. f.seq \in nextFill..(nextFill + Cardinality(Filled(trade)) - 1)
  BY <1>2, <1>4, <1>5
<1> QED BY <1>2, <1>3, <1>6

\* The queue entries a trade leaves.
LEMMA TradeQueues ==
  ASSUME ExecInv, NEW trade, TradeFits(trade), NEW t, TradeEffects(trade, t)
  PROVE  /\ DOMAIN resting' = Kept(trade)
         /\ \A id \in DOMAIN resting' :
              /\ resting'[id] \in Resting /\ resting'[id].rank = resting[id].rank
              /\ id \in Consumed(trade) =>
                   resting'[id].ahead = Left(Queue(id, trade), VolumeBefore(id, trade))
              /\ id \notin Consumed(trade) => resting'[id] = resting[id]
<1>1. resting' = [id \in Kept(trade) |->
                    IF id \in Consumed(trade)
                    THEN [resting[id] EXCEPT
                            !.ahead = Left(Queue(id, trade), VolumeBefore(id, trade))]
                    ELSE resting[id]]
  BY DEF TradeEffects
<1>2. \A id \in Consumed(trade) : id \in Reached(trade)
  BY FilledAreConsumed
<1>3. DOMAIN resting' = Kept(trade) /\ Kept(trade) \subseteq DOMAIN resting
  BY <1>1 DEF Kept
<1> SUFFICES ASSUME NEW id \in DOMAIN resting'
             PROVE  /\ resting'[id] \in Resting /\ resting'[id].rank = resting[id].rank
                    /\ id \in Consumed(trade) =>
                         resting'[id].ahead = Left(Queue(id, trade), VolumeBefore(id, trade))
                    /\ id \notin Consumed(trade) => resting'[id] = resting[id]
  BY <1>3
<1>4. resting[id] \in Resting
  BY <1>3 DEF ExecInv, ExecTypeOK
<1>5. CASE id \in Consumed(trade)
  <2>1. Queue(id, trade) \in Nat
    BY <1>2, <1>5, FilledByTrade
  <2>2. Left(Queue(id, trade), VolumeBefore(id, trade)) \in Nat
    BY <2>1, LeftBounds
  <2>3. resting'[id] = [resting[id] EXCEPT
                          !.ahead = Left(Queue(id, trade), VolumeBefore(id, trade))]
    BY <1>1, <1>3, <1>5
  <2> QED BY <1>4, <1>5, <2>2, <2>3 DEF Resting
<1>6. CASE id \notin Consumed(trade)
  BY <1>1, <1>3, <1>4, <1>6
<1> QED BY <1>5, <1>6

\* A trade, and what a strategy that hears of it submits in the same call.
LEMMA TradeKeepsInv ==
  ASSUME ExecInv, NEW trade, TradeFits(trade), NEW t, TradeEffects(trade, t),
         executions' = executions, threw' \in BOOLEAN, Extends(OrdersAfterTrade(trade))
  PROVE  ExecInv'
<1> DEFINE after == OrdersAfterTrade(trade)
<1>1. /\ DOMAIN after = DOMAIN orders
      /\ \A id \in DOMAIN orders :
           /\ after[id] \in Orders /\ StatusFits(after[id])
           /\ after[id].type = orders[id].type
           /\ Active(after[id]) => id \in DOMAIN resting
      /\ \A id \in DOMAIN resting : Active(after[id]) \/ after[id].status = "Filled"
      /\ \A id \in DOMAIN resting : Active(after[id]) => id \in Kept(trade)
      /\ Kept(trade) \subseteq DOMAIN resting
  BY TradeOrders
<1> HIDE DEF after
<1>2. Extends(after)
  BY DEF after
<1>3. /\ nextOrder' \in 1..(MaxOrders + 1) /\ DOMAIN orders' \subseteq 1..(nextOrder' - 1)
      /\ \A id \in DOMAIN orders' \ DOMAIN orders : ~Active(orders'[id]) /\ StatusFits(orders'[id])
  BY <1>1, <1>2, ExtendsDomain DEF ExecInv
<1>4. /\ DOMAIN orders \subseteq DOMAIN orders'
      /\ \A id \in DOMAIN orders : orders'[id] = after[id]
      /\ \A id \in DOMAIN orders' \ DOMAIN orders : orders'[id] \in Orders
  BY <1>1, <1>2 DEF Extends, Fresh
<1>5. /\ DOMAIN resting' = Kept(trade)
      /\ \A id \in DOMAIN resting' : resting'[id] \in Resting /\ resting'[id].rank = resting[id].rank
  BY TradeQueues
<1>6. fills' = fills \cup TradeFills(trade, t) /\ nextFill' = nextFill + Cardinality(Filled(trade))
  BY DEF TradeEffects
<1>7. ExecTypeOK'
  <2>1. \A id \in DOMAIN orders' : orders'[id] \in Orders
    BY <1>1, <1>4
  <2>2. nextFill \in Nat /\ nextFill >= 1 /\ nextFill' \in Nat /\ nextFill' >= nextFill
        /\ Cardinality(Filled(trade)) \in Nat
    BY <1>6, FilledFinite DEF ExecInv, ExecTypeOK
  <2>3. ASSUME NEW f \in TradeFills(trade, t)
        PROVE  f.order \in DOMAIN orders' /\ f.qty \in 1..MaxQty /\ f.seq \in 1..(nextFill' - 1)
    <3>1. /\ f.order \in DOMAIN orders /\ f.qty \in 1..MaxQty
          /\ f.seq \in nextFill..(nextFill + Cardinality(Filled(trade)) - 1)
      BY TradeFillTyped
    <3> QED BY <1>4, <1>6, <2>2, <3>1
  <2>4. ASSUME NEW f \in fills
        PROVE  f.order \in DOMAIN orders' /\ f.qty \in 1..MaxQty /\ f.seq \in 1..(nextFill' - 1)
    <3>1. f.order \in DOMAIN orders /\ f.qty \in 1..MaxQty /\ f.seq \in 1..(nextFill - 1)
      BY DEF ExecInv, ExecTypeOK
    <3> QED BY <1>4, <2>2, <3>1
  <2>5. \A f \in fills' : f.order \in DOMAIN orders' /\ f.qty \in 1..MaxQty /\ f.seq \in 1..(nextFill' - 1)
    BY <1>6, <2>3, <2>4
  <2>6. executions' \in Nat /\ nextFill' \in Nat \ {0}
    BY <2>2 DEF ExecInv, ExecTypeOK
  <2> QED BY <1>3, <1>5, <2>1, <2>5, <2>6 DEF ExecTypeOK
<1>8. RegistryHoldsActive'
  <2>1. DOMAIN resting \subseteq DOMAIN orders
    BY DEF ExecInv, RegistryHoldsActive
  <2>2. /\ {j \in DOMAIN orders' : Active(orders'[j])} \subseteq DOMAIN resting'
        /\ DOMAIN resting' \subseteq {j \in DOMAIN orders' : Active(orders'[j]) \/ orders'[j].status = "Filled"}
    BY <1>1, <1>3, <1>4, <1>5, <2>1
  <2>3. \A j \in DOMAIN resting' : orders'[j].type = orders[j].type /\ j \in DOMAIN resting
    BY <1>1, <1>4, <1>5, <2>1
  <2>4. /\ \A j \in DOMAIN resting : orders[j].type = "limit" /\ resting[j].rank < executions
        /\ \A i, j \in DOMAIN resting : resting[i].rank = resting[j].rank => i = j
    BY DEF ExecInv, RegistryHoldsActive
  <2>5. /\ \A j \in DOMAIN resting' : orders'[j].type = "limit" /\ resting'[j].rank < executions'
        /\ \A i, j \in DOMAIN resting' : resting'[i].rank = resting'[j].rank => i = j
    BY <1>5, <2>3, <2>4
  <2> QED BY <2>2, <2>5 DEF RegistryHoldsActive
<1>9. StatusMatchesQuantity'
  BY <1>1, <1>3, <1>4 DEF StatusMatchesQuantity
<1> QED BY <1>7, <1>8, <1>9 DEF ExecInv

LEMMA ProcessTradeExtends ==
  ASSUME ExecInv, NEW trade, TradeFits(trade), NEW t, ProcessTrade(trade, t)
  PROVE  /\ TradeEffects(trade, t) /\ executions' = executions /\ threw' \in BOOLEAN
         /\ Extends(OrdersAfterTrade(trade))
<1>1. /\ TradeEffects(trade, t) /\ executions' = executions /\ threw' \in BOOLEAN
      /\ nextOrder' = nextOrder /\ orders' = OrdersAfterTrade(trade)
  BY DEF ProcessTrade, FeeThrows
<1>2. nextOrder \in nextOrder..(MaxOrders + 1)
  BY BoundsAssumption DEF ExecInv, ExecTypeOK
<1> QED BY <1>1, <1>2 DEF Extends

\* What an arriving order takes from one level, and from all of them.
LEMMA TakenBounds ==
  ASSUME NEW o, o.qty \in Nat, NEW book, BookFits(book), Opposite(o.side) \in Sides,
         NEW p \in Reachable(o, book)
  PROVE  TakenAt(o, book, p) \in 0..o.qty
<1>1. book[Opposite(o.side)][p] \in Nat
  BY DEF Reachable, BookFits
<1>2. Left(o.qty, DepthAhead(o, book, p)) \in 0..o.qty
  BY LeftBounds
<1> DEFINE a == book[Opposite(o.side)][p]
           b == Left(o.qty, DepthAhead(o, book, p))
<1>3. TakenAt(o, book, p) = Least(a, b)
  BY DEF TakenAt
<1>4. a \in Nat /\ b \in 0..o.qty
  BY <1>1, <1>2
<1> HIDE DEF a, b
<1>5. b \in Nat
  BY <1>4
<1>6. Least(a, b) \in 0..b
  BY <1>4, <1>5, LeastBounds
<1> QED BY <1>3, <1>4, <1>5, <1>6

LEMMA SweepBounds ==
  ASSUME NEW o, o.qty \in Nat, NEW book
  PROVE  SweepFilled(o, book) \in 0..o.qty
<1>1. Left(o.qty, SumFunctionOnSet(book[Opposite(o.side)], Reachable(o, book))) \in 0..o.qty
  BY LeftBounds
<1> QED BY <1>1 DEF SweepFilled

\* The order once its arrival is processed.
Arrived(o, book) ==
  [o EXCEPT !.filled = SweepFilled(o, book),
            !.status = StatusOnArrival(o, book, SweepFilled(o, book))]

\* An order arrives with the quantity and the status of its sweep.
LEMMA ArrivedOrder ==
  ASSUME ExecInv, NEW id \in DOMAIN orders, orders[id].status = "Pending",
         NEW book, BookFits(book)
  PROVE  LET p == Arrived(orders[id], book)
         IN  /\ p \in Orders /\ StatusFits(p) /\ p.type = orders[id].type
             /\ Active(p) <=> p.type = "limit" /\ SweepFilled(orders[id], book) < orders[id].qty
<1> DEFINE o == orders[id]
           p == Arrived(o, book)
           filled == SweepFilled(o, book)
           status == StatusOnArrival(o, book, filled)
<1>1. /\ o \in Orders /\ StatusFits(o) /\ o.side \in Sides
      /\ o.qty \in 1..MaxQty /\ MaxQty \in Nat /\ o.type \in Types
  BY OrderTyped DEF ExecInv, StatusMatchesQuantity
<1>2. filled \in 0..o.qty
  BY <1>1, SweepBounds
<1>3. DOMAIN book[Opposite(o.side)] = {} => filled = 0
  BY DEF SweepFilled, Reachable
<1>4. \/ filled = o.qty /\ status = "Filled"
      \/ filled < o.qty /\ o.type = "limit" /\ filled = 0 /\ status = "Acknowledged"
      \/ filled < o.qty /\ o.type = "limit" /\ filled > 0 /\ status = "PartiallyFilled"
      \/ filled < o.qty /\ o.type = "market" /\ filled = 0 /\ status = "Rejected"
      \/ filled < o.qty /\ o.type = "market" /\ status = "Canceled"
  <2> HIDE DEF filled
  <2>1. CASE filled = o.qty
    BY <1>1, <2>1 DEF StatusOnArrival
  <2>2. CASE filled < o.qty /\ o.type = "limit"
    BY <1>1, <1>2, <2>2 DEF StatusOnArrival
  <2>3. CASE filled < o.qty /\ o.type = "market"
    BY <1>1, <1>2, <1>3, <2>3 DEF StatusOnArrival
  <2> QED BY <1>1, <1>2, <2>1, <2>2, <2>3 DEF Types
<1> HIDE DEF filled, status
<1>5. p = [o EXCEPT !.filled = filled, !.status = status]
  BY DEF filled, status, Arrived
<1> HIDE DEF p
<1>6. status \in Statuses /\ filled \in 0..MaxQty
  BY <1>1, <1>2, <1>4 DEF Statuses
<1>7. p \in Orders
  BY <1>1, <1>5, <1>6 DEF Orders
<1>8. /\ p.filled = filled /\ p.status = status /\ p.qty = o.qty
      /\ p.type = o.type /\ p.limit = o.limit
  BY <1>1, <1>5 DEF Orders
<1>9. StatusFits(p)
  BY <1>1, <1>2, <1>4, <1>8 DEF StatusFits
<1>10. Active(p) <=> p.type = "limit" /\ filled < o.qty
  BY <1>1, <1>4, <1>8 DEF Active
<1> QED BY <1>7, <1>8, <1>9, <1>10 DEF filled, p

\* The queue joined is a share of what is visible at the limit.
LEMMA QueueJoined ==
  ASSUME NEW o, o.side \in Sides, NEW book, BookFits(book)
  PROVE  QueueOnArrival(o, book) \in Nat
<1>1. \A p : QuantityAt(book, o.side, p) \in Nat
  <2>1. \A p \in DOMAIN book[o.side] : book[o.side][p] \in Nat
    BY DEF BookFits
  <2> QED BY <2>1 DEF QuantityAt
<1>2. QueueFractionPpm \in Nat
  <2>1. Ppm \in Nat
    BY SMT DEF Ppm
  <2>2. QueueFractionPpm \in 0..Ppm
    BY FractionsAssumption
  <2> QED BY <2>1, <2>2
<1>3. \A n \in Nat : HalfUp(n) \in Nat
  BY SMT DEF HalfUp, Ppm
<1>4. \A v \in Nat : v * QueueFractionPpm \in Nat
  BY <1>2
<1>5. InitialQueueAhead(QuantityAt(book, o.side, o.limit)) \in Nat
  BY <1>1, <1>3, <1>4 DEF InitialQueueAhead
<1> QED BY <1>5 DEF QueueOnArrival

\* The levels swept, and those charged among them, are finitely many.
LEMMA SweptFinite ==
  ASSUME NEW o, Opposite(o.side) \in Sides, NEW book, BookFits(book), NEW S \in SUBSET Swept(o, book)
  PROVE  IsFiniteSet(S) /\ Cardinality(S) \in Nat
<1>1. IsFiniteSet(DOMAIN book[Opposite(o.side)])
  BY DEF BookFits
<1>2. S \subseteq DOMAIN book[Opposite(o.side)]
  BY DEF Swept, Reachable
<1> QED BY <1>1, <1>2, FS_Subset, FS_CardinalityType

\* An arrival whose fee overflows only uses up fill ids.
OnlyIdsUsed(id, book) ==
  /\ id \in DOMAIN orders
  /\ nextFill' = nextFill + Cardinality(Charged(orders[id], book))
  /\ threw' = TRUE
  /\ UNCHANGED <<orders, nextOrder, executions, resting, fills>>

LEMMA UnchargedArrival ==
  ASSUME ExecInv, NEW id \in 1..MaxOrders, NEW book, BookFits(book), OnlyIdsUsed(id, book)
  PROVE  ExecInv'
<1>1. Opposite(orders[id].side) \in Sides
  BY OrderTyped DEF ExecInv, OnlyIdsUsed, Opposite, Sides
<1>2. Charged(orders[id], book) \in SUBSET Swept(orders[id], book)
  BY DEF Charged
<1>3. Cardinality(Charged(orders[id], book)) \in Nat
  BY <1>1, <1>2, SweptFinite
<1>4. nextFill \in Nat \ {0} /\ nextFill' \in Nat \ {0} /\ nextFill' >= nextFill
  BY <1>3 DEF OnlyIdsUsed, ExecInv, ExecTypeOK
<1>5. \A f \in fills' : f.order \in DOMAIN orders' /\ f.qty \in 1..MaxQty /\ f.seq \in 1..(nextFill' - 1)
  BY <1>4 DEF OnlyIdsUsed, ExecInv, ExecTypeOK
<1>6. ExecTypeOK'
  BY <1>4, <1>5 DEF OnlyIdsUsed, ExecInv, ExecTypeOK
<1>7. RegistryHoldsActive' /\ StatusMatchesQuantity'
  BY DEF OnlyIdsUsed, ExecInv, RegistryHoldsActive, StatusMatchesQuantity, Active
<1> QED BY <1>6, <1>7 DEF ExecInv

LEMMA ArrivalKeepsInv ==
  ASSUME ExecInv, NEW id \in 1..MaxOrders, NEW t \in 0..MaxTimestamp, NEW book, BookFits(book),
         ProcessOrderArrival(id, t, book)
  PROVE  ExecInv'
<1>1. CASE Throws
  BY <1>1, NothingChanges DEF Throws
<1>3. CASE OnlyIdsUsed(id, book)
  BY <1>3, UnchargedArrival
<1>2. CASE ~Throws /\ ~OnlyIdsUsed(id, book)
  <2> DEFINE o == orders[id]
             filled == SweepFilled(o, book)
             rests == o.type = "limit" /\ filled < o.qty
  <2>1. /\ id \in DOMAIN orders /\ o.status = "Pending"
        /\ orders' = [orders EXCEPT ![id].filled = filled,
                                     ![id].status = StatusOnArrival(o, book, filled)]
        /\ fills' = fills \cup SweepFills(id, book)
        /\ nextFill' = nextFill + Cardinality(Swept(o, book))
        /\ resting' = IF rests
                      THEN [j \in DOMAIN resting \cup {id} |->
                              IF j = id THEN [ahead |-> QueueOnArrival(o, book), rank |-> executions]
                                        ELSE resting[j]]
                      ELSE resting
        /\ executions' = executions + 1 /\ threw' = FALSE /\ nextOrder' = nextOrder
    BY <1>2 DEF ProcessOrderArrival, ArrivalAccepted, OnlyIdsUsed
  <2>2. /\ DOMAIN orders' = DOMAIN orders
        /\ orders'[id] = [o EXCEPT !.filled = filled, !.status = StatusOnArrival(o, book, filled)]
        /\ \A j \in DOMAIN orders : j # id => orders'[j] = orders[j]
    BY <2>1
  <2>3. /\ orders'[id] \in Orders /\ StatusFits(orders'[id]) /\ orders'[id].type = o.type
        /\ Active(orders'[id]) <=> rests
    <3>1. orders'[id] = Arrived(o, book)
      BY <2>2 DEF Arrived
    <3> DEFINE p == Arrived(o, book)
    <3>2. /\ p \in Orders /\ StatusFits(p) /\ p.type = o.type
          /\ Active(p) <=> p.type = "limit" /\ filled < o.qty
      BY <2>1, ArrivedOrder
    <3> HIDE DEF p
    <3>3. orders'[id] = p
      BY <3>1 DEF p
    <3> QED BY <3>2, <3>3
  <2>4. /\ o.qty \in 1..MaxQty /\ MaxQty \in Nat /\ o.side \in Sides
        /\ Opposite(o.side) \in Sides
    BY <2>1, OrderTyped DEF ExecInv, Opposite, Sides
  <2>5. /\ DOMAIN resting \subseteq DOMAIN orders /\ id \notin DOMAIN resting
        /\ \A j \in DOMAIN orders : Active(orders[j]) => j \in DOMAIN resting
        /\ \A j \in DOMAIN resting : Active(orders[j]) \/ orders[j].status = "Filled"
    BY <2>1 DEF ExecInv, RegistryHoldsActive, Active
  <2>6. executions \in Nat /\ executions' \in Nat /\ executions' > executions
    BY <2>1 DEF ExecInv, ExecTypeOK
  <2>7. /\ DOMAIN resting' = IF rests THEN DOMAIN resting \cup {id} ELSE DOMAIN resting
        /\ \A j \in DOMAIN resting : resting'[j] = resting[j]
        /\ rests => resting'[id] = [ahead |-> QueueOnArrival(o, book), rank |-> executions]
    <3> HIDE DEF rests
    <3>1. CASE rests
      BY <2>1, <2>5, <3>1
    <3>2. CASE ~rests
      BY <2>1, <3>2
    <3> QED BY <3>1, <3>2
  <2>8. QueueOnArrival(o, book) \in Nat
    BY <2>4, QueueJoined
  <2> HIDE DEF rests, filled
  <2>9. ExecTypeOK'
    <3>1. \A j \in DOMAIN orders' : orders'[j] \in Orders
      BY <2>2, <2>3 DEF ExecInv, ExecTypeOK
    <3>2. \A j \in DOMAIN resting' : resting'[j] \in Resting
      <4>1. \A j \in DOMAIN resting : resting'[j] \in Resting
        BY <2>7 DEF ExecInv, ExecTypeOK
      <4>2. rests => resting'[id] \in Resting
        BY <2>6, <2>7, <2>8 DEF Resting
      <4> QED BY <2>7, <4>1, <4>2
    <3>3. /\ IsFiniteSet(Swept(o, book)) /\ Cardinality(Swept(o, book)) \in Nat
          /\ Swept(o, book) \subseteq Reachable(o, book)
      <4>1. Swept(o, book) \subseteq Reachable(o, book)
        BY DEF Swept
      <4> QED BY <2>4, <4>1, SweptFinite
    <3>4. nextFill \in Nat /\ nextFill >= 1 /\ nextFill' \in Nat /\ nextFill' >= nextFill
      BY <2>1, <3>3 DEF ExecInv, ExecTypeOK
    <3>5. ASSUME NEW f \in SweepFills(id, book)
          PROVE  f.order \in DOMAIN orders' /\ f.qty \in 1..MaxQty /\ f.seq \in 1..(nextFill' - 1)
      <4> DEFINE Earlier(p) == {q \in Swept(o, book) : Better(Opposite(o.side), q, p)}
      <4>1. PICK p \in Swept(o, book) :
              f = Fill(id, p, TakenAt(o, book, p), o.arrival, nextFill + Cardinality(Earlier(p)))
        BY DEF SweepFills
      <4>2. f.order = id /\ f.qty = TakenAt(o, book, p) /\ f.seq = nextFill + Cardinality(Earlier(p))
        BY <4>1 DEF Fill
      <4>3. TakenAt(o, book, p) \in 1..MaxQty
        <5>1. p \in Reachable(o, book) /\ TakenAt(o, book, p) > 0
          BY DEF Swept
        <5>2. TakenAt(o, book, p) \in 0..o.qty
          BY <2>4, <5>1, TakenBounds
        <5> QED BY <2>4, <5>1, <5>2
      <4>4. p \notin Earlier(p) /\ Earlier(p) \in SUBSET Swept(o, book)
        <5>1. p \in Nat
          BY <2>4, <3>3, PricesAssumption DEF Reachable, BookFits
        <5> QED BY <5>1 DEF Better
      <4> HIDE DEF Earlier
      <4>5. Cardinality(Earlier(p)) \in Nat /\ Cardinality(Earlier(p)) < Cardinality(Swept(o, book))
        BY <3>3, <4>4, FewerAhead
      <4>6. f.seq \in 1..(nextFill' - 1)
        BY <2>1, <3>3, <3>4, <4>2, <4>5
      <4> QED BY <2>1, <2>2, <4>2, <4>3, <4>6
    <3>6. ASSUME NEW f \in fills
          PROVE  f.order \in DOMAIN orders' /\ f.qty \in 1..MaxQty /\ f.seq \in 1..(nextFill' - 1)
      BY <2>2, <3>4 DEF ExecInv, ExecTypeOK
    <3>7. \A f \in fills' : f.order \in DOMAIN orders' /\ f.qty \in 1..MaxQty /\ f.seq \in 1..(nextFill' - 1)
      BY <2>1, <3>5, <3>6
    <3>8. /\ nextOrder' \in 1..(MaxOrders + 1) /\ DOMAIN orders' \subseteq 1..(nextOrder' - 1)
          /\ executions' \in Nat /\ threw' \in BOOLEAN /\ nextFill' \in Nat \ {0}
      <4>1. nextOrder \in 1..(MaxOrders + 1) /\ DOMAIN orders \subseteq 1..(nextOrder - 1)
        BY DEF ExecInv, ExecTypeOK
      <4>2. nextFill' \in Nat \ {0}
        BY <3>4
      <4> QED BY <2>1, <2>2, <2>6, <4>1, <4>2
    <3> QED BY <3>1, <3>2, <3>7, <3>8 DEF ExecTypeOK
  <2>10. RegistryHoldsActive'
    <3>1. /\ {j \in DOMAIN orders' : Active(orders'[j])} \subseteq DOMAIN resting'
          /\ DOMAIN resting' \subseteq {j \in DOMAIN orders' : Active(orders'[j]) \/ orders'[j].status = "Filled"}
      BY <2>1, <2>2, <2>3, <2>5, <2>7
    <3>2. /\ \A j \in DOMAIN resting : orders[j].type = "limit" /\ resting[j].rank < executions
          /\ \A i, j \in DOMAIN resting : resting[i].rank = resting[j].rank => i = j
      BY DEF ExecInv, RegistryHoldsActive
    <3>3. \A j \in DOMAIN resting : resting[j].rank \in Nat /\ orders'[j].type = orders[j].type
      BY <2>2, <2>5 DEF ExecInv, ExecTypeOK, Resting
    <3>4. \A j \in DOMAIN resting' : orders'[j].type = "limit" /\ resting'[j].rank < executions'
      <4>1. \A j \in DOMAIN resting : orders'[j].type = "limit" /\ resting'[j].rank < executions'
        BY <2>6, <2>7, <3>2, <3>3
      <4>2. rests => orders'[id].type = "limit" /\ resting'[id].rank < executions'
        BY <2>3, <2>6, <2>7 DEF rests
      <4> QED BY <2>7, <4>1, <4>2
    <3>5. \A i, j \in DOMAIN resting' : resting'[i].rank = resting'[j].rank => i = j
      <4>1. \A j \in DOMAIN resting : resting'[j].rank < executions
        BY <2>7, <3>2
      <4>2. rests => resting'[id].rank = executions
        BY <2>7
      <4>3. \A j \in DOMAIN resting : rests => resting'[j].rank # resting'[id].rank
        BY <2>6, <2>7, <3>2, <3>3, <4>2
      <4> QED BY <2>7, <3>2, <4>3
    <3> QED BY <3>1, <3>4, <3>5 DEF RegistryHoldsActive
  <2>11. StatusMatchesQuantity'
    BY <2>2, <2>3 DEF ExecInv, StatusMatchesQuantity
  <2> QED BY <2>9, <2>10, <2>11 DEF ExecInv
<1> QED BY <1>1, <1>2, <1>3
-----------------------------------------------------------------------------
\* What the calls hand out adds up.

(* An amount q handed out in the order of the ranks, each element taking   *)
(* what it weighs while there is something left: together they take what   *)
(* the loops of the code would take with a running remainder.              *)
LEMMA GreedyTakes ==
  ASSUME NEW S, IsFiniteSet(S), NEW w, \A x \in S : w[x] \in Nat,
         NEW rank, \A x \in S : rank[x] \in Int, \A x, y \in S : rank[x] = rank[y] => x = y,
         NEW q \in Nat, NEW taken,
         \A x \in S : taken[x] =
           Least(w[x], Left(q, SumFunctionOnSet(w, RankedBefore(S, rank, x))))
  PROVE  SumFunctionOnSet(taken, S) = q - Left(q, SumFunctionOnSet(w, S))
<1> DEFINE Closed(s) == \A x \in s, y \in S : rank[y] < rank[x] => y \in s
           Good(s) == SumFunctionOnSet(taken, s) = q - Left(q, SumFunctionOnSet(w, s))
           Bad == {s \in SUBSET S : Closed(s) /\ ~Good(s)}
<1>1. SUFFICES ASSUME Bad # {} PROVE FALSE
  <2>1. S \in SUBSET S /\ Closed(S)
    OBVIOUS
  <2> QED BY <2>1
<1>2. PICK s \in Bad : \A r \in SUBSET s : r # s => r \notin Bad
  <2>1. Bad \in SUBSET SUBSET S
    OBVIOUS
  <2> HIDE DEF Bad
  <2> QED BY <1>1, <2>1, MinimalSubset
<1>3. s \in SUBSET S /\ Closed(s) /\ ~Good(s) /\ \A r \in SUBSET s : r # s /\ Closed(r) => Good(r)
  BY <1>2
<1>4. IsFiniteSet(s) /\ \A x \in s : w[x] \in Nat /\ w[x] \in Int /\ rank[x] \in Int
  BY <1>3, FS_Subset
<1> HIDE DEF Bad
<1>5. CASE s = {}
  <2>1. SumFunctionOnSet(taken, {}) = 0 /\ SumFunctionOnSet(w, {}) = 0
    BY SumEmpty
  <2>2. SumFunctionOnSet(taken, s) = 0 /\ SumFunctionOnSet(w, s) = 0
    BY <1>5, <2>1
  <2> QED BY <1>3, <2>2 DEF Left
<1>6. CASE s # {}
  <2>1. PICK m \in s : \A x \in s : rank[x] <= rank[m]
    BY <1>4, <1>6, HighestRank
  <2>2. PICK r : r = s \ {m}
    OBVIOUS
  <2>3. r \in SUBSET s /\ r # s /\ Closed(r)
    BY <1>3, <1>4, <2>1, <2>2
  <2>4. RankedBefore(S, rank, m) = r
    BY <1>3, <1>4, <2>1, <2>2 DEF RankedBefore
  <2>5. Good(r)
    BY <1>3, <2>3
  <2> DEFINE W == SumFunctionOnSet(w, r)
  <2>6. taken[m] = Least(w[m], Left(q, W))
    BY <1>3, <2>4
  <2>7. IsFiniteSet(r) /\ \A x \in r : w[x] \in Nat
    BY <1>4, <2>3, FS_Subset
  <2>8. W \in Nat /\ w[m] \in Nat
    BY <1>4, <2>7, SumNatural
  <2>9. SumFunctionOnSet(w, s) = w[m] + W
    BY <1>4, <2>2, SumWithout
  <2>10. \A x \in s : taken[x] \in Int
    <3>1. ASSUME NEW x \in s PROVE taken[x] \in Int
      <4>1. PICK L : L = SumFunctionOnSet(w, RankedBefore(S, rank, x))
        OBVIOUS
      <4>2. taken[x] = Least(w[x], Left(q, L)) /\ w[x] \in Nat
        BY <1>3, <1>4, <4>1
      <4>3. Left(q, L) \in Nat
        BY LeftBounds
      <4> QED BY <4>2, <4>3 DEF Least
    <3> QED BY <3>1
  <2>11. SumFunctionOnSet(taken, s) = taken[m] + SumFunctionOnSet(taken, r)
    BY <1>4, <2>2, <2>10, SumWithout
  <2>12. SumFunctionOnSet(taken, r) = q - Left(q, W)
    BY <2>5
  <2> HIDE DEF W
  <2>13. taken[m] + (q - Left(q, W)) = q - Left(q, w[m] + W)
    BY <2>6, <2>8 DEF Least, Left
  <2>14. SumFunctionOnSet(taken, s) = q - Left(q, SumFunctionOnSet(w, s))
    BY <2>9, <2>11, <2>12, <2>13
  <2> QED BY <1>3, <2>14
<1> QED BY <1>5, <1>6

\* The levels an arriving order may take, ranked as it takes them.
PriceRank(o, book) ==
  [p \in Reachable(o, book) |-> IF Opposite(o.side) = "buy" THEN -p ELSE p]

LEMMA BetterIsLowerRank ==
  ASSUME NEW o, Opposite(o.side) \in Sides, NEW book, BookFits(book)
  PROVE  /\ IsFiniteSet(Reachable(o, book))
         /\ \A p \in Reachable(o, book) :
              /\ p \in Prices /\ p \in Nat
              /\ book[Opposite(o.side)][p] \in Nat \ {0}
              /\ PriceRank(o, book)[p] \in Int
              /\ \A q \in Reachable(o, book) :
                   /\ Better(Opposite(o.side), p, q) <=> PriceRank(o, book)[p] < PriceRank(o, book)[q]
                   /\ PriceRank(o, book)[p] = PriceRank(o, book)[q] => p = q
<1>1. Reachable(o, book) \subseteq DOMAIN book[Opposite(o.side)] /\ Reachable(o, book) \subseteq Prices
  BY DEF Reachable, BookFits
<1>2. IsFiniteSet(Reachable(o, book)) /\ \A p \in Reachable(o, book) : book[Opposite(o.side)][p] \in Nat \ {0}
  BY <1>1, FS_Subset DEF BookFits
<1>3. \A p \in Reachable(o, book) : p \in Prices /\ p \in Nat
  BY <1>1, PricesAssumption
<1>4. \A p \in Reachable(o, book) : PriceRank(o, book)[p] = IF Opposite(o.side) = "buy" THEN -p ELSE p
  BY DEF PriceRank
<1> QED BY <1>2, <1>3, <1>4 DEF Better

\* What the sweep takes from the levels is what it books on the order.
LEMMA SweepAddsUp ==
  ASSUME NEW o, o.qty \in Nat, Opposite(o.side) \in Sides, NEW book, BookFits(book)
  PROVE  SumFunctionOnSet([p \in Swept(o, book) |-> TakenAt(o, book, p)], Swept(o, book))
           = SweepFilled(o, book)
<1> DEFINE S == Reachable(o, book)
           T == Swept(o, book)
           w == book[Opposite(o.side)]
           rank == PriceRank(o, book)
           taken == [p \in S |-> TakenAt(o, book, p)]
           some == [p \in T |-> TakenAt(o, book, p)]
<1>1. /\ IsFiniteSet(S)
      /\ \A p \in S : w[p] \in Nat /\ rank[p] \in Int
      /\ \A p, q \in S : /\ Better(Opposite(o.side), p, q) <=> rank[p] < rank[q]
                         /\ rank[p] = rank[q] => p = q
  BY BetterIsLowerRank
<1>2. T \in SUBSET S /\ \A p \in S \ T : ~(taken[p] > 0)
  BY DEF Swept
<1>3. \A p \in S : taken[p] \in Nat
  <2>1. \A p \in S : TakenAt(o, book, p) \in 0..o.qty
    BY TakenBounds
  <2> QED BY <2>1
<1>4. \A p \in S : taken[p] = Least(w[p], Left(o.qty, SumFunctionOnSet(w, RankedBefore(S, rank, p))))
  <2> SUFFICES ASSUME NEW p \in S
               PROVE  taken[p] = Least(w[p], Left(o.qty, SumFunctionOnSet(w, RankedBefore(S, rank, p))))
    OBVIOUS
  <2>1. RankedBefore(S, rank, p) = {q \in S : Better(Opposite(o.side), q, p)}
    BY <1>1 DEF RankedBefore
  <2>2. taken[p] = Least(w[p], Left(o.qty, SumFunctionOnSet(w, {q \in S : Better(Opposite(o.side), q, p)})))
    BY DEF TakenAt, DepthAhead
  <2> QED BY <2>1, <2>2
<1>5. SumFunctionOnSet(some, T) = SumFunctionOnSet(taken, T)
  <2>1. IsFiniteSet(T) /\ \A p \in T : some[p] \in Int /\ some[p] = taken[p]
    BY <1>1, <1>2, <1>3, FS_Subset
  <2> HIDE DEF T, some, taken
  <2> QED BY <2>1, SumSame
<1>6. SumFunctionOnSet(taken, T) = SumFunctionOnSet(taken, S)
  <2>1. (\A p \in S : taken[p] \in Int) /\ \A p \in S \ T : taken[p] = 0
    BY <1>2, <1>3
  <2> HIDE DEF S, T, taken
  <2> QED BY <1>1, <1>2, <2>1, SumSkipsZeros
<1>7. SumFunctionOnSet(taken, S) = o.qty - Left(o.qty, SumFunctionOnSet(w, S))
  <2> HIDE DEF S, T, w, rank, taken
  <2> QED BY <1>1, <1>4, GreedyTakes
<1>8. SweepFilled(o, book) = o.qty - Left(o.qty, SumFunctionOnSet(w, S))
  <2>1. CASE S = {}
    <3>1. SumFunctionOnSet(w, S) = 0
      BY <2>1, SumEmpty
    <3>2. SweepFilled(o, book) = 0
      BY <2>1 DEF SweepFilled
    <3> QED BY <3>1, <3>2 DEF Left
  <2>2. CASE S # {}
    BY <2>2 DEF SweepFilled
  <2> QED BY <2>1, <2>2
<1> QED BY <1>5, <1>6, <1>7, <1>8

\* An order that may take a level is filled with something.
LEMMA SweepTakesSomething ==
  ASSUME NEW o, o.qty \in Nat \ {0}, Opposite(o.side) \in Sides, NEW book, BookFits(book),
         Reachable(o, book) # {}
  PROVE  SweepFilled(o, book) > 0
<1> DEFINE S == Reachable(o, book)
           w == book[Opposite(o.side)]
<1>1. IsFiniteSet(S) /\ \A p \in S : w[p] \in Nat \ {0}
  BY BetterIsLowerRank
<1>2. SweepFilled(o, book) = o.qty - Left(o.qty, SumFunctionOnSet(w, S))
  BY DEF SweepFilled
<1>3. PICK p \in S : TRUE
  OBVIOUS
<1> HIDE DEF S, w
<1>4. SumFunctionOnSet(w, S) \in Nat /\ w[p] <= SumFunctionOnSet(w, S)
  BY <1>1, SumNatural
<1> QED BY <1>1, <1>2, <1>3, <1>4 DEF Left

-----------------------------------------------------------------------------
\* The fills made by a call.

FillsInv == IsFiniteSet(fills) /\ FillsAddUp /\ FillsWithinLimit

\* What an order is filled with by the fills in a set.
Booked(made, id) == SumFunctionOnSet([f \in made |-> f.qty], {f \in made : f.order = id})

LEMMA BookedNothing == \A made, id : (\A f \in made : f.order # id) => Booked(made, id) = 0
<1> SUFFICES ASSUME NEW made, NEW id, \A f \in made : f.order # id
             PROVE  Booked(made, id) = 0
  OBVIOUS
<1>1. {f \in made : f.order = id} = {}
  OBVIOUS
<1> QED BY <1>1, SumEmpty DEF Booked

LEMMA BookedOnce ==
  ASSUME NEW made, NEW f \in made, f.qty \in Int, \A g \in made : g.order = f.order => g = f
  PROVE  Booked(made, f.order) = f.qty
<1> DEFINE w == [g \in made |-> g.qty]
<1>1. {g \in made : g.order = f.order} = {} \cup {f}
  OBVIOUS
<1>2. w[f] = f.qty /\ \A y \in {} \cup {f} : w[y] \in Int
  OBVIOUS
<1> HIDE DEF w
<1>3. SumFunctionOnSet(w, {} \cup {f}) = w[f] + SumFunctionOnSet(w, {})
  BY <1>2, SumAdd, FS_EmptySet
<1>4. SumFunctionOnSet(w, {} \cup {f}) = f.qty
  BY <1>2, <1>3, SumEmpty
<1> QED BY <1>1, <1>4 DEF Booked, w

LEMMA BookedTogether ==
  ASSUME NEW S, IsFiniteSet(S), NEW T, IsFiniteSet(T), S \cap T = {},
         \A f \in S \cup T : f.qty \in Int, NEW id
  PROVE  Booked(S \cup T, id) = Booked(S, id) + Booked(T, id)
<1> DEFINE Of(U) == {f \in U : f.order = id}
           w(U)  == [f \in U |-> f.qty]
<1>1. PICK all, s, t : all = w(S \cup T) /\ s = Of(S) /\ t = Of(T)
  OBVIOUS
<1>2. /\ IsFiniteSet(s) /\ IsFiniteSet(t) /\ s \cap t = {}
      /\ s \in SUBSET S /\ t \in SUBSET T /\ Of(S \cup T) = s \cup t
      /\ \A f \in s \cup t : all[f] \in Int
  BY <1>1, FS_Subset
<1>3. SumFunctionOnSet(all, s \cup t) = SumFunctionOnSet(all, s) + SumFunctionOnSet(all, t)
  BY <1>2, SumUnion
<1>4. SumFunctionOnSet(all, s) = Booked(S, id)
  <2>1. PICK v : v = w(S)
    OBVIOUS
  <2>2. \A f \in s : all[f] \in Int /\ all[f] = v[f]
    BY <1>1, <1>2, <2>1
  <2>3. SumFunctionOnSet(all, s) = SumFunctionOnSet(v, s)
    BY <1>2, <2>2, SumSame
  <2> QED BY <1>1, <2>1, <2>3 DEF Booked
<1>5. SumFunctionOnSet(all, t) = Booked(T, id)
  <2>1. PICK v : v = w(T)
    OBVIOUS
  <2>2. \A f \in t : all[f] \in Int /\ all[f] = v[f]
    BY <1>1, <1>2, <2>1
  <2>3. SumFunctionOnSet(all, t) = SumFunctionOnSet(v, t)
    BY <1>2, <2>2, SumSame
  <2> QED BY <1>1, <2>1, <2>3 DEF Booked
<1> QED BY <1>1, <1>2, <1>3, <1>4, <1>5 DEF Booked

\* An order of which nothing is filled has no fills.
LEMMA NoFillsYet ==
  ASSUME ExecInv, FillsInv, NEW id \in DOMAIN orders, orders[id].filled = 0
  PROVE  \A f \in fills : f.order # id
<1> SUFFICES ASSUME NEW f \in fills, f.order = id PROVE FALSE
  OBVIOUS
<1>1. PICK w, s : w = [g \in fills |-> g.qty] /\ s = {g \in fills : g.order = id}
  OBVIOUS
<1>2. \A g \in fills : g.qty \in Nat /\ g.qty > 0
  BY BoundsAssumption DEF ExecInv, ExecTypeOK
<1>3. IsFiniteSet(s) /\ f \in s /\ \A g \in s : w[g] \in Nat
  BY <1>1, <1>2, FS_Subset DEF FillsInv
<1>4. w[f] <= SumFunctionOnSet(w, s) /\ SumFunctionOnSet(w, s) \in Nat
  BY <1>3, SumNatural
<1>5. SumFunctionOnSet(w, s) = 0
  BY <1>1 DEF FillsInv, FillsAddUp
<1> QED BY <1>1, <1>2, <1>4, <1>5

(* A call keeps the fills in order if the new ones have ids of their own,  *)
(* respect the limits, follow the earlier ones at prices no better, and    *)
(* are what it books on the orders.                                        *)
LEMMA FillsBooked ==
  ASSUME ExecInv, FillsInv, ExecInv', NEW made, IsFiniteSet(made), fills' = fills \cup made,
         DOMAIN orders \subseteq DOMAIN orders',
         \A id \in DOMAIN orders :
           /\ Lifecycle!SameTerms(orders[id], orders'[id])
           /\ orders'[id].filled = orders[id].filled + Booked(made, id),
         \A id \in DOMAIN orders' \ DOMAIN orders : orders'[id].filled = 0,
         \A f \in made :
           /\ f.seq \in Nat /\ f.seq >= nextFill /\ f.qty \in Nat /\ f.order \in DOMAIN orders
           /\ Allows(orders[f.order], f.price)
           /\ \A g \in made : /\ f.seq = g.seq => f = g
                              /\ g.order = f.order /\ f.seq < g.seq
                                   => \/ f.price = g.price
                                      \/ Better(Opposite(orders[f.order].side), f.price, g.price)
           /\ \A g \in fills : g.order = f.order
                                 => \/ g.price = f.price
                                    \/ Better(Opposite(orders[f.order].side), g.price, f.price)
  PROVE  FillsInv'
<1>1. /\ nextFill \in Nat
      /\ \A f \in fills : f.seq \in Nat /\ f.seq < nextFill /\ f.qty \in Nat /\ f.order \in DOMAIN orders
  BY BoundsAssumption DEF ExecInv, ExecTypeOK
<1>2. fills \cap made = {} /\ \A f \in fills \cup made : f.qty \in Int
  BY <1>1
<1>3. IsFiniteSet(fills) /\ IsFiniteSet(fills')
  BY FS_Union DEF FillsInv
<1>4. \A id : Booked(fills', id) = Booked(fills, id) + Booked(made, id)
  BY <1>2, <1>3, BookedTogether
<1>5. ASSUME NEW id \in DOMAIN orders'
      PROVE  orders'[id].filled = Booked(fills', id)
  <2>1. CASE id \in DOMAIN orders
    <3>1. orders[id].filled = Booked(fills, id)
      BY <2>1 DEF FillsInv, FillsAddUp, Booked
    <3> QED BY <1>4, <2>1, <3>1
  <2>2. CASE id \notin DOMAIN orders
    <3>1. \A f \in fills' : f.order # id
      BY <1>1, <2>2
    <3> QED BY <2>2, <3>1, BookedNothing
  <2> QED BY <2>1, <2>2
<1>6. \A f, g \in fills' : f.seq = g.seq => f = g
  <2>1. \A f, g \in fills : f.seq = g.seq => f = g
    BY DEF FillsInv, FillsAddUp
  <2>2. \A f \in fills, g \in made : f.seq # g.seq
    BY <1>1
  <2> QED BY <2>1, <2>2
<1>7. FillsAddUp'
  BY <1>5, <1>6 DEF FillsAddUp, Booked
<1>8. FillsWithinLimit'
  <2>1. \A f \in fills' : f.order \in DOMAIN orders
    BY <1>1
  <2>2. \A id \in DOMAIN orders : /\ orders'[id].side = orders[id].side
                                  /\ orders'[id].type = orders[id].type
                                  /\ orders'[id].limit = orders[id].limit
    BY DEF Lifecycle!SameTerms
  <2>3. \A f \in fills' : Allows(orders'[f.order], f.price)
    <3>1. \A f \in fills' : Allows(orders[f.order], f.price)
      BY DEF FillsInv, FillsWithinLimit
    <3> QED BY <2>1, <2>2, <3>1 DEF Allows
  <2>4. ASSUME NEW f \in fills', NEW g \in fills', g.order = f.order, f.seq < g.seq
        PROVE  f.price = g.price \/ Better(Opposite(orders[f.order].side), f.price, g.price)
    <3>1. CASE f \in fills /\ g \in fills
      BY <2>4, <3>1 DEF FillsInv, FillsWithinLimit
    <3>2. CASE f \in made /\ g \in fills
      <4>1. f.seq \in Nat /\ f.seq >= nextFill /\ g.seq < nextFill /\ g.seq \in Nat
        BY <1>1, <3>2
      <4> QED BY <1>1, <2>4, <4>1
    <3>3. CASE g \in made
      <4>1. CASE f \in made
        BY <2>4, <3>3, <4>1
      <4>2. CASE f \in fills
        BY <2>4, <3>3, <4>2
      <4> QED BY <4>1, <4>2
    <3> QED BY <3>1, <3>2, <3>3
  <2> QED BY <2>1, <2>2, <2>3, <2>4 DEF FillsWithinLimit
<1> QED BY <1>3, <1>7, <1>8 DEF FillsInv

\* Calls that make no fills and fill no order.
LEMMA NoFillsMade ==
  ASSUME ExecInv, FillsInv, ExecInv', fills' = fills,
         DOMAIN orders \subseteq DOMAIN orders',
         \A id \in DOMAIN orders : /\ Lifecycle!SameTerms(orders[id], orders'[id])
                                   /\ orders'[id].filled = orders[id].filled,
         \A id \in DOMAIN orders' \ DOMAIN orders : orders'[id].filled = 0
  PROVE  FillsInv'
<1>1. IsFiniteSet({}) /\ fills' = fills \cup {} /\ \A id : Booked({}, id) = 0
  BY FS_EmptySet, BookedNothing
<1>2. \A id \in DOMAIN orders : orders[id].filled \in Nat
  BY OrderTyped DEF ExecInv
<1>3. \A id \in DOMAIN orders : orders'[id].filled = orders[id].filled + Booked({}, id)
  BY <1>1, <1>2
<1> QED BY <1>1, <1>3, FillsBooked

-----------------------------------------------------------------------------
\* Arrivals.

\* What an arrival does if it does not throw.
Completes(id, t, book) ==
  LET o     == orders[id]
      rests == o.type = "limit" /\ SweepFilled(o, book) < o.qty
  IN  /\ ArrivalAccepted(id, t)
      /\ DOMAIN orders' = DOMAIN orders
      /\ orders'[id] = Arrived(o, book)
      /\ \A j \in DOMAIN orders : j # id => orders'[j] = orders[j]
      /\ fills' = fills \cup SweepFills(id, book)
      /\ nextFill' = nextFill + Cardinality(Swept(o, book))
      /\ DOMAIN resting' = IF rests THEN DOMAIN resting \cup {id} ELSE DOMAIN resting
      /\ \A j \in DOMAIN resting : j # id => resting'[j] = resting[j]
      /\ executions' = executions + 1
      /\ UNCHANGED nextOrder

LEMMA ArrivalOutcome ==
  ASSUME NEW id, NEW t, NEW book, ProcessOrderArrival(id, t, book)
  PROVE  /\ threw' \in BOOLEAN
         /\ threw' => UNCHANGED <<orders, nextOrder, executions, resting, fills>>
         /\ ~threw' => Completes(id, t, book)
<1>1. CASE threw'
  BY <1>1 DEF ProcessOrderArrival, Throws
<1>2. CASE ~threw'
  <2> DEFINE o == orders[id]
             filled == SweepFilled(o, book)
             status == StatusOnArrival(o, book, filled)
             rests == o.type = "limit" /\ filled < o.qty
  <2>1. /\ ArrivalAccepted(id, t) /\ id \in DOMAIN orders
        /\ orders' = [orders EXCEPT ![id].filled = filled, ![id].status = status]
        /\ fills' = fills \cup SweepFills(id, book)
        /\ nextFill' = nextFill + Cardinality(Swept(o, book))
        /\ resting' = IF rests
                      THEN [j \in DOMAIN resting \cup {id} |->
                              IF j = id THEN [ahead |-> QueueOnArrival(o, book), rank |-> executions]
                                        ELSE resting[j]]
                      ELSE resting
        /\ executions' = executions + 1 /\ threw' = FALSE /\ nextOrder' = nextOrder
    BY <1>2 DEF ProcessOrderArrival, ArrivalAccepted, Throws
  <2>2. /\ DOMAIN orders' = DOMAIN orders
        /\ orders'[id] = [o EXCEPT !.filled = filled, !.status = status]
        /\ \A j \in DOMAIN orders : j # id => orders'[j] = orders[j]
    <3> HIDE DEF filled, status
    <3> QED BY <2>1
  <2>3. /\ DOMAIN resting' = IF rests THEN DOMAIN resting \cup {id} ELSE DOMAIN resting
        /\ \A j \in DOMAIN resting : j # id => resting'[j] = resting[j]
    <3> HIDE DEF rests
    <3> QED BY <2>1
  <2>4. orders'[id] = Arrived(o, book)
    BY <2>2 DEF Arrived
  <2>5. threw' \in BOOLEAN /\ Completes(id, t, book)
    BY <2>1, <2>2, <2>3, <2>4 DEF Completes
  <2> QED BY <1>2, <2>5
<1>3. threw' \in BOOLEAN
  BY DEF ProcessOrderArrival, Throws
<1> QED BY <1>1, <1>2, <1>3

\* From its arrival an order goes on as the lifecycle says.
LEMMA ArrivesAsAllowed ==
  ASSUME ExecInv, NEW id \in DOMAIN orders, orders[id].status = "Pending",
         NEW book, BookFits(book)
  PROVE  LET p == Arrived(orders[id], book)
         IN  /\ Lifecycle!SameTerms(orders[id], p) /\ Lifecycle!Arrives(orders[id], p)
             /\ p.filled = SweepFilled(orders[id], book)
<1> DEFINE o == orders[id]
           filled == SweepFilled(o, book)
           status == StatusOnArrival(o, book, filled)
<1>1. /\ o \in Orders /\ o.side \in Sides /\ o.qty \in 1..MaxQty /\ MaxQty \in Nat
      /\ o.type \in Types /\ o.qty \in Nat \ {0} /\ Opposite(o.side) \in Sides
  <2>1. o \in Orders /\ o.side \in Sides /\ o.qty \in 1..MaxQty /\ MaxQty \in Nat /\ o.type \in Types
    BY OrderTyped DEF ExecInv
  <2> QED BY <2>1 DEF Opposite, Sides
<1>2. filled \in 0..o.qty
  BY <1>1, SweepBounds
<1>3. o.type = "market" /\ DOMAIN book[Opposite(o.side)] # {} => filled > 0
  <2>1. o.type = "market" => Reachable(o, book) = DOMAIN book[Opposite(o.side)]
    BY DEF Reachable, Allows
  <2> QED BY <1>1, <2>1, SweepTakesSomething
<1>4. DOMAIN book[Opposite(o.side)] = {} => filled = 0
  BY DEF SweepFilled, Reachable
<1>5. Arrived(o, book) = [o EXCEPT !.filled = filled, !.status = status]
  BY DEF Arrived
<1>6. \/ filled = o.qty /\ status = "Filled"
      \/ filled < o.qty /\ o.type = "limit" /\ filled = 0 /\ status = "Acknowledged"
      \/ filled < o.qty /\ o.type = "limit" /\ filled > 0 /\ status = "PartiallyFilled"
      \/ filled < o.qty /\ o.type = "market" /\ filled = 0 /\ status = "Rejected"
      \/ filled < o.qty /\ o.type = "market" /\ filled > 0 /\ status = "Canceled"
  <2> HIDE DEF filled
  <2>1. CASE filled = o.qty
    BY <1>1, <2>1 DEF StatusOnArrival
  <2>2. CASE filled < o.qty /\ o.type = "limit"
    BY <1>1, <1>2, <2>2 DEF StatusOnArrival
  <2>3. CASE filled < o.qty /\ o.type = "market"
    BY <1>1, <1>2, <1>3, <1>4, <2>3 DEF StatusOnArrival
  <2> QED BY <1>1, <1>2, <2>1, <2>2, <2>3 DEF Types
<1> HIDE DEF filled, status
<1>7. PICK p : p = Arrived(o, book)
  OBVIOUS
<1>8. /\ p.filled = filled /\ p.status = status /\ p.side = o.side /\ p.type = o.type
      /\ p.limit = o.limit /\ p.qty = o.qty /\ p.arrival = o.arrival
  BY <1>1, <1>5, <1>7 DEF Orders
<1>9. Lifecycle!SameTerms(o, p)
  BY <1>8 DEF Lifecycle!SameTerms
<1>10. Lifecycle!Arrives(o, p)
  BY <1>1, <1>2, <1>6, <1>8 DEF Lifecycle!Arrives, Lifecycle!Becomes
<1> QED BY <1>7, <1>8, <1>9, <1>10 DEF filled

\* The fills of a sweep: one per level swept, at its price, numbered in the
\* order of the levels.
LEMMA SweepFillTyped ==
  ASSUME ExecInv, NEW id \in DOMAIN orders, NEW book, BookFits(book)
  PROVE  LET o == orders[id]
             S == Swept(o, book)
         IN  /\ IsFiniteSet(S)
             /\ \A f \in SweepFills(id, book) :
                  /\ f.order = id /\ f.price \in S /\ f.qty = TakenAt(o, book, f.price)
                  /\ f.qty \in Nat /\ f.seq \in Nat /\ f.seq >= nextFill
                  /\ f.seq < nextFill + Cardinality(S) /\ f.ts = o.arrival
                  /\ Allows(o, f.price)
                  /\ \A g \in SweepFills(id, book) :
                       /\ f.seq = g.seq => f = g
                       /\ f.seq < g.seq => Better(Opposite(o.side), f.price, g.price)
<1> DEFINE o == orders[id]
           S == Swept(o, book)
           rank == PriceRank(o, book)
           Turn(p) == Cardinality({q \in S : Better(Opposite(o.side), q, p)})
           F(p) == Fill(id, p, TakenAt(o, book, p), o.arrival, nextFill + Turn(p))
<1>1. /\ o.qty \in Nat /\ Opposite(o.side) \in Sides /\ nextFill \in Nat
  <2>1. o.qty \in 1..MaxQty /\ MaxQty \in Nat /\ o.side \in Sides /\ nextFill \in Nat
    BY OrderTyped DEF ExecInv, ExecTypeOK
  <2> QED BY <2>1 DEF Opposite, Sides
<1>2. /\ IsFiniteSet(S) /\ S \in SUBSET Reachable(o, book)
      /\ \A p \in S : /\ rank[p] \in Int
                      /\ \A q \in S : /\ Better(Opposite(o.side), p, q) <=> rank[p] < rank[q]
                                      /\ rank[p] = rank[q] => p = q
  <2>1. S \in SUBSET Reachable(o, book)
    BY DEF Swept
  <2> HIDE DEF S
  <2> QED BY <1>1, <2>1, BetterIsLowerRank, FS_Subset
<1>3. \A p \in S : Turn(p) = Place(S, rank, p)
  <2>1. \A p \in S : {q \in S : Better(Opposite(o.side), q, p)} = RankedBefore(S, rank, p)
    BY <1>2 DEF RankedBefore
  <2> QED BY <2>1 DEF Place
<1>4. \A p \in S : /\ Turn(p) \in Nat /\ Turn(p) < Cardinality(S)
                   /\ \A q \in S : rank[p] < rank[q] => Turn(p) < Turn(q)
  <2>1. \A p \in S : rank[p] \in Int
    BY <1>2
  <2>2. \A p \in S : /\ Place(S, rank, p) \in Nat /\ Place(S, rank, p) < Cardinality(S)
                     /\ \A q \in S : rank[p] < rank[q] => Place(S, rank, p) < Place(S, rank, q)
    <3> HIDE DEF S, rank
    <3> QED BY <1>2, <2>1, PlacesFollowRanks
  <2> HIDE DEF S, rank, Turn
  <2> QED BY <1>3, <2>2
<1>5. \A f \in SweepFills(id, book) : \E p \in S : f = F(p)
  BY DEF SweepFills
<1>6. \A p \in S : /\ F(p).order = id /\ F(p).price = p /\ F(p).qty = TakenAt(o, book, p)
                   /\ F(p).seq = nextFill + Turn(p) /\ F(p).ts = o.arrival
  BY DEF Fill
<1>7. \A p \in S : TakenAt(o, book, p) \in Nat /\ Allows(o, p)
  <2>1. \A p \in Reachable(o, book) : TakenAt(o, book, p) \in 0..o.qty /\ Allows(o, p)
    BY <1>1, TakenBounds DEF Reachable
  <2> QED BY <1>1, <1>2, <2>1
<1>8. Cardinality(S) \in Nat
  BY <1>2, FS_CardinalityType
<1> HIDE DEF S, rank, Turn, F
<1>9. ASSUME NEW p \in S, NEW q \in S
      PROVE  /\ Turn(p) = Turn(q) => p = q
             /\ Turn(p) < Turn(q) => Better(Opposite(o.side), p, q)
  <2>1. rank[p] \in Int /\ rank[q] \in Int
    BY <1>2
  <2>2. rank[p] < rank[q] \/ rank[p] = rank[q] \/ rank[q] < rank[p]
    BY <2>1
  <2> QED BY <1>2, <1>4, <2>2
<1>10. ASSUME NEW f \in SweepFills(id, book)
       PROVE  /\ f.order = id /\ f.price \in S /\ f.qty = TakenAt(o, book, f.price)
              /\ f.qty \in Nat /\ f.seq \in Nat /\ f.seq >= nextFill
              /\ f.seq < nextFill + Cardinality(S) /\ f.ts = o.arrival
              /\ Allows(o, f.price) /\ f = F(f.price) /\ f.seq = nextFill + Turn(f.price)
  <2>1. PICK p \in S : f = F(p)
    BY <1>5
  <2>2. f.price = p /\ f.seq = nextFill + Turn(p)
    BY <1>6, <2>1
  <2>3. f.seq \in Nat /\ f.seq >= nextFill /\ f.seq < nextFill + Cardinality(S)
    BY <1>1, <1>4, <1>8, <2>2
  <2> QED BY <1>6, <1>7, <2>1, <2>2, <2>3
<1>11. ASSUME NEW f \in SweepFills(id, book), NEW g \in SweepFills(id, book)
       PROVE  /\ f.seq = g.seq => f = g
              /\ f.seq < g.seq => Better(Opposite(o.side), f.price, g.price)
  <2>1. /\ f.price \in S /\ g.price \in S /\ f = F(f.price) /\ g = F(g.price)
        /\ f.seq = nextFill + Turn(f.price) /\ g.seq = nextFill + Turn(g.price)
    BY <1>10
  <2>2. Turn(f.price) \in Nat /\ Turn(g.price) \in Nat
    BY <1>4, <2>1
  <2> QED BY <1>1, <1>9, <2>1, <2>2
<1> QED BY <1>2, <1>10, <1>11 DEF S

LEMMA SweepBooked ==
  ASSUME ExecInv, NEW id \in DOMAIN orders, NEW book, BookFits(book)
  PROVE  /\ IsFiniteSet(SweepFills(id, book))
         /\ Booked(SweepFills(id, book), id) = SweepFilled(orders[id], book)
         /\ \A j : j # id => Booked(SweepFills(id, book), j) = 0
<1> DEFINE o == orders[id]
           Turn(p) == Cardinality({q \in Swept(o, book) : Better(Opposite(o.side), q, p)})
<1>1. PICK S, F, v, w :
        /\ S = Swept(o, book)
        /\ F = [p \in S |-> Fill(id, p, TakenAt(o, book, p), o.arrival, nextFill + Turn(p))]
        /\ v = [p \in S |-> TakenAt(o, book, p)]
        /\ w = [f \in SweepFills(id, book) |-> f.qty]
  OBVIOUS
<1>2. SweepFills(id, book) = ImageOf(F, S)
  BY <1>1 DEF SweepFills, ImageOf
<1>3. /\ IsFiniteSet(S)
      /\ \A f \in SweepFills(id, book) : f.order = id /\ f.qty \in Nat
  BY <1>1, SweepFillTyped
<1>4. \A p \in S : /\ F[p] \in SweepFills(id, book) /\ F[p].price = p
                   /\ F[p].qty = v[p] /\ w[F[p]] = F[p].qty
  BY <1>1, <1>2 DEF Fill, ImageOf
<1>5. /\ \A p, q \in S : F[p] = F[q] => p = q
      /\ \A p \in S : w[F[p]] \in Int /\ v[p] = w[F[p]]
  BY <1>3, <1>4
<1>6. /\ IsFiniteSet(ImageOf(F, S))
      /\ SumFunctionOnSet(w, ImageOf(F, S)) = SumFunctionOnSet(v, S)
  BY <1>3, <1>5, SumImage
<1>7. SumFunctionOnSet(v, S) = SweepFilled(o, book)
  <2>1. o.qty \in Nat /\ Opposite(o.side) \in Sides
    <3>1. o.qty \in 1..MaxQty /\ MaxQty \in Nat /\ o.side \in Sides
      BY OrderTyped DEF ExecInv
    <3> QED BY <3>1 DEF Opposite, Sides
  <2> QED BY <1>1, <2>1, SweepAddsUp
<1>8. {f \in SweepFills(id, book) : f.order = id} = SweepFills(id, book)
  BY <1>3
<1>9. Booked(SweepFills(id, book), id) = SweepFilled(o, book)
  BY <1>1, <1>2, <1>6, <1>7, <1>8 DEF Booked
<1>10. \A j : j # id => Booked(SweepFills(id, book), j) = 0
  BY <1>3, BookedNothing
<1> QED BY <1>2, <1>6, <1>9, <1>10

LEMMA SameTermsReflexive == \A o : Lifecycle!SameTerms(o, o)
BY DEF Lifecycle!SameTerms

LEMMA ArrivalKeepsFills ==
  ASSUME ExecInv, FillsInv, ExecInv', NEW id, NEW t, NEW book, BookFits(book),
         ProcessOrderArrival(id, t, book)
  PROVE  FillsInv'
<1>1. CASE threw'
  <2>1. UNCHANGED <<orders, fills>>
    BY <1>1, ArrivalOutcome
  <2> QED BY <2>1, NoFillsMade, SameTermsReflexive
<1>2. CASE ~threw'
  <2>1. Completes(id, t, book)
    BY <1>2, ArrivalOutcome
  <2> DEFINE o == orders[id]
             made == SweepFills(id, book)
  <2>2. /\ id \in DOMAIN orders /\ o.status = "Pending" /\ DOMAIN orders' = DOMAIN orders
        /\ orders'[id] = Arrived(o, book) /\ fills' = fills \cup made
        /\ \A j \in DOMAIN orders : j # id => orders'[j] = orders[j]
    BY <2>1 DEF Completes, ArrivalAccepted
  <2>3. /\ Lifecycle!SameTerms(o, orders'[id])
        /\ orders'[id].filled = SweepFilled(o, book)
    BY <2>2, ArrivesAsAllowed
  <2>4. o.filled = 0
    BY <2>2 DEF ExecInv, StatusMatchesQuantity, StatusFits
  <2>5. \A f \in fills : f.order # id
    BY <2>2, <2>4, NoFillsYet
  <2>6. IsFiniteSet(made) /\ Booked(made, id) = SweepFilled(o, book) /\ \A j : j # id => Booked(made, j) = 0
    BY <2>2, SweepBooked
  <2>7. \A f \in made :
          /\ f.order = id /\ f.qty \in Nat /\ f.seq \in Nat /\ f.seq >= nextFill
          /\ Allows(o, f.price)
          /\ \A g \in made : /\ f.seq = g.seq => f = g
                             /\ f.seq < g.seq => Better(Opposite(o.side), f.price, g.price)
    BY <2>2, SweepFillTyped
  <2>8. ASSUME NEW j \in DOMAIN orders
        PROVE  /\ Lifecycle!SameTerms(orders[j], orders'[j])
               /\ orders'[j].filled = orders[j].filled + Booked(made, j)
    <3>1. CASE j = id
      <4>1. SweepFilled(o, book) \in Int
        <5>1. o.qty \in 1..MaxQty /\ MaxQty \in Nat
          BY <2>2, OrderTyped DEF ExecInv
        <5> QED BY <5>1, SweepBounds
      <4> QED BY <2>3, <2>4, <2>6, <3>1, <4>1
    <3>2. CASE j # id
      <4>1. orders[j].filled \in Nat
        BY OrderTyped DEF ExecInv
      <4> QED BY <2>2, <2>6, <3>2, <4>1, SameTermsReflexive
    <3> QED BY <3>1, <3>2
  <2> HIDE DEF made
  <2> QED BY <2>2, <2>5, <2>6, <2>7, <2>8, FillsBooked
<1>3. threw' \in BOOLEAN
  BY ArrivalOutcome
<1> QED BY <1>1, <1>2, <1>3

-----------------------------------------------------------------------------
\* Trades.

\* No two fills of a trade share an id or an order.
LEMMA TradeFillsDiffer ==
  ASSUME ExecInv, NEW trade, TradeFits(trade), NEW t
  PROVE  /\ IsFiniteSet(TradeFills(trade, t))
         /\ \A id \in Filled(trade) : \E f \in TradeFills(trade, t) : f.order = id
         /\ \A f, g \in TradeFills(trade, t) : f.seq = g.seq \/ f.order = g.order => f = g
<1> DEFINE turn(id) == Cardinality({j \in Filled(trade) : resting[j].rank < resting[id].rank})
           F(id) == Fill(id, orders[id].limit, FilledBy(id, trade), t, nextFill + turn(id))
<1>1. PICK S, rank : S = Filled(trade) /\ rank = [j \in S |-> resting[j].rank]
  OBVIOUS
<1>2. IsFiniteSet(S)
  BY <1>1, FilledFinite
<1>3. \A id \in S : rank[id] \in Int /\ \A j \in S : rank[id] = rank[j] => id = j
  <2>1. \A id \in S : id \in DOMAIN resting
    BY <1>1, TradeFillsOrder
  <2> QED BY <1>1, <2>1 DEF ExecInv, ExecTypeOK, Resting, RegistryHoldsActive
<1>4. \A id \in S : turn(id) = Place(S, rank, id)
  BY <1>1 DEF Place, RankedBefore
<1>5. \A id \in S : turn(id) \in Nat /\ \A j \in S : rank[id] < rank[j] => turn(id) < turn(j)
  <2>1. \A x \in S : /\ Place(S, rank, x) \in Nat
                     /\ \A y \in S : rank[x] < rank[y] => Place(S, rank, x) < Place(S, rank, y)
    BY <1>2, <1>3, PlacesFollowRanks
  <2> HIDE DEF turn
  <2> QED BY <1>4, <2>1
<1>6. TradeFills(trade, t) = {F(id) : id \in S}
  BY <1>1 DEF TradeFills
<1>7. \A id \in S : F(id).order = id /\ F(id).seq = nextFill + turn(id)
  BY DEF Fill
<1>8. nextFill \in Nat
  BY DEF ExecInv, ExecTypeOK
<1> HIDE DEF turn, F
<1>9. ASSUME NEW id \in S, NEW j \in S, F(id).seq = F(j).seq \/ F(id).order = F(j).order
      PROVE  id = j
  <2>1. turn(id) \in Nat /\ turn(j) \in Nat /\ rank[id] \in Int /\ rank[j] \in Int
    BY <1>3, <1>5
  <2>2. rank[id] < rank[j] \/ rank[id] = rank[j] \/ rank[j] < rank[id]
    BY <2>1
  <2> QED BY <1>3, <1>5, <1>7, <1>8, <1>9, <2>1, <2>2
<1>10. IsFiniteSet(TradeFills(trade, t))
  <2>1. PICK f : f = [id \in S |-> F(id)]
    OBVIOUS
  <2>2. f \in Surjection(S, TradeFills(trade, t))
    BY <1>6, <2>1 DEF Surjection
  <2> QED BY <1>2, <2>2, FS_Surjection
<1> QED BY <1>1, <1>6, <1>7, <1>9, <1>10

\* What a trade does to each order: as the lifecycle says, and by its fills.
LEMMA TradeBooks ==
  ASSUME ExecInv, NEW trade, TradeFits(trade), NEW t, NEW id \in DOMAIN orders
  PROVE  LET o == orders[id]
             p == OrdersAfterTrade(trade)[id]
         IN  /\ Lifecycle!SameTerms(o, p)
             /\ p.filled = o.filled + Booked(TradeFills(trade, t), id)
             /\ o = p \/ Lifecycle!Progresses(o, p)
<1>1. PICK o, p, made : o = orders[id] /\ p = OrdersAfterTrade(trade)[id] /\ made = TradeFills(trade, t)
  OBVIOUS
<1>2. /\ o \in Orders /\ o.filled \in 0..MaxQty /\ o.qty \in 1..MaxQty /\ MaxQty \in Nat
  BY <1>1, OrderTyped DEF ExecInv
<1>3. CASE id \notin Filled(trade)
  <2>1. p = o
    BY <1>1, <1>3, TradeOrders
  <2>2. \A f \in made : f.order # id
    BY <1>1, <1>3, TradeFillTyped
  <2>3. Booked(made, id) = 0
    BY <2>2, BookedNothing
  <2>4. o.filled = o.filled + 0
    BY <1>2
  <2> QED BY <1>1, <2>1, <2>3, <2>4, SameTermsReflexive
<1>4. CASE id \in Filled(trade)
  <2>1. PICK n : n = FilledBy(id, trade)
    OBVIOUS
  <2>2. /\ id \in DOMAIN resting /\ Active(o) /\ n \in 1..Remaining(o) /\ n \in 1..MaxQty
        /\ AfterTrade(id, trade) = [o EXCEPT !.filled = o.filled + n,
                                             !.status = IF n = Remaining(o) THEN "Filled" ELSE "PartiallyFilled"]
    BY <1>1, <1>4, <2>1, TradeFillsOrder
  <2>3. p = AfterTrade(id, trade)
    BY <1>1, <1>4, TradeOrders
  <2>4. /\ p.side = o.side /\ p.type = o.type /\ p.limit = o.limit /\ p.qty = o.qty
        /\ p.arrival = o.arrival /\ p.filled = o.filled + n
        /\ p.status = IF n = Remaining(o) THEN "Filled" ELSE "PartiallyFilled"
    BY <1>2, <2>2, <2>3 DEF Orders
  <2>5. Lifecycle!SameTerms(o, p)
    BY <2>4 DEF Lifecycle!SameTerms
  <2>6. o.type = "limit"
    BY <1>1, <2>2 DEF ExecInv, RegistryHoldsActive
  <2>7. Lifecycle!Progresses(o, p)
    BY <1>2, <2>2, <2>4, <2>6 DEF Lifecycle!Progresses, Lifecycle!Becomes, Active, Remaining
  <2>8. PICK f \in made : f.order = id
    BY <1>1, <1>4, TradeFillsDiffer
  <2>9. f.qty = n /\ f.qty \in Int /\ \A g \in made : g.order = f.order => g = f
    <3>1. f.qty = n
      BY <1>1, <2>1, <2>8, TradeFillTyped
    <3>2. \A g \in made : g.order = f.order => g = f
      BY <1>1, <2>8, TradeFillsDiffer
    <3> QED BY <1>2, <2>2, <3>1, <3>2
  <2>10. Booked(made, id) = n
    BY <2>8, <2>9, BookedOnce
  <2> QED BY <1>1, <2>4, <2>5, <2>7, <2>10
<1> QED BY <1>3, <1>4

LEMMA TradeKeepsFills ==
  ASSUME ExecInv, FillsInv, ExecInv', NEW trade, TradeFits(trade), NEW t, TradeEffects(trade, t),
         Extends(OrdersAfterTrade(trade))
  PROVE  FillsInv'
<1>1. PICK made, after : made = TradeFills(trade, t) /\ after = OrdersAfterTrade(trade)
  OBVIOUS
<1>2. fills' = fills \cup made /\ DOMAIN after = DOMAIN orders
  BY <1>1, TradeOrders DEF TradeEffects
<1>3. /\ DOMAIN orders \subseteq DOMAIN orders'
      /\ \A id \in DOMAIN orders : orders'[id] = after[id]
      /\ \A id \in DOMAIN orders' \ DOMAIN orders : orders'[id].filled = 0
  BY <1>1, <1>2 DEF Extends, Fresh
<1>4. \A id \in DOMAIN orders : /\ Lifecycle!SameTerms(orders[id], orders'[id])
                                /\ orders'[id].filled = orders[id].filled + Booked(made, id)
  BY <1>1, <1>3, TradeBooks
<1>5. /\ IsFiniteSet(made)
      /\ \A f, g \in made : f.seq = g.seq \/ f.order = g.order => f = g
  BY <1>1, TradeFillsDiffer
<1>6. ASSUME NEW f \in made
      PROVE  /\ f.order \in DOMAIN orders /\ f.qty \in Nat /\ f.seq \in Nat /\ f.seq >= nextFill
             /\ f.price = orders[f.order].limit /\ orders[f.order].type = "limit"
  <2>1. /\ f.order \in Filled(trade) /\ f.order \in DOMAIN orders
        /\ f.qty \in 1..MaxQty /\ f.price = orders[f.order].limit
        /\ f.seq \in nextFill..(nextFill + Cardinality(Filled(trade)) - 1)
    BY <1>1, TradeFillTyped
  <2>2. nextFill \in Nat /\ MaxQty \in Nat /\ Cardinality(Filled(trade)) \in Nat
    BY BoundsAssumption, FilledFinite DEF ExecInv, ExecTypeOK
  <2>3. orders[f.order].type = "limit"
    BY <2>1, TradeFillsOrder DEF ExecInv, RegistryHoldsActive
  <2> QED BY <2>1, <2>2, <2>3
<1>7. ASSUME NEW f \in made, NEW g \in made, g.order = f.order, f.seq < g.seq
      PROVE  FALSE
  <2>1. f = g /\ f.seq \in Nat
    BY <1>5, <1>6, <1>7
  <2> QED BY <1>7, <2>1
<1>8. ASSUME NEW f \in made, NEW g \in fills, g.order = f.order
      PROVE  g.price = f.price \/ Better(Opposite(orders[f.order].side), g.price, f.price)
  <2>1. Allows(orders[f.order], g.price)
    BY <1>8 DEF FillsInv, FillsWithinLimit
  <2> QED BY <1>6, <2>1 DEF Allows
<1>9. \A f \in made : Allows(orders[f.order], f.price)
  BY <1>6 DEF Allows
<1> QED BY <1>2, <1>3, <1>4, <1>5, <1>6, <1>7, <1>8, <1>9, FillsBooked

\* Volume reaches an order only past all that is wanted by the orders before it.
LEMMA EarlierOrderFilled ==
  ASSUME ExecInv, NEW trade, TradeFits(trade), NEW i \in Reached(trade), NEW j \in Filled(trade),
         resting[i].rank < resting[j].rank
  PROVE  i \in Filled(trade) /\ FilledBy(i, trade) = Remaining(orders[i])
<1>1. PICK w, A, B, q :
        /\ w = Wanted(trade) /\ A = Ahead(i, trade) /\ B = Ahead(j, trade) /\ q = trade.qty
  OBVIOUS
<1>2. \A k \in Reached(trade) : /\ k \in DOMAIN resting /\ k \in DOMAIN orders
                                /\ Queue(k, trade) \in Nat /\ Remaining(orders[k]) \in 1..MaxQty
                                /\ resting[k].rank \in Nat
  <2>1. \A k \in Reached(trade) : k \in DOMAIN resting /\ k \in DOMAIN orders /\ Active(orders[k])
                                  /\ Queue(k, trade) \in Nat
    BY FilledByTrade
  <2> QED BY <2>1, ActiveOrders DEF ExecInv, ExecTypeOK, Resting
<1>3. j \in Reached(trade) /\ FilledBy(j, trade) > 0 /\ FilledBy(j, trade) \in Nat
  <2>1. j \in Reached(trade) /\ FilledBy(j, trade) \in 1..MaxQty
    BY TradeFillsOrder
  <2> QED BY <2>1, BoundsAssumption
<1>4. IsFiniteSet(Reached(trade))
  <2>1. Reached(trade) \subseteq 1..(nextOrder - 1) /\ nextOrder \in Nat
    BY <1>2, BoundsAssumption DEF ExecInv, ExecTypeOK
  <2> QED BY <2>1, FS_Interval, FS_Subset
<1>5. /\ A \in SUBSET Reached(trade) /\ B \in SUBSET Reached(trade)
      /\ i \notin A /\ A \cup {i} \in SUBSET B
  BY <1>1, <1>2, <1>3 DEF Ahead
<1>6. /\ IsFiniteSet(A) /\ IsFiniteSet(B)
      /\ \A k \in B : w[k] \in Nat
      /\ w[i] = Queue(i, trade) + Remaining(orders[i]) /\ w[i] \in Nat
      /\ \A k \in A : w[k] \in Nat
  <2>1. \A k \in Reached(trade) : w[k] = Queue(k, trade) + Remaining(orders[k]) /\ w[k] \in Nat
    BY <1>1, <1>2, BoundsAssumption DEF Wanted
  <2>2. IsFiniteSet(A) /\ IsFiniteSet(B)
    BY <1>4, <1>5, FS_Subset
  <2> QED BY <1>5, <2>1, <2>2
<1>7. SumFunctionOnSet(w, A) \in Nat /\ SumFunctionOnSet(w, B) \in Nat
      /\ SumFunctionOnSet(w, A) + w[i] <= SumFunctionOnSet(w, B)
  <2>1. SumFunctionOnSet(w, A \cup {i}) = w[i] + SumFunctionOnSet(w, A)
    <3>1. \A k \in A \cup {i} : w[k] \in Int
      BY <1>6
    <3>2. IsFiniteSet(A) /\ i \notin A
      BY <1>5, <1>6
    <3> QED BY <3>1, <3>2, SumAdd
  <2>2. SumFunctionOnSet(w, A \cup {i}) <= SumFunctionOnSet(w, B)
    BY <1>5, <1>6, SumSubset
  <2>3. SumFunctionOnSet(w, A) \in Nat /\ SumFunctionOnSet(w, B) \in Nat
    BY <1>6, SumNatural
  <2> QED BY <1>6, <2>1, <2>2, <2>3
<1>8. q \in Nat /\ VolumeBefore(i, trade) = Left(q, SumFunctionOnSet(w, A))
      /\ VolumeBefore(j, trade) = Left(q, SumFunctionOnSet(w, B))
  BY <1>1, BoundsAssumption DEF VolumeBefore, TradeFits
<1>9. VolumeBefore(j, trade) > 0
  BY <1>2, <1>3, <1>8 DEF FilledBy, Least, Left
<1>10. q > SumFunctionOnSet(w, B)
  BY <1>7, <1>8, <1>9 DEF Left
<1>11. VolumeBefore(i, trade) \in Nat /\ VolumeBefore(i, trade) > Queue(i, trade) + Remaining(orders[i])
  BY <1>2, <1>6, <1>7, <1>8, <1>10, BoundsAssumption DEF Left
<1>12. FilledBy(i, trade) = Remaining(orders[i]) /\ Remaining(orders[i]) > 0
  BY <1>2, <1>11, BoundsAssumption DEF FilledBy, Least, Left
<1>13. i \in Owed(trade)
  BY <1>2, <1>11, <1>12, BoundsAssumption DEF Owed, Met
<1>14. \A k \in Uncharged(trade) : resting[i].rank < resting[k].rank
  <2>1. \A k \in Uncharged(trade) : k \in Reached(trade) /\ resting[j].rank < resting[k].rank
    BY FilledAreConsumed DEF Uncharged, Filled
  <2> QED BY <1>2, <1>3, <2>1
<1> QED BY <1>12, <1>13, <1>14 DEF Filled

\* An order that rests where an earlier one is filled is filled first.
LEMMA TradePriority ==
  ASSUME ExecInv, NEW trade, TradeFits(trade), Extends(OrdersAfterTrade(trade))
  PROVE  PriorityStep
<1> SUFFICES ASSUME NEW i \in DOMAIN resting, NEW j \in DOMAIN resting,
                    resting[i].rank < resting[j].rank,
                    orders[i].side = orders[j].side,
                    \/ orders[i].limit = orders[j].limit
                    \/ Better(orders[i].side, orders[i].limit, orders[j].limit),
                    orders'[j].filled > orders[j].filled
             PROVE  orders'[i].status = "Filled"
  BY DEF PriorityStep
<1>1. /\ i \in DOMAIN orders /\ j \in DOMAIN orders
      /\ orders[i].type = "limit" /\ orders[j].type = "limit"
      /\ Active(orders[i]) \/ orders[i].status = "Filled"
  BY DEF ExecInv, RegistryHoldsActive
<1>2. /\ orders'[i] = OrdersAfterTrade(trade)[i]
      /\ orders'[j] = OrdersAfterTrade(trade)[j]
  BY <1>1, TradeOrders DEF Extends
<1>3. j \in Filled(trade)
  <2>1. CASE j \notin Filled(trade)
    <3>1. orders'[j] = orders[j] /\ orders[j].filled \in Nat
      BY <1>1, <1>2, <2>1, TradeOrders, OrderTyped DEF ExecInv
    <3> QED BY <3>1
  <2> QED BY <2>1
<1>4. CASE Active(orders[i])
  <2>1. j \in Reached(trade)
    BY <1>3, TradeFillsOrder
  <2>2. /\ orders[i].limit \in Nat /\ orders[j].limit \in Nat /\ trade.price \in Nat
        /\ orders[i].side \in Sides
    <3>1. /\ orders[i].limit \in Prices /\ orders[j].limit \in Prices /\ orders[i].side \in Sides
      BY <1>1, OrderTyped DEF ExecInv, StatusMatchesQuantity, StatusFits
    <3>2. trade.price \in Prices
      BY DEF TradeFits
    <3> QED BY <3>1, <3>2, PricesAssumption
  <2>3. i \in Reached(trade)
    <3>1. Hits(orders[j], trade) /\ (At(orders[j], trade) \/ Through(orders[j], trade))
      BY <2>1 DEF Reached, At, Through
    <3>2. Hits(orders[i], trade)
      BY <3>1 DEF Hits
    <3>3. At(orders[i], trade) \/ Through(orders[i], trade)
      BY <2>2, <3>1, <3>2 DEF At, Through, Better, Opposite, Sides
    <3> QED BY <1>4, <3>3 DEF Reached
  <2>4. i \in Filled(trade) /\ FilledBy(i, trade) = Remaining(orders[i])
    BY <1>3, <2>3, EarlierOrderFilled
  <2>5. orders'[i] = AfterTrade(i, trade)
    BY <1>1, <1>2, <2>4, TradeOrders
  <2>6. /\ orders[i] \in Orders
        /\ AfterTrade(i, trade) = [orders[i] EXCEPT !.filled = orders[i].filled + FilledBy(i, trade),
                                                    !.status = "Filled"]
    BY <1>1, <2>4, TradeFillsOrder, OrderTyped, ZenonT(60) DEF ExecInv
  <2> QED BY <2>5, <2>6 DEF Orders
<1>5. CASE ~Active(orders[i])
  <2>1. i \notin Filled(trade)
    BY <1>5, TradeFillsOrder
  <2>2. orders'[i] = orders[i]
    BY <1>1, <1>2, <2>1, TradeOrders
  <2> QED BY <1>1, <1>5, <2>2
<1> QED BY <1>4, <1>5

-----------------------------------------------------------------------------
\* The volume of a trade.

\* What each order that a trade reaches is filled with.
FilledOf(trade) == [id \in Reached(trade) |-> IF id \in Filled(trade) THEN FilledBy(id, trade) ELSE 0]

LEMMA ReachedFinite ==
  ASSUME ExecInv, NEW trade, TradeFits(trade)
  PROVE  /\ IsFiniteSet(Reached(trade))
         /\ \A id \in Reached(trade) :
              /\ Wanted(trade)[id] = Queue(id, trade) + Remaining(orders[id])
              /\ Queue(id, trade) \in Nat /\ Remaining(orders[id]) \in Nat /\ Wanted(trade)[id] \in Nat
              /\ VolumeBefore(id, trade) \in Nat /\ resting[id].rank \in Nat
<1>1. \A id \in Reached(trade) : /\ id \in DOMAIN resting /\ id \in DOMAIN orders /\ Active(orders[id])
                                 /\ VolumeBefore(id, trade) \in Nat /\ Queue(id, trade) \in Nat
  BY FilledByTrade
<1>2. IsFiniteSet(Reached(trade))
  <2>1. Reached(trade) \subseteq 1..(nextOrder - 1) /\ nextOrder \in Nat
    BY <1>1, BoundsAssumption DEF ExecInv, ExecTypeOK
  <2>2. IsFiniteSet(1..(nextOrder - 1))
    BY <2>1, FS_Interval
  <2> QED BY <2>1, <2>2, FS_Subset
<1>3. \A id \in Reached(trade) : Remaining(orders[id]) \in Nat /\ resting[id].rank \in Nat
  BY <1>1, ActiveOrders, BoundsAssumption DEF ExecInv, ExecTypeOK, Resting
<1> QED BY <1>1, <1>2, <1>3 DEF Wanted

\* What is filled, and what is taken off each queue before, fits into the trade.
LEMMA TradeVolume ==
  ASSUME ExecInv, NEW trade, TradeFits(trade), NEW off,
         \A id \in Reached(trade) :
           off[id] \in Nat /\ off[id] <= Queue(id, trade) /\ off[id] <= VolumeBefore(id, trade)
  PROVE  /\ SumFunctionOnSet(FilledOf(trade), Reached(trade)) + SumFunctionOnSet(off, Reached(trade))
              <= trade.qty
         /\ \A id \in Reached(trade) : FilledOf(trade)[id] \in Nat
<1>1. PICK R, w, rank, taken, given, both :
        /\ R = Reached(trade) /\ w = Wanted(trade) /\ rank = [id \in R |-> resting[id].rank]
        /\ taken = [id \in R |-> Least(w[id], VolumeBefore(id, trade))]
        /\ given = FilledOf(trade)
        /\ both = [id \in R |-> given[id] + off[id]]
  OBVIOUS
<1>2. /\ IsFiniteSet(R)
      /\ \A id \in R : /\ w[id] = Queue(id, trade) + Remaining(orders[id])
                       /\ Queue(id, trade) \in Nat /\ Remaining(orders[id]) \in Nat /\ w[id] \in Nat
                       /\ VolumeBefore(id, trade) \in Nat /\ rank[id] \in Nat
  BY <1>1, ReachedFinite
<1>3. \A id \in R : \A j \in R : rank[id] = rank[j] => id = j
  <2>1. \A id \in R : id \in DOMAIN resting
    BY <1>1, FilledByTrade
  <2> QED BY <1>1, <2>1 DEF ExecInv, RegistryHoldsActive
<1>4. ASSUME NEW id \in R
      PROVE  /\ given[id] \in Nat /\ both[id] \in Nat /\ taken[id] \in Nat /\ both[id] <= taken[id]
             /\ off[id] \in Nat /\ both[id] = given[id] + off[id]
  <2>1. PICK n, v, q, r : /\ n = FilledBy(id, trade) /\ v = VolumeBefore(id, trade)
                          /\ q = Queue(id, trade) /\ r = Remaining(orders[id])
    OBVIOUS
  <2>2. v \in Nat /\ q \in Nat /\ r \in Nat /\ w[id] = q + r /\ w[id] \in Nat
    BY <1>2, <2>1
  <2>3. n = Least(r, Left(v, q))
    BY <2>1 DEF FilledBy
  <2>4. n \in Nat /\ n <= r /\ (q <= v => n + q <= v) /\ (q > v => n = 0)
    BY <2>2, <2>3 DEF Least, Left
  <2>5. off[id] \in Nat /\ off[id] <= q /\ off[id] <= v
    BY <1>1, <2>1
  <2>6. taken[id] = Least(q + r, v)
    BY <1>1, <2>1, <2>2
  <2>7. n + off[id] <= q + r /\ n + off[id] <= v /\ off[id] <= q + r
    BY <2>2, <2>4, <2>5
  <2>8. given[id] = n \/ given[id] = 0
    BY <1>1, <2>1 DEF FilledOf
  <2>9. both[id] = given[id] + off[id]
    BY <1>1
  <2> QED BY <2>2, <2>4, <2>5, <2>6, <2>7, <2>8, <2>9 DEF Least
<1>5. SumFunctionOnSet(both, R) = SumFunctionOnSet(given, R) + SumFunctionOnSet(off, R)
  <2>1. \A id \in R : given[id] \in Int /\ off[id] \in Int /\ both[id] = given[id] + off[id]
    BY <1>4
  <2> QED BY <1>2, <2>1, SumPlus
<1>6. SumFunctionOnSet(both, R) <= SumFunctionOnSet(taken, R)
  <2>1. \A id \in R : both[id] \in Int /\ taken[id] \in Int /\ both[id] <= taken[id]
    BY <1>4
  <2> QED BY <1>2, <2>1, SumMonotone
<1>7. SumFunctionOnSet(taken, R) = trade.qty - Left(trade.qty, SumFunctionOnSet(w, R))
  <2>1. \A id \in R : Ahead(id, trade) = RankedBefore(R, rank, id)
    BY <1>1 DEF Ahead, RankedBefore
  <2>2. \A id \in R : taken[id] = Least(w[id], Left(trade.qty, SumFunctionOnSet(w, RankedBefore(R, rank, id))))
    BY <1>1, <2>1 DEF VolumeBefore
  <2>3. \A id \in R : w[id] \in Nat /\ rank[id] \in Int
    BY <1>2
  <2>4. trade.qty \in Nat
    BY DEF TradeFits
  <2> QED BY <1>2, <1>3, <2>2, <2>3, <2>4, GreedyTakes
<1>8. Left(trade.qty, SumFunctionOnSet(w, R)) \in 0..trade.qty /\ trade.qty \in Nat
  BY LeftBounds DEF TradeFits
<1>9. SumFunctionOnSet(both, R) \in Int /\ SumFunctionOnSet(taken, R) \in Int
      /\ SumFunctionOnSet(given, R) \in Int /\ SumFunctionOnSet(off, R) \in Int
  <2>1. \A id \in R : both[id] \in Int /\ taken[id] \in Int /\ given[id] \in Int /\ off[id] \in Int
    BY <1>4
  <2> QED BY <1>2, <2>1, SumWithout
<1>10. SumFunctionOnSet(given, R) + SumFunctionOnSet(off, R) <= trade.qty
  BY <1>5, <1>6, <1>7, <1>8, <1>9
<1> QED BY <1>1, <1>4, <1>10

\* The fills of a trade add up to what the orders are filled with.
LEMMA TradeSold ==
  ASSUME ExecInv, NEW trade, TradeFits(trade), NEW t, NEW sold,
         NEW made \in SUBSET TradeFills(trade, t), \A f \in TradeFills(trade, t) : sold[f] = f.qty
  PROVE  /\ SumFunctionOnSet(sold, made) \in Nat
         /\ SumFunctionOnSet(sold, made) <= SumFunctionOnSet(FilledOf(trade), Reached(trade))
<1>1. PICK T, w, to : /\ T = TradeFills(trade, t) /\ w = FilledOf(trade)
                      /\ to = [f \in T |-> f.order]
  OBVIOUS
<1>2. IsFiniteSet(T) /\ \A f, g \in T : to[f] = to[g] => f = g
  BY <1>1, TradeFillsDiffer
<1>3. \A f \in T : /\ to[f] \in Filled(trade) /\ to[f] \in Reached(trade)
                   /\ sold[f] = w[to[f]] /\ sold[f] \in Nat
  <2> SUFFICES ASSUME NEW f \in T
               PROVE  /\ to[f] \in Filled(trade) /\ to[f] \in Reached(trade)
                      /\ sold[f] = w[to[f]] /\ sold[f] \in Nat
    OBVIOUS
  <2>1. f.order \in Filled(trade) /\ f.qty = FilledBy(f.order, trade) /\ f.qty \in 1..MaxQty
    BY <1>1, TradeFillTyped
  <2>2. f.order \in Reached(trade)
    BY <2>1, FilledAreConsumed
  <2>3. w[f.order] = FilledBy(f.order, trade)
    BY <1>1, <2>1, <2>2 DEF FilledOf
  <2> QED BY <1>1, <2>1, <2>2, <2>3, BoundsAssumption
<1>4. SumFunctionOnSet(sold, made) \in Nat /\ SumFunctionOnSet(sold, made) <= SumFunctionOnSet(sold, T)
  BY <1>1, <1>2, <1>3, SumSubset
<1>5. SumFunctionOnSet(w, ImageOf(to, T)) = SumFunctionOnSet(sold, T)
  <2>1. \A f \in T : w[to[f]] \in Int /\ sold[f] = w[to[f]]
    BY <1>3
  <2> QED BY <1>2, <2>1, SumImage
<1>6. SumFunctionOnSet(w, ImageOf(to, T)) <= SumFunctionOnSet(w, Reached(trade))
  <2>1. ImageOf(to, T) \in SUBSET Reached(trade)
    BY <1>3 DEF ImageOf
  <2>2. \A id \in Reached(trade) : w[id] \in Nat
    BY <1>1, FilledByTrade, ActiveOrders, BoundsAssumption DEF FilledOf
  <2>3. IsFiniteSet(Reached(trade))
    BY ReachedFinite
  <2> QED BY <2>1, <2>2, <2>3, SumSubset
<1>7. SumFunctionOnSet(sold, T) \in Int /\ SumFunctionOnSet(w, Reached(trade)) \in Int
  <2>1. \A f \in T : sold[f] \in Int
    BY <1>3
  <2>2. \A id \in Reached(trade) : w[id] \in Int
    BY <1>1, FilledByTrade, ActiveOrders, BoundsAssumption DEF FilledOf
  <2> QED BY <1>2, <2>1, <2>2, ReachedFinite, SumWithout
<1> QED BY <1>1, <1>4, <1>5, <1>6, <1>7

-----------------------------------------------------------------------------
\* Fees.

LEMMA ProductMonotone ==
  ASSUME NEW p \in Nat, NEW a \in Nat, NEW b \in Nat, a <= b
  PROVE  p * a \in Nat /\ p * b \in Nat /\ p * a <= p * b
<1>1. PICK d \in Nat : b = a + d
  <2>1. b - a \in Nat /\ b = a + (b - a)
    OBVIOUS
  <2> QED BY <2>1
<1>2. p * b = p * a + p * d /\ p * d \in Nat /\ p * a \in Nat
  BY <1>1
<1> QED BY <1>2

\* What can be charged can be charged in part.
LEMMA FeeMonotone ==
  ASSUME NEW price \in Nat, NEW a \in Nat, NEW b \in Nat, a <= b, FeeFits(price, b)
  PROVE  FeeFits(price, a)
<1>1. PICK x, y : x = price * a /\ y = price * b
  OBVIOUS
<1>2. x \in Nat /\ y \in Nat /\ x <= y
  BY <1>1, ProductMonotone
<1>3. FeePpm \in Nat /\ MaxFee \in Nat
  <2>1. Ppm \in Nat
    BY SMT DEF Ppm
  <2> QED BY <2>1, FractionsAssumption, FeesAssumption
<1>4. PICK m, n : m = x * FeePpm /\ n = y * FeePpm
  OBVIOUS
<1>5. m \in Nat /\ n \in Nat /\ m <= n
  <2>1. m = FeePpm * x /\ n = FeePpm * y
    BY <1>2, <1>3, <1>4
  <2> QED BY <1>2, <1>3, <2>1, ProductMonotone
<1>6. (m + 500000) \div 1000000 <= (n + 500000) \div 1000000
      /\ (m + 500000) \div 1000000 \in Int /\ (n + 500000) \div 1000000 \in Int
  BY <1>5, SMT
<1>7. Fee(price, a) = (m + 500000) \div 1000000 /\ Fee(price, b) = (n + 500000) \div 1000000
  BY <1>1, <1>4, SMT DEF Fee, HalfUp, Ppm
<1> QED BY <1>3, <1>6, <1>7, SMT DEF FeeFits

\* A fee does not fit at some price the order allows, for what is left of it.
Unaffordable(o) ==
  \E price \in Prices : Allows(o, price) /\ ~FeeFits(price, Remaining(o))

\* A trade is cut short by an order that it reaches but does not fill.
LEMMA TradeUnaffordable ==
  ASSUME ExecInv, NEW trade, TradeFits(trade), FeeThrows(trade)
  PROVE  \E id \in DOMAIN orders : /\ OrdersAfterTrade(trade)[id] = orders[id]
                                   /\ Active(orders[id]) /\ Unaffordable(orders[id])
<1>1. PICK id \in Uncharged(trade) : TRUE
  BY DEF FeeThrows
<1>2. id \in Reached(trade) /\ ~FeeFits(orders[id].limit, FilledBy(id, trade))
  BY <1>1, FilledAreConsumed DEF Uncharged
<1>3. /\ id \in DOMAIN resting /\ id \in DOMAIN orders /\ Active(orders[id])
      /\ FilledBy(id, trade) \in 0..Remaining(orders[id])
  BY <1>2, FilledByTrade
<1>4. Remaining(orders[id]) \in Nat
  BY <1>2, ReachedFinite
<1>5. orders[id].limit \in Prices /\ Allows(orders[id], orders[id].limit)
  <2>1. orders[id].type = "limit" /\ StatusFits(orders[id])
    BY <1>3 DEF ExecInv, RegistryHoldsActive, StatusMatchesQuantity
  <2> QED BY <1>3, <2>1, OrderTyped DEF StatusFits, ExecInv, Allows
<1>6. ~FeeFits(orders[id].limit, Remaining(orders[id]))
  <2>1. PICK n, rest, limit : n = FilledBy(id, trade) /\ rest = Remaining(orders[id]) /\ limit = orders[id].limit
    OBVIOUS
  <2>2. n \in 0..rest /\ rest \in Nat /\ limit \in Nat
    <3>1. limit \in Nat
      BY <1>5, <2>1, PricesAssumption
    <3>2. n \in 0..rest /\ rest \in Nat
      BY <1>3, <1>4, <2>1
    <3> QED BY <3>1, <3>2
  <2> QED BY <1>2, <1>4, <2>1, <2>2, FeeMonotone
<1>7. id \notin Filled(trade)
  <2>1. resting[id].rank \in Nat
    BY <1>2, ReachedFinite
  <2> QED BY <1>1, <2>1 DEF Filled
<1>8. OrdersAfterTrade(trade)[id] = orders[id]
  BY <1>3, <1>7, TradeOrders
<1> QED BY <1>3, <1>5, <1>6, <1>8 DEF Unaffordable

\* So is the sweep of an order that arrives.
LEMMA ArrivalUnaffordable ==
  ASSUME ExecInv, NEW id \in DOMAIN orders, orders[id].status = "Pending",
         NEW book, BookFits(book), Charged(orders[id], book) # Swept(orders[id], book)
  PROVE  Unaffordable(orders[id])
<1>1. PICK o : o = orders[id]
  OBVIOUS
<1>2. o.qty \in Nat /\ Opposite(o.side) \in Sides /\ Remaining(o) = o.qty
  <2>1. o.qty \in 1..MaxQty /\ MaxQty \in Nat /\ o.side \in Sides /\ StatusFits(o)
    BY <1>1, OrderTyped DEF ExecInv, StatusMatchesQuantity
  <2>2. o.filled = 0
    BY <1>1, <2>1 DEF StatusFits
  <2> QED BY <2>1, <2>2 DEF Opposite, Sides, Remaining
<1>3. PICK q \in Swept(o, book) : ~FeeFits(q, TakenAt(o, book, q))
  BY <1>1 DEF Charged
<1>4. q \in Reachable(o, book)
  BY <1>3 DEF Swept
<1>5. q \in Prices /\ Allows(o, q) /\ q \in Nat
  BY <1>2, <1>4, PricesAssumption DEF Reachable, BookFits
<1>6. TakenAt(o, book, q) \in 0..o.qty
  BY <1>2, <1>4, TakenBounds
<1>7. ~FeeFits(q, o.qty)
  BY <1>2, <1>3, <1>5, <1>6, FeeMonotone
<1> QED BY <1>1, <1>2, <1>5, <1>7 DEF Unaffordable

-----------------------------------------------------------------------------
\* Cancels.

\* A cancel ends an active order with what it has, or changes nothing.
LEMMA CancelOutcome ==
  ASSUME ExecInv, NEW id, ProcessCancelArrival(id)
  PROVE  /\ fills' = fills /\ nextOrder' = nextOrder /\ DOMAIN orders' = DOMAIN orders
         /\ threw' \in BOOLEAN
         /\ threw' => UNCHANGED <<orders, nextOrder, executions, resting, fills, nextFill>>
         /\ threw' <=> ~(id \in DOMAIN orders /\ Active(orders[id]) /\ id \in DOMAIN resting)
         /\ ~threw' => orders'[id].status = "Canceled"
         /\ \A j \in DOMAIN orders :
              /\ Lifecycle!SameTerms(orders[j], orders'[j])
              /\ orders'[j].filled = orders[j].filled
              /\ j # id \/ threw' => orders'[j] = orders[j]
              /\ orders'[j] = orders[j] \/ Lifecycle!Progresses(orders[j], orders'[j])
<1>1. CASE Throws
  BY <1>1, SameTermsReflexive DEF Throws, ProcessCancelArrival
<1>2. CASE ~Throws
  <2>1. /\ id \in DOMAIN orders /\ Active(orders[id]) /\ id \in DOMAIN resting
        /\ orders' = [orders EXCEPT ![id].status = "Canceled"]
        /\ threw' = FALSE /\ UNCHANGED <<nextOrder, fills>>
    BY <1>2 DEF ProcessCancelArrival
  <2>2. orders[id] \in Orders /\ orders[id].filled \in Nat /\ orders[id].type = "limit"
    BY <2>1, OrderTyped DEF ExecInv, RegistryHoldsActive
  <2>3. PICK p : p = [orders[id] EXCEPT !.status = "Canceled"]
    OBVIOUS
  <2>4. /\ p.side = orders[id].side /\ p.type = orders[id].type /\ p.limit = orders[id].limit
        /\ p.qty = orders[id].qty /\ p.arrival = orders[id].arrival
        /\ p.filled = orders[id].filled /\ p.status = "Canceled"
    BY <2>2, <2>3 DEF Orders
  <2>5. Lifecycle!SameTerms(orders[id], p) /\ Lifecycle!Progresses(orders[id], p)
    BY <2>1, <2>2, <2>4 DEF Lifecycle!SameTerms, Lifecycle!Progresses, Lifecycle!Becomes, Active
  <2>6. /\ DOMAIN orders' = DOMAIN orders /\ orders'[id] = p
        /\ \A j \in DOMAIN orders : j # id => orders'[j] = orders[j]
    BY <2>1, <2>3
  <2> QED BY <2>1, <2>4, <2>5, <2>6, SameTermsReflexive
<1> QED BY <1>1, <1>2

LEMMA CancelKeepsFills ==
  ASSUME ExecInv, FillsInv, ExecInv', NEW id, ProcessCancelArrival(id)
  PROVE  FillsInv'
BY CancelOutcome, NoFillsMade

\* Submissions make no fills.
LEMMA SubmitKeepsFills ==
  ASSUME ExecInv, FillsInv, ExecInv', Extends(orders), fills' = fills
  PROVE  FillsInv'
BY NoFillsMade, SameTermsReflexive DEF Extends, Fresh

-----------------------------------------------------------------------------
\* The lifecycle and time priority under any call.

\* Orders that move as the lifecycle says, and fresh ones besides.
LEMMA CallFollowsLifecycle ==
  ASSUME NEW known, DOMAIN known = DOMAIN orders, Extends(known),
         \A id \in DOMAIN orders :
           \/ known[id] = orders[id]
           \/ /\ Lifecycle!SameTerms(orders[id], known[id])
              /\ Lifecycle!Arrives(orders[id], known[id]) \/ Lifecycle!Progresses(orders[id], known[id])
  PROVE  Lifecycle!Next
BY DEF Extends, Fresh, Lifecycle!Next

\* Calls that fill no resting order respect time priority.
LEMMA QuietPriority ==
  ASSUME ExecInv, \A j \in DOMAIN resting : orders'[j].filled = orders[j].filled
  PROVE  PriorityStep
<1>1. \A j \in DOMAIN resting : orders[j].filled \in Nat
  BY OrderTyped DEF ExecInv, RegistryHoldsActive
<1> QED BY <1>1 DEF PriorityStep

-----------------------------------------------------------------------------
\* Before the first call.

LEMMA ExecInitInv == ExecInit => ExecInv /\ FillsInv
<1> SUFFICES ASSUME ExecInit PROVE ExecInv /\ FillsInv
  OBVIOUS
<1>1. /\ DOMAIN orders = {} /\ DOMAIN resting = {} /\ fills = {} /\ nextOrder = 1 /\ nextFill = 1
      /\ executions = 0 /\ threw = FALSE
  BY DEF ExecInit
<1>2. nextOrder \in 1..(MaxOrders + 1) /\ nextFill \in Nat \ {0} /\ executions \in Nat
  BY <1>1, BoundsAssumption
<1>3. threw \in BOOLEAN
  BY <1>1
<1>4. ExecTypeOK
  BY <1>1, <1>2, <1>3 DEF ExecTypeOK
<1>5. RegistryHoldsActive /\ StatusMatchesQuantity
  BY <1>1 DEF RegistryHoldsActive, StatusMatchesQuantity
<1>6. FillsInv
  BY <1>1, FS_EmptySet DEF FillsInv, FillsAddUp, FillsWithinLimit
<1> QED BY <1>4, <1>5, <1>6 DEF ExecInv

-----------------------------------------------------------------------------

\* One step per call of the execution layer.
LEMMA CallKeepsInv ==
  ASSUME ExecInv, [ExecNext]_execVars
  PROVE  ExecInv'
<1>1. CASE \E intents \in IntentLists, latency \in Latencies, t \in Times : SubmitIntents(intents, latency, t)
  <2>1. PICK intents \in IntentLists, latency \in Latencies, t \in Times : SubmitIntents(intents, latency, t)
    BY <1>1
  <2>2. Extends(orders) /\ threw' \in BOOLEAN
    BY <2>1, SubmitExtends, CallsAssumption, IntentsAssumption DEF SubmitIntents, ExecInv
  <2> QED BY <2>1, <2>2, SubmitKeepsInv DEF SubmitIntents
<1>2. CASE \E id \in 1..MaxOrders, latency \in Latencies, t \in Times : RequestCancel(id, latency, t)
  BY <1>2, NothingChanges DEF RequestCancel
<1>3. CASE \E id \in 1..MaxOrders, t \in 0..MaxTimestamp, book \in BookStates : ProcessOrderArrival(id, t, book)
  BY <1>3, ArrivalKeepsInv, BooksAssumption
<1>4. CASE \E id \in 1..MaxOrders : ProcessCancelArrival(id)
  BY <1>4, CancelKeepsInv
<1>5. CASE \E trade \in Trades, t \in Times : ProcessTrade(trade, t)
  BY <1>5, TradesFit, ProcessTradeExtends, TradeKeepsInv
<1>6. CASE UNCHANGED execVars
  <2>1. UNCHANGED <<orders, nextOrder, executions, resting, fills, nextFill>> /\ threw' = threw
    BY <1>6 DEF execVars
  <2> QED BY <2>1, NothingChanges DEF ExecInv, ExecTypeOK
<1> QED BY <1>1, <1>2, <1>3, <1>4, <1>5, <1>6 DEF ExecNext

LEMMA ExecInvariant == ExecSpec => []ExecInv
BY ExecInitInv, CallKeepsInv, PTL DEF ExecSpec

(* The execution layer's state stays well typed whatever is called: the    *)
(* sweep and the trade allocation of src/latency_execution.cpp never drive *)
(* a quantity out of range, a fill is never empty, and ids only grow.      *)
THEOREM ExecTypeCorrect == ExecSpec => []ExecTypeOK
BY ExecInvariant, PTL DEF ExecInv

\* What a call finds or puts in the registry is active, but for what was left there.
LEMMA NothingLeft ==
  ASSUME \A j \in DOMAIN resting' :
           Active(orders'[j]) \/ (j \in DOMAIN resting /\ orders'[j] = orders[j])
  PROVE  Leftover' \subseteq Leftover
BY DEF Leftover, Active

\* A trade that is carried through leaves no filled order, unless it does nothing.
LEMMA TradeClears ==
  ASSUME ExecInv, NEW trade \in Trades, NEW t, ProcessTrade(trade, t), ~threw'
  PROVE  RegistryStep
<1>1. TradeFits(trade) /\ ~FeeThrows(trade) /\ orders' = OrdersAfterTrade(trade)
  BY TradesFit DEF ProcessTrade
<1>2. DOMAIN resting' = Kept(trade) /\ Kept(trade) \subseteq DOMAIN resting
  BY <1>1, TradeQueues, TradeOrders DEF ProcessTrade
<1>3. CASE ~Ignored(trade)
  <2>1. \A j \in DOMAIN resting' : Active(orders'[j])
    BY <1>1, <1>2, <1>3 DEF Kept
  <2>2. Leftover' = {}
    BY <2>1 DEF Leftover, Active
  <2> QED BY <2>2 DEF RegistryStep
<1>4. CASE Ignored(trade)
  <2>1. Filled(trade) = {}
    <3> SUFFICES ASSUME NEW id \in Filled(trade) PROVE FALSE
      OBVIOUS
    <3>1. id \in Reached(trade) /\ id \in Met(trade)
      BY <1>1, FilledAreConsumed
    <3>2. id \in DOMAIN resting /\ id \in DOMAIN orders /\ VolumeBefore(id, trade) > 0
      BY <1>1, <3>1, FilledByTrade DEF Met
    <3>3. CASE trade.qty = 0
      <4>1. \A b : Left(0, b) = 0
        BY DEF Left
      <4> QED BY <3>2, <3>3, <4>1 DEF VolumeBefore
    <3>4. CASE trade.aggressor = NoSide
      <4>1. Hits(orders[id], trade)
        BY <3>1 DEF Reached, At, Through
      <4>2. orders[id].side \in Sides
        BY <3>2, OrderTyped DEF ExecInv
      <4> QED BY <3>4, <4>1, <4>2 DEF Hits, Opposite, Sides, NoSide
    <3> QED BY <1>4, <3>3, <3>4 DEF Ignored
  <2>2. TradeFills(trade, t) = {}
    BY <2>1 DEF TradeFills
  <2>3. fills' = fills
    BY <2>2 DEF ProcessTrade, TradeEffects
  <2>4. \A j \in DOMAIN resting' : j \in DOMAIN orders /\ j \in DOMAIN resting
    BY <1>2 DEF ExecInv, RegistryHoldsActive
  <2>5. \A j \in DOMAIN resting' : j \in DOMAIN resting /\ orders'[j] = orders[j]
    BY <1>1, <2>1, <2>4, TradeOrders
  <2> QED BY <2>3, <2>5, NothingLeft DEF RegistryStep
<1> QED BY <1>3, <1>4

\* One step per call that is carried through.
LEMMA CallKeepsRegistry ==
  ASSUME ExecInv, ExecNext
  PROVE  RegistryStep
<1>0. DOMAIN resting \subseteq DOMAIN orders /\ executions \in Nat
  BY DEF ExecInv, ExecTypeOK, RegistryHoldsActive
<1>1. CASE \E intents \in IntentLists, latency \in Latencies, t \in Times : SubmitIntents(intents, latency, t)
  <2>1. PICK intents \in IntentLists, latency \in Latencies, t \in Times : SubmitIntents(intents, latency, t)
    BY <1>1
  <2>2. Extends(orders) /\ resting' = resting /\ fills' = fills
    BY <2>1, SubmitExtends, CallsAssumption, IntentsAssumption DEF SubmitIntents, ExecInv
  <2>3. \A j \in DOMAIN resting' : j \in DOMAIN resting /\ orders'[j] = orders[j]
    BY <1>0, <2>2 DEF Extends
  <2> QED BY <2>2, <2>3, NothingLeft DEF RegistryStep
<1>2. CASE \E id \in 1..MaxOrders, latency \in Latencies, t \in Times : RequestCancel(id, latency, t)
  BY <1>2, NothingLeft DEF RequestCancel, RegistryStep
<1>3. CASE \E id \in 1..MaxOrders, t \in 0..MaxTimestamp, book \in BookStates : ProcessOrderArrival(id, t, book)
  <2>1. PICK id \in 1..MaxOrders, t \in 0..MaxTimestamp, book \in BookStates : ProcessOrderArrival(id, t, book)
    BY <1>3
  <2> SUFFICES ASSUME ~threw' PROVE Leftover' \subseteq Leftover /\ executions' # executions
    BY DEF RegistryStep
  <2>2. Completes(id, t, book)
    BY <2>1, ArrivalOutcome
  <2>3. executions' # executions
    BY <1>0, <2>2 DEF Completes
  <2>4. id \in DOMAIN orders /\ orders[id].status = "Pending" /\ BookFits(book)
    BY <2>1, <2>2, BooksAssumption DEF Completes, ArrivalAccepted
  <2>5. id \notin DOMAIN resting
    BY <2>4 DEF ExecInv, RegistryHoldsActive, Active
  <2>6. id \in DOMAIN resting' => Active(orders'[id])
    <3> DEFINE p == Arrived(orders[id], book)
    <3>1. /\ p.type = orders[id].type
          /\ Active(p) <=> p.type = "limit" /\ SweepFilled(orders[id], book) < orders[id].qty
      BY <2>4, ArrivedOrder
    <3> HIDE DEF p
    <3>2. orders'[id] = p
      BY <2>2 DEF Completes, p
    <3>3. id \in DOMAIN resting' => orders[id].type = "limit" /\ SweepFilled(orders[id], book) < orders[id].qty
      BY <2>2, <2>5 DEF Completes
    <3> QED BY <3>1, <3>2, <3>3
  <2>7. \A j \in DOMAIN resting' : j # id => j \in DOMAIN resting /\ orders'[j] = orders[j]
    BY <1>0, <2>2 DEF Completes
  <2> QED BY <2>3, <2>6, <2>7, NothingLeft
<1>4. CASE \E id \in 1..MaxOrders : ProcessCancelArrival(id)
  <2>1. PICK id \in 1..MaxOrders : ProcessCancelArrival(id)
    BY <1>4
  <2>2. fills' = fills
    BY <2>1, CancelOutcome
  <2>3. CASE Throws
    BY <2>3, NothingLeft DEF Throws, RegistryStep
  <2>4. CASE ~Throws
    <3>1. /\ orders' = [orders EXCEPT ![id].status = "Canceled"]
          /\ resting' = Restrict(resting, DOMAIN resting \ {id})
      BY <2>1, <2>4 DEF ProcessCancelArrival
    <3>2. \A j \in DOMAIN resting' : j \in DOMAIN resting /\ orders'[j] = orders[j]
      BY <1>0, <3>1 DEF Restrict
    <3> QED BY <2>2, <3>2, NothingLeft DEF RegistryStep
  <2> QED BY <2>3, <2>4
<1>5. CASE \E trade \in Trades, t \in Times : ProcessTrade(trade, t)
  <2>1. CASE threw'
    BY <2>1 DEF RegistryStep
  <2>2. CASE ~threw'
    BY <1>5, <2>2, TradeClears
  <2> QED BY <2>1, <2>2
<1> QED BY <1>1, <1>2, <1>3, <1>4, <1>5 DEF ExecNext

(* active_limit_orders_ and the order statuses agree whatever the caller   *)
(* of src/latency_execution.cpp does: an active order is always found in   *)
(* the registry, and what it holds besides are orders filled by a trade    *)
(* that threw, which the next one that fills an order and returns erases.  *)
THEOREM RegistryCorrect == ExecSpec => RegistryMatchesStatus
<1>1. ExecInv /\ [ExecNext]_execVars => [RegistryStep]_execVars
  BY CallKeepsRegistry
<1>2. ExecInv => RegistryHoldsActive
  BY DEF ExecInv
<1> QED BY <1>1, <1>2, ExecInvariant, PTL DEF ExecSpec, RegistryMatchesStatus

(* A status never claims more or less than what was filled: Filled means   *)
(* in full, Acknowledged means not at all, and a partial fill is partial.  *)
THEOREM StatusCorrect == ExecSpec => []StatusMatchesQuantity
BY ExecInvariant, PTL DEF ExecInv

-----------------------------------------------------------------------------
\* The queue of a resting order under each call.

\* Orders that were resting are found unchanged, in an unchanged queue.
LEMMA UntouchedQueue ==
  ASSUME ExecInv,
         \A j \in DOMAIN resting \cap DOMAIN resting' :
           resting'[j] = resting[j] /\ orders'[j] = orders[j]
  PROVE  QueueStep
<1> SUFFICES ASSUME NEW j \in DOMAIN resting \cap DOMAIN resting'
             PROVE  /\ resting'[j].ahead <= resting[j].ahead
                    /\ orders'[j].filled > orders[j].filled => resting'[j].ahead = 0
  BY DEF QueueStep
<1>1. resting[j] \in Resting /\ j \in DOMAIN orders
  BY DEF ExecInv, ExecTypeOK, RegistryHoldsActive
<1>2. resting[j].ahead \in Nat /\ orders[j].filled \in 0..MaxQty
  BY <1>1, OrderTyped DEF ExecInv, Resting
<1> QED BY <1>2, BoundsAssumption

\* New ids are above every order that rests.
LEMMA SubmitKeepsQueue ==
  ASSUME ExecInv, NEW intents \in IntentLists, NEW latency \in Latencies, NEW t \in Times,
         SubmitIntents(intents, latency, t)
  PROVE  QueueStep
<1>1. PICK n \in 0..Len(intents) :
        orders' = [id \in DOMAIN orders \cup nextOrder..(nextOrder + n - 1) |->
                     IF id < nextOrder THEN orders[id]
                     ELSE NewOrder(intents[id - nextOrder + 1], t, latency)]
  BY DEF SubmitIntents, Submit
<1>2. \A j \in DOMAIN resting : j \in DOMAIN orders /\ j < nextOrder
  BY DEF ExecInv, ExecTypeOK, RegistryHoldsActive
<1>3. resting' = resting
  BY DEF SubmitIntents
<1> QED BY <1>1, <1>2, <1>3, UntouchedQueue

\* An order that was resting is not the one that arrives.
LEMMA ArrivalKeepsQueue ==
  ASSUME ExecInv, NEW id \in 1..MaxOrders, NEW t \in 0..MaxTimestamp, NEW book \in BookStates,
         ProcessOrderArrival(id, t, book)
  PROVE  QueueStep
<1>1. CASE Throws
  BY <1>1, UntouchedQueue DEF Throws
<1>3. CASE OnlyIdsUsed(id, book)
  BY <1>3, UntouchedQueue DEF OnlyIdsUsed
<1>2. CASE ~Throws /\ ~OnlyIdsUsed(id, book)
  <2> DEFINE o == orders[id]
             filled == SweepFilled(o, book)
             status == StatusOnArrival(o, book, filled)
             entry == [ahead |-> QueueOnArrival(o, book), rank |-> executions]
  <2>1. /\ id \in DOMAIN orders /\ o.status = "Pending"
        /\ orders' = [orders EXCEPT ![id].filled = filled, ![id].status = status]
        /\ \/ resting' = resting
           \/ resting' = [j \in DOMAIN resting \cup {id} |-> IF j = id THEN entry ELSE resting[j]]
    BY <1>2 DEF ProcessOrderArrival, ArrivalAccepted, OnlyIdsUsed
  <2> HIDE DEF filled, status, entry
  <2>2. id \notin DOMAIN resting /\ DOMAIN resting \subseteq DOMAIN orders
    BY <2>1 DEF ExecInv, RegistryHoldsActive, Active
  <2>3. \A j \in DOMAIN resting : orders'[j] = orders[j]
    BY <2>1, <2>2
  <2>4. \A j \in DOMAIN resting : resting'[j] = resting[j]
    BY <2>1, <2>2
  <2> QED BY <2>3, <2>4, UntouchedQueue
<1> QED BY <1>1, <1>2, <1>3

LEMMA CancelKeepsQueue ==
  ASSUME ExecInv, NEW id \in 1..MaxOrders, ProcessCancelArrival(id)
  PROVE  QueueStep
<1>1. CASE Throws
  BY <1>1, UntouchedQueue DEF Throws
<1>2. CASE ~Throws
  <2>1. /\ orders' = [orders EXCEPT ![id].status = "Canceled"]
        /\ resting' = Restrict(resting, DOMAIN resting \ {id})
    BY <1>2 DEF ProcessCancelArrival
  <2>2. /\ DOMAIN resting' = DOMAIN resting \ {id}
        /\ \A j \in DOMAIN resting' : resting'[j] = resting[j]
    BY <2>1 DEF Restrict
  <2>3. \A j \in DOMAIN resting' : orders'[j] = orders[j]
    BY <2>1, <2>2 DEF ExecInv, RegistryHoldsActive
  <2> QED BY <2>2, <2>3, UntouchedQueue
<1> QED BY <1>1, <1>2

\* Of a queue at least as long as the volume nothing is left to fill with;
\* of a queue shorter than the volume nothing is left.
LEMMA OneIsUsedUp ==
  ASSUME NEW queue \in Nat, NEW volume \in Nat
  PROVE  Left(volume, queue) > 0 => Left(queue, volume) = 0
BY DEF Left

\* A trade consumes the queue ahead of an order before it fills the order.
LEMMA TradeKeepsQueue ==
  ASSUME ExecInv, NEW trade \in Trades, NEW t \in Times, ProcessTrade(trade, t)
  PROVE  QueueStep
<1>0. TradeFits(trade)
  BY TradesFit
<1>1. /\ orders' = OrdersAfterTrade(trade)
      /\ resting' = [id \in Kept(trade) |->
                       IF id \in Consumed(trade)
                       THEN [resting[id] EXCEPT
                               !.ahead = Left(Queue(id, trade), VolumeBefore(id, trade))]
                       ELSE resting[id]]
  BY DEF ProcessTrade, TradeEffects
<1> SUFFICES ASSUME NEW id \in DOMAIN resting, id \in DOMAIN resting'
             PROVE  /\ resting'[id].ahead <= resting[id].ahead
                    /\ orders'[id].filled > orders[id].filled => resting'[id].ahead = 0
  BY DEF QueueStep
<1>2. resting[id] \in Resting /\ resting[id].ahead \in Nat
  BY DEF ExecInv, ExecTypeOK, Resting
<1>3. id \in DOMAIN orders /\ orders[id].filled \in 0..MaxQty /\ MaxQty \in Nat
  BY OrderTyped DEF ExecInv, RegistryHoldsActive
<1>4. CASE id \in Consumed(trade)
  <2> DEFINE volume == VolumeBefore(id, trade)
             queue == Queue(id, trade)
  <2>1. /\ id \in Reached(trade) /\ volume \in Nat /\ queue \in Nat
        /\ Remaining(orders[id]) \in Nat
    <3>1. id \in Reached(trade)
      BY <1>0, <1>4, FilledAreConsumed
    <3> QED BY <1>0, <3>1, FilledByTrade, ActiveOrders
  <2>2. queue <= resting[id].ahead
    BY <1>2 DEF Queue
  <2>3. resting'[id].ahead = Left(queue, volume)
    <3>1. resting'[id] = [resting[id] EXCEPT !.ahead = Left(queue, volume)]
      BY <1>1, <1>4
    <3> QED BY <1>2, <3>1 DEF Resting
  <2>4. orders'[id].filled > orders[id].filled => Left(volume, queue) > 0
    <3>1. CASE id \in Filled(trade)
      <4>1. FilledBy(id, trade) > 0 /\ FilledBy(id, trade) = Least(Remaining(orders[id]), Left(volume, queue))
        BY <1>0, <3>1, FilledAreConsumed DEF FilledBy
      <4>2. Left(volume, queue) \in Nat
        BY <2>1, LeftBounds
      <4> HIDE DEF volume, queue
      <4> QED BY <2>1, <4>1, <4>2 DEF Least
    <3>2. CASE id \notin Filled(trade)
      <4>1. orders'[id] = orders[id]
        BY <1>1, <1>3, <3>2 DEF OrdersAfterTrade
      <4> QED BY <1>3, <4>1
    <3> QED BY <3>1, <3>2
  <2> HIDE DEF volume, queue
  <2>5. Left(queue, volume) \in 0..queue
    BY <2>1, LeftBounds
  <2> QED BY <1>2, <2>1, <2>2, <2>3, <2>4, <2>5, OneIsUsedUp
<1>5. CASE id \notin Consumed(trade)
  <2>1. resting'[id] = resting[id]
    BY <1>1, <1>5
  <2>2. orders'[id] = orders[id]
    BY <1>0, <1>1, <1>3, <1>5, FilledAreConsumed DEF OrdersAfterTrade
  <2> QED BY <1>2, <1>3, <2>1, <2>2
<1> QED BY <1>4, <1>5

LEMMA CallKeepsQueue ==
  ASSUME ExecInv, ExecNext
  PROVE  QueueStep
<1>1. CASE \E intents \in IntentLists, latency \in Latencies, t \in Times : SubmitIntents(intents, latency, t)
  BY <1>1, SubmitKeepsQueue
<1>2. CASE \E id \in 1..MaxOrders, latency \in Latencies, t \in Times : RequestCancel(id, latency, t)
  BY <1>2, UntouchedQueue DEF RequestCancel
<1>3. CASE \E id \in 1..MaxOrders, t \in 0..MaxTimestamp, book \in BookStates : ProcessOrderArrival(id, t, book)
  BY <1>3, ArrivalKeepsQueue
<1>4. CASE \E id \in 1..MaxOrders : ProcessCancelArrival(id)
  BY <1>4, CancelKeepsQueue
<1>5. CASE \E trade \in Trades, t \in Times : ProcessTrade(trade, t)
  BY <1>5, TradeKeepsQueue
<1> QED BY <1>1, <1>2, <1>3, <1>4, <1>5 DEF ExecNext

\* What an order gets is what is left of the volume that reached it, and
\* that volume is no more than the trade.
LEMMA TradeLeavesQueue ==
  ASSUME ExecInv
  PROVE  VolumeStep
<1> SUFFICES ASSUME NEW id \in DOMAIN resting, orders'[id].filled > orders[id].filled,
                    NEW trade \in Trades, NEW t \in Times, ProcessTrade(trade, t)
             PROVE  orders'[id].filled - orders[id].filled <= Left(trade.qty, Queue(id, trade))
  BY DEF VolumeStep
<1> DEFINE volume == VolumeBefore(id, trade)
           queue == Queue(id, trade)
           remaining == Remaining(orders[id])
<1>0. TradeFits(trade)
  BY TradesFit
<1>1. id \in DOMAIN orders /\ orders[id].filled \in 0..MaxQty /\ MaxQty \in Nat
  BY OrderTyped DEF ExecInv, RegistryHoldsActive
<1>2. orders' = OrdersAfterTrade(trade)
  BY DEF ProcessTrade
<1>3. CASE id \in Filled(trade)
  <2>1. id \in Reached(trade)
    BY <1>0, <1>3, FilledAreConsumed
  <2>2. volume \in Nat /\ queue \in Nat /\ remaining \in Nat
    BY <1>0, <2>1, FilledByTrade, ActiveOrders
  <2>3. orders'[id].filled = orders[id].filled + FilledBy(id, trade)
    BY <1>1, <1>2, <1>3, OrderTyped DEF OrdersAfterTrade, AfterTrade, ExecInv, Orders
  <2>4. FilledBy(id, trade) = Least(remaining, Left(volume, queue))
    BY DEF FilledBy
  <2>5. trade.qty \in Nat /\ volume \in 0..trade.qty
    <3>1. trade.qty \in Nat
      BY BoundsAssumption DEF Trades
    <3> QED BY <3>1, LeftBounds DEF VolumeBefore
  <2> HIDE DEF volume, queue, remaining
  <2>6. Left(volume, queue) <= Left(trade.qty, queue)
    BY <2>2, <2>5 DEF Left
  <2>7. FilledBy(id, trade) \in 0..Left(volume, queue)
    <3>1. Left(volume, queue) \in Nat
      BY <2>2, LeftBounds
    <3> QED BY <2>2, <2>4, <3>1, LeastBounds
  <2>8. Left(volume, queue) \in Nat /\ Left(trade.qty, queue) \in Nat
    BY <2>2, <2>5, LeftBounds
  <2> QED BY <1>1, <2>3, <2>6, <2>7, <2>8 DEF queue
<1>4. CASE id \notin Filled(trade)
  <2>1. orders'[id] = orders[id]
    BY <1>1, <1>2, <1>4 DEF OrdersAfterTrade
  <2> QED BY <1>1, <2>1
<1> QED BY <1>3, <1>4

(* process_trade of src/latency_execution.cpp consumes the queue ahead of  *)
(* a resting order before it fills the order, also when it fills it for    *)
(* good, and no call lets the queue grow: whatever the caller does,        *)
(* whatever other orders share the trade.                                  *)
THEOREM QueueCorrect == ExecSpec => QueueRespected
<1>1. ExecInv /\ [ExecNext]_execVars => [QueueStep /\ VolumeStep]_execVars
  BY CallKeepsQueue, TradeLeavesQueue
<1> QED BY <1>1, ExecInvariant, PTL DEF ExecSpec, QueueRespected

-----------------------------------------------------------------------------
\* The fills, the lifecycle and the priority of orders under each call.

LEMMA CallKeepsFills ==
  ASSUME ExecInv, FillsInv, [ExecNext]_execVars
  PROVE  FillsInv'
<1>0. ExecInv'
  BY CallKeepsInv
<1>1. CASE \E intents \in IntentLists, latency \in Latencies, t \in Times : SubmitIntents(intents, latency, t)
  <2>1. PICK intents \in IntentLists, latency \in Latencies, t \in Times : SubmitIntents(intents, latency, t)
    BY <1>1
  <2>2. Extends(orders) /\ fills' = fills
    BY <2>1, SubmitExtends, CallsAssumption, IntentsAssumption DEF SubmitIntents, ExecInv
  <2> QED BY <1>0, <2>2, SubmitKeepsFills
<1>2. CASE \E id \in 1..MaxOrders, latency \in Latencies, t \in Times : RequestCancel(id, latency, t)
  BY <1>0, <1>2, NoFillsMade, SameTermsReflexive DEF RequestCancel
<1>3. CASE \E id \in 1..MaxOrders, t \in 0..MaxTimestamp, book \in BookStates : ProcessOrderArrival(id, t, book)
  BY <1>0, <1>3, ArrivalKeepsFills, BooksAssumption
<1>4. CASE \E id \in 1..MaxOrders : ProcessCancelArrival(id)
  BY <1>0, <1>4, CancelKeepsFills
<1>5. CASE \E trade \in Trades, t \in Times : ProcessTrade(trade, t)
  BY <1>0, <1>5, TradesFit, ProcessTradeExtends, TradeKeepsFills
<1>6. CASE UNCHANGED execVars
  BY <1>0, <1>6, NoFillsMade, SameTermsReflexive DEF execVars
<1> QED BY <1>1, <1>2, <1>3, <1>4, <1>5, <1>6 DEF ExecNext

LEMMA FillsInvariant == ExecSpec => [](ExecInv /\ FillsInv)
BY ExecInitInv, CallKeepsInv, CallKeepsFills, PTL DEF ExecSpec

(* What the sweep and the trade allocation of src/latency_execution.cpp    *)
(* hand out is what they book on the orders, also when a fee overflows     *)
(* half way through a call, and no fill id is given twice: for any number  *)
(* of levels in a book and of orders sharing a trade.                      *)
THEOREM FillsCorrect == ExecSpec => []FillsAddUp
BY FillsInvariant, PTL DEF FillsInv

(* No fill of a limit order is worse than its limit, and an order's later  *)
(* fills never return to a better price, whatever book it arrives against  *)
(* and whatever trades follow.                                             *)
THEOREM FillPricesCorrect == ExecSpec => []FillsWithinLimit
BY FillsInvariant, PTL DEF FillsInv

\* Each call leaves the orders further along their lifecycle, and serves
\* resting orders in their turn.
LEMMA CallServesInTurn ==
  ASSUME ExecInv, ExecNext
  PROVE  Lifecycle!Next /\ PriorityStep
<1>0. DOMAIN resting \subseteq DOMAIN orders
  BY DEF ExecInv, RegistryHoldsActive
<1>1. CASE \E intents \in IntentLists, latency \in Latencies, t \in Times : SubmitIntents(intents, latency, t)
  <2>1. PICK intents \in IntentLists, latency \in Latencies, t \in Times : SubmitIntents(intents, latency, t)
    BY <1>1
  <2>2. Extends(orders)
    BY <2>1, SubmitExtends, CallsAssumption, IntentsAssumption DEF SubmitIntents, ExecInv
  <2>3. \A j \in DOMAIN resting : orders'[j].filled = orders[j].filled
    BY <1>0, <2>2 DEF Extends
  <2> QED BY <2>2, <2>3, CallFollowsLifecycle, QuietPriority
<1>2. CASE \E id \in 1..MaxOrders, latency \in Latencies, t \in Times : RequestCancel(id, latency, t)
  <2>1. orders' = orders
    BY <1>2 DEF RequestCancel
  <2> QED BY <2>1, QuietPriority DEF Lifecycle!Next
<1>3. CASE \E id \in 1..MaxOrders, t \in 0..MaxTimestamp, book \in BookStates : ProcessOrderArrival(id, t, book)
  <2>1. PICK id \in 1..MaxOrders, t \in 0..MaxTimestamp, book \in BookStates : ProcessOrderArrival(id, t, book)
    BY <1>3
  <2>2. CASE threw'
    <3>1. orders' = orders
      BY <2>1, <2>2, ArrivalOutcome
    <3> QED BY <3>1, QuietPriority DEF Lifecycle!Next
  <2>3. CASE ~threw'
    <3>1. /\ id \in DOMAIN orders /\ orders[id].status = "Pending" /\ DOMAIN orders' = DOMAIN orders
          /\ orders'[id] = Arrived(orders[id], book)
          /\ \A j \in DOMAIN orders : j # id => orders'[j] = orders[j]
      BY <2>1, <2>3, ArrivalOutcome, ZenonT(60) DEF Completes, ArrivalAccepted
    <3>2. Lifecycle!SameTerms(orders[id], orders'[id]) /\ Lifecycle!Arrives(orders[id], orders'[id])
      BY <3>1, ArrivesAsAllowed, BooksAssumption
    <3>3. id \notin DOMAIN resting
      BY <3>1 DEF ExecInv, RegistryHoldsActive, Active
    <3>4. \A j \in DOMAIN resting : orders'[j].filled = orders[j].filled
      BY <1>0, <3>1, <3>3
    <3>5. PriorityStep
      BY <3>4, QuietPriority
    <3> QED BY <3>1, <3>2, <3>5 DEF Lifecycle!Next
  <2> QED BY <2>1, <2>2, <2>3, ArrivalOutcome
<1>4. CASE \E id \in 1..MaxOrders : ProcessCancelArrival(id)
  <2>1. /\ DOMAIN orders' = DOMAIN orders
        /\ \A j \in DOMAIN orders :
             /\ Lifecycle!SameTerms(orders[j], orders'[j]) /\ orders'[j].filled = orders[j].filled
             /\ orders'[j] = orders[j] \/ Lifecycle!Progresses(orders[j], orders'[j])
    BY <1>4, CancelOutcome
  <2>2. \A j \in DOMAIN resting : orders'[j].filled = orders[j].filled
    BY <1>0, <2>1
  <2>3. PriorityStep
    BY <2>2, QuietPriority
  <2> QED BY <2>1, <2>3 DEF Lifecycle!Next
<1>5. CASE \E trade \in Trades, t \in Times : ProcessTrade(trade, t)
  <2>1. PICK trade \in Trades, t \in Times : ProcessTrade(trade, t)
    BY <1>5
  <2>2. TradeFits(trade)
    BY TradesFit
  <2>3. Extends(OrdersAfterTrade(trade)) /\ DOMAIN OrdersAfterTrade(trade) = DOMAIN orders
    BY <2>1, <2>2, ProcessTradeExtends, TradeOrders
  <2>4. Lifecycle!Next
    BY <2>2, <2>3, TradeBooks, CallFollowsLifecycle
  <2> QED BY <2>2, <2>3, <2>4, TradePriority
<1> QED BY <1>1, <1>2, <1>3, <1>4, <1>5 DEF ExecNext

(* process_trade of src/latency_execution.cpp serves resting orders in     *)
(* the order they came to rest: none is filled by a trade while an earlier *)
(* one at the same or a better limit on its side still wants volume.       *)
THEOREM PriorityCorrect == ExecSpec => TimePriority
<1>1. ExecInv /\ [ExecNext]_execVars => [PriorityStep]_execVars
  BY CallServesInTurn
<1> QED BY <1>1, ExecInvariant, PTL DEF ExecSpec, TimePriority

(* The execution layer implements OrderLifecycle: whatever the calls of    *)
(* src/latency_execution.cpp do with books, queues, fees and trades, what  *)
(* they do to an order is a step of the diagram in src/order.cpp.          *)
THEOREM ExecImplementsLifecycle == ExecSpec => OrdersFollowLifecycle
<1>1. ExecInit => Lifecycle!Init
  BY DEF ExecInit, Lifecycle!Init
<1>2. ExecInv /\ [ExecNext]_execVars => [Lifecycle!Next]_orders
  BY CallServesInTurn DEF execVars
<1> QED BY <1>1, <1>2, ExecInvariant, PTL DEF ExecSpec, OrdersFollowLifecycle, Lifecycle!Spec
=============================================================================
