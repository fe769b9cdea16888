--------------------------- MODULE MCReplayEngine ---------------------------
(***************************************************************************)
(* Small instances of ReplayEngine: all ordered feeds of a few events.     *)
(***************************************************************************)
EXTENDS ReplayEngine

CONSTANTS MaxTime, MaxFeed, MaxIntents, MCTypes

MCConfigs == [orderLatency : {0, 1}, cancelAfter : {NoCancel, 1}]

\* Our orders buy; asks give them something to take, bids to queue behind (at
\* price 2 in a locked book), seller-initiated trades something to wait for.
BookEvents ==
  {[type |-> "book", side |-> "sell", price |-> 2, qty |-> 0],
   [type |-> "book", side |-> "sell", price |-> 2, qty |-> 1],
   [type |-> "book", side |-> "buy", price |-> 1, qty |-> 2],
   [type |-> "book", side |-> "buy", price |-> 2, qty |-> 1]}

TradeEvents ==
  {[type |-> "trade", price |-> p, qty |-> 3 - p, aggressor |-> "sell"] : p \in Prices}

MCPayloads == BookEvents \cup TradeEvents

\* Only later times are compared with the first; with no book and no orders
\* yet, a trade does what any other does; a book update changes the book.
SaidBefore(f, k) ==
  {j \in 1..(k - 1) : /\ f[j].event.type = "book"
                      /\ f[j].event.side = f[k].event.side /\ f[j].event.price = f[k].event.price}

TellsNews(f, k) ==
  f[k].event.type = "book" =>
    f[k].event.qty # IF SaidBefore(f, k) = {} THEN 0 ELSE f[Max(SaidBefore(f, k))].event.qty

Telling(f) ==
  /\ f # << >> => f[1].ts = 0 /\ (f[1].event.type = "trade" => f[1].event.price = 1)
  /\ \A k \in DOMAIN f : TellsNews(f, k)

\* Sequence numbers matter only between events of one timestamp.
MCFeeds ==
  {f \in {[k \in DOMAIN g |-> g[k] @@ [seq |-> k]] :
          g \in BoundedSeq([ts : 0..MaxTime, event : MCPayloads], MaxFeed)} :
     Merged(f) /\ Telling(f)}

MCIntents ==
  {i \in [side : {"buy"}, type : MCTypes, qty : 1..MaxQty, limit : Prices \cup {NoLimit}] :
     /\ i.limit = NoLimit <=> i.type = "market"
     /\ i.type = "market" => i.qty = MaxQty}

MCIntentLists == BoundedSeq(MCIntents, MaxIntents)
=============================================================================
