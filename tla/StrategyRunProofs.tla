-------------------------- MODULE StrategyRunProofs --------------------------
(***************************************************************************)
(* Theorems about a strategy shown a feed, for every feed, script, setting *)
(* and set of prices: what the book shows, which intents a script leads    *)
(* to, and which signals the queue imbalance gives.                        *)
(***************************************************************************)
EXTENDS StrategyRun, DataLemmas

Emitted ==
  [side : Sides, type : {"market", "limit"}, qty : Int, limit : Limits, ts : Nat]

Typed ==
  /\ setting \in Settings /\ feed \in Feeds /\ next \in 1..(Len(feed) + 1) /\ now \in Nat
  /\ \A e \in queue : e.ts \in Nat
  /\ loaded \in {"no", "yes", "refused"} /\ status \in Loop!Statuses
  /\ script \in Seq(Entries) /\ emitted \subseteq DOMAIN script
  /\ intents \in Seq(Emitted)

\* Before a configuration is accepted there is no script, before run() no event.
Accepted ==
  /\ loaded # "yes" => script = << >> /\ status = "idle"
  /\ loaded = "yes" => ValidSetting(setting)
  /\ status = "idle" => next = 1 /\ emitted = {} /\ intents = << >>
  /\ \A k \in DOMAIN script : ValidEntry(script[k])
  /\ \A i, j \in DOMAIN script : i < j => ~EntryBefore(script[j], script[i])

RunTyped == Typed /\ Accepted

LEMMA FeedTyped ==
  ASSUME Typed
  PROVE  /\ feed \in Seq(MarketEvents) /\ Len(feed) \in Nat /\ DOMAIN feed = 1..Len(feed)
         /\ next \in Nat /\ next - 1 \in Nat /\ next - 1 <= Len(feed)
         /\ \A k \in 1..Len(feed) :
              /\ feed[k] \in MarketEvents /\ feed[k].ts \in Nat /\ feed[k].seq \in Nat
              /\ feed[k].event \in Updates
         /\ \A i, j \in 1..Len(feed) : i < j => ~KeyBefore(feed[j], feed[i])
<1>1. feed \in Seq(MarketEvents)
  BY FeedsAssumption DEF Typed
<1>2. Len(feed) \in Nat /\ DOMAIN feed = 1..Len(feed)
  BY <1>1
<1>3. \A k \in 1..Len(feed) : feed[k] \in MarketEvents
  BY <1>1
<1>4. next \in Nat /\ next - 1 \in Nat /\ next - 1 <= Len(feed)
  BY <1>2 DEF Typed
<1>5. \A k \in 1..Len(feed) : feed[k].ts \in Nat /\ feed[k].seq \in Nat /\ feed[k].event \in Updates
  BY <1>3 DEF MarketEvents
<1>6. \A i, j \in 1..Len(feed) : i < j => ~KeyBefore(feed[j], feed[i])
  BY <1>2, FeedsAssumption DEF Typed
<1> QED BY <1>1, <1>2, <1>3, <1>4, <1>5, <1>6

-----------------------------------------------------------------------------
(* The event loop: handlers that schedule nothing. *)

LEMMA MarketStep ==
  ASSUME Typed, NEW throws \in BOOLEAN,
         Loop!DispatchMarket([requests |-> << >>, throws |-> throws])
  PROVE  /\ status = "running" /\ next \in 1..Len(feed)
         /\ feed' = feed /\ next' = next + 1 /\ now' = feed[next].ts /\ now' \in Nat /\ now <= now'
         /\ queue' = queue
         /\ status' = IF throws THEN "handler_threw" ELSE "running"
<1>1. /\ status = "running" /\ next <= Len(feed) /\ feed[next].ts >= now
      /\ now' = feed[next].ts /\ next' = next + 1 /\ feed' = feed
      /\ Loop!Handle([requests |-> << >>, throws |-> throws], feed[next].ts, queue)
  BY DEF Loop!DispatchMarket, Loop!MarketFirst
<1>2. PICK n \in 0..Len(<< >>) :
        /\ queue' = queue \cup Loop!Numbered(<< >>, n)
        /\ status' = IF n = Len(<< >>) /\ ~throws THEN "running" ELSE "handler_threw"
  BY <1>1 DEF Loop!Handle
<1>3. n = 0 /\ Len(<< >>) = 0
  OBVIOUS
<1>4. Loop!Numbered(<< >>, n) = {}
  BY <1>3 DEF Loop!Numbered
<1>5. next \in 1..Len(feed) /\ feed[next].ts \in Nat
  BY <1>1, FeedTyped
<1> QED BY <1>1, <1>2, <1>3, <1>4, <1>5

LEMMA TimerStep ==
  ASSUME Typed, Loop!DispatchInternal([requests |-> << >>, throws |-> FALSE])
  PROVE  /\ status = "running" /\ status' = "running"
         /\ feed' = feed /\ next' = next /\ now' \in Nat /\ now <= now'
         /\ \A e \in queue' : e \in queue
<1>1. /\ status = "running" /\ feed' = feed /\ next' = next
  BY DEF Loop!DispatchInternal
<1>2. PICK e \in queue :
        /\ e.ts >= now /\ now' = e.ts
        /\ Loop!Handle([requests |-> << >>, throws |-> FALSE], e.ts, queue \ {e})
  BY DEF Loop!DispatchInternal
<1>3. PICK n \in 0..Len(<< >>) :
        /\ queue' = (queue \ {e}) \cup Loop!Numbered(<< >>, n)
        /\ status' = IF n = Len(<< >>) /\ ~FALSE THEN "running" ELSE "handler_threw"
  BY <1>2 DEF Loop!Handle
<1>4. n = 0 /\ Len(<< >>) = 0
  OBVIOUS
<1>5. Loop!Numbered(<< >>, n) = {}
  BY <1>4 DEF Loop!Numbered
<1> QED BY <1>1, <1>2, <1>3, <1>4, <1>5 DEF Typed

LEMMA ScheduleStep ==
  ASSUME Typed, ScheduleTimer
  PROVE  /\ UNCHANGED <<setting, loaded, strategyVars, book, feed, next, now, status>>
         /\ \A e \in queue' : e \in queue \/ e.ts \in Nat
<1>1. PICK t \in TimerTimes : Loop!ScheduleBeforeRun([ts |-> t, event |-> "timer"])
  BY DEF ScheduleTimer
<1>2. /\ UNCHANGED <<feed, next, now, trace, status>>
      /\ queue' = queue \cup Loop!Numbered(<<[ts |-> t, event |-> "timer"]>>, 1)
  BY <1>1 DEF Loop!ScheduleBeforeRun
<1>3. t \in Nat
  BY CasesAssumption
<1>4. \A e \in Loop!Numbered(<<[ts |-> t, event |-> "timer"]>>, 1) : e.ts = t
  BY DEF Loop!Numbered
<1> QED BY <1>2, <1>3, <1>4 DEF ScheduleTimer

-----------------------------------------------------------------------------
(* What the strategies emit. *)

LEMMA LoadedScript ==
  ASSUME NEW s \in Seq(Entries), NEW t \in Sorted(s)
  PROVE  /\ t \in Seq(Entries)
         /\ \A i, j \in DOMAIN t : i < j => ~EntryBefore(t[j], t[i])
         /\ (\A k \in DOMAIN s : ValidEntry(s[k])) => \A k \in DOMAIN t : ValidEntry(t[k])
<1>1. PICK p \in [DOMAIN s -> DOMAIN s] : t = [k \in DOMAIN s |-> s[p[k]]]
  BY DEF Sorted
<1>2. \A i, j \in DOMAIN s : i < j => ~EntryBefore(t[j], t[i])
  BY DEF Sorted
<1>3. DOMAIN s = 1..Len(s) /\ Len(s) \in Nat /\ \A k \in DOMAIN s : s[k] \in Entries
  OBVIOUS
<1>4. t \in [1..Len(s) -> Entries]
  BY <1>1, <1>3
<1> QED BY <1>1, <1>2, <1>3, <1>4

LEMMA DueFinite ==
  ASSUME Typed, NEW m
  PROVE  /\ Due(m) \subseteq DOMAIN script /\ DOMAIN script \subseteq Nat
         /\ IsFiniteSet(DOMAIN script) /\ IsFiniteSet(Due(m)) /\ Cardinality(Due(m)) \in Nat
<1>1. DOMAIN script = 1..Len(script) /\ Len(script) \in Nat
  BY DEF Typed
<1>2. IsFiniteSet(DOMAIN script) /\ Due(m) \subseteq DOMAIN script
  BY <1>1, FS_Interval DEF Due
<1> QED BY <1>1, <1>2, FS_Subset, FS_CardinalityType

LEMMA DueRanked ==
  ASSUME Typed, NEW m
  PROVE  Turns(Due(m)) \in [1..Cardinality(Due(m)) -> Due(m)]
<1>1. Due(m) \in SUBSET Int /\ IsFiniteSet(Due(m))
  BY DueFinite
<1> QED BY <1>1, TurnsRanked

LEMMA FollowTyped ==
  ASSUME Typed, NEW m \in MarketEvents, Follow(m)
  PROVE  /\ emitted' \subseteq DOMAIN script
         /\ intents' \in Seq(Emitted) /\ Len(intents') = Len(intents) + Cardinality(Due(m))
         /\ \A i \in 1..Len(intents) : intents'[i] = intents[i]
         /\ \A i \in 1..Cardinality(Due(m)) :
              LET k == Turns(Due(m))[i]
              IN  k \in Due(m) /\ intents'[Len(intents) + i] = Intent(script[k], m.ts)
<1> DEFINE n == Cardinality(Due(m))
           turn == Turns(Due(m))
           new == [i \in 1..n |-> Intent(script[turn[i]], m.ts)]
<1>1. n \in Nat /\ turn \in [1..n -> Due(m)]
  BY DueFinite, DueRanked
<1>2. emitted' = emitted \cup Due(m) /\ intents' = intents \o new
  BY DEF Follow
<1>3. \A i \in 1..n : turn[i] \in Due(m) /\ script[turn[i]] \in Entries
  BY <1>1, DueFinite, SMTT(60) DEF Typed
<1> HIDE DEF n, turn
<1>4. new \in [1..n -> Emitted]
  <2>1. ASSUME NEW i \in 1..n PROVE Intent(script[turn[i]], m.ts) \in Emitted
    <3>1. script[turn[i]] \in Entries /\ m.ts \in Nat
      BY <1>3 DEF MarketEvents
    <3> QED BY <3>1 DEF Intent, Entries, Emitted
  <2> QED BY <2>1
<1>5. new \in Seq(Emitted) /\ Len(new) = n /\ intents \in Seq(Emitted)
  BY <1>1, <1>4 DEF Typed
<1>6. \A i \in 1..n : new[i] = Intent(script[turn[i]], m.ts)
  OBVIOUS
<1> HIDE DEF new
<1>7. PICK a \in Seq(Emitted), b \in Seq(Emitted) : a = intents /\ b = new
  BY <1>5
<1>8. /\ a \o b \in Seq(Emitted) /\ Len(a \o b) = Len(a) + Len(b)
      /\ \A i \in 1..Len(a) : (a \o b)[i] = a[i]
      /\ \A i \in 1..Len(b) : (a \o b)[Len(a) + i] = b[i]
  BY ONLY a \in Seq(Emitted), b \in Seq(Emitted), SequencesJoined
<1>9. /\ intents' \in Seq(Emitted) /\ Len(intents') = Len(intents) + n
      /\ \A i \in 1..Len(intents) : intents'[i] = intents[i]
      /\ \A i \in 1..n : intents'[Len(intents) + i] = new[i]
  BY <1>2, <1>5, <1>7, <1>8
<1>10. emitted' \subseteq DOMAIN script
  BY <1>2, DueFinite DEF Typed
<1> QED BY <1>3, <1>6, <1>9, <1>10 DEF n, turn

LEMMA SignalTyped == \A b : Signal(b) # None => Signal(b) \in Sides
BY DEF Signal, Sides

LEMMA MeasureTyped ==
  ASSUME Typed, NEW m \in MarketEvents, NEW b, Measure(b, m)
  PROVE  /\ intents' \in Seq(Emitted)
         /\ Signal(b) = None => intents' = intents
         /\ Signal(b) # None =>
              /\ Len(intents') = Len(intents) + 1
              /\ \A i \in 1..Len(intents) : intents'[i] = intents[i]
              /\ LET new == intents'[Len(intents) + 1]
                 IN  /\ new.side = Signal(b) /\ new.side \in Sides /\ new.ts = m.ts
                     /\ new.type = setting.type /\ new.qty = setting.qty /\ new.limit = setting.limit
<1>1. CASE Signal(b) = None
  BY <1>1 DEF Measure, Typed
<1>2. CASE Signal(b) # None
  <2> DEFINE new == Intent([setting EXCEPT !.side = Signal(b)], m.ts)
  <2>1. setting \in Settings /\ m.ts \in Nat /\ Signal(b) \in Sides
    BY <1>2, SignalTyped DEF Typed, MarketEvents
  <2>2. /\ new \in Emitted /\ new.side = Signal(b) /\ new.ts = m.ts
        /\ new.type = setting.type /\ new.qty = setting.qty /\ new.limit = setting.limit
    BY <2>1 DEF Settings, Intent, Emitted
  <2>3. intents' = Append(intents, new) /\ intents \in Seq(Emitted)
    BY <1>2 DEF Measure, Typed
  <2> HIDE DEF new
  <2> QED BY <1>2, <2>1, <2>2, <2>3
<1> QED BY <1>1, <1>2

-----------------------------------------------------------------------------
(* Every step keeps the run typed. *)

LEMMA RunInit == Init => RunTyped
<1> SUFFICES ASSUME Init PROVE RunTyped
  OBVIOUS
<1>1. setting \in Settings /\ feed \in Feeds
  BY CasesAssumption DEF Init
<1>2. feed \in Seq(MarketEvents)
  BY <1>1, FeedsAssumption
<1>3. next = 1 /\ now = 0 /\ queue = {} /\ status = "idle"
  BY DEF Init, Loop!Init
<1>4. next \in 1..(Len(feed) + 1)
  BY <1>2, <1>3
<1>5. loaded = "no" /\ script = << >> /\ emitted = {} /\ intents = << >>
  BY DEF Init
<1> QED BY <1>1, <1>3, <1>4, <1>5 DEF RunTyped, Typed, Accepted, Loop!Statuses

LEMMA LoadTyped == ASSUME RunTyped, Load PROVE RunTyped'
<1> USE DEF RunTyped
<1>1. /\ UNCHANGED <<setting, emitted, imbalance, intents, book, feed, next, now, queue, nextSeq, trace, status>>
      /\ status = "idle" /\ loaded = "no" /\ script = << >>
  BY DEF Load, loopVars, Accepted
<1>2. next = 1 /\ emitted = {} /\ intents = << >>
  BY <1>1 DEF Accepted
<1>3. CASE ValidSetting(setting)
  <2>1. loaded' = "yes" /\ script' \in Sorted(setting.script)
    BY <1>3 DEF Load
  <2>2. setting.script \in Seq(Entries) /\ \A k \in DOMAIN setting.script : ValidEntry(setting.script[k])
    BY <1>3 DEF Typed, Settings, ValidSetting
  <2>3. /\ script' \in Seq(Entries)
        /\ \A i, j \in DOMAIN script' : i < j => ~EntryBefore(script'[j], script'[i])
        /\ \A k \in DOMAIN script' : ValidEntry(script'[k])
    BY <2>1, <2>2, LoadedScript
  <2>4. Typed'
    BY <1>1, <1>2, <2>1, <2>3 DEF Typed
  <2>5. Accepted'
    BY <1>1, <1>2, <1>3, <2>1, <2>3 DEF Accepted
  <2> QED BY <2>4, <2>5
<1>4. CASE ~ValidSetting(setting)
  <2>1. loaded' = "refused" /\ script' = script
    BY <1>4 DEF Load
  <2> QED BY <1>1, <2>1 DEF Typed, Accepted
<1> QED BY <1>3, <1>4

\* What a market event does, whatever its type.
LEMMA DispatchTyped ==
  ASSUME RunTyped, NEW throws \in BOOLEAN,
         Loop!DispatchMarket([requests |-> << >>, throws |-> throws]),
         UNCHANGED <<setting, loaded, script>>,
         emitted' \subseteq DOMAIN script, intents' \in Seq(Emitted)
  PROVE  RunTyped'
<1> USE DEF RunTyped
<1>1. /\ status = "running" /\ next \in 1..Len(feed)
      /\ feed' = feed /\ next' = next + 1 /\ now' \in Nat /\ queue' = queue
      /\ status' = IF throws THEN "handler_threw" ELSE "running"
  BY MarketStep
<1>2. next' \in 1..(Len(feed') + 1)
  BY <1>1, FeedTyped
<1>3. Typed'
  BY <1>1, <1>2 DEF Typed, Loop!Statuses
<1>4. Accepted'
  BY <1>1 DEF Accepted
<1> QED BY <1>3, <1>4

LEMMA OnBookTyped == ASSUME RunTyped, OnBook PROVE RunTyped'
<1>1. PICK throws \in BOOLEAN : Loop!DispatchMarket([requests |-> << >>, throws |-> throws])
  <2>1. (setting.strategy = "queue_imbalance" /\ Overflows(book')) \in BOOLEAN
    OBVIOUS
  <2> QED BY <2>1 DEF OnBook
<1>2. Typed /\ feed[next] \in MarketEvents
  BY <1>1, MarketStep, FeedTyped DEF RunTyped
<1>3. emitted' \subseteq DOMAIN script /\ intents' \in Seq(Emitted)
  <2>1. \/ Follow(feed[next])
        \/ Measure(book', feed[next]) /\ emitted' = emitted
        \/ emitted' = emitted /\ intents' = intents
    BY DEF OnBook
  <2>2. CASE Follow(feed[next])
    BY <1>2, <2>2, FollowTyped
  <2>3. CASE Measure(book', feed[next]) /\ emitted' = emitted
    BY <1>2, <2>3, MeasureTyped DEF Typed
  <2>4. CASE emitted' = emitted /\ intents' = intents
    BY <1>2, <2>4 DEF Typed
  <2> QED BY <2>1, <2>2, <2>3, <2>4
<1>4. UNCHANGED <<setting, loaded, script>>
  BY DEF OnBook
<1> QED BY <1>1, <1>3, <1>4, DispatchTyped

LEMMA OnTradeTyped == ASSUME RunTyped, OnTrade PROVE RunTyped'
<1>1. Loop!DispatchMarket([requests |-> << >>, throws |-> FALSE])
  BY DEF OnTrade
<1>2. Typed /\ feed[next] \in MarketEvents
  BY <1>1, MarketStep, FeedTyped DEF RunTyped
<1>3. emitted' \subseteq DOMAIN script /\ intents' \in Seq(Emitted)
  <2>1. CASE setting.strategy = "scripted"
    BY <1>2, <2>1, FollowTyped DEF OnTrade
  <2>2. CASE setting.strategy # "scripted"
    BY <1>2, <2>2 DEF OnTrade, Typed
  <2> QED BY <2>1, <2>2
<1>4. UNCHANGED <<setting, loaded, script>>
  BY DEF OnTrade
<1> QED BY <1>1, <1>3, <1>4, DispatchTyped

\* The steps that show the strategy nothing.
LEMMA SilentStep ==
  ASSUME RunTyped, [Next]_runVars, ~Load, ~OnBook, ~OnTrade
  PROVE  /\ UNCHANGED <<setting, loaded, script, emitted, imbalance, intents, book, feed, next>>
         /\ now' \in Nat /\ now <= now' /\ \A e \in queue' : e.ts \in Nat
         /\ status' \in Loop!Statuses /\ (status' # "handler_threw" \/ status' = status)
         /\ status = "idle" /\ loaded # "yes" => status' = "idle"
         /\ status # "idle" => status' # "idle"
<1> USE DEF RunTyped
<1>1. now \in Nat /\ now <= now /\ status \in Loop!Statuses /\ \A e \in queue : e.ts \in Nat
  BY DEF Typed
<1>2. CASE ScheduleTimer
  BY <1>1, <1>2, ScheduleStep DEF strategyVars
<1>3. CASE Start
  BY <1>1, <1>3 DEF Start, Loop!Run, strategyVars, Loop!Statuses
<1>4. CASE OnTimer
  <2>1. UNCHANGED <<setting, loaded, strategyVars, book>>
    BY <1>4 DEF OnTimer
  <2>2. Loop!DispatchInternal([requests |-> << >>, throws |-> FALSE])
    BY <1>4 DEF OnTimer
  <2> QED BY <1>1, <2>1, <2>2, TimerStep DEF strategyVars, Loop!Statuses
<1>5. CASE Finish
  BY <1>1, <1>5 DEF Finish, Loop!Return, strategyVars, Loop!Statuses
<1>6. CASE Over \/ UNCHANGED runVars
  BY <1>1, <1>6 DEF Over, runVars, strategyVars, loopVars
<1> QED BY <1>2, <1>3, <1>4, <1>5, <1>6 DEF Next

LEMMA RunStep == RunTyped /\ [Next]_runVars => RunTyped'
<1> SUFFICES ASSUME RunTyped, [Next]_runVars PROVE RunTyped'
  OBVIOUS
<1>1. CASE ~Load /\ ~OnBook /\ ~OnTrade
  <2>1. /\ UNCHANGED <<setting, loaded, script, emitted, intents, feed, next>>
        /\ now' \in Nat /\ \A e \in queue' : e.ts \in Nat
        /\ status' \in Loop!Statuses
        /\ status = "idle" /\ loaded # "yes" => status' = "idle"
        /\ status # "idle" => status' # "idle"
    BY <1>1, SilentStep DEF RunTyped, Typed
  <2>2. Typed'
    BY <2>1 DEF RunTyped, Typed
  <2>3. Accepted'
    BY <2>1 DEF RunTyped, Accepted
  <2> QED BY <2>2, <2>3 DEF RunTyped
<1> QED BY <1>1, LoadTyped, OnBookTyped, OnTradeTyped

-----------------------------------------------------------------------------
(* What the feed last reported of a level. *)

LEMMA ReportedTyped ==
  ASSUME Typed, NEW side \in Sides, NEW price \in Prices, NEW n \in 0..Len(feed)
  PROVE  LastReported(side, price, n) \in Nat
<1> DEFINE At == {k \in 1..n : /\ feed[k].event.type = "book"
                               /\ feed[k].event.side = side /\ feed[k].event.price = price}
<1>1. LastReported(side, price, n) =
        IF At = {} THEN 0 ELSE feed[CHOOSE k \in At : \A j \in At : j <= k].event.qty
  BY SMTT(60) DEF LastReported
<1>2. CASE At = {}
  BY <1>1, <1>2
<1>3. CASE At # {}
  <2>0. n \in Nat /\ At \in SUBSET (1..n)
    BY FeedTyped
  <2>1. \E k \in At : \A j \in At : j <= k
    <3>1. IsFiniteSet(At)
      BY <2>0, PlacesFinite
    <3> DEFINE rank == [k \in At |-> k]
    <3>2. \A k \in At : rank[k] \in Int
      BY <2>0
    <3> HIDE DEF rank, At
    <3>3. \E k \in At : \A j \in At : rank[j] <= rank[k]
      BY <1>3, <3>1, <3>2, HighestRank, SMTT(60)
    <3> QED BY <3>3 DEF rank
  <2>2. PICK k \in At : LastReported(side, price, n) = feed[k].event.qty
    BY <1>1, <1>3, <2>1
  <2>3. feed[k].event \in Updates /\ feed[k].event.type = "book"
    BY <2>2, FeedTyped
  <2> QED BY <2>2, <2>3 DEF Updates
<1> QED BY <1>2, <1>3

LEMMA ReportedStep ==
  ASSUME Typed, NEW side \in Sides, NEW price \in Prices, NEW n \in 1..Len(feed)
  PROVE  LastReported(side, price, n) =
           IF feed[n].event.type = "book" /\ feed[n].event.side = side /\ feed[n].event.price = price
           THEN feed[n].event.qty ELSE LastReported(side, price, n - 1)
<1> DEFINE Reports(k) == feed[k].event.type = "book" /\ feed[k].event.side = side /\ feed[k].event.price = price
           At(m) == {k \in 1..m : Reports(k)}
<1>1. \A m : LastReported(side, price, m) =
        IF At(m) = {} THEN 0 ELSE feed[CHOOSE k \in At(m) : \A j \in At(m) : j <= k].event.qty
  BY DEF LastReported
<1>2. n \in Nat
  BY FeedTyped, SMTT(60)
<1> HIDE DEF Reports
<1>3. CASE Reports(n)
  <2>1. n \in At(n) /\ \A j \in At(n) : j <= n
    BY <1>2, <1>3
  <2>2. \A k \in At(n) : (\A j \in At(n) : j <= k) => k = n
    BY <1>2, <2>1
  <2>3. (CHOOSE k \in At(n) : \A j \in At(n) : j <= k) = n
    BY <2>1, <2>2
  <2> QED BY <1>1, <1>3, <2>1, <2>3 DEF Reports
<1>4. CASE ~Reports(n)
  <2>1. At(n) = At(n - 1)
    BY <1>2, <1>4
  <2> HIDE DEF At
  <2>2. LastReported(side, price, n) = LastReported(side, price, n - 1)
    BY <1>1, <2>1
  <2> QED BY <1>4, <2>2 DEF Reports
<1> QED BY <1>3, <1>4

LEMMA ReportedFirst ==
  ASSUME NEW side, NEW price
  PROVE  LastReported(side, price, 0) = 0
BY DEF LastReported

\* The levels of a side are what was last reported, above zero.
Shows(b, n) ==
  /\ DOMAIN b = Sides
  /\ \A side \in Sides :
       /\ DOMAIN b[side] = Live(side, n)
       /\ \A p \in DOMAIN b[side] : b[side][p] = LastReported(side, p, n)

BookShows == Shows(book, next - 1)

LEMMA LiveFinite ==
  ASSUME NEW side, NEW n
  PROVE  IsFiniteSet(Live(side, n)) /\ Live(side, n) \subseteq Prices /\ Live(side, n) \subseteq Nat
BY PricesAssumption, FS_Subset DEF Live

LEMMA ApplyShows ==
  ASSUME Typed, NEW n \in 1..Len(feed), feed[n].event.type = "book",
         NEW b, Shows(b, n - 1)
  PROVE  Shows(Apply(b, feed[n].event), n)
<1> DEFINE u == feed[n].event
           c == Apply(b, u)
           others == [p \in DOMAIN b[u.side] \ {u.price} |-> b[u.side][p]]
           level == IF u.qty = 0 THEN others
                    ELSE [p \in DOMAIN others \cup {u.price} |-> IF p = u.price THEN u.qty ELSE others[p]]
<1>1. u \in Updates /\ u.type = "book" /\ u.side \in Sides /\ u.price \in Prices /\ u.qty \in Nat
  <2>1. u \in Updates /\ u.type = "book"
    BY FeedTyped
  <2> QED BY <2>1 DEF Updates
<1>2. DOMAIN b = Sides
  BY DEF Shows
<1>3. c = [b EXCEPT ![u.side] = level]
  BY DEF Apply, Restrict
<1> HIDE DEF u, c
<1>4. DOMAIN c = Sides /\ c[u.side] = level /\ \A side \in Sides \ {u.side} : c[side] = b[side]
  <2> HIDE DEF level
  <2> QED BY <1>1, <1>2, <1>3
<1>5. ASSUME NEW side \in Sides
      PROVE  /\ DOMAIN c[side] = Live(side, n)
             /\ \A p \in DOMAIN c[side] : c[side][p] = LastReported(side, p, n)
  <2>1. \A p \in Prices : LastReported(side, p, n) =
          IF u.side = side /\ u.price = p THEN u.qty ELSE LastReported(side, p, n - 1)
    BY ReportedStep DEF u
  <2>2. /\ DOMAIN b[side] = Live(side, n - 1)
        /\ \A p \in DOMAIN b[side] : b[side][p] = LastReported(side, p, n - 1)
    BY DEF Shows
  <2>3. CASE side = u.side
    <3>1. \A p \in Prices : p \in DOMAIN level <=> p \in Live(side, n)
      BY <1>1, <2>1, <2>2, <2>3 DEF Live
    <3>2. DOMAIN level \subseteq Prices /\ Live(side, n) \subseteq Prices
      BY <1>1, <2>2, <2>3 DEF Live
    <3>3. \A p \in DOMAIN level : level[p] = LastReported(side, p, n)
      BY <1>1, <2>1, <2>2, <2>3, <3>2
    <3> HIDE DEF level
    <3> QED BY <1>4, <2>3, <3>1, <3>2, <3>3
  <2>4. CASE side # u.side
    <3>1. c[side] = b[side]
      BY <1>4, <2>4
    <3>2. \A p \in Prices : LastReported(side, p, n) = LastReported(side, p, n - 1)
      BY <2>1, <2>4
    <3>3. Live(side, n) = Live(side, n - 1)
      BY <3>2 DEF Live
    <3>4. \A p \in Live(side, n) : p \in Prices
      BY LiveFinite
    <3> QED BY <2>2, <3>1, <3>2, <3>3, <3>4
  <2> QED BY <2>3, <2>4
<1>6. Shows(c, n)
  BY <1>4, <1>5 DEF Shows
<1> QED BY <1>6 DEF c, u

LEMMA OtherShows ==
  ASSUME Typed, NEW n \in 1..Len(feed), feed[n].event.type # "book",
         NEW b, Shows(b, n - 1)
  PROVE  Shows(b, n)
<1>1. \A side \in Sides, p \in Prices : LastReported(side, p, n) = LastReported(side, p, n - 1)
  BY ReportedStep
<1>2. \A side \in Sides : Live(side, n) = Live(side, n - 1) /\ Live(side, n) \subseteq Prices
  BY <1>1 DEF Live
<1> QED BY <1>1, <1>2 DEF Shows

\* What the feed reported does not change as it is read.
LEMMA SameFeedShows ==
  ASSUME feed' = feed, NEW n, NEW b
  PROVE  /\ \A side, p : LastReported(side, p, n)' = LastReported(side, p, n)
         /\ \A side : Live(side, n)' = Live(side, n)
<1>1. \A side, p : LastReported(side, p, n)' = LastReported(side, p, n)
  BY DEF LastReported
<1> QED BY <1>1 DEF Live

-----------------------------------------------------------------------------
(* The levels of a side, best price first. *)

BetterThan(levels, side, p) == {q \in levels : Better(side, q, p)}

LEMMA LevelsInOrder ==
  ASSUME NEW b, NEW side \in Sides, IsFiniteSet(DOMAIN b[side]), DOMAIN b[side] \subseteq Nat
  PROVE  LET D == DOMAIN b[side]
             s == LevelSeq(b, side)
         IN  /\ Cardinality(D) \in Nat
             /\ s \in Seq(D) /\ Len(s) = Cardinality(D)
             /\ \A p \in D : \E i \in 1..Len(s) : s[i] = p
             /\ \A i \in 1..Len(s) : Cardinality(BetterThan(D, side, s[i])) = i - 1
             /\ \A p \in D, q \in D :
                  Better(side, p, q) => Cardinality(BetterThan(D, side, p)) < Cardinality(BetterThan(D, side, q))
             /\ \A p \in D : Cardinality(BetterThan(D, side, p)) \in Nat
<1> DEFINE D == DOMAIN b[side]
           rank == [p \in D |-> IF side = "buy" THEN -p ELSE p]
           s == LevelSeq(b, side)
<1>1. \A p \in D : rank[p] \in Int
  OBVIOUS
<1>2. \A p, q \in D : (rank[p] = rank[q] => p = q) /\ (rank[p] < rank[q] <=> Better(side, p, q))
  BY DEF Better
<1>3. s = InOrder(D, rank)
  BY DEF LevelSeq
<1>4. \A p \in D : BetterThan(D, side, p) = RankedBefore(D, rank, p)
  BY <1>2 DEF BetterThan, RankedBefore
<1> HIDE DEF D, rank
<1>5. IsFiniteSet(D) /\ Cardinality(D) \in Nat
  BY FS_CardinalityType DEF D
<1>6. Ranked(D, rank, s)
  BY <1>1, <1>2, <1>3, <1>5, InOrderRanked
<1>7. s \in [1..Cardinality(D) -> D]
  BY <1>6 DEF Ranked
<1>8. /\ \A p \in D : \E i \in 1..Cardinality(D) : s[i] = p
      /\ \A i \in 1..Cardinality(D) : Place(D, rank, s[i]) = i - 1
  BY <1>1, <1>5, <1>6, RankedPlaces
<1>9. \A p \in D : Place(D, rank, p) = Cardinality(BetterThan(D, side, p))
  BY <1>4 DEF Place
<1>10. \A p \in D : /\ Place(D, rank, p) \in Nat
                    /\ \A q \in D : rank[p] < rank[q] => Place(D, rank, p) < Place(D, rank, q)
  BY <1>1, <1>5, PlacesFollowRanks
<1> HIDE DEF s
<1>11. s \in Seq(D) /\ Len(s) = Cardinality(D)
  BY <1>5, <1>7
<1>12. \A i \in 1..Cardinality(D) : s[i] \in D
  BY <1>7
<1> QED BY <1>2, <1>5, <1>8, <1>9, <1>10, <1>11, <1>12 DEF D, s

LEMMA TopPrefix ==
  ASSUME NEW b, NEW side \in Sides, IsFiniteSet(DOMAIN b[side]), DOMAIN b[side] \subseteq Nat, NEW depth \in Nat
  PROVE  LET D   == DOMAIN b[side]
             top == TopLevels(b, side, depth)
         IN  /\ top \in Seq(D) /\ Len(top) \in Nat /\ DOMAIN top = 1..Len(top)
             /\ Len(top) = IF depth < Cardinality(D) THEN depth ELSE Cardinality(D)
             /\ \A i \in 1..Len(top) : top[i] = LevelSeq(b, side)[i]
<1> DEFINE D == DOMAIN b[side]
           s == LevelSeq(b, side)
           n == IF depth < Len(s) THEN depth ELSE Len(s)
<1>1. s \in Seq(D) /\ Len(s) = Cardinality(D)
  BY LevelsInOrder
<1>2. TopLevels(b, side, depth) = SubSeq(s, 1, n)
  BY DEF TopLevels
<1> HIDE DEF s, D
<1>3. n \in Nat /\ n <= Len(s)
  BY <1>1
<1>4. SubSeq(s, 1, n) \in Seq(D) /\ Len(SubSeq(s, 1, n)) = n /\ \A i \in 1..n : SubSeq(s, 1, n)[i] = s[i]
  <2> HIDE DEF n
  <2> QED BY <1>1, <1>3
<1> DEFINE t == SubSeq(s, 1, n)
<1> HIDE DEF t
<1>5. t \in Seq(D) /\ Len(t) = n /\ \A i \in 1..n : t[i] = s[i]
  BY <1>4 DEF t
<1>6. TopLevels(b, side, depth) = t
  BY <1>2 DEF t
<1> QED BY <1>1, <1>3, <1>5, <1>6 DEF D, s

\* The best levels are those with fewer than depth better ones.
LEMMA TopLevelsAre ==
  ASSUME NEW b, NEW side \in Sides, IsFiniteSet(DOMAIN b[side]), DOMAIN b[side] \subseteq Nat, NEW depth \in Nat
  PROVE  LET D   == DOMAIN b[side]
             top == TopLevels(b, side, depth)
         IN  /\ \A k \in Nat \ {0} : \A p : (k <= Len(top) /\ top[k] = p) <=>
                  (p \in D /\ k <= depth /\ Cardinality(BetterThan(D, side, p)) = k - 1)
             /\ \A i, j \in 1..Len(top) : top[i] = top[j] => i = j
             /\ ImageOf(top, 1..Len(top)) = {p \in D : Cardinality(BetterThan(D, side, p)) < depth}
<1> DEFINE D == DOMAIN b[side]
           s == LevelSeq(b, side)
           top == TopLevels(b, side, depth)
           B(p) == Cardinality(BetterThan(D, side, p))
<1>1. /\ Cardinality(D) \in Nat /\ s \in Seq(D) /\ Len(s) = Cardinality(D)
      /\ \A p \in D : \E i \in 1..Len(s) : s[i] = p
      /\ \A i \in 1..Len(s) : B(s[i]) = i - 1
      /\ \A p \in D : B(p) \in Nat
  BY LevelsInOrder
<1>2. /\ top \in Seq(D) /\ Len(top) \in Nat
      /\ Len(top) = IF depth < Cardinality(D) THEN depth ELSE Cardinality(D)
      /\ \A i \in 1..Len(top) : top[i] = s[i]
  BY TopPrefix
<1> HIDE DEF D, s, top, B
<1>3. \A i \in 1..Len(top) : i \in 1..Len(s) /\ top[i] \in D /\ B(top[i]) = i - 1 /\ i <= depth
  BY <1>1, <1>2, SMTT(60)
<1>4. ASSUME NEW k \in Nat \ {0}, NEW p, k <= Len(top), top[k] = p
      PROVE  p \in D /\ k <= depth /\ B(p) = k - 1
  BY <1>2, <1>3, <1>4
<1>5. ASSUME NEW k \in Nat \ {0}, NEW p, p \in D, k <= depth, B(p) = k - 1
      PROVE  k <= Len(top) /\ top[k] = p
  <2>1. PICK i \in 1..Len(s) : s[i] = p
    BY <1>1, <1>5
  <2>2. i = k
    BY <1>1, <1>5, <2>1
  <2>3. k <= Cardinality(D)
    BY <1>1, <2>1, <2>2
  <2>4. k <= Len(top) /\ k \in 1..Len(top)
    BY <1>1, <1>2, <1>5, <2>3
  <2> QED BY <1>2, <2>1, <2>2, <2>4
<1>6. \A i, j \in 1..Len(top) : top[i] = top[j] => i = j
  BY <1>2, <1>3
<1>7. ImageOf(top, 1..Len(top)) = {p \in D : B(p) < depth}
  <2>1. ASSUME NEW p \in ImageOf(top, 1..Len(top)) PROVE p \in D /\ B(p) < depth
    <3>1. PICK i \in 1..Len(top) : p = top[i]
      BY <2>1 DEF ImageOf
    <3> QED BY <1>2, <1>3, <3>1
  <2>2. ASSUME NEW p \in D, B(p) < depth PROVE p \in ImageOf(top, 1..Len(top))
    <3>1. B(p) \in Nat
      BY <1>1
    <3>2. B(p) + 1 <= Len(top) /\ top[B(p) + 1] = p /\ B(p) + 1 \in 1..Len(top)
      BY <1>2, <1>5, <2>2, <3>1
    <3> QED BY <3>2 DEF ImageOf
  <2> QED BY <2>1, <2>2
<1> QED BY <1>4, <1>5, <1>6, <1>7 DEF D, top, B

\* The sum over the best levels is a sum over prices, and positive if there are any.
LEMMA VolumeIs ==
  ASSUME Typed, NEW b, NEW side \in Sides, IsFiniteSet(DOMAIN b[side]), DOMAIN b[side] \subseteq Nat,
         \A p \in DOMAIN b[side] : b[side][p] \in Nat \ {0}
  PROVE  LET D == DOMAIN b[side]
         IN  /\ Volume(b, side) \in Nat
             /\ Volume(b, side) = 0 <=> (setting.depth = 0 \/ D = {})
             /\ \A w : (\A p \in D : w[p] = b[side][p]) =>
                  Volume(b, side) =
                    SumFunctionOnSet(w, {p \in D : Cardinality(BetterThan(D, side, p)) < setting.depth})
<1> DEFINE D == DOMAIN b[side]
           top == TopLevels(b, side, setting.depth)
           I == 1..Len(top)
           at == [i \in DOMAIN top |-> QuantityAt(b, side, top[i])]
           Best == {p \in D : Cardinality(BetterThan(D, side, p)) < setting.depth}
<1>1. setting.depth \in Nat
  BY DEF Typed, Settings
<1>2. /\ top \in Seq(D) /\ Len(top) \in Nat /\ DOMAIN top = I
      /\ Len(top) = IF setting.depth < Cardinality(D) THEN setting.depth ELSE Cardinality(D)
  BY <1>1, TopPrefix
<1>3. (\A i, j \in I : top[i] = top[j] => i = j) /\ ImageOf(top, I) = Best
  BY <1>1, TopLevelsAre
<1>4. Volume(b, side) = SumFunctionOnSet(at, I)
  BY <1>2 DEF Volume
<1>5. IsFiniteSet(D) /\ Cardinality(D) \in Nat /\ (Cardinality(D) = 0 <=> D = {})
  BY FS_CardinalityType, FS_EmptySet
<1> HIDE DEF top
<1>6. \A i \in I : top[i] \in D /\ at[i] = b[side][top[i]] /\ at[i] \in Nat \ {0}
  BY <1>2 DEF QuantityAt
<1> HIDE DEF at, Best, D
<1>7. IsFiniteSet(I)
  BY <1>2, FS_Interval
<1> HIDE DEF I
<1>8. SumFunctionOnSet(at, I) \in Nat /\ \A i \in I : at[i] <= SumFunctionOnSet(at, I)
  BY <1>6, <1>7, SumNatural
<1>9. SumFunctionOnSet(at, I) = 0 <=> I = {}
  <2>1. CASE I = {}
    BY <2>1, SumEmpty
  <2>2. CASE I # {}
    <3>1. PICK i \in I : TRUE
      BY <2>2
    <3>2. at[i] \in Nat \ {0} /\ at[i] <= SumFunctionOnSet(at, I)
      BY <1>6, <1>8
    <3> QED BY <1>8, <2>2, <3>2
  <2> QED BY <2>1, <2>2
<1>10. I = {} <=> setting.depth = 0 \/ D = {}
  <2>1. I = {} <=> Len(top) = 0
    BY <1>2 DEF I
  <2> QED BY <1>1, <1>2, <1>5, <2>1
<1>11. ASSUME NEW w, \A p \in D : w[p] = b[side][p]
       PROVE  SumFunctionOnSet(at, I) = SumFunctionOnSet(w, Best)
  <2>1. \A i \in I : w[top[i]] \in Int /\ at[i] = w[top[i]]
    BY <1>6, <1>11
  <2>2. SumFunctionOnSet(w, ImageOf(top, I)) = SumFunctionOnSet(at, I)
    BY <1>3, <1>7, <2>1, SumImage
  <2> QED BY <1>3, <2>2
<1> QED BY <1>4, <1>8, <1>9, <1>10, <1>11 DEF D, Best

\* The best price of a side that has levels.
LEMMA BestIs ==
  ASSUME NEW b, NEW side \in Sides, IsFiniteSet(DOMAIN b[side]), DOMAIN b[side] \subseteq Nat,
         DOMAIN b[side] # {}
  PROVE  /\ BestPrice(b, side) \in DOMAIN b[side]
         /\ \A q \in DOMAIN b[side] : q = BestPrice(b, side) \/ Better(side, BestPrice(b, side), q)
<1> DEFINE D == DOMAIN b[side]
           rank == [p \in D |-> IF side = "buy" THEN p ELSE -p]
<1>1. \A p \in D : rank[p] \in Int
  OBVIOUS
<1>2. PICK m \in D : \A q \in D : rank[q] <= rank[m]
  <2> HIDE DEF rank
  <2> QED BY <1>1, HighestRank
<1>3. \A q \in D : m = q \/ Better(side, m, q)
  <2> SUFFICES ASSUME NEW q \in D PROVE m = q \/ Better(side, m, q)
    OBVIOUS
  <2>1. m \in Nat /\ q \in Nat /\ rank[q] <= rank[m]
    BY <1>2
  <2>2. /\ rank[q] = IF side = "buy" THEN q ELSE -q
        /\ rank[m] = IF side = "buy" THEN m ELSE -m
    OBVIOUS
  <2> HIDE DEF rank, D
  <2> QED BY <2>1, <2>2 DEF Better
<1> QED BY <1>3 DEF BestPrice

-----------------------------------------------------------------------------
(* What the strategy looks at is what the feed last reported. *)

LEMMA ShownIs ==
  ASSUME Typed, NEW n \in 0..Len(feed), NEW b, Shows(b, n), NEW side \in Sides
  PROVE  /\ IsFiniteSet(DOMAIN b[side]) /\ DOMAIN b[side] \subseteq Nat
         /\ DOMAIN b[side] = Live(side, n)
         /\ Volume(b, side) = Shown(side, n) /\ Shown(side, n) \in Nat
         /\ Shown(side, n) = 0 <=> (setting.depth = 0 \/ DOMAIN b[side] = {})
<1> DEFINE D == DOMAIN b[side]
           w == [p \in Live(side, n) |-> LastReported(side, p, n)]
<1>1. D = Live(side, n) /\ \A p \in D : b[side][p] = LastReported(side, p, n)
  BY DEF Shows
<1>2. IsFiniteSet(D) /\ D \subseteq Nat
  BY <1>1, LiveFinite
<1>3. \A p \in D : b[side][p] \in Nat \ {0}
  <2> SUFFICES ASSUME NEW p \in D PROVE b[side][p] \in Nat \ {0}
    OBVIOUS
  <2>1. p \in Prices /\ LastReported(side, p, n) > 0
    BY <1>1 DEF Live
  <2>2. LastReported(side, p, n) \in Nat
    BY <2>1, ReportedTyped
  <2> QED BY <1>1, <2>1, <2>2
<1>4. \A p \in D : w[p] = b[side][p]
  BY <1>1
<1>5. {p \in D : Cardinality(BetterThan(D, side, p)) < setting.depth} =
        {p \in Live(side, n) : Ahead(side, n, p) < setting.depth}
  BY <1>1 DEF BetterThan, Ahead
<1>6. Shown(side, n) =
        SumFunctionOnSet(w, {p \in D : Cardinality(BetterThan(D, side, p)) < setting.depth})
  BY <1>5 DEF Shown
<1> HIDE DEF w
<1>7. /\ Volume(b, side) \in Nat /\ (Volume(b, side) = 0 <=> setting.depth = 0 \/ D = {})
      /\ Volume(b, side) =
           SumFunctionOnSet(w, {p \in D : Cardinality(BetterThan(D, side, p)) < setting.depth})
  BY <1>2, <1>3, <1>4, VolumeIs
<1> QED BY <1>1, <1>2, <1>6, <1>7

\* An update after which both sides are there calls for what the strategy computes.
LEMMA ApartIs ==
  ASSUME Typed, NEW n \in 0..Len(feed), NEW b, Shows(b, n)
  PROVE  Measurable(b) <=> Shown("buy", n) # 0 /\ Shown("sell", n) # 0 /\ Apart(n)
<1> DEFINE bids == DOMAIN b["buy"]
           asks == DOMAIN b["sell"]
<1>1. "buy" \in Sides /\ "sell" \in Sides /\ \A side \in Sides : side = "buy" \/ side = "sell"
  BY DEF Sides
<1>2. /\ IsFiniteSet(bids) /\ bids \subseteq Nat /\ bids = Live("buy", n)
      /\ IsFiniteSet(asks) /\ asks \subseteq Nat /\ asks = Live("sell", n)
      /\ Shown("buy", n) = 0 <=> (setting.depth = 0 \/ bids = {})
      /\ Shown("sell", n) = 0 <=> (setting.depth = 0 \/ asks = {})
  BY <1>1, ShownIs
<1>3. setting.depth \in Nat
  BY DEF Typed, Settings
<1>4. TwoSided(b) <=> bids # {} /\ asks # {}
  BY <1>1 DEF TwoSided
<1>5. ASSUME bids # {}, asks # {}
      PROVE  Spread(b) > 0 <=> Apart(n)
  <2>1. /\ BestPrice(b, "buy") \in bids
        /\ \A q \in bids : q = BestPrice(b, "buy") \/ Better("buy", BestPrice(b, "buy"), q)
    BY <1>1, <1>2, <1>5, BestIs
  <2>2. /\ BestPrice(b, "sell") \in asks
        /\ \A q \in asks : q = BestPrice(b, "sell") \/ Better("sell", BestPrice(b, "sell"), q)
    BY <1>1, <1>2, <1>5, BestIs
  <2>3. PICK bb \in bids : BestPrice(b, "buy") = bb /\ \A q \in bids : q <= bb
    BY <1>2, <2>1 DEF Better
  <2>4. PICK ba \in asks : BestPrice(b, "sell") = ba /\ \A q \in asks : ba <= q
    BY <1>2, <2>2 DEF Better
  <2>5. Spread(b) > 0 <=> bb < ba
    BY <1>2, <2>3, <2>4 DEF Spread
  <2>6. Apart(n) <=> \A p \in bids, q \in asks : p < q
    BY <1>2 DEF Apart
  <2>7. bb < ba => \A p \in bids, q \in asks : p < q
    <3> SUFFICES ASSUME bb < ba, NEW p \in bids, NEW q \in asks PROVE p < q
      OBVIOUS
    <3>1. p \in Nat /\ q \in Nat /\ bb \in Nat /\ ba \in Nat /\ p <= bb /\ ba <= q
      BY <1>2, <2>3, <2>4
    <3> QED BY <3>1
  <2> QED BY <2>5, <2>6, <2>7
<1> HIDE DEF bids, asks
<1> QED BY <1>2, <1>3, <1>4, <1>5 DEF Measurable, IsValid

LEMMA CalledIs ==
  ASSUME Typed, NEW n \in 1..Len(feed), NEW b, Shows(b, n), feed[n].event.type = "book"
  PROVE  /\ Called(n) = IF Overflows(b) THEN None ELSE Signal(b)
         /\ Overflows(b) => AllShown(n) > MaxQuantity /\ Apart(n)
<1>1. "buy" \in Sides /\ "sell" \in Sides /\ n \in 0..Len(feed)
  BY FeedTyped DEF Sides
<1>2. /\ Volume(b, "buy") = Shown("buy", n) /\ Volume(b, "sell") = Shown("sell", n)
      /\ Shown("buy", n) \in Nat /\ Shown("sell", n) \in Nat
  BY <1>1, ShownIs
<1>3. Measurable(b) <=> Shown("buy", n) # 0 /\ Shown("sell", n) # 0 /\ Apart(n)
  BY <1>1, ApartIs
<1>4. Overflows(b) <=> Measurable(b) /\ AllShown(n) > MaxQuantity
  BY <1>2 DEF Overflows, AllShown
<1>5. Imbalance(b) = Divide(Lean(n), AllShown(n))
  BY <1>2 DEF Imbalance, Lean, AllShown
<1> DEFINE lean == Divide(Lean(n), AllShown(n))
<1> HIDE DEF lean
<1>6. Signal(b) = IF ~Measurable(b) THEN None
                  ELSE IF lean[1] * setting.buyAbove[2] > setting.buyAbove[1] * lean[2] THEN "buy"
                  ELSE IF setting.sellBelow[1] * lean[2] > lean[1] * setting.sellBelow[2] THEN "sell"
                  ELSE None
  BY <1>5 DEF Signal, Above, lean
<1>7. Called(n) = IF ~Measurable(b) \/ AllShown(n) > MaxQuantity THEN None
                  ELSE IF lean[1] * setting.buyAbove[2] > setting.buyAbove[1] * lean[2] THEN "buy"
                  ELSE IF setting.sellBelow[1] * lean[2] > lean[1] * setting.sellBelow[2] THEN "sell"
                  ELSE None
  BY <1>3 DEF Called, lean
<1> QED BY <1>3, <1>4, <1>6, <1>7

-----------------------------------------------------------------------------
(* The invariant. *)

\* Every intent can become an order, and the imbalance is a fraction within -1..1.
IntentsValid ==
  /\ imbalance # None => imbalance[2] > 0 /\ imbalance[1] \in (-imbalance[2])..imbalance[2]
  /\ \A k \in 1..Len(intents) :
       /\ intents[k].side \in Sides /\ intents[k].qty > 0 /\ intents[k].ts <= now
       /\ intents[k].limit # NoLimit => intents[k].limit \in Nat
       /\ intents[k].type = "limit" => intents[k].limit # NoLimit
       /\ intents[k].type \in {"market", "limit"}

\* The places of the script that the first n events trigger, and their intents.
Triggered(n) == {k \in DOMAIN script : Key(script[k]) \in {Key(feed[j]) : j \in 1..n}}

Followed(n) ==
  LET due  == Triggered(n)
      turn == Turns(due)
  IN  /\ emitted = due
      /\ intents = [i \in 1..Cardinality(due) |-> Intent(script[turn[i]], script[turn[i]].ts)]

\* The updates among the first n that call for a side, and the intents.
Calls(n) == {k \in 1..n : Called(k) # None}

Signalled(n) ==
  LET turn == Turns(Calls(n))
  IN  /\ Len(intents) = Cardinality(Calls(n))
      /\ \A k \in 1..Len(intents) :
           intents[k].side = Called(turn[k]) /\ intents[k].ts = feed[turn[k]].ts

StoppedByVolume(n) ==
  status = "handler_threw" =>
    AllShown(n) > MaxQuantity /\ feed[n].event.type = "book" /\ Apart(n)

StrategyInv ==
  /\ setting.strategy = "scripted" => Followed(next - 1)
  /\ setting.strategy = "queue_imbalance" => Signalled(next - 1) /\ StoppedByVolume(next - 1)

RunInv == RunTyped /\ BookShows /\ IntentsValid /\ StrategyInv

LEMMA InvGives ==
  RunInv => StrategyTypeOK /\ DepthShowsLastReports /\ ScriptFollowed /\ SignalsMatchDepth
<1> SUFFICES ASSUME RunInv
             PROVE  StrategyTypeOK /\ DepthShowsLastReports /\ ScriptFollowed /\ SignalsMatchDepth
  OBVIOUS
<1>1. StrategyTypeOK
  BY DEF RunInv, RunTyped, Typed, IntentsValid, StrategyTypeOK
<1>2. DepthShowsLastReports
  <2> SUFFICES ASSUME NEW side \in Sides
               PROVE  LET n    == next - 1
                          live == Live(side, n)
                          rank == [p \in live |-> Ahead(side, n, p)]
                      IN  /\ \A p \in Prices : QuantityAt(book, side, p) = LastReported(side, p, n)
                          /\ \A depth \in 0..(Cardinality(Prices) + 1) :
                               LET top == TopLevels(book, side, depth)
                               IN  \A p \in Prices : \A k \in 1..(Cardinality(Prices) + 1) :
                                     (k <= Len(top) /\ top[k] = p)
                                       <=> (p \in live /\ k <= depth /\ rank[p] = k - 1)
    BY DEF DepthShowsLastReports
  <2>1. Typed /\ Shows(book, next - 1) /\ next - 1 \in 0..Len(feed)
    BY FeedTyped DEF RunInv, RunTyped, BookShows
  <2>2. /\ DOMAIN book[side] = Live(side, next - 1)
        /\ \A p \in DOMAIN book[side] : book[side][p] = LastReported(side, p, next - 1)
    BY <2>1 DEF Shows
  <2>3. ASSUME NEW p \in Prices PROVE QuantityAt(book, side, p) = LastReported(side, p, next - 1)
    <3>1. LastReported(side, p, next - 1) \in Nat
      BY <2>1, ReportedTyped
    <3>2. p \notin DOMAIN book[side] => LastReported(side, p, next - 1) = 0
      BY <2>2, <3>1 DEF Live
    <3> QED BY <2>2, <3>2 DEF QuantityAt
  <2>4. ASSUME NEW depth \in 0..(Cardinality(Prices) + 1), NEW p \in Prices,
               NEW k \in 1..(Cardinality(Prices) + 1)
        PROVE  (k <= Len(TopLevels(book, side, depth)) /\ TopLevels(book, side, depth)[k] = p)
                 <=> (p \in Live(side, next - 1) /\ k <= depth /\ Ahead(side, next - 1, p) = k - 1)
    <3>1. IsFiniteSet(DOMAIN book[side]) /\ DOMAIN book[side] \subseteq Nat
      BY <2>2, LiveFinite
    <3>2. depth \in Nat /\ k \in Nat \ {0}
      OBVIOUS
    <3>3. (k <= Len(TopLevels(book, side, depth)) /\ TopLevels(book, side, depth)[k] = p)
            <=> (p \in DOMAIN book[side] /\ k <= depth
                 /\ Cardinality(BetterThan(DOMAIN book[side], side, p)) = k - 1)
      BY <3>1, <3>2, TopLevelsAre
    <3>4. BetterThan(DOMAIN book[side], side, p) = {q \in Live(side, next - 1) : Better(side, q, p)}
      BY <2>2 DEF BetterThan
    <3> QED BY <2>2, <3>3, <3>4 DEF Ahead
  <2> QED BY <2>3, <2>4
<1>3. ScriptFollowed
  BY DEF RunInv, StrategyInv, Followed, Triggered, ScriptFollowed
<1>4. SignalsMatchDepth
  BY DEF RunInv, StrategyInv, Signalled, StoppedByVolume, Calls, SignalsMatchDepth
<1> QED BY <1>1, <1>2, <1>3, <1>4

\* Before the first event nothing was reported, triggered or called.
LEMMA NothingYet ==
  ASSUME Typed, next = 1, emitted = {}, intents = << >>, status = "idle"
  PROVE  StrategyInv
<1>1. Triggered(0) = {} /\ Calls(0) = {} /\ next - 1 = 0
  BY DEF Triggered, Calls
<1>2. Cardinality({}) = 0 /\ Len(intents) = 0
  BY FS_EmptySet
<1>3. Followed(0)
  <2> DEFINE turn == Turns(Triggered(0))
             new == [i \in 1..Cardinality(Triggered(0)) |-> Intent(script[turn[i]], script[turn[i]].ts)]
  <2>0. Cardinality(Triggered(0)) = 0
    BY <1>1, <1>2
  <2>1. 1..Cardinality(Triggered(0)) = {}
    BY <2>0
  <2>2. new \in [1..0 -> {}]
    BY <2>1
  <2> HIDE DEF new
  <2>3. new = << >>
    BY <2>2
  <2> QED BY <1>1, <2>3 DEF Followed, new
<1>4. Signalled(0)
  BY <1>1, <1>2 DEF Signalled
<1> QED BY <1>1, <1>3, <1>4 DEF StrategyInv, StoppedByVolume

LEMMA InvInit == Init => RunInv
<1> SUFFICES ASSUME Init PROVE RunInv
  OBVIOUS
<1>1. RunTyped
  BY RunInit
<1>2. next = 1 /\ status = "idle" /\ emitted = {} /\ intents = << >> /\ imbalance = None /\ book = EmptyBook
  BY DEF Init, Loop!Init
<1>3. StrategyInv
  BY <1>1, <1>2, NothingYet DEF RunTyped
<1>4. BookShows
  <2>1. \A side \in Sides : Live(side, 0) = {}
    BY ReportedFirst DEF Live
  <2>2. DOMAIN book = Sides /\ \A side \in Sides : DOMAIN book[side] = {}
    BY <1>2 DEF EmptyBook
  <2>3. Shows(book, 0)
    BY <2>1, <2>2 DEF Shows
  <2> QED BY <1>2, <2>3 DEF BookShows
<1>5. IntentsValid
  BY <1>2 DEF IntentsValid
<1> QED BY <1>1, <1>3, <1>4, <1>5 DEF RunInv

\* What a scripted strategy emits for an event follows what it has emitted.
LEMMA FollowKeeps ==
  ASSUME RunTyped, next \in 1..Len(feed), Followed(next - 1), Follow(feed[next])
  PROVE  LET due  == Triggered(next)
             turn == Turns(due)
         IN  /\ emitted' = due
             /\ intents' = [i \in 1..Cardinality(due) |-> Intent(script[turn[i]], script[turn[i]].ts)]
<1> DEFINE m == feed[next]
           S == Triggered(next - 1)
           T == Due(m)
           turn == Turns(S \cup T)
           X(i) == Intent(script[turn[i]], script[turn[i]].ts)
<1>1. Typed /\ m \in MarketEvents /\ next \in Nat /\ next - 1 \in Nat /\ Len(feed) \in Nat
  BY FeedTyped DEF RunTyped
<1>2. emitted = S /\ intents = [i \in 1..Cardinality(S) |-> Intent(script[Turns(S)[i]], script[Turns(S)[i]].ts)]
  BY DEF Followed
<1>3. S \cup T = Triggered(next)
  <2>1. \A k \in DOMAIN script : k \in S <=> \E j \in 1..(next - 1) : Key(script[k]) = Key(feed[j])
    BY DEF Triggered
  <2>2. \A k \in DOMAIN script : k \in Triggered(next) <=> \E j \in 1..next : Key(script[k]) = Key(feed[j])
    BY DEF Triggered
  <2>3. \A k \in DOMAIN script : k \in T <=> k \notin S /\ Key(script[k]) = Key(m)
    BY <1>2 DEF Due
  <2>4. \A j : j \in 1..next <=> j \in 1..(next - 1) \/ j = next
    BY <1>1
  <2>5. \A k \in DOMAIN script : k \in Triggered(next) <=> k \in S \/ k \in T
    BY <2>1, <2>2, <2>3, <2>4
  <2>6. S \subseteq DOMAIN script /\ T \subseteq DOMAIN script /\ Triggered(next) \subseteq DOMAIN script
    BY DEF Triggered, Due
  <2> HIDE DEF S, T
  <2> QED BY <2>5, <2>6
<1>4. /\ S \subseteq DOMAIN script /\ T \subseteq DOMAIN script /\ DOMAIN script \subseteq Nat
      /\ IsFiniteSet(S) /\ IsFiniteSet(T)
  BY <1>1, DueFinite, FS_Subset DEF Triggered
\* Nothing due now stands before what was due: the script is sorted by its keys.
<1>5. ASSUME NEW x \in S, NEW y \in T PROVE x < y
  <2>1. PICK j \in 1..(next - 1) : Key(script[x]) = Key(feed[j])
    BY DEF Triggered
  <2>2. Key(script[y]) = Key(m) /\ y \notin S
    BY <1>2 DEF Due
  <2>3. Key(script[x]) # Key(script[y])
    <3>1. y \in DOMAIN script
      BY <1>4
    <3> QED BY <2>1, <2>2, <3>1 DEF Triggered
  <2>4. j \in 1..Len(feed) /\ j < next
    BY <1>1
  <2>5. ~KeyBefore(m, feed[j]) /\ feed[j].ts \in Nat /\ feed[j].seq \in Nat /\ m.ts \in Nat /\ m.seq \in Nat
    BY <1>1, <2>4, FeedTyped
  <2>6. /\ script[x].ts = feed[j].ts /\ script[x].seq = feed[j].seq
        /\ script[y].ts = m.ts /\ script[y].seq = m.seq
    BY <2>1, <2>2 DEF Key
  <2>7. script[x].ts # script[y].ts \/ script[x].seq # script[y].seq
    BY <2>3 DEF Key
  <2> HIDE DEF m
  <2>8. KeyBefore(script[x], script[y])
    BY <2>5, <2>6, <2>7 DEF KeyBefore
  <2>9. ~(y < x)
    BY <1>4, <2>8 DEF RunTyped, Accepted, EntryBefore
  <2>10. x # y
    BY <2>2
  <2> QED BY <1>4, <2>9, <2>10
<1> HIDE DEF S, T, m
<1>6. /\ Cardinality(S \cup T) = Cardinality(S) + Cardinality(T)
      /\ Cardinality(S) \in Nat /\ Cardinality(T) \in Nat
      /\ \A i \in 1..Cardinality(S) : turn[i] = Turns(S)[i]
      /\ \A i \in 1..Cardinality(T) : turn[Cardinality(S) + i] = Turns(T)[i]
  <2>1. S \in SUBSET Int /\ T \in SUBSET Int
    BY <1>4
  <2> QED BY <1>4, <1>5, <2>1, TurnsExtend
<1>7. /\ Len(intents') = Len(intents) + Cardinality(T) /\ intents' \in Seq(Emitted)
      /\ \A i \in 1..Len(intents) : intents'[i] = intents[i]
      /\ \A i \in 1..Cardinality(T) :
           /\ Turns(T)[i] \in T
           /\ intents'[Len(intents) + i] = Intent(script[Turns(T)[i]], m.ts)
  BY <1>1, FollowTyped DEF m, T
<1>8. emitted' = S \cup T
  BY <1>2 DEF Follow, m, T
<1> HIDE DEF turn
<1>9. Len(intents) = Cardinality(S)
  BY <1>2, <1>6
<1>10. ASSUME NEW i \in 1..(Cardinality(S) + Cardinality(T)) PROVE intents'[i] = X(i)
  <2>1. CASE i \in 1..Cardinality(S)
    BY <1>2, <1>6, <1>7, <1>9, <2>1
  <2>2. CASE i \notin 1..Cardinality(S)
    <3>1. PICK j \in 1..Cardinality(T) : i = Cardinality(S) + j
      <4>1. i - Cardinality(S) \in 1..Cardinality(T) /\ i = Cardinality(S) + (i - Cardinality(S))
        BY <1>6, <2>2
      <4> QED BY <4>1
    <3>2. turn[i] \in T /\ intents'[i] = Intent(script[turn[i]], m.ts)
      BY <1>6, <1>7, <1>9, <3>1, SMTT(60)
    <3>3. script[turn[i]].ts = m.ts
      BY <3>2 DEF T, Due, Key
    <3> QED BY <3>2, <3>3
  <2> QED BY <2>1, <2>2
<1> DEFINE new == [i \in 1..Cardinality(S \cup T) |-> X(i)]
<1>11. intents' = new
  <2>1. intents' = [i \in 1..Len(intents') |-> intents'[i]]
    BY <1>7
  <2>2. Len(intents') = Cardinality(S \cup T) /\ \A i \in 1..Cardinality(S \cup T) : intents'[i] = X(i)
    BY <1>6, <1>7, <1>9, <1>10
  <2> HIDE DEF X
  <2> QED BY <2>1, <2>2
<1> QED BY <1>3, <1>8, <1>11 DEF turn

-----------------------------------------------------------------------------
(* What the feed calls for does not change as it is read. *)

LEMMA SameCalls ==
  ASSUME feed' = feed, setting' = setting
  PROVE  \A n : /\ AllShown(n)' = AllShown(n) /\ Apart(n)' = Apart(n)
                /\ Called(n)' = Called(n) /\ Calls(n)' = Calls(n)
<1>1. \A n, side : Live(side, n)' = Live(side, n)
  BY SameFeedShows
<1>2. \A n, side, p : LastReported(side, p, n)' = LastReported(side, p, n)
  BY SameFeedShows
<1>3. \A n, side, p : Ahead(side, n, p)' = Ahead(side, n, p)
  BY <1>1 DEF Ahead
<1>4. \A n, side : Shown(side, n)' = Shown(side, n)
  BY <1>1, <1>2, <1>3 DEF Shown
<1>5. \A n : AllShown(n)' = AllShown(n) /\ Apart(n)' = Apart(n) /\ Lean(n)' = Lean(n)
  BY <1>1, <1>4 DEF AllShown, Apart, Lean
<1>6. \A n : Called(n)' = Called(n)
  BY <1>4, <1>5 DEF Called
<1> QED BY <1>5, <1>6 DEF Calls

LEMMA CallsFinite ==
  ASSUME NEW n \in Nat
  PROVE  Calls(n) \in SUBSET (1..n) /\ Calls(n) \in SUBSET Int /\ IsFiniteSet(Calls(n))
<1>1. Calls(n) \in SUBSET (1..n)
  BY DEF Calls
<1> QED BY <1>1, PlacesFinite

LEMMA CallsStep ==
  ASSUME NEW n \in Nat \ {0}
  PROVE  /\ Called(n) = None => Calls(n) = Calls(n - 1)
         /\ Called(n) # None => Calls(n) = Calls(n - 1) \cup {n}
<1>1. \A k : k \in 1..n <=> k \in 1..(n - 1) \/ k = n
  OBVIOUS
<1> QED BY <1>1 DEF Calls

LEMMA NoCallKeeps ==
  ASSUME Typed, next \in 1..Len(feed), Signalled(next - 1), Called(next) = None
  PROVE  Signalled(next)
<1>1. Calls(next) = Calls(next - 1)
  BY CallsStep, FeedTyped
<1> QED BY <1>1 DEF Signalled

LEMMA CallKeeps ==
  ASSUME Typed, next \in 1..Len(feed), Signalled(next - 1), Called(next) # None,
         Len(intents') = Len(intents) + 1,
         \A i \in 1..Len(intents) : intents'[i] = intents[i],
         intents'[Len(intents) + 1].side = Called(next),
         intents'[Len(intents) + 1].ts = feed[next].ts
  PROVE  LET turn == Turns(Calls(next))
         IN  /\ Len(intents') = Cardinality(Calls(next))
             /\ \A k \in 1..Len(intents') :
                  intents'[k].side = Called(turn[k]) /\ intents'[k].ts = feed[turn[k]].ts
<1> DEFINE S == Calls(next - 1)
           m == Len(intents)
           turn == Turns(Calls(next))
<1>1. next \in Nat \ {0} /\ next - 1 \in Nat /\ next \in Int
  BY FeedTyped
<1>2. S \in SUBSET (1..(next - 1)) /\ S \in SUBSET Int /\ IsFiniteSet(S)
  BY <1>1, CallsFinite
<1>3. Calls(next) = S \cup {next}
  BY <1>1, CallsStep
<1>4. /\ m = Cardinality(S)
      /\ \A k \in 1..m : intents[k].side = Called(Turns(S)[k]) /\ intents[k].ts = feed[Turns(S)[k]].ts
  BY DEF Signalled
<1>5. IsFiniteSet({next}) /\ Cardinality({next}) = 1 /\ Turns({next})[1] = next
  BY <1>1, TurnsOfOne
<1> HIDE DEF S
<1>6. \A x \in S : \A y \in {next} : x < y
  <2> SUFFICES ASSUME NEW x \in S PROVE x < next
    OBVIOUS
  <2>1. x \in 1..(next - 1)
    BY <1>2
  <2> QED BY <1>1, <2>1
<1>7. /\ Cardinality(S \cup {next}) = Cardinality(S) + Cardinality({next}) /\ Cardinality(S) \in Nat
      /\ \A i \in 1..Cardinality(S) : Turns(S \cup {next})[i] = Turns(S)[i]
      /\ \A i \in 1..Cardinality({next}) : Turns(S \cup {next})[Cardinality(S) + i] = Turns({next})[i]
  <2> DEFINE T == {next}
  <2>1. T \in SUBSET Int /\ IsFiniteSet(T) /\ \A x \in S : \A y \in T : x < y
    BY <1>1, <1>5, <1>6
  <2> HIDE DEF T
  <2>2. /\ Cardinality(S \cup T) = Cardinality(S) + Cardinality(T) /\ Cardinality(S) \in Nat
        /\ \A i \in 1..Cardinality(S) : Turns(S \cup T)[i] = Turns(S)[i]
        /\ \A i \in 1..Cardinality(T) : Turns(S \cup T)[Cardinality(S) + i] = Turns(T)[i]
    BY <1>2, <2>1, TurnsExtend
  <2> QED BY <2>2 DEF T
<1>8. /\ Cardinality(Calls(next)) = m + 1 /\ m \in Nat
      /\ \A i \in 1..m : turn[i] = Turns(S)[i]
      /\ turn[m + 1] = next
  <2>1. 1 \in 1..Cardinality({next})
    BY <1>5
  <2> QED BY <1>3, <1>4, <1>5, <1>7, <2>1, ZenonT(60)
<1> HIDE DEF turn, m
<1>9. ASSUME NEW k \in 1..(m + 1)
      PROVE  intents'[k].side = Called(turn[k]) /\ intents'[k].ts = feed[turn[k]].ts
  <2>1. CASE k \in 1..m
    BY <1>4, <1>8, <2>1 DEF m
  <2>2. CASE k = m + 1
    BY <1>8, <2>2 DEF m
  <2> QED BY <1>8, <2>1, <2>2
<1> QED BY <1>8, <1>9 DEF m, turn

-----------------------------------------------------------------------------
(* The steps. *)

LEMMA LoadKeeps ==
  ASSUME RunInv, Load PROVE RunInv'
<1>1. /\ UNCHANGED <<setting, emitted, imbalance, intents, book, feed, next, now, queue, nextSeq, trace, status>>
      /\ status = "idle" /\ loaded = "no"
  BY DEF Load, loopVars
<1>2. RunTyped'
  BY LoadTyped DEF RunInv
<1>3. Typed' /\ next' = 1 /\ emitted' = {} /\ intents' = << >> /\ status' = "idle"
  BY <1>1, <1>2 DEF RunTyped, Accepted
<1>4. (Typed /\ next = 1 /\ emitted = {} /\ intents = << >> /\ status = "idle" => StrategyInv)'
  BY NothingYet, PTL
<1>5. StrategyInv'
  BY <1>3, <1>4
<1>6. BookShows'
  <2>1. \A n, side : Live(side, n)' = Live(side, n)
    BY <1>1, SameFeedShows
  <2>2. \A n, side, p : LastReported(side, p, n)' = LastReported(side, p, n)
    BY <1>1, SameFeedShows
  <2> QED BY <1>1, <2>1, <2>2 DEF RunInv, BookShows, Shows
<1>7. IntentsValid'
  BY <1>1 DEF RunInv, IntentsValid
<1> QED BY <1>2, <1>5, <1>6, <1>7 DEF RunInv

LEMMA SilentKeeps ==
  ASSUME RunInv, [Next]_runVars, ~Load, ~OnBook, ~OnTrade PROVE RunInv'
<1>1. RunTyped /\ RunTyped'
  BY RunStep DEF RunInv
<1>2. /\ UNCHANGED <<setting, loaded, script, emitted, imbalance, intents, book, feed, next>>
      /\ now' \in Nat /\ now <= now' /\ now \in Nat
      /\ status' # "handler_threw" \/ status' = status
  BY <1>1, SilentStep DEF RunTyped, Typed
<1>3. BookShows'
  <2>1. \A n, side : Live(side, n)' = Live(side, n)
    BY <1>2, SameFeedShows
  <2>2. \A n, side, p : LastReported(side, p, n)' = LastReported(side, p, n)
    BY <1>2, SameFeedShows
  <2> QED BY <1>2, <2>1, <2>2 DEF RunInv, BookShows, Shows
<1>4. IntentsValid'
  <2>1. \A k \in 1..Len(intents) : intents[k].ts <= now'
    <3> SUFFICES ASSUME NEW k \in 1..Len(intents) PROVE intents[k].ts <= now'
      OBVIOUS
    <3>1. intents[k] \in Emitted
      BY <1>1 DEF RunTyped, Typed
    <3>2. intents[k].ts \in Nat /\ intents[k].ts <= now
      BY <3>1 DEF Emitted, RunInv, IntentsValid
    <3> QED BY <1>2, <3>2
  <2> QED BY <1>2, <2>1 DEF RunInv, IntentsValid
<1>5. StrategyInv'
  <2>1. \A n : Triggered(n)' = Triggered(n)
    BY <1>2 DEF Triggered, Key
  <2>2. \A n : Followed(n) => Followed(n)'
    BY <1>2, <2>1 DEF Followed, Intent
  <2>3. \A n : Calls(n)' = Calls(n) /\ Called(n)' = Called(n)
                 /\ AllShown(n)' = AllShown(n) /\ Apart(n)' = Apart(n)
    BY <1>2, SameCalls
  <2>4. \A n : Signalled(n) => Signalled(n)'
    BY <1>2, <2>3 DEF Signalled
  <2>5. \A n : StoppedByVolume(n) => StoppedByVolume(n)'
    BY <1>2, <2>3 DEF StoppedByVolume
  <2> QED BY <1>2, <2>2, <2>4, <2>5 DEF RunInv, StrategyInv
<1> QED BY <1>1, <1>3, <1>4, <1>5 DEF RunInv

\* A market event leaves in a scripted run what the script has triggered.
LEMMA FollowedNext ==
  ASSUME RunTyped, next \in 1..Len(feed), Followed(next - 1), Follow(feed[next]),
         UNCHANGED <<script, feed>>, NEW n, n = next
  PROVE  Followed(n)'
<1>1. /\ emitted' = Triggered(n)
      /\ intents' = [i \in 1..Cardinality(Triggered(n)) |->
                       Intent(script[Turns(Triggered(n))[i]], script[Turns(Triggered(n))[i]].ts)]
  BY FollowKeeps
<1>2. Triggered(n)' = Triggered(n)
  BY DEF Triggered, Key
<1> QED BY <1>1, <1>2 DEF Followed, Intent

LEMMA SignalledNext ==
  ASSUME RunTyped, next \in 1..Len(feed), Signalled(next - 1), Shows(book', next),
         feed[next].event.type = "book", UNCHANGED <<setting, feed>>, NEW n, n = next,
         \/ ~Overflows(book') /\ Measure(book', feed[next])
         \/ Overflows(book') /\ intents' = intents
  PROVE  Signalled(n)'
<1>1. Typed /\ feed[next] \in MarketEvents
  BY FeedTyped DEF RunTyped
<1>2. Called(next) = IF Overflows(book') THEN None ELSE Signal(book')
  BY <1>1, CalledIs
<1>3. /\ Len(intents') = Cardinality(Calls(n))
      /\ \A k \in 1..Len(intents') :
           /\ intents'[k].side = Called(Turns(Calls(n))[k])
           /\ intents'[k].ts = feed[Turns(Calls(n))[k]].ts
  <2>1. CASE Called(next) = None
    <3>1. intents' = intents
      BY <1>1, <1>2, <2>1, MeasureTyped
    <3>2. Signalled(next)
      BY <1>1, <2>1, NoCallKeeps
    <3> QED BY <3>1, <3>2 DEF Signalled
  <2>2. CASE Called(next) # None
    <3>1. Measure(book', feed[next]) /\ Signal(book') = Called(next)
      BY <1>2, <2>2
    <3>2. /\ Len(intents') = Len(intents) + 1
          /\ \A i \in 1..Len(intents) : intents'[i] = intents[i]
          /\ intents'[Len(intents) + 1].side = Called(next)
          /\ intents'[Len(intents) + 1].ts = feed[next].ts
      BY <1>1, <2>2, <3>1, MeasureTyped
    <3>3. /\ Len(intents') = Cardinality(Calls(next))
          /\ \A k \in 1..Len(intents') :
               /\ intents'[k].side = Called(Turns(Calls(next))[k])
               /\ intents'[k].ts = feed[Turns(Calls(next))[k]].ts
      BY <1>1, <2>2, <3>2, CallKeeps
    <3> QED BY <3>3
  <2> QED BY <2>1, <2>2
<1>4. Calls(n)' = Calls(n) /\ \A k : Called(k)' = Called(k)
  BY SameCalls
<1> QED BY <1>3, <1>4 DEF Signalled

LEMMA TradeSignalsNothing ==
  ASSUME RunTyped, next \in 1..Len(feed), Signalled(next - 1),
         feed[next].event.type # "book", UNCHANGED <<setting, feed, intents>>, NEW n, n = next
  PROVE  Signalled(n)'
<1>1. Called(next) = None
  BY DEF Called
<1>2. Signalled(n)
  BY <1>1, NoCallKeeps DEF RunTyped
<1>3. Calls(n)' = Calls(n) /\ \A k : Called(k)' = Called(k)
  BY SameCalls
<1> QED BY <1>2, <1>3 DEF Signalled

\* Old intents stay valid, new ones are of a valid entry or setting.
LEMMA FollowValid ==
  ASSUME RunInv, next \in 1..Len(feed), Follow(feed[next]), now' \in Nat, now <= now',
         now' = feed[next].ts, imbalance' = imbalance
  PROVE  IntentsValid'
<1> DEFINE m == feed[next]
           Valid(i, t) == /\ i.side \in Sides /\ i.qty > 0 /\ i.ts <= t
                          /\ i.limit # NoLimit => i.limit \in Nat
                          /\ i.type = "limit" => i.limit # NoLimit
                          /\ i.type \in {"market", "limit"}
<1>1. Typed /\ RunTyped /\ m \in MarketEvents /\ now \in Nat
  BY FeedTyped DEF RunInv, RunTyped, Typed
<1>2. /\ intents' \in Seq(Emitted) /\ Len(intents') = Len(intents) + Cardinality(Due(m))
      /\ \A i \in 1..Len(intents) : intents'[i] = intents[i]
      /\ \A i \in 1..Cardinality(Due(m)) :
           /\ Turns(Due(m))[i] \in Due(m)
           /\ intents'[Len(intents) + i] = Intent(script[Turns(Due(m))[i]], m.ts)
  BY <1>1, FollowTyped
<1>3. Len(intents) \in Nat /\ Cardinality(Due(m)) \in Nat
  BY <1>1, DueFinite DEF Typed
<1>4. ASSUME NEW k \in Due(m) PROVE Valid(Intent(script[k], m.ts), now')
  <2>1. script[k] \in Entries /\ ValidEntry(script[k])
    BY <1>1, DueFinite DEF RunTyped, Typed, Accepted
  <2>2. m.ts <= now'
    OBVIOUS
  <2> HIDE DEF m
  <2> QED BY <2>1, <2>2 DEF Intent, Entries, Limits, ValidEntry, ValidLimit
<1>5. ASSUME NEW k \in 1..Len(intents) PROVE Valid(intents[k], now')
  <2>1. intents[k] \in Emitted
    BY <1>1 DEF Typed
  <2>2. intents[k].ts \in Nat /\ Valid(intents[k], now)
    BY <2>1 DEF Emitted, RunInv, IntentsValid
  <2> QED BY <1>1, <2>2
<1> HIDE DEF m, Valid
<1>6. ASSUME NEW k \in 1..Len(intents') PROVE Valid(intents'[k], now')
  <2>1. CASE k \in 1..Len(intents)
    BY <1>2, <1>5, <2>1
  <2>2. CASE k \notin 1..Len(intents)
    <3>1. PICK i \in 1..Cardinality(Due(m)) : k = Len(intents) + i
      <4>1. k - Len(intents) \in 1..Cardinality(Due(m)) /\ k = Len(intents) + (k - Len(intents))
        BY <1>2, <1>3, <2>2
      <4> QED BY <4>1
    <3> QED BY <1>2, <1>4, <3>1
  <2> QED BY <2>1, <2>2
<1>7. imbalance' # None => imbalance'[2] > 0 /\ imbalance'[1] \in (-imbalance'[2])..imbalance'[2]
  BY DEF RunInv, IntentsValid
<1> QED BY <1>6, <1>7 DEF IntentsValid, Valid

LEMMA ImbalanceValid ==
  ASSUME Typed, NEW n \in 0..Len(feed), NEW b, Shows(b, n), Measurable(b), ~Overflows(b)
  PROVE  Imbalance(b)[2] > 0 /\ Imbalance(b)[1] \in (-Imbalance(b)[2])..Imbalance(b)[2]
<1>1. "buy" \in Sides /\ "sell" \in Sides
  BY DEF Sides
<1>2. PICK x \in Nat : x = Volume(b, "buy") /\ x = Shown("buy", n)
  BY <1>1, ShownIs
<1>3. PICK y \in Nat : y = Volume(b, "sell") /\ y = Shown("sell", n)
  BY <1>1, ShownIs
<1>4. x # 0
  BY <1>2, ApartIs
<1>5. Imbalance(b) = Divide(x - y, x + y) /\ ~(x + y > MaxQuantity)
  BY <1>2, <1>3 DEF Imbalance, Overflows
<1>6. x + y \in 1..MaxQuantity /\ x - y \in (-(x + y))..(x + y)
  BY <1>4, <1>5, DivisionAssumption
<1>7. LET q == Divide(x - y, x + y) IN q[1] \in Int /\ q[2] \in Nat \ {0} /\ q[1] \in (-q[2])..q[2]
  BY <1>6, DivisionAssumption
<1> QED BY <1>5, <1>7

LEMMA MeasureValid ==
  ASSUME RunInv, next \in 1..Len(feed), Measure(book', feed[next]), Shows(book', next),
         now' \in Nat, now <= now', now' = feed[next].ts, status = "running",
         setting.strategy = "queue_imbalance", ~Overflows(book')
  PROVE  IntentsValid'
<1> DEFINE m == feed[next]
           Valid(i, t) == /\ i.side \in Sides /\ i.qty > 0 /\ i.ts <= t
                          /\ i.limit # NoLimit => i.limit \in Nat
                          /\ i.type = "limit" => i.limit # NoLimit
                          /\ i.type \in {"market", "limit"}
<1>1. Typed /\ RunTyped /\ m \in MarketEvents /\ now \in Nat /\ Len(intents) \in Nat /\ next \in 0..Len(feed)
  BY FeedTyped DEF RunInv, RunTyped, Typed
<1>2. /\ ValidSetting(setting) /\ setting \in Settings
  BY <1>1 DEF RunTyped, Typed, Accepted
<1>3. /\ Signal(book') = None => intents' = intents
      /\ Signal(book') # None =>
           /\ Len(intents') = Len(intents) + 1
           /\ \A i \in 1..Len(intents) : intents'[i] = intents[i]
           /\ LET new == intents'[Len(intents) + 1]
              IN  /\ new.side = Signal(book') /\ new.side \in Sides /\ new.ts = m.ts
                  /\ new.type = setting.type /\ new.qty = setting.qty /\ new.limit = setting.limit
  BY <1>1, MeasureTyped
<1>4. m.ts <= now'
  OBVIOUS
<1>5. ASSUME NEW k \in 1..Len(intents) PROVE Valid(intents[k], now')
  <2>1. intents[k] \in Emitted
    BY <1>1 DEF Typed
  <2>2. intents[k].ts \in Nat /\ Valid(intents[k], now)
    BY <2>1 DEF Emitted, RunInv, IntentsValid
  <2> QED BY <1>1, <2>2
<1>6. /\ setting.qty > 0 /\ (setting.type = "limit" => setting.limit # NoLimit)
      /\ setting.type \in {"market", "limit"} /\ (setting.limit # NoLimit => setting.limit \in Nat)
  BY <1>2 DEF ValidSetting, ValidLimit, Settings, Limits
<1>7. ASSUME Signal(book') # None PROVE Valid(intents'[Len(intents) + 1], now')
  <2> DEFINE new == intents'[Len(intents) + 1]
  <2>1. /\ new.side \in Sides /\ new.ts = m.ts
        /\ new.type = setting.type /\ new.qty = setting.qty /\ new.limit = setting.limit
    BY <1>3, <1>7
  <2> HIDE DEF new, m
  <2>2. Valid(new, now')
    BY <1>4, <1>6, <2>1
  <2> QED BY <2>2 DEF new
<1> HIDE DEF m, Valid
<1>8. ASSUME NEW k \in 1..Len(intents') PROVE Valid(intents'[k], now')
  <2>1. CASE Signal(book') = None
    BY <1>3, <1>5, <2>1
  <2>2. CASE Signal(book') # None
    <3>1. k \in 1..Len(intents) \/ k = Len(intents) + 1
      BY <1>1, <1>3, <2>2
    <3> QED BY <1>3, <1>5, <1>7, <2>2, <3>1
  <2> QED BY <2>1, <2>2
<1>9. imbalance' # None => imbalance'[2] > 0 /\ imbalance'[1] \in (-imbalance'[2])..imbalance'[2]
  <2>1. CASE Measurable(book')
    <3>1. imbalance' = Imbalance(book')
      BY <2>1 DEF Measure
    <3> QED BY <1>1, <2>1, <3>1, ImbalanceValid
  <2>2. CASE ~Measurable(book')
    BY <2>2 DEF Measure
  <2> QED BY <2>1, <2>2
<1> QED BY <1>8, <1>9 DEF IntentsValid, Valid

LEMMA ReadKeeps ==
  ASSUME RunInv, NEW n, n = next, Shows(book', n), feed' = feed, next' = next + 1
  PROVE  BookShows'
<1>1. next' - 1 = n
  BY FeedTyped DEF RunInv, RunTyped
<1>2. \A side : Live(side, n)' = Live(side, n)
  BY SameFeedShows
<1>3. \A side, p : LastReported(side, p, n)' = LastReported(side, p, n)
  BY SameFeedShows
<1>4. Shows(book, n)'
  BY <1>2, <1>3 DEF Shows
<1> QED BY <1>1, <1>4 DEF BookShows

LEMMA OnBookKeeps ==
  ASSUME RunInv, OnBook PROVE RunInv'
<1>1. PICK throws \in BOOLEAN :
        /\ Loop!DispatchMarket([requests |-> << >>, throws |-> throws])
        /\ throws = (setting.strategy = "queue_imbalance" /\ Overflows(book'))
  <2>1. (setting.strategy = "queue_imbalance" /\ Overflows(book')) \in BOOLEAN
    OBVIOUS
  <2> QED BY <2>1 DEF OnBook
<1>2. RunTyped /\ Typed
  BY DEF RunInv, RunTyped
<1>3. /\ status = "running" /\ next \in 1..Len(feed)
      /\ feed' = feed /\ next' = next + 1 /\ now' = feed[next].ts /\ now' \in Nat /\ now <= now'
      /\ status' = IF throws THEN "handler_threw" ELSE "running"
  BY <1>1, <1>2, MarketStep
<1>4. /\ feed[next].event.type = "book" /\ book' = Apply(book, feed[next].event)
      /\ UNCHANGED <<setting, loaded, script>>
      /\ \/ setting.strategy = "scripted" /\ Follow(feed[next]) /\ UNCHANGED imbalance
         \/ /\ setting.strategy = "queue_imbalance" /\ ~Overflows(book')
            /\ Measure(book', feed[next])
         \/ /\ setting.strategy = "queue_imbalance" /\ Overflows(book')
            /\ UNCHANGED <<emitted, imbalance, intents>>
  BY DEF OnBook
<1>5. PICK n : n = next
  OBVIOUS
<1>6. Shows(book', next)
  BY <1>2, <1>3, <1>4, ApplyShows DEF RunInv, BookShows
<1>7. next' - 1 = n
  BY <1>2, <1>3, <1>5, FeedTyped
<1>8. RunTyped'
  BY <1>2, OnBookTyped
<1>9. BookShows'
  BY <1>3, <1>5, <1>6, ReadKeeps
<1>10. IntentsValid'
  <2>1. CASE Follow(feed[next]) /\ UNCHANGED imbalance
    BY <1>3, <2>1, FollowValid
  <2>2. CASE setting.strategy = "queue_imbalance" /\ ~Overflows(book') /\ Measure(book', feed[next])
    BY <1>3, <1>6, <2>2, MeasureValid
  <2>3. CASE UNCHANGED <<emitted, imbalance, intents>>
    <3>1. \A k \in 1..Len(intents) : intents[k].ts <= now'
      <4> SUFFICES ASSUME NEW k \in 1..Len(intents) PROVE intents[k].ts <= now'
        OBVIOUS
      <4>1. intents[k] \in Emitted
        BY <1>2 DEF Typed
      <4>2. intents[k].ts \in Nat /\ intents[k].ts <= now /\ now \in Nat
        BY <1>2, <4>1 DEF Emitted, RunInv, IntentsValid, Typed
      <4> QED BY <1>3, <4>2
    <3> QED BY <2>3, <3>1 DEF RunInv, IntentsValid
  <2> QED BY <1>4, <2>1, <2>2, <2>3
<1>11. ASSUME setting.strategy = "scripted" PROVE Followed(n)'
  <2>1. Follow(feed[next]) /\ Followed(next - 1)
    BY <1>4, <1>11 DEF RunInv, StrategyInv
  <2> QED BY <1>2, <1>3, <1>4, <1>5, <2>1, FollowedNext
<1>12. ASSUME setting.strategy = "queue_imbalance" PROVE Signalled(n)'
  <2>1. Signalled(next - 1)
    BY <1>12 DEF RunInv, StrategyInv
  <2>2. \/ ~Overflows(book') /\ Measure(book', feed[next])
        \/ Overflows(book') /\ intents' = intents
    BY <1>4, <1>12
  <2> QED BY <1>2, <1>3, <1>4, <1>5, <1>6, <2>1, <2>2, SignalledNext
<1>13. ASSUME setting.strategy = "queue_imbalance" PROVE StoppedByVolume(n)'
  <2>1. ASSUME status' = "handler_threw"
        PROVE  AllShown(n) > MaxQuantity /\ feed[n].event.type = "book" /\ Apart(n)
    <3>1. Overflows(book')
      BY <1>1, <1>3, <2>1
    <3> QED BY <1>2, <1>3, <1>4, <1>5, <1>6, <3>1, CalledIs
  <2>2. AllShown(n)' = AllShown(n) /\ Apart(n)' = Apart(n)
    BY <1>3, <1>4, SameCalls
  <2> QED BY <1>3, <2>1, <2>2 DEF StoppedByVolume
<1>14. StrategyInv'
  BY <1>4, <1>7, <1>11, <1>12, <1>13 DEF StrategyInv
<1> QED BY <1>8, <1>9, <1>10, <1>14 DEF RunInv

LEMMA OnTradeKeeps ==
  ASSUME RunInv, OnTrade PROVE RunInv'
<1>1. /\ Loop!DispatchMarket([requests |-> << >>, throws |-> FALSE])
      /\ feed[next].event.type = "trade"
      /\ UNCHANGED <<setting, loaded, script, imbalance, book>>
      /\ IF setting.strategy = "scripted" THEN Follow(feed[next]) ELSE UNCHANGED <<emitted, intents>>
  BY DEF OnTrade
<1>2. RunTyped /\ Typed
  BY DEF RunInv, RunTyped
<1>3. /\ status = "running" /\ next \in 1..Len(feed) /\ status' = "running"
      /\ feed' = feed /\ next' = next + 1 /\ now' = feed[next].ts /\ now' \in Nat /\ now <= now'
  BY <1>1, <1>2, MarketStep
<1>4. PICK n : n = next
  OBVIOUS
<1>5. Shows(book, next)
  BY <1>1, <1>2, <1>3, OtherShows DEF RunInv, BookShows
<1>6. next' - 1 = n
  BY <1>2, <1>3, <1>4, FeedTyped
<1>7. RunTyped'
  BY <1>2, OnTradeTyped
<1>8. BookShows'
  BY <1>1, <1>3, <1>4, <1>5, ReadKeeps
<1>9. IntentsValid'
  <2>1. CASE setting.strategy = "scripted"
    BY <1>1, <1>3, <2>1, FollowValid
  <2>2. CASE setting.strategy # "scripted"
    <3>1. \A k \in 1..Len(intents) : intents[k].ts <= now'
      <4> SUFFICES ASSUME NEW k \in 1..Len(intents) PROVE intents[k].ts <= now'
        OBVIOUS
      <4>1. intents[k] \in Emitted
        BY <1>2 DEF Typed
      <4>2. intents[k].ts \in Nat /\ intents[k].ts <= now /\ now \in Nat
        BY <1>2, <4>1 DEF Emitted, RunInv, IntentsValid, Typed
      <4> QED BY <1>3, <4>2
    <3> QED BY <1>1, <2>2, <3>1 DEF RunInv, IntentsValid
  <2> QED BY <2>1, <2>2
<1>10. ASSUME setting.strategy = "scripted" PROVE Followed(n)'
  <2>1. Follow(feed[next]) /\ Followed(next - 1)
    BY <1>1, <1>10 DEF RunInv, StrategyInv
  <2> QED BY <1>1, <1>2, <1>3, <1>4, <2>1, FollowedNext
<1>11. ASSUME setting.strategy = "queue_imbalance" PROVE Signalled(n)'
  <2>1. Signalled(next - 1) /\ intents' = intents /\ feed[next].event.type # "book"
    BY <1>1, <1>11 DEF RunInv, StrategyInv
  <2> QED BY <1>1, <1>2, <1>3, <1>4, <2>1, TradeSignalsNothing
<1>12. StrategyInv'
  BY <1>1, <1>3, <1>6, <1>10, <1>11 DEF StrategyInv, StoppedByVolume
<1> QED BY <1>7, <1>8, <1>9, <1>12 DEF RunInv

LEMMA InvStep == RunInv /\ [Next]_runVars => RunInv'
<1> SUFFICES ASSUME RunInv, [Next]_runVars PROVE RunInv'
  OBVIOUS
<1>1. CASE ~Load /\ ~OnBook /\ ~OnTrade
  BY <1>1, SilentKeeps
<1> QED BY <1>1, LoadKeeps, OnBookKeeps, OnTradeKeeps

LEMMA RunSafe == Spec => []RunInv
<1> QED BY InvInit, InvStep, PTL DEF Spec

\* A configuration that is accepted leads only to intents that can become
\* orders, of a known side and type, a positive quantity, a limit where one
\* is needed and never a negative one, and a time that has come; the
\* imbalance is within -1..1.
THEOREM IntentsBecomeOrders == Spec => []StrategyTypeOK
<1> QED BY RunSafe, InvGives, PTL

\* At any depth the book lists, best price first, the levels that the feed
\* last reported with a quantity, and nothing else.
THEOREM BookIsLastReports == Spec => []DepthShowsLastReports
<1> QED BY RunSafe, InvGives, PTL

\* A scripted run has emitted its script's triggered entries, each once and in
\* the script's order, whatever keys the feed repeats.
THEOREM ScriptIsFollowed == Spec => []ScriptFollowed
<1> QED BY RunSafe, InvGives, PTL

\* The queue imbalance has called for a side after exactly the updates that
\* leave an open market leaning beyond a threshold, and has stopped the run
\* only for volumes that do not fit.
THEOREM SignalsFollowDepth == Spec => []SignalsMatchDepth
<1> QED BY RunSafe, InvGives, PTL
=============================================================================
