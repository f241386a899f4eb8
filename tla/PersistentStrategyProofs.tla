------------------------ MODULE PersistentStrategyProofs ------------------------
(***************************************************************************)
(* What the persistent strategy never does, for any lot, any submission    *)
(* modes and any number of candles, orders and cycles.  The invariant is   *)
(* TypeOK with StrategyInv: as long as a cycle has captured no result, its *)
(* position is the balance and it has no report to read.                   *)
(***************************************************************************)
EXTENDS PersistentStrategy, SequenceTheorems, TLAPS

Inv == TypeOK /\ StrategyInv

LEMMA NothingQueued == <<>> \in Seq(Candle \cup Report) /\ <<>> \in Seq(Report)
  OBVIOUS

\* The reports of a match are reports of the order, well formed.
LEMMA ReportsType ==
    ASSUME orders \in OrderIds, order.side \in {"BUY", "SELL"}, order.q \in Quantity,
           NEW z \in 0..order.q, NEW first \in 0..z
    PROVE  Reports(first, z) \in Seq(Report)
  <1>0. Lot \in Nat /\ order.q \in Nat /\ z \in Nat /\ first \in Nat
    BY LotAssumption DEF Quantity
  <1>1. ASSUME NEW status \in Statuses, NEW n \in 0..order.q
        PROVE  ReportOf(status, n) \in Report
    <2>1. n \in Quantity /\ n <= order.q
      BY <1>0, <1>1, LotAssumption DEF Quantity
    <2>. QED
      BY <2>1 DEF ReportOf, Report
  <1>2. {ReportOf("NEW", 0), ReportOf("PARTIALLY_FILLED", first), ReportOf("PARTIALLY_FILLED", z),
         ReportOf("FILLED", z), ReportOf("EXPIRED", z)} \subseteq Report
    <2>1. 0 \in 0..order.q /\ first \in 0..order.q /\ z \in 0..order.q
      BY <1>0
    <2>2. {"NEW", "PARTIALLY_FILLED", "FILLED", "EXPIRED"} \subseteq Statuses
      BY DEF Statuses
    <2>. QED
      BY <1>1, <2>1, <2>2
  <1>. DEFINE a == ReportOf("NEW", 0)
              b == ReportOf("PARTIALLY_FILLED", first)
              c == ReportOf("PARTIALLY_FILLED", z)
              d == ReportOf(IF z = order.q THEN "FILLED" ELSE "EXPIRED", z)
  <1>3. a \in Report /\ b \in Report /\ c \in Report /\ d \in Report
    BY <1>2
  <1>4. Reports(first, z) = <<a>> \o (IF 0 < first /\ first < order.q THEN <<b>> ELSE <<>>)
                            \o (IF first < z /\ z < order.q THEN <<c>> ELSE <<>>) \o <<d>>
    BY DEF Reports
  <1>. HIDE DEF a, b, c, d
  <1>. QED
    BY <1>3, <1>4

LEMMA InitInv == Init => Inv
  <1>1. ASSUME Init PROVE TypeOK
    <2>1. 0 \in Quantity /\ held \in Quantity /\ position \in Quantity
      BY <1>1, LotAssumption DEF Init, Quantity
    <2>2. 0 \in 0..MaxCandles /\ 0 \in 0..MaxOrders /\ 0 \in 0..MaxCycles /\ 0 \in 0..(MaxCandles + 1)
      BY PsBoundAssumption
    <2>. QED
      BY <1>1, <2>1, <2>2, NothingQueued DEF Init, TypeOK, None
  <1>2. Init => StrategyInv
    BY DEF Init, StrategyInv
  <1>. QED
    BY <1>1, <1>2 DEF Inv

\* The end of a cycle, shared by Cancelled and SubmitRaises.
LEMMA CycleOverInv == Inv /\ CycleOver => Inv'
  <1>. SUFFICES ASSUME Inv, CycleOver PROVE Inv'
    OBVIOUS
  <1>. USE DEF Inv, CycleOver, strategyVars
  <1>1. TypeOK'
    BY NothingQueued DEF TypeOK, NoOrder
  <1>2. StrategyInv'
    BY DEF StrategyInv
  <1>. QED
    BY <1>1, <1>2

LEMMA OnStartInv == Inv /\ OnStart => Inv'
  <1>. SUFFICES ASSUME Inv, OnStart PROVE Inv'
    OBVIOUS
  <1>. USE DEF Inv, OnStart, streamVars, submitVars
  <1>1. cycles' \in 0..MaxCycles /\ last' \in 0..(MaxCandles + 1)
    BY PsBoundAssumption DEF TypeOK
  <1>3. pending' \in OrderIds \cup {None} /\ captured' \in OrderIds \cup {None}
    OBVIOUS
  <1>4. TypeOK'
    BY <1>1, <1>3 DEF TypeOK
  <1>2. StrategyInv'
    BY DEF StrategyInv, Quiet, None
  <1>. QED
    BY <1>2, <1>4

LEMMA StreamsInv == Inv /\ Streams => Inv'
  <1>. SUFFICES ASSUME Inv, Streams PROVE Inv'
    OBVIOUS
  <1>. USE DEF Inv, strategyVars, submitVars, streamVars
  <1>1. CASE MarketConnects
    <2>1. TypeOK'
      BY <1>1 DEF TypeOK, MarketConnects
    <2>2. StrategyInv'
      BY <1>1 DEF StrategyInv, Quiet, MarketConnects
    <2>. QED
      BY <2>1, <2>2
  <1>2. CASE UserConnects
    <2>1. TypeOK'
      BY <1>2 DEF TypeOK, UserConnects
    <2>2. StrategyInv'
      BY <1>2 DEF StrategyInv, Quiet, UserConnects
    <2>. QED
      BY <2>1, <2>2
  <1>3. CASE MarketDrops
    <2>1. TypeOK'
      BY <1>3 DEF TypeOK, MarketDrops
    <2>2. StrategyInv'
      BY <1>3 DEF StrategyInv, Quiet, MarketDrops
    <2>. QED
      BY <2>1, <2>2
  <1>4. CASE UserDrops
    <2>1. TypeOK'
      BY <1>4, NothingQueued DEF TypeOK, UserDrops
    <2>2. StrategyInv'
      BY <1>4 DEF StrategyInv, Quiet, UserDrops
    <2>. QED
      BY <2>1, <2>2
  <1>5. CASE PumpMarket
    <2>1. closed' \in 1..MaxCandles
      BY <1>5, PsBoundAssumption DEF PumpMarket, TypeOK
    <2>2. CASE market
      <3>1. PICK signal \in {-1, 0, 1} :
              queue' = Append(queue, [kind |-> "candle", close |-> closed', signal |-> signal])
        BY <1>5, <2>2 DEF PumpMarket
      <3>. DEFINE c == [kind |-> "candle", close |-> closed', signal |-> signal]
      <3>2. c \in Candle /\ c.kind # "report" /\ queue' = Append(queue, c)
        BY <2>1, <3>1 DEF Candle
      <3>. HIDE DEF c
      <3>3. TypeOK'
        BY <1>5, <2>1, <3>2 DEF TypeOK, PumpMarket
      <3>4. Quiet => Quiet'
        BY <1>5, <3>2 DEF TypeOK, PumpMarket, Quiet
      <3>5. StrategyInv'
        BY <1>5, <2>2, <3>4 DEF PumpMarket, StrategyInv
      <3>. QED
        BY <3>3, <3>5
    <2>3. CASE ~market
      <3>1. TypeOK'
        BY <1>5, <2>1, <2>3 DEF TypeOK, PumpMarket
      <3>2. StrategyInv'
        BY <1>5, <2>3 DEF StrategyInv, Quiet, PumpMarket
      <3>. QED
        BY <3>1, <3>2
    <2>. QED
      BY <2>2, <2>3
  <1>6. CASE PumpUser
    <2>1. wire \in Seq(Report) /\ wire # <<>>
      BY <1>6 DEF PumpUser, TypeOK
    <2>2. Head(wire) \in Report /\ Tail(wire) \in Seq(Report)
      BY <2>1
    <2>3. TypeOK'
      BY <1>6, <2>2 DEF PumpUser, TypeOK
    <2>4. ~Quiet
      BY <2>1 DEF Quiet
    <2>5. StrategyInv'
      BY <1>6, <2>4 DEF PumpUser, StrategyInv
    <2>. QED
      BY <2>3, <2>5
  <1>. QED
    BY <1>1, <1>2, <1>3, <1>4, <1>5, <1>6 DEF Streams

\* What taking an event from the queue leaves in it.
LEMMA TakeQueue ==
    ASSUME TypeOK, queue # <<>>, queue' = Tail(queue), wire' = wire
    PROVE  /\ queue' \in Seq(Candle \cup Report) /\ Head(queue) \in Candle \cup Report
           /\ Quiet => Quiet'
  <1>1. queue \in Seq(Candle \cup Report)
    BY DEF TypeOK
  <1>2. Tail(queue) \in Seq(Candle \cup Report) /\ Head(queue) \in Candle \cup Report
    BY <1>1
  <1>3. ASSUME NEW i \in DOMAIN Tail(queue)
        PROVE  i + 1 \in DOMAIN queue /\ Tail(queue)[i] = queue[i + 1]
    BY <1>1, <1>3
  <1>4. Quiet => Quiet'
    BY <1>3 DEF Quiet
  <1>. QED
    BY <1>2, <1>4

\* The order a candle leads to is one the position allows.
LEMMA DecisionType ==
    ASSUME Inv, Takes("candle"), Decision(Head(queue)) # NoOrder
    PROVE  /\ captured = None /\ Quiet /\ position = held
           /\ \/ Decision(Head(queue)) = [side |-> "BUY", q |-> Lot] /\ held = 0
              \/ Decision(Head(queue)) = [side |-> "SELL", q |-> held]
  <1>1. captured = None
    <2>1. Capture = None
      BY DEF Decision
    <2>2. captured \in OrderIds \cup {None}
      BY DEF Inv, TypeOK
    <2>. QED
      BY <2>1, <2>2 DEF Capture
  <1>2. Quiet /\ position = held
    BY <1>1 DEF Inv, StrategyInv, Takes
  <1>3. position \in Nat
    BY LotAssumption DEF Inv, TypeOK, Quantity
  <1>. QED
    BY <1>1, <1>2, <1>3 DEF Decision

LEMMA OnMarketEventInv == Inv /\ OnMarketEvent => Inv'
  <1>. SUFFICES ASSUME Inv, OnMarketEvent PROVE Inv'
    OBVIOUS
  <1>. USE DEF Inv
  <1>1. queue # <<>> /\ Takes("candle") /\ queue' = Tail(queue) /\ wire' = wire /\ pc = "idle"
    BY DEF OnMarketEvent, Takes
  <1>2. /\ queue' \in Seq(Candle \cup Report)
        /\ Head(queue) \in Candle \cup Report
        /\ Quiet => Quiet'
    BY <1>1, TakeQueue
  <1>3. Head(queue).close \in 1..MaxCandles
    BY <1>1, <1>2 DEF Takes, Candle, Report
  <1>4. pending' \in OrderIds \cup {None} /\ last' \in 0..(MaxCandles + 1)
    BY <1>3, PsBoundAssumption DEF OnMarketEvent, TypeOK, Capture
  <1>5. CASE Decision(Head(queue)) = NoOrder
    <2>1. pc' = pc /\ orders' = orders /\ order' = order /\ outcome' = outcome
      BY <1>5 DEF OnMarketEvent, submitVars
    <2>2. TypeOK'
      BY <1>2, <1>4, <2>1 DEF OnMarketEvent, TypeOK, streamVars
    <2>3. StrategyInv'
      BY <1>1, <1>2, <2>1 DEF OnMarketEvent, StrategyInv, streamVars
    <2>. QED
      BY <2>2, <2>3
  <1>6. CASE Decision(Head(queue)) # NoOrder
    <2>1. /\ orders < MaxOrders /\ orders' = orders + 1
          /\ order' = Decision(Head(queue)) /\ outcome' = "none" /\ pc' = "submitting"
      BY <1>6 DEF OnMarketEvent
    <2>2. /\ Quiet /\ position = held
          /\ \/ order' = [side |-> "BUY", q |-> Lot] /\ held = 0
             \/ order' = [side |-> "SELL", q |-> held]
      BY <1>1, <1>6, <2>1, DecisionType
    <2>3. orders' \in 1..MaxOrders
      BY <2>1, PsBoundAssumption DEF TypeOK
    <2>4. TypeOK'
      BY <1>2, <1>4, <2>1, <2>2, <2>3, LotAssumption
         DEF OnMarketEvent, TypeOK, streamVars, Quantity
    <2>5. StrategyInv'
      BY <1>2, <2>1, <2>2, <2>3, <1>6 DEF OnMarketEvent, StrategyInv, streamVars, NoOrder
    <2>. QED
      BY <2>4, <2>5
  <1>. QED
    BY <1>5, <1>6

LEMMA OnUserEventInv == Inv /\ OnUserEvent => Inv'
  <1>. SUFFICES ASSUME Inv, OnUserEvent PROVE Inv'
    OBVIOUS
  <1>. USE DEF Inv
  <1>1. queue # <<>> /\ queue' = Tail(queue) /\ wire' = wire /\ pc = "idle"
        /\ Head(queue).kind = "report"
    BY DEF OnUserEvent, Takes
  <1>2. queue' \in Seq(Candle \cup Report) /\ Head(queue) \in Candle \cup Report
    BY <1>1, TakeQueue
  <1>3. Head(queue) \in Report
    BY <1>1, <1>2 DEF Candle
  <1>4. /\ Head(queue).id \in OrderIds
        /\ Head(queue).z \in 0..Lot /\ Head(queue).q \in 0..Lot /\ Head(queue).z <= Head(queue).q
    BY <1>3 DEF Report, Quantity
  <1>5. Head(queue).q - Head(queue).z \in Quantity /\ Head(queue).z \in Quantity
    BY <1>4, LotAssumption DEF Quantity
  <1>6. position' \in Quantity /\ pending' \in OrderIds \cup {None}
    BY <1>4, <1>5 DEF OnUserEvent, TypeOK
  <1>7. TypeOK'
    BY <1>2, <1>6 DEF OnUserEvent, TypeOK, streamVars, submitVars
  <1>8. ~Quiet
    BY <1>1 DEF Quiet, TypeOK
  <1>9. StrategyInv'
    BY <1>1, <1>8 DEF OnUserEvent, StrategyInv, streamVars, submitVars
  <1>. QED
    BY <1>7, <1>9

LEMMA MatchInv == Inv /\ Match => Inv'
  <1>. SUFFICES ASSUME Inv, Match PROVE Inv'
    OBVIOUS
  <1>. USE DEF Inv
  <1>0. PICK z \in 0..order.q :
          /\ held' = IF order.side = "BUY" THEN held + z ELSE held - z
          /\ \E first \in 0..z : wire' = IF user THEN wire \o Reports(first, z) ELSE wire
    BY DEF Match
  <1>1. PICK first \in 0..z : wire' = IF user THEN wire \o Reports(first, z) ELSE wire
    BY <1>0
  <1>2. /\ pc = "submitting" /\ orders \in OrderIds
        /\ order.side \in {"BUY", "SELL"} /\ order.q \in Quantity
        /\ order.side = "BUY" => held = 0
        /\ order.side = "SELL" => order.q = held
    <2>1. pc = "submitting" /\ outcome = "none"
      BY DEF Match, Waiting
    <2>2. orders \in OrderIds
      BY <2>1, PsBoundAssumption DEF TypeOK, StrategyInv, OrderIds
    <2>3. order \in [side : {"BUY", "SELL"}, q : Quantity]
      BY <2>1 DEF TypeOK, StrategyInv
    <2>. QED
      BY <2>1, <2>2, <2>3 DEF StrategyInv
  <1>3. Reports(first, z) \in Seq(Report)
    BY <1>2, ReportsType
  <1>4. wire' \in Seq(Report)
    BY <1>1, <1>3 DEF TypeOK
  <1>5. held' \in Quantity
    BY <1>0, <1>2, LotAssumption DEF TypeOK, Quantity
  <1>6. TypeOK'
    BY <1>4, <1>5 DEF Match, TypeOK, streamVars, strategyVars
  <1>7. StrategyInv'
    BY <1>2 DEF Match, StrategyInv, streamVars, strategyVars
  <1>. QED
    BY <1>6, <1>7

LEMMA OtherSubmitInv == Inv /\ (Simulate \/ Reject \/ SubmitReturns) => Inv'
  <1>. SUFFICES ASSUME Inv, Simulate \/ Reject \/ SubmitReturns PROVE Inv'
    OBVIOUS
  <1>. USE DEF Inv, streamVars, strategyVars
  <1>1. CASE Simulate \/ Reject
    <2>1. TypeOK'
      BY <1>1 DEF Simulate, Reject, TypeOK
    <2>2. StrategyInv'
      BY <1>1 DEF Simulate, Reject, Waiting, StrategyInv
    <2>. QED
      BY <2>1, <2>2
  <1>2. CASE SubmitReturns
    <2>1. orders \in OrderIds
      BY <1>2, PsBoundAssumption DEF SubmitReturns, TypeOK, StrategyInv, OrderIds
    <2>2. TypeOK'
      BY <1>2, <2>1 DEF SubmitReturns, TypeOK, NoOrder
    <2>3. StrategyInv'
      BY <1>2, <2>1 DEF SubmitReturns, StrategyInv, OrderIds, None
    <2>. QED
      BY <2>2, <2>3
  <1>. QED
    BY <1>1, <1>2

LEMMA StepInv == Inv /\ [Next]_vars => Inv'
  <1>. SUFFICES ASSUME Inv, [Next]_vars PROVE Inv'
    OBVIOUS
  <1>1. CASE Runner
    BY <1>1, OnStartInv, OnMarketEventInv, OnUserEventInv, OtherSubmitInv, CycleOverInv
       DEF Runner, SubmitRaises
  <1>2. CASE Streams
    BY <1>2, StreamsInv
  <1>3. CASE Exchange
    BY <1>3, MatchInv, OtherSubmitInv DEF Exchange
  <1>4. CASE Cancelled
    BY <1>4, CycleOverInv DEF Cancelled
  <1>5. CASE UNCHANGED vars
    <2>1. TypeOK'
      BY <1>5 DEF Inv, TypeOK, vars
    <2>2. StrategyInv'
      BY <1>5 DEF Inv, StrategyInv, Quiet, vars
    <2>. QED
      BY <2>1, <2>2 DEF Inv
  <1>. QED
    BY <1>1, <1>2, <1>3, <1>4, <1>5 DEF Next

THEOREM InvAlways == Spec => []Inv
  BY InitInv, StepInv, PTL DEF Spec

\* Every variable of the runner, the strategy and the exchange keeps its type; the
\* balance stays between nothing and one lot.
THEOREM TypeCorrect == Spec => []TypeOK
  <1>1. Inv => TypeOK
    BY DEF Inv
  <1>. QED
    BY <1>1, InvAlways, PTL

\* What the strategy knows of its position and its order, in every state.
THEOREM KnowsItsPosition == Spec => []StrategyInv
  <1>1. Inv => StrategyInv
    BY DEF Inv
  <1>. QED
    BY <1>1, InvAlways, PTL

\* Only a candle makes the strategy submit, and only in a state it knows.
LEMMA SubmitStep ==
    ASSUME Inv, [Next]_vars, orders' > orders
    PROVE  /\ Quiet
           /\ \/ order' = [side |-> "BUY", q |-> Lot] /\ held = 0
              \/ order' = [side |-> "SELL", q |-> held]
  <1>0. orders \in Nat
    BY PsBoundAssumption DEF Inv, TypeOK
  <1>1. OnMarketEvent
    BY <1>0 DEF Next, Runner, Streams, Exchange, vars, strategyVars, submitVars, streamVars,
           OnStart, OnUserEvent, SubmitReturns, SubmitRaises, Cancelled, CycleOver,
           MarketConnects, UserConnects, MarketDrops, UserDrops, PumpMarket, PumpUser,
           Match, Simulate, Reject
  <1>2. Takes("candle")
    BY <1>1 DEF OnMarketEvent
  <1>3. Decision(Head(queue)) # NoOrder
    BY <1>0, <1>1 DEF OnMarketEvent, submitVars
  <1>4. order' = Decision(Head(queue))
    BY <1>1, <1>3 DEF OnMarketEvent
  <1>. QED
    BY <1>2, <1>3, <1>4, DecisionType

\* The next order waits for every report of the last one.
THEOREM OneOrderAlways == Spec => OneOrderAtATime
  <1>1. Inv /\ [Next]_vars => [orders' > orders => ~Unread]_vars
    <2>. SUFFICES ASSUME Inv, [Next]_vars, orders' > orders PROVE ~Unread
      OBVIOUS
    <2>. QED
      BY SubmitStep DEF Quiet, Unread
  <1>. QED
    BY <1>1, InvAlways, PTL DEF Spec, OneOrderAtATime

\* The strategy is never long twice, whatever streams and responses it loses.
THEOREM NeverLongTwice == Spec => BuysOnlyWhenFlat
  <1>1. Inv /\ [Next]_vars => [Submits("BUY") => held = 0]_vars
    <2>. SUFFICES ASSUME Inv, [Next]_vars, Submits("BUY") PROVE held = 0
      OBVIOUS
    <2>. QED
      BY SubmitStep DEF Submits
  <1>. QED
    BY <1>1, InvAlways, PTL DEF Spec, BuysOnlyWhenFlat

\* The strategy never sells what it does not hold.
THEOREM NeverShort == Spec => SellsOnlyWhatItHolds
  <1>1. Inv /\ [Next]_vars => [Submits("SELL") => order'.q <= held]_vars
    <2>. SUFFICES ASSUME Inv, [Next]_vars, Submits("SELL") PROVE order'.q <= held
      OBVIOUS
    <2>1. held \in Nat
      BY LotAssumption DEF Inv, TypeOK, Quantity
    <2>. QED
      BY <2>1, SubmitStep DEF Submits
  <1>. QED
    BY <1>1, InvAlways, PTL DEF Spec, SellsOnlyWhatItHolds

-----------------------------------------------------------------------------
(* The position converges                                                   *)

Events == Candle \cup Report

LEMMA QueueType == TypeOK => queue \in Seq(Events) /\ wire \in Seq(Events)
  BY SeqMonotonic DEF TypeOK, Events

\* Reading a sequence of events: what the first one leaves to the others, ...
LEMMA TailMoves ==
    ASSUME NEW S, NEW events \in Seq(S), events # <<>>, NEW b
    PROVE  /\ Still(events) <=> ~Moves(Head(events)) /\ Still(Tail(events))
           /\ EndsAt(events, b) => EndsAt(Tail(events), b)
           /\ EndsAt(events, b) /\ Moves(Head(events)) /\ Still(Tail(events))
                => MovedTo(Head(events)) = b
  <1>1. /\ Len(events) \in Nat /\ Len(events) > 0
        /\ DOMAIN events = 1..Len(events)
        /\ Head(events) = events[1]
        /\ DOMAIN Tail(events) = 1..(Len(events) - 1)
        /\ \A i \in 1..(Len(events) - 1) : Tail(events)[i] = events[i + 1]
    <2>1. Tail(events) \in Seq(S) /\ Len(Tail(events)) = Len(events) - 1
      BY HeadTailProperties
    <2>2. \A i \in 1..(Len(events) - 1) : Tail(events)[i] = events[i + 1]
      BY HeadTailProperties
    <2>3. Len(events) \in Nat /\ DOMAIN events = 1..Len(events) /\ Len(events) > 0
      BY EmptySeq, LenProperties
    <2>. QED
      BY <2>1, <2>2, <2>3, LenProperties
  <1>. DEFINE n == Len(events)
  <1>. HIDE DEF Moves, MovedTo
  <1>2. \A j \in 1..n : j = 1 \/ (j - 1 \in 1..(n - 1) /\ Tail(events)[j - 1] = events[j])
    <2>. TAKE j \in 1..n
    <2>1. j = 1 \/ (j - 1 \in 1..(n - 1) /\ (j - 1) + 1 = j)
      BY <1>1
    <2>. QED
      BY <1>1, <2>1
  <1>3. Still(events) <=> ~Moves(Head(events)) /\ Still(Tail(events))
    <2>1. ASSUME Still(events) PROVE ~Moves(Head(events)) /\ Still(Tail(events))
      <3>1. \A i \in 1..(n - 1) : i + 1 \in 1..n /\ 1 \in 1..n
        BY <1>1
      <3>2. \A j \in 1..n : ~Moves(events[j])
        BY <1>1, <2>1 DEF Still
      <3>3. ~Moves(Head(events))
        BY <1>1, <3>2
      <3>4. \A i \in 1..(n - 1) : ~Moves(Tail(events)[i])
        BY <1>1, <3>1, <3>2
      <3>. QED
        BY <1>1, <3>3, <3>4 DEF Still
    <2>2. ASSUME ~Moves(Head(events)), Still(Tail(events)) PROVE Still(events)
      BY <1>1, <1>2, <2>2 DEF Still
    <2>. QED
      BY <2>1, <2>2
  <1>4. ASSUME EndsAt(events, b) PROVE EndsAt(Tail(events), b)
    <2>. SUFFICES ASSUME NEW i \in 1..(n - 1), Moves(Tail(events)[i]), MovedTo(Tail(events)[i]) # b
                  PROVE  \E j \in 1..(n - 1) : j > i /\ Moves(Tail(events)[j])
      BY <1>1 DEF EndsAt
    <2>1. i + 1 \in 1..n /\ Moves(events[i + 1]) /\ MovedTo(events[i + 1]) # b
      BY <1>1
    <2>2. PICK j \in 1..n : j > i + 1 /\ Moves(events[j])
      BY <1>1, <1>4, <2>1 DEF EndsAt
    <2>3. j - 1 \in 1..(n - 1) /\ j - 1 > i /\ Tail(events)[j - 1] = events[j]
      BY <1>2, <2>2
    <2>. QED
      BY <2>2, <2>3
  <1>5. ASSUME EndsAt(events, b), Moves(Head(events)), Still(Tail(events))
        PROVE  MovedTo(Head(events)) = b
    <2>1. ASSUME NEW j \in 1..n, j > 1 PROVE ~Moves(events[j])
      <3>1. j - 1 \in 1..(n - 1) /\ Tail(events)[j - 1] = events[j]
        BY <1>2, <2>1
      <3>. QED
        BY <1>1, <1>5, <3>1 DEF Still
    <2>2. 1 \in 1..n
      BY <1>1
    <2>. QED
      BY <1>1, <1>5, <2>1, <2>2 DEF EndsAt
  <1>. QED
    BY <1>3, <1>4, <1>5

\* ... and what later ones change for those before them.
LEMMA ConcatMoves ==
    ASSUME NEW S, NEW s \in Seq(S), NEW t \in Seq(S), NEW b
    PROVE  /\ Still(s \o t) <=> Still(s) /\ Still(t)
           /\ EndsAt(t, b) /\ (Still(t) => EndsAt(s, b)) => EndsAt(s \o t, b)
  <1>. DEFINE m == Len(s)  n == Len(t)
  <1>1. /\ m \in Nat /\ n \in Nat
        /\ DOMAIN s = 1..m /\ DOMAIN t = 1..n /\ DOMAIN (s \o t) = 1..(m + n)
        /\ \A i \in 1..m : i \in 1..(m + n) /\ (s \o t)[i] = s[i]
        /\ \A i \in 1..n : m + i \in 1..(m + n) /\ (s \o t)[m + i] = t[i]
    <2>1. m \in Nat /\ n \in Nat /\ DOMAIN s = 1..m /\ DOMAIN t = 1..n
      BY LenProperties
    <2>2. s \o t \in Seq(S) /\ Len(s \o t) = m + n
      BY ConcatProperties
    <2>3. DOMAIN (s \o t) = 1..(m + n)
      BY <2>2, LenProperties
    <2>4. \A i \in 1..(m + n) : (s \o t)[i] = IF i <= m THEN s[i] ELSE t[i - m]
      BY ConcatProperties
    <2>5. \A i \in 1..m : i \in 1..(m + n) /\ i <= m
      BY <2>1
    <2>6. \A i \in 1..n : m + i \in 1..(m + n) /\ ~(m + i <= m) /\ (m + i) - m = i
      BY <2>1
    <2>. QED
      BY <2>1, <2>3, <2>4, <2>5, <2>6
  <1>2. \A j \in 1..(m + n) : j \in 1..m \/ (j - m \in 1..n /\ m + (j - m) = j)
    BY <1>1
  <1>. HIDE DEF m, n
  <1>3. ASSUME Still(s \o t) PROVE Still(s) /\ Still(t)
    BY <1>1, <1>3 DEF Still
  <1>4. ASSUME Still(s), Still(t) PROVE Still(s \o t)
    <2>. SUFFICES ASSUME NEW j \in 1..(m + n) PROVE ~Moves((s \o t)[j])
      BY <1>1 DEF Still
    <2>1. CASE j \in 1..m
      BY <1>1, <1>4, <2>1 DEF Still
    <2>2. CASE j - m \in 1..n /\ m + (j - m) = j
      <3>1. (s \o t)[j] = t[j - m]
        BY <1>1, <2>2
      <3>. QED
        BY <1>1, <1>4, <2>2, <3>1 DEF Still
    <2>. QED
      BY <1>2, <2>1, <2>2
  <1>5. ASSUME EndsAt(t, b), Still(t) => EndsAt(s, b) PROVE EndsAt(s \o t, b)
    <2>. SUFFICES ASSUME NEW j \in 1..(m + n), Moves((s \o t)[j])
                  PROVE  MovedTo((s \o t)[j]) = b
                         \/ \E k \in 1..(m + n) : k > j /\ Moves((s \o t)[k])
      BY <1>1 DEF EndsAt
    <2>1. CASE j \in 1..m
      <3>1. CASE Still(t)
        <4>1. MovedTo(s[j]) = b \/ \E k \in 1..m : k > j /\ Moves(s[k])
          BY <1>1, <1>5, <2>1, <3>1 DEF EndsAt
        <4>. QED
          BY <1>1, <2>1, <4>1
      <3>2. CASE ~Still(t)
        <4>1. PICK i \in 1..n : Moves(t[i])
          BY <1>1, <3>2 DEF Still
        <4>2. m + i \in 1..(m + n) /\ m + i > j /\ (s \o t)[m + i] = t[i]
          BY <1>1, <2>1
        <4>. QED
          BY <4>1, <4>2
      <3>. QED
        BY <3>1, <3>2
    <2>2. CASE j - m \in 1..n /\ m + (j - m) = j
      <3>1. (s \o t)[j] = t[j - m]
        BY <1>1, <2>2
      <3>2. MovedTo(t[j - m]) = b \/ \E k \in 1..n : k > j - m /\ Moves(t[k])
        BY <1>1, <1>5, <2>2, <3>1 DEF EndsAt
      <3>3. ASSUME NEW k \in 1..n, k > j - m, Moves(t[k])
            PROVE  \E l \in 1..(m + n) : l > j /\ Moves((s \o t)[l])
        <4>1. m + k \in 1..(m + n) /\ m + k > j /\ (s \o t)[m + k] = t[k]
          BY <1>1, <3>3
        <4>. QED
          BY <3>3, <4>1
      <3>. QED
        BY <3>1, <3>2, <3>3
    <2>. QED
      BY <1>2, <2>1, <2>2
  <1>. QED
    BY <1>3, <1>4, <1>5

LEMMA OneMoves ==
    ASSUME NEW e, NEW b
    PROVE  /\ Still(<<e>>) <=> ~Moves(e)
           /\ EndsAt(<<e>>, b) <=> (Moves(e) => MovedTo(e) = b)
           /\ Still(<<>>) /\ EndsAt(<<>>, b)
  <1>1. DOMAIN <<e>> = {1} /\ <<e>>[1] = e /\ DOMAIN <<>> = {}
    OBVIOUS
  <1>. HIDE DEF Moves, MovedTo
  <1>2. Still(<<e>>) <=> ~Moves(e)
    BY <1>1 DEF Still
  <1>3. EndsAt(<<e>>, b) <=> (Moves(e) => MovedTo(e) = b)
    <2>1. ~(1 > 1)
      OBVIOUS
    <2>. QED
      BY <1>1, <2>1 DEF EndsAt
  <1>4. Still(<<>>) /\ EndsAt(<<>>, b)
    BY <1>1 DEF Still, EndsAt
  <1>. QED
    BY <1>2, <1>3, <1>4

LEMMA AppendMoves ==
    ASSUME NEW S, NEW s \in Seq(S), NEW e \in S, NEW b
    PROVE  /\ Still(Append(s, e)) <=> Still(s) /\ ~Moves(e)
           /\ (IF Moves(e) THEN MovedTo(e) = b ELSE EndsAt(s, b)) => EndsAt(Append(s, e), b)
  <1>1. Append(s, e) = s \o <<e>> /\ <<e>> \in Seq(S)
    BY AppendIsConcat
  <1>2. /\ Still(<<e>>) <=> ~Moves(e)
        /\ EndsAt(<<e>>, b) <=> (Moves(e) => MovedTo(e) = b)
    BY OneMoves
  <1>3. /\ Still(s \o <<e>>) <=> Still(s) /\ Still(<<e>>)
        /\ EndsAt(<<e>>, b) /\ (Still(<<e>>) => EndsAt(s, b)) => EndsAt(s \o <<e>>, b)
    BY <1>1, ConcatMoves
  <1>. QED
    BY <1>1, <1>2, <1>3

\* The reports of a match say what it made: nothing, or in the end z.
LEMMA ReportsMove ==
    ASSUME orders \in OrderIds, order.side \in {"BUY", "SELL"}, order.q \in Quantity,
           NEW z \in 0..order.q, NEW first \in 0..z, NEW b,
           b = IF order.side = "BUY" THEN z ELSE order.q - z
    PROVE  /\ EndsAt(Reports(first, z), b)
           /\ Still(Reports(first, z)) => z = 0
  <1>0. order.q \in Nat /\ z \in Nat /\ first \in Nat /\ first <= z /\ z <= order.q
    BY LotAssumption DEF Quantity
  <1>. DEFINE a == ReportOf("NEW", 0)
              p == ReportOf("PARTIALLY_FILLED", first)
              c == ReportOf("PARTIALLY_FILLED", z)
              d == ReportOf(IF z = order.q THEN "FILLED" ELSE "EXPIRED", z)
              A == <<a>>
              B == IF 0 < first /\ first < order.q THEN <<p>> ELSE <<>>
              C == IF first < z /\ z < order.q THEN <<c>> ELSE <<>>
              D == <<d>>
              All == {a, p, c, d}
  <1>1. \A s \in Statuses, n \in Nat :
          /\ Moves(ReportOf(s, n)) <=> s \in {"PARTIALLY_FILLED", "FILLED"}
          /\ MovedTo(ReportOf(s, n)) = IF order.side = "BUY" THEN n ELSE order.q - n
    BY DEF ReportOf, Moves, MovedTo
  <1>2. /\ ~Moves(a) /\ Moves(p) /\ Moves(c)
        /\ first = z => MovedTo(p) = b
        /\ MovedTo(c) = b /\ MovedTo(d) = b
        /\ z = order.q => Moves(d)
    <2>1. {"NEW", "PARTIALLY_FILLED", "FILLED", "EXPIRED"} \subseteq Statuses
      BY DEF Statuses
    <2>2. ~Moves(a)
      BY <1>1, <2>1
    <2>3. Moves(p) /\ (first = z => MovedTo(p) = b)
      BY <1>0, <1>1, <2>1
    <2>4. Moves(c) /\ MovedTo(c) = b
      BY <1>0, <1>1, <2>1
    <2>5. MovedTo(d) = b /\ (z = order.q => Moves(d))
      BY <1>0, <1>1, <2>1
    <2>. QED
      BY <2>2, <2>3, <2>4, <2>5
  <1>11. Reports(first, z) = ((A \o B) \o C) \o D
    BY DEF Reports
  <1>a. a \in All /\ p \in All /\ c \in All /\ d \in All
    OBVIOUS
  <1>. HIDE DEF a, p, c, d, All
  <1>3. Still(A) /\ EndsAt(A, b) /\ A \in Seq(All)
    <2>1. Still(A) /\ EndsAt(A, b)
      BY <1>2, OneMoves
    <2>. QED
      BY <1>a, <2>1
  <1>4. /\ B \in Seq(All)
        /\ 0 < first /\ first < order.q => ~Still(B)
        /\ ~(0 < first /\ first < order.q) => Still(B) /\ EndsAt(B, b)
        /\ first = z => EndsAt(B, b)
    <2>1. /\ ~Still(<<p>>) /\ (first = z => EndsAt(<<p>>, b))
          /\ Still(<<>>) /\ EndsAt(<<>>, b)
      BY <1>2, OneMoves
    <2>2. <<p>> \in Seq(All) /\ <<>> \in Seq(All)
      BY <1>a
    <2>. QED
      BY <2>1, <2>2
  <1>5. /\ C \in Seq(All)
        /\ first < z /\ z < order.q => ~Still(C)
        /\ EndsAt(C, b)
    <2>1. ~Still(<<c>>) /\ EndsAt(<<c>>, b) /\ EndsAt(<<>>, b)
      BY <1>2, OneMoves
    <2>2. <<c>> \in Seq(All) /\ <<>> \in Seq(All)
      BY <1>a
    <2>. QED
      BY <2>1, <2>2
  <1>6. /\ D \in Seq(All)
        /\ z = order.q => ~Still(D)
        /\ EndsAt(D, b)
    <2>1. (z = order.q => ~Still(<<d>>)) /\ EndsAt(<<d>>, b)
      BY <1>2, OneMoves
    <2>2. <<d>> \in Seq(All)
      BY <1>a
    <2>. QED
      BY <2>1, <2>2
  <1>. HIDE DEF A, B, C, D, All
  <1>7. A \o B \in Seq(All) /\ (A \o B) \o C \in Seq(All)
    BY <1>3, <1>4, <1>5
  <1>8. /\ Still(A \o B) <=> Still(B)
        /\ EndsAt(B, b) => EndsAt(A \o B, b)
    BY <1>3, <1>4, ConcatMoves
  <1>9. /\ Still((A \o B) \o C) <=> Still(B) /\ Still(C)
        /\ (Still(C) => EndsAt(A \o B, b)) => EndsAt((A \o B) \o C, b)
    BY <1>5, <1>7, <1>8, ConcatMoves
  <1>10. /\ Still(((A \o B) \o C) \o D) <=> Still(B) /\ Still(C) /\ Still(D)
         /\ (Still(D) => EndsAt((A \o B) \o C, b)) => EndsAt(((A \o B) \o C) \o D, b)
    BY <1>6, <1>7, <1>9, ConcatMoves
  <1>12. ASSUME Still(D), Still(C) PROVE EndsAt(B, b)
    BY <1>0, <1>4, <1>5, <1>6, <1>12
  <1>13. ASSUME Still(B), Still(C), Still(D) PROVE z = 0
    BY <1>0, <1>4, <1>5, <1>6, <1>13
  <1>. QED
    BY <1>8, <1>9, <1>10, <1>11, <1>12, <1>13

LEMMA ConvergeStays ==
    ASSUME ConvergeInv, pc # "down", pc' # "down",
           UNCHANGED <<queue, wire, position, held, lost>>
    PROVE  ConvergeInv'
  BY DEF ConvergeInv

LEMMA ConvergeStreams == Inv /\ ConvergeInv /\ Streams => ConvergeInv'
  <1>. SUFFICES ASSUME Inv, ConvergeInv, Streams PROVE ConvergeInv'
    OBVIOUS
  <1>. USE DEF strategyVars, submitVars, streamVars
  <1>0. queue \in Seq(Events) /\ wire \in Seq(Events)
    BY QueueType DEF Inv
  <1>1. CASE MarketConnects \/ UserConnects \/ MarketDrops
    BY <1>1 DEF MarketConnects, UserConnects, MarketDrops, ConvergeInv
  <1>2. CASE UserDrops
    <2>1. ~lost' => wire' = wire
      BY <1>2 DEF UserDrops
    <2>. QED
      BY <1>2, <2>1 DEF UserDrops, ConvergeInv
  <1>3. CASE PumpMarket
    <2>1. UNCHANGED <<pc, wire, position, held, lost>>
      BY <1>3 DEF PumpMarket
    <2>2. CASE market
      <3>1. PICK signal \in {-1, 0, 1} :
              queue' = Append(queue, [kind |-> "candle", close |-> closed', signal |-> signal])
        BY <1>3, <2>2 DEF PumpMarket
      <3>. DEFINE c == [kind |-> "candle", close |-> closed', signal |-> signal]
      <3>2. c \in Events
        <4>1. closed' \in 1..MaxCandles
          BY <1>3, PsBoundAssumption DEF PumpMarket, Inv, TypeOK
        <4>. QED
          BY <4>1 DEF Events, Candle
      <3>3. ~Moves(c)
        BY DEF Moves
      <3>4. queue' = Append(queue, c)
        BY <3>1
      <3>. HIDE DEF c
      <3>5. /\ Still(queue') <=> Still(queue)
            /\ EndsAt(queue, held) => EndsAt(queue', held)
        BY <1>0, <3>2, <3>3, <3>4, AppendMoves
      <3>. QED
        BY <2>1, <3>5 DEF ConvergeInv
    <2>3. CASE ~market
      BY <1>3, <2>1, <2>3 DEF PumpMarket, ConvergeInv
    <2>. QED
      BY <2>2, <2>3
  <1>4. CASE PumpUser
    <2>1. /\ UNCHANGED <<pc, position, held, lost>>
          /\ pc # "down" /\ wire # <<>>
          /\ queue' = Append(queue, Head(wire)) /\ wire' = Tail(wire)
      BY <1>4 DEF PumpUser
    <2>2. Head(wire) \in Events
      BY <1>0, <2>1, HeadTailProperties
    <2>3. /\ Still(wire) <=> ~Moves(Head(wire)) /\ Still(wire')
          /\ EndsAt(wire, held) => EndsAt(wire', held)
          /\ EndsAt(wire, held) /\ Moves(Head(wire)) /\ Still(wire') => MovedTo(Head(wire)) = held
      BY <1>0, <2>1, TailMoves
    <2>4. /\ Still(queue') <=> Still(queue) /\ ~Moves(Head(wire))
          /\ (IF Moves(Head(wire)) THEN MovedTo(Head(wire)) = held ELSE EndsAt(queue, held))
               => EndsAt(queue', held)
      BY <1>0, <2>1, <2>2, AppendMoves
    <2>. QED
      BY <2>1, <2>3, <2>4 DEF ConvergeInv
  <1>. QED
    BY <1>1, <1>2, <1>3, <1>4 DEF Streams

LEMMA ConvergeRunner == Inv /\ ConvergeInv /\ Runner => ConvergeInv'
  <1>. SUFFICES ASSUME Inv, ConvergeInv, Runner PROVE ConvergeInv'
    OBVIOUS
  <1>. USE DEF streamVars, submitVars, strategyVars
  <1>0. queue \in Seq(Events) /\ wire \in Seq(Events)
    BY QueueType DEF Inv
  <1>1. CASE OnStart
    <2>1. queue' = <<>> /\ wire' = <<>> /\ position' = held /\ held' = held
      BY <1>1 DEF OnStart, Inv, StrategyInv
    <2>. QED
      BY <2>1, OneMoves DEF ConvergeInv
  <1>2. CASE OnMarketEvent
    <2>1. /\ UNCHANGED <<wire, position, held, lost>>
          /\ pc # "down" /\ queue # <<>> /\ queue' = Tail(queue)
          /\ Head(queue).kind = "candle"
      BY <1>2 DEF OnMarketEvent, Takes
    <2>2. ~Moves(Head(queue))
      BY <2>1 DEF Moves
    <2>3. /\ Still(queue) <=> Still(queue')
          /\ EndsAt(queue, held) => EndsAt(queue', held)
      BY <1>0, <2>1, <2>2, TailMoves
    <2>. QED
      BY <2>1, <2>3 DEF ConvergeInv
  <1>3. CASE OnUserEvent
    <2>1. /\ UNCHANGED <<pc, wire, held, lost>>
          /\ pc # "down" /\ queue # <<>> /\ queue' = Tail(queue)
          /\ Head(queue).kind = "report"
          /\ position' = IF Head(queue).status \in {"PARTIALLY_FILLED", "FILLED"}
                           THEN IF Head(queue).side = "BUY" THEN Head(queue).z
                                                            ELSE Head(queue).q - Head(queue).z
                           ELSE position
      BY <1>3 DEF OnUserEvent, Takes
    <2>2. position' = IF Moves(Head(queue)) THEN MovedTo(Head(queue)) ELSE position
      BY <2>1 DEF Moves, MovedTo
    <2>3. /\ Still(queue) <=> ~Moves(Head(queue)) /\ Still(queue')
          /\ EndsAt(queue, held) => EndsAt(queue', held)
          /\ EndsAt(queue, held) /\ Moves(Head(queue)) /\ Still(queue') => MovedTo(Head(queue)) = held
      BY <1>0, <2>1, TailMoves
    <2>. QED
      BY <2>1, <2>2, <2>3 DEF ConvergeInv
  <1>4. CASE SubmitReturns
    BY <1>4, ConvergeStays DEF SubmitReturns
  <1>5. CASE SubmitRaises
    BY <1>5 DEF SubmitRaises, CycleOver, ConvergeInv
  <1>. QED
    BY <1>1, <1>2, <1>3, <1>4, <1>5 DEF Runner

LEMMA ConvergeMatch == Inv /\ ConvergeInv /\ Match => ConvergeInv'
  <1>. SUFFICES ASSUME Inv, ConvergeInv, Match PROVE ConvergeInv'
    OBVIOUS
  <1>. USE DEF Inv
  <1>0. PICK z \in 0..order.q :
          /\ held' = IF order.side = "BUY" THEN held + z ELSE held - z
          /\ \E first \in 0..z : wire' = IF user THEN wire \o Reports(first, z) ELSE wire
    BY DEF Match
  <1>1. PICK first \in 0..z : wire' = IF user THEN wire \o Reports(first, z) ELSE wire
    BY <1>0
  <1>2. /\ pc = "submitting" /\ pc' = pc /\ queue' = queue /\ position' = position
        /\ lost' = (lost \/ ~user)
        /\ wire = <<>> /\ Still(queue) /\ position = held
    <2>1. pc = "submitting" /\ outcome = "none"
      BY DEF Match, Waiting
    <2>2. wire = <<>> /\ position = held /\ \A i \in DOMAIN queue : queue[i].kind # "report"
      BY <2>1 DEF StrategyInv, Quiet
    <2>3. Still(queue)
      BY <2>2 DEF Still, Moves
    <2>. QED
      BY <2>1, <2>2, <2>3 DEF Match, streamVars, strategyVars
  <1>3. /\ orders \in OrderIds /\ order.side \in {"BUY", "SELL"} /\ order.q \in Quantity
        /\ order.side = "BUY" => held = 0
        /\ order.side = "SELL" => order.q = held
    <2>1. outcome = "none"
      BY DEF Match, Waiting
    <2>2. orders \in OrderIds
      BY <1>2, PsBoundAssumption DEF TypeOK, StrategyInv, OrderIds
    <2>3. order \in [side : {"BUY", "SELL"}, q : Quantity]
      BY <1>2 DEF TypeOK, StrategyInv
    <2>. QED
      BY <1>2, <2>1, <2>2, <2>3 DEF StrategyInv
  <1>4. held \in Nat /\ order.q \in Nat /\ z \in Nat
    BY <1>3, LotAssumption DEF TypeOK, Quantity
  <1>5. held' = IF order.side = "BUY" THEN z ELSE order.q - z
    BY <1>0, <1>3, <1>4
  <1>6. z = 0 => held' = held
    BY <1>0, <1>4
  <1>7. /\ EndsAt(Reports(first, z), held')
        /\ Still(Reports(first, z)) => z = 0
    BY <1>3, <1>5, ReportsMove
  <1>8. ASSUME ~lost' PROVE wire' = Reports(first, z)
    <2>1. Reports(first, z) \in Seq(Report)
      BY <1>3, ReportsType
    <2>2. <<>> \o Reports(first, z) = Reports(first, z)
      BY <2>1, ConcatEmptySeq
    <2>. QED
      BY <1>1, <1>2, <1>8, <2>2
  <1>9. EndsAt(queue, held')
    BY <1>2 DEF EndsAt, Still
  <1>. QED
    BY <1>2, <1>6, <1>7, <1>8, <1>9 DEF ConvergeInv

LEMMA ConvergeStep == Inv /\ ConvergeInv /\ [Next]_vars => ConvergeInv'
  <1>. SUFFICES ASSUME Inv, ConvergeInv, [Next]_vars PROVE ConvergeInv'
    OBVIOUS
  <1>1. CASE Simulate \/ Reject
    BY <1>1, ConvergeStays DEF Simulate, Reject, Waiting, streamVars, strategyVars
  <1>2. CASE Cancelled
    BY <1>2 DEF Cancelled, CycleOver, ConvergeInv
  <1>3. CASE UNCHANGED vars
    BY <1>3 DEF vars, ConvergeInv
  <1>. QED
    BY <1>1, <1>2, <1>3, ConvergeRunner, ConvergeStreams, ConvergeMatch DEF Next, Exchange

\* The position and the balance meet again once every report is read, in whatever pieces
\* the order was filled and wherever its reports are, unless a stream lost one.
THEOREM PositionAlwaysConverges == Spec => []PositionConverges
  <1>1. Init => ConvergeInv
    BY DEF Init, ConvergeInv
  <1>2. Spec => []ConvergeInv
    BY <1>1, InvAlways, ConvergeStep, PTL DEF Spec
  <1>3. ConvergeInv => PositionConverges
    <2>1. wire = <<>> => Still(wire)
      BY OneMoves
    <2>2. ~Unread => Still(wire) /\ Still(queue)
      BY <2>1 DEF Unread, Still, Moves
    <2>. QED
      BY <2>2 DEF ConvergeInv, PositionConverges
  <1>. QED
    BY <1>2, <1>3, PTL
=============================================================================
