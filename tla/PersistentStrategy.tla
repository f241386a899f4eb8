--------------------------- MODULE PersistentStrategy ---------------------------
(***************************************************************************)
(* One cycle after another of a persistent strategy: StrategyRunner.run    *)
(* (strategy_runtime.py) with the strategy of                              *)
(* examples/strategies/spot_ema_persistent.py, the two pumps that feed its *)
(* queue, and the exchange that fills its market orders.                   *)
(* The runner takes one event at a time and waits inside it for the order  *)
(* it submits, while the pumps go on filling the queue: what the strategy  *)
(* knows of its order comes by two ways, the result of submit_order and    *)
(* the execution reports, in either order and not always both.             *)
(* A candle is its number; the signal computed from the deque is an input. *)
(***************************************************************************)
EXTENDS Integers, Sequences

CONSTANTS
    Modes,      \* the submission modes of the profile, of LIVE, TEST, DRY_RUN
    Lot,        \* what quote_order_qty buys
    MaxCandles, \* bound: candles that close
    MaxOrders,  \* bound: orders submitted
    MaxQueue,   \* bound: events in the queue
    MaxCycles   \* bound: cycles of the daemon

ASSUME ModesAssumption == Modes \subseteq {"LIVE", "TEST", "DRY_RUN"}
ASSUME LotAssumption == Lot \in Nat \ {0}
ASSUME PsBoundAssumption ==
    MaxCandles \in Nat /\ MaxOrders \in Nat /\ MaxQueue \in Nat /\ MaxCycles \in Nat

None == 0       \* no client order id; ids count from 1

VARIABLES
    mode,       \* submission_mode
    pc,         \* down, idle (in queue.get or between events), submitting
    cycles,
    market, user, \* the two streams are connected
    closed,     \* candles closed at the exchange
    queue,      \* the runner's asyncio.Queue
    wire,       \* execution reports the user pump has not read yet
    last,       \* _last_close_time
    pending,    \* _pending_client_order_id
    captured,   \* clientOrderId in ctx.state["last_order_result"]
    position,   \* _position_qty
    held,       \* the balance at the exchange
    orders,     \* orders submitted so far; the id of the newest
    order,      \* the order submit_order is waiting for
    outcome,    \* what it will return
    lost        \* history: the cycle has missed an execution report

vars == <<mode, pc, cycles, market, user, closed, queue, wire, last, pending, captured,
          position, held, orders, order, outcome, lost>>

strategyVars == <<last, pending, captured, position>>
streamVars   == <<market, user, closed>>
submitVars   == <<orders, order, outcome>>

Quantity == 0..Lot
OrderIds == 1..MaxOrders
Candle == [kind : {"candle"}, close : 1..MaxCandles, signal : {-1, 0, 1}]
Statuses == {"NEW", "PARTIALLY_FILLED", "FILLED", "EXPIRED"}
Report == {r \in [kind : {"report"}, id : OrderIds, side : {"BUY", "SELL"},
                  status : Statuses, z : Quantity, q : Quantity] : r.z <= r.q}
NoOrder == [side |-> "none", q |-> 0]

TypeOK ==
    /\ mode \in Modes
    /\ pc \in {"down", "idle", "submitting"}
    /\ cycles \in 0..MaxCycles
    /\ market \in BOOLEAN /\ user \in BOOLEAN
    /\ closed \in 0..MaxCandles
    /\ queue \in Seq(Candle \cup Report)
    /\ wire \in Seq(Report)
    /\ last \in 0..(MaxCandles + 1)
    /\ pending \in OrderIds \cup {None} /\ captured \in OrderIds \cup {None}
    /\ position \in Quantity /\ held \in Quantity
    /\ orders \in 0..MaxOrders
    /\ order \in [side : {"BUY", "SELL"}, q : Quantity] \cup {NoOrder}
    /\ outcome \in {"none", "result", "error"}
    /\ lost \in BOOLEAN

Init ==
    /\ mode \in Modes
    /\ pc = "down" /\ cycles = 0 /\ market = FALSE /\ user = FALSE
    /\ closed = 0 /\ queue = <<>> /\ wire = <<>>
    /\ last = 0 /\ pending = None /\ captured = None /\ position = 0
    /\ held \in {0, Lot}
    /\ orders = 0 /\ order = NoOrder /\ outcome = "none" /\ lost = FALSE

-----------------------------------------------------------------------------
(* A cycle begins and ends                                                  *)

\* A new strategy object and context; on_start takes the candles, the one still
\* open among them, and the position from the account.
OnStart_Forgets ==      \* mutated: the account is not asked
    /\ pc = "down" /\ cycles < MaxCycles
    /\ pc' = "idle" /\ cycles' = cycles + 1
    /\ last' = closed + 1 /\ position' = 0
    /\ pending' = None /\ captured' = None
    /\ lost' = FALSE
    /\ UNCHANGED <<mode, streamVars, queue, wire, held, submitVars>>
OnStart ==
    /\ pc = "down" /\ cycles < MaxCycles
    /\ pc' = "idle" /\ cycles' = cycles + 1
    /\ last' = closed + 1 /\ position' = held
    /\ pending' = None /\ captured' = None
    /\ lost' = FALSE
    /\ UNCHANGED <<mode, streamVars, queue, wire, held, submitVars>>

CycleOver ==
    /\ pc' = "down"
    /\ market' = FALSE /\ user' = FALSE
    /\ queue' = <<>> /\ wire' = <<>>
    /\ order' = NoOrder /\ outcome' = "none"
    /\ UNCHANGED <<mode, cycles, closed, strategyVars, held, orders, lost>>

\* The daemon cancels the runner, also while it waits for submit_order, or something
\* else in it fails; the pumps go too.  An order on its way is decided before the next
\* cycle: recvWindow and the restart delay are both 5 seconds.
Cancelled ==
    /\ pc = "idle" \/ outcome # "none"
    /\ CycleOver

-----------------------------------------------------------------------------
(* The streams and the pumps                                                *)

MarketConnects ==
    /\ pc # "down" /\ ~market
    /\ market' = TRUE
    /\ UNCHANGED <<mode, pc, cycles, user, closed, queue, wire, strategyVars, held, submitVars, lost>>

UserConnects ==
    /\ pc # "down" /\ ~user
    /\ user' = TRUE
    /\ UNCHANGED <<mode, pc, cycles, market, closed, queue, wire, strategyVars, held, submitVars, lost>>

\* listen() goes on to reconnect; what was on the wire is not sent again.
MarketDrops ==
    /\ market
    /\ market' = FALSE
    /\ UNCHANGED <<mode, pc, cycles, user, closed, queue, wire, strategyVars, held, submitVars, lost>>

UserDrops ==
    /\ user
    /\ user' = FALSE
    /\ wire' = <<>>
    /\ lost' = (lost \/ wire # <<>>)
    /\ UNCHANGED <<mode, pc, cycles, market, closed, queue, strategyVars, held, submitVars>>

\* A candle closes; the pump queues it if the stream is there.
PumpMarket ==
    /\ closed < MaxCandles /\ Len(queue) < MaxQueue
    /\ closed' = closed + 1
    /\ IF market
         THEN \E signal \in {-1, 0, 1} :
                queue' = Append(queue, [kind |-> "candle", close |-> closed', signal |-> signal])
         ELSE queue' = queue
    /\ UNCHANGED <<mode, pc, cycles, market, user, wire, strategyVars, held, submitVars, lost>>

PumpUser ==
    /\ pc # "down" /\ wire # <<>> /\ Len(queue) < MaxQueue
    /\ queue' = Append(queue, Head(wire))
    /\ wire' = Tail(wire)
    /\ UNCHANGED <<mode, pc, cycles, streamVars, strategyVars, held, submitVars, lost>>

-----------------------------------------------------------------------------
(* The strategy                                                             *)

\* _capture_last_order_result
Capture_Never == pending    \* mutated: the result is not looked at
Capture == IF captured # None THEN captured ELSE pending

\* The order on_market_event returns for a candle, NoOrder for none of its business.
Decision_SellLot(event) ==  \* mutated: what was bought is sold, not what is held
    IF event.close <= last \/ Capture # None THEN NoOrder
    ELSE IF event.signal = 1 /\ position <= 0 THEN [side |-> "BUY", q |-> Lot]
    ELSE IF event.signal = -1 /\ position > 0 THEN [side |-> "SELL", q |-> Lot]
    ELSE NoOrder
Decision(event) ==
    IF event.close <= last \/ Capture # None THEN NoOrder
    ELSE IF event.signal = 1 /\ position <= 0 THEN [side |-> "BUY", q |-> Lot]
    ELSE IF event.signal = -1 /\ position > 0 THEN [side |-> "SELL", q |-> position]
    ELSE NoOrder

Takes(kind) == pc = "idle" /\ queue # <<>> /\ Head(queue).kind = kind

OnMarketEvent ==
    /\ Takes("candle")
    /\ queue' = Tail(queue)
    /\ pending' = Capture
    /\ last' = IF Head(queue).close > last THEN Head(queue).close ELSE last
    /\ LET decision == Decision(Head(queue)) IN
         IF decision = NoOrder
           THEN UNCHANGED <<pc, submitVars>>
           ELSE /\ orders < MaxOrders
                /\ orders' = orders + 1
                /\ order' = decision /\ outcome' = "none"
                /\ pc' = "submitting"
    /\ UNCHANGED <<mode, cycles, streamVars, wire, captured, position, held, lost>>

OnUserEvent_SellAll ==      \* mutated: what is left of a sell order is not kept
    /\ Takes("report")
    /\ queue' = Tail(queue)
    /\ LET report == Head(queue) IN
         /\ position' = IF report.status \in {"PARTIALLY_FILLED", "FILLED"}
                          THEN IF report.side = "BUY" THEN report.z ELSE 0
                          ELSE position
         /\ pending' = IF report.status \in {"FILLED", "EXPIRED"} THEN None ELSE report.id
    /\ UNCHANGED <<mode, pc, cycles, streamVars, wire, last, captured, held, submitVars, lost>>
OnUserEvent ==
    /\ Takes("report")
    /\ queue' = Tail(queue)
    /\ LET report == Head(queue) IN
         /\ position' = IF report.status \in {"PARTIALLY_FILLED", "FILLED"}
                          THEN IF report.side = "BUY" THEN report.z ELSE report.q - report.z
                          ELSE position
         /\ pending' = IF report.status \in {"FILLED", "EXPIRED"} THEN None ELSE report.id
    /\ UNCHANGED <<mode, pc, cycles, streamVars, wire, last, captured, held, submitVars, lost>>

-----------------------------------------------------------------------------
(* submit_order                                                             *)

\* The execution reports of a market order filled in one or two trades: the first
\* one makes first, both make z.
ReportOf(status, z) ==
    [kind |-> "report", id |-> orders, side |-> order.side, status |-> status,
     z |-> z, q |-> order.q]

Reports(first, z) ==
    <<ReportOf("NEW", 0)>>
    \o (IF 0 < first /\ first < order.q THEN <<ReportOf("PARTIALLY_FILLED", first)>> ELSE <<>>)
    \o (IF first < z /\ z < order.q THEN <<ReportOf("PARTIALLY_FILLED", z)>> ELSE <<>>)
    \o <<ReportOf(IF z = order.q THEN "FILLED" ELSE "EXPIRED", z)>>

Waiting == pc = "submitting" /\ outcome = "none"

\* The exchange fills what it can at once and expires the rest; the response may
\* get lost on its way.
Match ==
    /\ Waiting /\ mode = "LIVE"
    /\ \E z \in 0..order.q :
         /\ held' = IF order.side = "BUY" THEN held + z ELSE held - z
         /\ \E first \in 0..z : wire' = IF user THEN wire \o Reports(first, z) ELSE wire
    /\ lost' = (lost \/ ~user)
    /\ outcome' \in {"result", "error"}
    /\ UNCHANGED <<mode, pc, cycles, streamVars, queue, strategyVars, orders, order>>

\* DRY_RUN and TEST: nothing is traded and nothing reported.
Simulate ==
    /\ Waiting /\ mode # "LIVE"
    /\ outcome' = "result"
    /\ UNCHANGED <<mode, pc, cycles, streamVars, queue, wire, strategyVars, held, orders, order, lost>>

\* The risk gate or the exchange says no.
Reject ==
    /\ Waiting
    /\ outcome' = "error"
    /\ UNCHANGED <<mode, pc, cycles, streamVars, queue, wire, strategyVars, held, orders, order, lost>>

\* _execute_order
SubmitReturns ==
    /\ pc = "submitting" /\ outcome = "result"
    /\ captured' = orders
    /\ order' = NoOrder /\ outcome' = "none"
    /\ pc' = "idle"
    /\ UNCHANGED <<mode, cycles, streamVars, queue, wire, last, pending, position, held, orders, lost>>

SubmitRaises ==
    /\ pc = "submitting" /\ outcome = "error"
    /\ CycleOver

-----------------------------------------------------------------------------
Runner == OnStart \/ OnMarketEvent \/ OnUserEvent \/ SubmitReturns \/ SubmitRaises
Streams == MarketConnects \/ UserConnects \/ MarketDrops \/ UserDrops \/ PumpMarket \/ PumpUser
Exchange == Match \/ Simulate \/ Reject

Next == Runner \/ Streams \/ Exchange \/ Cancelled

Spec == Init /\ [][Next]_vars

-----------------------------------------------------------------------------
(* Properties                                                               *)

Submits(side) == orders' > orders /\ order'.side = side

\* Execution reports of the strategy's own orders that it has still to read.
Unread == wire # <<>> \/ \E i \in DOMAIN queue : queue[i].kind = "report"

\* One order at a time: whatever comes first, the result or the reports, and with
\* candles between them, the next order waits for all reports of the last one.
OneOrderAtATime == [][orders' > orders => ~Unread]_vars

\* Never long twice: a BUY only leaves while the account holds nothing, also
\* after a restart, a lost response, or reports lost with the stream.
BuysOnlyWhenFlat == [][Submits("BUY") => held = 0]_vars

\* A SELL never asks for more than the account holds.
SellsOnlyWhatItHolds == [][Submits("SELL") => order'.q <= held]_vars

\* Once all reports are read the strategy's position is the balance, partial fills
\* and expiries included, unless a stream that was down has lost one.
PositionConverges == pc = "idle" /\ ~Unread /\ ~lost => position = held

\* A strategy that keeps running keeps trading: with no order of its own open or
\* unreported (and no report lost), a signal that its position allows becomes an order.
KeepsTrading ==
    [][Takes("candle") /\ ~Unread /\ ~lost /\ Head(queue).close > last
         /\ pc' # "down" /\ queue' = Tail(queue)
         /\ (\/ Head(queue).signal = 1 /\ position = 0
             \/ Head(queue).signal = -1 /\ position > 0)
         => orders' > orders]_vars

-----------------------------------------------------------------------------
(* The inductive invariant: until its first order returns, the strategy of  *)
(* a cycle knows the balance and has nothing to read; after that it is      *)
(* blocked by what it captured.                                             *)

\* No report is queued.
Quiet == wire = <<>> /\ \A i \in DOMAIN queue : queue[i].kind # "report"

StrategyInv ==
    /\ pc = "down" => ~market /\ queue = <<>> /\ wire = <<>>
    /\ pc # "submitting" => order = NoOrder /\ outcome = "none"
    /\ pc = "submitting" => order # NoOrder /\ orders > 0
    /\ (pc = "idle" /\ captured = None) => Quiet /\ position = held
    /\ (pc = "submitting" /\ outcome = "none") =>
         /\ Quiet /\ position = held
         /\ order = IF order.side = "BUY" THEN [side |-> "BUY", q |-> Lot]
                                          ELSE [side |-> "SELL", q |-> held]
         /\ order.side = "BUY" => held = 0

\* A report that moves the position, and where it moves it.
Moves(event) == event.kind = "report" /\ event.status \in {"PARTIALLY_FILLED", "FILLED"}
MovedTo(report) == IF report.side = "BUY" THEN report.z ELSE report.q - report.z

Still(events) == \A i \in DOMAIN events : ~Moves(events[i])

\* The last of the events that moves the position moves it to the balance.
EndsAt(events, balance) ==
    \A i \in DOMAIN events : Moves(events[i]) =>
        MovedTo(events[i]) = balance \/ \E j \in DOMAIN events : j > i /\ Moves(events[j])

\* Where the position will be when everything on its way is read.
ConvergeInv ==
    pc # "down" /\ ~lost =>
        /\ EndsAt(wire, held)
        /\ Still(wire) => EndsAt(queue, held)
        /\ Still(wire) /\ Still(queue) => position = held
=============================================================================
