------------------------------ MODULE OrderProofs ------------------------------
(***************************************************************************)
(* An order, from the request of a strategy to its last report: first what *)
(* the rules and the gate guarantee of every order, every symbol and every *)
(* profile (OrderRules), then the journal and the exchange for every set   *)
(* of orders and processes (OrderLifecycle).                               *)
(***************************************************************************)
EXTENDS OrderLifecycle, OrderRules, TLAPS

-----------------------------------------------------------------------------
(* The grid                                                                 *)

\* Quotient and remainder.
LEMMA Division ==
    ASSUME NEW n \in Nat, NEW d \in Nat \ {0}
    PROVE  /\ n \div d \in Nat
           /\ (n \div d) * d <= n
           /\ n < (n \div d) * d + d
OBVIOUS

LEMMA ExactDivision ==
    ASSUME NEW q \in Nat, NEW d \in Nat \ {0}
    PROVE  (q * d) \div d = q
OBVIOUS

LEMMA Product ==
    ASSUME NEW a \in Nat, NEW b \in Nat
    PROVE  a * b \in Nat
OBVIOUS

\* The snapped value as a number of steps, on either side of zero.
LEMMA SnapSteps ==
    ASSUME NEW v \in Int, NEW s \in Nat \ {0}
    PROVE  \E k \in Nat : \/ v >= 0 /\ Snap(v, s) = k * s /\ k * s <= v /\ v < k * s + s
                          \/ v < 0 /\ Snap(v, s) = -(k * s) /\ k * s <= -v
<1>1. CASE v >= 0
  <2>1. v \in Nat
    BY <1>1
  <2>2. v \div s \in Nat /\ (v \div s) * s <= v /\ v < (v \div s) * s + s
    BY <2>1, Division
  <2>3. Snap(v, s) = (v \div s) * s
    BY <1>1 DEF Snap
  <2> QED
    BY <1>1, <2>2, <2>3
<1>2. CASE v < 0
  <2>1. -v \in Nat
    BY <1>2
  <2>2. (-v) \div s \in Nat /\ ((-v) \div s) * s <= -v
    BY <2>1, Division
  <2>3. Snap(v, s) = -(((-v) \div s) * s)
    BY <1>2 DEF Snap
  <2> QED
    BY <1>2, <2>2, <2>3
<1> QED
    BY <1>1, <1>2

\* Snapping goes towards zero by less than a step and never turns what is not positive
\* into something that is (_snap, filters.py).
THEOREM SnapRounds ==
    ASSUME NEW v \in Int, NEW s \in Nat
    PROVE  /\ Snap(v, s) \in Int
           /\ v >= 0 => Snap(v, s) \in Nat /\ Snap(v, s) <= v
           /\ v >= 0 /\ s > 0 => v - Snap(v, s) < s
           /\ v <= 0 => Snap(v, s) <= 0
<1>1. CASE s = 0
    BY <1>1 DEF Snap
<1>2. CASE s # 0
  <2>1. PICK k \in Nat : \/ v >= 0 /\ Snap(v, s) = k * s /\ k * s <= v /\ v < k * s + s
                         \/ v < 0 /\ Snap(v, s) = -(k * s) /\ k * s <= -v
    BY <1>2, SnapSteps
  <2>2. k * s \in Nat
    BY Product
  <2> QED
    BY <2>1, <2>2
<1> QED
    BY <1>1, <1>2

\* What has been snapped stays where it is.
THEOREM SnapTwice ==
    ASSUME NEW v \in Int, NEW s \in Nat
    PROVE  Snap(Snap(v, s), s) = Snap(v, s)
<1>1. CASE s = 0
    BY <1>1 DEF Snap
<1>2. CASE s # 0
  <2>1. PICK k \in Nat : Snap(v, s) = k * s \/ Snap(v, s) = -(k * s)
    BY <1>2, SnapSteps
  <2>2. k * s \in Nat
    BY Product
  <2>3. (k * s) \div s = k
    BY <1>2, ExactDivision
  <2>4. CASE Snap(v, s) = k * s
    BY <1>2, <2>2, <2>3, <2>4 DEF Snap
  <2>5. CASE Snap(v, s) = -(k * s) /\ k * s # 0
    <3>1. ~(-(k * s) >= 0) /\ -(-(k * s)) = k * s
      BY <2>2, <2>5
    <3>2. Snap(-(k * s), s) = -(((k * s) \div s) * s)
      BY <1>2, <3>1 DEF Snap
    <3> QED
      BY <2>3, <2>5, <3>2
  <2>6. CASE Snap(v, s) = -(k * s) /\ k * s = 0
    BY <1>2, <2>2, <2>3, <2>6 DEF Snap
  <2> QED
    BY <2>1, <2>4, <2>5, <2>6
<1> QED
    BY <1>1, <1>2

LEMMA Aligned ==
    ASSUME NEW v \in Int, NEW s \in Nat
    PROVE  IsMultiple(Snap(v, s), s)
BY SnapTwice DEF IsMultiple

-----------------------------------------------------------------------------
(* _prepare_order                                                           *)

LEMMA FilterTypes ==
    ASSUME NEW rules \in SymbolRules, NEW type
    PROVE  /\ rules.price \in Optional(Filters)
           /\ LotFilter(rules, type) \in Optional(Filters)
           /\ \A f \in rules.price \cup LotFilter(rules, type) : f.step \in Nat
<1>1. rules.price \in Optional(Filters) /\ LotFilter(rules, type) \in Optional(Filters)
    BY DEF SymbolRules, LotFilter
<1>2. \A F \in Optional(Filters) : \A f \in F : f \in Filters
    BY DEF Optional
<1> QED
    BY <1>1, <1>2 DEF Filters

LEMMA AdjustType ==
    ASSUME NEW V \in Optional(Int), NEW F \in Optional(Filters)
    PROVE  /\ Adjust(V, F) \in Optional(Int)
           /\ \A f \in F : \A x \in Adjust(V, F) : \E v \in V : x = Snap(v, f.step)
           /\ F = {} => Adjust(V, F) = V
<1>1. CASE F = {}
    BY <1>1 DEF Adjust
<1>2. CASE F # {}
  <2>1. PICK f \in Filters : F = {f}
    BY <1>2 DEF Optional
  <2>2. Adjust(V, F) = {Snap(v, f.step) : v \in V}
    BY <2>1 DEF Adjust
  <2>3. \A v \in V : v \in Int /\ Snap(v, f.step) \in Int
    BY <2>1, SnapRounds DEF Optional, Filters
  <2>4. Adjust(V, F) \in Optional(Int)
    BY <2>2, <2>3 DEF Optional
  <2> QED
    BY <2>1, <2>2, <2>4
<1> QED
    BY <1>1, <1>2

LEMMA AdjustTwice ==
    ASSUME NEW V \in Optional(Int), NEW F \in Optional(Filters)
    PROVE  Adjust(Adjust(V, F), F) = Adjust(V, F)
<1>1. CASE F = {}
    BY <1>1 DEF Adjust
<1>2. CASE F # {}
  <2>1. PICK f \in Filters : F = {f}
    BY <1>2 DEF Optional
  <2>2. \A W : Adjust(W, F) = {Snap(v, f.step) : v \in W}
    BY <2>1 DEF Adjust
  <2>3. \A v \in V : v \in Int /\ Snap(Snap(v, f.step), f.step) = Snap(v, f.step)
    BY <2>1, SnapTwice DEF Optional, Filters
  <2>4. {Snap(w, f.step) : w \in {Snap(v, f.step) : v \in V}} = {Snap(v, f.step) : v \in V}
    BY <2>3
  <2> QED
    BY <2>2, <2>4
<1> QED
    BY <1>1, <1>2

LEMMA PrepareFields ==
    ASSUME NEW order \in OrderRequests, NEW rules \in SymbolRules
    PROVE  LET p == Prepare(order, rules)
           IN  /\ p \in OrderRequests
               /\ p.quantity = Adjust(order.quantity, LotFilter(rules, order.type))
               /\ p.price = Adjust(order.price, rules.price)
               /\ p.type = order.type /\ p.quote = order.quote
<1>1. order.quantity \in Optional(Int) /\ order.price \in Optional(Int)
    BY DEF OrderRequests
<1>2. /\ Adjust(order.quantity, LotFilter(rules, order.type)) \in Optional(Int)
      /\ Adjust(order.price, rules.price) \in Optional(Int)
    BY <1>1, FilterTypes, AdjustType
<1> QED
    BY <1>2 DEF Prepare, OrderRequests

\* An order that is prepared again, for a retry or by hand, stays the same.
THEOREM PrepareTwice ==
    ASSUME NEW order \in OrderRequests, NEW rules \in SymbolRules
    PROVE  Prepare(Prepare(order, rules), rules) = Prepare(order, rules)
<1> DEFINE p == Prepare(order, rules)
           lot == LotFilter(rules, order.type)
<1>1. order.quantity \in Optional(Int) /\ order.price \in Optional(Int)
    BY DEF OrderRequests
<1>2. p.quantity = Adjust(order.quantity, lot) /\ p.price = Adjust(order.price, rules.price)
      /\ p.type = order.type /\ p \in OrderRequests
    BY PrepareFields
<1>3. Adjust(p.quantity, lot) = p.quantity /\ Adjust(p.price, rules.price) = p.price
    BY <1>1, <1>2, FilterTypes, AdjustTwice
<1>4. Prepare(p, rules) = [p EXCEPT !.quantity = p.quantity, !.price = p.price]
    BY <1>2, <1>3 DEF Prepare
<1> HIDE DEF p
<1> QED
    BY <1>2, <1>4 DEF OrderRequests, p

\* A prepared order is never rejected for being off the grid.
THEOREM PreparedIsOnGrid ==
    ASSUME NEW order \in OrderRequests, NEW rules \in SymbolRules
    PROVE  LET p == Prepare(order, rules)
           IN  /\ \A v \in p.quantity, f \in LotFilter(rules, p.type) : IsMultiple(v, f.step)
               /\ \A v \in p.price, f \in rules.price : IsMultiple(v, f.step)
<1> DEFINE p == Prepare(order, rules)
<1>1. order.quantity \in Optional(Int) /\ order.price \in Optional(Int)
    BY DEF OrderRequests
<1>2. p.quantity = Adjust(order.quantity, LotFilter(rules, order.type))
      /\ p.price = Adjust(order.price, rules.price) /\ p.type = order.type
    BY PrepareFields
<1>3. ASSUME NEW V \in Optional(Int), NEW F \in Optional(Filters),
             \A f \in F : f.step \in Nat, NEW f \in F, NEW x \in Adjust(V, F)
      PROVE  IsMultiple(x, f.step)
  <2>1. PICK v \in V : x = Snap(v, f.step)
    BY <1>3, AdjustType
  <2>2. v \in Int
    BY DEF Optional
  <2> QED
    BY <1>3, <2>1, <2>2, Aligned
<1>4. \A v \in p.quantity, f \in LotFilter(rules, p.type) : IsMultiple(v, f.step)
    BY <1>1, <1>2, <1>3, FilterTypes
<1>5. \A v \in p.price, f \in rules.price : IsMultiple(v, f.step)
    BY <1>1, <1>2, <1>3, FilterTypes
<1> QED
    BY <1>4, <1>5

-----------------------------------------------------------------------------
(* Validity and size                                                        *)

LEMMA AdjustShrinks ==
    ASSUME NEW V \in Optional(Int), NEW F \in Optional(Filters),
           NEW x \in Adjust(V, F), x > 0
    PROVE  \E v \in V : v \in Nat /\ x \in Nat /\ x <= v
<1>1. CASE F = {}
  <2>1. x \in V
    BY <1>1, AdjustType
  <2> QED
    BY <2>1 DEF Optional
<1>2. CASE F # {}
  <2>1. PICK f \in Filters : f \in F
    BY <1>2 DEF Optional
  <2>2. PICK v \in V : x = Snap(v, f.step)
    BY <2>1, AdjustType
  <2>3. v \in Int /\ f.step \in Nat
    BY DEF Optional, Filters
  <2>4. v > 0
    <3>1. v <= 0 => x <= 0 /\ x \in Int
      BY <2>2, <2>3, SnapRounds
    <3> QED
      BY <2>3, <3>1
  <2>5. Snap(v, f.step) \in Nat /\ Snap(v, f.step) <= v
    <3>1. v >= 0 => Snap(v, f.step) \in Nat /\ Snap(v, f.step) <= v
      BY <2>3, SnapRounds
    <3> QED
      BY <2>3, <2>4, <3>1
  <2> QED
    BY <2>2, <2>3, <2>4, <2>5
<1> QED
    BY <1>1, <1>2

LEMMA LesserProduct ==
    ASSUME NEW a \in Nat, NEW b \in Nat, NEW c \in Nat, NEW d \in Nat, a <= c, b <= d
    PROVE  a * b <= c * d /\ a * b \in Nat
<1>1. PICK x \in Nat, y \in Nat : c = a + x /\ d = b + y
  <2>1. c - a \in Nat /\ d - b \in Nat /\ c = a + (c - a) /\ d = b + (d - b)
    OBVIOUS
  <2> QED
    BY <2>1
<1>2. c * d = a * b + a * y + x * b + x * y
    BY <1>1
<1>3. a * b \in Nat /\ a * y \in Nat /\ x * b \in Nat /\ x * y \in Nat
    BY Product
<1> QED
    BY <1>2, <1>3

\* No order is ever sent for more than was asked, in quantity, price or worth: what the
\* caller sized is an upper bound (Valid is OrderRequest.validate on the prepared order).
THEOREM NeverMoreThanAsked ==
    ASSUME NEW order \in OrderRequests, NEW rules \in SymbolRules,
           NEW reference \in Optional(Nat), Valid(Prepare(order, rules))
    PROVE  LET p == Prepare(order, rules)
           IN  /\ \A x \in p.quantity : \E v \in order.quantity : x <= v
               /\ \A x \in p.price : \E v \in order.price : x <= v
               /\ \A n \in EstimateNotional(p, reference) :
                     \E m \in EstimateNotional(order, reference) : n <= m
<1> DEFINE p == Prepare(order, rules)
           lot == LotFilter(rules, order.type)
<1>1. order.quantity \in Optional(Int) /\ order.price \in Optional(Int)
      /\ order.quote \in Optional(Int)
    BY DEF OrderRequests
<1>2. p.quantity = Adjust(order.quantity, lot) /\ p.price = Adjust(order.price, rules.price)
      /\ p.quote = order.quote
    BY PrepareFields
<1>3. \A x \in p.quantity \cup p.price : x > 0
    BY DEF Valid
<1> HIDE DEF p
<1>4. \A x \in p.quantity : \E v \in order.quantity : v \in Nat /\ x \in Nat /\ x <= v
    BY <1>1, <1>2, <1>3, FilterTypes, AdjustShrinks
<1>5. \A x \in p.price : \E v \in order.price : v \in Nat /\ x \in Nat /\ x <= v
    BY <1>1, <1>2, <1>3, FilterTypes, AdjustShrinks
<1>6. order.price = {} => p.price = {}
    BY <1>2 DEF Adjust
<1>7. ASSUME NEW n \in EstimateNotional(p, reference)
      PROVE  \E m \in EstimateNotional(order, reference) : n <= m
  <2>1. CASE order.quote # {}
    <3>1. n \in order.quote /\ EstimateNotional(order, reference) = order.quote
      BY <1>2, <1>7, <2>1 DEF EstimateNotional
    <3>2. n \in Int
      BY <1>1, <3>1 DEF Optional
    <3> QED
      BY <3>1, <3>2
  <2>2. CASE order.quote = {} /\ p.price # {}
    <3>1. PICK a \in p.price, b \in p.quantity : n = a * b
      BY <1>2, <1>7, <2>2 DEF EstimateNotional
    <3>2. PICK c \in order.price, d \in order.quantity :
            a \in Nat /\ b \in Nat /\ c \in Nat /\ d \in Nat /\ a <= c /\ b <= d
      BY <1>4, <1>5, <3>1
    <3>3. c * d \in EstimateNotional(order, reference)
      BY <2>2, <3>2 DEF EstimateNotional
    <3> QED
      BY <3>1, <3>2, <3>3, LesserProduct
  <2>3. CASE order.quote = {} /\ p.price = {}
    <3>1. PICK b \in p.quantity, r \in reference : n = b * r
      BY <1>2, <1>7, <2>3 DEF EstimateNotional
    <3>2. PICK d \in order.quantity : b \in Nat /\ d \in Nat /\ b <= d
      BY <1>4, <3>1
    <3>3. order.price = {}
      BY <1>1, <1>2, <2>3, FilterTypes DEF Adjust, Optional
    <3>4. d * r \in EstimateNotional(order, reference)
      BY <2>3, <3>1, <3>2, <3>3 DEF EstimateNotional
    <3>5. r \in Nat
      BY <3>1 DEF Optional
    <3>6. b * r <= d * r
      BY <3>2, <3>5, LesserProduct
    <3> QED
      BY <3>1, <3>4, <3>6
  <2> QED
    BY <2>1, <2>2, <2>3
<1> QED
    BY <1>4, <1>5, <1>7 DEF p

\* What passes the gate is a whole number of lots between the limits of the symbol, and
\* at least one lot even where the exchange names no minimum.
THEOREM AllowedIsWholeLots ==
    ASSUME NEW order \in OrderRequests, NEW rules \in SymbolRules, NEW profile \in RiskProfiles,
           NEW reference, NEW open, NEW elapsed,
           Valid(Prepare(order, rules)),
           Allowed(Prepare(order, rules), rules, profile, reference, open, elapsed),
           NEW x \in Prepare(order, rules).quantity,
           NEW f \in LotFilter(rules, order.type), f.step > 0
    PROVE  /\ \E k \in Nat \ {0} : x = k * f.step
           /\ x >= f.min
           /\ f.max > 0 => x <= f.max
<1> DEFINE p == Prepare(order, rules)
<1>1. order.quantity \in Optional(Int) /\ f \in Filters
    BY FilterTypes DEF OrderRequests, Optional
<1>2. p.quantity = Adjust(order.quantity, LotFilter(rules, order.type)) /\ p.type = order.type
    BY PrepareFields
<1>3. PICK v \in order.quantity : x = Snap(v, f.step)
    BY <1>1, <1>2, FilterTypes, AdjustType
<1>4. v \in Int /\ f.step \in Nat \ {0}
    BY <1>1 DEF Optional, Filters
<1>5. PICK k \in Nat : x = k * f.step \/ x = -(k * f.step)
    BY <1>3, <1>4, SnapSteps
<1>6. x > 0
    BY DEF Valid
<1>7. k * f.step \in Nat
    BY <1>4, Product
<1>8. x = k * f.step /\ k # 0
    BY <1>4, <1>5, <1>6, <1>7
<1>9. PassesQuantity(f, x)
    BY <1>2 DEF Allowed, FitsSymbol
<1> QED
    BY <1>8, <1>9 DEF PassesQuantity

\* A MARKET order on a symbol with MARKET_LOT_SIZE is prepared and checked as if LOT_SIZE did
\* not exist, its step included.
THEOREM MarketIgnoresLotSize ==
    ASSUME NEW order \in OrderRequests, NEW rules \in SymbolRules,
           NEW lot \in Optional(Filters), NEW reference,
           order.type = "MARKET", rules.marketLot # {}
    PROVE  LET other == [rules EXCEPT !.lot = lot]
           IN  /\ Prepare(order, other) = Prepare(order, rules)
               /\ FitsSymbol(Prepare(order, other), other, reference)
                    <=> FitsSymbol(Prepare(order, rules), rules, reference)
<1> DEFINE other == [rules EXCEPT !.lot = lot]
<1>1. /\ other.marketLot = rules.marketLot /\ other.price = rules.price
      /\ other.trading = rules.trading /\ other.types = rules.types /\ other.tifs = rules.tifs
      /\ other.quoteAllowed = rules.quoteAllowed
      /\ other.minNotional = rules.minNotional /\ other.notional = rules.notional
    BY DEF SymbolRules
<1>2. \A o \in OrderRequests : LotFilter(other, o.type) = LotFilter(rules, o.type)
                               \/ o.type # "MARKET"
    BY <1>1 DEF LotFilter
<1>3. Prepare(order, other) = Prepare(order, rules)
    BY <1>1, <1>2 DEF Prepare
<1>4. Prepare(order, rules).type = "MARKET" /\ Prepare(order, rules) \in OrderRequests
    BY PrepareFields
<1> HIDE DEF other
<1>5. FitsSymbol(Prepare(order, rules), other, reference)
        <=> FitsSymbol(Prepare(order, rules), rules, reference)
    BY <1>1, <1>2, <1>4 DEF FitsSymbol, NotionalFits
<1> QED
    BY <1>3, <1>5 DEF other

-----------------------------------------------------------------------------
(* OrderLifecycle                                                           *)

USE DEF Live, Terminal, ExchStatus, LocalOutcome, Running

-----------------------------------------------------------------------------
(* Type correctness                                                         *)

\* Emitting an event keeps the feeds sequences of messages.
LEMMA EmitType ==
    ASSUME feed \in [Procs -> Seq(Message)],
           NEW o \in Orders, NEW s \in ExchStatus, Emit(o, s)
    PROVE  feed' \in [Procs -> Seq(Message)]
<1>1. [id |-> o, status |-> s] \in Message
    BY DEF Message
<1>2. ASSUME NEW q \in Procs
      PROVE  Append(feed[q], [id |-> o, status |-> s]) \in Seq(Message)
    BY <1>1
<1> QED
    BY <1>2 DEF Emit

LEMMA InitType == Init => TypeOK
<1> SUFFICES ASSUME Init PROVE TypeOK
    OBVIOUS
<1>1. \A q \in Procs : <<>> \in Seq(Message)
    OBVIOUS
<1>2. 0 \in 0..MaxCrashes
    BY BoundsAssumption
<1> QED
    BY <1>1, <1>2 DEF Init, TypeOK, NothingListed

LEMMA TypeStep == TypeOK /\ [Next]_vars => TypeOK'
<1> SUFFICES ASSUME TypeOK, [Next]_vars PROVE TypeOK'
    OBVIOUS
<1> USE BoundsAssumption DEF TypeOK, callVars, wireVars, feedVars, reconVars
<1>1. ASSUME NEW o \in Orders, NEW p \in Procs, NEW m \in Modes, Evaluate(p, o, m)
      PROVE  TypeOK'
    BY <1>1 DEF Evaluate
<1>2. ASSUME NEW o \in Orders, RecordOrderRequest(o)
      PROVE  TypeOK'
    BY <1>2 DEF RecordOrderRequest
<1>3. ASSUME NEW o \in Orders, RecordRejection(o)
      PROVE  TypeOK'
    BY <1>3 DEF RecordRejection, RecordOrderResult
<1>4. ASSUME NEW o \in Orders, DryRun(o)
      PROVE  TypeOK'
    BY <1>4 DEF DryRun, RecordOrderResult
<1>5. ASSUME NEW o \in Orders, NoCredentials(o)
      PROVE  TypeOK'
    BY <1>5 DEF NoCredentials
<1>6. ASSUME NEW o \in Orders, SendTestOrder(o)
      PROVE  TypeOK'
    BY <1>6 DEF SendTestOrder
<1>7. ASSUME NEW o \in Orders, TestOrderReturns(o)
      PROVE  TypeOK'
    BY <1>7 DEF TestOrderReturns, RecordOrderResult
<1>8. ASSUME NEW o \in Orders, PlaceOrder(o)
      PROVE  TypeOK'
    BY <1>8 DEF PlaceOrder
<1>9. ASSUME NEW o \in Orders, ReceiveReply(o)
      PROVE  TypeOK'
    BY <1>9 DEF ReceiveReply, RecordOrderResult, OutcomeOf
<1>10. ASSUME NEW o \in Orders, TransportFails(o)
      PROVE  TypeOK'
    BY <1>10 DEF TransportFails, RecordOrderResult
<1>11. ASSUME NEW o \in Orders, CallCancelled(o)
      PROVE  TypeOK'
    BY <1>11 DEF CallCancelled
<1>12. ASSUME NEW o \in Orders, Accept(o)
      PROVE  TypeOK'
    <2>1. feed' \in [Procs -> Seq(Message)]
        BY <1>12, EmitType DEF Accept
    <2>2. exch' \in [Orders -> {"none"} \cup ExchStatus]
        BY <1>12 DEF Accept
    <2> QED
        BY <1>12, <2>1, <2>2 DEF Accept
<1>13. ASSUME NEW o \in Orders, Refuse(o)
      PROVE  TypeOK'
    BY <1>13 DEF Refuse
<1>14. ASSUME NEW o \in Orders, LoseRequest(o)
      PROVE  TypeOK'
    BY <1>14 DEF LoseRequest
<1>15. ASSUME NEW o \in Orders, Respond(o)
      PROVE  TypeOK'
    <2>1. exch[o] \in ExchStatus
        BY <1>15 DEF Respond
    <2>2. reply' \in [Orders -> {"none", "ACK", "UNKNOWN", "REFUSED"} \cup ExchStatus]
        BY <1>15, <2>1 DEF Respond
    <2> QED
        BY <1>15, <2>2 DEF Respond
<1>16. ASSUME NEW o \in Orders, RespondUnknown(o)
      PROVE  TypeOK'
    BY <1>16 DEF RespondUnknown
<1>17. ASSUME NEW o \in Orders, Trade(o)
      PROVE  TypeOK'
    <2>1. PICK s \in {"PARTIALLY_FILLED"} \cup Terminal :
              /\ exch' = [exch EXCEPT ![o] = s]
              /\ Emit(o, s)
        BY <1>17 DEF Trade
    <2>2. feed' \in [Procs -> Seq(Message)]
        BY <2>1, EmitType
    <2> QED
        BY <1>17, <2>1, <2>2 DEF Trade
<1>18. ASSUME NEW p \in Procs, StreamConnects(p)
      PROVE  TypeOK'
    BY <1>18 DEF StreamConnects
<1>19. ASSUME NEW p \in Procs, StreamDrops(p)
      PROVE  TypeOK'
    <2>1. feed' \in [Procs -> Seq(Message)]
        <3>1. <<>> \in Seq(Message)
            OBVIOUS
        <3> QED
            BY <1>19, <3>1 DEF StreamDrops
    <2> QED
        BY <1>19, <2>1 DEF StreamDrops
<1>20. ASSUME NEW p \in Procs, ApplyUserStreamMessage(p)
      PROVE  TypeOK'
    <2>1. feed[p] \in Seq(Message) /\ feed[p] # <<>>
        BY <1>20 DEF ApplyUserStreamMessage
    <2>2. Head(feed[p]) \in Message /\ Tail(feed[p]) \in Seq(Message)
        BY <2>1
    <2>3. feed' \in [Procs -> Seq(Message)]
        BY <1>20, <2>2 DEF ApplyUserStreamMessage
    <2>4. journal' \in [Orders -> {"ABSENT"} \cup LocalOutcome \cup ExchStatus]
        BY <1>20, <2>2 DEF ApplyUserStreamMessage, RecordOrderResult, Message
    <2> QED
        BY <1>20, <2>3, <2>4 DEF ApplyUserStreamMessage
<1>21. ASSUME NEW p \in Procs, NEW o \in Orders, AskStatus(p, o)
      PROVE  TypeOK'
    <2>1. [id |-> o, status |-> exch[o]] \in Message
        BY <1>21 DEF AskStatus, Message
    <2>2. look' \in [Procs -> SUBSET Message]
        BY <1>21, <2>1 DEF AskStatus
    <2> QED
        BY <1>21, <2>2 DEF AskStatus
<1>22. ASSUME NEW p \in Procs, NEW o \in Orders, AskCancel(p, o)
      PROVE  TypeOK'
    <2>1. feed' \in [Procs -> Seq(Message)]
        BY <1>22, EmitType DEF AskCancel
    <2>2. exch' \in [Orders -> {"none"} \cup ExchStatus]
        BY <1>22 DEF AskCancel
    <2>3. [id |-> o, status |-> "CANCELED"] \in Message
        BY DEF Message
    <2>4. look' \in [Procs -> SUBSET Message]
        BY <1>22, <2>3 DEF AskCancel
    <2> QED
        BY <1>22, <2>1, <2>2, <2>4 DEF AskCancel
<1>23. ASSUME NEW p \in Procs, ApplyExchangeOrderSnapshot(p)
      PROVE  TypeOK'
    BY <1>23 DEF ApplyExchangeOrderSnapshot, RecordOrderResult, Message
<1>24. ASSUME NEW p \in Procs, LookFails(p)
      PROVE  TypeOK'
    BY <1>24 DEF LookFails
<1>25. ASSUME NEW p \in Procs, GetOpenOrders(p)
      PROVE  TypeOK'
    BY <1>25 DEF GetOpenOrders
<1>26. ASSUME NEW p \in Procs, ApplyOpenOrders(p)
      PROVE  TypeOK'
    <2>1. journal' \in [Orders -> {"ABSENT"} \cup LocalOutcome \cup ExchStatus]
        BY <1>26 DEF ApplyOpenOrders
    <2>2. todo' \in [Procs -> SUBSET Orders]
        BY <1>26 DEF ApplyOpenOrders
    <2>3. listed' \in [Procs -> [Orders -> {"none"} \cup Live]]
        BY <1>26 DEF ApplyOpenOrders, NothingListed
    <2>4. phase' \in [Procs -> {"idle", "listed", "checking"}]
        BY <1>26 DEF ApplyOpenOrders
    <2> QED
        BY <1>26, <2>1, <2>2, <2>3, <2>4 DEF ApplyOpenOrders
<1>27. ASSUME NEW p \in Procs, NEW o \in Orders, GetOrder(p, o)
      PROVE  TypeOK'
    <2>1. answer' \in [Procs -> SUBSET [id : Orders, status : {"none"} \cup ExchStatus]]
        BY <1>27 DEF GetOrder
    <2> QED
        BY <1>27, <2>1 DEF GetOrder
<1>28. ASSUME NEW p \in Procs, ApplyOrder(p)
      PROVE  TypeOK'
    BY <1>28 DEF ApplyOrder, RecordOrderResult
<1>29. ASSUME NEW p \in Procs, ReconcileFails(p)
      PROVE  TypeOK'
    BY <1>29 DEF ReconcileFails, EndPass, NothingListed
<1>30. ASSUME NEW p \in Procs, Crash(p)
      PROVE  TypeOK'
    <2>1. feed' \in [Procs -> Seq(Message)]
        <3>1. <<>> \in Seq(Message)
            OBVIOUS
        <3> QED
            BY <1>30, <3>1 DEF Crash
    <2>2. phase' \in [Procs -> {"idle", "listed", "checking"}]
        BY <1>30 DEF Crash, EndPass
    <2>3. /\ listed' \in [Procs -> [Orders -> {"none"} \cup Live]]
          /\ todo' \in [Procs -> SUBSET Orders]
          /\ answer' \in [Procs -> SUBSET [id : Orders, status : {"none"} \cup ExchStatus]]
        BY <1>30 DEF Crash, EndPass, NothingListed
    <2>4. /\ call' \in [Orders -> {"idle", "testing", "sent", "done"} \cup Running]
          /\ reply' \in [Orders -> {"none", "ACK", "UNKNOWN", "REFUSED"} \cup ExchStatus]
        BY <1>30 DEF Crash
    <2>5. crashes' \in 0..MaxCrashes
        BY <1>30 DEF Crash
    <2> QED
        BY <1>30, <2>1, <2>2, <2>3, <2>4, <2>5 DEF Crash
<1>31. CASE UNCHANGED vars
    BY <1>31 DEF vars
<1> QED
    BY <1>1, <1>2, <1>3, <1>4, <1>5, <1>6, <1>7, <1>8, <1>9, <1>10, <1>11, <1>12, <1>13, <1>14, <1>15, <1>16, <1>17, <1>18, <1>19, <1>20, <1>21, <1>22, <1>23, <1>24, <1>25, <1>26, <1>27, <1>28, <1>29, <1>30, <1>31 DEF Next, Submission, Exchange, Stream, Query, Reconcile

\* Every variable keeps its type.
THEOREM TypeCorrect == Spec => []TypeOK
<1>1. TypeOK /\ [Next]_vars => TypeOK'
    BY TypeStep
<1> QED
    BY InitType, <1>1, PTL DEF Spec

-----------------------------------------------------------------------------
(* Requests are journaled                                                   *)

RowsStay == \A q \in Orders : journal[q] # "ABSENT" => journal'[q] # "ABSENT"

\* An UPDATE never removes a row.
LEMMA ResultKeepsRows ==
    ASSUME TypeOK, NEW o \in Orders, NEW s, s # "ABSENT", RecordOrderResult(o, s)
    PROVE  RowsStay
BY DEF TypeOK, RecordOrderResult, RowsStay

\* Call, request and exchange status agree, and what is asked has a row.
LEMMA RowStep == TypeOK /\ WireInv /\ RowInv /\ [Next]_vars => (WireInv /\ RowInv)'
<1> SUFFICES ASSUME TypeOK, WireInv, RowInv, [Next]_vars PROVE (WireInv /\ RowInv)'
    OBVIOUS
<1> USE DEF TypeOK, WireInv, RowInv, callVars, wireVars, feedVars, reconVars
<1>1. ASSUME NEW o \in Orders, NEW p \in Procs, NEW m \in Modes, Evaluate(p, o, m)
      PROVE  (WireInv /\ RowInv)'
    BY <1>1 DEF Evaluate
<1>2. ASSUME NEW o \in Orders, RecordOrderRequest(o)
      PROVE  (WireInv /\ RowInv)'
    BY <1>2 DEF RecordOrderRequest
<1>3. ASSUME NEW o \in Orders, RecordRejection(o)
      PROVE  (WireInv /\ RowInv)'
    BY <1>3 DEF RecordRejection, RecordOrderResult
<1>4. ASSUME NEW o \in Orders, DryRun(o)
      PROVE  (WireInv /\ RowInv)'
    BY <1>4 DEF DryRun, RecordOrderResult
<1>5. ASSUME NEW o \in Orders, NoCredentials(o)
      PROVE  (WireInv /\ RowInv)'
    BY <1>5 DEF NoCredentials
<1>6. ASSUME NEW o \in Orders, SendTestOrder(o)
      PROVE  (WireInv /\ RowInv)'
    BY <1>6 DEF SendTestOrder
<1>7. ASSUME NEW o \in Orders, TestOrderReturns(o)
      PROVE  (WireInv /\ RowInv)'
    BY <1>7 DEF TestOrderReturns, RecordOrderResult
<1>8. ASSUME NEW o \in Orders, PlaceOrder(o)
      PROVE  (WireInv /\ RowInv)'
    BY <1>8 DEF PlaceOrder
<1>9. ASSUME NEW o \in Orders, ReceiveReply(o)
      PROVE  (WireInv /\ RowInv)'
    <2>1. RowsStay
        BY <1>9, ResultKeepsRows DEF ReceiveReply, OutcomeOf
    <2> QED
        BY <1>9, <2>1 DEF ReceiveReply, RowsStay
<1>10. ASSUME NEW o \in Orders, TransportFails(o)
      PROVE  (WireInv /\ RowInv)'
    BY <1>10 DEF TransportFails, RecordOrderResult
<1>11. ASSUME NEW o \in Orders, CallCancelled(o)
      PROVE  (WireInv /\ RowInv)'
    BY <1>11 DEF CallCancelled
<1>12. ASSUME NEW o \in Orders, Accept(o)
      PROVE  (WireInv /\ RowInv)'
    BY <1>12 DEF Accept, Emit
<1>13. ASSUME NEW o \in Orders, Refuse(o)
      PROVE  (WireInv /\ RowInv)'
    BY <1>13 DEF Refuse
<1>14. ASSUME NEW o \in Orders, LoseRequest(o)
      PROVE  (WireInv /\ RowInv)'
    BY <1>14 DEF LoseRequest
<1>15. ASSUME NEW o \in Orders, Respond(o)
      PROVE  (WireInv /\ RowInv)'
    BY <1>15 DEF Respond
<1>16. ASSUME NEW o \in Orders, RespondUnknown(o)
      PROVE  (WireInv /\ RowInv)'
    BY <1>16 DEF RespondUnknown
<1>17. ASSUME NEW o \in Orders, Trade(o)
      PROVE  (WireInv /\ RowInv)'
    BY <1>17 DEF Trade, Emit
<1>18. ASSUME NEW p \in Procs, StreamConnects(p)
      PROVE  (WireInv /\ RowInv)'
    BY <1>18 DEF StreamConnects
<1>19. ASSUME NEW p \in Procs, StreamDrops(p)
      PROVE  (WireInv /\ RowInv)'
    BY <1>19 DEF StreamDrops
<1>20. ASSUME NEW p \in Procs, ApplyUserStreamMessage(p)
      PROVE  (WireInv /\ RowInv)'
    <2>1. Head(feed[p]) \in Message
        BY <1>20 DEF ApplyUserStreamMessage
    <2>2. RowsStay
        BY <1>20, <2>1, ResultKeepsRows DEF ApplyUserStreamMessage, Message
    <2> QED
        BY <1>20, <2>2 DEF ApplyUserStreamMessage, RowsStay
<1>21. ASSUME NEW p \in Procs, NEW o \in Orders, AskStatus(p, o)
      PROVE  (WireInv /\ RowInv)'
    BY <1>21 DEF AskStatus
<1>22. ASSUME NEW p \in Procs, NEW o \in Orders, AskCancel(p, o)
      PROVE  (WireInv /\ RowInv)'
    BY <1>22 DEF AskCancel, Emit
<1>23. ASSUME NEW p \in Procs, ApplyExchangeOrderSnapshot(p)
      PROVE  (WireInv /\ RowInv)'
    <2>1. PICK s \in look[p] : RecordOrderResult(s.id, s.status)
        BY <1>23 DEF ApplyExchangeOrderSnapshot
    <2>2. s \in Message
        BY <2>1, <1>23
    <2>3. s.id \in Orders /\ s.status # "ABSENT"
        BY <2>2 DEF Message
    <2>4. RowsStay
        BY <2>1, <2>3, ResultKeepsRows
    <2> QED
        BY <1>23, <2>4 DEF ApplyExchangeOrderSnapshot, RowsStay
<1>24. ASSUME NEW p \in Procs, LookFails(p)
      PROVE  (WireInv /\ RowInv)'
    BY <1>24 DEF LookFails
<1>25. ASSUME NEW p \in Procs, GetOpenOrders(p)
      PROVE  (WireInv /\ RowInv)'
    BY <1>25 DEF GetOpenOrders
<1>26. ASSUME NEW p \in Procs, ApplyOpenOrders(p)
      PROVE  (WireInv /\ RowInv)'
    <2>1. journal' = [q \in Orders |-> IF listed[p][q] # "none" /\ journal[q] # "ABSENT"
                                        THEN listed[p][q] ELSE journal[q]]
        BY <1>26 DEF ApplyOpenOrders
    <2>2. \A q \in Orders : listed[p][q] \in {"none"} \cup Live
        BY <1>26
    <2>3. RowsStay
        BY <2>1, <2>2 DEF RowsStay
    <2> QED
        BY <1>26, <2>3 DEF ApplyOpenOrders, RowsStay
<1>27. ASSUME NEW p \in Procs, NEW o \in Orders, GetOrder(p, o)
      PROVE  (WireInv /\ RowInv)'
    BY <1>27 DEF GetOrder
<1>28. ASSUME NEW p \in Procs, ApplyOrder(p)
      PROVE  (WireInv /\ RowInv)'
    <2>1. PICK a \in answer[p] :
              RecordOrderResult(a.id, IF a.status = "none" THEN "RECONCILED_MISSING" ELSE a.status)
        BY <1>28 DEF ApplyOrder
    <2>2. a \in [id : Orders, status : {"none"} \cup ExchStatus]
        BY <1>28, <2>1
    <2>3. a.id \in Orders /\ a.status # "ABSENT"
        BY <2>2
    <2>4. RowsStay
        BY <2>1, <2>3, ResultKeepsRows
    <2> QED
        BY <1>28, <2>4 DEF ApplyOrder, RowsStay
<1>29. ASSUME NEW p \in Procs, ReconcileFails(p)
      PROVE  (WireInv /\ RowInv)'
    BY <1>29 DEF ReconcileFails, EndPass, NothingListed
<1>30. ASSUME NEW p \in Procs, Crash(p)
      PROVE  (WireInv /\ RowInv)'
    BY <1>30 DEF Crash, EndPass, NothingListed
<1>31. CASE UNCHANGED vars
    BY <1>31 DEF vars
<1> QED
    BY <1>1, <1>2, <1>3, <1>4, <1>5, <1>6, <1>7, <1>8, <1>9, <1>10, <1>11, <1>12, <1>13, <1>14, <1>15, <1>16, <1>17, <1>18, <1>19, <1>20, <1>21, <1>22, <1>23, <1>24, <1>25, <1>26, <1>27, <1>28, <1>29, <1>30, <1>31 DEF Next, Submission, Exchange, Stream, Query, Reconcile

LEMMA InitRow == Init => WireInv /\ RowInv
BY DEF Init, WireInv, RowInv

\* Whatever the exchange has been asked has a row.
THEOREM RequestsJournaled == Spec => []RequestsAreJournaled
<1>1. TypeOK /\ WireInv /\ RowInv /\ [Next]_vars => (WireInv /\ RowInv)'
    BY RowStep
<1>2. RowInv => RequestsAreJournaled
    BY DEF RowInv, RequestsAreJournaled
<1> QED
    BY TypeCorrect, InitRow, <1>1, <1>2, PTL DEF Spec
-----------------------------------------------------------------------------
(* The journal never runs ahead of the exchange                             *)

HistoryKeeps == \A o \in Orders : History(exch[o]) \subseteq History(exch'[o])

\* What an order has been it has been for good.
LEMMA HistoryGrows == TypeOK /\ WireInv /\ [Next]_vars => HistoryKeeps
<1> SUFFICES ASSUME TypeOK, WireInv, [Next]_vars PROVE HistoryKeeps
    OBVIOUS
<1> USE DEF TypeOK, WireInv, HistoryKeeps, callVars, wireVars, feedVars, reconVars
<1>1. ASSUME NEW o \in Orders, NEW p \in Procs, NEW m \in Modes, Evaluate(p, o, m)
      PROVE  HistoryKeeps
    BY <1>1 DEF Evaluate
<1>2. ASSUME NEW o \in Orders, RecordOrderRequest(o)
      PROVE  HistoryKeeps
    BY <1>2 DEF RecordOrderRequest
<1>3. ASSUME NEW o \in Orders, RecordRejection(o)
      PROVE  HistoryKeeps
    BY <1>3 DEF RecordRejection, RecordOrderResult
<1>4. ASSUME NEW o \in Orders, DryRun(o)
      PROVE  HistoryKeeps
    BY <1>4 DEF DryRun, RecordOrderResult
<1>5. ASSUME NEW o \in Orders, NoCredentials(o)
      PROVE  HistoryKeeps
    BY <1>5 DEF NoCredentials
<1>6. ASSUME NEW o \in Orders, SendTestOrder(o)
      PROVE  HistoryKeeps
    BY <1>6 DEF SendTestOrder
<1>7. ASSUME NEW o \in Orders, TestOrderReturns(o)
      PROVE  HistoryKeeps
    BY <1>7 DEF TestOrderReturns, RecordOrderResult
<1>8. ASSUME NEW o \in Orders, PlaceOrder(o)
      PROVE  HistoryKeeps
    BY <1>8 DEF PlaceOrder
<1>9. ASSUME NEW o \in Orders, ReceiveReply(o)
      PROVE  HistoryKeeps
    BY <1>9 DEF ReceiveReply, RecordOrderResult, OutcomeOf
<1>10. ASSUME NEW o \in Orders, TransportFails(o)
      PROVE  HistoryKeeps
    BY <1>10 DEF TransportFails, RecordOrderResult
<1>11. ASSUME NEW o \in Orders, CallCancelled(o)
      PROVE  HistoryKeeps
    BY <1>11 DEF CallCancelled
<1>12. ASSUME NEW o \in Orders, Accept(o)
      PROVE  HistoryKeeps
    BY <1>12 DEF Accept, Emit, History
<1>13. ASSUME NEW o \in Orders, Refuse(o)
      PROVE  HistoryKeeps
    BY <1>13 DEF Refuse
<1>14. ASSUME NEW o \in Orders, LoseRequest(o)
      PROVE  HistoryKeeps
    BY <1>14 DEF LoseRequest
<1>15. ASSUME NEW o \in Orders, Respond(o)
      PROVE  HistoryKeeps
    BY <1>15 DEF Respond
<1>16. ASSUME NEW o \in Orders, RespondUnknown(o)
      PROVE  HistoryKeeps
    BY <1>16 DEF RespondUnknown
<1>17. ASSUME NEW o \in Orders, Trade(o)
      PROVE  HistoryKeeps
    BY <1>17 DEF Trade, Emit, History
<1>18. ASSUME NEW p \in Procs, StreamConnects(p)
      PROVE  HistoryKeeps
    BY <1>18 DEF StreamConnects
<1>19. ASSUME NEW p \in Procs, StreamDrops(p)
      PROVE  HistoryKeeps
    BY <1>19 DEF StreamDrops
<1>20. ASSUME NEW p \in Procs, ApplyUserStreamMessage(p)
      PROVE  HistoryKeeps
    BY <1>20 DEF ApplyUserStreamMessage, RecordOrderResult
<1>21. ASSUME NEW p \in Procs, NEW o \in Orders, AskStatus(p, o)
      PROVE  HistoryKeeps
    BY <1>21 DEF AskStatus
<1>22. ASSUME NEW p \in Procs, NEW o \in Orders, AskCancel(p, o)
      PROVE  HistoryKeeps
    BY <1>22 DEF AskCancel, Emit, History
<1>23. ASSUME NEW p \in Procs, ApplyExchangeOrderSnapshot(p)
      PROVE  HistoryKeeps
    BY <1>23 DEF ApplyExchangeOrderSnapshot, RecordOrderResult
<1>24. ASSUME NEW p \in Procs, LookFails(p)
      PROVE  HistoryKeeps
    BY <1>24 DEF LookFails
<1>25. ASSUME NEW p \in Procs, GetOpenOrders(p)
      PROVE  HistoryKeeps
    BY <1>25 DEF GetOpenOrders
<1>26. ASSUME NEW p \in Procs, ApplyOpenOrders(p)
      PROVE  HistoryKeeps
    BY <1>26 DEF ApplyOpenOrders, NothingListed
<1>27. ASSUME NEW p \in Procs, NEW o \in Orders, GetOrder(p, o)
      PROVE  HistoryKeeps
    BY <1>27 DEF GetOrder
<1>28. ASSUME NEW p \in Procs, ApplyOrder(p)
      PROVE  HistoryKeeps
    BY <1>28 DEF ApplyOrder, RecordOrderResult
<1>29. ASSUME NEW p \in Procs, ReconcileFails(p)
      PROVE  HistoryKeeps
    BY <1>29 DEF ReconcileFails, EndPass, NothingListed
<1>30. ASSUME NEW p \in Procs, Crash(p)
      PROVE  HistoryKeeps
    BY <1>30 DEF Crash, EndPass, NothingListed
<1>31. CASE UNCHANGED vars
    BY <1>31 DEF vars
<1> QED
    BY <1>1, <1>2, <1>3, <1>4, <1>5, <1>6, <1>7, <1>8, <1>9, <1>10, <1>11, <1>12, <1>13, <1>14, <1>15, <1>16, <1>17, <1>18, <1>19, <1>20, <1>21, <1>22, <1>23, <1>24, <1>25, <1>26, <1>27, <1>28, <1>29, <1>30, <1>31 DEF Next, Submission, Exchange, Stream, Query, Reconcile

\* The status of an order is in its history.
LEMMA OwnHistory == \A e \in ExchStatus : e \in History(e)
BY DEF History

\* Writing a status the order has had keeps the journal behind the exchange.
LEMMA ResultNeverAhead ==
    ASSUME TypeOK, JournalNeverAhead, exch' = exch,
           NEW o \in Orders, NEW s, s \in ExchStatus => s \in History(exch[o]),
           RecordOrderResult(o, s)
    PROVE  JournalNeverAhead'
BY DEF TypeOK, JournalNeverAhead, RecordOrderResult

\* An event carries the status the order takes with the step that emits it.
LEMMA EmitHistory ==
    ASSUME TypeOK, FeedHistory, HistoryKeeps,
           NEW o \in Orders, NEW s \in ExchStatus, s \in History(exch'[o]), Emit(o, s)
    PROVE  FeedHistory'
<1> DEFINE m == [id |-> o, status |-> s]
<1> SUFFICES ASSUME NEW q \in Procs, NEW i \in 1..Len(feed'[q])
             PROVE  feed'[q][i].status \in History(exch'[feed'[q][i].id])
    BY DEF FeedHistory
<1>1. feed[q] \in Seq(Message) /\ m \in Message
    BY DEF TypeOK, Message
<1>2. feed'[q] = IF connected[q] THEN Append(feed[q], m) ELSE feed[q]
    BY DEF Emit
<1>3. CASE i \in 1..Len(feed[q])
    <2>1. feed'[q][i] = feed[q][i] /\ feed[q][i] \in Message
        BY <1>1, <1>2, <1>3
    <2>2. feed[q][i].id \in Orders
        BY <2>1 DEF Message
    <2> QED
        BY <1>3, <2>1, <2>2 DEF FeedHistory, HistoryKeeps
<1>4. CASE i \notin 1..Len(feed[q])
    <2>1. feed'[q][i] = m
        BY <1>1, <1>2, <1>4
    <2> QED
        BY <2>1
<1> QED
    BY <1>3, <1>4

\* What is under way stays true, and what is written was under way.
LEMMA HistoryStep ==
    JournalInv /\ [Next]_vars => (HistoryInv /\ JournalNeverAhead)'
<1> SUFFICES ASSUME JournalInv, [Next]_vars PROVE (HistoryInv /\ JournalNeverAhead)'
    OBVIOUS
<1>a. TypeOK /\ WireInv /\ HistoryInv /\ JournalNeverAhead /\ HistoryKeeps
    BY HistoryGrows DEF JournalInv
<1> USE <1>a DEF TypeOK, JournalNeverAhead, HistoryInv, ReplyHistory, FeedHistory, ListedHistory,
                AnswerHistory, LookHistory, callVars, wireVars, feedVars, reconVars
<1>1. ASSUME NEW o \in Orders, NEW p \in Procs, NEW m \in Modes, Evaluate(p, o, m)
      PROVE  (HistoryInv /\ JournalNeverAhead)'
    BY <1>1 DEF Evaluate
<1>2. ASSUME NEW o \in Orders, RecordOrderRequest(o)
      PROVE  (HistoryInv /\ JournalNeverAhead)'
    BY <1>2 DEF RecordOrderRequest
<1>3. ASSUME NEW o \in Orders, RecordRejection(o)
      PROVE  (HistoryInv /\ JournalNeverAhead)'
    BY <1>3 DEF RecordRejection, RecordOrderResult
<1>4. ASSUME NEW o \in Orders, DryRun(o)
      PROVE  (HistoryInv /\ JournalNeverAhead)'
    BY <1>4 DEF DryRun, RecordOrderResult
<1>5. ASSUME NEW o \in Orders, NoCredentials(o)
      PROVE  (HistoryInv /\ JournalNeverAhead)'
    BY <1>5 DEF NoCredentials
<1>6. ASSUME NEW o \in Orders, SendTestOrder(o)
      PROVE  (HistoryInv /\ JournalNeverAhead)'
    BY <1>6 DEF SendTestOrder
<1>7. ASSUME NEW o \in Orders, TestOrderReturns(o)
      PROVE  (HistoryInv /\ JournalNeverAhead)'
    <2>1. JournalNeverAhead'
        BY <1>7 DEF TestOrderReturns, RecordOrderResult
    <2> QED
        BY <1>7, <2>1 DEF TestOrderReturns
<1>8. ASSUME NEW o \in Orders, PlaceOrder(o)
      PROVE  (HistoryInv /\ JournalNeverAhead)'
    BY <1>8 DEF PlaceOrder
<1>9. ASSUME NEW o \in Orders, ReceiveReply(o)
      PROVE  (HistoryInv /\ JournalNeverAhead)'
    BY <1>9 DEF ReceiveReply, RecordOrderResult, OutcomeOf
<1>10. ASSUME NEW o \in Orders, TransportFails(o)
      PROVE  (HistoryInv /\ JournalNeverAhead)'
    BY <1>10 DEF TransportFails, RecordOrderResult
<1>11. ASSUME NEW o \in Orders, CallCancelled(o)
      PROVE  (HistoryInv /\ JournalNeverAhead)'
    <2>1. ReplyHistory'
        BY <1>11 DEF CallCancelled
    <2> QED
        BY <1>11, <2>1 DEF CallCancelled
<1>12. ASSUME NEW o \in Orders, Accept(o)
      PROVE  (HistoryInv /\ JournalNeverAhead)'
    <2>1. "NEW" \in History(exch'[o]) /\ Emit(o, "NEW")
        BY <1>12 DEF Accept, History
    <2>2. FeedHistory'
        BY <2>1, EmitHistory
    <2> QED
        BY <1>12, <2>2 DEF Accept, HistoryKeeps
<1>13. ASSUME NEW o \in Orders, Refuse(o)
      PROVE  (HistoryInv /\ JournalNeverAhead)'
    BY <1>13 DEF Refuse
<1>14. ASSUME NEW o \in Orders, LoseRequest(o)
      PROVE  (HistoryInv /\ JournalNeverAhead)'
    BY <1>14 DEF LoseRequest
<1>15. ASSUME NEW o \in Orders, Respond(o)
      PROVE  (HistoryInv /\ JournalNeverAhead)'
    <2>1. exch[o] \in History(exch[o])
        BY <1>15, OwnHistory DEF Respond
    <2>2. ReplyHistory'
        BY <1>15, <2>1 DEF Respond
    <2> QED
        BY <1>15, <2>2 DEF Respond
<1>16. ASSUME NEW o \in Orders, RespondUnknown(o)
      PROVE  (HistoryInv /\ JournalNeverAhead)'
    BY <1>16 DEF RespondUnknown
<1>17. ASSUME NEW o \in Orders, Trade(o)
      PROVE  (HistoryInv /\ JournalNeverAhead)'
    <2>1. PICK s \in {"PARTIALLY_FILLED"} \cup Terminal :
              exch' = [exch EXCEPT ![o] = s] /\ Emit(o, s)
        BY <1>17 DEF Trade
    <2>2. s \in History(exch'[o])
        BY <2>1 DEF History
    <2>3. FeedHistory'
        BY <2>1, <2>2, EmitHistory
    <2> QED
        BY <1>17, <2>3 DEF Trade, HistoryKeeps
<1>18. ASSUME NEW p \in Procs, StreamConnects(p)
      PROVE  (HistoryInv /\ JournalNeverAhead)'
    BY <1>18 DEF StreamConnects
<1>19. ASSUME NEW p \in Procs, StreamDrops(p)
      PROVE  (HistoryInv /\ JournalNeverAhead)'
    BY <1>19 DEF StreamDrops
<1>20. ASSUME NEW p \in Procs, ApplyUserStreamMessage(p)
      PROVE  (HistoryInv /\ JournalNeverAhead)'
    <2>1. feed[p] \in Seq(Message) /\ feed[p] # <<>>
        BY <1>20 DEF ApplyUserStreamMessage
    <2>2. /\ Head(feed[p]) \in Message
          /\ Head(feed[p]).status \in History(exch[Head(feed[p]).id])
        BY <2>1
    <2>3. JournalNeverAhead'
        BY <1>20, <2>2, ResultNeverAhead DEF ApplyUserStreamMessage, Message
    <2>4. ASSUME NEW q \in Procs, NEW j \in 1..Len(feed'[q])
          PROVE  feed'[q][j].status \in History(exch'[feed'[q][j].id])
        <3>1. CASE q = p
            <4>1. feed'[q] = Tail(feed[p])
                BY <1>20, <3>1 DEF ApplyUserStreamMessage
            <4>2. j + 1 \in 1..Len(feed[p]) /\ feed'[q][j] = feed[p][j + 1]
                BY <2>1, <4>1
            <4> QED
                BY <1>20, <4>2 DEF ApplyUserStreamMessage
        <3>2. CASE q # p
            BY <1>20, <3>2 DEF ApplyUserStreamMessage
        <3> QED
            BY <3>1, <3>2
    <2>5. FeedHistory'
        BY <2>4
    <2> QED
        BY <1>20, <2>3, <2>5 DEF ApplyUserStreamMessage
<1>21. ASSUME NEW p \in Procs, NEW o \in Orders, AskStatus(p, o)
      PROVE  (HistoryInv /\ JournalNeverAhead)'
    <2>1. exch[o] \in History(exch[o])
        BY <1>21, OwnHistory DEF AskStatus
    <2>2. LookHistory'
        BY <1>21, <2>1 DEF AskStatus
    <2> QED
        BY <1>21, <2>2 DEF AskStatus
<1>22. ASSUME NEW p \in Procs, NEW o \in Orders, AskCancel(p, o)
      PROVE  (HistoryInv /\ JournalNeverAhead)'
    <2>1. "CANCELED" \in History(exch'[o]) /\ Emit(o, "CANCELED")
        BY <1>22 DEF AskCancel, History
    <2>2. FeedHistory'
        BY <2>1, EmitHistory
    <2>3. look' = [look EXCEPT ![p] = {[id |-> o, status |-> "CANCELED"]}]
        BY <1>22 DEF AskCancel
    <2>4. ASSUME NEW q \in Procs, NEW s \in look'[q]
          PROVE  s.status \in History(exch'[s.id])
        <3>1. CASE q = p
            BY <2>1, <2>3, <3>1
        <3>2. CASE q # p
            <4>1. s \in look[q] /\ s \in Message
                BY <2>3, <3>2
            <4> QED
                BY <4>1 DEF HistoryKeeps, Message
        <3> QED
            BY <3>1, <3>2
    <2>5. LookHistory'
        BY <2>4
    <2> QED
        BY <1>22, <2>2, <2>5 DEF AskCancel, HistoryKeeps
<1>23. ASSUME NEW p \in Procs, ApplyExchangeOrderSnapshot(p)
      PROVE  (HistoryInv /\ JournalNeverAhead)'
    BY <1>23 DEF ApplyExchangeOrderSnapshot, RecordOrderResult
<1>24. ASSUME NEW p \in Procs, LookFails(p)
      PROVE  (HistoryInv /\ JournalNeverAhead)'
    BY <1>24 DEF LookFails
<1>25. ASSUME NEW p \in Procs, GetOpenOrders(p)
      PROVE  (HistoryInv /\ JournalNeverAhead)'
    <2>1. \A o \in Orders : exch[o] \in Live => exch[o] \in History(exch[o])
        BY OwnHistory
    <2>2. ListedHistory'
        BY <1>25, <2>1 DEF GetOpenOrders
    <2> QED
        BY <1>25, <2>2 DEF GetOpenOrders
<1>26. ASSUME NEW p \in Procs, ApplyOpenOrders(p)
      PROVE  (HistoryInv /\ JournalNeverAhead)'
    BY <1>26 DEF ApplyOpenOrders, NothingListed
<1>27. ASSUME NEW p \in Procs, NEW o \in Orders, GetOrder(p, o)
      PROVE  (HistoryInv /\ JournalNeverAhead)'
    <2>1. exch[o] # "none" => exch[o] \in History(exch[o])
        BY OwnHistory
    <2>2. AnswerHistory'
        BY <1>27, <2>1 DEF GetOrder
    <2> QED
        BY <1>27, <2>2 DEF GetOrder
<1>28. ASSUME NEW p \in Procs, ApplyOrder(p)
      PROVE  (HistoryInv /\ JournalNeverAhead)'
    BY <1>28 DEF ApplyOrder, RecordOrderResult
<1>29. ASSUME NEW p \in Procs, ReconcileFails(p)
      PROVE  (HistoryInv /\ JournalNeverAhead)'
    BY <1>29 DEF ReconcileFails, EndPass, NothingListed
<1>30. ASSUME NEW p \in Procs, Crash(p)
      PROVE  (HistoryInv /\ JournalNeverAhead)'
    BY <1>30 DEF Crash, EndPass, NothingListed
<1>31. CASE UNCHANGED vars
    BY <1>31 DEF vars
<1> QED
    BY <1>1, <1>2, <1>3, <1>4, <1>5, <1>6, <1>7, <1>8, <1>9, <1>10, <1>11, <1>12, <1>13, <1>14, <1>15, <1>16, <1>17, <1>18, <1>19, <1>20, <1>21, <1>22, <1>23, <1>24, <1>25, <1>26, <1>27, <1>28, <1>29, <1>30, <1>31 DEF Next, Submission, Exchange, Stream, Query, Reconcile
LEMMA InitHistory == Init => HistoryInv /\ JournalNeverAhead
BY DEF Init, NothingListed, HistoryInv, ReplyHistory, FeedHistory, ListedHistory,
       AnswerHistory, LookHistory, JournalNeverAhead

\* The strengthened invariant.
THEOREM JournalInvariant == Spec => []JournalInv
<1>1. Init => JournalInv
    BY InitType, InitRow, InitHistory DEF JournalInv
<1>2. JournalInv /\ [Next]_vars => JournalInv'
    <2> SUFFICES ASSUME JournalInv, [Next]_vars PROVE JournalInv'
        OBVIOUS
    <2>1. TypeOK'
        BY TypeStep DEF JournalInv
    <2>2. (WireInv /\ RowInv)'
        BY RowStep DEF JournalInv
    <2>3. (HistoryInv /\ JournalNeverAhead)'
        BY HistoryStep
    <2> QED
        BY <2>1, <2>2, <2>3 DEF JournalInv
<1> QED
    BY <1>1, <1>2, PTL DEF Spec

\* No row names a status its order has not had.
THEOREM NeverAhead == Spec => []JournalNeverAhead
<1>1. JournalInv => JournalNeverAhead
    BY DEF JournalInv
<1> QED
    BY JournalInvariant, <1>1, PTL

-----------------------------------------------------------------------------
(* One process: the counted slot is still free when it is taken             *)

\* Two calls of one process are never both in their synchronous stretch.
LEMMA LoopStep == TypeOK /\ LoopInv /\ [Next]_vars => LoopInv'
<1> SUFFICES ASSUME TypeOK, LoopInv, [Next]_vars PROVE LoopInv'
    OBVIOUS
<1> USE DEF TypeOK, LoopInv, callVars, wireVars, feedVars, reconVars
<1>1. ASSUME NEW o \in Orders, NEW p \in Procs, NEW m \in Modes, Evaluate(p, o, m)
      PROVE  LoopInv'
    BY <1>1 DEF Evaluate, LoopFree
<1>2. ASSUME NEW o \in Orders, RecordOrderRequest(o)
      PROVE  LoopInv'
    <2>1. owner' = owner /\ call[o] \in Running
        BY <1>2 DEF RecordOrderRequest
    <2>2. \A q \in Orders : call'[q] = call[q] \/ q = o
        BY <1>2 DEF RecordOrderRequest
    <2> QED
        BY <2>1, <2>2
<1>3. ASSUME NEW o \in Orders, RecordRejection(o)
      PROVE  LoopInv'
    BY <1>3 DEF RecordRejection, RecordOrderResult
<1>4. ASSUME NEW o \in Orders, DryRun(o)
      PROVE  LoopInv'
    BY <1>4 DEF DryRun, RecordOrderResult
<1>5. ASSUME NEW o \in Orders, NoCredentials(o)
      PROVE  LoopInv'
    BY <1>5 DEF NoCredentials
<1>6. ASSUME NEW o \in Orders, SendTestOrder(o)
      PROVE  LoopInv'
    BY <1>6 DEF SendTestOrder
<1>7. ASSUME NEW o \in Orders, TestOrderReturns(o)
      PROVE  LoopInv'
    BY <1>7 DEF TestOrderReturns, RecordOrderResult
<1>8. ASSUME NEW o \in Orders, PlaceOrder(o)
      PROVE  LoopInv'
    BY <1>8 DEF PlaceOrder
<1>9. ASSUME NEW o \in Orders, ReceiveReply(o)
      PROVE  LoopInv'
    BY <1>9 DEF ReceiveReply, RecordOrderResult, OutcomeOf
<1>10. ASSUME NEW o \in Orders, TransportFails(o)
      PROVE  LoopInv'
    BY <1>10 DEF TransportFails, RecordOrderResult
<1>11. ASSUME NEW o \in Orders, CallCancelled(o)
      PROVE  LoopInv'
    BY <1>11 DEF CallCancelled
<1>12. ASSUME NEW o \in Orders, Accept(o)
      PROVE  LoopInv'
    BY <1>12 DEF Accept, Emit
<1>13. ASSUME NEW o \in Orders, Refuse(o)
      PROVE  LoopInv'
    BY <1>13 DEF Refuse
<1>14. ASSUME NEW o \in Orders, LoseRequest(o)
      PROVE  LoopInv'
    BY <1>14 DEF LoseRequest
<1>15. ASSUME NEW o \in Orders, Respond(o)
      PROVE  LoopInv'
    BY <1>15 DEF Respond
<1>16. ASSUME NEW o \in Orders, RespondUnknown(o)
      PROVE  LoopInv'
    BY <1>16 DEF RespondUnknown
<1>17. ASSUME NEW o \in Orders, Trade(o)
      PROVE  LoopInv'
    BY <1>17 DEF Trade, Emit
<1>18. ASSUME NEW p \in Procs, StreamConnects(p)
      PROVE  LoopInv'
    BY <1>18 DEF StreamConnects
<1>19. ASSUME NEW p \in Procs, StreamDrops(p)
      PROVE  LoopInv'
    BY <1>19 DEF StreamDrops
<1>20. ASSUME NEW p \in Procs, ApplyUserStreamMessage(p)
      PROVE  LoopInv'
    BY <1>20 DEF ApplyUserStreamMessage, RecordOrderResult
<1>21. ASSUME NEW p \in Procs, NEW o \in Orders, AskStatus(p, o)
      PROVE  LoopInv'
    BY <1>21 DEF AskStatus
<1>22. ASSUME NEW p \in Procs, NEW o \in Orders, AskCancel(p, o)
      PROVE  LoopInv'
    BY <1>22 DEF AskCancel, Emit
<1>23. ASSUME NEW p \in Procs, ApplyExchangeOrderSnapshot(p)
      PROVE  LoopInv'
    BY <1>23 DEF ApplyExchangeOrderSnapshot, RecordOrderResult
<1>24. ASSUME NEW p \in Procs, LookFails(p)
      PROVE  LoopInv'
    BY <1>24 DEF LookFails
<1>25. ASSUME NEW p \in Procs, GetOpenOrders(p)
      PROVE  LoopInv'
    BY <1>25 DEF GetOpenOrders
<1>26. ASSUME NEW p \in Procs, ApplyOpenOrders(p)
      PROVE  LoopInv'
    BY <1>26 DEF ApplyOpenOrders, NothingListed
<1>27. ASSUME NEW p \in Procs, NEW o \in Orders, GetOrder(p, o)
      PROVE  LoopInv'
    BY <1>27 DEF GetOrder
<1>28. ASSUME NEW p \in Procs, ApplyOrder(p)
      PROVE  LoopInv'
    BY <1>28 DEF ApplyOrder, RecordOrderResult
<1>29. ASSUME NEW p \in Procs, ReconcileFails(p)
      PROVE  LoopInv'
    BY <1>29 DEF ReconcileFails, EndPass, NothingListed
<1>30. ASSUME NEW p \in Procs, Crash(p)
      PROVE  LoopInv'
    BY <1>30 DEF Crash, EndPass, NothingListed
<1>31. CASE UNCHANGED vars
    BY <1>31 DEF vars
<1> QED
    BY <1>1, <1>2, <1>3, <1>4, <1>5, <1>6, <1>7, <1>8, <1>9, <1>10, <1>11, <1>12, <1>13, <1>14, <1>15, <1>16, <1>17, <1>18, <1>19, <1>20, <1>21, <1>22, <1>23, <1>24, <1>25, <1>26, <1>27, <1>28, <1>29, <1>30, <1>31 DEF Next, Submission, Exchange, Stream, Query, Reconcile

\* Nothing writes the journal between evaluate and record_order_request.
LEMMA QuietWhileAdmitted ==
    ASSUME TypeOK, LoopInv, NEW r \in Procs, Procs = {r}, [Next]_vars,
           NEW q \in Orders, call[q] = "admitted", call'[q] = "admitted"
    PROVE  journal' = journal
\* The one process is busy with q: no other task of it gets the event loop.
<1>1. owner[q] = r
    BY DEF LoopInv
<1>2. \A p \in Procs : ~LoopFree(p)
    BY <1>1 DEF LoopFree, Running
<1>3. \A o \in Orders : call[o] \in {"testing", "sent"} => ~LoopFree(owner[o])
    BY <1>2 DEF LoopInv
<1>4. \A o \in Orders : call[o] \in Running => o = q
    BY <1>1 DEF LoopInv, Running
<1>5. DOMAIN call = Orders
    BY DEF TypeOK
<1>6. ASSUME NEW o \in Orders, Submission(o)
      PROVE  journal' = journal
  <2>1. ASSUME NEW p \in Procs, NEW m \in Modes, Evaluate(p, o, m)
        PROVE  journal' = journal
      BY <2>1 DEF Evaluate
  <2>2. ~RecordOrderRequest(o)
    <3> SUFFICES ASSUME RecordOrderRequest(o) PROVE FALSE
        OBVIOUS
    <3>1. call[o] \in Running
        BY DEF RecordOrderRequest, Running
    <3> QED
        BY <3>1, <1>4, <1>5 DEF RecordOrderRequest
  <2>3. ~RecordRejection(o) /\ ~DryRun(o)
      BY <1>4 DEF RecordRejection, DryRun, Running
  <2>4. NoCredentials(o) \/ SendTestOrder(o) \/ PlaceOrder(o) \/ CallCancelled(o)
          => journal' = journal
      BY DEF NoCredentials, SendTestOrder, PlaceOrder, CallCancelled
  <2>5. ~TestOrderReturns(o) /\ ~ReceiveReply(o) /\ ~TransportFails(o)
      BY <1>3 DEF TestOrderReturns, ReceiveReply, TransportFails
  <2> QED
      BY <1>6, <2>1, <2>2, <2>3, <2>4, <2>5 DEF Submission
<1>7. ASSUME NEW o \in Orders, Exchange(o)
      PROVE  journal' = journal
    BY <1>7 DEF Exchange, Accept, Refuse, LoseRequest, Respond, RespondUnknown, Trade
<1>8. ASSUME NEW p \in Procs, Stream(p) \/ Query(p)
      PROVE  journal' = journal
    BY <1>8, <1>2 DEF Stream, StreamConnects, StreamDrops, ApplyUserStreamMessage,
                      Query, AskStatus, AskCancel, ApplyExchangeOrderSnapshot, LookFails
<1>9. ASSUME NEW p \in Procs, Reconcile(p)
      PROVE  journal' = journal
    BY <1>9, <1>2 DEF Reconcile, GetOpenOrders, ApplyOpenOrders, GetOrder, ApplyOrder,
                      ReconcileFails
<1>10. ASSUME NEW p \in Procs, Crash(p)
       PROVE  journal' = journal
    BY <1>10 DEF Crash
<1>11. CASE UNCHANGED vars
    BY <1>11 DEF vars
<1> QED
    BY <1>6, <1>7, <1>8, <1>9, <1>10, <1>11 DEF Next

\* A call is admitted by evaluate only, which has just counted.
LEMMA AdmittedByGate ==
    ASSUME TypeOK, [Next]_vars, NEW q \in Orders,
           call[q] # "admitted", call'[q] = "admitted"
    PROVE  GateAdmits(q) /\ journal' = journal
<1> USE DEF TypeOK, callVars, wireVars, feedVars, reconVars
<1>1. ASSUME NEW o \in Orders, NEW p \in Procs, NEW m \in Modes, Evaluate(p, o, m)
      PROVE  GateAdmits(q) /\ journal' = journal
    BY <1>1 DEF Evaluate
<1>2. ASSUME NEW o \in Orders, RecordOrderRequest(o)
      PROVE  GateAdmits(q) /\ journal' = journal
    BY <1>2 DEF RecordOrderRequest
<1>3. ASSUME NEW o \in Orders, RecordRejection(o)
      PROVE  GateAdmits(q) /\ journal' = journal
    BY <1>3 DEF RecordRejection, RecordOrderResult
<1>4. ASSUME NEW o \in Orders, DryRun(o)
      PROVE  GateAdmits(q) /\ journal' = journal
    BY <1>4 DEF DryRun, RecordOrderResult
<1>5. ASSUME NEW o \in Orders, NoCredentials(o)
      PROVE  GateAdmits(q) /\ journal' = journal
    BY <1>5 DEF NoCredentials
<1>6. ASSUME NEW o \in Orders, SendTestOrder(o)
      PROVE  GateAdmits(q) /\ journal' = journal
    BY <1>6 DEF SendTestOrder
<1>7. ASSUME NEW o \in Orders, TestOrderReturns(o)
      PROVE  GateAdmits(q) /\ journal' = journal
    BY <1>7 DEF TestOrderReturns, RecordOrderResult
<1>8. ASSUME NEW o \in Orders, PlaceOrder(o)
      PROVE  GateAdmits(q) /\ journal' = journal
    BY <1>8 DEF PlaceOrder
<1>9. ASSUME NEW o \in Orders, ReceiveReply(o)
      PROVE  GateAdmits(q) /\ journal' = journal
    BY <1>9 DEF ReceiveReply, RecordOrderResult, OutcomeOf
<1>10. ASSUME NEW o \in Orders, TransportFails(o)
      PROVE  GateAdmits(q) /\ journal' = journal
    BY <1>10 DEF TransportFails, RecordOrderResult
<1>11. ASSUME NEW o \in Orders, CallCancelled(o)
      PROVE  GateAdmits(q) /\ journal' = journal
    BY <1>11 DEF CallCancelled
<1>12. ASSUME NEW o \in Orders, Accept(o)
      PROVE  GateAdmits(q) /\ journal' = journal
    BY <1>12 DEF Accept, Emit
<1>13. ASSUME NEW o \in Orders, Refuse(o)
      PROVE  GateAdmits(q) /\ journal' = journal
    BY <1>13 DEF Refuse
<1>14. ASSUME NEW o \in Orders, LoseRequest(o)
      PROVE  GateAdmits(q) /\ journal' = journal
    BY <1>14 DEF LoseRequest
<1>15. ASSUME NEW o \in Orders, Respond(o)
      PROVE  GateAdmits(q) /\ journal' = journal
    BY <1>15 DEF Respond
<1>16. ASSUME NEW o \in Orders, RespondUnknown(o)
      PROVE  GateAdmits(q) /\ journal' = journal
    BY <1>16 DEF RespondUnknown
<1>17. ASSUME NEW o \in Orders, Trade(o)
      PROVE  GateAdmits(q) /\ journal' = journal
    BY <1>17 DEF Trade, Emit
<1>18. ASSUME NEW p \in Procs, StreamConnects(p)
      PROVE  GateAdmits(q) /\ journal' = journal
    BY <1>18 DEF StreamConnects
<1>19. ASSUME NEW p \in Procs, StreamDrops(p)
      PROVE  GateAdmits(q) /\ journal' = journal
    BY <1>19 DEF StreamDrops
<1>20. ASSUME NEW p \in Procs, ApplyUserStreamMessage(p)
      PROVE  GateAdmits(q) /\ journal' = journal
    BY <1>20 DEF ApplyUserStreamMessage, RecordOrderResult
<1>21. ASSUME NEW p \in Procs, NEW o \in Orders, AskStatus(p, o)
      PROVE  GateAdmits(q) /\ journal' = journal
    BY <1>21 DEF AskStatus
<1>22. ASSUME NEW p \in Procs, NEW o \in Orders, AskCancel(p, o)
      PROVE  GateAdmits(q) /\ journal' = journal
    BY <1>22 DEF AskCancel, Emit
<1>23. ASSUME NEW p \in Procs, ApplyExchangeOrderSnapshot(p)
      PROVE  GateAdmits(q) /\ journal' = journal
    BY <1>23 DEF ApplyExchangeOrderSnapshot, RecordOrderResult
<1>24. ASSUME NEW p \in Procs, LookFails(p)
      PROVE  GateAdmits(q) /\ journal' = journal
    BY <1>24 DEF LookFails
<1>25. ASSUME NEW p \in Procs, GetOpenOrders(p)
      PROVE  GateAdmits(q) /\ journal' = journal
    BY <1>25 DEF GetOpenOrders
<1>26. ASSUME NEW p \in Procs, ApplyOpenOrders(p)
      PROVE  GateAdmits(q) /\ journal' = journal
    BY <1>26 DEF ApplyOpenOrders, NothingListed
<1>27. ASSUME NEW p \in Procs, NEW o \in Orders, GetOrder(p, o)
      PROVE  GateAdmits(q) /\ journal' = journal
    BY <1>27 DEF GetOrder
<1>28. ASSUME NEW p \in Procs, ApplyOrder(p)
      PROVE  GateAdmits(q) /\ journal' = journal
    BY <1>28 DEF ApplyOrder, RecordOrderResult
<1>29. ASSUME NEW p \in Procs, ReconcileFails(p)
      PROVE  GateAdmits(q) /\ journal' = journal
    BY <1>29 DEF ReconcileFails, EndPass, NothingListed
<1>30. ASSUME NEW p \in Procs, Crash(p)
      PROVE  GateAdmits(q) /\ journal' = journal
    BY <1>30 DEF Crash, EndPass, NothingListed
<1>31. CASE UNCHANGED vars
    BY <1>31 DEF vars
<1> QED
    BY <1>1, <1>2, <1>3, <1>4, <1>5, <1>6, <1>7, <1>8, <1>9, <1>10, <1>11, <1>12, <1>13, <1>14, <1>15, <1>16, <1>17, <1>18, <1>19, <1>20, <1>21, <1>22, <1>23, <1>24, <1>25, <1>26, <1>27, <1>28, <1>29, <1>30, <1>31 DEF Next, Submission, Exchange, Stream, Query, Reconcile

LEMMA GateStep ==
    ASSUME NEW r \in Procs, Procs = {r}
    PROVE  TypeOK /\ LoopInv /\ GateInv /\ [Next]_vars => GateInv'
<1> SUFFICES ASSUME TypeOK, LoopInv, GateInv, [Next]_vars,
                    NEW q \in Orders \ RiskReducing, call'[q] = "admitted"
             PROVE  Cardinality(OpenRows') < MaxOpen
    BY DEF GateInv
<1>1. Cardinality(OpenRows) < MaxOpen /\ journal' = journal
    <2>1. CASE call[q] = "admitted"
        BY <2>1, QuietWhileAdmitted DEF GateInv
    <2>2. CASE call[q] # "admitted"
        BY <2>2, AdmittedByGate DEF GateAdmits
    <2> QED
        BY <2>1, <2>2
<1>2. OpenRows' = OpenRows
    BY <1>1 DEF OpenRows
<1> QED
    BY <1>1, <1>2

\* In a single process no order takes a slot over the configured maximum.
THEOREM SlotFree ==
    ASSUME NEW r \in Procs, Procs = {r}
    PROVE  Spec => SlotFreeWhenTaken
<1> DEFINE A == \A o \in Orders \ RiskReducing :
                   call[o] = "admitted" /\ call'[o] = "recorded"
                      => Cardinality(OpenRows) < MaxOpen
<1>1. Init => LoopInv /\ GateInv
    BY DEF Init, LoopInv, GateInv, Running
<1>2. TypeOK /\ LoopInv /\ [Next]_vars => LoopInv'
    BY LoopStep
<1>3. TypeOK /\ LoopInv /\ GateInv /\ [Next]_vars => GateInv'
    BY GateStep
<1>4. GateInv => [A]_vars
    BY DEF GateInv
<1>5. Spec => [][A]_vars
    BY TypeCorrect, <1>1, <1>2, <1>3, <1>4, PTL DEF Spec
<1> QED
    BY <1>5 DEF SlotFreeWhenTaken

-----------------------------------------------------------------------------
(* Refinement: OrderLifecycle implements OrderJournal                       *)

LEMMA SameHistory == \A e : Journal!Had(e) = History(e)
BY DEF Journal!Had, History, Journal!Live

\* Writing one row is learning.
LEMMA ResultLearns ==
    ASSUME TypeOK, exch' = exch, NEW o \in Orders,
           NEW s \in LocalOutcome \cup History(exch[o]), RecordOrderResult(o, s)
    PROVE  Journal!Next
<1>1. s \in Journal!Status /\ s \in Journal!LocalOutcome \cup Journal!Had(exch[o])
    BY SameHistory DEF TypeOK, History, Journal!Status, Journal!LocalOutcome, Journal!Live
<1>2. journal \in [Orders -> Journal!Status]
    BY DEF TypeOK, Journal!Status, Journal!LocalOutcome, Journal!Live
<1>3. journal' \in [Orders -> Journal!Status]
    BY <1>1, <1>2 DEF RecordOrderResult
<1>4. \A q \in Orders :
         \/ journal'[q] = journal[q]
         \/ journal[q] # "ABSENT" /\ journal'[q] \in Journal!LocalOutcome \cup Journal!Had(exch[q])
    BY <1>1, <1>2 DEF RecordOrderResult
<1>5. Journal!Learn
    BY <1>3, <1>4 DEF Journal!Learn
<1> QED
    BY <1>5 DEF Journal!Next

\* Every step of the detailed system is a step of the abstract journal.
LEMMA StepImplements ==
    JournalInv /\ [Next]_vars => [Journal!Next]_<<journal, exch>>
<1> SUFFICES ASSUME JournalInv, [Next]_vars PROVE [Journal!Next]_<<journal, exch>>
    OBVIOUS
<1>a. TypeOK /\ WireInv /\ RowInv /\ HistoryInv
    BY DEF JournalInv
<1> USE <1>a DEF TypeOK, WireInv, RowInv, HistoryInv, ReplyHistory, FeedHistory, ListedHistory,
                AnswerHistory, LookHistory, callVars, wireVars, feedVars, reconVars
<1>1. ASSUME NEW o \in Orders, NEW p \in Procs, NEW m \in Modes, Evaluate(p, o, m)
      PROVE  [Journal!Next]_<<journal, exch>>
    BY <1>1 DEF Evaluate
<1>2. ASSUME NEW o \in Orders, RecordOrderRequest(o)
      PROVE  [Journal!Next]_<<journal, exch>>
    <2>1. CASE journal[o] = "ABSENT"
        BY <1>2, <2>1 DEF RecordOrderRequest, Journal!Next, Journal!Open
    <2>2. CASE journal[o] # "ABSENT"
        BY <1>2, <2>2 DEF RecordOrderRequest
    <2> QED
        BY <2>1, <2>2
<1>3. ASSUME NEW o \in Orders, RecordRejection(o)
      PROVE  [Journal!Next]_<<journal, exch>>
    BY <1>3, ResultLearns DEF RecordRejection
<1>4. ASSUME NEW o \in Orders, DryRun(o)
      PROVE  [Journal!Next]_<<journal, exch>>
    BY <1>4, ResultLearns DEF DryRun
<1>5. ASSUME NEW o \in Orders, NoCredentials(o)
      PROVE  [Journal!Next]_<<journal, exch>>
    BY <1>5 DEF NoCredentials
<1>6. ASSUME NEW o \in Orders, SendTestOrder(o)
      PROVE  [Journal!Next]_<<journal, exch>>
    BY <1>6 DEF SendTestOrder
<1>7. ASSUME NEW o \in Orders, TestOrderReturns(o)
      PROVE  [Journal!Next]_<<journal, exch>>
    <2>1. CASE UNCHANGED journal
        BY <1>7, <2>1 DEF TestOrderReturns
    <2>2. CASE RecordOrderResult(o, "TEST_ACCEPTED")
        BY <1>7, <2>2, ResultLearns DEF TestOrderReturns
    <2> QED
        BY <1>7, <2>1, <2>2 DEF TestOrderReturns
<1>8. ASSUME NEW o \in Orders, PlaceOrder(o)
      PROVE  [Journal!Next]_<<journal, exch>>
    BY <1>8 DEF PlaceOrder
<1>9. ASSUME NEW o \in Orders, ReceiveReply(o)
      PROVE  [Journal!Next]_<<journal, exch>>
    <2>1. OutcomeOf(reply[o]) \in LocalOutcome \cup History(exch[o])
        BY <1>9 DEF ReceiveReply, OutcomeOf
    <2> QED
        BY <1>9, <2>1, ResultLearns DEF ReceiveReply
<1>10. ASSUME NEW o \in Orders, TransportFails(o)
      PROVE  [Journal!Next]_<<journal, exch>>
    BY <1>10, ResultLearns DEF TransportFails
<1>11. ASSUME NEW o \in Orders, CallCancelled(o)
      PROVE  [Journal!Next]_<<journal, exch>>
    BY <1>11 DEF CallCancelled
<1>12. ASSUME NEW o \in Orders, Accept(o)
      PROVE  [Journal!Next]_<<journal, exch>>
    <2>1. "NEW" \in Journal!After(exch[o]) /\ exch' = [exch EXCEPT ![o] = "NEW"]
        BY <1>12 DEF Accept, Journal!After
    <2>2. journal[o] # "ABSENT"
        BY <1>12 DEF Accept
    <2> QED
        BY <1>12, <2>1, <2>2 DEF Accept, Journal!Next, Journal!Happen
<1>13. ASSUME NEW o \in Orders, Refuse(o)
      PROVE  [Journal!Next]_<<journal, exch>>
    BY <1>13 DEF Refuse
<1>14. ASSUME NEW o \in Orders, LoseRequest(o)
      PROVE  [Journal!Next]_<<journal, exch>>
    BY <1>14 DEF LoseRequest
<1>15. ASSUME NEW o \in Orders, Respond(o)
      PROVE  [Journal!Next]_<<journal, exch>>
    BY <1>15 DEF Respond
<1>16. ASSUME NEW o \in Orders, RespondUnknown(o)
      PROVE  [Journal!Next]_<<journal, exch>>
    BY <1>16 DEF RespondUnknown
<1>17. ASSUME NEW o \in Orders, Trade(o)
      PROVE  [Journal!Next]_<<journal, exch>>
    <2>1. PICK s \in Journal!After(exch[o]) : exch' = [exch EXCEPT ![o] = s]
        BY <1>17 DEF Trade, Journal!After
    <2>2. journal[o] # "ABSENT"
        BY <1>17 DEF Trade
    <2> QED
        BY <1>17, <2>1, <2>2 DEF Trade, Journal!Next, Journal!Happen
<1>18. ASSUME NEW p \in Procs, StreamConnects(p)
      PROVE  [Journal!Next]_<<journal, exch>>
    BY <1>18 DEF StreamConnects
<1>19. ASSUME NEW p \in Procs, StreamDrops(p)
      PROVE  [Journal!Next]_<<journal, exch>>
    BY <1>19 DEF StreamDrops
<1>20. ASSUME NEW p \in Procs, ApplyUserStreamMessage(p)
      PROVE  [Journal!Next]_<<journal, exch>>
    <2>1. feed[p] \in Seq(Message) /\ feed[p] # <<>>
        BY <1>20 DEF ApplyUserStreamMessage
    <2>2. /\ Head(feed[p]) \in Message
          /\ Head(feed[p]).status \in History(exch[Head(feed[p]).id])
        BY <2>1
    <2>3. Head(feed[p]).id \in Orders
        BY <2>2 DEF Message
    <2> QED
        BY <1>20, <2>2, <2>3, ResultLearns DEF ApplyUserStreamMessage
<1>21. ASSUME NEW p \in Procs, NEW o \in Orders, AskStatus(p, o)
      PROVE  [Journal!Next]_<<journal, exch>>
    BY <1>21 DEF AskStatus
<1>22. ASSUME NEW p \in Procs, NEW o \in Orders, AskCancel(p, o)
      PROVE  [Journal!Next]_<<journal, exch>>
    <2>1. "CANCELED" \in Journal!After(exch[o]) /\ exch' = [exch EXCEPT ![o] = "CANCELED"]
        BY <1>22 DEF AskCancel, Journal!After
    <2>2. journal[o] # "ABSENT"
        BY <1>22 DEF AskCancel
    <2> QED
        BY <1>22, <2>1, <2>2 DEF AskCancel, Journal!Next, Journal!Happen
<1>23. ASSUME NEW p \in Procs, ApplyExchangeOrderSnapshot(p)
      PROVE  [Journal!Next]_<<journal, exch>>
    <2>1. PICK a \in look[p] : RecordOrderResult(a.id, a.status)
        BY <1>23 DEF ApplyExchangeOrderSnapshot
    <2>2. a \in Message /\ a.status \in History(exch[a.id])
        BY <1>23, <2>1
    <2>3. a.id \in Orders
        BY <2>2 DEF Message
    <2> QED
        BY <1>23, <2>1, <2>2, <2>3, ResultLearns DEF ApplyExchangeOrderSnapshot
<1>24. ASSUME NEW p \in Procs, LookFails(p)
      PROVE  [Journal!Next]_<<journal, exch>>
    BY <1>24 DEF LookFails
<1>25. ASSUME NEW p \in Procs, GetOpenOrders(p)
      PROVE  [Journal!Next]_<<journal, exch>>
    BY <1>25 DEF GetOpenOrders
<1>26. ASSUME NEW p \in Procs, ApplyOpenOrders(p)
      PROVE  [Journal!Next]_<<journal, exch>>
    <2>1. journal' = [q \in Orders |-> IF listed[p][q] # "none" /\ journal[q] # "ABSENT"
                                        THEN listed[p][q] ELSE journal[q]]
        BY <1>26 DEF ApplyOpenOrders
    <2>2. \A q \in Orders : listed[p][q] # "none" => listed[p][q] \in History(exch[q])
        BY <1>26
    <2>3. journal' \in [Orders -> Journal!Status]
        BY <2>1 DEF Journal!Status, Journal!LocalOutcome, Journal!Live
    <2>4. \A q \in Orders : \/ journal'[q] = journal[q]
                            \/ journal[q] # "ABSENT" /\ journal'[q] \in Journal!Had(exch[q])
        BY <2>1, <2>2, SameHistory
    <2>5. Journal!Learn
        BY <1>26, <2>3, <2>4 DEF ApplyOpenOrders, Journal!Learn
    <2> QED
        BY <2>5 DEF Journal!Next
<1>27. ASSUME NEW p \in Procs, NEW o \in Orders, GetOrder(p, o)
      PROVE  [Journal!Next]_<<journal, exch>>
    BY <1>27 DEF GetOrder
<1>28. ASSUME NEW p \in Procs, ApplyOrder(p)
      PROVE  [Journal!Next]_<<journal, exch>>
    <2>1. PICK a \in answer[p] :
              RecordOrderResult(a.id, IF a.status = "none" THEN "RECONCILED_MISSING" ELSE a.status)
        BY <1>28 DEF ApplyOrder
    <2>2. a \in [id : Orders, status : {"none"} \cup ExchStatus]
        BY <1>28, <2>1
    <2>3. a.id \in Orders /\ (a.status # "none" => a.status \in History(exch[a.id]))
        BY <2>1, <2>2
    <2> QED
        BY <1>28, <2>1, <2>3, ResultLearns DEF ApplyOrder
<1>29. ASSUME NEW p \in Procs, ReconcileFails(p)
      PROVE  [Journal!Next]_<<journal, exch>>
    BY <1>29 DEF ReconcileFails, EndPass, NothingListed
<1>30. ASSUME NEW p \in Procs, Crash(p)
      PROVE  [Journal!Next]_<<journal, exch>>
    BY <1>30 DEF Crash, EndPass, NothingListed
<1>31. CASE UNCHANGED vars
    BY <1>31 DEF vars
<1> QED
    BY <1>1, <1>2, <1>3, <1>4, <1>5, <1>6, <1>7, <1>8, <1>9, <1>10, <1>11, <1>12, <1>13, <1>14, <1>15, <1>16, <1>17, <1>18, <1>19, <1>20, <1>21, <1>22, <1>23, <1>24, <1>25, <1>26, <1>27, <1>28, <1>29, <1>30, <1>31 DEF Next, Submission, Exchange, Stream, Query, Reconcile

\* OrderLifecycle implements OrderJournal.
THEOREM Refinement == Spec => ImplementsJournal
<1>1. Init => Journal!Init
    BY DEF Init, Journal!Init
<1>2. JournalInv /\ [Next]_vars => [Journal!Next]_<<journal, exch>>
    BY StepImplements
<1> QED
    BY <1>1, <1>2, JournalInvariant, PTL DEF Spec, ImplementsJournal, Journal!Spec
================================================================================
