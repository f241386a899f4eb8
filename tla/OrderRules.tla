--------------------------------- MODULE OrderRules ---------------------------------
(***************************************************************************)
(* What an order goes through before it takes a slot: _prepare_order       *)
(* (service.py) puts it on the grid of the symbol, OrderRequest.validate   *)
(* (types.py) and SymbolRules.validate (filters.py) check it, and          *)
(* RiskGate.evaluate (risk.py) adds the limits of the profile.             *)
(* Decimals are whole numbers, counted in the smallest unit of a symbol.   *)
(* An optional value is a set: {} for None, {v} for v.  A minimum or       *)
(* maximum of 0 is none, as the exchange has it.                           *)
(***************************************************************************)
EXTENDS Integers

Optional(S) == {{}} \cup {{v} : v \in S}

OrderTypes == {"MARKET", "LIMIT", "STOP"}   \* STOP stands for the five conditional types
Tifs       == {"GTC", "IOC", "FOK", "GTX", "GTD"}

\* A PriceFilter or QuantityFilter.
Filters == [min : Nat, max : Nat, step : Nat]

SymbolRules ==
    [trading : BOOLEAN, types : SUBSET OrderTypes, tifs : SUBSET Tifs, quoteAllowed : BOOLEAN,
     price : Optional(Filters), lot : Optional(Filters), marketLot : Optional(Filters),
     minNotional : Optional([min : Nat, market : BOOLEAN]),
     notional : Optional([min : Nat, max : Nat, minMarket : BOOLEAN, maxMarket : BOOLEAN])]

OrderRequests ==
    [market : {"SPOT", "FUTURES"}, side : {"BUY", "SELL"}, type : OrderTypes,
     quantity : Optional(Int), quote : Optional(Int), price : Optional(Int),
     tif : Optional(Tifs), positionSide : Optional({"BOTH", "LONG", "SHORT"}),
     reduceOnly : Optional(BOOLEAN), closePosition : Optional(BOOLEAN),
     priceMatch : BOOLEAN, goodTill : Optional(Int)]

RiskProfiles == [allowed : BOOLEAN, maxNotional : Nat, maxOpen : Nat, cooldown : Nat]

-----------------------------------------------------------------------------
(* The grid                                                                 *)

\* Division that rounds towards zero, then times the step.
Snap(value, step) ==
    IF step = 0 THEN value
    ELSE IF value >= 0 THEN (value \div step) * step ELSE -(((-value) \div step) * step)

IsMultiple(value, step) == step = 0 \/ Snap(value, step) = value

\* A MARKET order goes by MARKET_LOT_SIZE alone, where there is one.
LotFilter(rules, type) ==
    IF type = "MARKET" /\ rules.marketLot # {} THEN rules.marketLot ELSE rules.lot

Adjust(values, filters) ==
    IF filters = {} THEN values ELSE {Snap(v, f.step) : v \in values, f \in filters}

Prepare(order, rules) ==
    [order EXCEPT !.quantity = Adjust(order.quantity, LotFilter(rules, order.type)),
                  !.price    = Adjust(order.price, rules.price)]

-----------------------------------------------------------------------------
(* OrderRequest.validate                                                    *)

ValidSpot(order) ==
    /\ \/ /\ order.type = "MARKET"
          /\ order.price = {} /\ order.tif = {}
          /\ order.quantity # {} \/ order.quote # {}
          /\ order.side = "SELL" => order.quote = {}
       \/ /\ order.type = "LIMIT"
          /\ order.price # {} /\ order.quantity # {} /\ order.tif # {} /\ order.quote = {}
    /\ order.positionSide = {} /\ order.reduceOnly = {} /\ order.closePosition = {}
    /\ ~order.priceMatch /\ order.goodTill = {}

ValidFutures(order) ==
    /\ order.quote = {} /\ order.quantity # {}
    /\ \/ order.type = "MARKET" /\ order.price = {}
       \/ order.type = "LIMIT" /\ order.price # {} /\ order.tif # {}
    /\ TRUE \in order.reduceOnly => order.positionSide \subseteq {"BOTH"}
    /\ order.goodTill # {} => order.tif = {"GTD"}

Valid(order) ==
    /\ IF order.market = "SPOT" THEN ValidSpot(order) ELSE ValidFutures(order)
    /\ \A v \in order.quantity \cup order.quote \cup order.price \cup order.goodTill : v > 0

-----------------------------------------------------------------------------
(* SymbolRules.validate                                                     *)

\* A minimum of 0 is no minimum for a price; a quantity below 0 is below any.
PassesPrice(f, value) ==
    /\ f.min > 0 => value >= f.min
    /\ f.max > 0 => value <= f.max
    /\ IsMultiple(value, f.step)

PassesQuantity(f, value) ==
    /\ value >= f.min
    /\ f.max > 0 => value <= f.max
    /\ IsMultiple(value, f.step)

\* estimate_notional: the quote amount, whatever quantity comes with it.
EstimateNotional(order, reference) ==
    IF order.quote # {} THEN order.quote
    ELSE IF order.price # {} THEN {p * q : p \in order.price, q \in order.quantity}
    ELSE {q * r : q \in order.quantity, r \in reference}

NotionalFits(order, rules, n) ==
    /\ \A f \in rules.minNotional : (order.type # "MARKET" \/ f.market) => n >= f.min
    /\ \A f \in rules.notional :
         /\ (order.type # "MARKET" \/ f.minMarket) => n >= f.min
         /\ f.max > 0 /\ (order.type # "MARKET" \/ f.maxMarket) => n <= f.max

FitsSymbol(order, rules, reference) ==
    /\ rules.trading /\ order.type \in rules.types
    /\ rules.tifs # {} => order.tif \subseteq rules.tifs
    /\ order.quote # {} /\ order.type = "MARKET" => rules.quoteAllowed
    /\ \A v \in order.price, f \in rules.price : PassesPrice(f, v)
    /\ \A v \in order.quantity, f \in LotFilter(rules, order.type) : PassesQuantity(f, v)
    /\ \A n \in EstimateNotional(order, reference) : NotionalFits(order, rules, n)

-----------------------------------------------------------------------------
(* RiskGate.evaluate                                                        *)

IsRiskReducing(order) == TRUE \in order.reduceOnly \cup order.closePosition

\* open counts the rows that hold a slot, elapsed the seconds since the last update of an
\* order ({} if there is none).
Allowed(order, rules, profile, reference, open, elapsed) ==
    /\ FitsSymbol(order, rules, reference)
    /\ profile.allowed
    /\ ~IsRiskReducing(order) =>
         /\ profile.maxNotional > 0 =>
              \A n \in EstimateNotional(order, reference) : n <= profile.maxNotional
         /\ open < profile.maxOpen
         /\ profile.cooldown > 0 => \A s \in elapsed : s >= profile.cooldown
=====================================================================================
