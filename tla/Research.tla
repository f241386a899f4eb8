--------------------------------- MODULE Research ---------------------------------
(***************************************************************************)
(* A backtest (research.py): fetch_recent_candles pages backwards through  *)
(* the history of an exchange that goes on producing candles, and          *)
(* run_backtest_with_options replays what it got bar by bar, filling at    *)
(* the next open what the strategy asked for at a close.                   *)
(* Money is counted exactly: the code's floats are whole numbers here, and *)
(* Capital has enough factors for every division of a bounded run.         *)
(* Prices and signals are inputs, drawn bar by bar.                        *)
(***************************************************************************)
EXTENDS Integers, Sequences, FiniteSets

CONSTANTS
    Markets, TradeSides,    \* MarketType and trade_side of the runs
    Capital, Leverage,      \* initial_capital, leverage (position_fraction is 1)
    FeeDen, SlipDen,        \* fee_rate = 1 / FeeDen, slippage_rate = 1 / SlipDen
    Prices,
    Required,               \* required_bars() of the strategy
    Bars, PageLimit,        \* arguments of fetch_recent_candles
    MaxTip                  \* bound: candles the exchange ever has

ASSUME KindAssumption ==
    /\ Markets \subseteq {"SPOT", "FUTURES"} /\ TradeSides \subseteq {"long", "short", "both"}
\* With a slippage of the whole price a short would be filled at 0: units divides by it.
ASSUME MoneyAssumption ==
    /\ Capital \in Nat \ {0} /\ Leverage \in Nat \ {0}
    /\ FeeDen \in Nat \ {0} /\ SlipDen \in Nat \ {0, 1} /\ Prices \subseteq Nat \ {0}
ASSUME PagingAssumption ==
    Required \in Nat \ {0} /\ Bars \in Nat \ {0} /\ PageLimit \in Nat \ {0} /\ MaxTip \in Nat

NoTarget == 2   \* pending_target is None
Flat == [side |-> 0, units |-> 0, price |-> 0, fees |-> 0]

VARIABLES
    market, side,   \* config.market_type, strategy.trade_side
    phase,
    tip,            \* open_time of the newest candle of the exchange
    asked,          \* history: tip at the first request
    remaining, end, \* end is MaxTip for None
    candles,        \* open_times: the chunks, then the result
    index,          \* bars replayed
    bar,            \* open and close of the last one
    cash, position, target,
    pnl,            \* sum of trade.pnl
    equity          \* the last of equity_curve

vars == <<market, side, phase, tip, asked, remaining, end, candles, index, bar,
          cash, position, target, pnl, equity>>
fetchVars  == <<tip, asked, remaining, end>>
configVars == <<market, side>>

TypeOK ==
    /\ market \in Markets /\ side \in TradeSides
    /\ phase \in {"fetch", "replay", "final", "done", "short"}
    /\ tip \in 0..MaxTip /\ asked \in 0..MaxTip
    /\ remaining \in 0..Bars /\ end \in 0..MaxTip
    /\ candles \in Seq(1..MaxTip)
    /\ index \in 0..Len(candles)
    /\ bar \in [open : Prices \cup {0}, close : Prices \cup {0}]
    /\ cash \in Int /\ pnl \in Int /\ equity \in Int
    /\ position \in [side : -1..1, units : Int, price : Nat, fees : Nat]
    /\ target \in {-1, 0, 1, NoTarget}

Init ==
    /\ market \in Markets /\ side \in TradeSides
    /\ phase = "fetch" /\ tip \in 0..MaxTip /\ asked = tip
    /\ remaining = Bars /\ end = MaxTip /\ candles = <<>>
    /\ index = 0 /\ bar = [open |-> 0, close |-> 0]
    /\ cash = Capital /\ position = Flat /\ target = NoTarget
    /\ pnl = 0 /\ equity = Capital

-----------------------------------------------------------------------------
(* fetch_recent_candles                                                     *)

Lesser(a, b) == IF a <= b THEN a ELSE b

\* get_klines: the last limit candles that opened up to the end time.
GetKlines(limit, until) ==
    LET newest == Lesser(until, tip)
        count  == Lesser(limit, newest)
    IN  [i \in 1..count |-> newest - count + i]

\* The first of equal open_times stays.
Dedupe(times) ==
    LET firsts  == {i \in DOMAIN times : \A j \in 1..(i - 1) : times[j] # times[i]}
        Nth(k)  == CHOOSE i \in firsts : Cardinality({j \in firsts : j <= i}) = k
    IN  [k \in 1..Cardinality(firsts) |-> times[Nth(k)]]

LastOf(times, n) == SubSeq(times, Len(times) - Lesser(n, Len(times)) + 1, Len(times))

FetchDone(times) ==
    /\ candles' = LastOf(Dedupe(times), Bars)
    /\ phase' = IF Len(candles') < Required + 1 THEN "short" ELSE "replay"

\* An empty or short page, or enough candles, ends the loop.
FetchPage_Overlap ==    \* mutated: the page ends with the candle the last one began with
    /\ phase = "fetch"
    /\ LET page == GetKlines(Lesser(PageLimit, remaining), end)
           left == remaining - Len(page)
       IN  /\ remaining' = left
           /\ end' = IF page = <<>> THEN end ELSE page[1]
           /\ IF page = <<>> \/ left = 0 \/ Len(page) < Lesser(PageLimit, remaining)
                THEN FetchDone(page \o candles)
                ELSE candles' = page \o candles /\ phase' = phase
    /\ UNCHANGED <<configVars, tip, asked, index, bar, cash, position, target, pnl, equity>>
FetchPage ==
    /\ phase = "fetch"
    /\ LET page == GetKlines(Lesser(PageLimit, remaining), end)
           left == remaining - Len(page)
       IN  /\ remaining' = left
           /\ end' = IF page = <<>> THEN end ELSE page[1] - 1
           /\ IF page = <<>> \/ left = 0 \/ Len(page) < Lesser(PageLimit, remaining)
                THEN FetchDone(page \o candles)
                ELSE candles' = page \o candles /\ phase' = phase
    /\ UNCHANGED <<configVars, tip, asked, index, bar, cash, position, target, pnl, equity>>

\* Time goes on between two pages.
CandleOpens ==
    /\ phase = "fetch" /\ tip < MaxTip /\ candles # <<>>
    /\ tip' = tip + 1
    /\ UNCHANGED <<configVars, phase, asked, remaining, end, candles, index, bar,
                   cash, position, target, pnl, equity>>

-----------------------------------------------------------------------------
(* The book: cash and position together                                     *)

Book == [cash |-> cash, position |-> position, pnl |-> pnl]
Abs(n) == IF n < 0 THEN -n ELSE n
Fee(amount) == amount \div FeeDen

\* current_equity
Worth(book, price) ==
    IF market = "SPOT" THEN book.cash + book.position.units * price
    ELSE book.cash + book.position.units * (price - book.position.price)

ClosePosition_FeeOnce(book, price) ==   \* mutated: the fee of the entry is forgotten
    LET held == book.position
        gross == Abs(held.units) * price
        gain  == held.units * (price - held.price)
    IN  [cash |-> book.cash + (IF market = "SPOT" THEN gross ELSE gain) - Fee(gross),
         position |-> Flat, pnl |-> book.pnl + gain - Fee(gross)]
ClosePosition(book, price) ==
    LET held == book.position
        gross == Abs(held.units) * price
        gain  == held.units * (price - held.price)
    IN  [cash |-> book.cash + (IF market = "SPOT" THEN gross ELSE gain) - Fee(gross),
         position |-> Flat, pnl |-> book.pnl + gain - held.fees - Fee(gross)]

OpenPosition(book, to, price) ==
    LET notional == IF market = "SPOT" THEN book.cash ELSE Worth(book, price) * Leverage
        fee   == Fee(notional)
        spent == IF market = "SPOT" THEN notional - fee ELSE notional
    IN  IF notional <= 0 THEN book
        ELSE [cash |-> book.cash - (IF market = "SPOT" THEN notional ELSE fee),
              position |-> [side |-> to, units |-> to * (spent \div price),
                            price |-> price, fees |-> fee],
              pnl |-> book.pnl]

\* The price of a fill: the open, with slippage only towards a new position.
ExecutionPrice_Better(to, open) ==  \* mutated: slippage is a gain
    open - (IF to = NoTarget THEN 0 ELSE to * (open \div SlipDen))
ExecutionPrice(to, open) == open + to * (open \div SlipDen)

\* The book after the fill of the pending target at the open of a bar.
Filled(open) ==
    IF target = NoTarget THEN Book
    ELSE LET price  == ExecutionPrice(target, open)
             closed == IF position.side \notin {0, target} THEN ClosePosition(Book, price) ELSE Book
         IN  IF target # 0 /\ closed.position.side # target
               THEN OpenPosition(closed, target, price)
               ELSE closed

\* _spot_target and _futures_target
SpotTarget_Short(signal, current) ==    \* mutated: a sell signal sells what is not there
    IF signal = 1 /\ side \in {"long", "both"} /\ current = 0 THEN 1
    ELSE IF signal = -1 THEN -1 ELSE NoTarget
SpotTarget(signal, current) ==
    IF signal = 1 /\ side \in {"long", "both"} /\ current = 0 THEN 1
    ELSE IF signal = -1 /\ current > 0 THEN 0 ELSE NoTarget

FuturesTarget(signal, current) ==
    IF signal = 1 /\ side \in {"long", "both"} THEN 1
    ELSE IF signal = -1 /\ side \in {"short", "both"} THEN -1
    ELSE IF signal = -1 /\ current > 0 THEN 0 ELSE NoTarget

Target(signal, current) ==
    LET wanted == IF market = "SPOT" THEN SpotTarget(signal, current)
                                     ELSE FuturesTarget(signal, current)
    IN  IF wanted = current THEN NoTarget ELSE wanted

-----------------------------------------------------------------------------
(* run_backtest_with_options                                                *)

\* A bar: the fill at its open, the mark at its close, then the strategy.
ReplayBar ==
    /\ phase = "replay"
    /\ index' = index + 1
    /\ \E open, close \in Prices, signal \in {-1, 0, 1} :
         LET book == Filled(open) IN
           /\ bar' = [open |-> open, close |-> close]
           /\ cash' = book.cash /\ position' = book.position /\ pnl' = book.pnl
           /\ equity' = Worth(book, close)
           /\ IF equity' <= 0
                THEN phase' = "final" /\ target' = NoTarget
                ELSE /\ phase' = IF index' = Len(candles) THEN "final" ELSE phase
                     /\ target' = IF index' = Len(candles) \/ index' < Required \/ signal = 0
                                    THEN NoTarget ELSE Target(signal, book.position.side)
    /\ UNCHANGED <<configVars, fetchVars, candles>>

\* What is still open is closed at the last candle of all, also when the equity was
\* gone bars before it.
FinalMark ==
    /\ phase = "final"
    /\ \E last \in IF index = Len(candles) THEN {bar.close} ELSE Prices :
         IF position = Flat THEN UNCHANGED <<bar, cash, position, pnl, equity>>
         ELSE LET book == ClosePosition(Book, last) IN
                /\ bar' = [bar EXCEPT !.close = last]
                /\ cash' = book.cash /\ position' = book.position /\ pnl' = book.pnl
                /\ equity' = book.cash
    /\ phase' = "done"
    /\ UNCHANGED <<configVars, fetchVars, candles, index, target>>

Next == FetchPage \/ CandleOpens \/ ReplayBar \/ FinalMark

Spec == Init /\ [][Next]_vars

-----------------------------------------------------------------------------
(* Properties                                                               *)

\* The pages make up the last Bars candles there were at the first request, without
\* a gap and without one twice, wherever page and history end.
FetchedIsRecent ==
    phase # "fetch" =>
        LET count == Lesser(Bars, asked)
        IN  candles = [i \in 1..count |-> asked - count + i]

\* The trades account for the money: while nothing is held, cash is the capital and
\* the profit and loss of all trades; at the end nothing is held and the equity is cash.
LedgerBalances ==
    /\ position = Flat => cash = Capital + pnl
    /\ phase = "done" => position = Flat /\ equity = cash

\* A fill never makes money: marked at the open of its bar, the book is worth at most
\* what it was worth before, whatever is closed, opened or turned around.
TradingCosts ==
    [][index' = index + 1 =>
         Worth([cash |-> cash', position |-> position', pnl |-> pnl'], bar'.open)
           <= Worth(Book, bar'.open)]_vars

\* "Spot is treated as long-only cash inventory": nothing is sold short or bought on credit.
SpotIsLongOnly == market = "SPOT" => position.units >= 0 /\ cash >= 0

-----------------------------------------------------------------------------
(* What every state satisfies (the inductive invariants of ResearchProofs)  *)

\* The n candles before the one the paging reached are held, oldest first.
Newest(n) == [i \in 1..n |-> asked - n + i]

\* While paging, the candles are the newest there were, and the next page ends before them.
FetchInv ==
    IF phase = "fetch"
    THEN /\ candles = Newest(Len(candles)) /\ Len(candles) <= asked /\ asked <= tip
         /\ Len(candles) < Bars /\ remaining = Bars - Len(candles) /\ index = 0
         /\ IF candles = <<>> THEN tip = asked /\ end = MaxTip
                              ELSE end = asked - Len(candles)
    ELSE /\ candles = Newest(Lesser(Bars, asked))
         /\ phase = "replay" => index < Len(candles)

\* What is held has the sign of its side and a price, spot only ever buys what its cash
\* pays for, and without a position the equity is the cash.
BookInv ==
    /\ position.side = 0 => position = Flat
    /\ position.side = 1 => position.units >= 0 /\ position.price > 0
    /\ position.side = -1 => position.units <= 0 /\ position.price > 0
    /\ market = "SPOT" => position.side # -1 /\ target # -1 /\ cash >= 0
    /\ position = Flat => equity = cash
    /\ phase = "fetch" => position = Flat /\ target = NoTarget
    /\ phase = "short" => position = Flat
    /\ phase = "done" => position = Flat
    /\ phase = "final" => bar.close \in Prices

\* The account: cash and the fee of an open entry, for spot with what the entry paid,
\* against the capital and the result of the trades.
Account == cash + position.fees + (IF market = "SPOT" THEN position.units * position.price ELSE 0)
AccountInv ==
    /\ Account <= Capital + pnl
    /\ market # "SPOT" => Account = Capital + pnl

\* The quantity of a spot entry is what the float of the code is: units times price is the
\* cash spent, to the last unit of money (here the division may round down).
WholeQuantities ==
    [][market = "SPOT" /\ position = Flat /\ position' # Flat =>
         position'.units * position'.price + position'.fees = cash]_vars
===================================================================================
