---------------------------------- MODULE KlineFeed ----------------------------------
(***************************************************************************)
(* A built-in strategy (BaseKlineSignalStrategy) between the exchange's    *)
(* candles and its one order: on_start fills the window from REST, the     *)
(* market stream brings the candles that close after that.  REST answers   *)
(* with the candle still open as its last one, and a candle that closes    *)
(* while the stream is being connected again is never brought.             *)
(* A candle is its position in history and its bar; what a strategy says   *)
(* of a window is an input here (module Signals says what it is).          *)
(***************************************************************************)
EXTENDS Integers, Sequences

CONSTANTS
    Shapes,         \* the bars a candle can be
    Histories,      \* the closed candles the exchange may have at the start
    WindowSize,     \* maxlen of _candles, limit of the REST request
    RequiredBars,   \* required_bars()
    MaxBars,        \* bound: candles that close
    Market, TradeSide,
    Sizes           \* the sizes that are set: "quote" for quote_order_qty, "base" for quantity

ASSUME FeedAssumption ==
    /\ Histories \subseteq Seq(Shapes) /\ WindowSize \in Nat /\ WindowSize > 1 /\ MaxBars \in Nat
    /\ RequiredBars \in 1..WindowSize
ASSUME KindAssumption ==
    /\ Market \in {"SPOT", "FUTURES"} /\ TradeSide \in {"long", "short", "both"}
    /\ Sizes \subseteq {"quote", "base"}

VARIABLES
    bars,       \* the closed candles of the exchange, oldest first
    opened,     \* history: the candle that was open at the start
    lost,       \* history: candles the stream did not bring
    window,     \* _candles
    last,       \* _last_close_time
    phase, order

vars == <<bars, opened, lost, window, last, phase, order>>

Directions == {-1, 0, 1}

FeedTypeOK ==
    /\ bars \in Seq(Shapes) /\ opened \in Nat /\ lost \subseteq Nat
    /\ window \in Seq([at : Nat, bar : Shapes]) /\ last \in Nat
    /\ phase \in {"new", "running", "failed", "stopped"}
    /\ order \in {"none", "BUY", "SELL"}

Init ==
    /\ bars \in Histories
    /\ opened = 0 /\ lost = {} /\ window = <<>> /\ last = 0
    /\ phase = "new" /\ order = "none"

\* What a deque of WindowSize holds of a sequence.
Newest(s) == IF Len(s) <= WindowSize THEN s ELSE SubSeq(s, Len(s) - WindowSize + 1, Len(s))

\* on_start: the last candles of the exchange, the open one with the bar it has by now.
OnStart ==
    /\ phase = "new" /\ phase' = "running"
    /\ \E unfinished \in Shapes :
         window' = Newest(Append([i \in DOMAIN bars |-> [at |-> i, bar |-> bars[i]]],
                                 [at |-> Len(bars) + 1, bar |-> unfinished]))
    /\ opened' = Len(bars) + 1 /\ last' = opened'
    /\ UNCHANGED <<bars, lost, order>>

\* build_order: the side of the order, "none" where there is none to place. A buy on spot is
\* sized in quote, every other order in base; without its size it raises, but for a sell
\* on spot, which is left out.
BuildOrder(direction) ==
    LET side == IF direction > 0 /\ TradeSide # "short" THEN "BUY"
                ELSE IF direction < 0 /\ TradeSide # "long" THEN "SELL" ELSE "none"
        size == IF Market = "SPOT" /\ side = "BUY" THEN "quote" ELSE "base"
    IN  IF side = "none" \/ size \in Sizes THEN side
        ELSE IF Market = "SPOT" /\ side = "SELL" THEN "none" ELSE "error"

OnMarketEvent_Unchecked(at, bar, direction) ==    \* mutated: no look at _last_close_time
    /\ last' = at /\ window' = Newest(Append(window, [at |-> at, bar |-> bar]))
    /\ UNCHANGED <<phase, order>>

\* on_market_event for the candle at a position: a close time seen last is not new.
OnMarketEvent(at, bar, direction) ==
    IF at = last THEN UNCHANGED <<window, last, phase, order>>
    ELSE /\ last' = at
         /\ window' = Newest(Append(window, [at |-> at, bar |-> bar]))
         /\ LET side == IF Len(window') < RequiredBars THEN "none" ELSE BuildOrder(direction)
            IN  /\ order' = IF side = "error" THEN "none" ELSE side
                /\ phase' = IF side = "error" THEN "failed"
                            ELSE IF side = "none" THEN "running" ELSE "stopped"

\* The open candle closes.
CandleCloses ==
    /\ phase = "running" /\ Len(bars) < MaxBars
    /\ \E bar \in Shapes :
         /\ bars' = Append(bars, bar)
         /\ \/ /\ \E direction \in Directions : OnMarketEvent(Len(bars'), bar, direction)
               /\ lost' = lost
            \/ /\ lost' = lost \cup {Len(bars')}    \* the stream is down
               /\ UNCHANGED <<window, last, phase, order>>
    /\ opened' = opened

Next == OnStart \/ CandleCloses

Spec == Init /\ [][Next]_vars

-----------------------------------------------------------------------------
(* The window is the recent past: each candle once and in order, a hole only where the
   stream lost candles, and only the candle that was open at the start may show a bar
   that is not the one it closed with.  That bar stays until it is as old as the window. *)
WindowIsRecent ==
    phase # "new" =>
        /\ \A i, j \in DOMAIN window : i < j => window[i].at < window[j].at
        /\ window # <<>> /\ window[Len(window)].at = last /\ Len(window) <= WindowSize
        /\ \A i \in DOMAIN window :
             window[i].at # opened => window[i].at <= Len(bars) /\ window[i].bar = bars[window[i].at]
        /\ \A at \in window[1].at..Len(bars) :
             at \in lost \/ \E i \in DOMAIN window : window[i].at = at
======================================================================================
