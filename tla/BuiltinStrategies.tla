------------------------------- MODULE BuiltinStrategies -------------------------------
(***************************************************************************)
(* The built-in strategies on the windows their feed gives them: what must *)
(* hold between the signal of a running strategy, the signals of a         *)
(* backtest, which is given every candle since its first, and the market.  *)
(***************************************************************************)
EXTENDS KlineFeed, Signals

CONSTANT Top        \* the highest price of a bar

ASSUME BarAssumption ==
    /\ Shapes \subseteq [open : Int, high : Int, low : Int, close : Int, volume : Int]
    /\ Top \in Int /\ \A bar \in Shapes : bar.low <= bar.high
    /\ \A n \in {Fast, Mid, Slow, Period + 1, Period + Smooth} : n < RequiredBars

\* Averages of every value they are given: they start anew in every window.
Seeded ==
    {"ema_crossover", "macd_signal", "macd_zero", "rsi_mean_reversion", "rsi_regime", "stoch_rsi",
     "atr_breakout", "dmi_adx_trend", "keltner_breakout", "ema_pullback", "triple_ma_trend",
     "heikin_ashi_trend", "chandelier_trend"}

\* They answer as long as the price is out of its channel, not when it leaves it.
Standing == {"bollinger_squeeze_breakout", "atr_breakout", "donchian_breakout", "volume_spike_breakout"}

\* To these a market that does not move is overbought, or the height of the price matters,
\* or the rule to buy comes first where both hold (chandelier_trend).
Lopsided ==
    {"rsi_mean_reversion", "rsi_regime", "stoch_rsi", "williams_r", "mfi_mean_reversion",
     "bollinger_squeeze_breakout", "vwap_mean_reversion", "chandelier_trend"}

\* The strategy has enough candles, and each of them is as it closed.
Clean ==
    /\ phase # "new" /\ order = "none" /\ Len(window) >= RequiredBars
    /\ lost = {}
    /\ \A i \in DOMAIN window : window[i].at \in DOMAIN bars /\ window[i].bar = bars[window[i].at]

\* But for some strategies, two answers are the same, opposite, or no signal said twice.
Agree(others, one, other) == \A name \in DOMAIN one \ others : one[name] = other[name]
Opposite(others, one, other) == \A name \in DOMAIN one \ others : one[name] = -other[name]
Changes(others, before, now) == \A name \in DOMAIN now \ others : now[name] # 0 => now[name] # before[name]

-----------------------------------------------------------------------------
(* A strategy that looks at a window of bars says live, on the last WindowSize candles,
   what it says in a backtest of the same candles, which is given all of them
   (compute_signal is called on candles[:index + 1]).  The strategies that seed an average
   with the first bar they are given need not: a long backtest is not what they do live. *)
LiveMatchesBacktest ==
    Clean /\ Len(bars) > WindowSize =>
        LET live == [i \in DOMAIN window |-> window[i].bar]
        IN  Agree(Seeded, Signals(live), Signals(bars))

(* A crossing is the signal of one candle: whoever acts on every candle (the persistent
   wrappers and the backtest) is not told the same again before the opposite condition
   has held.  Only the strategies that stand outside a channel repeat themselves. *)
CrossingsFireOnce ==
    Clean /\ Len(bars) > RequiredBars =>
        Changes(Standing, Signals(Front(bars)), Signals(bars))

(* Buying and selling are the same rule: in the market turned upside down every strategy
   says the opposite, whatever the bars are.  What is left out is lopsided in the code. *)
Turned(bar) == [open |-> Top - bar.open, high |-> Top - bar.low, low |-> Top - bar.high,
                close |-> Top - bar.close, volume |-> bar.volume]
SidesMirror ==
    Clean =>
        LET turned == [i \in DOMAIN bars |-> Turned(bars[i])]
        IN  Opposite(Lopsided, Signals(bars), Signals(turned))
====================================================================================
