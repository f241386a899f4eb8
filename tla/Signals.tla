---------------------------------- MODULE Signals ----------------------------------
(***************************************************************************)
(* compute_signal of the built-in strategies: what each of them says of    *)
(* the bars it is given, 1 to buy, -1 to sell, 0 for None.  Thresholds are *)
(* the code's defaults, the periods constants, so that a window of a few   *)
(* bars is long enough.                                                    *)
(***************************************************************************)
EXTENDS Indicators

CONSTANTS
    Fast, Mid, Slow,    \* periods of the averages
    Period, Smooth,     \* of the oscillators, the channels and their smoothing
    Deviations, Far     \* stddev_mult and the multiples of the true range, CCI threshold

\* aroon divides by period - 1.
ASSUME PeriodAssumption ==
    /\ {Fast, Mid, Slow, Smooth, Deviations, Far} \subseteq Nat \ {0}
    /\ Period \in Nat /\ Period > 1 /\ Slow > 1

Rises_Level(x0, x, line0, line) == line \prec x      \* mutated: above, whatever was before
Falls_Touch(x0, x, line0, line) ==      \* mutated: a touch of the line is not enough before
    line0 \prec x0 /\ x \prec line

\* A quantity above a line it was not above before, and below one it was not below.
Rises(x0, x, line0, line) == x0 \preceq line0 /\ line \prec x
Falls(x0, x, line0, line) == line0 \preceq x0 /\ x \prec line

Choose(up, down) == IF up THEN 1 ELSE IF down THEN -1 ELSE 0
Crosses(x0, x, line0, line) == Choose(Rises(x0, x, line0, line), Falls(x0, x, line0, line))
Leaves(x0, x, low, high) == Choose(Rises(x0, x, low, low), Falls(x0, x, high, high))

\* SmaCrossover, EmaCrossover, MacdSignal, MacdZero
AverageSignals(bars) ==
    LET now == Closes(bars)
        before == Front(now)
        macd(series) == Macd(series, Fast, Slow, Smooth)
        overSignal(m0, m) == Crosses(m0[1], m[1], m0[2], m[2])
    IN  [sma_crossover |-> Crosses(Sma(before, Fast), Sma(now, Fast), Sma(before, Slow), Sma(now, Slow)),
         ema_crossover |-> Crosses(Ema(before, Fast), Ema(now, Fast), Ema(before, Slow), Ema(now, Slow)),
         macd_signal |-> overSignal(macd(before), macd(now)),
         macd_zero |-> Crosses(macd(before)[1], macd(now)[1], Whole(0), Whole(0))]

\* RsiMeanReversion, RsiTrend, StochRsi, SlowStochastic
OscillatorSignals(bars) ==
    LET now == Closes(bars)
        before == Front(now)
        rsi == Last(RsiSeries(now, Period))
        rsi0 == Last(RsiSeries(before, Period))
        turn(k0, k) == Choose(Rises(k0[1], k[1], k0[2], k[2]) /\ k[1] \prec Whole(20),
                              Falls(k0[1], k[1], k0[2], k[2]) /\ Whole(80) \prec k[1])
    IN  [rsi_mean_reversion |-> Leaves(rsi0, rsi, Whole(30), Whole(70)),
         rsi_regime |-> Leaves(rsi0, rsi, Whole(60), Whole(40)),
         stoch_rsi |-> turn(StochRsi(before, Period, Smooth, Smooth), StochRsi(now, Period, Smooth, Smooth)),
         slow_stochastic |-> turn(Stoch(Front(bars), Period, Smooth), Stoch(bars, Period, Smooth))]

\* BollingerMeanReversion, BollingerSqueezeBreakout, CciBreakout, CciMeanReversion
BandSignals(bars) ==
    LET band(some) == Bollinger(Closes(some), Slow, Deviations)
        none == Whole(0)
        below(b) == none -- b.width
        squeezed(b) == Whole(4) ** b.width \preceq <<1, 400>> ** (b.middle ** b.middle)
        inside(was, now) ==
            Choose(Rises(was.distance, now.distance, below(was), below(now)) /\ now.distance \prec none,
                   Falls(was.distance, now.distance, was.width, now.width) /\ none \prec now.distance)
        outside(was, now) ==
            Choose(squeezed(was) /\ now.width \prec now.distance, squeezed(was) /\ now.distance \prec below(now))
        cci == Cci(bars, Period)
        cci0 == Cci(Front(bars), Period)
    IN  [bollinger_mean_reversion |-> inside(band(Front(bars)), band(bars)),
         bollinger_squeeze_breakout |-> outside(band(Front(bars)), band(bars)),
         cci_breakout |-> Leaves(cci0, cci, Whole(Far), Whole(-Far)),
         cci_mean_reversion |-> Leaves(cci0, cci, Whole(-Far), Whole(Far))]

\* ObvConfirmation, CmfBreakout, MfiMeanReversion
VolumeSignals(bars) ==
    LET close == Last(Closes(bars))
        price == Sma(Closes(bars), Period)
        obv == Obv(bars)
        mean(s) == Mean([i \in 1..Period |-> Whole(Recent(s, Period)[i])])
        money == Crosses(Cmf(Front(bars), Period), Cmf(bars, Period), Whole(0), Whole(0))
        volume == Crosses(Whole(Last(Front(obv))), Whole(Last(obv)), mean(Front(obv)), mean(obv))
        with(signal) == IF signal = Choose(price \prec close, close \prec price) THEN signal ELSE 0
    IN  [obv_confirmation |-> with(volume), cmf_breakout |-> with(money),
         mfi_mean_reversion |-> Leaves(Mfi(Front(bars), Period), Mfi(bars, Period), Whole(20), Whole(80))]

\* The middle of the last n bars, and the cloud of the Ichimoku lines made of it.
Middle(some, n) == Fraction(Highest(Recent(some, n)) + Lowest(Recent(some, n)), 2)
SpanA(some) == (Middle(some, Fast) ++ Middle(some, Mid)) // Whole(2)
CloudTop(some) == IF SpanA(some) \preceq Middle(some, Slow) THEN Middle(some, Slow) ELSE SpanA(some)
CloudBottom(some) == IF SpanA(some) \preceq Middle(some, Slow) THEN SpanA(some) ELSE Middle(some, Slow)

\* AtrBreakout, DmiAdxTrend, AroonTrend, KeltnerBreakout, IchimokuTrend
TrendSignals(bars) ==
    LET before == Front(bars)
        close == Last(Closes(bars))
        close0 == Last(Closes(before))
        channel == Recent(before, Slow)
        half == Atr(bars, Period) // Whole(2)
        directional(d0, d) ==
            IF Whole(20) \preceq d.adx /\ d0.adx \preceq d.adx
              THEN Crosses(d0.di[1], d.di[1], d0.di[2], d.di[2]) ELSE 0
        aroon == Aroon(bars, Slow)
        aroon0 == Aroon(before, Slow)
        band(some, side) == Ema(Closes(some), Slow) ++ (Whole(side * Deviations) ** Atr(some, Period))
    IN  [atr_breakout |-> Choose(Whole(Highest(channel)) ++ half \prec close,
                                 close \prec Whole(Lowest(channel)) -- half),
         dmi_adx_trend |-> directional(Dmi(before, Period), Dmi(bars, Period)),
         aroon_trend |-> Choose(Rises(aroon0[1], aroon[1], aroon0[2], aroon[2]) /\ Whole(70) \preceq aroon[1],
                                Falls(aroon0[1], aroon[1], aroon0[2], aroon[2]) /\ Whole(70) \preceq aroon[2]),
         keltner_breakout |-> Choose(Rises(close0, close, band(before, 1), band(bars, 1)),
                                     Falls(close0, close, band(before, -1), band(bars, -1))),
         ichimoku_trend |->
            Choose(/\ Rises(Middle(before, Fast), Middle(bars, Fast), Middle(before, Mid), Middle(bars, Mid))
                   /\ Rises(close0, close, CloudTop(before), CloudTop(bars)),
                   /\ Falls(Middle(before, Fast), Middle(bars, Fast), Middle(before, Mid), Middle(bars, Mid))
                   /\ Falls(close0, close, CloudBottom(before), CloudBottom(bars)))]

\* WilliamsR, DonchianBreakout, DonchianMeanReversion, RocMomentum
ChannelSignals(bars) ==
    LET before == Front(bars)
        close == bars[Len(bars)].close
        close0 == before[Len(before)].close
        top(some) == Highest(Recent(some, Period))
        bottom(some) == Lowest(Recent(some, Period))
        williams(some) == Percent(Whole(Last(some).close - top(some)), Whole(top(some) - bottom(some)), Whole(0))
        change(some) == Whole(Last(some).close - some[Len(some) - Period].close)
    IN  [williams_r |-> Leaves(williams(before), williams(bars), Whole(-80), Whole(-20)),
         donchian_breakout |-> Choose(close > top(before), close < bottom(before)),
         donchian_mean_reversion |->
            Choose(close0 <= bottom(before) /\ close > bottom(bars) /\ 2 * close < top(bars) + bottom(bars),
                   close0 >= top(before) /\ close < top(bars) /\ 2 * close > top(bars) + bottom(bars)),
         roc_momentum |-> Crosses(change(before), change(bars), Whole(0), Whole(0))]

\* The volume of the last bars, and their price weighted by it.
Traded(some) == Total([i \in 1..Slow |-> Whole(Recent(some, Slow)[i].volume)])
Vwap(some) == Total([i \in 1..Slow |-> TypicalPrice(Recent(some, Slow)[i])
                                          ** Whole(Recent(some, Slow)[i].volume)]) // Traded(some)

\* EmaPullback, TripleMaTrend, VwapMeanReversion
PullbackSignals(bars) ==
    LET now == Closes(bars)
        before == Front(now)
        close == Last(now)
        close0 == Last(before)
        pullback(some) == Ema(some, Fast)
        trend == Ema(now, Slow)
        above(some) == Ema(some, Mid) \prec Ema(some, Fast) /\ Ema(some, Slow) \prec Ema(some, Mid)
        under(some) == Ema(some, Fast) \prec Ema(some, Mid) /\ Ema(some, Mid) \prec Ema(some, Slow)
        line(some, percent) == Vwap(some) ** <<percent, 100>>
    IN  [ema_pullback |-> Choose(trend \prec close /\ Rises(close0, close, pullback(before), pullback(now)),
                                 close \prec trend /\ Falls(close0, close, pullback(before), pullback(now))),
         triple_ma_trend |-> Choose(~above(before) /\ above(now), ~under(before) /\ under(now)),
         vwap_mean_reversion |->
            IF Whole(0) \in {Traded(bars), Traded(Front(bars))} THEN 0
            ELSE Choose(Rises(close0, close, line(Front(bars), 99), line(bars, 99)),
                        Falls(close0, close, line(Front(bars), 101), line(bars, 101)))]

\* A Heikin-Ashi candle without a shadow against its direction.
Bullish(candle, bar) == candle.open \prec candle.close /\ candle.open \preceq Whole(bar.low)
Bearish(candle, bar) == candle.close \prec candle.open /\ Whole(bar.high) \preceq candle.open

\* VolumeSpikeBreakout, HeikinAshiTrend, ChandelierTrend
BreakoutSignals(bars) ==
    LET before == Front(bars)
        close == Last(Closes(bars))
        close0 == Last(Closes(before))
        channel == Recent(before, Period)
        usual == Mean([i \in 1..Period |-> Whole(channel[i].volume)])
        spike == <<9, 5>> ** usual \preceq Whole(Last(bars).volume)
        candle == HeikinAshi(bars)
        bullish(n) == \A i \in (n - Period + 1)..n : Bullish(candle[i], bars[i])
        bearish(n) == \A i \in (n - Period + 1)..n : Bearish(candle[i], bars[i])
        stop(some, sign) ==
            IF sign = 1 THEN Whole(Highest(Recent(some, Period))) -- (Whole(Deviations) ** Atr(some, Period))
            ELSE Whole(Lowest(Recent(some, Period))) ++ (Whole(Deviations) ** Atr(some, Period))
    IN  [volume_spike_breakout |-> Choose(spike /\ Whole(Highest(channel)) \prec close,
                                          spike /\ close \prec Whole(Lowest(channel))),
         heikin_ashi_trend |-> Choose(bullish(Len(bars)) /\ ~bullish(Len(bars) - 1),
                                     bearish(Len(bars)) /\ ~bearish(Len(bars) - 1)),
         chandelier_trend |-> Choose(Rises(close0, close, stop(before, 1), stop(bars, 1)),
                                     Falls(close0, close, stop(before, -1), stop(bars, -1)))]

\* The answers of two groups of strategies.
f & g == [name \in DOMAIN f \cup DOMAIN g |-> IF name \in DOMAIN f THEN f[name] ELSE g[name]]

\* STRATEGY_FACTORIES: every strategy by its name.
Signals(bars) ==
    AverageSignals(bars) & OscillatorSignals(bars) & BandSignals(bars) & VolumeSignals(bars)
    & TrendSignals(bars) & ChannelSignals(bars) & PullbackSignals(bars) & BreakoutSignals(bars)
====================================================================================
