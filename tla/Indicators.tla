-------------------------------- MODULE Indicators --------------------------------
(***************************************************************************)
(* The indicators of builtin_strategies.py, exactly: whole prices and      *)
(* volumes in, fractions out, where the code rounds to floats.  A bar is   *)
(* [open, high, low, close, volume].  The code answers None for too few    *)
(* bars; here the caller has enough.                                       *)
(***************************************************************************)
EXTENDS Fractions, Sequences, SequencesExt

Recent(s, n) == SubSeq(s, Len(s) - n + 1, Len(s))
Closes(bars) == [i \in DOMAIN bars |-> Whole(bars[i].close)]
Highest(bars) == Max({bars[i].high : i \in DOMAIN bars})
Lowest(bars)  == Min({bars[i].low : i \in DOMAIN bars})

\* A sequence whose elements TLC works out once.
Each(n, value(_)) == SubSeq([i \in 1..n |-> value(i)], 1, n)

\* The running results of a step over a sequence, the start before them.
Scan(step(_, _), start, s) ==
    LET results[i \in 0..Len(s)] ==
            IF i = 0 THEN <<start>>
            ELSE LET done == results[i - 1] IN Append(done, step(Last(done), s[i]))
    IN  results[Len(s)]

Total(s) == Last(Scan(LAMBDA a, b : a ++ b, Whole(0), s))
Mean(s)  == Total(s) // Whole(Len(s))
Distance(a, b) == IF a \prec b THEN b -- a ELSE a -- b
LastAndMean(s) == <<Last(s), Mean(s)>>

\* Wilder's averages: the mean of the first values, then one part in period new.
Wilder(s, period) ==
    Scan(LAMBDA average, x : (average ** Whole(period - 1) ++ x) // Whole(period),
         Mean(SubSeq(s, 1, period)), SubSeq(s, period + 1, Len(s)))

EmaSeries(values, period) ==
    Scan(LAMBDA last, x : (x -- last) ** <<2, period + 1>> ++ last, values[1], Tail(values))

Sma_Expanding(values, period) == Mean(values)    \* mutated: the mean of all values
Sma(values, period) == Mean(Recent(values, period))
Ema(values, period) == EmaSeries(values, period)[Len(values)]

\* A share of a whole in percent, and what is said when there is no whole.
Percent(part, whole, otherwise) ==
    IF whole = Whole(0) THEN otherwise ELSE Whole(100) ** (part // whole)

\* _rsi_wilder_series without its leading None: 100 where nothing was lost, in a market
\* that did not move as well.
RsiSeries(values, period) ==
    LET move == Each(Len(values) - 1, LAMBDA i : values[i + 1] -- values[i])
        positive(x) == IF Whole(0) \prec x THEN x ELSE Whole(0)
        gain == Wilder([i \in DOMAIN move |-> positive(move[i])], period)
        loss == Wilder([i \in DOMAIN move |-> positive(Whole(0) -- move[i])], period)
        index(won, lost) == Each(Len(won), LAMBDA k : Percent(won[k], won[k] ++ lost[k], Whole(100)))
    IN  index(gain, loss)

\* The line and its signal.
Macd(values, fast, slow, signal) ==
    LET quick == EmaSeries(values, fast)
        calm  == EmaSeries(values, slow)
        both(line) == <<Last(line), Ema(line, signal)>>
    IN  both([i \in DOMAIN values |-> quick[i] -- calm[i]])

\* Where a value lies between two others, 50 when they are the same.
Place(x, low, high) == Percent(x -- low, high -- low, Whole(50))

\* stoch: %K of the last bar and the mean of the last %K.
Stoch(bars, kPeriod, dPeriod) ==
    LET k(i) == LET window == SubSeq(bars, i - kPeriod + 1, i)
                IN  Place(Whole(bars[i].close), Whole(Lowest(window)), Whole(Highest(window)))
    IN  LastAndMean(Each(dPeriod, LAMBDA j : k(Len(bars) - dPeriod + j)))

StochRsi(values, period, smoothK, smoothD) ==
    LET low(window)  == CHOOSE a \in window : \A x \in window : a \preceq x
        high(window) == CHOOSE b \in window : \A x \in window : x \preceq b
        among(x, window) == Place(x, low(window), high(window))
        raw(rsi, i) == among(rsi[i], ToSet(SubSeq(rsi, i - period + 1, i)))
        k(rsi, i) == Mean([j \in 1..smoothK |-> raw(rsi, i - smoothK + j)])
        of(rsi) == LastAndMean(Each(smoothD, LAMBDA j : k(rsi, Len(rsi) - smoothD + j)))
    IN  of(RsiSeries(values, period))

\* Distances from the middle band in signed squares, so that the standard deviation of
\* the code needs no root: above the upper band is a distance above the width.
Bollinger(values, period, deviations) ==
    LET signed(x) == IF Whole(0) \preceq x THEN x ** x ELSE Whole(0) -- x ** x
        variance(window, mean) == Mean([i \in DOMAIN window |-> signed(Distance(window[i], mean))])
        band(window, mean) == [distance |-> signed(Last(window) -- mean), middle |-> mean,
                               width |-> Whole(deviations * deviations) ** variance(window, mean)]
    IN  band(Recent(values, period), Sma(values, period))

TypicalPrice(bar) == <<bar.high + bar.low + bar.close, 3>>

Cci(bars, period) ==
    LET index(off, deviation) == IF deviation = Whole(0) THEN Whole(0) ELSE off // (<<3, 200>> ** deviation)
        from(window, mean) ==
            index(Last(window) -- mean, Mean([i \in DOMAIN window |-> Distance(window[i], mean)]))
        of(window) == from(window, Mean(window))
    IN  of([i \in 1..period |-> TypicalPrice(Recent(bars, period)[i])])

Obv(bars) ==
    Scan(LAMBDA sum, i : LET rise == bars[i].close - bars[i - 1].close IN
                         IF rise > 0 THEN sum + bars[i].volume
                         ELSE IF rise < 0 THEN sum - bars[i].volume ELSE sum,
         0, [k \in 1..(Len(bars) - 1) |-> k + 1])

Cmf(bars, period) ==
    LET window == Recent(bars, period)
        flow(bar) == IF bar.high = bar.low THEN Whole(0)
                     ELSE Fraction((2 * bar.close - bar.low - bar.high) * bar.volume, bar.high - bar.low)
        volume == Total([i \in 1..period |-> Whole(window[i].volume)])
    IN  IF volume = Whole(0) THEN Whole(0)
        ELSE Total([i \in 1..period |-> flow(window[i])]) // volume

\* 100 where no money left, in a market that did not move as well.
Mfi(bars, period) ==
    LET price(i) == TypicalPrice(bars[i])
        flow(Moved(_, _)) == Total([k \in 1..period |->
            LET i == Len(bars) - period + k IN
            IF Moved(price(i - 1), price(i)) THEN price(i) ** Whole(bars[i].volume) ELSE Whole(0)])
        rose == flow(LAMBDA a, b : a \prec b)
        fell == flow(LAMBDA a, b : b \prec a)
    IN  Percent(rose, rose ++ fell, Whole(100))

TrueRange(bars, i) ==
    IF i = 1 THEN bars[1].high - bars[1].low
    ELSE Max({bars[i].high, bars[i - 1].close}) - Min({bars[i].low, bars[i - 1].close})

Atr(bars, period) == Last(Wilder([i \in DOMAIN bars |-> Whole(TrueRange(bars, i))], period))

\* How late in the window its first highest and its first lowest bar came, in percent.
Aroon(bars, period) ==
    LET window == Recent(bars, period)
        first(P(_)) == CHOOSE i \in 1..period : P(window[i]) /\ \A j \in 1..(i - 1) : ~P(window[j])
    IN  <<<<100 * (first(LAMBDA bar : bar.high = Highest(window)) - 1), period - 1>>,
          <<100 * (first(LAMBDA bar : bar.low = Lowest(window)) - 1), period - 1>>>>

\* +DI, -DI and the mean of the last DX. The average range starts as a mean and goes on
\* as a sum, which scales both DI alike.
Dmi(bars, period) ==
    LET n == Len(bars) - 1
        up(i)   == bars[i + 1].high - bars[i].high
        down(i) == bars[i].low - bars[i + 1].low
        plusDm  == Each(n, LAMBDA i : Whole(IF up(i) > down(i) /\ up(i) > 0 THEN up(i) ELSE 0))
        minusDm == Each(n, LAMBDA i : Whole(IF down(i) > up(i) /\ down(i) > 0 THEN down(i) ELSE 0))
        ranges  == Each(n, LAMBDA i : Whole(TrueRange(bars, i + 1)))
        smooth(start, s) ==
            Scan(LAMBDA value, x : value -- (value // Whole(period)) ++ x,
                 start, SubSeq(s, period + 1, n))
        range == smooth(Mean(SubSeq(ranges, 1, period)), ranges)
        plus  == smooth(Total(SubSeq(plusDm, 1, period)), plusDm)
        minus == smooth(Total(SubSeq(minusDm, 1, period)), minusDm)
        index(up_, down_, all) == Each(Len(all), LAMBDA k : <<Percent(up_[k], all[k], Whole(0)),
                                                              Percent(down_[k], all[k], Whole(0))>>)
        dx(at) == Percent(Distance(at[1], at[2]), at[1] ++ at[2], Whole(0))
        adx(dxs) == IF dxs = <<>> THEN Whole(0) ELSE Mean(Recent(dxs, Min({period, Len(dxs)})))
        answer(di) == [di |-> Last(di), adx |-> adx(Each(n - period, LAMBDA k : dx(di[k + 1])))]
    IN  answer(index(plus, minus, range))

\* Open and close of the Heikin-Ashi candles, whose high and low also reach the bar's.
HeikinAshi(bars) ==
    LET close(bar) == Fraction(bar.open + bar.high + bar.low + bar.close, 4) IN
    Scan(LAMBDA last, bar : [open |-> (last.open ++ last.close) // Whole(2), close |-> close(bar)],
         [open |-> Fraction(bars[1].open + bars[1].close, 2), close |-> close(bars[1])], Tail(bars))
====================================================================================
