------------------------------- MODULE Indicators -------------------------------
(***************************************************************************)
(* Indicator series over a whole sequence of candles, and the trackers     *)
(* that compute the same values candle by candle.  A price is an integer,  *)
(* and every division rounds down, in series and tracker alike (floats     *)
(* round too, but not as coarsely).  None is the warm-up.                  *)
(***************************************************************************)
EXTENDS Integers, Sequences, SequencesExt, FiniteSetsExt, Functions

None == -1
Closes(candles) == [ i \in DOMAIN candles |-> candles[i].close ]
Total(values, first, last) == SumFunctionOnSet(values, first..last)
Abs(n) == IF n < 0 THEN -n ELSE n

-----------------------------------------------------------------------------
(* Series.                                                                 *)

\* sum(values[:period]) / period, and the mutant that looks at all of them.
Seed_of_all(values, period) == Total(values, 1, Len(values)) \div Len(values)
Seed(values, period) == Total(values, 1, period) \div period

Smoothed(previous, value, period) == (2 * value + (period - 1) * previous) \div (period + 1)
Ema(values, period) ==
  LET e[i \in DOMAIN values] ==
        IF i < period THEN None
        ELSE IF i = period THEN Seed(values, period)
        ELSE Smoothed(e[i - 1], values[i], period)
  IN e

\* Wilder's smoothing of values from index first on, first seen at first + period - 1.
Wilder(values, first, period) ==
  LET w[i \in DOMAIN values] ==
        IF i < first + period - 1 THEN None
        ELSE IF i = first + period - 1
             THEN Total(values, first, i) \div period
        ELSE (w[i - 1] * (period - 1) + values[i]) \div period
  IN w

Gain(change) == IF change > 0 THEN change ELSE 0
RsiValue(gain, loss) ==
  IF loss = 0 THEN (IF gain > 0 THEN 100 ELSE 50) ELSE (100 * gain) \div (gain + loss)
Rsi(values, period) ==
  LET change(i) == IF i = 1 THEN 0 ELSE values[i] - values[i - 1]
      gains == Wilder([ i \in DOMAIN values |-> Gain(change(i)) ], 2, period)
      losses == Wilder([ i \in DOMAIN values |-> Gain(-change(i)) ], 2, period)
  IN [ i \in DOMAIN values |->
         IF gains[i] = None THEN None ELSE RsiValue(gains[i], losses[i]) ]

TrueRange(candle, previousClose) ==
  Max({candle.high - candle.low, Abs(candle.high - previousClose),
       Abs(candle.low - previousClose)})
TrueRanges(candles) ==
  [ i \in DOMAIN candles |->
      IF i = 1 THEN candles[1].high - candles[1].low
      ELSE TrueRange(candles[i], candles[i - 1].close) ]
Atr(candles, period) == Wilder(TrueRanges(candles), 2, period)

\* The directional index DX from Wilder's means, and its own mean.
Adx(candles, period) ==
  LET up(i) == candles[i].high - candles[i - 1].high
      down(i) == candles[i - 1].low - candles[i].low
      plus == Wilder([ i \in DOMAIN candles |->
                         IF i > 1 /\ up(i) > down(i) /\ up(i) > 0 THEN up(i) ELSE 0 ], 2, period)
      minus == Wilder([ i \in DOMAIN candles |->
                          IF i > 1 /\ down(i) > up(i) /\ down(i) > 0 THEN down(i) ELSE 0 ],
                      2, period)
      dx == [ i \in DOMAIN candles |->
                IF i <= period \/ plus[i] + minus[i] = 0 THEN 0
                ELSE (100 * Abs(plus[i] - minus[i])) \div (plus[i] + minus[i]) ]
  IN Wilder(dx, period + 1, period)

\* bollinger with a multiplier of 1, the window ending at i.  Bands are kept as
\* tests, without the square root: pstdev^2 = (p * sum of squares - sum^2) / p^2.
Band(values, period, i) ==
  LET first == i - period + 1
      sum == Total(values, first, i)
      squares == Total([ k \in DOMAIN values |-> values[k] * values[k] ], first, i)
      below == sum - period * values[i]
  IN [known |-> i >= period,
      belowLower |-> i >= period /\ below > 0
                       /\ below * below > period * squares - sum * sum,
      aboveMiddle |-> i >= period /\ below <= 0]

-----------------------------------------------------------------------------
(* Trackers: what is kept between two candles.                             *)

NewEma == [buffer |-> <<>>, prev |-> None, current |-> None]
EmaUpdate(t, value, period) ==
  IF t.current # None
  THEN [t EXCEPT !.prev = t.current, !.current = Smoothed(t.current, value, period)]
  ELSE LET buffer == Append(t.buffer, value) IN
       [t EXCEPT !.buffer = buffer,
                 !.current = IF Len(buffer) = period
                             THEN Total(buffer, 1, period) \div period ELSE None]

\* Both Wilder trackers: a mean that is seeded from the first period values.
NewMean == [seed |-> <<>>, value |-> None]
MeanUpdate_early(m, value, period) ==
  IF m.value # None
  THEN [m EXCEPT !.value = (m.value * (period - 1) + value) \div period]
  ELSE LET seed == Append(m.seed, value) IN
       [seed |-> seed, value |-> Total(seed, 1, Len(seed)) \div Len(seed)]
MeanUpdate(m, value, period) ==
  IF m.value # None
  THEN [m EXCEPT !.value = (m.value * (period - 1) + value) \div period]
  ELSE LET seed == Append(m.seed, value) IN
       [seed |-> seed,
        value |-> IF Len(seed) = period THEN Total(seed, 1, period) \div period ELSE None]

NewRsi == [prevClose |-> None, gain |-> NewMean, loss |-> NewMean]
RsiUpdate(t, close, period) ==
  IF t.prevClose = None THEN [t EXCEPT !.prevClose = close]
  ELSE [prevClose |-> close,
        gain |-> MeanUpdate(t.gain, Gain(close - t.prevClose), period),
        loss |-> MeanUpdate(t.loss, Gain(t.prevClose - close), period)]
RsiOf(t) == IF t.gain.value = None THEN None ELSE RsiValue(t.gain.value, t.loss.value)

NewAtr == [prevClose |-> None, mean |-> NewMean]
AtrUpdate(t, candle, period) ==
  IF t.prevClose = None THEN [t EXCEPT !.prevClose = candle.close]
  ELSE [prevClose |-> candle.close,
        mean |-> MeanUpdate(t.mean, TrueRange(candle, t.prevClose), period)]
=============================================================================
