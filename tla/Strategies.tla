------------------------------- MODULE Strategies -------------------------------
(***************************************************************************)
(* The strategies, candle by candle.  The EMA-RSI baseline keeps trackers; *)
(* its two BTC filters and the Donchian and Bollinger strategies compute   *)
(* their series from all candles of a data set before the first decision   *)
(* and then step through them, so that nothing but the series' own causal  *)
(* form keeps a decision from looking ahead.  Beside them the regime       *)
(* tracker of the paper runner, which confirms a regime after a streak.    *)
(***************************************************************************)
EXTENDS Indicators

CONSTANTS
  Candles, BtcCloses,       \* what the next pair of candles may be
  EmaFast, EmaSlow, RsiPeriod, RsiExit, AtrPeriod, SlopeLookback,
  EntryLookback, ExitLookback, AdxPeriod, AdxMin, AdxMax, BollingerPeriod,
  VolatilityRatio(_),       \* of a sequence of candles: "high", "low" or "neutral"
  ConfirmationCandles,
  MaxCandles                \* bound: length of the data set

ASSUME StrategiesAssumption ==
  /\ {EmaFast, EmaSlow, RsiPeriod, AtrPeriod, SlopeLookback, EntryLookback, ExitLookback,
      AdxPeriod, BollingerPeriod, ConfirmationCandles} \subseteq Nat \ {0}
  /\ EmaFast < EmaSlow /\ MaxCandles \in Nat
  /\ Candles \subseteq [high : Nat, low : Nat, close : Nat]

VARIABLES
  eth, btc,      \* the candles so far, and the closes of BTC
  fast, slow, rsi, atr, \* the trackers of baseline and runner
  confirmation,  \* RegimeConfirmationTracker: the pending streak, evidence, rejections
  decided,       \* what each strategy decided on each candle, as it came
  observed       \* history: the regimes of the candles

strategyVars == <<eth, btc, fast, slow, rsi, atr, confirmation, decided, observed>>

-----------------------------------------------------------------------------
(* The decisions.                                                          *)

\* EmaRsiBaseline.on_candle, after its trackers f, s, r took the candle.
BaselineAction(f, s, r) ==
  IF None \in {f.prev, f.current, s.prev, s.current, RsiOf(r)} THEN "HOLD"
  ELSE IF f.prev <= s.prev /\ f.current > s.current THEN "BUY"
  ELSE IF (f.prev >= s.prev /\ f.current < s.current) \/ RsiOf(r) > RsiExit THEN "SELL"
  ELSE "HOLD"

\* EmaRsiBtcContext and EmaRsiBtcRegime: a BUY of the baseline needs BTC's consent.
BtcBullish(closes, i) ==
  LET f == Ema(closes, EmaFast)[i]
      s == Ema(closes, EmaSlow)[i]
  IN f # None /\ s # None /\ f > s
BtcRiskOn(closes, i) ==
  /\ BtcBullish(closes, i)
  /\ i > SlopeLookback /\ Ema(closes, EmaFast)[i - SlopeLookback] # None
  /\ Ema(closes, EmaFast)[i] > Ema(closes, EmaFast)[i - SlopeLookback]
Filtered(action, consent) == IF action = "BUY" /\ ~consent THEN "HOLD" ELSE action

\* EthDonchianBreakout: entry before exit.
PriorHigh(candles, i) == Max({ candles[k].high : k \in (i - EntryLookback)..(i - 1) })
PriorLow(candles, i) == Min({ candles[k].low : k \in (i - ExitLookback)..(i - 1) })
DonchianAction(candles, i) ==
  IF /\ i > EntryLookback /\ candles[i].close > PriorHigh(candles, i)
     /\ Adx(candles, AdxPeriod)[i] # None /\ Adx(candles, AdxPeriod)[i] > AdxMin
  THEN "BUY"
  ELSE IF i > ExitLookback /\ candles[i].close < PriorLow(candles, i) THEN "SELL"
  ELSE "HOLD"

\* EthBollingerMeanReversion: exit before entry.
ReEntry(closes, i) ==
  /\ i > 1 /\ Band(closes, BollingerPeriod, i - 1).belowLower
  /\ ~Band(closes, BollingerPeriod, i).belowLower
LowAdx(candles, i) ==
  Adx(candles, AdxPeriod)[i] # None /\ Adx(candles, AdxPeriod)[i] < AdxMax
BollingerAction_entry_first(candles, i) ==
  IF ReEntry(Closes(candles), i) /\ LowAdx(candles, i) THEN "BUY"
  ELSE IF Band(Closes(candles), BollingerPeriod, i).aboveMiddle THEN "SELL"
  ELSE "HOLD"
BollingerAction(candles, i) ==
  IF Band(Closes(candles), BollingerPeriod, i).aboveMiddle THEN "SELL"
  ELSE IF ReEntry(Closes(candles), i) /\ LowAdx(candles, i) THEN "BUY"
  ELSE "HOLD"

-----------------------------------------------------------------------------
(* The regime and its confirmation.                                        *)

Breakout(candles) ==
  LET n == Len(candles)
      prior == Max({1, n - EntryLookback})..(n - 1)
  IN \/ candles[n].close > Max({ candles[k].high : k \in prior })
     \/ candles[n].close < Min({ candles[k].low : k \in prior })
Regime(candles) ==
  LET n == Len(candles)
      f == Ema(Closes(candles), EmaFast)[n]
      s == Ema(Closes(candles), EmaSlow)[n]
      trend == IF f = None \/ s = None THEN 0 ELSE f - s
  IN IF n < 2 THEN "none"
     ELSE IF Breakout(candles) THEN "breakout"
     ELSE IF VolatilityRatio(candles) # "neutral" THEN VolatilityRatio(candles)
     ELSE IF trend > 0 THEN "up" ELSE IF trend < 0 THEN "down" ELSE "sideways"

NewConfirmation == [pending |-> "none", count |-> 0, evidence |-> {}, rejected |-> 0]
\* _reset_pending with the rejection its callers decide on.
Rejections(c) ==
  c.rejected + (IF c.pending # "none" /\ c.count < ConfirmationCandles THEN 1 ELSE 0)
Observe_keeps_streak(c, regime) ==
  LET count == c.count + 1 IN
  [pending |-> regime, count |-> count, rejected |-> c.rejected,
   evidence |-> c.evidence \cup
     (IF regime # "none" /\ count >= ConfirmationCandles THEN {regime} ELSE {})]
Observe(c, regime) ==
  IF regime = "none"
  THEN [c EXCEPT !.pending = "none", !.count = 0, !.rejected = Rejections(c)]
  ELSE LET count == IF regime = c.pending THEN c.count + 1 ELSE 1 IN
       [pending |-> regime, count |-> count,
        rejected |-> IF regime = c.pending THEN c.rejected ELSE Rejections(c),
        evidence |-> IF count < ConfirmationCandles THEN c.evidence
                     ELSE c.evidence \cup {regime}]

-----------------------------------------------------------------------------

\* What every strategy says of candle i of a data set, given the baseline's word.
Decisions(candles, closes, i, action) ==
  [baseline |-> action,
   context |-> Filtered(action, BtcBullish(closes, i)),
   regime |-> Filtered(action, BtcRiskOn(closes, i)),
   donchian |-> DonchianAction(candles, i),
   bollinger |-> BollingerAction(candles, i)]

OnCandle(candle, btcClose) ==
  LET close == candle.close
      n == Len(eth) + 1
  IN
  /\ Len(eth) < MaxCandles
  /\ eth' = Append(eth, candle)
  /\ btc' = Append(btc, btcClose)
  /\ fast' = EmaUpdate(fast, close, EmaFast)
  /\ slow' = EmaUpdate(slow, close, EmaSlow)
  /\ rsi' = RsiUpdate(rsi, close, RsiPeriod)
  /\ atr' = AtrUpdate(atr, candle, AtrPeriod)
  /\ observed' = Append(observed, Regime(eth'))
  /\ confirmation' = Observe(confirmation, Last(observed'))
  /\ decided' = Append(decided, Decisions(eth', btc', n, BaselineAction(fast', slow', rsi')))

StrategyInit ==
  /\ eth = <<>> /\ btc = <<>>
  /\ fast = NewEma /\ slow = NewEma /\ rsi = NewRsi /\ atr = NewAtr
  /\ confirmation = NewConfirmation
  /\ decided = <<>> /\ observed = <<>>
StrategyNext == \E candle \in Candles, close \in BtcCloses : OnCandle(candle, close)
StrategySpec == StrategyInit /\ [][StrategyNext]_strategyVars

-----------------------------------------------------------------------------
(* The accounts of the evaluation scripts.                                 *)

\* count_signals, by candle.
Buys(strategy) == { i \in DOMAIN decided : decided[i][strategy] = "BUY" }

\* breakout_diagnostics, mean_reversion_diagnostics.
ConfirmedBreakouts ==
  { i \in (EntryLookback + 1)..Len(eth) :
      /\ \A k \in (i - EntryLookback)..(i - 1) : eth[i].close > eth[k].high
      /\ Adx(eth, AdxPeriod)[i] # None /\ Adx(eth, AdxPeriod)[i] > AdxMin }
ConfirmedReEntries ==
  { i \in 2..Len(eth) : ReEntry(Closes(eth), i) /\ LowAdx(eth, i) }
SimultaneousSetups ==
  { i \in ConfirmedReEntries : Band(Closes(eth), BollingerPeriod, i).aboveMiddle }

\* btc_filter_attribution.
BlockedBuys(filter) == { i \in Buys("baseline") : decided[i][filter] = "HOLD" }

-----------------------------------------------------------------------------
(* Properties.                                                             *)

\* The running system and the replay see the same indicators: after every candle
\* the trackers hold what the series over all candles so far ends with.
TrackersAreSeries ==
  eth # <<>> =>
    LET n == Len(eth) IN
    /\ fast.current = Ema(Closes(eth), EmaFast)[n]
    /\ slow.current = Ema(Closes(eth), EmaSlow)[n]
    /\ RsiOf(rsi) = Rsi(Closes(eth), RsiPeriod)[n]
    /\ atr.mean.value = Atr(eth, AtrPeriod)[n]

\* No strategy that is built from a whole data set decides anything else than it
\* decided when the later candles were not known yet.
NoLookAhead ==
  \A i \in DOMAIN eth : Decisions(eth, btc, i, decided[i].baseline) = decided[i]

\* What the evaluation scripts count from the series is what the strategies did:
\* a confirmed breakout is a Donchian BUY, a confirmed re-entry a Bollinger BUY
\* unless the same candle is a SELL, a blocked BUY of the baseline is a HOLD and
\* nothing else changes, and what the regime lets pass the context does too.
DiagnosticsAgree ==
  /\ Buys("donchian") = ConfirmedBreakouts
  /\ Buys("bollinger") = ConfirmedReEntries \ SimultaneousSetups
  /\ \A filter \in {"context", "regime"} :
       /\ Buys(filter) = Buys("baseline") \ BlockedBuys(filter)
       /\ \A i \in DOMAIN decided :
            decided[i][filter] # decided[i].baseline => i \in BlockedBuys(filter)
  /\ BlockedBuys("context") \subseteq BlockedBuys("regime")

\* A regime is evidence exactly when it held for enough candles in a row, and every
\* streak that ended sooner was counted as rejected.
Streak(first, last) ==
  /\ observed[first] # "none"
  /\ \A k \in first..last : observed[k] = observed[first]
  /\ first > 1 => observed[first - 1] # observed[first]
ConfirmedMeansStreak ==
  /\ confirmation.evidence =
       { observed[i] : i \in { k \in DOMAIN observed :
           k + ConfirmationCandles - 1 <= Len(observed)
             /\ Streak(k, k) /\ \A j \in k..(k + ConfirmationCandles - 1) :
                                  observed[j] = observed[k] } }
  /\ confirmation.rejected =
       Cardinality({ i \in DOMAIN observed :
         Streak(i, i) /\ \E last \in i..(Len(observed) - 1) :
           /\ Streak(i, last) /\ observed[last + 1] # observed[i]
           /\ last - i + 1 < ConfirmationCandles })
=============================================================================
