------------------------------- MODULE Replay -------------------------------
(***************************************************************************)
(* The trade-level replay: a strategy that sees only confirmed candles and *)
(* an execution clock that sees every public trade.  For each trade the    *)
(* engine confirms candles and asks for decisions, fills the exit that was *)
(* pending, drains the decisions, and evaluates the risk of the position.  *)
(*                                                                         *)
(* The candles of a dataset are aggregated from its own trades, which gold *)
(* verifies by lineage, so they are built here from the tape: a window     *)
(* without trades has no candle.  Prices, money and lots are the exact     *)
(* integers of RiskRules, levels are counted in 1/SlipDen of a price.      *)
(***************************************************************************)
EXTENDS RiskRules, Sequences

CONSTANTS
  Prices,        \* the prices of trades
  Atrs,          \* the ATRs of candles; 0 stands for None
  Gaps,          \* milliseconds between two trades
  CandleLength,  \* DURATION_MS of the decision timeframe
  DayLength,     \* DAY_MS
  FixedLots,     \* ReplayScenario.quantity
  ScenarioIntensity, \* ReplayScenario.intensity
  MaxTrades      \* bound: trades on the tape

ASSUME ReplayAssumption ==
  /\ {Capital, SlipDen, FeeDen, DrawdownPm, FixedLots} \subseteq Nat \ {0}
  /\ {CandleLength, DayLength} \subseteq Nat \ {0}
  /\ {AllocPm, LeveragePm, DailyLossPm, MaxTrades} \subseteq Nat
  /\ {StopAtr, TargetR, TrailAtr} \subseteq Nat \ {0}
  /\ SlipNum \in 0..(SlipDen - 1) /\ FeeNum \in 0..(FeeDen - 1)
  /\ DrawdownPm <= 1000 /\ LeveragePm <= 1000
  /\ BudgetPm \in [DOMAIN BudgetPm -> Nat] /\ ScenarioIntensity \in DOMAIN BudgetPm
  /\ Prices \subseteq Nat \ {0} /\ Atrs \subseteq Nat /\ Gaps \subseteq Nat

VARIABLES
  dynamic,       \* sizing_mode = "risk_engine", as against "fixed"
  phase,         \* what _Engine.run does next
  trade,         \* the trade it is at: time, price, index
  before,        \* history: the time of the trade before it
  candle,        \* the candle the tape is in, not confirmed yet
  queue,         \* _queue
  position, pending, \* _position, _pending
  record,        \* the last of _records
  stats,         \* _stats
  realizedTotal, \* _realized_total, the sum over _records
  realizedToday, day, peakEquity, \* _realized_today, _day, _peak_equity
  cash           \* history: the cash the fills leave

book == <<realizedTotal, realizedToday, day, peakEquity, cash>>
tape == <<trade, before, candle>>
vars == <<dynamic, phase, tape, queue, position, pending, record, stats, book>>

None == [none |-> TRUE]
NoTrade == [ts |-> 0, price |-> 0, index |-> 0]
NoDay == -1
Stats == {"total", "filled", "dropped", "unfilled", "rejected", "closed"}
Count(s, what) == [s EXCEPT ![what] = @ + 1]

-----------------------------------------------------------------------------
(* Levels, and the verdict of the risk engine on an entry.                 *)

StopLevel(x, a) == x - StopAtr * a * SlipDen
TargetLevel(x, stop) == x + TargetR * (x - stop)

\* update_trailing.
NewTrailing(stop, highest, a) == Larger(stop, highest - TrailAtr * a * SlipDen)

ReplayEquity == InitialCash + realizedTotal

\* _roll_day.
TodayPnl(t) == IF day \in {NoDay, t \div DayLength} THEN realizedToday ELSE 0

\* _evaluate_risk: flat, without a kill switch, at the reference price of the
\* decision.
Lots(d) ==
  PositionSize(ScenarioIntensity, d.reference, d.atr, peakEquity, ReplayEquity)
EntryVerdict(d, t) ==
  IF DrawdownExceeded(peakEquity, ReplayEquity) THEN "max_drawdown"
  ELSE IF DailyLossExceeded(TodayPnl(t)) THEN "max_daily_loss"
  ELSE IF Lots(d) = 0 THEN "zero_size" ELSE "ok"

-----------------------------------------------------------------------------
(* Closing a position: _finish.                                            *)

\* Gross PnL, slippage and fees of q lots from entry price p to exit price x,
\* in money units.
Gross(q, p, x) == (x - p) * q * Money
SlippageCost_counts_exit_twice(q, p, x) == SlipNum * (x + x) * q * FeeDen
SlippageCost(q, p, x) == SlipNum * (p + x) * q * FeeDen
Fees(q, p, x) == FeeNum * (BuyPrice(p) + SellPrice(x)) * q
Net(q, p, x) == Gross(q, p, x) - SlippageCost(q, p, x) - Fees(q, p, x)

RecordOf(exit, fillTs, fillIndex, fillPrice) ==
  [signal |-> position.signal, entryFill |-> position.fill,
   entryIndex |-> position.index, exitTrigger |-> exit.trigger,
   triggerIndex |-> exit.index, exitFill |-> fillTs, exitIndex |-> fillIndex,
   reason |-> exit.reason, quantity |-> position.quantity,
   net |-> Net(position.quantity, position.entry, fillPrice)]

Finish(exit, fillTs, fillIndex, fillPrice) ==
  LET net == Net(position.quantity, position.entry, fillPrice) IN
  /\ record' = RecordOf(exit, fillTs, fillIndex, fillPrice)
  /\ realizedTotal' = realizedTotal + net
  /\ IF dynamic
     THEN /\ day' = fillTs \div DayLength
          /\ realizedToday' = TodayPnl(fillTs) + net
          /\ peakEquity' = Larger(peakEquity, ReplayEquity + net)
     ELSE UNCHANGED <<day, realizedToday, peakEquity>>
  /\ cash' = cash + SellProceeds(position.quantity, fillPrice)
  /\ position' = None
  /\ pending' = None

-----------------------------------------------------------------------------
(* The execution clock brings a trade.                                     *)

NextTrade(gap, p) ==
  /\ phase = "next" /\ trade.index < MaxTrades
  /\ trade' = [ts |-> trade.ts + gap, price |-> p, index |-> trade.index + 1]
  /\ before' = trade.ts
  /\ phase' = "advance"
  /\ UNCHANGED <<dynamic, candle, queue, position, pending, record, stats, book>>

\* _advance: a candle that closed at or before the trade is confirmed and the
\* strategy decides on it; an open position takes over the candle's ATR.
Closes(c) == c.open + CandleLength
Confirmed_by_open(t) == candle # None /\ candle.open <= t
Confirmed(t) == candle # None /\ Closes(candle) <= t
DecisionsOn(c) ==
  [action : {"buy", "sell"}, signal : {Closes(c)}, reference : {c.close},
   atr : Atrs] \cup {None}

Decide(d) ==
  /\ queue' = IF d = None THEN queue ELSE Append(queue, d)
  /\ stats' = IF d = None THEN stats ELSE Count(stats, "total")

FollowAtr(a) ==
  position' = IF dynamic /\ position # None /\ a # 0
              THEN [position EXCEPT !.atr = a] ELSE position

\* The candle the dataset has for the window of trade t.
CandleOf(t, p) == [open |-> (t \div CandleLength) * CandleLength, close |-> p]

Advance ==
  /\ phase = "advance"
  /\ IF Confirmed(trade.ts)
     THEN \E d \in DecisionsOn(candle), a \in Atrs :
            /\ d # None => d.atr = a
            /\ Decide(d)
            /\ FollowAtr(a)
     ELSE UNCHANGED <<queue, stats, position>>
  /\ candle' = CandleOf(trade.ts, trade.price)
  /\ phase' = "exit"
  /\ UNCHANGED <<dynamic, trade, before, pending, record, book>>

\* _fill_pending_exit: an exit triggered by an earlier trade is filled first.
FillPendingExit ==
  /\ phase = "exit"
  /\ IF pending # None
     THEN Finish(pending, trade.ts, trade.index, trade.price)
     ELSE UNCHANGED <<position, pending, record, book>>
  /\ stats' = IF pending # None THEN Count(stats, "closed") ELSE stats
  /\ phase' = "drain"
  /\ UNCHANGED <<dynamic, tape, queue>>

-----------------------------------------------------------------------------
(* _drain_decisions, one decision after the other.                         *)

Draining(act) == phase = "drain" /\ queue # <<>> /\ Head(queue).action = act

DropBuy ==
  /\ Draining("buy")
  /\ position # None \/ Head(queue).atr = 0
  /\ queue' = Tail(queue)
  /\ stats' = Count(stats, "dropped")
  /\ UNCHANGED <<dynamic, phase, tape, position, pending, record, book>>

\* The risk engine is asked at the first eligible trade, right before the fill.
Eligible == Draining("buy") /\ position = None /\ Head(queue).atr # 0

RejectBuy ==
  /\ Eligible /\ dynamic
  /\ EntryVerdict(Head(queue), trade.ts) # "ok"
  /\ queue' = Tail(queue)
  /\ stats' = Count(stats, "rejected")
  /\ day' = trade.ts \div DayLength
  /\ realizedToday' = TodayPnl(trade.ts)
  /\ UNCHANGED <<dynamic, phase, tape, position, pending, record, realizedTotal,
                 peakEquity, cash>>

\* _open_position: fixed lots with levels around the execution price, or the
\* verdict's size with levels around the reference price.
Opened(d) ==
  LET q == IF dynamic THEN Lots(d) ELSE FixedLots
      around == IF dynamic THEN d.reference * SlipDen ELSE BuyPrice(trade.price)
      stop == StopLevel(around, d.atr)
  IN [quantity |-> q, signal |-> d.signal, fill |-> trade.ts,
      index |-> trade.index, entry |-> trade.price, atr |-> d.atr,
      stop |-> stop, target |-> TargetLevel(around, stop), trailing |-> stop,
      highest |-> BuyPrice(trade.price)]

OpenPosition ==
  /\ Eligible
  /\ dynamic => EntryVerdict(Head(queue), trade.ts) = "ok"
  /\ position' = Opened(Head(queue))
  /\ cash' = cash - BuyCost(position'.quantity, trade.price)
  /\ queue' = Tail(queue)
  /\ stats' = Count(stats, "filled")
  /\ IF dynamic
     THEN day' = trade.ts \div DayLength /\ realizedToday' = TodayPnl(trade.ts)
     ELSE UNCHANGED <<day, realizedToday>>
  /\ UNCHANGED <<dynamic, phase, tape, pending, record, realizedTotal, peakEquity>>

DropSell ==
  /\ Draining("sell") /\ position = None
  /\ queue' = Tail(queue)
  /\ stats' = Count(stats, "dropped")
  /\ UNCHANGED <<dynamic, phase, tape, position, pending, record, book>>

StrategyExit ==
  /\ Draining("sell") /\ position # None
  /\ Finish([reason |-> "strategy_exit", trigger |-> Head(queue).signal,
             index |-> 0],
            trade.ts, trade.index, trade.price)
  /\ queue' = Tail(queue)
  /\ stats' = Count(Count(stats, "closed"), "filled")
  /\ UNCHANGED <<dynamic, phase, tape>>

Drained ==
  /\ phase = "drain" /\ queue = <<>>
  /\ phase' = "risk"
  /\ UNCHANGED <<dynamic, tape, queue, position, pending, record, stats, book>>

-----------------------------------------------------------------------------
(* _risk_eval: stop before target, both against the trailing stop as it    *)
(* was; then the trailing stop follows.                                    *)

Level == trade.price * SlipDen
Evaluated == position # None /\ trade.ts > position.fill
Highest == Larger(position.highest, Level)
Protective == Larger(position.stop, position.trailing)
StopTriggered_strictly == Evaluated /\ Level < Protective
StopTriggered == Evaluated /\ Level <= Protective
TargetTriggered == Evaluated /\ ~StopTriggered /\ Level >= position.target

Trigger(reason) ==
  pending' = [reason |-> reason, trigger |-> trade.ts, index |-> trade.index]

RiskEval ==
  /\ phase = "risk"
  /\ CASE StopTriggered ->
            /\ Trigger(IF Protective > BuyPrice(position.entry)
                       THEN "trailing_stop" ELSE "stop_loss")
            /\ position' = [position EXCEPT !.highest = Highest]
       [] TargetTriggered ->
            /\ Trigger("take_profit")
            /\ position' = [position EXCEPT !.highest = Highest]
       [] Evaluated /\ ~StopTriggered /\ ~TargetTriggered ->
            /\ position' = [position EXCEPT
                 !.highest = Highest,
                 !.trailing = NewTrailing(@, Highest, position.atr)]
            /\ UNCHANGED pending
       [] ~Evaluated -> UNCHANGED <<position, pending>>
  /\ phase' = "next"
  /\ UNCHANGED <<dynamic, tape, queue, record, stats, book>>

-----------------------------------------------------------------------------
(* The end of the tape: the last candle is confirmed, decisions that no    *)
(* trade can fill are counted, a pending exit is filled at its own trigger *)
(* and an open position is closed at the last trade.                       *)

Sweep ==
  /\ phase = "next" /\ candle # None
  /\ \E d \in DecisionsOn(candle), a \in Atrs :
       /\ d # None => d.atr = a
       /\ Decide(d)
       /\ FollowAtr(a)
  /\ phase' = "over"
  /\ UNCHANGED <<dynamic, tape, pending, record, book>>

CountUnfilled ==
  /\ phase = "over" /\ queue # <<>>
  /\ queue' = Tail(queue)
  /\ stats' = Count(stats, "unfilled")
  /\ UNCHANGED <<dynamic, phase, tape, position, pending, record, book>>

FillPendingEdge ==
  /\ phase = "over" /\ queue = <<>> /\ pending # None
  /\ Finish(pending, trade.ts, trade.index, trade.price)
  /\ stats' = Count(stats, "closed")
  /\ UNCHANGED <<dynamic, phase, tape, queue>>

EndOfDataset ==
  /\ phase = "over" /\ queue = <<>> /\ pending = None /\ position # None
  /\ Finish([reason |-> "end_of_dataset", trigger |-> trade.ts,
             index |-> trade.index],
            trade.ts, trade.index, trade.price)
  /\ stats' = Count(stats, "closed")
  /\ UNCHANGED <<dynamic, phase, tape, queue>>

Return ==
  /\ phase = "over" /\ queue = <<>> /\ position = None
  /\ phase' = "done"
  /\ UNCHANGED <<dynamic, tape, queue, position, pending, record, stats, book>>

-----------------------------------------------------------------------------

Init ==
  /\ dynamic \in BOOLEAN
  /\ phase = "next" /\ trade = NoTrade /\ before = 0 /\ candle = None
  /\ queue = <<>> /\ position = None /\ pending = None /\ record = None
  /\ stats = [s \in Stats |-> 0]
  /\ realizedTotal = 0 /\ realizedToday = 0 /\ day = NoDay
  /\ peakEquity = InitialCash /\ cash = InitialCash

Next ==
  \/ \E gap \in Gaps, p \in Prices : NextTrade(gap, p)
  \/ Advance \/ FillPendingExit
  \/ DropBuy \/ RejectBuy \/ OpenPosition \/ DropSell \/ StrategyExit \/ Drained
  \/ RiskEval
  \/ Sweep \/ CountUnfilled \/ FillPendingEdge \/ EndOfDataset \/ Return

Spec == Init /\ [][Next]_vars

-----------------------------------------------------------------------------
(* Properties.                                                             *)

\* The error paths "invariante rota" of _fill_pending_exit, _fill_pending_edge and
\* run are never taken: a pending exit has a position to close, also when a
\* decision sells it at the trade after the trigger, and the run ends with neither.
ExitNeedsPosition ==
  /\ pending # None => position # None
  /\ phase = "done" => pending = None /\ position = None

\* Trigger and fill (section 10 of the design): a round trip's times are in order,
\* and an exit by stop, target or trailing stop is filled at the trade after the
\* one that triggered it, unless the tape has ended.
RoundTripOrdered ==
  record # None =>
    /\ record.signal <= record.entryFill
    /\ record.entryFill <= record.exitTrigger
    /\ record.exitTrigger <= record.exitFill
    /\ record.exitIndex > record.entryIndex \/ record.reason = "end_of_dataset"
    /\ record.reason \in {"stop_loss", "take_profit", "trailing_stop"} =>
         \/ record.exitIndex = record.triggerIndex + 1
         \/ phase \in {"over", "done"} /\ record.exitIndex = record.triggerIndex

\* No look-ahead and no delay: an entry is filled at the first trade at or after
\* the close of the candle its decision was taken on.
FirstEligibleTrade ==
  [][position = None /\ position' # None =>
       /\ position'.signal <= trade.ts
       /\ trade.index = 1 \/ before < position'.signal]_vars

\* A position that survives the evaluation of a trade is inside its bracket at
\* that trade: the first trade at a stop or a target triggers, except those of
\* the entry's own millisecond, which _risk_eval skips.
FirstTriggerWins ==
  phase = "next" /\ position # None /\ pending = None /\ trade.ts > position.fill =>
    position.stop < Level /\ Level < position.target

\* A position leaves by what happened to it first, after that, and only once.
ExitsFollowTriggers == ExitNeedsPosition /\ RoundTripOrdered /\ FirstTriggerWins

\* The records' PnL (gross less slippage less fees) is the account of a spot,
\* long-only portfolio that pays for each entry and sells it whole: the same
\* account PaperEngine keeps through Portfolio.
Account == INSTANCE LongOnlyAccount WITH
  Deposit <- InitialCash,
  quantity <- IF position = None THEN 0 ELSE position.quantity,
  basis <- IF position = None THEN 0 ELSE BuyCost(position.quantity, position.entry),
  realizedPnl <- realizedTotal
ReplayIsLongOnlyAccount == Account!Spec

=============================================================================
