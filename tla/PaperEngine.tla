----------------------------- MODULE PaperEngine -----------------------------
(***************************************************************************)
(* The paper trading engine: one call of on_price per closed candle.  It   *)
(* manages the open position first (trailing stop, stop loss, take         *)
(* profit) and only then lets the risk engine judge the strategy's         *)
(* decision.  Portfolio accounting, position sizing, stops and the guards  *)
(* (kill switch, drawdown, daily loss) are the code's own.                 *)
(* Money and quantities are the exact integers of RiskRules.               *)
(***************************************************************************)
EXTENDS RiskRules, Sequences

CONSTANTS
  MaxOpenPositions,  \* RiskConfig.max_open_positions
  Prices,            \* the closing prices a candle may carry
  Atrs,              \* the ATRs it may carry; 0 stands for None
  DayLength,         \* MS_PER_DAY
  MaxTimestamp,      \* bound: the last timestamp
  MaxTicks           \* bound: the number of calls of on_price

ASSUME EngineAssumption ==
  /\ {Capital, SlipDen, FeeDen, DayLength, DrawdownPm} \subseteq Nat \ {0}
  /\ {AllocPm, LeveragePm, DailyLossPm, MaxOpenPositions} \subseteq Nat
  /\ {StopAtr, TargetR, TrailAtr, MaxTimestamp, MaxTicks} \subseteq Nat
  /\ StopAtr > 0 /\ TargetR > 0
  /\ SlipNum \in 0..(SlipDen - 1) /\ FeeNum \in 0..(FeeDen - 1)
  /\ DrawdownPm <= 1000 /\ LeveragePm <= 1000
  /\ StopLossRequired \in BOOLEAN
  /\ BudgetPm \in [DOMAIN BudgetPm -> Nat]
  /\ Prices \subseteq Nat \ {0} /\ Atrs \subseteq Nat

VARIABLES
  cash, quantity, basis, realizedPnl, trades, \* Portfolio
  position,                 \* PaperEngine._position
  day, realizedToday,       \* _day, _realized_pnl_today
  lastTimestamp, lastPrice, \* _last_timestamp_ms, _last_price
  peak,                     \* _peak_equity
  killSwitch,               \* KillSwitchState.active
  ordersRejected, dailyLossTriggered, dailyLossCycles, \* session counters
  event,                    \* the PaperEvent on_price returned last
  ticks                     \* calls so far (bounds the model)

account == <<cash, quantity, basis, realizedPnl, trades>>
counters == <<ordersRejected, dailyLossTriggered, dailyLossCycles>>
clock == <<day, lastTimestamp, lastPrice, ticks>>
vars == <<account, position, realizedToday, peak, killSwitch, counters, clock,
          event>>

Intensity == DOMAIN BudgetPm
Action == {"BUY", "SELL", "HOLD"}
NoTarget == -1
Flat == [quantity |-> 0, entry |-> 0, stop |-> 0, target |-> NoTarget,
         highest |-> 0]

Equity(p) == cash + quantity * p * Money

-----------------------------------------------------------------------------
(* The risk engine.                                                        *)

Approvals == {"no_op", "reduce", "ok", "ok_unstopped"}

KillSwitchRejects(act) == killSwitch

SlotsFull_ignores_open_position == MaxOpenPositions = 0
SlotsFull == (IF position = Flat THEN 0 ELSE 1) >= MaxOpenPositions

\* RiskEngine.evaluate: the first rule that applies decides.
Verdict(act, i, p, a, pnl, equity) ==
  IF KillSwitchRejects(act) THEN "kill_switch"
  ELSE IF DrawdownExceeded(peak, equity) THEN "max_drawdown"
  ELSE IF act = "HOLD" THEN "no_op"
  ELSE IF act = "SELL"
       THEN IF position = Flat THEN "no_position_to_reduce" ELSE "reduce"
  ELSE IF DailyLossExceeded(pnl) THEN "max_daily_loss"
  ELSE IF SlotsFull THEN "max_open_positions"
  ELSE IF StopLossRequired /\ a = 0 THEN "stop_unavailable"
  ELSE IF PositionSize(i, p, a, peak, equity) = 0 THEN "zero_size"
  ELSE IF a = 0 THEN "ok_unstopped" ELSE "ok"

-----------------------------------------------------------------------------
(* One call of on_price.                                                   *)

\* Timestamps never go back: an older one raises before anything changes.
Tick(p, t) ==
  /\ ticks < MaxTicks
  /\ t >= lastTimestamp
  /\ ticks' = ticks + 1
  /\ lastTimestamp' = t
  /\ day' = t \div DayLength
  /\ lastPrice' = p

PnlOf_never_rolls_over(t) == realizedToday

\* The day's realised PnL after the rollover on_price starts with.
PnlOf(t) == IF t \div DayLength = day THEN realizedToday ELSE 0

Trailed_follows_down(p, a) ==
  LET top == Larger(position.highest, p * SlipDen) IN
  IF position = Flat \/ a = 0 THEN position
  ELSE [position EXCEPT !.highest = top,
                        !.stop = p * SlipDen - TrailAtr * a * SlipDen]

\* The open position after the trailing stop followed the price.
Trailed(p, a) ==
  LET top == Larger(position.highest, p * SlipDen) IN
  IF position = Flat THEN Flat
  ELSE [position EXCEPT
          !.highest = top,
          !.stop = IF a = 0 THEN @ ELSE Larger(@, top - TrailAtr * a * SlipDen)]

StopHit(p, pos) == pos # Flat /\ p * SlipDen <= pos.stop
TargetHit(p, pos) ==
  pos # Flat /\ pos.target # NoTarget /\ p * SlipDen >= pos.target
MustExit(p, a) == StopHit(p, Trailed(p, a)) \/ TargetHit(p, Trailed(p, a))

ExitReason(p, pos) ==
  IF ~StopHit(p, pos) THEN "take_profit"
  ELSE IF pos.stop > pos.entry THEN "trailing_stop" ELSE "stop_loss"

\* Portfolio.apply_sell: the share of the entry cost the sold lots carry, and
\* the net PnL, fees of both sides included.
AllocatedCost(q) == (basis * q) \div quantity
NetPnl_forgets_exit_fee(q, p) == q * SellPrice(p) * FeeDen - AllocatedCost(q)
NetPnl(q, p) == SellProceeds(q, p) - AllocatedCost(q)

\* _mark_peak_if_needed: the peak never falls.
PeakAfter(top, equity) == Larger(top, equity)

\* Sell the managed quantity at p; top is the peak before the sale.
Close(p, t, top, reason) ==
  LET q == position.quantity
      pnl == NetPnl(q, p)
  IN /\ cash' = cash + SellProceeds(q, p)
     /\ quantity' = quantity - q
     /\ basis' = basis - AllocatedCost(q)
     /\ realizedPnl' = realizedPnl + pnl
     /\ trades' = Append(trades, [day |-> t \div DayLength, pnl |-> pnl])
     /\ realizedToday' = PnlOf(t) + pnl
     /\ position' = Flat
     /\ peak' = PeakAfter(top, cash' + quantity' * SellPrice(p) * FeeDen)
     /\ event' = [action |-> "SELL", filled |-> TRUE, reason |-> reason]

\* Stop, trailing stop and take profit come before any decision.
ProtectiveExit(p, a, t) ==
  /\ MustExit(p, a)
  /\ Close(p, t, peak, ExitReason(p, Trailed(p, a)))
  /\ UNCHANGED counters

\* The part common to every call that reaches the risk engine.
Marked_follows_equity(p) == Equity(p)
Marked(p) == Larger(peak, Equity(p))
Judged(act, i, p, a, t) == Verdict(act, i, p, a, PnlOf(t), Equity(p))

Reject(act, i, p, a, t) ==
  LET why == Judged(act, i, p, a, t) IN
  /\ ~MustExit(p, a)
  /\ why \notin Approvals
  /\ ordersRejected' = ordersRejected + (IF act = "HOLD" THEN 0 ELSE 1)
  /\ dailyLossTriggered' =
       dailyLossTriggered + (IF why = "max_daily_loss" THEN 1 ELSE 0)
  /\ event' = [action |-> act, filled |-> FALSE, reason |-> why]
  /\ position' = Trailed(p, a)
  /\ peak' = Marked(p)
  /\ realizedToday' = PnlOf(t)
  /\ UNCHANGED <<account, dailyLossCycles>>

Hold(p, a, t) ==
  /\ ~MustExit(p, a)
  /\ \E i \in Intensity : Judged("HOLD", i, p, a, t) = "no_op"
  /\ dailyLossCycles' =
       dailyLossCycles + (IF DailyLossExceeded(PnlOf(t)) THEN 1 ELSE 0)
  /\ event' = [action |-> "HOLD", filled |-> FALSE, reason |-> ""]
  /\ position' = Trailed(p, a)
  /\ peak' = Marked(p)
  /\ realizedToday' = PnlOf(t)
  /\ UNCHANGED <<account, ordersRejected, dailyLossTriggered>>

Sell(i, p, a, t) ==
  /\ ~MustExit(p, a)
  /\ Judged("SELL", i, p, a, t) = "reduce"
  /\ Close(p, t, Marked(p), "llm_sell")
  /\ UNCHANGED counters

\* A buy the cash does not cover is cut to what cash/1.001 pays for, which
\* leaves room for a fee of at most 0.1%.
FundedLots(q, p) ==
  IF BuyCost(q, p) <= cash THEN q
  ELSE (cash * 1000) \div (1001 * BuyPrice(p) * FeeDen)

CashCovers_forgets_fee(q, p) == q * BuyPrice(p) * FeeDen <= cash
CashCovers(q, p) == BuyCost(q, p) <= cash

\* The stop of a position that gets none: one just under the price.  A stop of
\* exactly 0.0 counts as none.
NoStop(p) == p * SlipDen - 1

Bracket(q, p, a) ==
  [quantity |-> q, entry |-> BuyPrice(p), highest |-> BuyPrice(p),
   stop |-> IF a = 0 \/ InitialStop(p, a) = 0 THEN NoStop(p) ELSE InitialStop(p, a),
   target |-> IF a = 0 THEN NoTarget ELSE TakeProfit(p, a)]

BuyOf(i, p, a, t) ==
  FundedLots(PositionSize(i, p, a, peak, Equity(p)), p)

Buy(i, p, a, t) ==
  LET q == BuyOf(i, p, a, t) IN
  /\ ~MustExit(p, a)
  /\ Judged("BUY", i, p, a, t) \in {"ok", "ok_unstopped"}
  /\ q > 0
  /\ CashCovers(q, p)
  /\ cash' = cash - BuyCost(q, p)
  /\ quantity' = quantity + q
  /\ basis' = basis + BuyCost(q, p)
  /\ position' = Bracket(q, p, a)
  /\ peak' = PeakAfter(Marked(p), cash' + quantity' * BuyPrice(p) * FeeDen)
  /\ realizedToday' = PnlOf(t)
  /\ event' = [action |-> "BUY", filled |-> TRUE, reason |-> ""]
  /\ UNCHANGED <<realizedPnl, trades, counters>>

\* Portfolio.apply_buy raises when even the cut quantity costs too much; what
\* on_price changed before the call stays changed.
BuyRaises(i, p, a, t) ==
  /\ ~MustExit(p, a)
  /\ Judged("BUY", i, p, a, t) \in {"ok", "ok_unstopped"}
  /\ ~CashCovers(BuyOf(i, p, a, t), p)
  /\ position' = Trailed(p, a)
  /\ peak' = Marked(p)
  /\ realizedToday' = PnlOf(t)
  /\ event' = [action |-> "BUY", filled |-> FALSE, reason |-> "ValueError"]
  /\ UNCHANGED <<account, counters>>

OnPrice(p, a, t) ==
  /\ Tick(p, t)
  /\ \/ ProtectiveExit(p, a, t)
     \/ Hold(p, a, t)
     \/ \E i \in Intensity :
          \/ \E act \in Action : Reject(act, i, p, a, t)
          \/ Sell(i, p, a, t)
          \/ Buy(i, p, a, t)
          \/ BuyRaises(i, p, a, t)
  /\ UNCHANGED killSwitch

-----------------------------------------------------------------------------
(* The kill switch: set from outside the engine at any time; only a human  *)
(* with an approval id resets it.                                          *)

Activate ==
  /\ killSwitch' = TRUE
  /\ UNCHANGED <<account, position, realizedToday, peak, counters, clock, event>>

Reset(by, approval) ==
  /\ by = "human" /\ approval # ""
  /\ killSwitch' = FALSE
  /\ UNCHANGED <<account, position, realizedToday, peak, counters, clock, event>>

Init ==
  /\ cash = InitialCash
  /\ quantity = 0 /\ basis = 0 /\ realizedPnl = 0 /\ trades = <<>>
  /\ position = Flat
  /\ day = 0 /\ realizedToday = 0 /\ lastTimestamp = 0 /\ lastPrice = 0
  /\ peak = InitialCash
  /\ killSwitch = FALSE
  /\ ordersRejected = 0 /\ dailyLossTriggered = 0 /\ dailyLossCycles = 0
  /\ event = [action |-> "HOLD", filled |-> FALSE, reason |-> ""]
  /\ ticks = 0

Next ==
  \/ \E p \in Prices, a \in Atrs, t \in 0..MaxTimestamp : OnPrice(p, a, t)
  \/ Activate
  \/ \E by \in {"human", "llm"}, approval \in {"", "approved"} :
       Reset(by, approval)

Spec == Init /\ [][Next]_vars

-----------------------------------------------------------------------------
(* Properties.                                                             *)

Holding == [quantity : Nat, entry : Nat, stop : Int, target : Nat \cup {NoTarget},
            highest : Nat]
Reason == {"", "ValueError", "stop_loss", "trailing_stop", "take_profit", "llm_sell",
           "kill_switch", "max_drawdown", "no_position_to_reduce",
           "max_daily_loss", "max_open_positions", "stop_unavailable",
           "zero_size"}
Event == [action : Action, filled : BOOLEAN, reason : Reason]

\* The types of the variables of PaperEngine and Portfolio (constructors at
\* paper_engine.py:56-80 and portfolio.py:29-40).
TypeOK ==
  /\ {cash, quantity, basis, peak} \subseteq Int /\ quantity >= 0
  /\ {realizedPnl, realizedToday} \subseteq Int
  /\ trades \in Seq([day : Nat, pnl : Int])
  /\ position \in Holding
  /\ {day, lastTimestamp, lastPrice, ticks} \subseteq Nat
  /\ {ordersRejected, dailyLossTriggered, dailyLossCycles} \subseteq Nat
  /\ killSwitch \in BOOLEAN
  /\ event \in Event

\* Whatever the portfolio holds is under the management of the one position
\* that has a stop: nothing is held that no exit of on_price can sell.  (The
\* engine overwrites _position on a buy and sells only its quantity.)
NoUnmanagedExposure ==
  /\ quantity = position.quantity
  /\ position # Flat => quantity > 0

\* After every call the last price lies strictly inside the bracket of the
\* position that is still open: no rejection, guard, kill switch or skipped
\* rule lets a position survive a price at its stop or its target.
BracketHolds ==
  position # Flat =>
    /\ position.stop < lastPrice * SlipDen
    /\ position.target # NoTarget => lastPrice * SlipDen < position.target

\* The books balance: cash plus what was paid for the open quantity is the
\* initial capital plus the PnL realised so far.
BooksBalance == cash + basis = InitialCash + realizedPnl

\* The capital at risk is bounded over the whole session: buys stop when the
\* drawdown limit is reached, so no sequence of losing trades takes more than
\* that limit and the cost of one more position.
MaxCost == MaxNotional * (SlipDen + SlipNum) * (FeeDen + FeeNum)
LossBounded ==
  1000 * cash + MaxCost > InitialCash * (1000 - DrawdownPm)

\* Portfolio's "nunca cash negativo".
CashNeverNegative == cash >= 0

\* The peak the drawdown is measured from is never below the equity at the last
\* price, on the calls that exit before mark_to_market too.
PeakDominates == peak >= Equity(lastPrice)

\* update_trailing: while a position stays open its stop never moves down and
\* its target never moves.
StopNeverLoosens ==
  [][position # Flat /\ position' # Flat =>
       /\ position'.stop >= position.stop
       /\ position'.target = position.target]_vars

\* Once flat with the drawdown limit reached, the engine never trades again, on
\* any later day and whatever happens to the kill switch: only a new session
\* leaves the halt.
Halted == quantity = 0 /\ DrawdownExceeded(peak, cash)
HaltIsFinal == [][Halted => Halted' /\ UNCHANGED account]_vars

\* While the kill switch is active or the drawdown at the new price is over the
\* limit, the only fills are stop, trailing and take-profit exits.
ProtectiveReasons == {"stop_loss", "trailing_stop", "take_profit"}
OnlyProtectiveExitsWhenBlocked ==
  [][/\ killSwitch \/ DrawdownExceeded(peak, cash + quantity * lastPrice' * Money)
     /\ account' # account
     => event'.reason \in ProtectiveReasons]_vars

SumOf(values) ==
  LET sum[n \in 0..Len(values)] == IF n = 0 THEN 0 ELSE sum[n - 1] + values[n]
  IN sum[Len(values)]
PnlOn(d) == SumOf([ i \in DOMAIN trades |-> IF trades[i].day = d THEN trades[i].pnl ELSE 0 ])

\* realizedToday, which on_price resets and updates in two places, is at every
\* moment the PnL of the trades Portfolio closed on that UTC day, and realizedPnl
\* that of all of them.
PnlMatchesTrades ==
  /\ realizedToday = PnlOn(day)
  /\ realizedPnl = SumOf([ i \in DOMAIN trades |-> trades[i].pnl ])

\* The daily loss limit: on a day whose closed trades have lost the limit no
\* position is opened any more.
NoBuyAfterDailyLoss ==
  [][quantity' > quantity => ~DailyLossExceeded(PnlOn(day'))]_vars

\* The state between two candles: types, the bracket of the position, the drawdown
\* reference, and PnL that is the PnL of the trades.
EngineStateHolds == TypeOK /\ BracketHolds /\ PeakDominates /\ PnlMatchesTrades

\* The order of exits, trailing and rejections in on_price: no step loosens a stop,
\* buys on a day that has lost its limit, or does more than exit while blocked.
StepsAreSafe ==
  StopNeverLoosens /\ NoBuyAfterDailyLoss /\ OnlyProtectiveExitsWhenBlocked

\* The engine's portfolio is a long-only account: every fill is a fully paid
\* opening from flat or the sale of the whole position.
Account == INSTANCE LongOnlyAccount WITH Deposit <- InitialCash
ImplementsLongOnlyAccount == Account!Spec

=============================================================================
