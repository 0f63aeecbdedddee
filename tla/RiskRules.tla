------------------------------ MODULE RiskRules ------------------------------
(***************************************************************************)
(* The arithmetic the paper engine and the trade-level replay share: what  *)
(* a fill costs or yields, the guards, position sizing and the exit levels *)
(* of domain/risk.  None of it depends on state.                           *)
(*                                                                         *)
(* The code uses floats; here every amount is an exact integer.  A price p *)
(* is a natural number, stops and execution prices are counted in          *)
(* 1/SlipDen of it and money in 1/(SlipDen*FeeDen), so that neither        *)
(* slippage nor fees round.  Quantities are whole lots: sizing rounds down *)
(* to a lot and a position smaller than a lot is not modelled.             *)
(* Percentages are per mille.                                              *)
(***************************************************************************)
EXTENDS Integers

CONSTANTS
  Capital,           \* RiskConfig.capital, in price units
  SlipNum, SlipDen,  \* SlippageModel.rate
  FeeNum, FeeDen,    \* FeeModel.taker_rate
  AllocPm,           \* RiskConfig.max_position_allocation
  LeveragePm,        \* RiskConfig.leverage
  DailyLossPm,       \* RiskConfig.max_daily_loss
  DrawdownPm,        \* RiskConfig.max_drawdown
  StopLossRequired,  \* RiskConfig.stop_loss_required
  StopAtr, TargetR, TrailAtr, \* the three exit multipliers of RiskConfig
  BudgetPm           \* intensity -> RiskConfig.*_risk_pct

Larger(a, b) == IF a >= b THEN a ELSE b
Smaller(a, b) == IF a <= b THEN a ELSE b

-----------------------------------------------------------------------------
(* Money: what a fill costs or yields, fees and slippage included.         *)

Money == SlipDen * FeeDen              \* one price unit, in money units
InitialCash == Capital * Money
BuyPrice(p) == p * (SlipDen + SlipNum)   \* in 1/SlipDen
SellPrice(p) == p * (SlipDen - SlipNum)
BuyCost(q, p) == q * BuyPrice(p) * (FeeDen + FeeNum)
SellProceeds(q, p) == q * SellPrice(p) * (FeeDen - FeeNum)

-----------------------------------------------------------------------------
(* The guards, the size of a position and its exit levels.                 *)

DailyLossExceeded(pnl) == 1000 * pnl <= -(InitialCash * DailyLossPm)

DrawdownExceeded(top, equity) ==
  /\ equity <= top
  /\ 1000 * (top - equity) >= DrawdownPm * top

\* The scale the drawdown puts on the risk budget, in whole percents.
DrawdownScale(top, equity) ==
  IF equity >= top THEN 100
  ELSE (100 * (DrawdownPm * top - 1000 * (top - equity))) \div (DrawdownPm * top)

MaxNotional == Smaller(AllocPm, 1000 - LeveragePm) * Capital

\* The largest number of lots whose notional stays within the allocation.
AllocatedLots(p) == MaxNotional \div (1000 * p)

PositionSize(i, p, a, top, equity) ==
  IF a = 0 THEN AllocatedLots(p)
  ELSE Smaller((Capital * BudgetPm[i] * DrawdownScale(top, equity))
                 \div (100000 * StopAtr * a),
               AllocatedLots(p))

\* initial_stop and take_profit of an entry at price p, for an ATR above zero.
InitialStop(p, a) == (p - StopAtr * a) * SlipDen
TakeProfit(p, a) == (p + TargetR * StopAtr * a) * SlipDen
=============================================================================
