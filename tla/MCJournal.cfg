\* The whole capital in one position at a fee of 2%: a buy that is cut to
\* the cash may still cost more, and on_price raises.
SPECIFICATION JournalSpec
CONSTANTS
  Capital = 40
  SlipNum = 1
  SlipDen = 10
  FeeNum = 1
  FeeDen = 50
  AllocPm = 1000
  LeveragePm = 0
  DailyLossPm = 500
  DrawdownPm = 500
  MaxOpenPositions = 1
  StopLossRequired = FALSE
  StopAtr = 2
  TargetR = 2
  TrailAtr = 3
  BudgetPm <- MCBudget
  Prices = {4, 5, 10}
  Atrs = {0, 1}
  DayLength = 2
  MaxTimestamp = 5
  MaxTicks = 4
  Wicks = {1}
  MaxTampers = 1
CHECK_DEADLOCK FALSE
INVARIANTS
  CashNeverNegative EvaluationIsOfTrades AuditExplainsExits VerdictTellsDamage
