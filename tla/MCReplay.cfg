\* Both sizing modes over a tape of five trades, some in the same millisecond.
SPECIFICATION Spec
CONSTANTS
  Capital = 100
  SlipNum = 1
  SlipDen = 10
  FeeNum = 1
  FeeDen = 10
  AllocPm = 200
  LeveragePm = 0
  DailyLossPm = 20
  DrawdownPm = 70
  StopLossRequired = TRUE
  StopAtr = 2
  TargetR = 2
  TrailAtr = 1
  BudgetPm <- MCBudget
  Prices = {6, 8, 11}
  Atrs = {0, 1}
  Gaps = {0, 1, 2}
  CandleLength = 2
  DayLength = 4
  FixedLots = 1
  ScenarioIntensity = "medium"
  MaxTrades = 5
CHECK_DEADLOCK FALSE
INVARIANTS
  ExitsFollowTriggers
PROPERTIES
  FirstEligibleTrade ReplayIsLongOnlyAccount
