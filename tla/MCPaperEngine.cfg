\* The default rules (one position, stop required) over two UTC days.
SPECIFICATION Spec
CONSTANTS
  Capital = 100
  SlipNum = 1
  SlipDen = 10
  FeeNum = 1
  FeeDen = 10
  AllocPm = 200
  LeveragePm = 0
  DailyLossPm = 20
  DrawdownPm = 70
  MaxOpenPositions = 1
  StopLossRequired = TRUE
  StopAtr = 2
  TargetR = 2
  TrailAtr = 3
  BudgetPm <- MCBudget
  Prices = {4, 8, 16}
  Atrs = {0, 1, 2}
  DayLength = 2
  MaxTimestamp = 3
  MaxTicks = 5
INVARIANTS
  NoUnmanagedExposure BooksBalance LossBounded EngineStateHolds
PROPERTIES
  HaltIsFinal StepsAreSafe ImplementsLongOnlyAccount
