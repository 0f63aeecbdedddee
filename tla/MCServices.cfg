\* The tools around the paper session, one after the other.
SPECIFICATION Spec
CONSTANTS
  atAnchor = atAnchor
  otherDay = otherDay
  otherKernel = otherKernel
  Commits = {atAnchor, otherDay, otherKernel}
  FirstCommit = atAnchor
  Source <- MCSource
  Kernel <- MCKernel
  Outside <- MCOutside
  DevelopmentEnd = 2
  WalkForwardEnd = 4
  TotalRows = 5
  Metrics <- MCMetrics
  BaselineMetrics <- MCBaselineMetrics
  MaxEvaluations = 2
  Holders = {1, 2}
  MaxHistory = 4
  MaxForgeries = 1
  GoldDays = {1, 2}
  MaxVersion = 2
  Layouts = {1, 2}
  QuietSilver = TRUE
  MaxChanges = 2
  Candles <- MCCandles
  BtcCloses <- MCBtcCloses
  EmaFast = 1
  EmaSlow = 2
  RsiPeriod = 2
  RsiExit = 80
  AtrPeriod = 2
  SlopeLookback = 1
  EntryLookback = 2
  ExitLookback = 1
  AdxPeriod = 1
  AdxMin = 20
  AdxMax = 60
  BollingerPeriod = 3
  VolatilityRatio <- MCVolatilityRatio
  ConfirmationCandles = 2
  MaxCandles = 6
  ClosedTrades <- MCClosedTrades
  ClosingTimes = {0, 1, 2}
  StateTimes = {1, 2, 3}
  Nearest = 1
  Costs = {1, 2}
  ExperimentLimit = 3
  MonthlyLimit = 6
  MaxRetries = 1
  Comparisons = {1, 2}
  Requests = {"r1"}
  SendRetries = 1
CHECK_DEADLOCK FALSE
INVARIANTS
  SplitsAreKept EvidenceIsBacked PromotionsAreEarned
  OutputsAreOfTheirDataset
  TrackersAreSeries NoLookAhead DiagnosticsAgree ConfirmedMeansStreak
  NoLeakage SpendingBounded OrderedOnce
