\* The refresh alone; downloads and capacity checks may fail, nothing else does.
SPECIFICATION FairSpec
CONSTANTS
  LastDay = 2
  Class <- MCFuture
  StartDay = 1
  FutureScope = TRUE
  Timeframes <- MCTimeframes
  Workers = {"refresh"}
  OneAtATime = TRUE
  MaxRevisions = 1
  MaxFailures = 2
  MaxInterrupts = 0
PROPERTY EveryDayRefreshed
