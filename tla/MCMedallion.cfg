\* The refresh, killed or failing in the middle of a write and resumed, and an operator
\* who waits for it; the range runs into the frozen splits.
SPECIFICATION Spec
CONSTANTS
  LastDay = 3
  Class <- MCFrozen
  StartDay = 1
  FutureScope = TRUE
  Timeframes <- MCTimeframes
  Workers = {"refresh", "cli"}
  OneAtATime = TRUE
  MaxRevisions = 1
  MaxFailures = 0
  MaxInterrupts = 1
INVARIANTS
  LayersAgree FrozenSplitsUntouched OkMeansCompleteButTorn
