\* Two candles close between subscription and second backfill.
SPECIFICATION Spec
CONSTANTS
  MaxCandles = 4
  MaxStops = 1
  Revised = {}
  LateAck = FALSE
  Disconnects = FALSE
  KillToggles = FALSE
INVARIANT OverlapIsHarmless
