\* A connection that never breaks and a subscription served at once.
SPECIFICATION FairSpec
CONSTANTS
  MaxCandles = 4
  MaxStops = 2
  Revised = {}
  LateAck = FALSE
  Disconnects = FALSE
  KillToggles = FALSE
INVARIANTS
  RestartIsSeamless
PROPERTIES
  EveryCandlePersisted
