\* Everything the environment may do.
SPECIFICATION Spec
CONSTANTS
  MaxCandles = 4
  MaxStops = 2
  Revised = {2}
  LateAck = TRUE
  Disconnects = TRUE
  KillToggles = TRUE
INVARIANTS
  SessionIsReplayable NoEvidenceBeforeStart
PROPERTIES
  ImplementsDecisionJournal
