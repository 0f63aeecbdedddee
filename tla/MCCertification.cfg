CONSTANTS
  MaxTime = 3
  MaxCrashes = 1
  MaxSessions = 2
  CandlesPerDay = 2
  Builds = {1, 2}
  ArchiveFirst = TRUE
  QuietEdits = TRUE
SPECIFICATION FairSpec
CHECK_DEADLOCK FALSE
INVARIANTS
  AnchorIsTheStart EvidenceIsItsOwn
PROPERTIES
  InvalidatedUntilStart EventsAudited
