SPECIFICATION FairSpec
CONSTANTS
  Coords = {c1, c2}
  Interval = 2
  Attempts = 3
  Backoff = 2
  Steps = {1, 3}
  Outcomes <- MCOutcomes
  MaxEdits = 3
INVARIANTS TypeOK CountAgrees RetryStateOnlyDirty 
PROPERTIES FlushSettles 
CHECK_DEADLOCK FALSE
