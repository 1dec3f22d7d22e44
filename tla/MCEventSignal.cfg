SPECIFICATION FairSpec
CONSTANTS
  Cap = 2
  Batches = {1, 3}
  Budgets = {1, 9}
  MaxEvents = 6
INVARIANTS TypeOK EventsNeverStranded OneCallbackPerPoll RingNeverOverfilled
PROPERTY EveryEventDispatched
CHECK_DEADLOCK FALSE
