SPECIFICATION Spec
CONSTANTS
  Cap = 2
  Batches = {1, 3}
  Budgets = {1, 9}
  MaxEvents = 6
INVARIANT LaterEventsSignal
CHECK_DEADLOCK FALSE
