SPECIFICATION Spec
CONSTANTS
  Item = {a, b}
  Capacity = 3
  Laps = 2
  MaxPush = 9
  None = None
INVARIANTS TypeOK NoSlotRace FifoOrder
PROPERTY RefinesFifo
