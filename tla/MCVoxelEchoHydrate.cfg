SPECIFICATION Spec
CONSTANTS
  Clients = {c1, c2}
  Setups <- MCHydrated
INVARIANT AcceptedShown
CHECK_DEADLOCK FALSE
