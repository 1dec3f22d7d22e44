SPECIFICATION Spec
CONSTANTS
  Clients = {c1, c2}
  Setups <- MCSetups
SYMMETRY Symmetry
INVARIANTS TypeOK Converged  OnlyAccepted
 
CHECK_DEADLOCK FALSE
