SPECIFICATION Spec
CONSTANTS
  Senders = {s1, s2}
  Sizes = {1, 11}
  MaxDatagram = 12
  MaxMembers = 2
  Window = 1
  MaxWait = 2
  MaxSends = 1
  MaxServers = 2
SYMMETRY Symmetry
INVARIANT SentToItsServer
