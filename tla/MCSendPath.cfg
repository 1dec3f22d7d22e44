SPECIFICATION FairSpec
CONSTANTS
  Senders = {s1, s2}
  Sizes = {1, 8, 11}
  MaxDatagram = 12
  MaxMembers = 2
  Window = 1
  MaxWait = 2
  MaxSends = 1
  MaxServers = 2
INVARIANTS TypeOK BundledInOrder NothingLost BundleFits NeverOversleeps
PROPERTY PendingLeaves
