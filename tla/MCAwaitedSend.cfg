SPECIFICATION Spec
CONSTANTS
  SeqSpan = 2
  RingCapacity = 2
  MaxSends = 3
  MaxServers = 2
INVARIANT TypeOK
 
INVARIANT ConfirmedSound
INVARIANT QuietFirstRetried
INVARIANT WaitingIsResent
CHECK_DEADLOCK FALSE
