SPECIFICATION FairSpec
CONSTANTS
  Criterion <- MCOpen
  Delays <- MCDelays
  Faulty = {}
  SigpipeIgnored = FALSE
  UdpCap = 2
  SndCap = 1
  MaxRetries = 0
  MaxOffered = 2
  MaxTime = 2
PROPERTIES NoGaps Arrives
CHECK_DEADLOCK FALSE
