SPECIFICATION Spec
CONSTANTS
  Criterion <- MCCriterion
  Delays <- MCDelays
  Faulty <- MCFaulty
  SigpipeIgnored = FALSE
  UdpCap = 1
  SndCap = 1
  MaxRetries = 1
  MaxOffered = 2
  MaxTime = 2
INVARIANTS TypeOK FlowOrdered
PROPERTIES TelemetryPipe CommandPipe
CHECK_DEADLOCK FALSE
