SPECIFICATION Spec
CONSTANTS
  Mode = "tcp"
  Criterion <- MCCriterion
  DelayOn <- MCDelayOn
  Delays <- MCDelays
  Resolvable <- Dest
  Faulty = FALSE
  MaxReceived = 1
  MaxTime = 3
INVARIANTS Routed
