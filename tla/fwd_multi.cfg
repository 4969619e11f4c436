SPECIFICATION Spec
CONSTANTS
  Mode = "multi"
  Criterion <- MCCriterion
  DelayOn <- MCDelayOn
  Delays <- MCDelays
  Resolvable <- MCResolvable
  Faulty = TRUE
  MaxReceived = 2
  MaxTime = 2
INVARIANTS TypeOK SlotsReady ReleaseWindow OwnLaneRouted InOrder LinkRespected
