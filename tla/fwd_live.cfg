SPECIFICATION FairSpec
CONSTANTS
  Mode = "multi"
  Criterion <- MCCriterion
  DelayOn <- MCDelayOn
  Delays <- MCDelays
  Resolvable <- Dest
  Faulty = FALSE
  MaxReceived = 1
  MaxTime = 2
PROPERTIES OpenLinkDelivers
