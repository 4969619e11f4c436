SPECIFICATION FairSpec
CONSTANTS
  Faulty = TRUE
  MaxInstances = 2
  MaxMessages = 2
  MaxDatagrams = 2
  MaxErrors = 1
INVARIANTS TypeOK LateForwardOnce LeaksExplained PublishedIntact
PROPERTIES ErrorEnds DatagramPublished
CHECK_DEADLOCK FALSE
