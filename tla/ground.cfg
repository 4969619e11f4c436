SPECIFICATION FairSpec
CONSTANTS
  RxCap = 1
  Faulty = FALSE
  W = 2
  CountMod = 16
  MaxStray = 0
  PipeDepth = 2
  CounterMod = 4
  LittleEndian = TRUE
  Codes = {}
  ConfigWords <- MCOneWord
  MaxCommands = 0
  MaxLosses = 3
  MaxOthers = 1
INVARIANTS TypeOK CalmPasses
PROPERTIES ExecutedOnce ScriptEnds
CHECK_DEADLOCK FALSE
