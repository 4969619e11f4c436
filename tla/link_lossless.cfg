SPECIFICATION FairSpec
CONSTANTS
  RxCap = 6
  Faulty = FALSE
  W = 2
  CountMod = 16
  ByteBase = 4
  Place <- MCPlace
  MaxStray = 1
  MaxDisables = 0
  PipeDepth = 1
  CounterMod = 4
  LittleEndian = TRUE
  Codes = {"hk", "config"}
  ConfigWords <- MCOneWord
  MaxCommands = 4
INVARIANTS LagIsPermanent
PROPERTIES RequestsAnswered
CHECK_DEADLOCK FALSE
