SPECIFICATION FairSpec
CONSTANTS
  RxCap = 2
  Faulty = FALSE
  W = 2
  CountMod = 16
  ByteBase = 4
  Place <- MCPlace
  MaxStray = 0
  MaxDisables = 1
  PipeDepth = 1
  CounterMod = 4
  LittleEndian = TRUE
  Codes = {"hk"}
  ConfigWords <- MCOneWord
  MaxCommands = 2
PROPERTIES DarkRequestFails
CHECK_DEADLOCK FALSE
