SPECIFICATION Spec
CONSTANTS
  RxCap = 2
  Faulty = TRUE
  W = 2
  CountMod = 4
  ByteBase = 2
  Place <- MCPlace
  MaxStray = 1
  MaxDisables = 1
  PipeDepth = 1
  CounterMod = 2
  LittleEndian = TRUE
  Codes = {"hk", "config"}
  ConfigWords <- MCTwoWords
  MaxCommands = 3
INVARIANTS TypeOK AnswersInOrder SkewBounded NoMixedConfig DisableClears
PROPERTIES ServiceSpec ReportsAdvance
CHECK_DEADLOCK FALSE
