SPECIFICATION HostsSpec
CONSTANTS
  RxCap = 1
  Faulty = TRUE
  W = 2
  CountMod = 16
  ByteBase = 4
  Place <- MCPlace
  MaxStray = 1
  MaxDisables = 0
  PipeDepth = 1
  CounterMod = 2
  LittleEndian = FALSE
  Codes = {"noop", "reset", "config", "prox", "badlength", "badcode", "hk", "badtlm"}
  ConfigWords <- MCOneWord
  MaxCommands = 3
INVARIANTS HostsTypeOK CommandsAccounted FprimeAccounted ReportIsAnswer NoConfigReplay HostSkewBounded
PROPERTIES HostServiceSpec CommandsServed
CHECK_DEADLOCK FALSE
