SPECIFICATION FairSpec
CONSTANTS
  Sensor = {s1, s2}
  IdSize = 2
  ValueSize = 1
  TsSize = 1
  Window = 2
  TIMEOUT = 1
  Expired = 2
PROPERTIES
  TornOnlyIfCut
  ImplementsService
  StuckOnlyInReceive
  EveryConnectionEnds
  ServerCloses
