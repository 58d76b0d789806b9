SPECIFICATION MCPromptSpec
CONSTANTS
  Sensor = {s1, s2, s3}
  IdSize = 1
  ValueSize = 1
  TsSize = 1
  Window = 1
  TIMEOUT = 1
  Expired = 6
SYMMETRY Interchangeable
INVARIANTS
  TypeOK
  PollResultBelongs
  SilenceIsBounded
PROPERTIES
  ClosesOnlyOnSilence
