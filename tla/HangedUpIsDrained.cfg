SPECIFICATION Spec
CONSTANTS
  Sensor = {s1}
  IdSize = 1
  ValueSize = 1
  TsSize = 1
  Window = 3
  TIMEOUT = 1
  Expired = 2
PROPERTIES
  HangedUpIsDrained
