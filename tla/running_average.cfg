SPECIFICATION Spec
CONSTANTS
  SensorMap <- MCSensorMap
  Id <- MCId
  Temperature <- MCTemperature
  RUN_AVG_LENGTH = 3
  SET_MIN_TEMP = 19
  SET_MAX_TEMP = 21
INVARIANTS
  TypeOK
  MeanUnlessZero
  AverageIsJustified
